-------------------------- MODULE ExecutionManager --------------------------
(***************************************************************************)
(* DeterministicExecutionManagerCoordinator.admit over the stores behind   *)
(* its ports.  A call evaluates its gates in order, the first that fails   *)
(* decides, and then writes to several stores one after the other; there   *)
(* is no transaction, so a write that raises leaves the earlier ones.      *)
(*                                                                         *)
(* Ids are digests of content: two values with one id are equal, and a     *)
(* repeated put changes nothing.  The exception is an order intent changed *)
(* after validation (model_copy does not validate again), which keeps the  *)
(* client order id of the original: ClientOf need not be one-to-one.       *)
(***************************************************************************)
EXTENDS OrderIntentPolicies, Integers, Sequences, FiniteSets, FiniteSetsExt

CONSTANTS
    Intents,      \* order intents
    Clients,      \* client order ids; an intent id and a record id go with each
    ClientOf,     \* the client order id of each intent
    KindOf,       \* the intent_kind of each intent
    ScopeOf,      \* its venue, instrument, account and sides
    NoIntent,     \* no order intent
    Permissions,  \* the order_flow_permissions of requests
    Checks,       \* what requests say of venue capability and provenance
    Times,        \* values of requested_at
    Reports,      \* bound: the lifecycle states the venue adapter reports
    MaxCalls,     \* bound: calls of admit
    MaxFaults     \* bound: store writes that raise

\* How a cancel or replace intent names its target.  A venue order id, or the
\* scope of a bulk cancel, resolves to no record.
Vias == {"client_order_id", "order_intent_id", "venue_order_id"}

\* The capability and provenance part of a request: what it requires, whether
\* its contexts match the order, and what the pure validators say of them.  A
\* required context is absent only from a request built without validation
\* (model_construct), the case the coordinator's own checks are there for.
CheckTypes ==
    [require_venue : BOOLEAN, require_fresh : BOOLEAN,
     context : {"none", "match", "mismatch"},
     freshness : {"none", "mismatch", "stale", "fresh"},
     order_valid : BOOLEAN, semantics_ready : BOOLEAN,
     provenance : {"not_checked", "passed", "failed"}]

ASSUME ExecutionAssumption ==
    /\ ClientOf \in [Intents -> Clients]
    /\ KindOf \in [Intents -> OrderIntentKinds]
    /\ DOMAIN ScopeOf = Intents
    /\ NoIntent \notin Intents
    /\ Permissions \subseteq SUBSET OrderFlowFlags
    /\ Checks \subseteq CheckTypes
    /\ Reports \cap {"CANCEL_REQUESTED", "REPLACE_REQUESTED"} = {}
    /\ MaxCalls \in Nat /\ MaxFaults \in Nat

VARIABLES
    journal,    \* OrderIntentJournal: order intents
    cancels,    \* OrderIntentJournal: cancel intents
    replaces,   \* OrderIntentJournal: replace intents
    events,     \* OrderLifecycleEventStore
    records,    \* ExecutionOrderRecordStore, by client order id
    proofs,     \* ExecutionReadinessProofStore
    markers,    \* ExecutionReconciliationStore
    decisions,  \* ExecutionAdmissionDecisionStore: the accepting decisions
    calls,      \* calls of admit so far
    faults      \* raising writes so far

stores == <<journal, cancels, replaces, events, records, proofs, markers, decisions>>
vars == <<stores, calls, faults>>

OL == INSTANCE OrderLifecycle WITH state <- [c \in Clients |-> records[c].state]

-----------------------------------------------------------------------------
(* Requests and stored values.                                              *)

OrderRequest ==
    [op : {"ORDER"}, intent : Intents, perm : Permissions, checks : Checks, at : Times]

CancelRequest ==
    [op : {"CANCEL"}, target : Clients, via : Vias, perm : Permissions, at : Times]

ReplaceRequest ==
    [op : {"REPLACE"}, target : Clients, via : Vias, intent : Intents,
     perm : Permissions, checks : Checks, at : Times]

CancelIntent == [target : Clients, via : Vias]

ReplaceIntent == [target : Clients, via : Vias, intent : Intents]

\* OrderLifecycleEvent; linked says whether it carries the record id.
Event ==
    [client : Clients, prev : OL!States \cup {"NONE"}, next : OL!States,
     linked : BOOLEAN]

\* ExecutionReadinessProof: its id is the digest of the request and of the
\* lifecycle events, which differ in the state the target was in.
ProofId == [request : OrderRequest \cup ReplaceRequest, prev : OL!States]

\* The proof store binds a client order id to one proof.
Proof == [client : Clients, id : ProofId]

ExecutionOrderRecord ==
    [intent : Intents, state : OL!States, last : Event, proof : ProofId]

NoRecord == [intent |-> NoIntent, state |-> "NONE"]

\* The target is the order that a cancel or a replace is about.
Decision ==
    [op : {"ORDER"}, client : Clients]
    \cup [op : {"CANCEL"}, target : Clients]
    \cup [op : {"REPLACE"}, target : Clients, client : Clients]

Marker == [op : {"CANCEL", "REPLACE"}, target : Clients, at : Times]

TypeOK ==
    /\ journal \subseteq Intents
    /\ cancels \subseteq CancelIntent
    /\ replaces \subseteq ReplaceIntent
    /\ events \subseteq Event
    /\ \A c \in Clients : records[c] \in ExecutionOrderRecord \cup {NoRecord}
    /\ DOMAIN records = Clients
    /\ proofs \subseteq Proof
    /\ markers \subseteq Marker
    /\ decisions \subseteq Decision
    /\ calls \in 0 .. MaxCalls
    /\ faults \in 0 .. MaxFaults

Init ==
    /\ journal = {} /\ cancels = {} /\ replaces = {}
    /\ events = {} /\ proofs = {} /\ markers = {} /\ decisions = {}
    /\ records = [c \in Clients |-> NoRecord]
    /\ calls = 0 /\ faults = 0

-----------------------------------------------------------------------------
(* Gates: sequences of <<fails, reason>> in the order of the early returns. *)

\* The reason of the first gate that fails, or ACCEPTED.
Verdict(gates) ==
    LET failing == {i \in DOMAIN gates : gates[i][1]}
    IN  IF failing = {} THEN "ACCEPTED" ELSE gates[Min(failing)][2]

\* _ACTIVE_TARGET_STATES
ActiveTargetStates ==
    {"ACCEPTED_BY_EXECUTION", "SUBMISSION_REQUESTED", "SUBMITTED_TO_VENUE",
     "ACKNOWLEDGED_BY_VENUE", "PARTIALLY_FILLED"}

Exists(rec) == rec.state # "NONE"

\* _is_entry_record: an absent target counts as no entry.
IsEntryRecord(rec) == Exists(rec) /\ KindOf[rec.intent] = "ENTRY"

\* _resolve_cancel_target, _resolve_replace_target: an intent id is looked up
\* in the journal first.
TargetOf(q) ==
    IF \/ q.via = "client_order_id"
       \/ q.via = "order_intent_id" /\ \E i \in journal : ClientOf[i] = q.target
    THEN records[q.target]
    ELSE NoRecord

\* Mutant: a stale snapshot is not looked at.
CapabilityGatesWithoutFreshness(k) ==
    << <<k.require_venue /\ k.context = "none", "VENUE_CAPABILITY_CONTEXT_REQUIRED">>,
       <<k.require_venue /\ k.context = "mismatch", "VENUE_CAPABILITY_CONTEXT_MISMATCH">>,
       <<k.require_venue /\ ~(k.order_valid /\ k.semantics_ready),
         "REJECTED_BY_VENUE_CAPABILITY">> >>

\* The venue part of _admit_order_intent and _admit_replace_intent and the
\* DeterministicExecutionCapabilityGate; nothing is looked at unless
\* require_venue_capability_validation.
CapabilityGates(k) ==
    LET fresh == k.require_venue /\ k.require_fresh
    IN  << <<k.require_venue /\ k.context = "none", "VENUE_CAPABILITY_CONTEXT_REQUIRED">>,
           <<k.require_venue /\ k.context = "mismatch", "VENUE_CAPABILITY_CONTEXT_MISMATCH">>,
           <<fresh /\ k.freshness = "none", "FRESHNESS_CONTEXT_REQUIRED">>,
           <<fresh /\ k.freshness = "mismatch", "FRESHNESS_CONTEXT_MISMATCH">>,
           <<fresh /\ k.freshness = "stale", "REJECTED_BY_CAPABILITY_FRESHNESS">>,
           <<k.require_venue /\ ~(k.order_valid /\ k.semantics_ready),
             "REJECTED_BY_VENUE_CAPABILITY">> >>

OrderGates(q) ==
    LET rec == records[ClientOf[q.intent]]
    IN  << <<Exists(rec) /\ rec.intent = q.intent, "IDEMPOTENT_REPLAY">>,
           <<Exists(rec), "DUPLICATE_IDEMPOTENCY_KEY">>,
           <<~OrderAllowed(KindOf[q.intent], q.perm), "REJECTED_BY_PERMISSION">>,
           <<q.checks.provenance = "failed", "REJECTED_BY_SOURCE_PROVENANCE">> >>
        \o CapabilityGates(q.checks)

CancelGates(q) ==
    LET target == TargetOf(q)
    IN  << <<~CancelAllowed(IsEntryRecord(target), q.perm), "REJECTED_BY_PERMISSION">>,
           <<~Exists(target), "RECONCILIATION_REQUIRED">>,
           <<target.state \notin ActiveTargetStates, "TARGET_ORDER_NOT_ACTIVE">> >>

ReplaceGates(q) ==
    LET target == TargetOf(q)
        rec == records[ClientOf[q.intent]]
    IN  << <<~ReplaceAllowed(IsEntryRecord(target), KindOf[q.intent], q.perm),
             "REJECTED_BY_PERMISSION">>,
           <<~Exists(target), "RECONCILIATION_REQUIRED">>,
           <<target.state \notin ActiveTargetStates, "TARGET_ORDER_NOT_ACTIVE">>,
           <<Exists(target) /\ ScopeOf[q.intent] # ScopeOf[target.intent],
             "REJECTED_BY_VALIDATION">>,
           <<Exists(rec) /\ rec.intent # q.intent, "DUPLICATE_IDEMPOTENCY_KEY">>,
           <<q.checks.provenance = "failed", "REJECTED_BY_SOURCE_PROVENANCE">> >>
        \o CapabilityGates(q.checks)

-----------------------------------------------------------------------------
(* Writes: the store calls a verdict leads to, in their order.              *)

PutEvent(client, prev, next, linked) ==
    [store |-> "event",
     value |-> [client |-> client, prev |-> prev, next |-> next, linked |-> linked]]

Put(store, value) == [store |-> store, value |-> value]

Upsert(client, rec) == [store |-> "record", client |-> client, value |-> rec]

\* _append_rejection_for_target and the REJECTED_BY_VALIDATION events of a
\* replace: written against the target's client order id, with
\* previous_state=CREATED and no record id.
PutTargetRejection(target, state) ==
    IF Exists(target)
    THEN <<PutEvent(ClientOf[target.intent], "CREATED", state, FALSE)>>
    ELSE << >>

\* Mutant: the admission reason is stored for the lifecycle state.
AcceptedRecordWithReason(intent, id) ==
    [intent |-> intent, state |-> "ACCEPTED", proof |-> id,
     last |-> PutEvent(ClientOf[intent], "CREATED", "ACCEPTED_BY_EXECUTION", TRUE).value]

\* The record of an order accepted through the given proof.
AcceptedRecord(intent, id) ==
    [intent |-> intent, state |-> "ACCEPTED_BY_EXECUTION", proof |-> id,
     last |-> PutEvent(ClientOf[intent], "CREATED", "ACCEPTED_BY_EXECUTION", TRUE).value]

\* The target of an accepted cancel or replace, with the event of its move.
PutTargetMove(target, state) ==
    PutEvent(ClientOf[target.intent], target.state, state, TRUE)

MovedTarget(target, state) ==
    [target EXCEPT !.state = state, !.last = PutTargetMove(target, state).value]

\* The verdicts that end a call before any rejection event is written.
SilentReasons == {"VENUE_CAPABILITY_CONTEXT_REQUIRED", "FRESHNESS_CONTEXT_REQUIRED"}

\* Mutant: the record is stored before the readiness proof.
OrderAcceptedRecordFirst(q) ==
    LET c == ClientOf[q.intent]
        id == [request |-> q, prev |-> "CREATED"]
    IN  <<Put("order", q.intent),
          PutEvent(c, "CREATED", "ACCEPTED_BY_EXECUTION", TRUE),
          Upsert(c, AcceptedRecord(q.intent, id)),
          Put("proof", [client |-> c, id |-> id])>>

OrderAccepted(q) ==
    LET c == ClientOf[q.intent]
        id == [request |-> q, prev |-> "CREATED"]
    IN  <<Put("order", q.intent),
          PutEvent(c, "CREATED", "ACCEPTED_BY_EXECUTION", TRUE),
          Put("proof", [client |-> c, id |-> id]),
          Upsert(c, AcceptedRecord(q.intent, id))>>

OrderWrites(q, verdict) ==
    LET c == ClientOf[q.intent]
        created == <<PutEvent(c, "NONE", "CREATED", FALSE)>>
    IN  CASE verdict \in {"IDEMPOTENT_REPLAY", "DUPLICATE_IDEMPOTENCY_KEY"} -> << >>
          [] verdict \in SilentReasons -> created
          [] verdict = "REJECTED_BY_PERMISSION" ->
                created \o <<PutEvent(c, "CREATED", verdict, FALSE)>>
          [] verdict = "ACCEPTED" -> created \o OrderAccepted(q)
          [] OTHER -> created \o <<PutEvent(c, "CREATED", "REJECTED_BY_VALIDATION", FALSE)>>

PutMarker(q) == <<Put("marker", [op |-> q.op, target |-> q.target, at |-> q.at])>>

\* Mutant: the record is updated before the cancel intent is journaled.
CancelAcceptedRecordFirst(q) ==
    LET target == TargetOf(q)
    IN  <<Upsert(ClientOf[target.intent], MovedTarget(target, "CANCEL_REQUESTED")),
          Put("cancel", [target |-> q.target, via |-> q.via]),
          PutTargetMove(target, "CANCEL_REQUESTED")>>

CancelAccepted(q) ==
    LET target == TargetOf(q)
    IN  <<Put("cancel", [target |-> q.target, via |-> q.via]),
          PutTargetMove(target, "CANCEL_REQUESTED"),
          Upsert(ClientOf[target.intent], MovedTarget(target, "CANCEL_REQUESTED"))>>

CancelWrites(q, verdict) ==
    CASE verdict = "REJECTED_BY_PERMISSION" -> PutTargetRejection(TargetOf(q), verdict)
      [] verdict = "RECONCILIATION_REQUIRED" -> PutMarker(q)
      [] verdict = "TARGET_ORDER_NOT_ACTIVE" -> << >>
      [] verdict = "ACCEPTED" -> CancelAccepted(q)

\* Mutant: the replacement becomes active before the target is retired.
ReplaceAcceptedReplacementFirst(q) ==
    LET target == TargetOf(q)
        c == ClientOf[q.intent]
        id == [request |-> q, prev |-> target.state]
    IN  <<Put("replace", [target |-> q.target, via |-> q.via, intent |-> q.intent]),
          PutTargetMove(target, "REPLACE_REQUESTED"),
          Put("order", q.intent),
          PutEvent(c, "CREATED", "ACCEPTED_BY_EXECUTION", TRUE),
          Put("proof", [client |-> c, id |-> id]),
          Upsert(c, AcceptedRecord(q.intent, id)),
          Upsert(ClientOf[target.intent], MovedTarget(target, "REPLACE_REQUESTED"))>>

ReplaceAccepted(q) ==
    LET target == TargetOf(q)
        c == ClientOf[q.intent]
        id == [request |-> q, prev |-> target.state]
    IN  <<Put("replace", [target |-> q.target, via |-> q.via, intent |-> q.intent]),
          PutTargetMove(target, "REPLACE_REQUESTED"),
          Put("order", q.intent),
          PutEvent(c, "CREATED", "ACCEPTED_BY_EXECUTION", TRUE),
          Put("proof", [client |-> c, id |-> id]),
          Upsert(ClientOf[target.intent], MovedTarget(target, "REPLACE_REQUESTED")),
          Upsert(c, AcceptedRecord(q.intent, id))>>

ReplaceWrites(q, verdict) ==
    CASE verdict = "REJECTED_BY_PERMISSION" -> PutTargetRejection(TargetOf(q), verdict)
      [] verdict = "RECONCILIATION_REQUIRED" -> PutMarker(q)
      [] verdict \in SilentReasons \cup {"TARGET_ORDER_NOT_ACTIVE", "DUPLICATE_IDEMPOTENCY_KEY"} ->
            << >>
      [] verdict = "ACCEPTED" -> ReplaceAccepted(q)
      [] OTHER -> PutTargetRejection(TargetOf(q), "REJECTED_BY_VALIDATION")

\* admit stores the decision last; a replay is an accepting decision too.
DecisionWrite(decision, verdict) ==
    IF verdict \in {"ACCEPTED", "IDEMPOTENT_REPLAY"} THEN <<Put("decision", decision)>> ELSE << >>

-----------------------------------------------------------------------------
(* Performing the writes of a call.                                         *)

\* A ready proof refuses a failed gate: asset semantics that are not ready,
\* or a fresh snapshot required without the venue validation it is part of.
ReadyProof(id) ==
    LET k == id.request.checks
    IN  /\ k.context = "none" \/ k.semantics_ready
        /\ k.require_fresh => k.require_venue

\* Mutant: the proof store lets a client order id be bound again.
ProofRebinds(p) == TRUE

\* InMemoryExecutionReadinessProofStore.put
ProofBinds(p) == \A old \in proofs : old.client = p.client => old = p

\* Mutant: a lifecycle event does not validate its transition.
RaisesUnvalidated(w) ==
    \/ /\ w.store = "order"
       /\ \E i \in journal : i # w.value /\ ClientOf[i] = ClientOf[w.value]
    \/ w.store = "proof" /\ ~(ReadyProof(w.value.id) /\ ProofBinds(w.value))

\* The stores and the values they are given raise: an invalid transition, an
\* intent id with another payload, a proof that is not ready or comes second.
Raises(w) ==
    \/ w.store = "event" /\ <<w.value.prev, w.value.next>> \notin OL!Allowed
    \/ /\ w.store = "order"
       /\ \E i \in journal : i # w.value /\ ClientOf[i] = ClientOf[w.value]
    \/ w.store = "proof" /\ ~(ReadyProof(w.value.id) /\ ProofBinds(w.value))

\* How many writes of a call succeed: all before the first that raises.
Succeeding(writes) ==
    LET raising == {i \in DOMAIN writes : Raises(writes[i])}
    IN  IF raising = {} THEN Len(writes) ELSE Min(raising) - 1

\* What the first n writes put into a store.
Written(writes, n, store) ==
    {writes[i].value : i \in {j \in 1 .. n : writes[j].store = store}}

\* The record store after the first n writes.
Upserted(writes, n) ==
    [c \in Clients |->
        LET ups == {j \in 1 .. n : writes[j].store = "record" /\ writes[j].client = c}
        IN  IF ups = {} THEN records[c] ELSE writes[Max(ups)].value]

\* The call ends at the write that raises of itself, or at an earlier one
\* that a store fails to make.
Perform(writes) ==
    /\ calls < MaxCalls
    /\ calls' = calls + 1
    /\ \E n \in 0 .. Succeeding(writes) :
        /\ IF n = Succeeding(writes)
           THEN faults' = faults
           ELSE faults < MaxFaults /\ faults' = faults + 1
        /\ journal' = journal \cup Written(writes, n, "order")
        /\ cancels' = cancels \cup Written(writes, n, "cancel")
        /\ replaces' = replaces \cup Written(writes, n, "replace")
        /\ events' = events \cup Written(writes, n, "event")
        /\ proofs' = proofs \cup Written(writes, n, "proof")
        /\ markers' = markers \cup Written(writes, n, "marker")
        /\ decisions' = decisions \cup Written(writes, n, "decision")
        /\ records' = Upserted(writes, n)

AdmitOrder(q) ==
    LET verdict == Verdict(OrderGates(q))
    IN  Perform(OrderWrites(q, verdict)
                \o DecisionWrite([op |-> q.op, client |-> ClientOf[q.intent]], verdict))

AdmitCancel(q) ==
    LET verdict == Verdict(CancelGates(q))
    IN  Perform(CancelWrites(q, verdict)
                \o DecisionWrite([op |-> q.op, target |-> q.target], verdict))

AdmitReplace(q) ==
    LET verdict == Verdict(ReplaceGates(q))
    IN  Perform(ReplaceWrites(q, verdict)
                \o DecisionWrite([op |-> q.op, target |-> q.target,
                                  client |-> ClientOf[q.intent]], verdict))

\* The venue adapter (deferred in the repository) reports the next state of a
\* submitted order, which the contract of OrderLifecycleEvent validates.
VenueReport(c, next) ==
    LET rec == records[c]
    IN  /\ Exists(rec)
        /\ <<rec.state, next>> \in OL!Allowed
        /\ events' = events \cup {PutTargetMove(rec, next).value}
        /\ records' = [records EXCEPT ![c] = MovedTarget(rec, next)]
        /\ UNCHANGED <<journal, cancels, replaces, proofs, markers, decisions, calls, faults>>

Next ==
    \/ \E q \in OrderRequest : AdmitOrder(q)
    \/ \E q \in CancelRequest : AdmitCancel(q)
    \/ \E q \in ReplaceRequest : AdmitReplace(q)
    \/ \E c \in Clients, next \in Reports : VenueReport(c, next)

Spec == Init /\ [][Next]_vars

-----------------------------------------------------------------------------
(* Properties.                                                              *)

\* Whatever write raised, a stored record rests on everything the coordinator
\* writes before it: the journaled intent, the acceptance event, the event of
\* its present state and the one proof bound to its client order id.  (A
\* record without them would be an order execution cannot account for.)
RecordBacked ==
    \A c \in Clients : Exists(records[c]) =>
        /\ records[c].intent \in journal /\ ClientOf[records[c].intent] = c
        /\ PutEvent(c, "CREATED", "ACCEPTED_BY_EXECUTION", TRUE).value \in events
        /\ records[c].last \in events
        /\ records[c].last.client = c /\ records[c].last.next = records[c].state
        /\ [client |-> c, id |-> records[c].proof] \in proofs

\* The request behind the proof of every record passed every gate it asked
\* for, through all retries: runtime permission for the order's kind, source
\* provenance, venue capability, and a fresh snapshot when required.
RecordsPassedEveryGate ==
    \A c \in Clients : Exists(records[c]) =>
        LET q == records[c].proof.request
            k == q.checks
            kind == KindOf[records[c].intent]
        IN  /\ q.intent = records[c].intent
            /\ kind = "ENTRY" => /\ "allow_new_entries" \in q.perm
                                 /\ q.perm \cap {"guardian_required",
                                        "manual_intervention_required"} = {}
            /\ k.provenance # "failed"
            /\ k.require_venue => k.context = "match" /\ k.order_valid /\ k.semantics_ready
            /\ k.require_fresh => k.require_venue /\ k.freshness = "fresh"

\* An order admitted as a replacement is never live together with the order
\* it replaces, even when a store fails between the two record updates.
NoDoubleExposure ==
    \A c \in Clients :
        Exists(records[c]) /\ records[c].proof.request.op = "REPLACE" =>
            LET target == records[records[c].proof.request.target]
            IN  Exists(target) /\ target.state \notin ActiveTargetStates

\* A record asks the venue for a cancel only if a cancel intent for it is
\* journaled, and for a replace only if the replace intent and the
\* replacement are journaled and the replacement has its readiness proof.
RequestsAreJournaled ==
    \A c \in Clients :
        /\ records[c].state = "CANCEL_REQUESTED" => \E k \in cancels : k.target = c
        /\ records[c].state = "REPLACE_REQUESTED" =>
            \E r \in replaces :
                /\ r.target = c
                /\ r.intent \in journal
                /\ \E p \in proofs : p.client = ClientOf[r.intent] /\ p.id.request.op = "REPLACE"

\* What admit answered stays true through every later call, replay and venue
\* report: an accepted order has a record, an accepted cancel or replace left
\* its target inactive for good, and an accepted replacement has a record.
AcceptancesHold ==
    \A d \in decisions :
        /\ d.op \in {"ORDER", "REPLACE"} => Exists(records[d.client])
        /\ d.op \in {"CANCEL", "REPLACE"} =>
            Exists(records[d.target]) /\ records[d.target].state \notin ActiveTargetStates

\* The coordinator implements the lifecycle contract: a record appears
\* accepted and moves along the allowed transitions only, so that no retried
\* or repeated request brings a canceled, replaced or filled order back.
ImplementsLifecycle == OL!Spec
=============================================================================

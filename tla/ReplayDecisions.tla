--------------------------- MODULE ReplayDecisions ---------------------------
(***************************************************************************)
(* ReplayDecisionStackHandler: a decision stack in a replay.  The handler   *)
(* is made over a stack, a market lookup and an evidence lookup that others *)
(* own and may change at any time.  It freezes what they are when it is     *)
(* made, and for every event checks again and again that they still are,    *)
(* looks up the market and the evidence, asks the stack and hands over its  *)
(* decisions as outputs.  LocalReplayDecisionJournal reads them back.       *)
(*                                                                          *)
(* One run of the replay runtime with this handler alone: its calls, its    *)
(* stores and its races are those of ReplayRuntime, of which a step over    *)
(* one event is kept here.  A call may raise or die at any point.           *)
(***************************************************************************)
EXTENDS ReplayMarketFrames

CONSTANTS
    Stacks,         \* the versions of the decision stack, by number
    Decides(_, _),  \* what a version decides on the evidence it is shown
    MaxReloads      \* bound: changes of what a lookup serves

VARIABLES
    market,    \* the market timeline the market lookup serves
    evidence,  \* the evidence timeline the evidence lookup serves
    stack,     \* the version of the decision stack
    reloads,   \* changes of the lookups so far
    handler,   \* the handler: what it froze when it was made
    run,       \* the run: timeline, dispatcher fingerprint, next event
    call,      \* the step under way
    outputs    \* InMemoryReplayEventOutputRecordStore

frameVars == <<frames, evidenced>>
portVars == <<market, evidence, stack, reloads>>
runVars == <<handler, run, call, outputs>>
vars == <<frames, evidenced, market, evidence, stack, reloads, handler, run, call, outputs>>

NoRun == [timeline |-> None]
Idle == [phase |-> "idle"]

Init ==
    /\ FramesInit
    /\ market = None /\ evidence = None /\ stack = 1 /\ reloads = 0
    /\ handler = None /\ run = NoRun /\ call = Idle /\ outputs = {}

-----------------------------------------------------------------------------
(* What others do.                                                          *)

\* Market timelines and evidence timelines are built.
Build ==
    /\ \/ \E t \in DOMAIN Timelines, batches \in BatchSets, d \in Descriptors,
             bs \in BindingSets : BuildFrames(t, batches, d, bs)
       \/ \E m \in DOMAIN frames : BuildEvidence(m)
    /\ UNCHANGED <<portVars, runVars>>

\* A lookup is made, or made again, over another timeline.
ReloadMarket(m) ==
    /\ m # market /\ (market # None => reloads < MaxReloads)
    /\ market' = m
    /\ reloads' = IF market = None THEN reloads ELSE reloads + 1
    /\ UNCHANGED <<frameVars, evidence, stack, runVars>>

ReloadEvidence(m) ==
    /\ m # evidence /\ (evidence # None => reloads < MaxReloads)
    /\ evidence' = m
    /\ reloads' = IF evidence = None THEN reloads ELSE reloads + 1
    /\ UNCHANGED <<frameVars, market, stack, runVars>>

\* The stack becomes its next version.  A version never comes back: nothing in
\* a decision tells which version made it, so a stack that was another one
\* only while it decided could not be told from one that did not change.
UpgradeStack ==
    /\ stack + 1 \in DOMAIN Stacks
    /\ stack' = stack + 1
    /\ UNCHANGED <<frameVars, market, evidence, reloads, runVars>>

-----------------------------------------------------------------------------
(* The handler and its run.                                                 *)

\* ReplayDecisionStackHandler.__init__.  Nothing compares the market timeline
\* of the evidence with that of the market lookup.
NewHandler ==
    /\ call = Idle
    /\ market # None /\ evidence # None
    /\ Stacks[stack] \subseteq KindsOf(market) \cap KindsOf(evidence)
    /\ handler' = [stack |-> stack, market |-> market, evidence |-> evidence]
    /\ UNCHANGED <<frameVars, portVars, run, call, outputs>>

\* Mutant: the fingerprint is that of the stack alone.
FingerprintOfStack(h) == [stack |-> h.stack]

\* build_replay_decision_handler_fingerprint
Fingerprint(h) == [stack |-> h.stack, market |-> h.market, evidence |-> h.evidence]

\* create_run and start_run, with the handler's dispatcher.
CreateRun(t) ==
    /\ run = NoRun /\ handler # None
    /\ Timelines[t].status = "BUILT"
    /\ run' = [timeline |-> t, dispatcher |-> Fingerprint(handler), next |-> 1]
    /\ UNCHANGED <<frameVars, portVars, handler, call, outputs>>

EventAt(i) == Timelines[run.timeline].events[i]

\* _require_stack_metadata_unchanged
StackUnchanged == stack = handler.stack

\* _require_lookup_descriptor_unchanged, _require_lookup_authority_unchanged
MarketUnchanged ==
    /\ MarketDescriptor(market) = MarketDescriptor(handler.market)
    /\ MarketAuthority(market) = MarketAuthority(handler.market)

\* The same of the evidence lookup.
EvidenceUnchanged ==
    /\ EvidenceDescriptor(evidence) = EvidenceDescriptor(handler.evidence)
    /\ EvidenceAuthority(evidence) = EvidenceAuthority(handler.evidence)

LookupsUnchanged == MarketUnchanged /\ EvidenceUnchanged

\* A check fails, and handle raises: the step ends and nothing is undone.
OrRaises(holds, goes) == IF holds THEN goes ELSE call' = Idle

\* step_run with a matching dispatcher, up to the first lookup.  An event of
\* another kind has no handler and no outputs.
StepRun ==
    /\ call = Idle /\ run # NoRun
    /\ run.next \in DOMAIN Timelines[run.timeline].events
    /\ run.dispatcher = Fingerprint(handler)
    /\ IF EventAt(run.next).kind \in Stacks[handler.stack]
       THEN StackUnchanged /\ LookupsUnchanged /\ call' = [phase |-> "market"]
       ELSE call' = [phase |-> "save", outs |-> << >>]
    /\ UNCHANGED <<frameVars, portVars, handler, run, outputs>>

\* ReplayDecisionStackContext: what the stack is shown of the event
StackContext(result) ==
    [event_order_index |-> run.next, evidence |-> result.entry.projection.evidence_set]

\* The market lookup answers for this event with an entry of the frozen
\* authority; then both lookups are checked.
LookupMarket ==
    /\ call.phase = "market"
    /\ OrRaises(/\ MarketAnswers(market, run.timeline, run.next)
                /\ InMarketAuthority(handler.market, MarketResult(market, run.next))
                /\ LookupsUnchanged,
                call' = [phase |-> "evidence", market |-> MarketResult(market, run.next).entry])
    /\ UNCHANGED <<frameVars, portVars, handler, run, outputs>>

\* _require_market_and_evidence_context_match
ContextsMatch(entry, result) ==
    /\ result.entry.projection.market_lookup_entry = entry
    /\ result.entry.projection.evidence_set.source_frame = entry.frame

\* So does the evidence lookup, for the same frame; then the lookups and the
\* stack are checked and the context of the decision is built.
LookupEvidence ==
    /\ call.phase = "evidence"
    /\ OrRaises(/\ EvidenceAnswers(evidence, run.timeline, run.next)
                /\ InEvidenceAuthority(handler.evidence, EvidenceResult(evidence, run.next))
                /\ ContextsMatch(call.market, EvidenceResult(evidence, run.next))
                /\ LookupsUnchanged /\ StackUnchanged,
                call' = [phase |-> "decide", context |->
                            StackContext(EvidenceResult(evidence, run.next))])
    /\ UNCHANGED <<frameVars, portVars, handler, run, outputs>>

\* DecisionStackPort.decide, by whatever the stack is now.
Decide ==
    /\ call.phase = "decide"
    /\ call' = [phase |-> "accept", context |-> call.context,
                decisions |-> Decides(stack, call.context.evidence.items)]
    /\ UNCHANGED <<frameVars, portVars, handler, run, outputs>>

\* ReplayDecisionMarketContextReference
MarketReference(context, h) ==
    [market_timeline_id |-> h.market, event_order_index |-> context.event_order_index,
     frame |-> context.evidence.source_frame]

\* ReplayDecisionEvidenceContextReference
EvidenceReference(context, h) ==
    [evidence_timeline_id |-> h.evidence, items |-> context.evidence.items]

\* Mutant: decisions of one event share their id.
DecisionIdOfEvent(context, h, n) ==
    [handler |-> Fingerprint(h), market_context |-> MarketReference(context, h),
     evidence_context |-> EvidenceReference(context, h)]

\* build_replay_decision_intent_id
DecisionId(context, h, n) ==
    [handler |-> Fingerprint(h), market_context |-> MarketReference(context, h),
     evidence_context |-> EvidenceReference(context, h), decision_index |-> n]

\* _envelope_for_output.  The stack gives its decision the id, and the envelope
\* refuses another one.
EnvelopeOf(context, n, decision) ==
    [event_order_index |-> context.event_order_index, timeline_id |-> run.timeline,
     dispatcher |-> run.dispatcher, stack |-> handler.stack,
     market |-> MarketReference(context, handler),
     evidence |-> EvidenceReference(context, handler),
     decision_index |-> n, decision_kind |-> decision.kind,
     decision_intent_id |-> DecisionId(context, handler, n)]

\* build_replay_decision_output_proposal, and the record the dispatcher makes.
RecordOfOutput(context, n, decision) ==
    [event_order_index |-> run.next, handler_id |-> Fingerprint(handler),
     handler_version |-> handler.stack, handler_output_index |-> n,
     output_kind |-> decision.kind, payload |-> EnvelopeOf(context, n, decision)]

DecisionKinds == {"DECISION_INTENT", "NO_TRADE_DECISION"}

\* The checks after decide: nothing changed, a tuple of at least one decision,
\* every one of a known kind with the id and the authority of its context.
Accept ==
    /\ call.phase = "accept"
    /\ OrRaises(/\ StackUnchanged /\ LookupsUnchanged
                /\ call.decisions \in Seq(Range(call.decisions)) /\ call.decisions # << >>
                /\ \A n \in DOMAIN call.decisions :
                    call.decisions[n].kind \in DecisionKinds /\ call.decisions[n].conforms,
                call' = [phase |-> "save",
                         outs |-> [n \in DOMAIN call.decisions |->
                                    RecordOfOutput(call.context, n, call.decisions[n])]])
    /\ UNCHANGED <<frameVars, portVars, handler, run, outputs>>

\* step_run saves the outputs one by one; an equal record is kept once.
SaveOutput ==
    /\ call.phase = "save" /\ call.outs # << >>
    /\ outputs' = outputs \cup {Head(call.outs)}
    /\ call' = [call EXCEPT !.outs = Tail(@)]
    /\ UNCHANGED <<frameVars, portVars, handler, run>>

\* Last it moves the run on.
Advance ==
    /\ call.phase = "save" /\ call.outs = << >>
    /\ run' = [run EXCEPT !.next = @ + 1]
    /\ call' = Idle
    /\ UNCHANGED <<frameVars, portVars, handler, outputs>>

\* The process dies, or the stack or a store raises.
Die ==
    /\ call # Idle
    /\ call' = Idle
    /\ UNCHANGED <<frameVars, portVars, handler, run, outputs>>

\* The lookups, the stack, the handler and the run.
Replay ==
    \/ \E m \in DOMAIN frames : ReloadMarket(m)
    \/ \E m \in evidenced : ReloadEvidence(m)
    \/ UpgradeStack
    \/ NewHandler
    \/ \E t \in DOMAIN Timelines : CreateRun(t)
    \/ StepRun
    \/ LookupMarket
    \/ LookupEvidence
    \/ Decide
    \/ Accept
    \/ SaveOutput
    \/ Advance
    \/ Die

Next == Build \/ Replay

Spec == Init /\ [][Next]_vars

-----------------------------------------------------------------------------
(* The journal.                                                             *)

\* The stack and lookups that an envelope names.
FrozenBy(e) ==
    [stack |-> e.stack, market |-> e.market.market_timeline_id,
     evidence |-> e.evidence.evidence_timeline_id]

\* decode_replay_decision_output_record does not raise
Decodes(o) ==
    LET e == o.payload
    IN  /\ o.output_kind \in DecisionKinds
        /\ e.event_order_index = o.event_order_index
        /\ e.timeline_id = run.timeline /\ e.dispatcher = run.dispatcher
        /\ o.handler_id = Fingerprint(FrozenBy(e))
        /\ o.handler_version = e.stack
        /\ o.handler_output_index = e.decision_index
        /\ o.output_kind = e.decision_kind

\* LocalReplayDecisionJournal.decisions_for_event
DecisionsForEvent(i) ==
    {o.payload : o \in {p \in outputs : p.event_order_index = i /\ Decodes(p)}}

-----------------------------------------------------------------------------
(* Properties.                                                              *)

\* The event's stream: what a source says of one kind about one instrument.
StreamOf(m, i) ==
    LET e == EventAt(i)
        b == CHOOSE b \in frames[m].bindings : BindsTo(b, e)
    IN  <<b.source, b.venue_instrument, e.kind>>

\* The events a decision on event i may know: up to i, of kinds the adapter
\* projects, about the same logical instrument.
Past(m, i) ==
    {j \in 1 .. i :
        /\ EventAt(j).kind \in KindsOf(m)
        /\ StreamOf(m, j)[2].logical_instrument = StreamOf(m, i)[2].logical_instrument}

\* Every decision was taken on exactly the last event of each stream up to its
\* own, none later even at the same time, and its evidence comes from these and
\* from all of them: no look-ahead and nothing dropped.
DecisionSeesThePast ==
    \A o \in outputs :
        LET e == o.payload
            m == e.market.market_timeline_id
            past == Past(m, e.event_order_index)
            latest == {j \in past : \A k \in past : k > j => StreamOf(m, k) # StreamOf(m, j)}
        IN  /\ {x.order_index : x \in Range(e.market.frame.observations)} = latest
            /\ {x.origin : x \in e.evidence.items} = latest

\* All decisions of a run were taken by one version of the stack on one market
\* timeline and on the evidence of that timeline, and are what this version
\* decides there, whatever was reloaded, upgraded or restarted between and
\* during its steps.
RunDecidedOnOneView ==
    \A o, p \in outputs :
        LET e == o.payload
            m == FrozenBy(e).market
        IN  /\ FrozenBy(e) = FrozenBy(p.payload)
            /\ FrozenBy(e).evidence = m
            /\ e.market.frame = MarketResult(m, e.event_order_index).entry.frame
            /\ e.decision_kind = Decides(e.stack, e.evidence.items)[e.decision_index].kind

\* The journal reads every stored output of the run; a processed event the
\* stack supports has decisions numbered without a gap, and no two stored
\* decisions share an id, whichever calls died after writing some of them.
DecisionsJournaledOnce ==
    /\ \A o \in outputs : Decodes(o)
    /\ \A o, p \in outputs :
            o.payload.decision_intent_id = p.payload.decision_intent_id => o = p
    /\ run # NoRun =>
        \A i \in 1 .. run.next - 1 :
            EventAt(i).kind \in Stacks[run.dispatcher.stack] =>
                LET numbers == {d.decision_index : d \in DecisionsForEvent(i)}
                IN  numbers # {} /\ numbers = 1 .. Cardinality(numbers)
=============================================================================

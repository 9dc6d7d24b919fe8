------------------------ MODULE ReplayDecisionsProofs ------------------------
(***************************************************************************)
(* Theorems about ReplayDecisions, for every timeline, stack and binding,   *)
(* any number of market timelines and reloads.                              *)
(*                                                                          *)
(* Everything a run stores is a function of three values that no step       *)
(* changes once the run exists: its timeline, the fingerprint of its        *)
(* handler, and the market timeline this names.  The invariant says so of   *)
(* every stored output, and of what a step under way has gathered.  That a  *)
(* frame is the past of its event follows from what building it checked.    *)
(***************************************************************************)
EXTENDS ReplayDecisions, FiniteSetTheorems, SequenceTheorems, WellFoundedInduction, TLAPS

-----------------------------------------------------------------------------
(* What a run sees.                                                         *)

\* A market timeline that is built has a frame per event it supports, each
\* projected by consistent bindings and in the frame it triggers.
Built(f) ==
    \E t, batches, d, bs :
        /\ t \in DOMAIN Timelines
        /\ f = FrameTimeline(t, d, bs, ObservationsOf(t, batches, d, bs))
        /\ ValidDescriptor(d) /\ ConsistentBindings(bs)
        /\ \A i \in SupportedEvents(t, d) : Projects(Timelines[t].events[i], batches, d, bs)
        /\ \A n \in DOMAIN f.observations : ValidFrame(f.frames[n], f.observations[n])

FrameTimelines ==
    {f \in {FrameTimeline(t, d, bs, ObservationsOf(t, b, d, bs)) :
        t \in DOMAIN Timelines, b \in BatchSets, d \in Descriptors, bs \in BindingSets} :
            Built(f)}

\* What a run rests on.
View ==
    [timeline |-> run.timeline, dispatcher |-> run.dispatcher,
     frames |-> frames[run.dispatcher.evidence]]

\* The lookup entry and the evidence of event i in market timeline f.
EntryIn(m, f, i) ==
    LET o == f.observations[i]
    IN  [market_timeline_id |-> m, event_order_index |-> o.order_index,
         event_time |-> o.received_at, event_kind |-> o.kind,
         frame |-> f.frames[i]]

EvidenceIn(f, i) == EvidenceSet(f.frames[i])

\* What a run with view v decides on event i.
ContextOn(v, i) == [event_order_index |-> i, evidence |-> EvidenceIn(v.frames, i)]
DecisionsOn(v, i) == Decides(v.dispatcher.stack, ContextOn(v, i).evidence.items)
Supports(v, i) == Timelines[v.timeline].events[i].kind \in Stacks[v.dispatcher.stack]

Acceptable(decisions) ==
    /\ decisions \in Seq(Range(decisions)) /\ decisions # << >>
    /\ \A n \in DOMAIN decisions : decisions[n].kind \in DecisionKinds

\* The lookups answer for event i: it is one the market timeline observed.
Answered(v, i) ==
    v.frames.replay_timeline_id = v.timeline /\ i \in DOMAIN v.frames.observations

Decided(v, i) == Answered(v, i) /\ Acceptable(DecisionsOn(v, i))

\* The output a run with view v stores for its n-th decision on event i.
OutputOn(v, i, n) ==
    [event_order_index |-> i, handler_id |-> v.dispatcher,
     handler_version |-> v.dispatcher.stack, handler_output_index |-> n,
     output_kind |-> DecisionsOn(v, i)[n].kind,
     payload |->
        [event_order_index |-> i, timeline_id |-> v.timeline,
         dispatcher |-> v.dispatcher, stack |-> v.dispatcher.stack,
         market |-> MarketReference(ContextOn(v, i), v.dispatcher),
         evidence |-> EvidenceReference(ContextOn(v, i), v.dispatcher),
         decision_index |-> n, decision_kind |-> DecisionsOn(v, i)[n].kind,
         decision_intent_id |-> DecisionId(ContextOn(v, i), v.dispatcher, n)]]

OutputsOn(v, i) == {OutputOn(v, i, n) : n \in DOMAIN DecisionsOn(v, i)}

\* What both lookups answer depends on their market timeline only.
LEMMA Answers ==
    ASSUME NEW m, NEW i
    PROVE  /\ MarketResult(m, i).entry = EntryIn(m, frames[m], i)
           /\ EvidenceResult(m, i).entry.projection =
                [market_lookup_entry |-> EntryIn(m, frames[m], i),
                 evidence_set |-> EvidenceIn(frames[m], i)]
BY DEF MarketResult, MarketEntry, EntryIn, EvidenceResult, EvidenceEntry, EvidenceProjection,
   EvidenceIn

-----------------------------------------------------------------------------
(* The inductive invariant.                                                 *)

\* The stack a handler froze is not ahead of the stack there is.
HandlerMade ==
    /\ handler = [stack |-> handler.stack, market |-> handler.market,
                  evidence |-> handler.evidence]
    /\ handler.stack \in Nat /\ handler.stack <= stack
    /\ handler.evidence \in DOMAIN frames

\* Timelines are where the lookups and the handler think they are.
PartsKnown ==
    /\ frames \in Seq(FrameTimelines)
    /\ evidenced \subseteq DOMAIN frames
    /\ market \in {None} \cup DOMAIN frames
    /\ evidence \in {None} \cup DOMAIN frames
    /\ stack \in Nat
    /\ handler = None \/ HandlerMade

RunKnown ==
    /\ run = NoRun => outputs = {} /\ call = Idle
    /\ run # NoRun =>
        /\ HandlerMade
        /\ run = [timeline |-> run.timeline, dispatcher |-> run.dispatcher,
                  next |-> run.next]
        /\ run.next \in Nat \ {0}
        /\ run.dispatcher = [stack |-> run.dispatcher.stack, market |-> run.dispatcher.market,
                             evidence |-> run.dispatcher.evidence]
        /\ run.dispatcher.evidence \in DOMAIN frames

OneView(v) == v.dispatcher.evidence = v.dispatcher.market

\* What a step has gathered on event i is what the run's view has of it; a
\* stack that decided was at least the frozen one.
Gathered(c, v, i, st) ==
    \/ /\ c.phase = "market" /\ Supports(v, i)
    \/ /\ c.phase = "evidence" /\ Supports(v, i)
       /\ c.market.market_timeline_id = v.dispatcher.market
    \/ /\ c.phase = "decide" /\ Supports(v, i) /\ OneView(v) /\ Answered(v, i)
       /\ c.context = ContextOn(v, i)
    \/ /\ c.phase = "accept" /\ Supports(v, i) /\ OneView(v) /\ Answered(v, i)
       /\ c.context = ContextOn(v, i)
       /\ \E s \in Nat :
            /\ v.dispatcher.stack <= s /\ s <= st
            /\ c.decisions = Decides(s, ContextOn(v, i).evidence.items)
    \/ /\ c.phase = "save" /\ c = [phase |-> "save", outs |-> c.outs]
       /\ c.outs \in Seq(OutputsOn(v, i))
       /\ Supports(v, i) => OneView(v) /\ Decided(v, i)
       /\ ~Supports(v, i) => c.outs = << >>

CallKnown ==
    call # Idle =>
        /\ run # NoRun /\ run.dispatcher = handler
        /\ Gathered(call, View, run.next, stack)
        /\ call.phase = "save" /\ Supports(View, run.next) =>
                OutputsOn(View, run.next) \subseteq outputs \cup Range(call.outs)

\* Every stored output is one the run's view has, and nothing that was
\* processed is missing.
OutputsKnown ==
    /\ \A o \in outputs :
        /\ OneView(View)
        /\ \E i \in Nat : Decided(View, i) /\ o \in OutputsOn(View, i)
    /\ run # NoRun =>
        \A i \in 1 .. run.next - 1 : Supports(View, i) =>
            Decided(View, i) /\ OutputsOn(View, i) \subseteq outputs

DecisionsInv == PartsKnown /\ RunKnown /\ CallKnown /\ OutputsKnown

LEMMA DecisionsStart == Init => DecisionsInv
<1> SUFFICES ASSUME Init PROVE DecisionsInv
  OBVIOUS
<1>1. frames = << >> /\ evidenced = {} /\ market = None /\ evidence = None /\ stack = 1
      /\ handler = None /\ run = NoRun /\ call = Idle /\ outputs = {}
  BY DEF Init, FramesInit
<1>2. frames \in Seq(FrameTimelines)
  BY <1>1
<1> QED
  BY <1>1, <1>2 DEF DecisionsInv, PartsKnown, HandlerMade, RunKnown, CallKnown, OutputsKnown

-----------------------------------------------------------------------------
(* What others do.                                                          *)

\* Market timelines are added and stay; the run's view stays with them.
LEMMA FramesGrow ==
    ASSUME PartsKnown, Build
    PROVE  /\ frames' \in Seq(FrameTimelines) /\ DOMAIN frames \subseteq DOMAIN frames'
           /\ \A m \in DOMAIN frames : frames'[m] = frames[m]
           /\ evidenced' \subseteq DOMAIN frames'
<1>1. frames \in Seq(FrameTimelines) /\ evidenced \subseteq DOMAIN frames
  BY DEF PartsKnown
<1>2. CASE \E t \in DOMAIN Timelines, batches \in BatchSets, d \in Descriptors,
              bs \in BindingSets : BuildFrames(t, batches, d, bs)
  <2>1. PICK t \in DOMAIN Timelines, b \in BatchSets, d \in Descriptors,
              bs \in BindingSets : BuildFrames(t, b, d, bs)
    BY <1>2
  <2> DEFINE x == FrameTimeline(t, d, bs, ObservationsOf(t, b, d, bs))
  <2>2. x \in FrameTimelines
    <3>1. x.observations = ObservationsOf(t, b, d, bs)
      BY DEF FrameTimeline
    <3>2. Built(x)
      <4> HIDE DEF x
      <4> QED
        BY <2>1, <3>1 DEF Built, BuildFrames, x
    <3> QED
      BY <3>2 DEF FrameTimelines
  <2>3. (frames' = frames \/ frames' = Append(frames, x)) /\ evidenced' = evidenced
    BY <2>1 DEF BuildFrames
  <2> HIDE DEF x
  <2>4. /\ Append(frames, x) \in Seq(FrameTimelines)
        /\ DOMAIN frames \subseteq DOMAIN Append(frames, x)
        /\ \A m \in DOMAIN frames : Append(frames, x)[m] = frames[m]
    BY <1>1, <2>2
  <2> QED
    BY <1>1, <2>3, <2>4
<1>3. CASE \E m \in DOMAIN frames : BuildEvidence(m)
  BY <1>1, <1>3 DEF BuildEvidence
<1> QED
  BY <1>2, <1>3 DEF Build

\* Where the run and its view stay, and the stack does not go back, a call
\* and the outputs keep what is known of them.
LEMMA OthersKeep ==
    ASSUME DecisionsInv, PartsKnown', UNCHANGED <<handler, run, call, outputs>>,
           DOMAIN frames \subseteq DOMAIN frames',
           \A m \in DOMAIN frames : frames'[m] = frames[m],
           stack <= stack'
    PROVE  DecisionsInv'
<1>1. RunKnown'
  <2>1. stack \in Nat /\ stack' \in Nat
    BY DEF DecisionsInv, PartsKnown
  <2>2. HandlerMade => HandlerMade'
    BY <2>1 DEF HandlerMade
  <2> QED
    BY <2>2 DEF DecisionsInv, RunKnown
<1>2. CASE run = NoRun
  BY <1>1, <1>2 DEF DecisionsInv, RunKnown, HandlerMade, CallKnown, OutputsKnown
<1>3. CASE run # NoRun
  <2>1. View' = View
    BY <1>3 DEF DecisionsInv, RunKnown, HandlerMade, View
  <2>2. ASSUME Gathered(call, View, run.next, stack)
        PROVE  Gathered(call, View, run.next, stack')
    BY <2>2 DEF Gathered, DecisionsInv, PartsKnown, HandlerMade
  <2>3. CallKnown'
    BY <2>1, <2>2 DEF DecisionsInv, CallKnown
  <2>4. OutputsKnown'
    BY <2>1 DEF DecisionsInv, OutputsKnown
  <2> QED
    BY <1>1, <2>3, <2>4 DEF DecisionsInv
<1> QED
  BY <1>2, <1>3

LEMMA BuildKeeps == DecisionsInv /\ Build => DecisionsInv'
<1> SUFFICES ASSUME DecisionsInv, Build PROVE DecisionsInv'
  OBVIOUS
<1>1. UNCHANGED <<portVars, runVars>>
  BY DEF Build
<1>2. /\ frames' \in Seq(FrameTimelines) /\ DOMAIN frames \subseteq DOMAIN frames'
      /\ \A m \in DOMAIN frames : frames'[m] = frames[m]
      /\ evidenced' \subseteq DOMAIN frames'
  BY FramesGrow DEF DecisionsInv
<1>3. PartsKnown'
  BY <1>1, <1>2 DEF DecisionsInv, PartsKnown, HandlerMade, portVars, runVars
<1> QED
  BY <1>1, <1>2, <1>3, OthersKeep DEF portVars, runVars, DecisionsInv, PartsKnown, HandlerMade

LEMMA PortsKeep ==
    ASSUME DecisionsInv,
           \/ \E m \in DOMAIN frames : ReloadMarket(m)
           \/ \E m \in evidenced : ReloadEvidence(m)
           \/ UpgradeStack
    PROVE  DecisionsInv'
<1>1. UNCHANGED <<frameVars, runVars>> /\ stack \in Nat /\ stack' \in Nat /\ stack <= stack'
  BY DEF DecisionsInv, PartsKnown, HandlerMade, ReloadMarket, ReloadEvidence, UpgradeStack
<1>2. market' \in {None} \cup DOMAIN frames /\ evidence' \in {None} \cup DOMAIN frames
  BY DEF DecisionsInv, PartsKnown, HandlerMade, ReloadMarket, ReloadEvidence, UpgradeStack
<1>3. PartsKnown'
  BY <1>1, <1>2 DEF DecisionsInv, PartsKnown, HandlerMade, frameVars, runVars
<1> QED
  BY <1>1, <1>3, OthersKeep DEF frameVars, runVars

-----------------------------------------------------------------------------
(* The handler and its run.                                                 *)

\* A step that moves only the call keeps the rest.
LEMMA CallMoves ==
    ASSUME DecisionsInv, UNCHANGED <<frameVars, portVars, handler, run, outputs>>,
           \/ call' = Idle
           \/ /\ run # NoRun /\ run.dispatcher = handler
              /\ Gathered(call', View, run.next, stack)
              /\ call'.phase = "save" /\ Supports(View, run.next) =>
                    OutputsOn(View, run.next) \subseteq outputs \cup Range(call'.outs)
    PROVE  DecisionsInv'
<1>1. View' = View
  BY DEF View, frameVars
<1>2. PartsKnown' /\ OutputsKnown'
  BY <1>1 DEF DecisionsInv, PartsKnown, HandlerMade, OutputsKnown, frameVars, portVars
<1>3. RunKnown'
  <2>1. HandlerMade => HandlerMade'
    BY DEF HandlerMade, frameVars, portVars
  <2> QED
    BY <2>1 DEF DecisionsInv, RunKnown, frameVars
<1>4. CallKnown'
  BY <1>1 DEF CallKnown, portVars
<1> QED
  BY <1>2, <1>3, <1>4 DEF DecisionsInv

LEMMA NewHandlerKeeps == DecisionsInv /\ NewHandler => DecisionsInv'
<1> SUFFICES ASSUME DecisionsInv, NewHandler PROVE DecisionsInv'
  OBVIOUS
<1>1. UNCHANGED <<frameVars, portVars, run, call, outputs>> /\ call = Idle
      /\ handler' = [stack |-> stack, market |-> market, evidence |-> evidence]
      /\ evidence \in DOMAIN frames /\ stack \in Nat
  BY DEF NewHandler, DecisionsInv, PartsKnown, HandlerMade
<1>2. PartsKnown'
  BY <1>1 DEF DecisionsInv, PartsKnown, HandlerMade, frameVars, portVars
<1>3. View' = View
  BY <1>1 DEF View, frameVars
<1>4. RunKnown'
  <2>1. HandlerMade'
    BY <1>1 DEF HandlerMade, frameVars, portVars
  <2> QED
    BY <1>1, <2>1 DEF DecisionsInv, RunKnown, frameVars
<1>5. CallKnown' /\ OutputsKnown'
  BY <1>1, <1>3 DEF DecisionsInv, CallKnown, OutputsKnown
<1> QED
  BY <1>2, <1>4, <1>5 DEF DecisionsInv

LEMMA DispatcherIsHandler ==
    ASSUME HandlerMade
    PROVE  Fingerprint(handler) = handler
BY DEF HandlerMade, Fingerprint

LEMMA CreateRunKeeps ==
    ASSUME DecisionsInv, NEW t \in DOMAIN Timelines, CreateRun(t)
    PROVE  DecisionsInv'
<1>1. /\ run = NoRun /\ handler # None /\ outputs = {} /\ call = Idle
      /\ run' = [timeline |-> t, dispatcher |-> Fingerprint(handler), next |-> 1]
      /\ UNCHANGED <<frameVars, portVars, handler, call, outputs>>
  BY DEF CreateRun, DecisionsInv, RunKnown
<1>2. HandlerMade /\ Fingerprint(handler) = handler
  BY <1>1, DispatcherIsHandler DEF DecisionsInv, PartsKnown
<1>3. run'.dispatcher = handler /\ run'.next = 1 /\ run'.timeline = t
  BY <1>1, <1>2
<1>4. PartsKnown'
  BY <1>1 DEF DecisionsInv, PartsKnown, HandlerMade, frameVars, portVars
<1>5. RunKnown'
  <2>1. outputs' = {} /\ call' = Idle /\ frames' = frames /\ stack' = stack
        /\ handler' = handler
    BY <1>1 DEF frameVars, portVars
  <2> QED
    BY <1>1, <1>2, <1>3, <2>1 DEF RunKnown, HandlerMade
<1> QED
  BY <1>1, <1>3, <1>4, <1>5 DEF DecisionsInv, CallKnown, OutputsKnown

LEMMA StepRunKeeps == DecisionsInv /\ StepRun => DecisionsInv'
<1> SUFFICES ASSUME DecisionsInv, StepRun PROVE DecisionsInv'
  OBVIOUS
<1> DEFINE i == run.next
           v == View
<1>1. /\ UNCHANGED <<frameVars, portVars, handler, run, outputs>>
      /\ run # NoRun /\ run.dispatcher = Fingerprint(handler)
      /\ IF EventAt(i).kind \in Stacks[handler.stack]
         THEN call' = [phase |-> "market"] ELSE call' = [phase |-> "save", outs |-> << >>]
  BY DEF StepRun
<1>2. run.dispatcher = handler
  BY <1>1, DispatcherIsHandler DEF DecisionsInv, RunKnown
<1>3. Supports(v, i) <=> EventAt(i).kind \in Stacks[handler.stack]
  BY <1>2 DEF Supports, View, EventAt
<1> HIDE DEF v
<1>4. Gathered(call', v, i, stack)
  <2>1. CASE Supports(v, i)
    BY <1>1, <1>3, <2>1 DEF Gathered
  <2>2. CASE ~Supports(v, i)
    <3>1. call' = [phase |-> "save", outs |-> << >>]
      BY <1>1, <1>3, <2>2
    <3>2. call'.outs \in Seq(OutputsOn(v, i))
      BY <3>1
    <3> QED
      BY <3>1, <3>2, <2>2 DEF Gathered
  <2> QED
    BY <2>1, <2>2
<1>5. call'.phase = "save" => ~Supports(v, i)
  BY <1>1, <1>3
<1> QED
  BY <1>1, <1>2, <1>4, <1>5, CallMoves DEF v

LEMMA LookupMarketKeeps == DecisionsInv /\ LookupMarket => DecisionsInv'
<1> SUFFICES ASSUME DecisionsInv, LookupMarket PROVE DecisionsInv'
  OBVIOUS
<1> DEFINE i == run.next
<1>1. /\ UNCHANGED <<frameVars, portVars, handler, run, outputs>>
      /\ call.phase = "market"
  BY DEF LookupMarket
<1>2. CASE call' = Idle
  BY <1>1, <1>2, CallMoves
<1>3. CASE call' # Idle
  <2>1. /\ InMarketAuthority(handler.market, MarketResult(market, i))
        /\ call' = [phase |-> "evidence", market |-> MarketResult(market, i).entry]
    BY <1>3 DEF LookupMarket, OrRaises
  <2>2. MarketDescriptor(market) = MarketDescriptor(handler.market)
    BY <2>1 DEF InMarketAuthority, MarketResult
  <2>3. market = handler.market
    BY <2>2 DEF MarketDescriptor
  <2>4. call # Idle
    BY <1>1 DEF Idle
  <2>5. run # NoRun /\ run.dispatcher = handler /\ Supports(View, i)
    BY <1>1, <2>4 DEF DecisionsInv, CallKnown, Gathered
  <2>6. View.dispatcher = handler
    BY <2>5 DEF View
  <2>7. call'.market.market_timeline_id = market
    <3>1. MarketResult(market, i).entry = EntryIn(market, frames[market], i)
      BY Answers
    <3> QED
      BY <2>1, <3>1 DEF EntryIn
  <2>8. Gathered(call', View, i, stack) /\ call'.phase # "save"
    BY <2>1, <2>3, <2>5, <2>6, <2>7 DEF Gathered
  <2> QED
    BY <1>1, <2>5, <2>8, CallMoves
<1> QED
  BY <1>2, <1>3

LEMMA LookupEvidenceKeeps == DecisionsInv /\ LookupEvidence => DecisionsInv'
<1> SUFFICES ASSUME DecisionsInv, LookupEvidence PROVE DecisionsInv'
  OBVIOUS
<1> DEFINE i == run.next
<1>1. /\ UNCHANGED <<frameVars, portVars, handler, run, outputs>>
      /\ call.phase = "evidence"
  BY DEF LookupEvidence
<1>2. CASE call' = Idle
  BY <1>1, <1>2, CallMoves
<1>3. CASE call' # Idle
  <2>1. /\ InEvidenceAuthority(handler.evidence, EvidenceResult(evidence, i))
        /\ ContextsMatch(call.market, EvidenceResult(evidence, i))
        /\ call' = [phase |-> "decide", context |-> StackContext(EvidenceResult(evidence, i))]
    BY <1>3 DEF LookupEvidence, OrRaises
  <2>2. EvidenceDescriptor(evidence) = EvidenceDescriptor(handler.evidence)
    BY <2>1 DEF InEvidenceAuthority, EvidenceResult
  <2>3. evidence = handler.evidence
    BY <2>2 DEF EvidenceDescriptor
  <2>4. call # Idle
    BY <1>1 DEF Idle
  <2>5. /\ run # NoRun /\ run.dispatcher = handler /\ Supports(View, i)
        /\ call.market.market_timeline_id = View.dispatcher.market
    BY <1>1, <2>4 DEF DecisionsInv, CallKnown, Gathered
  <2>6. View.dispatcher = handler /\ View.frames = frames[evidence]
    BY <2>3, <2>5 DEF View
  <2>7. EvidenceResult(evidence, i).entry.projection.market_lookup_entry = call.market
    BY <2>1 DEF ContextsMatch
  <2> DEFINE projection == EvidenceResult(evidence, i).entry.projection
             e == EntryIn(evidence, frames[evidence], i)
             s == EvidenceIn(frames[evidence], i)
  <2>0. projection = [market_lookup_entry |-> e, evidence_set |-> s]
    BY Answers
  <2>8. call.market = e
    <3> HIDE DEF e, s
    <3> QED
      BY <2>0, <2>7
  <2>9. call.market.market_timeline_id = evidence
    BY <2>8 DEF EntryIn
  <2>10. OneView(View)
    BY <2>3, <2>5, <2>6, <2>9 DEF OneView
  <2>11. StackContext(EvidenceResult(evidence, i)) = ContextOn(View, i)
    <3>1. projection.evidence_set = s
      <4> HIDE DEF e, s, projection
      <4> QED
        BY <2>0
    <3> QED
      BY <2>6, <3>1 DEF StackContext, ContextOn
  <2>12. Answered(View, i)
    <3>1. EvidenceAnswers(evidence, run.timeline, i)
      BY <1>3 DEF LookupEvidence, OrRaises
    <3>2. frames[evidence].replay_timeline_id = run.timeline
      BY <3>1 DEF EvidenceAnswers, EvidenceDescriptor, MarketDescriptor
    <3>3. i \in DOMAIN frames[evidence].observations
      BY <3>1 DEF EvidenceAnswers, EvidenceAuthority, MarketAuthority
    <3>4. View.timeline = run.timeline
      BY DEF View
    <3> QED
      BY <2>6, <3>2, <3>3, <3>4 DEF Answered
  <2>13. Gathered(call', View, i, stack) /\ call'.phase # "save"
    BY <2>1, <2>5, <2>10, <2>11, <2>12 DEF Gathered
  <2> QED
    BY <1>1, <2>5, <2>13, CallMoves
<1> QED
  BY <1>2, <1>3

LEMMA DecideKeeps == DecisionsInv /\ Decide => DecisionsInv'
<1> SUFFICES ASSUME DecisionsInv, Decide PROVE DecisionsInv'
  OBVIOUS
<1> DEFINE i == run.next
<1>1. /\ UNCHANGED <<frameVars, portVars, handler, run, outputs>>
      /\ call.phase = "decide"
      /\ call' = [phase |-> "accept", context |-> call.context,
                  decisions |-> Decides(stack, call.context.evidence.items)]
  BY DEF Decide
<1>2. call # Idle
  BY <1>1 DEF Idle
<1>3. /\ run # NoRun /\ run.dispatcher = handler /\ Supports(View, i) /\ OneView(View)
      /\ Answered(View, i) /\ call.context = ContextOn(View, i)
  BY <1>1, <1>2 DEF DecisionsInv, CallKnown, Gathered
<1>4. stack \in Nat /\ View.dispatcher.stack <= stack
  BY <1>3 DEF DecisionsInv, RunKnown, HandlerMade, PartsKnown, View
<1>5. Gathered(call', View, i, stack) /\ call'.phase # "save"
  BY <1>1, <1>3, <1>4 DEF Gathered
<1> QED
  BY <1>1, <1>3, <1>5, CallMoves

LEMMA AcceptKeeps == DecisionsInv /\ Accept => DecisionsInv'
<1> SUFFICES ASSUME DecisionsInv, Accept PROVE DecisionsInv'
  OBVIOUS
<1> DEFINE i == run.next
           v == View
           ds == call.decisions
<1>1. /\ UNCHANGED <<frameVars, portVars, handler, run, outputs>>
      /\ call.phase = "accept"
  BY DEF Accept
<1>2. CASE call' = Idle
  BY <1>1, <1>2, CallMoves
<1>3. CASE call' # Idle
  <2>1. /\ stack = handler.stack
        /\ ds \in Seq(Range(ds)) /\ ds # << >>
        /\ \A n \in DOMAIN ds : ds[n].kind \in DecisionKinds
        /\ call' = [phase |-> "save",
                    outs |-> [n \in DOMAIN ds |-> RecordOfOutput(call.context, n, ds[n])]]
    BY <1>3 DEF Accept, OrRaises, StackUnchanged
  <2>2. call # Idle
    BY <1>1 DEF Idle
  <2>3. /\ run # NoRun /\ run.dispatcher = handler /\ Supports(v, i) /\ OneView(v)
        /\ Answered(v, i) /\ call.context = ContextOn(v, i)
        /\ \E s \in Nat :
            /\ v.dispatcher.stack <= s /\ s <= stack
            /\ ds = Decides(s, ContextOn(v, i).evidence.items)
    BY <1>1, <2>2 DEF DecisionsInv, CallKnown, Gathered
  <2>4. v.dispatcher = handler /\ v.timeline = run.timeline /\ HandlerMade
    BY <2>3 DEF View, DecisionsInv, RunKnown
  <2>5. ds = DecisionsOn(v, i)
    <3>1. PICK s \in Nat :
            /\ v.dispatcher.stack <= s /\ s <= stack
            /\ ds = Decides(s, ContextOn(v, i).evidence.items)
      BY <2>3
    <3>2. s = v.dispatcher.stack
      BY <2>1, <2>4, <3>1 DEF HandlerMade
    <3> QED
      BY <3>1, <3>2 DEF DecisionsOn
  <2>6. Decided(v, i)
    BY <2>1, <2>3, <2>5 DEF Acceptable, Decided
  <2>7. ASSUME NEW n \in DOMAIN ds
        PROVE  RecordOfOutput(call.context, n, ds[n]) = OutputOn(v, i, n)
    <3>1. Fingerprint(handler) = handler
      BY <2>4, DispatcherIsHandler
    <3>2. call.context.event_order_index = i
      BY <2>3 DEF ContextOn
    <3>3. EnvelopeOf(call.context, n, ds[n]) = OutputOn(v, i, n).payload
      BY <2>3, <2>4, <2>5, <3>2 DEF EnvelopeOf, OutputOn
    <3> QED
      BY <2>4, <2>5, <3>1, <3>3 DEF RecordOfOutput, OutputOn
  <2>8. call'.outs = [n \in DOMAIN ds |-> OutputOn(v, i, n)]
    BY <2>1, <2>7
  <2>9. call'.outs \in Seq(OutputsOn(v, i)) /\ OutputsOn(v, i) = Range(call'.outs)
    <3> DEFINE f == [n \in DOMAIN ds |-> OutputOn(v, i, n)]
    <3>1. Len(ds) \in Nat /\ DOMAIN ds = 1 .. Len(ds)
      BY <2>1, LenProperties
    <3>2. f \in [1 .. Len(ds) -> OutputsOn(v, i)]
      BY <2>5, <3>1 DEF OutputsOn
    <3>3. Range(f) = OutputsOn(v, i)
      BY <2>5 DEF OutputsOn, Range
    <3> HIDE DEF f
    <3>4. f \in Seq(OutputsOn(v, i))
      BY <3>1, <3>2, IsASeq
    <3> QED
      BY <2>8, <3>3, <3>4 DEF f
  <2>10. call' = [phase |-> "save", outs |-> call'.outs]
    BY <2>1
  <2>11. Gathered(call', v, i, stack)
    BY <2>3, <2>6, <2>9, <2>10 DEF Gathered
  <2> QED
    BY <1>1, <2>3, <2>9, <2>11, CallMoves
<1> QED
  BY <1>2, <1>3

\* What the saving call of a run holds.
LEMMA Saving ==
    ASSUME DecisionsInv, call.phase = "save"
    PROVE  /\ run # NoRun /\ run.dispatcher = handler
           /\ call = [phase |-> "save", outs |-> call.outs]
           /\ call.outs \in Seq(OutputsOn(View, run.next))
           /\ Supports(View, run.next) =>
                /\ OneView(View) /\ Decided(View, run.next)
                /\ OutputsOn(View, run.next) \subseteq outputs \cup Range(call.outs)
           /\ ~Supports(View, run.next) => call.outs = << >>
<1>1. call # Idle
  BY DEF Idle
<1> QED
  BY <1>1 DEF DecisionsInv, CallKnown, Gathered

LEMMA SaveOutputKeeps == DecisionsInv /\ SaveOutput => DecisionsInv'
<1> SUFFICES ASSUME DecisionsInv, SaveOutput PROVE DecisionsInv'
  OBVIOUS
<1> DEFINE i == run.next
           x == Head(call.outs)
           S == OutputsOn(View, i)
<1>1. /\ call.phase = "save" /\ call.outs # << >>
      /\ outputs' = outputs \cup {x}
      /\ call' = [call EXCEPT !.outs = Tail(@)]
      /\ UNCHANGED <<frameVars, portVars, handler, run>>
  BY DEF SaveOutput
<1>2. /\ run # NoRun /\ run.dispatcher = handler
      /\ call = [phase |-> "save", outs |-> call.outs]
      /\ call.outs \in Seq(S) /\ Supports(View, i) /\ OneView(View)
      /\ Decided(View, i) /\ S \subseteq outputs \cup Range(call.outs)
  BY <1>1, Saving
<1>3. View' = View
  BY <1>1 DEF View, frameVars
<1>4. call' = [phase |-> "save", outs |-> Tail(call.outs)]
  BY <1>1, <1>2
<1> DEFINE s == call.outs
<1>5. Tail(s) \in Seq(S) /\ x \in S /\ Range(s) \subseteq {x} \cup Range(Tail(s))
  <2> HIDE DEF S, s
  <2>1. s \in Seq(S) /\ s # << >>
    BY <1>1, <1>2 DEF s
  <2>2. /\ Tail(s) \in Seq(S) /\ Head(s) \in S
        /\ Len(s) \in Nat /\ Len(s) # 0 /\ DOMAIN s = 1 .. Len(s)
        /\ Len(Tail(s)) = Len(s) - 1
        /\ \A n \in 1 .. Len(Tail(s)) : Tail(s)[n] = s[n + 1]
    BY <2>1, HeadTailProperties, LenProperties, EmptySeq
  <2>3. DOMAIN Tail(s) = 1 .. Len(s) - 1
    BY <2>2, LenProperties
  <2>4. ASSUME NEW n \in DOMAIN s PROVE s[n] = Head(s) \/ \E k \in DOMAIN Tail(s) : s[n] = Tail(s)[k]
    <3>1. CASE n = 1
      BY <2>1, <3>1
    <3>2. CASE n # 1
      <4>1. n - 1 \in DOMAIN Tail(s) /\ n - 1 + 1 = n
        BY <2>2, <2>3, <3>2
      <4> QED
        BY <2>2, <4>1
    <3> QED
      BY <3>1, <3>2
  <2> QED
    BY <2>2, <2>4 DEF Range, s
<1> HIDE DEF S
<1>6. S \subseteq outputs' \cup Range(Tail(s))
  BY <1>1, <1>2, <1>5
<1>7. Gathered(call', View, i, stack)
  BY <1>2, <1>4, <1>5 DEF Gathered, S
<1>8. CallKnown'
  BY <1>1, <1>2, <1>3, <1>4, <1>6, <1>7 DEF CallKnown, portVars, S
<1>9. PartsKnown' /\ RunKnown'
  <2>1. HandlerMade => HandlerMade'
    BY <1>1 DEF HandlerMade, frameVars, portVars
  <2> QED
    BY <1>1, <1>2, <2>1 DEF DecisionsInv, PartsKnown, RunKnown, frameVars, portVars
<1>10. i \in Nat
  BY <1>2 DEF DecisionsInv, RunKnown
<1>11. OutputsKnown'
  BY <1>1, <1>2, <1>3, <1>5, <1>10 DEF DecisionsInv, OutputsKnown, S
<1> QED
  BY <1>8, <1>9, <1>11 DEF DecisionsInv

LEMMA AdvanceKeeps == DecisionsInv /\ Advance => DecisionsInv'
<1> SUFFICES ASSUME DecisionsInv, Advance PROVE DecisionsInv'
  OBVIOUS
<1> DEFINE i == run.next
<1>1. /\ call.phase = "save" /\ call.outs = << >>
      /\ run' = [run EXCEPT !.next = @ + 1]
      /\ call' = Idle /\ UNCHANGED <<frameVars, portVars, handler, outputs>>
  BY DEF Advance
<1>2. /\ run # NoRun
      /\ Supports(View, i) =>
            /\ Decided(View, i)
            /\ OutputsOn(View, i) \subseteq outputs \cup Range(call.outs)
  BY <1>1, Saving
<1>3. Range(call.outs) = {}
  BY <1>1 DEF Range
<1>4. i \in Nat \ {0} /\ run = [timeline |-> run.timeline, dispatcher |-> run.dispatcher, next |-> i]
  BY <1>2 DEF DecisionsInv, RunKnown
<1>5. run' = [timeline |-> run.timeline, dispatcher |-> run.dispatcher, next |-> i + 1]
  BY <1>1, <1>4
<1>6. View' = View /\ run'.next = i + 1 /\ run' # NoRun
  BY <1>1, <1>5 DEF View, frameVars, NoRun
<1>7. PartsKnown' /\ RunKnown'
  <2>1. HandlerMade => HandlerMade'
    BY <1>1 DEF HandlerMade, frameVars, portVars
  <2>2. run'.timeline = run.timeline /\ run'.dispatcher = run.dispatcher
        /\ i + 1 \in Nat \ {0}
    BY <1>4, <1>5
  <2> QED
    BY <1>1, <1>2, <1>5, <1>6, <2>1, <2>2
    DEF DecisionsInv, PartsKnown, RunKnown, frameVars, portVars
<1>8. \A j \in 1 .. i : j \in 1 .. i - 1 \/ j = i
  BY <1>4
<1>9. ASSUME NEW j \in 1 .. i, Supports(View, j)
      PROVE  Decided(View, j) /\ OutputsOn(View, j) \subseteq outputs
  <2>1. CASE j = i
    BY <1>2, <1>3, <1>9, <2>1
  <2>2. CASE j \in 1 .. i - 1
    BY <1>2, <1>9, <2>2 DEF DecisionsInv, OutputsKnown
  <2> QED
    BY <1>8, <2>1, <2>2
<1>10. OutputsKnown'
  <2>1. \A o \in outputs :
            /\ OneView(View)
            /\ \E j \in Nat : Decided(View, j) /\ o \in OutputsOn(View, j)
    BY DEF DecisionsInv, OutputsKnown
  <2>2. (\A o \in outputs :
            /\ OneView(View)
            /\ \E j \in Nat : Decided(View, j) /\ o \in OutputsOn(View, j))'
    BY <1>1, <1>6, <2>1
  <2>3. (\A j \in 1 .. run.next - 1 : Supports(View, j) =>
            Decided(View, j) /\ OutputsOn(View, j) \subseteq outputs)'
    <3>1. run'.next - 1 = i
      BY <1>4, <1>6
    <3>2. \A j \in 1 .. run'.next - 1 : Supports(View, j) =>
            Decided(View, j) /\ OutputsOn(View, j) \subseteq outputs
      BY <1>9, <3>1
    <3> QED
      BY <1>1, <1>6, <3>2
  <2> QED
    BY <2>2, <2>3 DEF OutputsKnown
<1> QED
  BY <1>1, <1>7, <1>10 DEF DecisionsInv, CallKnown

LEMMA DieKeeps == DecisionsInv /\ Die => DecisionsInv'
BY CallMoves DEF Die

LEMMA DecisionsStep == DecisionsInv /\ [Next]_vars => DecisionsInv'
<1> SUFFICES ASSUME DecisionsInv, [Next]_vars PROVE DecisionsInv'
  OBVIOUS
<1>1. CASE Build
  BY <1>1, BuildKeeps
<1>2. CASE \/ \E m \in DOMAIN frames : ReloadMarket(m)
           \/ \E m \in evidenced : ReloadEvidence(m)
           \/ UpgradeStack
  BY <1>2, PortsKeep
<1>3. CASE UNCHANGED vars
  BY <1>3 DEF vars, DecisionsInv, PartsKnown, RunKnown, CallKnown, OutputsKnown, HandlerMade,
     View
<1> QED
  BY <1>1, <1>2, <1>3, NewHandlerKeeps, CreateRunKeeps, StepRunKeeps, LookupMarketKeeps,
     LookupEvidenceKeeps, DecideKeeps, AcceptKeeps, SaveOutputKeeps, AdvanceKeeps, DieKeeps
  DEF Next, Replay

\* Every stored output is the one the run's timeline, handler and market
\* timeline determine, and none is missing behind the run, whatever was
\* reloaded, upgraded or died (ReplayDecisionStackHandler.handle, step_run).
THEOREM DecisionsInductive == Spec => []DecisionsInv
BY DecisionsStart, DecisionsStep, PTL DEF Spec

-----------------------------------------------------------------------------
(* What the invariant says of the journal.                                  *)

\* What a stored output is, and the run it belongs to.
LEMMA OutputMeans ==
    ASSUME DecisionsInv, NEW o \in outputs
    PROVE  /\ run # NoRun /\ OneView(View) /\ Built(View.frames)
           /\ View.timeline = run.timeline /\ View.dispatcher = run.dispatcher
           /\ View.frames = frames[View.dispatcher.market]
           /\ View.dispatcher = [stack |-> View.dispatcher.stack,
                                 market |-> View.dispatcher.market,
                                 evidence |-> View.dispatcher.evidence]
           /\ \E i \in Nat : /\ Decided(View, i)
                             /\ \E n \in DOMAIN DecisionsOn(View, i) : o = OutputOn(View, i, n)
<1>1. run # NoRun
  BY DEF DecisionsInv, RunKnown
<1>2. OneView(View) /\ \E i \in Nat : Decided(View, i) /\ o \in OutputsOn(View, i)
  BY DEF DecisionsInv, OutputsKnown
<1>3. /\ View.timeline = run.timeline /\ View.dispatcher = run.dispatcher
      /\ View.frames = frames[run.dispatcher.evidence]
  BY DEF View
<1>4. run.dispatcher = [stack |-> run.dispatcher.stack, market |-> run.dispatcher.market,
                        evidence |-> run.dispatcher.evidence]
  BY <1>1 DEF DecisionsInv, RunKnown
<1>5. \E i \in Nat : /\ Decided(View, i)
                    /\ \E n \in DOMAIN DecisionsOn(View, i) : o = OutputOn(View, i, n)
  BY <1>2 DEF OutputsOn
<1>6. Built(View.frames)
  BY <1>1, <1>3 DEF DecisionsInv, PartsKnown, RunKnown, FrameTimelines
<1> QED
  BY <1>1, <1>2, <1>3, <1>4, <1>5, <1>6 DEF OneView

\* The fields of an output.
LEMMA OutputFields ==
    ASSUME NEW v, NEW i, NEW n,
           v.dispatcher = [stack |-> v.dispatcher.stack, market |-> v.dispatcher.market,
                           evidence |-> v.dispatcher.evidence]
    PROVE  LET o == OutputOn(v, i, n)
               e == o.payload
           IN  /\ FrozenBy(e) = v.dispatcher /\ e.dispatcher = v.dispatcher
               /\ Fingerprint(FrozenBy(e)) = v.dispatcher /\ o.handler_id = v.dispatcher
               /\ e.stack = v.dispatcher.stack /\ o.handler_version = v.dispatcher.stack
               /\ e.timeline_id = v.timeline
               /\ e.event_order_index = i /\ o.event_order_index = i
               /\ e.decision_index = n /\ o.handler_output_index = n
               /\ e.decision_kind = DecisionsOn(v, i)[n].kind
               /\ o.output_kind = DecisionsOn(v, i)[n].kind
               /\ e.market.frame = EvidenceIn(v.frames, i).source_frame
               /\ e.evidence.items = EvidenceIn(v.frames, i).items
               /\ e.decision_intent_id = DecisionId(ContextOn(v, i), v.dispatcher, n)
<1> DEFINE o == OutputOn(v, i, n)
           e == o.payload
<1>1. /\ e.stack = v.dispatcher.stack /\ e.dispatcher = v.dispatcher
      /\ e.timeline_id = v.timeline /\ e.event_order_index = i /\ e.decision_index = n
      /\ e.decision_kind = DecisionsOn(v, i)[n].kind
      /\ e.market = MarketReference(ContextOn(v, i), v.dispatcher)
      /\ e.evidence = EvidenceReference(ContextOn(v, i), v.dispatcher)
      /\ e.decision_intent_id = DecisionId(ContextOn(v, i), v.dispatcher, n)
  BY DEF OutputOn
<1>2. /\ o.handler_id = v.dispatcher /\ o.handler_version = v.dispatcher.stack
      /\ o.event_order_index = i /\ o.handler_output_index = n
      /\ o.output_kind = DecisionsOn(v, i)[n].kind
  BY DEF OutputOn
<1> HIDE DEF o, e
<1>3. e.market.market_timeline_id = v.dispatcher.market
      /\ e.market.frame = EvidenceIn(v.frames, i).source_frame
  BY <1>1 DEF MarketReference, ContextOn
<1>4. e.evidence.evidence_timeline_id = v.dispatcher.evidence
      /\ e.evidence.items = EvidenceIn(v.frames, i).items
  BY <1>1 DEF EvidenceReference, ContextOn
<1>5. FrozenBy(e) = v.dispatcher
  BY <1>1, <1>3, <1>4 DEF FrozenBy
<1>6. Fingerprint(FrozenBy(e)) = v.dispatcher
  BY <1>5 DEF Fingerprint
<1> QED
  BY <1>1, <1>2, <1>3, <1>4, <1>5, <1>6 DEF o, e

LEMMA OneViewHolds == DecisionsInv => RunDecidedOnOneView
<1> SUFFICES ASSUME DecisionsInv, NEW o \in outputs, NEW p \in outputs
             PROVE  LET e == o.payload
                        m == FrozenBy(e).market
                    IN  /\ FrozenBy(e) = FrozenBy(p.payload)
                        /\ FrozenBy(e).evidence = m
                        /\ e.market.frame = MarketResult(m, e.event_order_index).entry.frame
                        /\ e.decision_kind = Decides(e.stack, e.evidence.items)[e.decision_index].kind
  BY DEF RunDecidedOnOneView
<1> DEFINE v == View
           e == o.payload
<1>1. /\ OneView(v) /\ v.frames = frames[v.dispatcher.market]
      /\ v.dispatcher = [stack |-> v.dispatcher.stack, market |-> v.dispatcher.market,
                         evidence |-> v.dispatcher.evidence]
  BY OutputMeans
<1>2. PICK i, n : n \in DOMAIN DecisionsOn(v, i) /\ o = OutputOn(v, i, n)
  BY OutputMeans
<1>3. PICK j, k : k \in DOMAIN DecisionsOn(v, j) /\ p = OutputOn(v, j, k)
  BY OutputMeans
<1> DEFINE m == v.dispatcher.market
<1> HIDE DEF v
<1>4. /\ FrozenBy(e) = v.dispatcher /\ e.stack = v.dispatcher.stack
      /\ e.event_order_index = i /\ e.decision_index = n
      /\ e.decision_kind = DecisionsOn(v, i)[n].kind
      /\ e.market.frame = EvidenceIn(v.frames, i).source_frame
      /\ e.evidence.items = EvidenceIn(v.frames, i).items
  BY <1>1, <1>2, OutputFields
<1>5. FrozenBy(p.payload) = v.dispatcher
  BY <1>1, <1>3, OutputFields
<1>6. MarketResult(m, i).entry.frame = EvidenceIn(v.frames, i).source_frame
  <2>1. MarketResult(m, i).entry = EntryIn(m, frames[m], i)
    BY Answers
  <2> QED
    BY <1>1, <2>1 DEF EntryIn, EvidenceIn, EvidenceSet
<1>7. e.decision_kind = Decides(e.stack, e.evidence.items)[e.decision_index].kind
  BY <1>4 DEF DecisionsOn, ContextOn
<1>8. FrozenBy(e).evidence = m
  BY <1>1, <1>4 DEF OneView
<1> HIDE DEF e
<1> QED
  BY <1>4, <1>5, <1>6, <1>7, <1>8 DEF e

LEMMA OutputDecodes ==
    ASSUME DecisionsInv, NEW o \in outputs
    PROVE  Decodes(o)
<1> DEFINE v == View
<1>1. /\ v.timeline = run.timeline /\ v.dispatcher = run.dispatcher
      /\ v.dispatcher = [stack |-> v.dispatcher.stack, market |-> v.dispatcher.market,
                         evidence |-> v.dispatcher.evidence]
  BY OutputMeans
<1>2. PICK i, n : /\ n \in DOMAIN DecisionsOn(v, i) /\ Decided(v, i)
                  /\ o = OutputOn(v, i, n)
  BY OutputMeans
<1> HIDE DEF v
<1>3. DecisionsOn(v, i)[n].kind \in DecisionKinds
  BY <1>2 DEF Decided, Acceptable
<1> QED
  BY <1>1, <1>2, <1>3, OutputFields DEF Decodes

\* The id of a decision names its event and its place.
LEMMA IdsUnique ==
    ASSUME DecisionsInv, NEW o \in outputs, NEW p \in outputs,
           o.payload.decision_intent_id = p.payload.decision_intent_id
    PROVE  o = p
<1> DEFINE v == View
<1>1. v.dispatcher = [stack |-> v.dispatcher.stack, market |-> v.dispatcher.market,
                      evidence |-> v.dispatcher.evidence]
  BY OutputMeans
<1>2. PICK i, n : n \in DOMAIN DecisionsOn(v, i) /\ o = OutputOn(v, i, n)
  BY OutputMeans
<1>3. PICK j, k : k \in DOMAIN DecisionsOn(v, j) /\ p = OutputOn(v, j, k)
  BY OutputMeans
<1> HIDE DEF v
<1>4. DecisionId(ContextOn(v, i), v.dispatcher, n) = DecisionId(ContextOn(v, j), v.dispatcher, k)
  BY <1>1, <1>2, <1>3, OutputFields
<1>5. n = k
  BY <1>4 DEF DecisionId
<1>6. MarketReference(ContextOn(v, i), v.dispatcher) = MarketReference(ContextOn(v, j), v.dispatcher)
  BY <1>4 DEF DecisionId
<1>7. i = j
  BY <1>6 DEF MarketReference, ContextOn
<1> QED
  BY <1>2, <1>3, <1>5, <1>7

\* The decisions the journal reads for an event the run is past.
LEMMA Numbered ==
    ASSUME DecisionsInv, run # NoRun, NEW i \in 1 .. run.next - 1, Supports(View, i)
    PROVE  LET numbers == {d.decision_index : d \in DecisionsForEvent(i)}
           IN  numbers # {} /\ numbers = 1 .. Cardinality(numbers)
<1> DEFINE v == View
           ds == DecisionsOn(v, i)
           numbers == {d.decision_index : d \in DecisionsForEvent(i)}
<1>1. v.dispatcher = [stack |-> v.dispatcher.stack, market |-> v.dispatcher.market,
                      evidence |-> v.dispatcher.evidence]
  BY DEF View, DecisionsInv, RunKnown
<1>2. Acceptable(ds) /\ OutputsOn(v, i) \subseteq outputs
  BY DEF DecisionsInv, OutputsKnown, Decided
<1> HIDE DEF v
<1>3. ASSUME NEW n \in DOMAIN ds PROVE n \in numbers
  <2> DEFINE o == OutputOn(v, i, n)
  <2>1. o \in outputs
    BY <1>2 DEF OutputsOn
  <2>2. o.event_order_index = i /\ o.payload.decision_index = n
    BY <1>1, OutputFields
  <2> HIDE DEF o
  <2>3. o.payload \in DecisionsForEvent(i)
    BY <2>1, <2>2, OutputDecodes DEF DecisionsForEvent
  <2> QED
    BY <2>2, <2>3
<1>4. ASSUME NEW o \in outputs, o.event_order_index = i
      PROVE  o.payload.decision_index \in DOMAIN ds
  <2>1. PICK j, n : n \in DOMAIN DecisionsOn(v, j) /\ o = OutputOn(v, j, n)
    BY OutputMeans DEF v
  <2>2. j = i /\ o.payload.decision_index = n
    BY <1>1, <1>4, <2>1, OutputFields
  <2> QED
    BY <2>1, <2>2
<1>5. numbers = DOMAIN ds
  BY <1>3, <1>4 DEF DecisionsForEvent
<1>6. ds \in Seq(Range(ds)) /\ ds # << >>
  BY <1>2 DEF Acceptable
<1> HIDE DEF numbers, ds
<1>7. Len(ds) \in Nat /\ Len(ds) # 0 /\ DOMAIN ds = 1 .. Len(ds)
  BY <1>6, LenProperties, EmptySeq
<1>8. Cardinality(1 .. Len(ds)) = Len(ds)
  BY <1>7, FS_Interval
<1>9. numbers # {} /\ numbers = 1 .. Cardinality(numbers)
  BY <1>5, <1>7, <1>8
<1> QED
  BY <1>9 DEF numbers

LEMMA JournalHolds == DecisionsInv => DecisionsJournaledOnce
<1> SUFFICES ASSUME DecisionsInv PROVE DecisionsJournaledOnce
  OBVIOUS
<1>1. ASSUME run # NoRun, NEW i \in 1 .. run.next - 1,
             EventAt(i).kind \in Stacks[run.dispatcher.stack]
      PROVE  LET numbers == {d.decision_index : d \in DecisionsForEvent(i)}
             IN  numbers # {} /\ numbers = 1 .. Cardinality(numbers)
  <2>1. Supports(View, i)
    BY <1>1 DEF Supports, View, EventAt
  <2> QED
    BY <1>1, <2>1, Numbered
<1> QED
  BY <1>1, OutputDecodes, IdsUnique DEF DecisionsJournaledOnce

\* No run mixes two versions of a stack or two market timelines, and what it
\* stores is what the frozen version decides on the frozen evidence, however
\* its calls meet reloads, upgrades and deaths (the checks of
\* ReplayDecisionStackHandler.handle).
THEOREM DecidedOnOneView == Spec => []RunDecidedOnOneView
BY DecisionsInductive, OneViewHolds, PTL

\* The journal reads every stored output of the run back, the decisions of a
\* processed event are all there, numbered without a gap, and no two share an
\* id (LocalReplayDecisionJournal, build_replay_decision_intent_id).
THEOREM JournaledOnce == Spec => []DecisionsJournaledOnce
BY DecisionsInductive, JournalHolds, PTL

-----------------------------------------------------------------------------
(* The loop that selects a frame's observations.                            *)

\* A set of numbers has a least one.
LEMMA LeastNumber ==
    ASSUME NEW S, S \subseteq Nat, S # {}
    PROVE  \E n \in S : \A k \in S : n <= k
<1>1. PICK n \in S : \A k \in S : <<k, n>> \notin OpToRel(<, Nat)
  BY NatLessThanWellFounded, WFMin
<1>2. \A k \in S : ~(k < n)
  BY <1>1 DEF OpToRel
<1> QED
  BY <1>2

\* The loop of select_latest_market_observations over the places in seen.
Scan(observations, seen, n, after) ==
    after = [i \in 0 .. n |->
                IF i = 0 THEN Nothing
                ELSE IF i \in seen THEN Selected(after[i - 1], observations[i])
                ELSE after[i - 1]]

\* The loop has a value after every place.
LEMMA ScanExists ==
    ASSUME NEW observations, NEW seen, NEW n \in Nat
    PROVE  \E after : Scan(observations, seen, n, after)
<1> DEFINE Bad == {k \in Nat : ~ \E f : Scan(observations, seen, k, f)}
<1> SUFFICES ASSUME Bad # {} PROVE FALSE
  OBVIOUS
<1>1. PICK k \in Bad : \A l \in Bad : k <= l
  <2> HIDE DEF Bad
  <2>1. Bad \subseteq Nat
    BY DEF Bad
  <2> QED
    BY <2>1, LeastNumber
<1>2. CASE k = 0
  <2> DEFINE g == [i \in 0 .. 0 |-> Nothing]
  <2>1. g = [i \in 0 .. 0 |->
                IF i = 0 THEN Nothing
                ELSE IF i \in seen THEN Selected(g[i - 1], observations[i])
                ELSE g[i - 1]]
    OBVIOUS
  <2>2. Scan(observations, seen, 0, g)
    BY <2>1 DEF Scan
  <2> QED
    BY <1>2, <2>2
<1>3. CASE k # 0
  <2>1. k - 1 \in Nat /\ k - 1 \notin Bad
    BY <1>1, <1>3
  <2>2. PICK f : Scan(observations, seen, k - 1, f)
    BY <2>1
  <2> DEFINE NextOf(h, i) == IF i = 0 THEN Nothing
                            ELSE IF i \in seen THEN Selected(h[i - 1], observations[i])
                            ELSE h[i - 1]
             g == [i \in 0 .. k |-> IF i < k THEN f[i] ELSE NextOf(f, i)]
  <2>3. ASSUME NEW i \in 0 .. k PROVE g[i] = NextOf(g, i)
    <3>1. CASE i < k
      <4>1. i \in 0 .. k - 1 /\ (i = 0 \/ (i - 1 \in 0 .. k /\ i - 1 < k))
        BY <1>3, <3>1
      <4>2. f[i] = NextOf(f, i)
        BY <2>2, <4>1 DEF Scan
      <4>3. g[i] = f[i] /\ (i = 0 \/ g[i - 1] = f[i - 1])
        BY <3>1, <4>1
      <4> HIDE DEF g
      <4> QED
        BY <4>2, <4>3
    <3>2. CASE i = k
      <4>1. g[i] = NextOf(f, i)
        BY <3>2
      <4>2. i - 1 \in 0 .. k /\ i - 1 < k
        BY <1>3, <3>2
      <4>3. g[i - 1] = f[i - 1]
        BY <4>2
      <4> HIDE DEF g
      <4> QED
        BY <4>1, <4>3
    <3> QED
      BY <3>1, <3>2
  <2>4. Scan(observations, seen, k, g)
    <3>1. g = [i \in 0 .. k |-> g[i]]
      OBVIOUS
    <3> HIDE DEF g
    <3> QED
      BY <2>3, <3>1 DEF Scan
  <2> QED
    BY <2>4
<1> QED
  BY <1>2, <1>3

\* How far the loop has come says all that it has selected.
LEMMA ScansAgree ==
    ASSUME NEW observations, NEW s, NEW t, NEW m \in Nat, NEW n \in Nat, NEW f, NEW g,
           Scan(observations, s, m, f), Scan(observations, t, n, g), m <= n,
           \A i \in 1 .. m : i \in s <=> i \in t
    PROVE  f[m] = g[m]
<1> DEFINE Bad == {k \in 0 .. m : f[k] # g[k]}
<1> SUFFICES ASSUME Bad # {} PROVE FALSE
  OBVIOUS
<1>1. PICK k \in Bad : \A l \in Bad : k <= l
  <2> HIDE DEF Bad
  <2>1. Bad \subseteq Nat
    BY DEF Bad
  <2> QED
    BY <2>1, LeastNumber
<1>2. k \in 0 .. m /\ k \in 0 .. n /\ f[k] # g[k]
  BY <1>1
<1>3. /\ f[k] = IF k = 0 THEN Nothing ELSE IF k \in s THEN Selected(f[k - 1], observations[k])
                ELSE f[k - 1]
      /\ g[k] = IF k = 0 THEN Nothing ELSE IF k \in t THEN Selected(g[k - 1], observations[k])
                ELSE g[k - 1]
  BY <1>2 DEF Scan
<1>4. k # 0
  BY <1>2, <1>3
<1>5. f[k - 1] = g[k - 1]
  <2>1. k - 1 \in 0 .. m /\ ~(k <= k - 1)
    BY <1>2, <1>4
  <2>2. k - 1 \notin Bad
    <3> HIDE DEF Bad
    <3> QED
      BY <1>1, <2>1
  <2> QED
    BY <2>1, <2>2
<1>6. k \in s <=> k \in t
  BY <1>2, <1>4
<1> QED
  BY <1>2, <1>3, <1>5, <1>6

\* The last place of each stream among those in seen, up to k.
LastSeen(observations, seen, k) ==
    {j \in seen :
        /\ j <= k
        /\ \A l \in seen : j < l /\ l <= k =>
                StreamKey(observations[l]) # StreamKey(observations[j])}

\* The selection holds these.
HoldsLast(observations, seen, selected, k) ==
    /\ \A x \in DOMAIN selected : \E j \in LastSeen(observations, seen, k) :
            x = StreamKey(observations[j]) /\ selected[x] = observations[j]
    /\ \A j \in LastSeen(observations, seen, k) :
            /\ StreamKey(observations[j]) \in DOMAIN selected
            /\ selected[StreamKey(observations[j])] = observations[j]

\* One more observation that is selected replaces the one of its stream: were
\* the selection left as it is, the observation would be one of an earlier place.
LEMMA SelectsLast ==
    ASSUME NEW observations, NEW seen, seen \subseteq Nat, NEW k \in seen, k # 0,
           \A j \in seen : observations[j].order_index = j,
           NEW selected, HoldsLast(observations, seen, selected, k - 1),
           Selected(selected, observations[k]) # None,
           observations[k] \in Range(Selected(selected, observations[k]))
    PROVE  HoldsLast(observations, seen, Selected(selected, observations[k]), k)
<1> DEFINE o == observations[k]
           key == StreamKey(o)
           new == Selected(selected, o)
           chosen == [x \in DOMAIN selected \cup {key} |-> IF x = key THEN o ELSE selected[x]]
           old == LastSeen(observations, seen, k - 1)
           last == LastSeen(observations, seen, k)
<1>1. new = selected \/ new = chosen
  BY DEF Selected
<1>2. CASE new = selected
  <2>1. PICK x \in DOMAIN selected : selected[x] = o
    BY <1>2 DEF Range
  <2>2. PICK j \in old : o = observations[j]
    BY <2>1 DEF HoldsLast
  <2>3. j \in seen /\ j <= k - 1
    BY <2>2 DEF LastSeen
  <2>4. j = k
    BY <2>2, <2>3
  <2> HIDE DEF o, old
  <2>5. k \in Nat /\ ~(k <= k - 1)
    OBVIOUS
  <2> QED
    BY <2>3, <2>4, <2>5
<1>3. CASE new = chosen
  <2>1. \A j \in last : j = k \/ (j \in old /\ StreamKey(observations[j]) # key)
    BY DEF LastSeen
  <2>2. k \in last /\ \A j \in old : StreamKey(observations[j]) # key => j \in last
    <3>1. \A l \in seen : l <= k => l <= k - 1 \/ l = k
      OBVIOUS
    <3> QED
      BY <3>1 DEF LastSeen
  <2>3. ASSUME NEW x \in DOMAIN chosen
        PROVE  \E j \in last : x = StreamKey(observations[j]) /\ chosen[x] = observations[j]
    <3>1. CASE x = key
      BY <2>2, <3>1
    <3>2. CASE x # key
      <4>1. x \in DOMAIN selected /\ chosen[x] = selected[x]
        BY <3>2
      <4>2. PICK j \in old : x = StreamKey(observations[j]) /\ selected[x] = observations[j]
        BY <4>1 DEF HoldsLast
      <4> QED
        BY <2>2, <3>2, <4>1, <4>2
    <3> QED
      BY <3>1, <3>2
  <2>4. ASSUME NEW j \in last
        PROVE  /\ StreamKey(observations[j]) \in DOMAIN chosen
               /\ chosen[StreamKey(observations[j])] = observations[j]
    <3>1. CASE j = k
      BY <3>1
    <3>2. CASE j \in old /\ StreamKey(observations[j]) # key
      BY <3>2 DEF HoldsLast
    <3> QED
      BY <2>1, <3>1, <3>2
  <2> HIDE DEF chosen, last
  <2> QED
    BY <1>3, <2>3, <2>4 DEF HoldsLast, last
<1> QED
  BY <1>1, <1>2, <1>3

\* What the observations of a market timeline have that was built: every
\* frame holds the observation that triggers it.
Selectable(observations) ==
    /\ DOMAIN observations \subseteq Nat \ {0}
    /\ \A n \in DOMAIN observations :
        /\ observations[n].order_index = n
        /\ LatestObservations(observations, n) # None
        /\ observations[n] \in Range(LatestObservations(observations, n))

\* A frame's observations are what the loop has selected at its event.
LEMMA LatestIsScan ==
    ASSUME NEW observations, NEW n \in Nat, LatestObservations(observations, n) # None
    PROVE  \E f : /\ Scan(observations, Cumulative(observations, n), n, f)
                  /\ LatestObservations(observations, n) = f[n]
<1> DEFINE seen == Cumulative(observations, n)
           f == CHOOSE f : Scan(observations, seen, n, f)
<1>1. Scan(observations, seen, n, f)
  BY ScanExists
<1>2. LatestObservations(observations, n) = f[n]
  BY DEF LatestObservations, Scan
<1> QED
  BY <1>1, <1>2

\* Each observation is in the frame it triggers, so it was the latest of its
\* stream then; the loop over all of them agrees with the loops before.
LEMMA FrameHoldsLast ==
    ASSUME NEW observations, Selectable(observations), NEW n \in DOMAIN observations
    PROVE  HoldsLast(observations, Cumulative(observations, n),
                     LatestObservations(observations, n), n)
<1> DEFINE seen == Cumulative(observations, n)
<1>1. n \in Nat \ {0} /\ LatestObservations(observations, n) # None
  BY DEF Selectable
<1>2. PICK f : Scan(observations, seen, n, f) /\ LatestObservations(observations, n) = f[n]
  BY <1>1, LatestIsScan
<1>3. seen \subseteq DOMAIN observations /\ seen \subseteq Nat \ {0}
  BY DEF Cumulative, Selectable
<1>4. ASSUME NEW k \in seen
      PROVE  f[k] # None /\ observations[k] \in Range(f[k])
  <2> DEFINE mine == Cumulative(observations, k)
  <2>1. k \in DOMAIN observations /\ k \in Nat \ {0} /\ k <= n
    BY <1>3 DEF Cumulative
  <2>2. PICK g : Scan(observations, mine, k, g) /\ LatestObservations(observations, k) = g[k]
    BY <2>1, LatestIsScan DEF Selectable
  <2>3. \A i \in 1 .. k : i \in mine <=> i \in seen
    BY <1>1, <2>1 DEF Cumulative
  <2>4. g[k] = f[k]
    <3> HIDE DEF seen, mine
    <3> QED
      BY <1>1, <1>2, <2>1, <2>2, <2>3, ScansAgree
  <2> QED
    BY <2>1, <2>2, <2>4 DEF Selectable
<1> DEFINE Bad == {k \in 0 .. n : ~HoldsLast(observations, seen, f[k], k)}
<1>5. Bad = {}
  <2> SUFFICES ASSUME Bad # {} PROVE FALSE
    OBVIOUS
  <2>1. PICK k \in Bad : \A l \in Bad : k <= l
    <3> HIDE DEF Bad
    <3>1. Bad \subseteq Nat
      BY DEF Bad
    <3> QED
      BY <3>1, LeastNumber
  <2>2. k \in 0 .. n /\ ~HoldsLast(observations, seen, f[k], k)
    BY <2>1
  <2>3. f[k] = IF k = 0 THEN Nothing ELSE IF k \in seen THEN Selected(f[k - 1], observations[k])
               ELSE f[k - 1]
    BY <1>2, <2>2 DEF Scan
  <2>4. CASE k = 0
    <3>1. f[k] = Nothing /\ DOMAIN Nothing = {}
      BY <2>3, <2>4 DEF Nothing
    <3>2. LastSeen(observations, seen, k) = {}
      BY <1>3, <2>4 DEF LastSeen
    <3> QED
      BY <2>2, <3>1, <3>2 DEF HoldsLast
  <2>5. CASE k # 0
    <3>1. HoldsLast(observations, seen, f[k - 1], k - 1)
      <4>1. k - 1 \in 0 .. n /\ ~(k <= k - 1)
        BY <1>1, <2>2, <2>5
      <4>2. k - 1 \notin Bad
        <5> HIDE DEF Bad
        <5> QED
          BY <2>1, <4>1
      <4> QED
        BY <4>1, <4>2
    <3>2. CASE k \in seen
      <4>1. f[k] = Selected(f[k - 1], observations[k])
        BY <2>3, <2>5, <3>2
      <4>2. f[k] # None /\ observations[k] \in Range(f[k])
        BY <1>4, <3>2
      <4>3. \A j \in seen : observations[j].order_index = j
        BY <1>3 DEF Selectable
      <4> HIDE DEF seen
      <4>4. HoldsLast(observations, seen, f[k], k)
        BY <1>3, <2>5, <3>1, <3>2, <4>1, <4>2, <4>3, SelectsLast
      <4> QED
        BY <2>2, <4>4
    <3>3. CASE k \notin seen
      <4>1. f[k] = f[k - 1]
        BY <2>3, <2>5, <3>3
      <4>2. LastSeen(observations, seen, k) = LastSeen(observations, seen, k - 1)
        <5>1. \A j \in seen : j <= k <=> j <= k - 1
          BY <1>3, <2>2, <3>3
        <5> HIDE DEF seen
        <5> QED
          BY <5>1 DEF LastSeen
      <4> QED
        BY <2>2, <3>1, <4>1, <4>2 DEF HoldsLast
    <3> QED
      BY <3>2, <3>3
  <2> QED
    BY <2>4, <2>5
<1>6. HoldsLast(observations, seen, f[n], n)
  BY <1>1, <1>5
<1> QED
  BY <1>2, <1>6

\* The observations of a frame are the last of each stream.
LEMMA FrameIsLast ==
    ASSUME NEW observations, Selectable(observations), NEW n \in DOMAIN observations
    PROVE  Range(LatestObservations(observations, n)) =
                {observations[j] : j \in LastSeen(observations, Cumulative(observations, n), n)}
<1>1. HoldsLast(observations, Cumulative(observations, n), LatestObservations(observations, n), n)
  BY FrameHoldsLast
<1> QED
  BY <1>1 DEF HoldsLast, Range

-----------------------------------------------------------------------------
(* What a built market timeline holds.                                      *)

\* The binding an event is observed through.
BindingOf(bs, e) == CHOOSE b \in bs : BindsTo(b, e)

\* An observation of a built timeline names the event it is of, and the stream
\* by the ids of a consistent binding.
Observed(f, i) ==
    LET e == Timelines[f.replay_timeline_id].events[i]
        b == BindingOf(f.bindings, e)
        o == f.observations[i]
    IN  /\ b \in f.bindings
        /\ o.order_index = i
        /\ o.source_id = b.source.source_id
        /\ o.venue_instrument_id = b.venue_instrument.venue_instrument_id
        /\ o.logical_instrument = b.venue_instrument.logical_instrument
        /\ o.kind = ObservationKinds[e.kind]

\* The guards of BuildFrames, of the timeline it built.
LEMMA BuiltHolds ==
    ASSUME NEW f, Built(f)
    PROVE  /\ f.replay_timeline_id \in DOMAIN Timelines
           /\ ValidDescriptor(f.descriptor) /\ ConsistentBindings(f.bindings)
           /\ DOMAIN f.observations = SupportedEvents(f.replay_timeline_id, f.descriptor)
           /\ Selectable(f.observations)
           /\ \A i \in DOMAIN f.observations :
                /\ Observed(f, i)
                /\ f.frames[i].observations = LatestObservations(f.observations, i)
<1>1. PICK t, batches, d, bs :
        /\ t \in DOMAIN Timelines
        /\ f = FrameTimeline(t, d, bs, ObservationsOf(t, batches, d, bs))
        /\ ValidDescriptor(d) /\ ConsistentBindings(bs)
        /\ \A i \in SupportedEvents(t, d) : Projects(Timelines[t].events[i], batches, d, bs)
        /\ \A n \in DOMAIN f.observations : ValidFrame(f.frames[n], f.observations[n])
  BY DEF Built
<1> DEFINE observations == ObservationsOf(t, batches, d, bs)
           frame(n) == FrameAt(observations, n)
<1>2. /\ f.replay_timeline_id = t /\ f.descriptor = d /\ f.bindings = bs
      /\ f.observations = observations
      /\ f.frames = [n \in DOMAIN observations |-> frame(n)]
  <2> HIDE DEF observations, frame
  <2>1. f = FrameTimeline(t, d, bs, observations)
    BY <1>1 DEF observations
  <2> QED
    BY <2>1 DEF FrameTimeline, frame
<1>3. DOMAIN observations = SupportedEvents(t, d)
  BY DEF ObservationsOf
<1>4. ASSUME NEW i \in DOMAIN observations PROVE Observed(f, i)
  <2> DEFINE e == Timelines[t].events[i]
  <2>1. observations[i] = ObservationOf(i, e, batches, bs)
    BY <1>3 DEF ObservationsOf
  <2>2. \E b \in bs : BindsTo(b, e)
    BY <1>1, <1>3 DEF Projects
  <2>3. BindingOf(bs, e) \in bs
    BY <2>2 DEF BindingOf
  <2> HIDE DEF observations
  <2> QED
    BY <1>2, <2>1, <2>3 DEF Observed, ObservationOf, BindingOf
<1>5. ASSUME NEW n \in DOMAIN observations
      PROVE  /\ f.frames[n].observations = LatestObservations(observations, n)
             /\ LatestObservations(observations, n) # None
             /\ observations[n] \in Range(LatestObservations(observations, n))
  <2> HIDE DEF observations
  <2>1. f.frames[n] = FrameAt(observations, n)
    BY <1>2 DEF frame
  <2>2. f.frames[n].observations = LatestObservations(observations, n)
    BY <2>1 DEF FrameAt, FrameOf
  <2> QED
    BY <1>1, <1>2, <2>2 DEF ValidFrame
<1>6. DOMAIN observations \subseteq Nat \ {0}
  <2>1. PICK n \in Nat : DOMAIN Timelines[t].events = 1 .. n
    BY <1>1, TimelinesAssumption, LenProperties
  <2> QED
    BY <1>3, <2>1 DEF SupportedEvents
<1>7. Selectable(observations)
  <2> HIDE DEF observations
  <2> QED
    BY <1>2, <1>4, <1>5, <1>6 DEF Selectable, Observed
<1> HIDE DEF observations
<1> QED
  BY <1>1, <1>2, <1>3, <1>4, <1>5, <1>7

\* Two observations are of one stream where their sources, their instruments
\* and the kinds of their events are.
LEMMA StreamsAgree ==
    ASSUME NEW f, Built(f), NEW i \in DOMAIN f.observations, NEW j \in DOMAIN f.observations
    PROVE  LET e(k) == Timelines[f.replay_timeline_id].events[k]
               b(k) == BindingOf(f.bindings, e(k))
           IN  StreamKey(f.observations[i]) = StreamKey(f.observations[j]) <=>
                    <<b(i).source, b(i).venue_instrument, e(i).kind>> =
                    <<b(j).source, b(j).venue_instrument, e(j).kind>>
<1> DEFINE e(k) == Timelines[f.replay_timeline_id].events[k]
           b(k) == BindingOf(f.bindings, e(k))
<1>1. Observed(f, i) /\ Observed(f, j) /\ ConsistentBindings(f.bindings)
  BY BuiltHolds
<1>2. b(i) \in f.bindings /\ b(j) \in f.bindings
  BY <1>1 DEF Observed
<1>3. /\ b(i).source.source_id = b(j).source.source_id <=> b(i).source = b(j).source
      /\ b(i).venue_instrument.venue_instrument_id = b(j).venue_instrument.venue_instrument_id
            <=> b(i).venue_instrument = b(j).venue_instrument
  <2> HIDE DEF b
  <2> QED
    BY <1>1, <1>2 DEF ConsistentBindings
<1>4. e(i).kind \in DOMAIN ObservationKinds /\ e(j).kind \in DOMAIN ObservationKinds
  <2>1. /\ i \in SupportedEvents(f.replay_timeline_id, f.descriptor)
        /\ j \in SupportedEvents(f.replay_timeline_id, f.descriptor)
        /\ ValidDescriptor(f.descriptor)
    BY BuiltHolds
  <2> QED
    BY <2>1 DEF SupportedEvents, ValidDescriptor
<1>5. ObservationKinds[e(i).kind] = ObservationKinds[e(j).kind] <=> e(i).kind = e(j).kind
  <2> HIDE DEF e
  <2> QED
    BY <1>4 DEF ObservationKinds
<1>6. /\ StreamKey(f.observations[i]) = <<b(i).source.source_id,
                b(i).venue_instrument.venue_instrument_id, ObservationKinds[e(i).kind]>>
      /\ StreamKey(f.observations[j]) = <<b(j).source.source_id,
                b(j).venue_instrument.venue_instrument_id, ObservationKinds[e(j).kind]>>
  BY <1>1 DEF Observed, StreamKey
<1> HIDE DEF e, b
<1>7. StreamKey(f.observations[i]) = StreamKey(f.observations[j]) <=>
        <<b(i).source, b(i).venue_instrument, e(i).kind>> =
        <<b(j).source, b(j).venue_instrument, e(j).kind>>
  BY <1>3, <1>5, <1>6
<1> QED
  BY <1>7 DEF e, b

\* Evidence comes from every observation of a frame.
LEMMA EvidenceIsComplete ==
    ASSUME NEW frame, \A o \in Range(frame.observations) : o.kind \in Range(ObservationKinds)
    PROVE  {x.origin : x \in EvidenceOf(frame)} =
                {o.order_index : o \in Range(frame.observations)}
<1>1. ASSUME NEW o \in Range(frame.observations)
      PROVE  \E x \in ItemsOf(o) : x.origin = o.order_index
  <2>1. o.kind \in {"TRADE", "TOP_OF_BOOK", "MARK_PRICE", "INDEX_PRICE"}
    BY DEF Range, ObservationKinds
  <2>2. PICK k \in DOMAIN EvidenceKinds : EvidenceKinds[k][1] = o.kind
    BY <2>1 DEF EvidenceKinds
  <2> DEFINE x == [kind |-> k, origin |-> o.order_index, value |-> o.payload[EvidenceKinds[k][2]]]
  <2>3. x \in ItemsOf(o)
    BY <2>2 DEF ItemsOf
  <2> QED
    BY <2>3
<1>2. \A o : \A x \in ItemsOf(o) : x.origin = o.order_index
  BY DEF ItemsOf
<1> QED
  BY <1>1, <1>2 DEF EvidenceOf

\* The events of the last observations of a frame.
LEMMA FrameOrigins ==
    ASSUME NEW f, Built(f), NEW i \in DOMAIN f.observations
    PROVE  LET last == LastSeen(f.observations, Cumulative(f.observations, i), i)
           IN  /\ {o.order_index : o \in Range(f.frames[i].observations)} = last
               /\ {x.origin : x \in EvidenceOf(f.frames[i])} = last
<1> DEFINE last == LastSeen(f.observations, Cumulative(f.observations, i), i)
<1>1. Selectable(f.observations)
      /\ f.frames[i].observations = LatestObservations(f.observations, i)
  BY BuiltHolds
<1>2. Range(f.frames[i].observations) = {f.observations[j] : j \in last}
  BY <1>1, FrameIsLast
<1>3. last \subseteq DOMAIN f.observations
  BY DEF LastSeen, Cumulative
<1> HIDE DEF last
<1>4. ASSUME NEW j \in last
      PROVE  f.observations[j].order_index = j
             /\ f.observations[j].kind \in Range(ObservationKinds)
  <2>1. Observed(f, j)
    BY <1>3, BuiltHolds
  <2>2. Timelines[f.replay_timeline_id].events[j].kind \in DOMAIN ObservationKinds
    BY <1>3, BuiltHolds DEF SupportedEvents, ValidDescriptor
  <2> QED
    BY <2>1, <2>2 DEF Observed, Range
<1>5. {o.order_index : o \in Range(f.frames[i].observations)} = last
  BY <1>2, <1>4
<1>6. {x.origin : x \in EvidenceOf(f.frames[i])} = last
  BY <1>2, <1>4, <1>5, EvidenceIsComplete
<1> QED
  BY <1>5, <1>6 DEF last

\* An output rests on the frame of its own event, which holds the last
\* observation of each stream.
LEMMA PastHolds == DecisionsInv => DecisionSeesThePast
<1> SUFFICES ASSUME DecisionsInv, NEW o \in outputs
             PROVE  LET e == o.payload
                        m == e.market.market_timeline_id
                        past == Past(m, e.event_order_index)
                        latest == {j \in past : \A k \in past :
                                        k > j => StreamOf(m, k) # StreamOf(m, j)}
                    IN  /\ {x.order_index : x \in Range(e.market.frame.observations)} = latest
                        /\ {x.origin : x \in e.evidence.items} = latest
  BY DEF DecisionSeesThePast
<1> DEFINE v == View
           f == v.frames
           e == o.payload
<1>1. /\ OneView(v) /\ f = frames[v.dispatcher.market] /\ v.timeline = run.timeline
      /\ v.dispatcher = [stack |-> v.dispatcher.stack, market |-> v.dispatcher.market,
                         evidence |-> v.dispatcher.evidence]
  BY OutputMeans
<1>2. PICK i, n : n \in DOMAIN DecisionsOn(v, i) /\ Decided(v, i) /\ o = OutputOn(v, i, n)
  BY OutputMeans
<1> DEFINE m == v.dispatcher.market
           past == Past(m, i)
           seen == Cumulative(f.observations, i)
           latest == {j \in past : \A k \in past : k > j => StreamOf(m, k) # StreamOf(m, j)}
           last == LastSeen(f.observations, seen, i)
<1>3. Built(f)
  BY OutputMeans
<1>4. i \in DOMAIN f.observations /\ f.replay_timeline_id = run.timeline
  BY <1>1, <1>2 DEF Decided, Answered
<1> HIDE DEF v
<1>5. /\ FrozenBy(e) = v.dispatcher /\ e.event_order_index = i
      /\ e.market.frame = EvidenceIn(f, i).source_frame
      /\ e.evidence.items = EvidenceIn(f, i).items
  BY <1>1, <1>2, OutputFields
<1>6. /\ e.market.frame = f.frames[i] /\ e.evidence.items = EvidenceOf(f.frames[i])
      /\ e.market.market_timeline_id = m
  BY <1>5 DEF EvidenceIn, EvidenceSet, FrozenBy
<1> HIDE DEF f, e
<1>7. /\ {x.order_index : x \in Range(f.frames[i].observations)} = last
      /\ {x.origin : x \in EvidenceOf(f.frames[i])} = last
  BY <1>3, <1>4, FrameOrigins
<1>8. /\ run.timeline \in DOMAIN Timelines
      /\ DOMAIN f.observations = SupportedEvents(run.timeline, f.descriptor)
  BY <1>3, <1>4, BuiltHolds
<1>9. PICK N \in Nat : DOMAIN Timelines[run.timeline].events = 1 .. N
  BY <1>8, TimelinesAssumption, LenProperties
<1>10. \A j : StreamOf(m, j) = LET b == BindingOf(f.bindings, EventAt(j))
                              IN  <<b.source, b.venue_instrument, EventAt(j).kind>>
  BY <1>1 DEF StreamOf, BindingOf, f
<1>11. \A j \in DOMAIN f.observations :
        f.observations[j].logical_instrument = StreamOf(m, j)[2].logical_instrument
  BY <1>3, <1>4, <1>10, BuiltHolds DEF Observed, EventAt
<1>12. past = seen
  <2>1. \A j : j \in DOMAIN f.observations <=>
            j \in 1 .. N /\ EventAt(j).kind \in KindsOf(m)
    BY <1>1, <1>8, <1>9 DEF SupportedEvents, KindsOf, EventAt, f
  <2>2. i \in 1 .. N
    BY <1>4, <2>1
  <2>3. \A j : j \in 1 .. i <=> j \in 1 .. N /\ j <= i
    BY <2>2
  <2>4. \A j : j \in past <=>
            /\ j \in DOMAIN f.observations /\ j <= i
            /\ StreamOf(m, j)[2].logical_instrument = StreamOf(m, i)[2].logical_instrument
    BY <2>1, <2>3 DEF Past
  <2> QED
    BY <1>4, <1>11, <2>4 DEF Cumulative
<1>13. \A j, k \in seen : StreamOf(m, k) = StreamOf(m, j) <=>
            StreamKey(f.observations[k]) = StreamKey(f.observations[j])
  <2>1. ASSUME NEW j \in seen, NEW k \in seen
        PROVE  StreamOf(m, k) = StreamOf(m, j) <=>
                    StreamKey(f.observations[k]) = StreamKey(f.observations[j])
    <3>1. j \in DOMAIN f.observations /\ k \in DOMAIN f.observations
      BY DEF Cumulative
    <3> QED
      BY <1>3, <1>4, <1>10, <3>1, StreamsAgree DEF EventAt
  <2> QED
    BY <2>1
<1>14. latest = last
  <2>1. \A j \in seen : j \in Nat /\ j <= i
    BY <1>3, BuiltHolds DEF Cumulative, Selectable
  <2> HIDE DEF seen, past
  <2>2. \A j, k \in seen : k > j <=> j < k
    BY <2>1
  <2> QED
    BY <1>12, <1>13, <2>1, <2>2 DEF LastSeen
<1> HIDE DEF last, latest
<1>15. /\ {x.order_index : x \in Range(e.market.frame.observations)} = latest
       /\ {x.origin : x \in e.evidence.items} = latest
  BY <1>6, <1>7, <1>14
<1> QED
  BY <1>5, <1>6, <1>15 DEF latest, past, e

\* Every decision was taken on exactly the last event of each stream up to its
\* own: no look-ahead, nothing stale and nothing dropped, however often the
\* lookups were reloaded (select_latest_market_observations,
\* build_replay_market_frame_timeline, LocalReplayMarketEvidenceLookup.lookup).
THEOREM SeesThePast == Spec => []DecisionSeesThePast
BY DecisionsInductive, PastHolds, PTL
=============================================================================

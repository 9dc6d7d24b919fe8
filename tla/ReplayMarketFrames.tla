------------------------- MODULE ReplayMarketFrames -------------------------
(***************************************************************************)
(* What a decision stack sees of the market in a replay:                    *)
(* build_replay_market_frame_timeline turns the events of a replay timeline *)
(* into one market frame per supported event, and                           *)
(* DeterministicReplayMarketEvidenceTimelineBuilder derives the evidence of *)
(* each frame.  LocalReplayMarketFrameLookup and                            *)
(* LocalReplayMarketEvidenceLookup answer for one event.                    *)
(*                                                                          *)
(* Deterministic ids are digests of what they identify.  A market timeline  *)
(* is known by its place in frames, where equal ones are kept once; its     *)
(* evidence timeline, made by the one builder there is, by the same number. *)
(* An event is known by its order_index, which is its place in the          *)
(* timeline.  raw_payload_sha256 is left out: it is a digest of the record  *)
(* the observation is made of.  A replay never has source health.           *)
(***************************************************************************)
EXTENDS Integers, Sequences, FiniteSets, Functions, TLC

CONSTANTS
    Timelines,    \* the replay timelines, by id
    BatchSets,    \* what callers hand in as input_batches
    Descriptors,  \* the adapter descriptors they name
    BindingSets,  \* the bindings they name
    MaxFrames,    \* bound: market timelines built
    None          \* absence of an optional value

\* ReplayEventTimeline.events is a tuple.
ASSUME TimelinesAssumption ==
    \A t \in DOMAIN Timelines : Timelines[t].events \in Seq(Range(Timelines[t].events))

VARIABLES
    frames,     \* the market timelines built, each once
    evidenced   \* those whose evidence timeline is built

Nothing == [k \in {} |-> None]

-----------------------------------------------------------------------------
(* Descriptors and bindings.                                                *)

\* _REPLAY_TO_MARKET_OBSERVATION_KIND
ObservationKinds ==
    [TRADE |-> "TRADE", ORDER_BOOK_TOP |-> "TOP_OF_BOOK",
     MARK_PRICE |-> "MARK_PRICE", INDEX_PRICE |-> "INDEX_PRICE"]

ValidDescriptor(d) ==
    /\ d.supported_input_kinds # {}
    /\ d.supported_input_kinds \subseteq DOMAIN ObservationKinds

ValidBinding(b) ==
    /\ b.source.source_kind \in {"REPLAY", "SYNTHETIC"}
    /\ b.replay_instrument.symbol = b.venue_instrument.raw_symbol
    /\ b.source.venue \in {None, b.venue_instrument.venue}
    /\ b.venue_instrument.settlement_asset \in {None, b.replay_instrument.settlement_asset}
    /\ b.replay_instrument.quote_asset \in {None, b.venue_instrument.quote_asset}

BindingKey(b) == <<b.input_dataset_id, b.replay_instrument>>

\* validate_replay_market_data_bindings
ConsistentBindings(bs) ==
    /\ bs # {}
    /\ \A b, c \in bs :
        /\ BindingKey(b) = BindingKey(c) => b = c
        /\ b.binding_id = c.binding_id => b = c
        /\ b.source.source_id = c.source.source_id => b.source = c.source
        /\ b.venue_instrument.venue_instrument_id = c.venue_instrument.venue_instrument_id =>
                b.venue_instrument = c.venue_instrument

-----------------------------------------------------------------------------
(* From an event to an observation.                                         *)

\* resolve_replay_input_record up to the record itself
Resolves(e, batches) ==
    /\ \A a, b \in batches : a.batch_id = b.batch_id => a = b
    /\ \E b \in batches :
        /\ b.batch_id = e.batch_id
        /\ b.input_dataset_id = e.input_dataset_id
        /\ b.validation_status = "VALIDATED"
        /\ e.record_id \in DOMAIN b.records

RecordOf(e, batches) ==
    (CHOOSE b \in batches : b.batch_id = e.batch_id).records[e.record_id]

\* validate_replay_event_record_consistency
ConsistentRecord(e, r) ==
    /\ e.kind = r.kind /\ e.instrument = r.instrument
    /\ e.event_time = r.event_time /\ e.source_sequence = r.source_sequence
    /\ e.content_hash = r.content_hash

\* The Decimal fields of a payload of each kind.
DecimalFields ==
    [TRADE |-> {"price", "quantity"},
     ORDER_BOOK_TOP |-> {"bid_price", "bid_size", "ask_price", "ask_size"},
     MARK_PRICE |-> {"price"}, INDEX_PRICE |-> {"price"}]

\* _market_payload_for_record and the payload models: a field that is missing
\* or not positive, a crossed book or an unknown side raises.
ValidPayload(r) ==
    /\ DecimalFields[r.kind] \subseteq DOMAIN r.payload
    /\ \A f \in DecimalFields[r.kind] : r.payload[f] > 0
    /\ r.kind = "ORDER_BOOK_TOP" => r.payload["bid_price"] <= r.payload["ask_price"]
    /\ r.kind = "TRADE" /\ "side" \in DOMAIN r.payload => r.payload["side"] \in {"buy", "sell"}

HashSupplied(r, d) ==
    d.payload_hash_policy = "REQUIRE_SUPPLIED_SHA256" => r.content_hash # None

BindsTo(b, e) == BindingKey(b) = <<e.input_dataset_id, e.instrument>>

\* project_replay_record_to_market_observation does not raise
Projects(e, batches, d, bs) ==
    /\ Resolves(e, batches)
    /\ LET r == RecordOf(e, batches)
       IN  ConsistentRecord(e, r) /\ ValidPayload(r) /\ HashSupplied(r, d)
    /\ \E b \in bs : BindsTo(b, e)

\* The values an observation carries: the Decimal fields, the aggressor side of
\* a trade and the quote semantics of its binding.
PayloadOf(r, b) ==
    [f \in DecimalFields[r.kind] |-> r.payload[f]]
    @@ IF r.kind = "TRADE"
       THEN "side" :> IF "side" \in DOMAIN r.payload THEN r.payload["side"] ELSE "unknown"
       ELSE IF r.kind = "ORDER_BOOK_TOP"
       THEN "quote_semantics" :> b.quote_semantics
       ELSE Nothing

\* The session of an observation: a replay has one per dataset and binding,
\* always of the same reconnect_generation.
ConnectionId(e, b) == <<e.input_dataset_id, b.binding_id>>

\* The observation of event i.
ObservationOf(i, e, batches, bs) ==
    LET r == RecordOf(e, batches)
        b == CHOOSE b \in bs : BindsTo(b, e)
    IN  [order_index |-> i, source_id |-> b.source.source_id,
         venue_instrument_id |-> b.venue_instrument.venue_instrument_id,
         logical_instrument |-> b.venue_instrument.logical_instrument,
         kind |-> ObservationKinds[e.kind], payload |-> PayloadOf(r, b),
         received_at |-> r.event_time, source_sequence |-> r.source_sequence,
         connection_id |-> ConnectionId(e, b)]

-----------------------------------------------------------------------------
(* From observations to frames.                                             *)

\* Mutant: one stream for all that a source says of an instrument.
StreamKeyOfSource(o) == <<o.source_id, o.venue_instrument_id>>

\* observation_stream_key
StreamKey(o) == <<o.source_id, o.venue_instrument_id, o.kind>>

\* _compare_market_observations: by sequence in one session, by arrival across
\* sessions; a tie is ambiguous and raises.
Later(o, p) ==
    IF o.connection_id = p.connection_id
    THEN o.source_sequence > p.source_sequence
    ELSE o.received_at > p.received_at

Ambiguous(o, p) == ~Later(o, p) /\ ~Later(p, o)

\* One observation of select_latest_market_observations.
Selected(selected, o) ==
    LET key == StreamKey(o)
    IN  IF selected = None THEN None
        ELSE IF key \in DOMAIN selected /\ Ambiguous(o, selected[key]) THEN None
        ELSE IF key \in DOMAIN selected /\ ~Later(o, selected[key]) THEN selected
        ELSE [k \in DOMAIN selected \cup {key} |-> IF k = key THEN o ELSE selected[k]]

\* The observations of the same logical instrument up to event n.
Cumulative(observations, n) ==
    {i \in DOMAIN observations :
        i <= n /\ observations[i].logical_instrument = observations[n].logical_instrument}

\* The latest observation of each stream at event n, or None where the
\* selection raises: the loop over what was accumulated so far.
LatestObservations(observations, n) ==
    LET seen == Cumulative(observations, n)
        after[i \in 0 .. n] ==
            IF i = 0 THEN Nothing
            ELSE IF i \in seen THEN Selected(after[i - 1], observations[i])
            ELSE after[i - 1]
    IN  IF \E i \in seen : observations[i].received_at > observations[n].received_at
        THEN None ELSE after[n]

\* CrossVenueMarketFrame
FrameOf(o, selected) ==
    [logical_instrument |-> o.logical_instrument, as_of |-> o.received_at,
     observations |-> selected]

\* build_cross_venue_market_frame
FrameAt(observations, n) ==
    FrameOf(observations[n], LatestObservations(observations, n))

\* _validate_replay_market_frame_timeline_semantics: what a build can break is
\* that a frame holds the observation that triggers it.
ValidFrame(f, o) == f.observations # None /\ o \in Range(f.observations)

\* The events that a descriptor selects.
SupportedEvents(t, d) ==
    {i \in DOMAIN Timelines[t].events :
        Timelines[t].events[i].kind \in d.supported_input_kinds}

\* Observations and frames are found by the order_index of their event.
ObservationsOf(t, batches, d, bs) ==
    [i \in SupportedEvents(t, d) |->
        ObservationOf(i, Timelines[t].events[i], batches, bs)]

\* ReplayMarketFrameTimeline; the adapter authority is d and bs.
FrameTimeline(t, d, bs, observations) ==
    [replay_timeline_id |-> t, replay_plan_id |-> Timelines[t].replay_plan_id,
     descriptor |-> d, bindings |-> bs, observations |-> observations,
     frames |-> [n \in DOMAIN observations |-> FrameAt(observations, n)]]

\* build_replay_market_frame_timeline
BuildFrames(t, batches, d, bs) ==
    /\ Timelines[t].status \in {"BUILT", "VALIDATED"}
    /\ ValidDescriptor(d)
    /\ (\A b \in bs : ValidBinding(b)) /\ ConsistentBindings(bs)
    /\ \A i \in SupportedEvents(t, d) :
            Projects(Timelines[t].events[i], batches, d, bs)
    /\ LET observations == ObservationsOf(t, batches, d, bs)
           built == FrameTimeline(t, d, bs, observations)
       IN  /\ \A n \in DOMAIN observations : ValidFrame(built.frames[n], observations[n])
           /\ built \in Range(frames) \/ Len(frames) < MaxFrames
           /\ frames' = IF built \in Range(frames) THEN frames ELSE Append(frames, built)
    /\ UNCHANGED evidenced

-----------------------------------------------------------------------------
(* Evidence.                                                                *)

\* The kinds of evidence: of which observations, and which of their values.
EvidenceKinds ==
    [TRADE_PRICE |-> <<"TRADE", "price">>,
     TRADE_QUANTITY |-> <<"TRADE", "quantity">>,
     TRADE_AGGRESSOR_SIDE |-> <<"TRADE", "side">>,
     TOP_OF_BOOK_BID_PRICE |-> <<"TOP_OF_BOOK", "bid_price">>,
     TOP_OF_BOOK_BID_QUANTITY |-> <<"TOP_OF_BOOK", "bid_size">>,
     TOP_OF_BOOK_ASK_PRICE |-> <<"TOP_OF_BOOK", "ask_price">>,
     TOP_OF_BOOK_ASK_QUANTITY |-> <<"TOP_OF_BOOK", "ask_size">>,
     TOP_OF_BOOK_QUOTE_SEMANTICS |-> <<"TOP_OF_BOOK", "quote_semantics">>,
     MARK_PRICE |-> <<"MARK_PRICE", "price">>,
     INDEX_PRICE |-> <<"INDEX_PRICE", "price">>]

\* _derive_observation_items
ItemsOf(o) ==
    {[kind |-> k, origin |-> o.order_index, value |-> o.payload[EvidenceKinds[k][2]]] :
        k \in {l \in DOMAIN EvidenceKinds : EvidenceKinds[l][1] = o.kind}}

\* derive_market_evidence_items
EvidenceOf(frame) == UNION {ItemsOf(o) : o \in Range(frame.observations)}

\* MarketEvidenceSet
EvidenceSet(frame) == [source_frame |-> frame, items |-> EvidenceOf(frame)]

-----------------------------------------------------------------------------
(* Lookups.                                                                 *)

KindsOf(m) == frames[m].descriptor.supported_input_kinds

\* ReplayMarketFrameLookupEntry of event i
MarketEntry(m, i) ==
    LET o == frames[m].observations[i]
    IN  [market_timeline_id |-> m, event_order_index |-> o.order_index,
         event_time |-> o.received_at, event_kind |-> o.kind, frame |-> frames[m].frames[i]]

\* ReplayMarketFrameLookupAuthority
MarketAuthority(m) == [i \in DOMAIN frames[m].observations |-> MarketEntry(m, i)]

\* ReplayMarketFrameLookupDescriptor
MarketDescriptor(m) ==
    [market_timeline_id |-> m, replay_timeline_id |-> frames[m].replay_timeline_id,
     replay_plan_id |-> frames[m].replay_plan_id, supported_event_kinds |-> KindsOf(m)]

\* LocalReplayMarketFrameLookup.lookup does not raise
MarketAnswers(m, t, i) ==
    /\ MarketDescriptor(m).replay_timeline_id = t
    /\ MarketDescriptor(m).replay_plan_id = Timelines[t].replay_plan_id
    /\ Timelines[t].events[i].kind \in MarketDescriptor(m).supported_event_kinds
    /\ i \in DOMAIN MarketAuthority(m)
    /\ MarketEntry(m, i).event_order_index = i
    /\ MarketEntry(m, i).event_time = Timelines[t].events[i].event_time
    /\ MarketEntry(m, i).event_kind = ObservationKinds[Timelines[t].events[i].kind]

\* ReplayMarketFrameLookupResult for event i
MarketResult(m, i) ==
    [descriptor |-> MarketDescriptor(m), entry |-> MarketEntry(m, i)]

\* validate_replay_market_frame_lookup_membership
InMarketAuthority(m, result) ==
    /\ result.descriptor = MarketDescriptor(m)
    /\ result.entry \in Range(MarketAuthority(m))

\* ReplayMarketEvidenceProjection
EvidenceProjection(m, i) ==
    [market_lookup_entry |-> MarketEntry(m, i), evidence_set |-> EvidenceSet(frames[m].frames[i])]

\* The evidence timeline has one projection per market entry, and at least one.
ValidEvidence(m) == DOMAIN MarketAuthority(m) # {}

\* DeterministicReplayMarketEvidenceTimelineBuilder.build
BuildEvidence(m) ==
    /\ m \in DOMAIN frames
    /\ ValidEvidence(m)
    /\ evidenced' = evidenced \cup {m}
    /\ UNCHANGED frames

\* ReplayMarketEvidenceLookupEntry
EvidenceEntry(m, i) ==
    [evidence_timeline_id |-> m, event_order_index |-> MarketEntry(m, i).event_order_index,
     projection |-> EvidenceProjection(m, i)]

\* ReplayMarketEvidenceLookupAuthority
EvidenceAuthority(m) == [i \in DOMAIN MarketAuthority(m) |-> EvidenceEntry(m, i)]

\* ReplayMarketEvidenceLookupDescriptor
EvidenceDescriptor(m) == [evidence_timeline_id |-> m, market |-> MarketDescriptor(m)]

\* LocalReplayMarketEvidenceLookup.lookup does not raise
EvidenceAnswers(m, t, i) ==
    /\ EvidenceDescriptor(m).market.replay_timeline_id = t
    /\ EvidenceDescriptor(m).market.replay_plan_id = Timelines[t].replay_plan_id
    /\ Timelines[t].events[i].kind \in EvidenceDescriptor(m).market.supported_event_kinds
    /\ i \in DOMAIN EvidenceAuthority(m)
    /\ EvidenceEntry(m, i).event_order_index = i

\* ReplayMarketEvidenceLookupResult for event i
EvidenceResult(m, i) ==
    [descriptor |-> EvidenceDescriptor(m), entry |-> EvidenceEntry(m, i)]

\* validate_replay_market_evidence_lookup_membership
InEvidenceAuthority(m, result) ==
    /\ result.descriptor = EvidenceDescriptor(m)
    /\ result.entry \in Range(EvidenceAuthority(m))

FramesInit == frames = << >> /\ evidenced = {}
=============================================================================

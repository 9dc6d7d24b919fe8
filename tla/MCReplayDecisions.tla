-------------------------- MODULE MCReplayDecisions --------------------------
(* ReplayDecisions over a timeline whose events tie in time and come from two *)
(* venues, and over timelines that no market timeline can be built from.      *)
EXTENDS ReplayDecisions

Perp == [symbol |-> "BTC-PERP", settlement_asset |-> "USDT", quote_asset |-> "USDT"]
Spot == [symbol |-> "BTC-SPOT", settlement_asset |-> "USDT", quote_asset |-> None]

TimelineEvent(batch, record, kind, instrument, time, seq) ==
    [batch_id |-> batch, input_dataset_id |-> batch, record_id |-> record, kind |-> kind,
     instrument |-> instrument, event_time |-> time, source_sequence |-> seq,
     content_hash |-> None]

Timeline(plan, status, events) ==
    [replay_plan_id |-> plan, status |-> status, events |-> events]

\* A trade, a trade of the other venue and a book that tie with it, an event of
\* no interest, and a later trade; the others: a trade of another plan, an
\* invalid timeline, a sequence that goes back, a clock that does, a tie of two
\* sessions of one stream, and a kind that is never supported.
MCTimelines ==
    << Timeline(1, "BUILT", <<TimelineEvent(1, 1, "TRADE", Perp, 1, 1), TimelineEvent(2, 1, "TRADE", Spot, 1, 1),
                              TimelineEvent(1, 2, "ORDER_BOOK_TOP", Perp, 1, 2),
                              TimelineEvent(1, 3, "FUNDING_RATE", Perp, 1, 3),
                              TimelineEvent(1, 4, "TRADE", Perp, 1, 4)>>),
       Timeline(2, "VALIDATED", <<TimelineEvent(1, 1, "TRADE", Perp, 1, 1)>>),
       Timeline(1, "INVALID", <<TimelineEvent(1, 1, "TRADE", Perp, 1, 1)>>),
       Timeline(1, "BUILT", <<TimelineEvent(1, 4, "TRADE", Perp, 1, 4), TimelineEvent(1, 1, "TRADE", Perp, 1, 1)>>),
       Timeline(1, "BUILT", <<TimelineEvent(1, 5, "TRADE", Perp, 2, 5), TimelineEvent(2, 1, "TRADE", Spot, 1, 1)>>),
       Timeline(1, "BUILT", <<TimelineEvent(1, 1, "TRADE", Perp, 1, 1), TimelineEvent(3, 1, "TRADE", Perp, 1, 1)>>),
       Timeline(1, "BUILT", <<TimelineEvent(1, 3, "FUNDING_RATE", Perp, 1, 3)>>) >>

Trade(price) == [price |-> price, quantity |-> 1, side |-> "buy"]
Book == [bid_price |-> 1, bid_size |-> 1, ask_price |-> 2, ask_size |-> 1]

Record(kind, instrument, time, seq, payload) ==
    [kind |-> kind, instrument |-> instrument, event_time |-> time, source_sequence |-> seq,
     content_hash |-> None, payload |-> payload]

Batch(id, records) ==
    [batch_id |-> id, input_dataset_id |-> id, validation_status |-> "VALIDATED",
     records |-> records]

PerpRecords(price) ==
    <<Record("TRADE", Perp, 1, 1, Trade(price)), Record("ORDER_BOOK_TOP", Perp, 1, 2, Book),
      Record("FUNDING_RATE", Perp, 1, 3, Nothing), Record("TRADE", Perp, 1, 4, Trade(2)),
      Record("TRADE", Perp, 2, 5, Trade(1))>>

SpotBatch == Batch(2, <<Record("TRADE", Spot, 1, 1, [price |-> 1, quantity |-> 1])>>)
OtherPerp == Batch(3, <<Record("TRADE", Perp, 1, 1, Trade(1))>>)

\* As recorded; with another price; with one that is no price; without a batch;
\* with a batch that is not VALIDATED.
MCBatchSets ==
    { {Batch(1, PerpRecords(1)), SpotBatch, OtherPerp},
      {Batch(1, PerpRecords(2)), SpotBatch},
      {Batch(1, PerpRecords(0)), SpotBatch},
      {Batch(1, PerpRecords(1))},
      {[Batch(1, PerpRecords(1)) EXCEPT !.validation_status = "PLANNED"], SpotBatch} }

MCDescriptors ==
    { [supported_input_kinds |-> {"TRADE", "ORDER_BOOK_TOP"}, payload_hash_policy |-> "COMPUTED"],
      [supported_input_kinds |-> {"TRADE"}, payload_hash_policy |-> "COMPUTED"],
      [supported_input_kinds |-> {"TRADE"}, payload_hash_policy |-> "REQUIRE_SUPPLIED_SHA256"],
      [supported_input_kinds |-> {"FUNDING_RATE"}, payload_hash_policy |-> "COMPUTED"] }

Binding(id, dataset, instrument, source, venue) ==
    [binding_id |-> id, input_dataset_id |-> dataset, replay_instrument |-> instrument,
     source |-> [source_id |-> source, source_kind |-> "REPLAY", venue |-> None],
     venue_instrument |-> [venue_instrument_id |-> venue, venue |-> venue,
                           raw_symbol |-> instrument.symbol, logical_instrument |-> "BTC",
                           quote_asset |-> "USDT", settlement_asset |-> "USDT"],
     quote_semantics |-> "FIRM"]

\* Two venues of one logical instrument; a third dataset of the first one's
\* stream; one binding that a live source could have; and two of one key.
MCBindingSets ==
    LET perp == Binding(1, 1, Perp, 1, 1)
        spot == Binding(2, 2, Spot, 2, 2)
        again == Binding(3, 3, Perp, 1, 1)
    IN  { {perp, spot, again}, {perp},
          {[perp EXCEPT !.source.source_kind = "DIRECT_VENUE"], spot},
          {perp, [perp EXCEPT !.binding_id = 4]} }

MCStacks == << {"TRADE"}, {"TRADE"} >>

Made(kind) == [kind |-> kind, conforms |-> TRUE]

\* The first version decides twice on a price above one and not at all on a
\* book; the second trades whatever it sees, under an id of its own choice
\* when it sees several prices.
MCDecides(version, items) ==
    LET prices == {i.value : i \in {j \in items : j.kind = "TRADE_PRICE"}}
    IN  IF version = 1
        THEN IF 2 \in prices THEN <<Made("DECISION_INTENT"), Made("NO_TRADE_DECISION")>>
             ELSE <<Made("NO_TRADE_DECISION")>>
        ELSE IF prices = {1, 2} THEN <<[Made("DECISION_INTENT") EXCEPT !.conforms = FALSE]>>
             ELSE <<Made("DECISION_INTENT")>>

\* The first market timeline is that of the first timeline as it was recorded.
Recorded(f) ==
    /\ f.replay_timeline_id = 1 /\ Cardinality(DOMAIN f.observations) = 4
    /\ f.observations[1].payload.price = 1

\* A build adds a timeline and disturbs nothing, so all come first.  Runs over
\* the first timeline, and over one that no lookup can answer for.
ReplayScopeNext ==
    \/ /\ market = None /\ evidence = None /\ stack = 1
       /\ Build
       /\ Recorded(frames'[1])
    \/ Replay /\ run'.timeline \in {None, 1, 4}
=============================================================================

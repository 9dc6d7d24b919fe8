------------------------- MODULE MCVenueCapabilities -------------------------
(* VenueCapabilities on small instances: two callers, one venue.              *)
EXTENDS VenueCapabilities, TLC

(* Two official records of the venue, and one for tests only. *)
SourceRecord(i, trust, ok) ==
    [id |-> i, venue |-> "venue", trust |-> trust, health |-> "HEALTHY", accepted |-> ok,
     kind |-> IF trust = "OFFICIAL" THEN "OFFICIAL_EXCHANGE_API" ELSE "INTERNAL_TEST_FIXTURE",
     hash |-> i]
R1 == SourceRecord(1, "OFFICIAL", TRUE)
R2 == SourceRecord(2, "OFFICIAL", TRUE)
R3 == SourceRecord(3, "TEST_ONLY", FALSE)

VenueSnapshot(i, captured, record) ==
    [id |-> i, venue |-> "venue", instrument |-> Absent, captured |-> captured,
     record |-> record, hash |-> record, enabled |-> TRUE, assets |-> {"USDT"},
     flags |-> {"reduce_only"}]
RuleSnapshot(i, captured, record, tick) ==
    [id |-> i, venue |-> "venue", instrument |-> "instrument", captured |-> captured,
     record |-> record, hash |-> record, trading |-> TRUE, asset |-> "USDT",
     features |-> {"LIMIT", "GTC"}, flags |-> {"reduce_only"},
     prices |-> {p \in 2 .. 6 : p % tick = 0}, sizes |-> {<<2, 4>>, <<3, 3>>}]

Request(record, venue, rs) == [record |-> record, venue |-> venue, rules |-> rs]
FirstRequest == Request(R1, VenueSnapshot(1, 1, 1), <<RuleSnapshot(1, 1, 1, 2)>>)

(* An import of older snapshots under higher ids, a later one that has two *)
(* rules under one id, one of another record's snapshot, one of a record   *)
(* that is not official.                                                   *)
MCImportRequests ==
    {FirstRequest,
     Request(R2, VenueSnapshot(3, 0, 2), <<RuleSnapshot(3, 0, 2, 1)>>),
     Request(R2, VenueSnapshot(2, 2, 2), <<RuleSnapshot(4, 1, 2, 1), RuleSnapshot(4, 2, 2, 1)>>),
     Request(R2, VenueSnapshot(1, 1, 1), <<>>),
     Request(R3, VenueSnapshot(4, 2, 3), <<>>)}

(* A snapshot without provenance under an id that an import also uses, and *)
(* rules dated ahead of every resolution.                                  *)
MCLooseSnapshots == {VenueSnapshot(2, 1, Absent), RuleSnapshot(5, 4, 2, 2)}

Order(price, quantity, flags) ==
    [venue |-> "venue", instrument |-> "instrument", features |-> {"LIMIT", "GTC"},
     flags |-> flags, price |-> price, quantity |-> quantity]
StrictFreshness ==
    [mode |-> "STRICT", max_venue_age |-> 2, max_rules_age |-> 1, skew |-> 0,
     reject_future |-> TRUE, reject_degraded |-> TRUE, reject_unknown |-> TRUE]
Resolution(o, policy, health, provenance, at) ==
    [order |-> o, policy |-> policy, health |-> health, provenance |-> provenance, at |-> at]
MCResolutions ==
    {Resolution(Order(4, 2, {}), StrictFreshness, "HEALTHY", TRUE, 2),
     Resolution(Order(3, 3, {"reduce_only"}), StrictFreshness, "HEALTHY", TRUE, 3),
     Resolution(Order(4, 2, {}), [StrictFreshness EXCEPT !.mode = "DISABLED"], "UNKNOWN", FALSE, 1),
     Resolution(Order(4, 2, {}), [StrictFreshness EXCEPT !.mode = "ALLOW_DEGRADED_READ_ONLY",
                                                         !.reject_degraded = FALSE],
                "DEGRADED", TRUE, 1)}

ASSUME InputsAssumption ==
    /\ \A q \in MCImportRequests : SourceRecordValid(q.record)
    /\ \A q \in MCImportRequests : \A x \in Snapshots(q) : SnapshotValid(x)
    /\ \A x \in MCLooseSnapshots : SnapshotValid(x)
    /\ \A q \in MCResolutions : FreshnessPolicyValid(q.policy)

CallerSymmetry == Permutations(Callers)
==============================================================================

-------------------------- MODULE VenueCapabilities --------------------------
(***************************************************************************)
(* venue_capabilities: an operator imports what a venue and its            *)
(* instruments support, backed by a captured official source; an order is  *)
(* resolved against the latest snapshots, which must be fresh and, when    *)
(* asked, of accepted provenance, and validated against their rules.       *)
(*                                                                         *)
(* The gateway writes four stores one after the other; another import, a   *)
(* resolution or a crash may come between two writes.  Times are integers  *)
(* in the units of the model's instances; an identifier computed from the  *)
(* content is the content; what a filter of the rules admits is the set of *)
(* what it admits; and of a refusal only that it is one is kept.           *)
(***************************************************************************)
EXTENDS Integers, Sequences, FiniteSets

CONSTANTS Absent,         \* a field or a snapshot that is not there
          Callers,        \* callers of the import gateway
          ImportRequests, \* VenueCapabilityManualImportRequests callers may make
          LooseSnapshots, \* snapshots put in a store without an import
          Resolutions     \* [order, policy, health, provenance, at] to resolve

VARIABLES records,        \* source record store
          venues,         \* venue snapshot store
          rules,          \* instrument rule snapshot store
          imports,        \* manual import store
          jobs,           \* caller -> the writes its import has left
          used            \* the last order that was resolved and validated

venueVars == <<records, venues, rules, imports, jobs, used>>

SameId(S, x) == {y \in S : y.id = x.id}
Collides(S, x) == \E y \in SameId(S, x) : y # x

-----------------------------------------------------------------------------
(* Source records and snapshots. *)

(* VenueCapabilitySourceDescriptor and VenueCapabilitySourceRecord. *)
SourceRecordValid(s) ==
    /\ s.kind = "UNKNOWN" => s.trust # "OFFICIAL"
    /\ s.kind = "INTERNAL_TEST_FIXTURE" => s.trust = "TEST_ONLY"
    /\ s.accepted => s.trust = "OFFICIAL" /\ s.kind # "UNKNOWN" /\ s.health = "HEALTHY"

(* A snapshot names its source record and its payload hash, or neither. *)
SnapshotValid(x) == (x.record = Absent) = (x.hash = Absent)

(* The latest snapshot of a scope: by captured_at, then by id. *)
CapturedLater(x, y) == x.captured > y.captured \/ (x.captured = y.captured /\ x.id >= y.id)
\* Mutant: the latest snapshot is the one with the highest id.
HighestId(S) == IF S = {} THEN Absent ELSE CHOOSE x \in S : \A y \in S : x.id >= y.id
Latest(S) == IF S = {} THEN Absent ELSE CHOOSE x \in S : \A y \in S : CapturedLater(x, y)
LatestVenue(v) == Latest({x \in venues : x.venue = v})
LatestRules(v, i) == Latest({x \in rules : x.venue = v /\ x.instrument = i})

-----------------------------------------------------------------------------
(* DeterministicVenueCapabilityManualImportGateway.import_capabilities. *)

Snapshots(q) == (IF q.venue = Absent THEN {} ELSE {q.venue}) \cup {q.rules[i] : i \in DOMAIN q.rules}

(* Capture times and ids are totally ordered, and rules come in a list. *)
ASSUME SnapshotsAssumption ==
    /\ \A x \in LooseSnapshots \cup UNION {Snapshots(q) : q \in ImportRequests} :
            x.id \in Int /\ x.captured \in Int
    /\ \A q \in ImportRequests : q.rules \in Seq({q.rules[i] : i \in DOMAIN q.rules})

(* _validate_source_record. *)
SourceAccepted(s) ==
    s.trust = "OFFICIAL" /\ s.kind # "UNKNOWN" /\ s.health = "HEALTHY" /\ s.accepted

(* _validate_snapshot_provenance, of the request and of the import built   *)
(* from it (VenueCapabilityManualImport checks the same three fields).     *)
ProvenanceMatches(x, s) == x.venue = s.venue /\ x.record = s.id /\ x.hash = s.hash

(* _preflight_conflicts: against the stores, not among the request's own. *)
PreflightConflict(q) ==
    \/ Collides(records, q.record)
    \/ q.venue # Absent /\ Collides(venues, q.venue)
    \/ \E i \in DOMAIN q.rules : Collides(rules, q.rules[i])

ImportAccepted(q) ==
    /\ Snapshots(q) # {}
    /\ SourceAccepted(q.record)
    /\ \A x \in Snapshots(q) : ProvenanceMatches(x, q.record)
    /\ ~PreflightConflict(q)

Put(store, item) == [store |-> store, item |-> item]

(* The writes of an accepted import, the import itself last. *)
ImportWrites(q) ==
    <<Put("records", q.record)>>
    \o (IF q.venue = Absent THEN <<>> ELSE <<Put("venues", q.venue)>>)
    \o [i \in DOMAIN q.rules |-> Put("rules", q.rules[i])]
    \o <<Put("imports", [id |-> q, request |-> q])>>

StartImport(c) ==
    /\ jobs[c] = <<>>
    /\ \E q \in ImportRequests : /\ ImportAccepted(q)
                                 /\ jobs' = [jobs EXCEPT ![c] = ImportWrites(q)]
    /\ UNCHANGED <<records, venues, rules, imports, used>>

Store(name) ==
    CASE name = "records" -> records
      [] name = "venues" -> venues
      [] name = "rules" -> rules
      [] name = "imports" -> imports

(* The put of every in-memory store: an id it holds with another content   *)
(* is refused, which ends the import where it is.                          *)
ImportPut(c) ==
    /\ jobs[c] # <<>>
    /\ LET w == Head(jobs[c])
           refused == Collides(Store(w.store), w.item)
           After(name) == IF w.store = name /\ ~refused THEN Store(name) \cup {w.item}
                                                        ELSE Store(name)
       IN  /\ records' = After("records") /\ venues' = After("venues")
           /\ rules' = After("rules") /\ imports' = After("imports")
           /\ jobs' = [jobs EXCEPT ![c] = IF refused THEN <<>> ELSE Tail(@)]
    /\ UNCHANGED used

(* The process importing dies between two writes. *)
ImportDies(c) ==
    /\ jobs[c] # <<>>
    /\ jobs' = [jobs EXCEPT ![c] = <<>>]
    /\ UNCHANGED <<records, venues, rules, imports, used>>

(* A snapshot put in its store directly. *)
PutLoose ==
    /\ \E x \in LooseSnapshots \ (venues \cup rules) :
         IF x.instrument = Absent
         THEN ~Collides(venues, x) /\ venues' = venues \cup {x} /\ rules' = rules
         ELSE ~Collides(rules, x) /\ rules' = rules \cup {x} /\ venues' = venues
    /\ UNCHANGED <<records, imports, jobs, used>>

-----------------------------------------------------------------------------
(* validate_venue_capability_freshness. *)

FreshnessPolicyValid(p) ==
    p.mode = "STRICT" => p.reject_future /\ p.reject_degraded /\ p.reject_unknown

(* An age below zero counts as zero; both maximum ages are positive.       *)
Fresh(v, r, p, health, at) ==
    \/ p.mode = "DISABLED"
    \/ /\ health # "UNAVAILABLE"
       /\ health = "UNKNOWN" => ~p.reject_unknown
       /\ health = "DEGRADED" => ~p.reject_degraded
       /\ p.reject_future => v.captured <= at + p.skew /\ r.captured <= at + p.skew
       /\ at - v.captured <= p.max_venue_age /\ at - r.captured <= p.max_rules_age

(* _validate_snapshot_source_record and _validate_source_record_authority, *)
(* which does not look at the kind: an official record has a known one.    *)
ProvenanceAccepted(x) ==
    \E s \in records : /\ ProvenanceMatches(x, s)
                      /\ s.trust = "OFFICIAL" /\ s.health = "HEALTHY" /\ s.accepted

(* DeterministicVenueCapabilityResolutionGateway.resolve is ready.  The    *)
(* snapshots are of the order's venue and instrument, so the contexts it   *)
(* builds are valid.                                                       *)
Ready(q) ==
    LET v == LatestVenue(q.order.venue)
        r == LatestRules(q.order.venue, q.order.instrument)
    IN  /\ v # Absent /\ r # Absent
        /\ Fresh(v, r, q.policy, q.health, q.at)
        /\ q.provenance => ProvenanceAccepted(v) /\ ProvenanceAccepted(r)

-----------------------------------------------------------------------------
(* validate_order_against_venue_capabilities, by groups of its checks.  An *)
(* order has features (type, time in force), flags, a price and a quantity *)
(* (either may be Absent); the rules list the prices and the sizes, that   *)
(* is quantities at a price, they admit.                                   *)

Trades(v, r) == v.enabled /\ r.trading /\ r.asset \in v.assets
Supports(o, v, r) == o.features \subseteq r.features /\ o.flags \subseteq v.flags \cap r.flags
PriceFits(o, r) == o.price \in r.prices
SizeFits(o, r) == <<o.quantity, o.price>> \in r.sizes

-----------------------------------------------------------------------------
Passes(q) ==
    LET v == LatestVenue(q.order.venue)
        r == LatestRules(q.order.venue, q.order.instrument)
    IN  /\ Ready(q)
        /\ Trades(v, r) /\ Supports(q.order, v, r)
        /\ PriceFits(q.order, r) /\ SizeFits(q.order, r)

(* An order is resolved, and handed to the capability gate, which          *)
(* validates it against the snapshots of the resolution.                   *)
ResolveOrder ==
    /\ \E q \in Resolutions :
         /\ Passes(q)
         /\ used' = [request |-> q, venue |-> LatestVenue(q.order.venue),
                     rules |-> LatestRules(q.order.venue, q.order.instrument)]
    /\ UNCHANGED <<records, venues, rules, imports, jobs>>

VenueInit ==
    /\ records = {} /\ venues = {} /\ rules = {} /\ imports = {}
    /\ jobs = [c \in Callers |-> <<>>]
    /\ used = Absent

VenueNext ==
    \/ \E c \in Callers : StartImport(c) \/ ImportPut(c) \/ ImportDies(c)
    \/ PutLoose \/ ResolveOrder

(* The gateway by itself: every call returns, none dies.                   *)
GatewayNext == \E c \in Callers : StartImport(c) \/ ImportPut(c)
GatewaySpec == VenueInit /\ [][GatewayNext]_venueVars

-----------------------------------------------------------------------------
(* A stored import is whole: its source record, its venue snapshot and     *)
(* every one of its rules are in their stores, whatever died, or was       *)
(* refused, or was imported meanwhile; and a store holds one content under *)
(* an id (sources.py 132-137, in_memory.py).                               *)
ImportsAreWhole ==
    /\ \A m \in imports : /\ m.request.record \in records
                          /\ Snapshots(m.request) \subseteq venues \cup rules
    /\ \A S \in {records, venues, rules} : \A x \in S : ~Collides(S, x)

(* What an order was checked against was stored, of its own venue and      *)
(* instrument, and of accepted official provenance when that was asked     *)
(* for; and no later resolution goes back to older snapshots, in whatever  *)
(* order and however incompletely the imports arrived (resolution.py).     *)
ChecksRestOnStoredRules ==
    used # Absent =>
        LET q == used.request
            v == used.venue
            r == used.rules
        IN  /\ v \in venues /\ r \in rules
            /\ r.instrument = q.order.instrument /\ v.venue = r.venue
            /\ q.provenance => \A x \in {v, r} : \E s \in records :
                 s.accepted /\ s.trust = "OFFICIAL" /\ ProvenanceMatches(x, s)
            /\ CapturedLater(LatestVenue(v.venue), v)
            /\ CapturedLater(LatestRules(r.venue, r.instrument), r)

CapabilitiesHold == ImportsAreWhole /\ ChecksRestOnStoredRules

(* "All-or-nothing gateway" (sources.py:59): "conflicting imports do not   *)
(* partially populate execution-eligible capability stores"                *)
(* (venue_capabilities/README.md:94-95).  When no import is under way,     *)
(* every snapshot in store that strict provenance accepts was put there    *)
(* without an import, or belongs to an import in store.                    *)
ImportsAreAllOrNothing ==
    (\A c \in Callers : jobs[c] = <<>>) =>
        \A x \in venues \cup rules :
            ProvenanceAccepted(x) => \/ x \in LooseSnapshots
                                     \/ \E m \in imports : x \in Snapshots(m.request)
=============================================================================

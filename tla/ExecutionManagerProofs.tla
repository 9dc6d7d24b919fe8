----------------------- MODULE ExecutionManagerProofs -----------------------
(***************************************************************************)
(* Proofs that the stores behind admit stay consistent wherever a write    *)
(* raises, for every number of orders, requests, calls and faults.         *)
(*                                                                         *)
(* A call is a sequence of writes of which a prefix is made.  WriteOK says *)
(* what justifies each write by the writes before it, so one lemma about   *)
(* prefixes serves every call, and a call has only to justify its writes.  *)
(***************************************************************************)
EXTENDS ExecutionManager, WellFoundedInduction, TLAPS

-----------------------------------------------------------------------------
(* The inductive invariant.                                                 *)

\* What RecordsPassedEveryGate says of one record.
PassedGates(rec) ==
    LET q == rec.proof.request
        k == q.checks
    IN  /\ q.intent = rec.intent
        /\ KindOf[rec.intent] = "ENTRY" =>
                /\ "allow_new_entries" \in q.perm
                /\ q.perm \cap {"guardian_required", "manual_intervention_required"} = {}
        /\ k.provenance # "failed"
        /\ k.require_venue => k.context = "match" /\ k.order_valid /\ k.semantics_ready
        /\ k.require_fresh => k.require_venue /\ k.freshness = "fresh"

\* A record starts accepted and no transition leads back to CREATED, the one
\* state from which a record could become active again.
NeverCreated == \A c \in Clients : records[c].state # "CREATED"

ExecInv ==
    /\ TypeOK
    /\ RecordBacked
    /\ RecordsPassedEveryGate
    /\ NoDoubleExposure
    /\ RequestsAreJournaled
    /\ AcceptancesHold
    /\ NeverCreated

-----------------------------------------------------------------------------
(* What justifies the j-th write of a call.                                 *)

Stores == {"order", "cancel", "replace", "event", "record", "proof", "marker", "decision"}

\* The value is stored already, or an earlier write of the call stores it.
Before(w, j, store, value, stored) ==
    value \in stored \/ \E i \in 1 .. j - 1 : w[i].store = store /\ w[i].value = value

UpsertedBefore(w, j, c) ==
    \E i \in 1 .. j - 1 : w[i].store = "record" /\ w[i].client = c

\* An active record moves to a request that is journaled.
MovedOK(w, j, c, v) ==
    /\ records[c] \in ExecutionOrderRecord /\ records[c].state \in ActiveTargetStates
    /\ v \in ExecutionOrderRecord
    /\ v.intent = records[c].intent /\ v.proof = records[c].proof
    /\ <<records[c].state, v.state>> \in OL!Allowed
    /\ v.last.client = c /\ v.last.next = v.state
    /\ Before(w, j, "event", v.last, events)
    /\ \/ /\ v.state = "CANCEL_REQUESTED"
          /\ \E k \in CancelIntent : k.target = c /\ Before(w, j, "cancel", k, cancels)
       \/ /\ v.state = "REPLACE_REQUESTED"
          /\ \E r \in ReplaceIntent, p \in Proof :
                /\ r.target = c /\ Before(w, j, "replace", r, replaces)
                /\ Before(w, j, "order", r.intent, journal)
                /\ p.client = ClientOf[r.intent] /\ p.id.request.op = "REPLACE"
                /\ Before(w, j, "proof", p, proofs)

\* A record appears with everything it rests on; a replacement appears after
\* the order it replaces was updated.
FreshOK(w, j, c, v) ==
    /\ records[c] = NoRecord
    /\ v \in ExecutionOrderRecord
    /\ v = AcceptedRecord(v.intent, v.proof) /\ ClientOf[v.intent] = c
    /\ PassedGates(v)
    /\ Before(w, j, "order", v.intent, journal)
    /\ Before(w, j, "event", v.last, events)
    /\ Before(w, j, "proof", [client |-> c, id |-> v.proof], proofs)
    /\ v.proof.request.op = "REPLACE" =>
            LET t == v.proof.request.target
            IN  t \in Clients /\ records[t] # NoRecord /\ UpsertedBefore(w, j, t)

DecisionOK(w, j, d) ==
    /\ d \in Decision
    /\ d.op \in {"ORDER", "REPLACE"} =>
            d.client \in Clients /\ (Exists(records[d.client]) \/ UpsertedBefore(w, j, d.client))
    /\ d.op \in {"CANCEL", "REPLACE"} =>
            /\ d.target \in Clients /\ records[d.target] # NoRecord
            /\ UpsertedBefore(w, j, d.target)

WriteOK(w, j) ==
    LET v == w[j].value
    IN  /\ w[j].store \in Stores
        /\ w[j].store = "order" => v \in Intents
        /\ w[j].store = "cancel" => v \in CancelIntent
        /\ w[j].store = "replace" => v \in ReplaceIntent
        /\ w[j].store = "event" => v \in Event
        /\ w[j].store = "proof" => v \in Proof
        /\ w[j].store = "marker" => v \in Marker
        /\ w[j].store = "decision" => DecisionOK(w, j, v)
        /\ w[j].store = "record" =>
                /\ w[j].client \in Clients
                /\ MovedOK(w, j, w[j].client, v) \/ FreshOK(w, j, w[j].client, v)

-----------------------------------------------------------------------------
(* Facts about operators.                                                   *)

\* A non-empty set of positions has a first member, which is its minimum.
LEMMA HasMinimum ==
    ASSUME NEW n \in Nat, NEW S \in SUBSET (1 .. n), S # {}
    PROVE  Min(S) \in S /\ \A k \in S : Min(S) <= k
<1> DEFINE R == OpToRel(<, Nat)
<1>1. IsWellFoundedOn(R, Nat)
  BY NatLessThanWellFounded
<1>2. S \subseteq Nat
  OBVIOUS
<1>3. PICK m \in S : \A k \in S : ~(<<k, m>> \in R)
  <2> HIDE DEF R
  <2> QED
    BY <1>1, <1>2, WFMin
<1>4. \A k \in S : ~(k < m)
  BY <1>2, <1>3 DEF OpToRel
<1>5. \A k \in S : m <= k
  BY <1>2, <1>4
<1> QED
  BY <1>5 DEF Min

\* A non-empty set of positions has a last member.
LEMMA HasMaximum ==
    ASSUME NEW n \in Nat, NEW S \in SUBSET (1 .. n), S # {}
    PROVE  Max(S) \in S
<1> DEFINE T == {i \in 1 .. n : (n + 1) - i \in S}
<1>1. T # {}
  <2>1. PICK i \in S : TRUE
    OBVIOUS
  <2>2. (n + 1) - i \in T
    BY <2>1
  <2> QED
    BY <2>2
<1>2. T \in SUBSET (1 .. n)
  OBVIOUS
<1>3. Min(T) \in T /\ \A k \in T : Min(T) <= k
  <2> HIDE DEF T
  <2> QED
    BY <1>1, <1>2, HasMinimum
<1> DEFINE m == (n + 1) - Min(T)
<1>4. m \in S
  BY <1>3
<1>5. ASSUME NEW k \in S PROVE m >= k
  <2>1. (n + 1) - k \in T
    OBVIOUS
  <2>2. Min(T) \in 1 .. n /\ Min(T) <= (n + 1) - k
    BY <1>3, <2>1
  <2> HIDE DEF T
  <2> QED
    BY <2>2
<1> HIDE DEF m
<1> QED
  BY <1>4, <1>5 DEF Max

\* The verdict is ACCEPTED when no gate fails, or the reason of a failing one.
LEMMA VerdictFacts ==
    ASSUME NEW gates, NEW n \in Nat, DOMAIN gates = 1 .. n
    PROVE  \/ Verdict(gates) = "ACCEPTED" /\ \A i \in 1 .. n : ~gates[i][1]
           \/ \E i \in 1 .. n : gates[i][1] /\ Verdict(gates) = gates[i][2]
<1> DEFINE failing == {i \in DOMAIN gates : gates[i][1]}
<1>1. CASE failing = {}
  BY <1>1 DEF Verdict
<1>2. CASE failing # {}
  <2>1. Min(failing) \in failing
    <3>1. failing \in SUBSET (1 .. n)
      OBVIOUS
    <3> HIDE DEF failing
    <3> QED
      BY <1>2, <3>1, HasMinimum
  <2> QED
    BY <1>2, <2>1 DEF Verdict
<1> QED
  BY <1>1, <1>2

\* No write that succeeds raises.
LEMMA SucceedingFacts ==
    ASSUME NEW w, Len(w) \in Nat, DOMAIN w = 1 .. Len(w)
    PROVE  /\ Succeeding(w) \in Nat /\ Succeeding(w) <= Len(w)
           /\ \A i \in 1 .. Succeeding(w) : ~Raises(w[i])
<1> DEFINE raising == {i \in DOMAIN w : Raises(w[i])}
<1>1. CASE raising = {}
  BY <1>1 DEF Succeeding
<1>2. CASE raising # {}
  <2>1. Min(raising) \in raising /\ \A k \in raising : Min(raising) <= k
    <3>1. raising \in SUBSET (1 .. Len(w))
      OBVIOUS
    <3> HIDE DEF raising
    <3> QED
      BY <1>2, <3>1, HasMinimum
  <2>2. Succeeding(w) = Min(raising) - 1
    BY <1>2 DEF Succeeding
  <2>3. Min(raising) \in 1 .. Len(w)
    BY <2>1
  <2>4. ASSUME NEW i \in 1 .. Min(raising) - 1 PROVE ~Raises(w[i])
    <3>1. i \in DOMAIN w /\ ~(Min(raising) <= i)
      BY <2>3
    <3> QED
      BY <2>1, <3>1
  <2> HIDE DEF raising
  <2> QED
    BY <2>2, <2>3, <2>4
<1> QED
  BY <1>1, <1>2

\* What the record store holds after the first n writes.
LEMMA UpsertedFacts ==
    ASSUME NEW w, NEW n \in Nat, NEW c \in Clients
    PROVE  \/ /\ Upserted(w, n)[c] = records[c]
              /\ ~\E j \in 1 .. n : w[j].store = "record" /\ w[j].client = c
           \/ \E j \in 1 .. n :
                /\ w[j].store = "record" /\ w[j].client = c
                /\ Upserted(w, n)[c] = w[j].value
<1> DEFINE ups == {j \in 1 .. n : w[j].store = "record" /\ w[j].client = c}
<1>1. Upserted(w, n)[c] = IF ups = {} THEN records[c] ELSE w[Max(ups)].value
  BY DEF Upserted
<1>2. CASE ups = {}
  BY <1>1, <1>2
<1>3. CASE ups # {}
  <2>1. Max(ups) \in ups
    <3>1. ups \in SUBSET (1 .. n)
      OBVIOUS
    <3> HIDE DEF ups
    <3> QED
      BY <1>3, <3>1, HasMaximum
  <2> QED
    BY <1>1, <1>3, <2>1
<1> QED
  BY <1>2, <1>3

LEMMA AcceptedFacts ==
    ASSUME NEW intent, NEW id
    PROVE  /\ AcceptedRecord(intent, id).intent = intent
           /\ AcceptedRecord(intent, id).proof = id
           /\ AcceptedRecord(intent, id).state = "ACCEPTED_BY_EXECUTION"
           /\ AcceptedRecord(intent, id).last =
                [client |-> ClientOf[intent], prev |-> "CREATED",
                 next |-> "ACCEPTED_BY_EXECUTION", linked |-> TRUE]
           /\ intent \in Intents /\ id \in ProofId =>
                AcceptedRecord(intent, id) \in ExecutionOrderRecord
<1>1. ASSUME intent \in Intents PROVE AcceptedRecord(intent, id).last \in Event
  <2>1. ClientOf[intent] \in Clients
    BY <1>1, ExecutionAssumption DEF ExecutionAssumption
  <2> QED
    BY <2>1 DEF AcceptedRecord, PutEvent, Event, OL!States
<1> QED
  BY <1>1 DEF AcceptedRecord, ExecutionOrderRecord, PutEvent, OL!States

LEMMA Existing ==
    ASSUME TypeOK, NEW c \in Clients
    PROVE  /\ Exists(records[c]) <=> records[c] # NoRecord
           /\ Exists(records[c]) <=> records[c] \in ExecutionOrderRecord
<1>1. records[c] \in ExecutionOrderRecord \cup {NoRecord}
  BY DEF TypeOK
<1>2. ~Exists(NoRecord) /\ NoRecord \notin ExecutionOrderRecord
  BY ExecutionAssumption DEF NoRecord, Exists, ExecutionOrderRecord, ExecutionAssumption
<1>3. \A r \in ExecutionOrderRecord : Exists(r)
  BY DEF Exists, ExecutionOrderRecord, OL!States
<1> QED
  BY <1>1, <1>2, <1>3
-----------------------------------------------------------------------------
(* A prefix of justified writes preserves the invariant.                    *)

\* The transitions of the lifecycle lead out of the active states for good.
LEMMA ActiveOnlyFromActive ==
    ASSUME NEW from, NEW to, <<from, to>> \in OL!Allowed, from # "CREATED", from # "NONE"
    PROVE  /\ from \in OL!States /\ to \in OL!States
           /\ to # "CREATED"
           /\ to \in ActiveTargetStates => from \in ActiveTargetStates
BY DEF OL!Allowed, OL!States, OL!ActiveVenueStates, OL!SettledStates, ActiveTargetStates

LEMMA PerformStep ==
    ASSUME ExecInv, NEW w, Len(w) \in Nat, DOMAIN w = 1 .. Len(w),
           \A j \in 1 .. Succeeding(w) : WriteOK(w, j), Perform(w)
    PROVE  ExecInv' /\ OL!Next
<1>1. PICK n \in 0 .. Succeeding(w) :
        /\ IF n = Succeeding(w)
           THEN faults' = faults
           ELSE faults < MaxFaults /\ faults' = faults + 1
        /\ journal' = journal \cup Written(w, n, "order")
        /\ cancels' = cancels \cup Written(w, n, "cancel")
        /\ replaces' = replaces \cup Written(w, n, "replace")
        /\ events' = events \cup Written(w, n, "event")
        /\ proofs' = proofs \cup Written(w, n, "proof")
        /\ markers' = markers \cup Written(w, n, "marker")
        /\ decisions' = decisions \cup Written(w, n, "decision")
        /\ records' = Upserted(w, n)
  BY DEF Perform
<1>2. n \in Nat /\ \A j \in 1 .. n : WriteOK(w, j)
  BY SucceedingFacts
<1>3. \A st, v : v \in Written(w, n, st) <=>
            \E j \in 1 .. n : w[j].store = st /\ w[j].value = v
  BY DEF Written
<1>4. ASSUME NEW st, NEW v, NEW S, NEW j \in 1 .. n, Before(w, j, st, v, S)
      PROVE  v \in S \cup Written(w, n, st)
  <2>1. \A i \in 1 .. j - 1 : i \in 1 .. n
    BY <1>2
  <2> QED
    BY <1>3, <1>4, <2>1 DEF Before
<1> DEFINE Up(j, c) == w[j].store = "record" /\ w[j].client = c
<1>5. ASSUME NEW c \in Clients
      PROVE  \/ records'[c] = records[c] /\ ~\E j \in 1 .. n : Up(j, c)
             \/ \E j \in 1 .. n :
                    /\ Up(j, c) /\ records'[c] = w[j].value
                    /\ MovedOK(w, j, c, records'[c]) \/ FreshOK(w, j, c, records'[c])
  <2>1. CASE records'[c] = records[c] /\ ~\E j \in 1 .. n : Up(j, c)
    BY <2>1
  <2>2. CASE \E j \in 1 .. n : Up(j, c) /\ records'[c] = w[j].value
    <3>1. PICK j \in 1 .. n : Up(j, c) /\ records'[c] = w[j].value
      BY <2>2
    <3>2. MovedOK(w, j, c, records'[c]) \/ FreshOK(w, j, c, records'[c])
      BY <1>2, <3>1 DEF WriteOK
    <3> QED
      BY <3>1, <3>2
  <2> QED
    BY <1>1, <1>2, <2>1, <2>2, UpsertedFacts
<1>6. ASSUME NEW c \in Clients, NEW j \in 1 .. n, UpsertedBefore(w, j, c)
      PROVE  \E i \in 1 .. n : Up(i, c)
  <2>1. \A i \in 1 .. j - 1 : i \in 1 .. n
    BY <1>2
  <2> QED
    BY <1>6, <2>1 DEF UpsertedBefore
<1> HIDE DEF Up
<1>7. TypeOK'
  <2>1. journal' \subseteq Intents /\ cancels' \subseteq CancelIntent
        /\ replaces' \subseteq ReplaceIntent
    BY <1>1, <1>2, <1>3 DEF ExecInv, TypeOK, WriteOK
  <2>2. events' \subseteq Event /\ proofs' \subseteq Proof
        /\ markers' \subseteq Marker
    BY <1>1, <1>2, <1>3 DEF ExecInv, TypeOK, WriteOK
  <2>3. decisions' \subseteq Decision
    BY <1>1, <1>2, <1>3 DEF ExecInv, TypeOK, WriteOK, DecisionOK
  <2>4. DOMAIN records' = Clients
    BY <1>1 DEF Upserted
  <2>5. ASSUME NEW c \in Clients PROVE records'[c] \in ExecutionOrderRecord \cup {NoRecord}
    BY <1>5 DEF ExecInv, TypeOK, MovedOK, FreshOK
  <2>6. calls' \in 0 .. MaxCalls /\ faults' \in 0 .. MaxFaults
    BY <1>1, ExecutionAssumption DEF ExecInv, TypeOK, Perform, ExecutionAssumption
  <2> QED
    BY <2>1, <2>2, <2>3, <2>4, <2>5, <2>6
    DEF TypeOK, ExecutionOrderRecord, NoRecord, Event, ProofId, Proof, Marker, Decision
<1>8. /\ journal \subseteq journal' /\ cancels \subseteq cancels'
      /\ replaces \subseteq replaces' /\ events \subseteq events' /\ proofs \subseteq proofs'
  BY <1>1
<1>9. ASSUME NEW c \in Clients, NEW j \in 1 .. n, MovedOK(w, j, c, records'[c])
      PROVE  /\ Exists(records[c]) /\ Exists(records'[c])
             /\ records'[c].intent = records[c].intent /\ records'[c].proof = records[c].proof
             /\ records'[c].last \in events'
             /\ records'[c].last.client = c /\ records'[c].last.next = records'[c].state
             /\ records'[c].state \in {"CANCEL_REQUESTED", "REPLACE_REQUESTED"}
             /\ records'[c].state \notin ActiveTargetStates
  BY <1>1, <1>4, <1>7, <1>9, Existing
  DEF MovedOK, ExecInv, ActiveTargetStates, Exists
<1>10. ASSUME NEW c \in Clients, NEW j \in 1 .. n, FreshOK(w, j, c, records'[c])
       PROVE  /\ ~Exists(records[c]) /\ Exists(records'[c])
              /\ records'[c].state = "ACCEPTED_BY_EXECUTION"
              /\ ClientOf[records'[c].intent] = c
              /\ records'[c].last = PutEvent(c, "CREATED", "ACCEPTED_BY_EXECUTION", TRUE).value
              /\ records'[c].intent \in journal' /\ records'[c].last \in events'
              /\ [client |-> c, id |-> records'[c].proof] \in proofs'
  <2>1. records'[c] = AcceptedRecord(records'[c].intent, records'[c].proof)
        /\ ClientOf[records'[c].intent] = c
    BY <1>10 DEF FreshOK
  <2>2. /\ records'[c].state = "ACCEPTED_BY_EXECUTION"
        /\ records'[c].last = PutEvent(c, "CREATED", "ACCEPTED_BY_EXECUTION", TRUE).value
    <3> DEFINE i == records'[c].intent
               id == records'[c].proof
    <3>1. records'[c] = AcceptedRecord(i, id) /\ ClientOf[i] = c
      BY <2>1
    <3> HIDE DEF i, id
    <3> QED
      BY <3>1, AcceptedFacts DEF PutEvent
  <2>3. /\ records'[c].intent \in journal' /\ records'[c].last \in events'
        /\ [client |-> c, id |-> records'[c].proof] \in proofs'
    BY <1>1, <1>4, <1>10 DEF FreshOK
  <2>4. ~Exists(records[c])
    BY <1>10 DEF FreshOK, Exists, NoRecord
  <2> QED
    BY <2>1, <2>2, <2>3, <2>4 DEF Exists
\* A stored record stays; if it moves it ends up inactive.
<1>11. ASSUME NEW c \in Clients, Exists(records[c])
       PROVE  /\ Exists(records'[c])
              /\ records'[c].proof = records[c].proof
              /\ \/ records'[c] = records[c] /\ ~\E j \in 1 .. n : Up(j, c)
                 \/ records'[c].state \notin ActiveTargetStates
  BY <1>5, <1>9, <1>10, <1>11
<1>12. RecordBacked'
  <2> SUFFICES ASSUME NEW c \in Clients, Exists(records'[c])
               PROVE  /\ records'[c].intent \in journal' /\ ClientOf[records'[c].intent] = c
                      /\ PutEvent(c, "CREATED", "ACCEPTED_BY_EXECUTION", TRUE).value \in events'
                      /\ records'[c].last \in events'
                      /\ records'[c].last.client = c
                      /\ records'[c].last.next = records'[c].state
                      /\ [client |-> c, id |-> records'[c].proof] \in proofs'
    BY DEF RecordBacked, PutEvent
  <2>1. CASE records'[c] = records[c]
    BY <1>8, <2>1 DEF ExecInv, RecordBacked
  <2>2. CASE \E j \in 1 .. n : MovedOK(w, j, c, records'[c])
    BY <1>8, <1>9, <2>2 DEF ExecInv, RecordBacked
  <2>3. CASE \E j \in 1 .. n : FreshOK(w, j, c, records'[c])
    BY <1>10, <2>3 DEF PutEvent
  <2> QED
    BY <1>5, <2>1, <2>2, <2>3
<1>13. RecordsPassedEveryGate'
  <2>1. \A c \in Clients : Exists(records[c]) => PassedGates(records[c])
    BY DEF ExecInv, RecordsPassedEveryGate, PassedGates
  <2>2. ASSUME NEW c \in Clients, Exists(records'[c]) PROVE PassedGates(records'[c])
    <3>1. CASE records'[c] = records[c]
      BY <2>1, <2>2, <3>1
    <3>2. CASE \E j \in 1 .. n : MovedOK(w, j, c, records'[c])
      BY <1>9, <2>1, <3>2 DEF PassedGates
    <3>3. CASE \E j \in 1 .. n : FreshOK(w, j, c, records'[c])
      BY <3>3 DEF FreshOK
    <3> QED
      BY <1>5, <3>1, <3>2, <3>3
  <2> QED
    BY <2>2 DEF RecordsPassedEveryGate, PassedGates
<1>14. NoDoubleExposure'
  <2> SUFFICES ASSUME NEW c \in Clients, Exists(records'[c]),
                      records'[c].proof.request.op = "REPLACE"
               PROVE  LET t == records'[c].proof.request.target
                      IN  Exists(records'[t]) /\ records'[t].state \notin ActiveTargetStates
    BY DEF NoDoubleExposure
  <2> DEFINE t == records'[c].proof.request.target
  <2>1. CASE Exists(records[c])
    <3>1. records'[c].proof = records[c].proof
      BY <1>11, <2>1
    <3>2. Exists(records[t]) /\ records[t].state \notin ActiveTargetStates
      BY <2>1, <3>1 DEF ExecInv, NoDoubleExposure
    <3>3. t \in Clients
      <4>1. records'[c] \in ExecutionOrderRecord
        BY <1>7 , <2>1, <1>11 DEF TypeOK, Exists, NoRecord
      <4>2. records'[c].proof.request \in OrderRequest \cup ReplaceRequest
        BY <4>1 DEF ExecutionOrderRecord, ProofId
      <4> QED
        BY <4>2 DEF OrderRequest, ReplaceRequest
    <3> QED
      BY <1>11, <3>2, <3>3
  <2>2. CASE \E j \in 1 .. n : FreshOK(w, j, c, records'[c])
    <3>1. PICK j \in 1 .. n : FreshOK(w, j, c, records'[c])
      BY <2>2
    <3>2. t \in Clients /\ records[t] # NoRecord /\ \E i \in 1 .. n : Up(i, t)
      BY <1>6, <3>1 DEF FreshOK
    <3>3. Exists(records[t])
      BY <3>2, Existing DEF ExecInv
    <3> QED
      BY <1>11, <3>2, <3>3
  <2> QED
    BY <1>5, <1>9, <2>1, <2>2
<1>15. RequestsAreJournaled'
  <2> SUFFICES ASSUME NEW c \in Clients
               PROVE  /\ records'[c].state = "CANCEL_REQUESTED" =>
                            \E k \in cancels' : k.target = c
                      /\ records'[c].state = "REPLACE_REQUESTED" =>
                            \E r \in replaces' :
                                /\ r.target = c /\ r.intent \in journal'
                                /\ \E p \in proofs' : /\ p.client = ClientOf[r.intent]
                                                     /\ p.id.request.op = "REPLACE"
    BY DEF RequestsAreJournaled
  <2>1. CASE records'[c] = records[c]
    BY <1>8, <2>1 DEF ExecInv, RequestsAreJournaled
  <2>2. ASSUME NEW j \in 1 .. n, MovedOK(w, j, c, records'[c]),
               records'[c].state = "CANCEL_REQUESTED"
        PROVE  \E k \in cancels' : k.target = c
    BY <1>1, <1>4, <2>2 DEF MovedOK
  <2>3. ASSUME NEW j \in 1 .. n, MovedOK(w, j, c, records'[c]),
               records'[c].state = "REPLACE_REQUESTED"
        PROVE  \E r \in replaces' :
                    /\ r.target = c /\ r.intent \in journal'
                    /\ \E p \in proofs' : /\ p.client = ClientOf[r.intent]
                                         /\ p.id.request.op = "REPLACE"
    <3>1. PICK r \in ReplaceIntent, p \in Proof :
                /\ r.target = c /\ Before(w, j, "replace", r, replaces)
                /\ Before(w, j, "order", r.intent, journal)
                /\ p.client = ClientOf[r.intent] /\ p.id.request.op = "REPLACE"
                /\ Before(w, j, "proof", p, proofs)
      BY <2>3 DEF MovedOK
    <3>2. r \in replaces' /\ r.intent \in journal' /\ p \in proofs'
      BY <1>1, <1>4, <3>1
    <3> QED
      BY <3>1, <3>2
  <2> QED
    BY <1>5, <1>10, <2>1, <2>2, <2>3
<1>16. AcceptancesHold'
  <2>1. ASSUME NEW c \in Clients, NEW j \in 1 .. n, UpsertedBefore(w, j, c)
        PROVE  Exists(records'[c])
    BY <1>5, <1>6, <1>9, <1>10, <2>1
  <2>2. ASSUME NEW d \in decisions
        PROVE  /\ d.op \in {"ORDER", "REPLACE"} => Exists(records'[d.client])
               /\ d.op \in {"CANCEL", "REPLACE"} =>
                    Exists(records'[d.target]) /\ records'[d.target].state \notin ActiveTargetStates
    <3>1. d \in Decision
      BY DEF ExecInv, TypeOK
    <3>2. d.op \in {"ORDER", "REPLACE"} => d.client \in Clients
      BY <3>1 DEF Decision
    <3>3. d.op \in {"CANCEL", "REPLACE"} => d.target \in Clients
      BY <3>1 DEF Decision
    <3> QED
      BY <1>11, <3>2, <3>3 DEF ExecInv, AcceptancesHold
  <2>3. ASSUME NEW j \in 1 .. n, NEW d, DecisionOK(w, j, d)
        PROVE  /\ d.op \in {"ORDER", "REPLACE"} => Exists(records'[d.client])
               /\ d.op \in {"CANCEL", "REPLACE"} =>
                    Exists(records'[d.target]) /\ records'[d.target].state \notin ActiveTargetStates
    <3>1. d.op \in {"ORDER", "REPLACE"} => Exists(records'[d.client])
      BY <1>11, <2>1, <2>3 DEF DecisionOK
    <3>2. ASSUME d.op \in {"CANCEL", "REPLACE"}
          PROVE  Exists(records'[d.target]) /\ records'[d.target].state \notin ActiveTargetStates
      <4>1. /\ d.target \in Clients /\ Exists(records[d.target])
            /\ \E i \in 1 .. n : Up(i, d.target)
        BY <1>6, <2>3, <3>2, Existing DEF DecisionOK, ExecInv
      <4> QED
        BY <1>11, <4>1
    <3> QED
      BY <3>1, <3>2
  <2>4. ASSUME NEW d \in decisions'
        PROVE  d \in decisions \/ \E j \in 1 .. n : DecisionOK(w, j, d)
    BY <1>1, <1>2, <1>3 DEF WriteOK
  <2> QED
    BY <2>2, <2>3, <2>4 DEF AcceptancesHold
<1>17. ASSUME NEW c \in Clients
       PROVE  /\ records'[c].state # "CREATED"
              /\ records'[c].state = records[c].state \/ OL!Moves(records[c].state, records'[c].state)
  <2>1. CASE records'[c] = records[c]
    BY <2>1 DEF ExecInv, NeverCreated
  <2>2. CASE \E j \in 1 .. n : MovedOK(w, j, c, records'[c])
    BY <1>9, <2>2 DEF OL!Moves, MovedOK, Exists
  <2>3. CASE \E j \in 1 .. n : FreshOK(w, j, c, records'[c])
    BY <1>10, <2>3 DEF OL!Moves, Exists
  <2> QED
    BY <1>5, <2>1, <2>2, <2>3
<1>18. NeverCreated'
  BY <1>17 DEF NeverCreated
<1>19. OL!Next
  <2>1. ASSUME NEW c \in Clients PROVE records'[c].state \in OL!States \cup {"NONE"}
    BY <1>7 DEF TypeOK, ExecutionOrderRecord, NoRecord
  <2> QED
    BY <1>17, <2>1 DEF OL!Next
<1> QED
  BY <1>7, <1>12, <1>13, <1>14, <1>15, <1>16, <1>18, <1>19 DEF ExecInv
-----------------------------------------------------------------------------
(* The verdicts of the calls.                                               *)

CapabilityPassed(k) ==
    /\ k.require_venue => k.context = "match" /\ k.order_valid /\ k.semantics_ready
    /\ k.require_venue /\ k.require_fresh => k.freshness = "fresh"

\* The verdicts that reject a request after or before an event was written.
RejectReasons ==
    {"DUPLICATE_IDEMPOTENCY_KEY", "REJECTED_BY_PERMISSION", "REJECTED_BY_SOURCE_PROVENANCE",
     "VENUE_CAPABILITY_CONTEXT_REQUIRED", "VENUE_CAPABILITY_CONTEXT_MISMATCH",
     "FRESHNESS_CONTEXT_REQUIRED", "FRESHNESS_CONTEXT_MISMATCH",
     "REJECTED_BY_CAPABILITY_FRESHNESS", "REJECTED_BY_VENUE_CAPABILITY",
     "RECONCILIATION_REQUIRED", "TARGET_ORDER_NOT_ACTIVE", "REJECTED_BY_VALIDATION"}

LEMMA OrderVerdict ==
    ASSUME NEW q \in OrderRequest
    PROVE  LET v == Verdict(OrderGates(q))
               rec == records[ClientOf[q.intent]]
           IN  \/ /\ v = "ACCEPTED"
                  /\ ~Exists(rec) /\ OrderAllowed(KindOf[q.intent], q.perm)
                  /\ q.checks.provenance # "failed" /\ CapabilityPassed(q.checks)
               \/ v = "IDEMPOTENT_REPLAY" /\ Exists(rec)
               \/ v \in RejectReasons
<1> DEFINE g == OrderGates(q)
           k == q.checks
           rec == records[ClientOf[q.intent]]
           fresh == k.require_venue /\ k.require_fresh
           a1 == <<Exists(rec) /\ rec.intent = q.intent, "IDEMPOTENT_REPLAY">>
           a2 == <<Exists(rec), "DUPLICATE_IDEMPOTENCY_KEY">>
           a3 == <<~OrderAllowed(KindOf[q.intent], q.perm), "REJECTED_BY_PERMISSION">>
           a4 == <<k.provenance = "failed", "REJECTED_BY_SOURCE_PROVENANCE">>
           b1 == <<k.require_venue /\ k.context = "none", "VENUE_CAPABILITY_CONTEXT_REQUIRED">>
           b2 == <<k.require_venue /\ k.context = "mismatch", "VENUE_CAPABILITY_CONTEXT_MISMATCH">>
           b3 == <<fresh /\ k.freshness = "none", "FRESHNESS_CONTEXT_REQUIRED">>
           b4 == <<fresh /\ k.freshness = "mismatch", "FRESHNESS_CONTEXT_MISMATCH">>
           b5 == <<fresh /\ k.freshness = "stale", "REJECTED_BY_CAPABILITY_FRESHNESS">>
           b6 == <<k.require_venue /\ ~(k.order_valid /\ k.semantics_ready),
                   "REJECTED_BY_VENUE_CAPABILITY">>
<1>1. k \in CheckTypes
  BY ExecutionAssumption DEF OrderRequest, ExecutionAssumption
<1>2. g = <<a1, a2, a3, a4>> \o <<b1, b2, b3, b4, b5, b6>>
  BY DEF OrderGates, CapabilityGates
<1>3. /\ ~a2[1] => ~Exists(rec)
      /\ ~a3[1] => OrderAllowed(KindOf[q.intent], q.perm)
      /\ ~a4[1] => k.provenance # "failed"
      /\ a1[1] => Exists(rec)
  OBVIOUS
<1>4. ASSUME ~b1[1], ~b2[1], ~b3[1], ~b4[1], ~b5[1], ~b6[1] PROVE CapabilityPassed(k)
  <2>1. /\ ~(k.require_venue /\ k.context = "none")
        /\ ~(k.require_venue /\ k.context = "mismatch")
        /\ ~(fresh /\ k.freshness = "none")
        /\ ~(fresh /\ k.freshness = "mismatch")
        /\ ~(fresh /\ k.freshness = "stale")
        /\ ~(k.require_venue /\ ~(k.order_valid /\ k.semantics_ready))
    BY <1>4
  <2>2. /\ k.context \in {"none", "match", "mismatch"}
        /\ k.freshness \in {"none", "mismatch", "stale", "fresh"}
    BY <1>1 DEF CheckTypes
  <2> QED
    BY <2>1, <2>2 DEF CapabilityPassed
<1>5. /\ a1[2] = "IDEMPOTENT_REPLAY" /\ {a2[2], a3[2], a4[2]} \subseteq RejectReasons
      /\ {b1[2], b2[2], b3[2], b4[2], b5[2], b6[2]} \subseteq RejectReasons
  BY DEF RejectReasons
<1> HIDE DEF g, a1, a2, a3, a4, b1, b2, b3, b4, b5, b6
<1>6. /\ DOMAIN g = 1 .. 10
      /\ g[1] = a1 /\ g[2] = a2 /\ g[3] = a3 /\ g[4] = a4
      /\ g[5] = b1 /\ g[6] = b2 /\ g[7] = b3 /\ g[8] = b4 /\ g[9] = b5 /\ g[10] = b6
  BY <1>2
<1>7. CASE Verdict(g) = "ACCEPTED" /\ \A i \in 1 .. 10 : ~g[i][1]
  <2>1. /\ ~g[1][1] /\ ~g[2][1] /\ ~g[3][1] /\ ~g[4][1] /\ ~g[5][1] /\ ~g[6][1]
        /\ ~g[7][1] /\ ~g[8][1] /\ ~g[9][1] /\ ~g[10][1]
    BY <1>7
  <2>2. ~Exists(rec) /\ OrderAllowed(KindOf[q.intent], q.perm) /\ k.provenance # "failed"
    BY <1>3, <1>6, <2>1
  <2>3. CapabilityPassed(k)
    BY <1>4, <1>6, <2>1
  <2> QED
    <3>1. Verdict(OrderGates(q)) = "ACCEPTED"
      BY <1>7 DEF g
    <3> QED
      BY <2>2, <2>3, <3>1, Zenon
<1>8. ASSUME NEW i \in 1 .. 10, g[i][1], Verdict(g) = g[i][2]
      PROVE  \/ Verdict(g) \in RejectReasons
             \/ Verdict(g) = "IDEMPOTENT_REPLAY" /\ Exists(rec)
  <2>1. \/ i = 1 \/ i = 2 \/ i = 3 \/ i = 4 \/ i = 5
        \/ i = 6 \/ i = 7 \/ i = 8 \/ i = 9 \/ i = 10
    OBVIOUS
  <2> QED
    BY <1>3, <1>5, <1>6, <1>8, <2>1
<1> QED
  BY <1>6, <1>7, <1>8, VerdictFacts DEF g

LEMMA CancelVerdict ==
    ASSUME NEW q \in CancelRequest
    PROVE  LET v == Verdict(CancelGates(q))
           IN  \/ /\ v = "ACCEPTED"
                  /\ Exists(TargetOf(q)) /\ TargetOf(q).state \in ActiveTargetStates
               \/ v \in {"REJECTED_BY_PERMISSION", "RECONCILIATION_REQUIRED",
                         "TARGET_ORDER_NOT_ACTIVE"}
<1> DEFINE g == CancelGates(q)
           target == TargetOf(q)
           a1 == <<~CancelAllowed(IsEntryRecord(target), q.perm), "REJECTED_BY_PERMISSION">>
           a2 == <<~Exists(target), "RECONCILIATION_REQUIRED">>
           a3 == <<target.state \notin ActiveTargetStates, "TARGET_ORDER_NOT_ACTIVE">>
<1>1. g = <<a1, a2, a3>>
  BY DEF CancelGates
<1>2. /\ ~a2[1] => Exists(target)
      /\ ~a3[1] => target.state \in ActiveTargetStates
  OBVIOUS
<1>3. /\ a1[2] = "REJECTED_BY_PERMISSION" /\ a2[2] = "RECONCILIATION_REQUIRED"
      /\ a3[2] = "TARGET_ORDER_NOT_ACTIVE"
  OBVIOUS
<1> HIDE DEF g, a1, a2, a3
<1>4. DOMAIN g = 1 .. 3 /\ g[1] = a1 /\ g[2] = a2 /\ g[3] = a3
  BY <1>1
<1>5. CASE Verdict(g) = "ACCEPTED" /\ \A i \in 1 .. 3 : ~g[i][1]
  <2>1. ~g[2][1] /\ ~g[3][1]
    BY <1>5
  <2>2. Exists(target) /\ target.state \in ActiveTargetStates
    BY <1>2, <1>4, <2>1
  <2>3. Verdict(CancelGates(q)) = "ACCEPTED"
    BY <1>5 DEF g
  <2> QED
    BY <2>2, <2>3, Zenon
<1>6. ASSUME NEW i \in 1 .. 3, g[i][1], Verdict(g) = g[i][2]
      PROVE  Verdict(g) \in {"REJECTED_BY_PERMISSION", "RECONCILIATION_REQUIRED",
                             "TARGET_ORDER_NOT_ACTIVE"}
  <2>1. i = 1 \/ i = 2 \/ i = 3
    OBVIOUS
  <2> QED
    BY <1>3, <1>4, <1>6, <2>1
<1> QED
  BY <1>4, <1>5, <1>6, VerdictFacts DEF g

LEMMA ReplaceVerdict ==
    ASSUME NEW q \in ReplaceRequest
    PROVE  LET v == Verdict(ReplaceGates(q))
           IN  \/ /\ v = "ACCEPTED"
                  /\ Exists(TargetOf(q)) /\ TargetOf(q).state \in ActiveTargetStates
                  /\ OrderAllowed(KindOf[q.intent], q.perm)
                  /\ q.checks.provenance # "failed" /\ CapabilityPassed(q.checks)
               \/ v \in RejectReasons
<1> DEFINE g == ReplaceGates(q)
           k == q.checks
           target == TargetOf(q)
           rec == records[ClientOf[q.intent]]
           fresh == k.require_venue /\ k.require_fresh
           a1 == <<~ReplaceAllowed(IsEntryRecord(target), KindOf[q.intent], q.perm),
                   "REJECTED_BY_PERMISSION">>
           a2 == <<~Exists(target), "RECONCILIATION_REQUIRED">>
           a3 == <<target.state \notin ActiveTargetStates, "TARGET_ORDER_NOT_ACTIVE">>
           a4 == <<Exists(target) /\ ScopeOf[q.intent] # ScopeOf[target.intent],
                   "REJECTED_BY_VALIDATION">>
           a5 == <<Exists(rec) /\ rec.intent # q.intent, "DUPLICATE_IDEMPOTENCY_KEY">>
           a6 == <<k.provenance = "failed", "REJECTED_BY_SOURCE_PROVENANCE">>
           b1 == <<k.require_venue /\ k.context = "none", "VENUE_CAPABILITY_CONTEXT_REQUIRED">>
           b2 == <<k.require_venue /\ k.context = "mismatch", "VENUE_CAPABILITY_CONTEXT_MISMATCH">>
           b3 == <<fresh /\ k.freshness = "none", "FRESHNESS_CONTEXT_REQUIRED">>
           b4 == <<fresh /\ k.freshness = "mismatch", "FRESHNESS_CONTEXT_MISMATCH">>
           b5 == <<fresh /\ k.freshness = "stale", "REJECTED_BY_CAPABILITY_FRESHNESS">>
           b6 == <<k.require_venue /\ ~(k.order_valid /\ k.semantics_ready),
                   "REJECTED_BY_VENUE_CAPABILITY">>
<1>1. k \in CheckTypes
  BY ExecutionAssumption DEF ReplaceRequest, ExecutionAssumption
<1>2. g = <<a1, a2, a3, a4, a5, a6>> \o <<b1, b2, b3, b4, b5, b6>>
  BY DEF ReplaceGates, CapabilityGates
<1>3. /\ ~a1[1] => OrderAllowed(KindOf[q.intent], q.perm)
      /\ ~a2[1] => Exists(target)
      /\ ~a3[1] => target.state \in ActiveTargetStates
      /\ ~a6[1] => k.provenance # "failed"
  BY DEF ReplaceAllowed
<1>4. ASSUME ~b1[1], ~b2[1], ~b3[1], ~b4[1], ~b5[1], ~b6[1] PROVE CapabilityPassed(k)
  <2>1. /\ ~(k.require_venue /\ k.context = "none")
        /\ ~(k.require_venue /\ k.context = "mismatch")
        /\ ~(fresh /\ k.freshness = "none")
        /\ ~(fresh /\ k.freshness = "mismatch")
        /\ ~(fresh /\ k.freshness = "stale")
        /\ ~(k.require_venue /\ ~(k.order_valid /\ k.semantics_ready))
    BY <1>4
  <2>2. /\ k.context \in {"none", "match", "mismatch"}
        /\ k.freshness \in {"none", "mismatch", "stale", "fresh"}
    BY <1>1 DEF CheckTypes
  <2> QED
    BY <2>1, <2>2 DEF CapabilityPassed
<1>5. /\ {a1[2], a2[2], a3[2], a4[2], a5[2], a6[2]} \subseteq RejectReasons
      /\ {b1[2], b2[2], b3[2], b4[2], b5[2], b6[2]} \subseteq RejectReasons
  BY DEF RejectReasons
<1> HIDE DEF g, a1, a2, a3, a4, a5, a6, b1, b2, b3, b4, b5, b6
<1>6. /\ DOMAIN g = 1 .. 12
      /\ g[1] = a1 /\ g[2] = a2 /\ g[3] = a3 /\ g[4] = a4 /\ g[5] = a5 /\ g[6] = a6
      /\ g[7] = b1 /\ g[8] = b2 /\ g[9] = b3 /\ g[10] = b4 /\ g[11] = b5 /\ g[12] = b6
  BY <1>2
<1>7. CASE Verdict(g) = "ACCEPTED" /\ \A i \in 1 .. 12 : ~g[i][1]
  <2>1. /\ ~g[1][1] /\ ~g[2][1] /\ ~g[3][1] /\ ~g[4][1] /\ ~g[5][1] /\ ~g[6][1]
        /\ ~g[7][1] /\ ~g[8][1] /\ ~g[9][1] /\ ~g[10][1] /\ ~g[11][1] /\ ~g[12][1]
    BY <1>7
  <2>2. /\ Exists(target) /\ target.state \in ActiveTargetStates
        /\ OrderAllowed(KindOf[q.intent], q.perm) /\ k.provenance # "failed"
    BY <1>3, <1>6, <2>1
  <2>3. CapabilityPassed(k)
    BY <1>4, <1>6, <2>1
  <2>4. Verdict(ReplaceGates(q)) = "ACCEPTED"
    BY <1>7 DEF g
  <2> QED
    BY <2>2, <2>3, <2>4, Zenon
<1>8. ASSUME NEW i \in 1 .. 12, g[i][1], Verdict(g) = g[i][2]
      PROVE  Verdict(g) \in RejectReasons
  <2>1. \/ i = 1 \/ i = 2 \/ i = 3 \/ i = 4 \/ i = 5 \/ i = 6
        \/ i = 7 \/ i = 8 \/ i = 9 \/ i = 10 \/ i = 11 \/ i = 12
    OBVIOUS
  <2> QED
    BY <1>5, <1>6, <1>8, <2>1
<1> QED
  BY <1>6, <1>7, <1>8, VerdictFacts DEF g

-----------------------------------------------------------------------------
(* Calls that write only events, markers or the decision of a replay.       *)

\* The writes that no invariant but the types depends on.
Harmless == [store : {"event"}, value : Event] \cup [store : {"marker"}, value : Marker]

LEMMA HarmlessCall ==
    ASSUME ExecInv, NEW w \in Seq(Harmless), Perform(w)
    PROVE  ExecInv' /\ OL!Next
<1>1. Len(w) \in Nat /\ DOMAIN w = 1 .. Len(w) /\ \A j \in 1 .. Len(w) : w[j] \in Harmless
  OBVIOUS
<1>2. ASSUME NEW j \in 1 .. Len(w) PROVE WriteOK(w, j)
  BY <1>1 DEF Harmless, WriteOK, Stores
<1>3. \A j \in 1 .. Succeeding(w) : WriteOK(w, j)
  BY <1>1, <1>2, SucceedingFacts
<1> QED
  BY <1>1, <1>3, PerformStep

LEMMA HarmlessEvent ==
    ASSUME NEW client \in Clients, NEW prev \in {"NONE", "CREATED"}, NEW next \in OL!States,
           NEW linked \in BOOLEAN
    PROVE  PutEvent(client, prev, next, linked) \in Harmless
BY DEF PutEvent, Harmless, Event, OL!States

\* The target a cancel or replace resolves to is the stored record it names.
LEMMA TargetFacts ==
    ASSUME ExecInv, NEW q \in CancelRequest \cup ReplaceRequest, Exists(TargetOf(q))
    PROVE  /\ q.target \in Clients /\ TargetOf(q) = records[q.target]
           /\ records[q.target] \in ExecutionOrderRecord
           /\ Exists(records[q.target])
           /\ ClientOf[TargetOf(q).intent] = q.target
<1>1. q.target \in Clients
  BY DEF CancelRequest, ReplaceRequest
<1>2. TargetOf(q) = records[q.target]
  BY DEF TargetOf, Exists, NoRecord
<1>3. Exists(records[q.target])
  BY <1>2
<1> QED
  BY <1>1, <1>2, <1>3, Existing DEF ExecInv, RecordBacked

LEMMA TargetRejections ==
    ASSUME ExecInv, NEW q \in CancelRequest \cup ReplaceRequest,
           NEW state \in {"REJECTED_BY_PERMISSION", "REJECTED_BY_VALIDATION"}
    PROVE  PutTargetRejection(TargetOf(q), state) \in Seq(Harmless)
<1>1. CASE ~Exists(TargetOf(q))
  BY <1>1 DEF PutTargetRejection
<1>2. CASE Exists(TargetOf(q))
  <2> DEFINE x == PutEvent(ClientOf[TargetOf(q).intent], "CREATED", state, FALSE)
  <2>1. PutTargetRejection(TargetOf(q), state) = <<x>>
    BY <1>2 DEF PutTargetRejection
  <2>2. state \in OL!States
    BY DEF OL!States
  <2>3. x \in Harmless
    BY <1>2, <2>2, TargetFacts, HarmlessEvent
  <2> HIDE DEF x
  <2> QED
    BY <2>1, <2>3
<1> QED
  BY <1>1, <1>2

LEMMA OrderRejected ==
    ASSUME ExecInv, NEW q \in OrderRequest, AdmitOrder(q),
           Verdict(OrderGates(q)) \in RejectReasons
    PROVE  ExecInv' /\ OL!Next
<1> DEFINE v == Verdict(OrderGates(q))
           c == ClientOf[q.intent]
           x == PutEvent(c, "NONE", "CREATED", FALSE)
           y == PutEvent(c, "CREATED", "REJECTED_BY_PERMISSION", FALSE)
           z == PutEvent(c, "CREATED", "REJECTED_BY_VALIDATION", FALSE)
<1>1. c \in Clients
  BY ExecutionAssumption DEF OrderRequest, ExecutionAssumption
<1>2. x \in Harmless /\ y \in Harmless /\ z \in Harmless
  BY <1>1, HarmlessEvent DEF OL!States
<1>3. \/ OrderWrites(q, v) = << >>
      \/ OrderWrites(q, v) = <<x>>
      \/ OrderWrites(q, v) = <<x>> \o <<y>>
      \/ OrderWrites(q, v) = <<x>> \o <<z>>
  BY DEF OrderWrites, RejectReasons, SilentReasons
<1>4. DecisionWrite([op |-> q.op, client |-> c], v) = << >>
  BY DEF DecisionWrite, RejectReasons
<1>5. Perform(OrderWrites(q, v) \o << >>)
  BY <1>4 DEF AdmitOrder
<1> HIDE DEF v, x, y, z
<1>6. OrderWrites(q, v) \o << >> \in Seq(Harmless)
  <2>1. <<x>> \in Seq(Harmless) /\ <<y>> \in Seq(Harmless) /\ <<z>> \in Seq(Harmless)
    BY <1>2
  <2>2. << >> \in Seq(Harmless) /\ <<x>> \o <<y>> \in Seq(Harmless)
        /\ <<x>> \o <<z>> \in Seq(Harmless)
    BY <2>1
  <2>3. OrderWrites(q, v) \in Seq(Harmless)
    BY <1>3, <2>1, <2>2, Zenon
  <2> QED
    BY <2>3
<1> QED
  BY <1>5, <1>6, HarmlessCall

LEMMA CancelRejected ==
    ASSUME ExecInv, NEW q \in CancelRequest, AdmitCancel(q),
           Verdict(CancelGates(q)) \in {"REJECTED_BY_PERMISSION", "RECONCILIATION_REQUIRED",
                                        "TARGET_ORDER_NOT_ACTIVE"}
    PROVE  ExecInv' /\ OL!Next
<1> DEFINE v == Verdict(CancelGates(q))
<1>1. PutMarker(q) \in Seq(Harmless)
  <2>1. [op |-> q.op, target |-> q.target, at |-> q.at] \in Marker
    BY DEF CancelRequest, Marker
  <2>2. Put("marker", [op |-> q.op, target |-> q.target, at |-> q.at]) \in Harmless
    BY <2>1 DEF Put, Harmless
  <2> QED
    BY <2>2 DEF PutMarker
<1>2. PutTargetRejection(TargetOf(q), "REJECTED_BY_PERMISSION") \in Seq(Harmless)
  BY TargetRejections
<1>3. CancelWrites(q, v) \in Seq(Harmless)
  BY <1>1, <1>2 DEF CancelWrites
<1>4. DecisionWrite([op |-> q.op, target |-> q.target], v) = << >>
  BY DEF DecisionWrite
<1>5. Perform(CancelWrites(q, v) \o << >>)
  BY <1>4 DEF AdmitCancel
<1> HIDE DEF v
<1>6. CancelWrites(q, v) \o << >> \in Seq(Harmless)
  BY <1>3
<1> QED
  BY <1>5, <1>6, HarmlessCall

LEMMA ReplaceRejected ==
    ASSUME ExecInv, NEW q \in ReplaceRequest, AdmitReplace(q),
           Verdict(ReplaceGates(q)) \in RejectReasons
    PROVE  ExecInv' /\ OL!Next
<1> DEFINE v == Verdict(ReplaceGates(q))
<1>1. PutMarker(q) \in Seq(Harmless)
  <2>1. [op |-> q.op, target |-> q.target, at |-> q.at] \in Marker
    BY DEF ReplaceRequest, Marker
  <2>2. Put("marker", [op |-> q.op, target |-> q.target, at |-> q.at]) \in Harmless
    BY <2>1 DEF Put, Harmless
  <2> QED
    BY <2>2 DEF PutMarker
<1>2. /\ PutTargetRejection(TargetOf(q), "REJECTED_BY_PERMISSION") \in Seq(Harmless)
      /\ PutTargetRejection(TargetOf(q), "REJECTED_BY_VALIDATION") \in Seq(Harmless)
  BY TargetRejections
<1>3. ReplaceWrites(q, v) \in Seq(Harmless)
  <2>1. v \in RejectReasons
    OBVIOUS
  <2> HIDE DEF v
  <2> QED
    BY <1>1, <1>2, <2>1 DEF ReplaceWrites, RejectReasons, SilentReasons
<1>4. DecisionWrite([op |-> q.op, target |-> q.target, client |-> ClientOf[q.intent]], v) = << >>
  BY DEF DecisionWrite, RejectReasons
<1>5. Perform(ReplaceWrites(q, v) \o << >>)
  BY <1>4 DEF AdmitReplace
<1> HIDE DEF v
<1>6. ReplaceWrites(q, v) \o << >> \in Seq(Harmless)
  BY <1>3
<1> QED
  BY <1>5, <1>6, HarmlessCall

\* A replayed order writes its accepting decision again and nothing else.
LEMMA OrderReplayed ==
    ASSUME ExecInv, NEW q \in OrderRequest, AdmitOrder(q),
           Verdict(OrderGates(q)) = "IDEMPOTENT_REPLAY", Exists(records[ClientOf[q.intent]])
    PROVE  ExecInv' /\ OL!Next
<1> DEFINE d == [op |-> q.op, client |-> ClientOf[q.intent]]
           x == Put("decision", d)
           w == << >> \o <<x>>
<1>1. Perform(w)
  <2>1. OrderWrites(q, "IDEMPOTENT_REPLAY") = << >>
    BY DEF OrderWrites, SilentReasons
  <2>2. DecisionWrite(d, "IDEMPOTENT_REPLAY") = <<x>>
    BY DEF DecisionWrite
  <2> QED
    BY <2>1, <2>2 DEF AdmitOrder
<1>2. x.store = "decision" /\ x.value = d
  BY DEF Put
<1>3. ClientOf[q.intent] \in Clients /\ q.op = "ORDER"
  BY ExecutionAssumption DEF OrderRequest, ExecutionAssumption
<1>4. DecisionOK(w, 1, d)
  BY <1>3 DEF DecisionOK, Decision
<1> HIDE DEF x, d
<1>5. Len(w) = 1 /\ DOMAIN w = 1 .. Len(w) /\ w[1] = x
  OBVIOUS
<1> HIDE DEF w
<1>6. WriteOK(w, 1)
  BY <1>2, <1>4, <1>5 DEF WriteOK, Stores
<1>7. \A j \in 1 .. Succeeding(w) : WriteOK(w, j)
  <2>1. Succeeding(w) \in Nat /\ Succeeding(w) <= 1
    BY <1>5, SucceedingFacts
  <2>2. \A j \in 1 .. Succeeding(w) : j = 1
    BY <2>1
  <2> QED
    BY <1>6, <2>2
<1> QED
  BY <1>1, <1>5, <1>7, PerformStep
-----------------------------------------------------------------------------
(* Calls that are accepted.                                                 *)

\* The gates a request passed and the proof that could be made for it.
LEMMA GatesOfRequest ==
    ASSUME NEW q, NEW prev,
           OrderAllowed(KindOf[q.intent], q.perm),
           q.checks.provenance # "failed", CapabilityPassed(q.checks),
           ReadyProof([request |-> q, prev |-> prev])
    PROVE  PassedGates(AcceptedRecord(q.intent, [request |-> q, prev |-> prev]))
<1> DEFINE id == [request |-> q, prev |-> prev]
           rec == AcceptedRecord(q.intent, id)
<1>1. rec.intent = q.intent /\ rec.proof = id /\ id.request = q
  BY DEF AcceptedRecord
<1>2. ASSUME KindOf[q.intent] = "ENTRY"
      PROVE  /\ "allow_new_entries" \in q.perm
             /\ q.perm \cap {"guardian_required", "manual_intervention_required"} = {}
  BY <1>2 DEF OrderAllowed, ManualInterventionBlocks, KindAllowed
<1>3. q.checks.require_fresh => q.checks.require_venue
  BY <1>1 DEF ReadyProof
<1> HIDE DEF rec, id
<1>4. PassedGates(rec)
  BY <1>1, <1>2, <1>3 DEF PassedGates, CapabilityPassed
<1> QED
  BY <1>4 DEF rec, id

LEMMA MovedFacts ==
    ASSUME NEW rec \in ExecutionOrderRecord, ClientOf[rec.intent] \in Clients,
           NEW state \in OL!States
    PROVE  LET m == MovedTarget(rec, state)
               e == PutTargetMove(rec, state)
           IN  /\ m \in ExecutionOrderRecord
               /\ m.intent = rec.intent /\ m.proof = rec.proof
               /\ m.state = state /\ m.last = e.value
               /\ e.store = "event" /\ e.value \in Event
               /\ e.value.client = ClientOf[rec.intent]
               /\ e.value.prev = rec.state /\ e.value.next = state
<1> DEFINE e == PutTargetMove(rec, state)
           u == [rec EXCEPT !.state = state]
           m == [u EXCEPT !.last = e.value]
<1>1. rec.state \in OL!States
  BY DEF ExecutionOrderRecord
<1>2. /\ e.store = "event" /\ e.value \in Event
      /\ e.value.client = ClientOf[rec.intent]
      /\ e.value.prev = rec.state /\ e.value.next = state
  BY <1>1 DEF PutTargetMove, PutEvent, Event
<1>3. MovedTarget(rec, state) = m
  BY DEF MovedTarget
<1>4. /\ u \in ExecutionOrderRecord
      /\ u.intent = rec.intent /\ u.proof = rec.proof /\ u.state = state
  BY DEF ExecutionOrderRecord
<1> HIDE DEF u, e
<1>5. /\ m \in ExecutionOrderRecord
      /\ m.intent = u.intent /\ m.proof = u.proof /\ m.state = u.state /\ m.last = e.value
  BY <1>2, <1>4 DEF ExecutionOrderRecord
<1> QED
  BY <1>2, <1>3, <1>4, <1>5 DEF e

\* Six writes: the creation event, the intent, the acceptance event, the proof,
\* the record and the decision.
LEMMA OrderAdmitted ==
    ASSUME ExecInv, NEW q \in OrderRequest, AdmitOrder(q),
           Verdict(OrderGates(q)) = "ACCEPTED",
           ~Exists(records[ClientOf[q.intent]]), OrderAllowed(KindOf[q.intent], q.perm),
           q.checks.provenance # "failed", CapabilityPassed(q.checks)
    PROVE  ExecInv' /\ OL!Next
<1> DEFINE c == ClientOf[q.intent]
           id == [request |-> q, prev |-> "CREATED"]
           p == [client |-> c, id |-> id]
           d == [op |-> q.op, client |-> c]
           rec == AcceptedRecord(q.intent, id)
           x1 == PutEvent(c, "NONE", "CREATED", FALSE)
           x2 == Put("order", q.intent)
           x3 == PutEvent(c, "CREATED", "ACCEPTED_BY_EXECUTION", TRUE)
           x4 == Put("proof", p)
           x5 == Upsert(c, rec)
           x6 == Put("decision", d)
           w == (<<x1>> \o <<x2, x3, x4, x5>>) \o <<x6>>
<1>1. Perform(w)
  <2>1. OrderWrites(q, "ACCEPTED") = <<x1>> \o <<x2, x3, x4, x5>>
    BY DEF OrderWrites, SilentReasons, OrderAccepted
  <2>2. DecisionWrite(d, "ACCEPTED") = <<x6>>
    BY DEF DecisionWrite
  <2> HIDE DEF x1, x2, x3, x4, x5, x6
  <2> QED
    BY <2>1, <2>2 DEF AdmitOrder
<1>2. c \in Clients /\ q.intent \in Intents /\ q.op = "ORDER"
  BY ExecutionAssumption DEF OrderRequest, ExecutionAssumption
<1>3. id \in ProofId /\ id.request = q
  BY DEF ProofId, OL!States
<1>4. p \in Proof /\ p.id = id
  BY <1>2, <1>3 DEF Proof
<1>5. /\ rec \in ExecutionOrderRecord /\ rec.intent = q.intent /\ rec.proof = id
      /\ rec.last = x3.value
  BY <1>2, <1>3, AcceptedFacts DEF PutEvent
<1>6. records[c] = NoRecord
  BY <1>2, Existing DEF ExecInv
<1>7. d \in Decision /\ d.op = "ORDER" /\ d.client = c
  BY <1>2 DEF Decision
<1>8. /\ x1 \in Harmless /\ x3 \in Harmless /\ x1.store = "event" /\ x3.store = "event"
      /\ x2.store = "order" /\ x2.value = q.intent
      /\ x4.store = "proof" /\ x4.value = p
      /\ x5.store = "record" /\ x5.client = c /\ x5.value = rec
      /\ x6.store = "decision" /\ x6.value = d
  <2>1. x1 \in Harmless /\ x3 \in Harmless
    BY <1>2, HarmlessEvent DEF OL!States
  <2> QED
    BY <2>1 DEF Put, Upsert, PutEvent
<1>9. ReadyProof(id) => PassedGates(rec)
  BY GatesOfRequest
<1>10. rec = AcceptedRecord(rec.intent, rec.proof)
  BY <1>5
<1> HIDE DEF x1, x2, x3, x4, x5, x6, rec, id, p, d
<1>11. /\ Len(w) = 6 /\ DOMAIN w = 1 .. Len(w)
       /\ w[1] = x1 /\ w[2] = x2 /\ w[3] = x3 /\ w[4] = x4 /\ w[5] = x5 /\ w[6] = x6
  OBVIOUS
<1> HIDE DEF w
<1>20. /\ Succeeding(w) \in Nat /\ Succeeding(w) <= Len(w)
      /\ \A i \in 1 .. Succeeding(w) : ~Raises(w[i])
  <2>1. Len(w) \in Nat /\ DOMAIN w = 1 .. Len(w)
    BY <1>11
  <2> QED
    BY <2>1, SucceedingFacts
<1>12. WriteOK(w, 1) /\ WriteOK(w, 2) /\ WriteOK(w, 3) /\ WriteOK(w, 4)
  BY <1>2, <1>4, <1>8, <1>11 DEF WriteOK, Stores, Harmless
<1>13. ASSUME 5 <= Succeeding(w) PROVE WriteOK(w, 5)
  <2>1. ~Raises(w[4])
    BY <1>20, <1>13
  <2>2. PassedGates(rec)
    BY <1>4, <1>8, <1>9, <1>11, <2>1 DEF Raises
  <2>3. /\ Before(w, 5, "order", rec.intent, journal)
        /\ Before(w, 5, "event", rec.last, events)
        /\ Before(w, 5, "proof", p, proofs)
    <3>1. 2 \in 1 .. 5 - 1 /\ 3 \in 1 .. 5 - 1 /\ 4 \in 1 .. 5 - 1
      OBVIOUS
    <3> QED
      BY <1>5, <1>8, <1>11, <3>1 DEF Before
  <2>4. FreshOK(w, 5, c, rec)
    BY <1>2, <1>3, <1>5, <1>6, <1>10, <2>2, <2>3 DEF FreshOK, p
  <2> QED
    BY <1>2, <1>8, <1>11, <2>4 DEF WriteOK, Stores
<1>14. WriteOK(w, 6)
  <2>1. UpsertedBefore(w, 6, c)
    <3>1. 5 \in 1 .. 6 - 1
      OBVIOUS
    <3> QED
      BY <1>8, <1>11, <3>1 DEF UpsertedBefore
  <2>2. DecisionOK(w, 6, d)
    BY <1>2, <1>7, <2>1 DEF DecisionOK
  <2> QED
    BY <1>8, <1>11, <2>2 DEF WriteOK, Stores
<1>15. \A j \in 1 .. Succeeding(w) : WriteOK(w, j)
  <2>1. Succeeding(w) \in Nat /\ Succeeding(w) <= 6
    BY <1>11, <1>20
  <2> SUFFICES ASSUME NEW j \in 1 .. Succeeding(w) PROVE WriteOK(w, j)
    OBVIOUS
  <2>2. j = 1 \/ j = 2 \/ j = 3 \/ j = 4 \/ (j = 5 /\ 5 <= Succeeding(w)) \/ j = 6
    BY <2>1
  <2> QED
    BY <1>12, <1>13, <1>14, <2>2
<1> QED
  BY <1>1, <1>11, <1>15, PerformStep

\* Four writes: the cancel intent, the event, the record and the decision.
LEMMA CancelAdmitted ==
    ASSUME ExecInv, NEW q \in CancelRequest, AdmitCancel(q),
           Verdict(CancelGates(q)) = "ACCEPTED",
           Exists(TargetOf(q)), TargetOf(q).state \in ActiveTargetStates
    PROVE  ExecInv' /\ OL!Next
<1> DEFINE target == TargetOf(q)
           t == q.target
           k == [target |-> q.target, via |-> q.via]
           d == [op |-> q.op, target |-> q.target]
           m == MovedTarget(target, "CANCEL_REQUESTED")
           x1 == Put("cancel", k)
           x2 == PutTargetMove(target, "CANCEL_REQUESTED")
           x3 == Upsert(ClientOf[target.intent], m)
           x4 == Put("decision", d)
           w == <<x1, x2, x3>> \o <<x4>>
<1>1. Perform(w)
  <2>1. CancelWrites(q, "ACCEPTED") = <<x1, x2, x3>>
    BY DEF CancelWrites, CancelAccepted
  <2>2. DecisionWrite(d, "ACCEPTED") = <<x4>>
    BY DEF DecisionWrite
  <2> HIDE DEF x1, x2, x3, x4
  <2> QED
    BY <2>1, <2>2 DEF AdmitCancel
<1>2. /\ t \in Clients /\ target = records[t] /\ records[t] \in ExecutionOrderRecord
      /\ Exists(records[t]) /\ ClientOf[target.intent] = t
      /\ records[t] # NoRecord
  BY TargetFacts, Existing DEF ExecInv
<1>3. k \in CancelIntent /\ k.target = t
  BY DEF CancelRequest, CancelIntent
<1>4. d \in Decision /\ d.op = "CANCEL" /\ d.target = t
  BY <1>2 DEF CancelRequest, Decision
<1>5. /\ m \in ExecutionOrderRecord
      /\ m.intent = target.intent /\ m.proof = target.proof
      /\ m.state = "CANCEL_REQUESTED" /\ m.last = x2.value
      /\ x2.store = "event" /\ x2.value \in Event
      /\ x2.value.client = t
      /\ x2.value.prev = target.state /\ x2.value.next = "CANCEL_REQUESTED"
  <2>1. "CANCEL_REQUESTED" \in OL!States
    BY DEF OL!States
  <2> QED
    BY <1>2, <2>1, MovedFacts
<1>6. /\ x1.store = "cancel" /\ x1.value = k
      /\ x3.store = "record" /\ x3.client = t /\ x3.value = m
      /\ x4.store = "decision" /\ x4.value = d
  BY <1>2 DEF Put, Upsert
<1> HIDE DEF x1, x2, x3, x4, k, d, m
<1>7. /\ Len(w) = 4 /\ DOMAIN w = 1 .. Len(w)
      /\ w[1] = x1 /\ w[2] = x2 /\ w[3] = x3 /\ w[4] = x4
  OBVIOUS
<1> HIDE DEF w
<1>8. WriteOK(w, 1) /\ WriteOK(w, 2)
  BY <1>3, <1>5, <1>6, <1>7 DEF WriteOK, Stores
<1>9. ASSUME 3 <= Succeeding(w) PROVE WriteOK(w, 3)
  <2>1. ~Raises(w[2])
    BY <1>7, <1>9, SucceedingFacts
  <2>2. <<records[t].state, m.state>> \in OL!Allowed
    BY <1>2, <1>5, <1>7, <2>1 DEF Raises
  <2>3. Before(w, 3, "cancel", k, cancels) /\ Before(w, 3, "event", m.last, events)
    <3>1. 1 \in 1 .. 3 - 1 /\ 2 \in 1 .. 3 - 1
      OBVIOUS
    <3> QED
      BY <1>5, <1>6, <1>7, <3>1 DEF Before
  <2>4. MovedOK(w, 3, t, m)
    BY <1>2, <1>3, <1>5, <2>2, <2>3 DEF MovedOK
  <2> QED
    BY <1>2, <1>6, <1>7, <2>4 DEF WriteOK, Stores
<1>10. WriteOK(w, 4)
  <2>1. UpsertedBefore(w, 4, t)
    <3>1. 3 \in 1 .. 4 - 1
      OBVIOUS
    <3> QED
      BY <1>6, <1>7, <3>1 DEF UpsertedBefore
  <2>2. DecisionOK(w, 4, d)
    BY <1>2, <1>4, <2>1 DEF DecisionOK
  <2> QED
    BY <1>6, <1>7, <2>2 DEF WriteOK, Stores
<1>11. \A j \in 1 .. Succeeding(w) : WriteOK(w, j)
  <2>1. Succeeding(w) \in Nat /\ Succeeding(w) <= 4
    BY <1>7, SucceedingFacts
  <2> SUFFICES ASSUME NEW j \in 1 .. Succeeding(w) PROVE WriteOK(w, j)
    OBVIOUS
  <2>2. j = 1 \/ j = 2 \/ (j = 3 /\ 3 <= Succeeding(w)) \/ j = 4
    BY <2>1
  <2> QED
    BY <1>8, <1>9, <1>10, <2>2
<1> QED
  BY <1>1, <1>7, <1>11, PerformStep

\* Eight writes: the replace intent, the event of the target, the replacement's
\* intent, acceptance event and proof, the two records and the decision.
LEMMA ReplaceAdmitted ==
    ASSUME ExecInv, NEW q \in ReplaceRequest, AdmitReplace(q),
           Verdict(ReplaceGates(q)) = "ACCEPTED",
           Exists(TargetOf(q)), TargetOf(q).state \in ActiveTargetStates,
           OrderAllowed(KindOf[q.intent], q.perm),
           q.checks.provenance # "failed", CapabilityPassed(q.checks)
    PROVE  ExecInv' /\ OL!Next
<1> DEFINE target == TargetOf(q)
           t == q.target
           c == ClientOf[q.intent]
           r == [target |-> q.target, via |-> q.via, intent |-> q.intent]
           id == [request |-> q, prev |-> target.state]
           p == [client |-> c, id |-> id]
           d == [op |-> q.op, target |-> q.target, client |-> c]
           m == MovedTarget(target, "REPLACE_REQUESTED")
           rec == AcceptedRecord(q.intent, id)
           x1 == Put("replace", r)
           x2 == PutTargetMove(target, "REPLACE_REQUESTED")
           x3 == Put("order", q.intent)
           x4 == PutEvent(c, "CREATED", "ACCEPTED_BY_EXECUTION", TRUE)
           x5 == Put("proof", p)
           x6 == Upsert(ClientOf[target.intent], m)
           x7 == Upsert(c, rec)
           x8 == Put("decision", d)
           w == <<x1, x2, x3, x4, x5, x6, x7>> \o <<x8>>
<1>1. Perform(w)
  <2>1. ReplaceWrites(q, "ACCEPTED") = <<x1, x2, x3, x4, x5, x6, x7>>
    BY DEF ReplaceWrites, SilentReasons, ReplaceAccepted
  <2>2. DecisionWrite(d, "ACCEPTED") = <<x8>>
    BY DEF DecisionWrite
  <2> HIDE DEF x1, x2, x3, x4, x5, x6, x7, x8
  <2> QED
    BY <2>1, <2>2 DEF AdmitReplace
<1>2. /\ t \in Clients /\ target = records[t] /\ records[t] \in ExecutionOrderRecord
      /\ Exists(records[t]) /\ ClientOf[target.intent] = t
      /\ records[t] # NoRecord
  BY TargetFacts, Existing DEF ExecInv
<1>3. c \in Clients /\ q.intent \in Intents /\ q.op = "REPLACE"
  BY ExecutionAssumption DEF ReplaceRequest, ExecutionAssumption
<1>4. r \in ReplaceIntent /\ r.target = t /\ r.intent = q.intent
  BY DEF ReplaceRequest, ReplaceIntent
<1>5. id \in ProofId /\ id.request = q
  <2>1. target.state \in OL!States
    BY <1>2 DEF ExecutionOrderRecord
  <2> QED
    BY <2>1 DEF ProofId
<1>6. p \in Proof /\ p.id = id /\ p.client = c
  BY <1>3, <1>5 DEF Proof
<1>7. /\ rec \in ExecutionOrderRecord /\ rec.intent = q.intent /\ rec.proof = id
      /\ rec.last = x4.value
  BY <1>3, <1>5, AcceptedFacts DEF PutEvent
<1>8. rec = AcceptedRecord(rec.intent, rec.proof)
  BY <1>7
<1>9. d \in Decision /\ d.op = "REPLACE" /\ d.target = t /\ d.client = c
  BY <1>2, <1>3 DEF Decision
<1>10. /\ m \in ExecutionOrderRecord
       /\ m.intent = target.intent /\ m.proof = target.proof
       /\ m.state = "REPLACE_REQUESTED" /\ m.last = x2.value
       /\ x2.store = "event" /\ x2.value \in Event
       /\ x2.value.client = t
       /\ x2.value.prev = target.state /\ x2.value.next = "REPLACE_REQUESTED"
  <2>1. "REPLACE_REQUESTED" \in OL!States
    BY DEF OL!States
  <2> QED
    BY <1>2, <2>1, MovedFacts
<1>11. /\ x1.store = "replace" /\ x1.value = r
       /\ x3.store = "order" /\ x3.value = q.intent
       /\ x5.store = "proof" /\ x5.value = p
       /\ x6.store = "record" /\ x6.client = t /\ x6.value = m
       /\ x7.store = "record" /\ x7.client = c /\ x7.value = rec
       /\ x8.store = "decision" /\ x8.value = d
  BY <1>2 DEF Put, Upsert
<1>12. x4.store = "event" /\ x4.value \in Event
  <2>1. x4 \in Harmless
    BY <1>3, HarmlessEvent DEF OL!States
  <2> QED
    BY <2>1 DEF Harmless, PutEvent
<1>13. ReadyProof(id) => PassedGates(rec)
  BY GatesOfRequest
<1>14. p = [client |-> c, id |-> rec.proof]
  BY <1>7
<1> HIDE DEF x1, x2, x3, x4, x5, x6, x7, x8, rec, id, p, d, m, r
<1>15. /\ Len(w) = 8 /\ DOMAIN w = 1 .. Len(w)
       /\ w[1] = x1 /\ w[2] = x2 /\ w[3] = x3 /\ w[4] = x4
       /\ w[5] = x5 /\ w[6] = x6 /\ w[7] = x7 /\ w[8] = x8
  OBVIOUS
<1> HIDE DEF w
<1>16. /\ Succeeding(w) \in Nat /\ Succeeding(w) <= Len(w)
       /\ \A i \in 1 .. Succeeding(w) : ~Raises(w[i])
  <2>1. Len(w) \in Nat /\ DOMAIN w = 1 .. Len(w)
    BY <1>15
  <2> QED
    BY <2>1, SucceedingFacts
<1>17. WriteOK(w, 1) /\ WriteOK(w, 2) /\ WriteOK(w, 3) /\ WriteOK(w, 4) /\ WriteOK(w, 5)
  BY <1>3, <1>4, <1>6, <1>10, <1>11, <1>12, <1>15 DEF WriteOK, Stores
<1>18. ASSUME 6 <= Succeeding(w) PROVE WriteOK(w, 6)
  <2>1. ~Raises(w[2])
    BY <1>16, <1>18
  <2>2. <<records[t].state, m.state>> \in OL!Allowed
    BY <1>2, <1>10, <1>15, <2>1 DEF Raises
  <2>3. /\ Before(w, 6, "replace", r, replaces) /\ Before(w, 6, "event", m.last, events)
        /\ Before(w, 6, "order", r.intent, journal) /\ Before(w, 6, "proof", p, proofs)
    <3>1. 1 \in 1 .. 6 - 1 /\ 2 \in 1 .. 6 - 1 /\ 3 \in 1 .. 6 - 1 /\ 5 \in 1 .. 6 - 1
      OBVIOUS
    <3> QED
      BY <1>4, <1>10, <1>11, <1>15, <3>1 DEF Before
  <2>4. p.client = ClientOf[r.intent] /\ p.id.request.op = "REPLACE"
    BY <1>3, <1>4, <1>5, <1>6
  <2>5. MovedOK(w, 6, t, m)
    BY <1>2, <1>4, <1>6, <1>10, <2>2, <2>3, <2>4 DEF MovedOK
  <2> QED
    BY <1>2, <1>11, <1>15, <2>5 DEF WriteOK, Stores
<1>19. ASSUME 7 <= Succeeding(w) PROVE WriteOK(w, 7)
  <2>1. ~Raises(w[5])
    BY <1>16, <1>19
  <2>2. ReadyProof(id) /\ ProofBinds(p)
    BY <1>6, <1>11, <1>15, <2>1 DEF Raises
  \* A record of the replacement would have this very proof, so its target,
  \* which the gates found active, would be inactive.
  <2>3. records[c] = NoRecord
    <3>1. SUFFICES ASSUME Exists(records[c]) PROVE FALSE
      BY <1>3, Existing DEF ExecInv
    <3>2. [client |-> c, id |-> records[c].proof] \in proofs
      BY <1>3, <3>1 DEF ExecInv, RecordBacked
    <3>3. [client |-> c, id |-> records[c].proof] = p
      BY <1>6, <2>2, <3>2 DEF ProofBinds
    <3>4. records[c].proof = id
      BY <1>6, <3>3
    <3>5. records[t].state \notin ActiveTargetStates
      BY <1>3, <1>5, <3>1, <3>4 DEF ExecInv, NoDoubleExposure
    <3> QED
      BY <1>2, <3>5
  <2>4. /\ Before(w, 7, "order", rec.intent, journal)
        /\ Before(w, 7, "event", rec.last, events)
        /\ Before(w, 7, "proof", [client |-> c, id |-> rec.proof], proofs)
    <3>1. 3 \in 1 .. 7 - 1 /\ 4 \in 1 .. 7 - 1 /\ 5 \in 1 .. 7 - 1
      OBVIOUS
    <3> QED
      BY <1>7, <1>11, <1>12, <1>14, <1>15, <3>1 DEF Before
  <2>5. UpsertedBefore(w, 7, t)
    <3>1. 6 \in 1 .. 7 - 1
      OBVIOUS
    <3> QED
      BY <1>11, <1>15, <3>1 DEF UpsertedBefore
  <2>6. rec.proof.request.target = t
    BY <1>5, <1>7
  <2>7. FreshOK(w, 7, c, rec)
    BY <1>2, <1>3, <1>7, <1>8, <1>13, <2>2, <2>3, <2>4, <2>5, <2>6 DEF FreshOK
  <2> QED
    BY <1>3, <1>11, <1>15, <2>7 DEF WriteOK, Stores
<1>20. WriteOK(w, 8)
  <2>1. UpsertedBefore(w, 8, t) /\ UpsertedBefore(w, 8, c)
    <3>1. 6 \in 1 .. 8 - 1 /\ 7 \in 1 .. 8 - 1
      OBVIOUS
    <3> QED
      BY <1>11, <1>15, <3>1 DEF UpsertedBefore
  <2>2. DecisionOK(w, 8, d)
    BY <1>2, <1>3, <1>9, <2>1 DEF DecisionOK
  <2> QED
    BY <1>11, <1>15, <2>2 DEF WriteOK, Stores
<1>21. \A j \in 1 .. Succeeding(w) : WriteOK(w, j)
  <2>1. Succeeding(w) \in Nat /\ Succeeding(w) <= 8
    BY <1>15, <1>16
  <2> SUFFICES ASSUME NEW j \in 1 .. Succeeding(w) PROVE WriteOK(w, j)
    OBVIOUS
  <2>2. \/ j = 1 \/ j = 2 \/ j = 3 \/ j = 4 \/ j = 5
        \/ j = 6 /\ 6 <= Succeeding(w)
        \/ j = 7 /\ 7 <= Succeeding(w)
        \/ j = 8
    BY <2>1
  <2> QED
    BY <1>17, <1>18, <1>19, <1>20, <2>2
<1> QED
  BY <1>1, <1>15, <1>21, PerformStep

-----------------------------------------------------------------------------
(* The venue's reports.                                                     *)

LEMMA VenueReportStep ==
    ASSUME ExecInv, NEW c \in Clients, NEW next \in Reports, VenueReport(c, next)
    PROVE  ExecInv' /\ OL!Next
<1> DEFINE rec == records[c]
           m == MovedTarget(rec, next)
           e == PutTargetMove(rec, next)
<1>1. /\ Exists(rec) /\ <<rec.state, next>> \in OL!Allowed
      /\ events' = events \cup {e.value}
      /\ records' = [records EXCEPT ![c] = m]
      /\ UNCHANGED <<journal, cancels, replaces, proofs, markers, decisions, calls, faults>>
  BY DEF VenueReport
<1>2. rec \in ExecutionOrderRecord /\ ClientOf[rec.intent] = c
  BY <1>1, Existing DEF ExecInv, RecordBacked
<1>3. /\ rec.state # "CREATED" /\ rec.state # "NONE"
      /\ next \notin {"CANCEL_REQUESTED", "REPLACE_REQUESTED"}
  BY <1>1, ExecutionAssumption DEF ExecInv, NeverCreated, Exists, ExecutionAssumption
<1>4. /\ rec.state \in OL!States /\ next \in OL!States /\ next # "CREATED"
      /\ next \in ActiveTargetStates => rec.state \in ActiveTargetStates
  BY <1>1, <1>3, ActiveOnlyFromActive
<1>5. /\ m \in ExecutionOrderRecord
      /\ m.intent = rec.intent /\ m.proof = rec.proof
      /\ m.state = next /\ m.last = e.value
      /\ e.value \in Event
      /\ e.value.client = c /\ e.value.next = next
  BY <1>2, <1>4, MovedFacts
<1> HIDE DEF m, e
<1>6. DOMAIN records = Clients
  BY DEF ExecInv, TypeOK
<1>7. records'[c] = m /\ \A x \in Clients : x # c => records'[x] = records[x]
  BY <1>1, <1>6
<1>8. Exists(m)
  BY <1>4, <1>5 DEF Exists, OL!States
<1>9. ASSUME NEW x \in Clients
      PROVE  /\ Exists(records'[x]) <=> Exists(records[x])
             /\ records'[x].state \in ActiveTargetStates => records[x].state \in ActiveTargetStates
             /\ Exists(records[x]) => /\ records'[x].intent = records[x].intent
                                      /\ records'[x].proof = records[x].proof
  BY <1>1, <1>4, <1>5, <1>7, <1>8
<1>10. TypeOK'
  <2>1. DOMAIN records' = Clients
    BY <1>1, <1>6
  <2>2. \A x \in Clients : records'[x] \in ExecutionOrderRecord \cup {NoRecord}
    BY <1>5, <1>7 DEF ExecInv, TypeOK
  <2>3. events' \subseteq Event
    BY <1>1, <1>5 DEF ExecInv, TypeOK
  <2> QED
    BY <1>1, <2>1, <2>2, <2>3
    DEF ExecInv, TypeOK, ExecutionOrderRecord, NoRecord, Event, ProofId, Proof, Marker, Decision
<1>11. RecordBacked'
  <2> SUFFICES ASSUME NEW x \in Clients, Exists(records'[x])
               PROVE  /\ records'[x].intent \in journal /\ ClientOf[records'[x].intent] = x
                      /\ PutEvent(x, "CREATED", "ACCEPTED_BY_EXECUTION", TRUE).value \in events'
                      /\ records'[x].last \in events'
                      /\ records'[x].last.client = x
                      /\ records'[x].last.next = records'[x].state
                      /\ [client |-> x, id |-> records'[x].proof] \in proofs
    BY <1>1 DEF RecordBacked, PutEvent
  <2>1. CASE x = c
    BY <1>1, <1>5, <1>7, <2>1 DEF ExecInv, RecordBacked, PutEvent
  <2>2. CASE x # c
    BY <1>1, <1>7, <2>2 DEF ExecInv, RecordBacked, PutEvent
  <2> QED
    BY <2>1, <2>2
<1>12. RecordsPassedEveryGate'
  <2>1. \A x \in Clients : Exists(records[x]) => PassedGates(records[x])
    BY DEF ExecInv, RecordsPassedEveryGate, PassedGates
  <2>2. \A x \in Clients : Exists(records'[x]) => PassedGates(records'[x])
    BY <1>9, <2>1 DEF PassedGates
  <2> QED
    BY <2>2 DEF RecordsPassedEveryGate, PassedGates
<1>13. NoDoubleExposure'
  <2> SUFFICES ASSUME NEW x \in Clients, Exists(records'[x]),
                      records'[x].proof.request.op = "REPLACE"
               PROVE  LET t == records'[x].proof.request.target
                      IN  Exists(records'[t]) /\ records'[t].state \notin ActiveTargetStates
    BY DEF NoDoubleExposure
  <2> DEFINE t == records[x].proof.request.target
  <2>1. Exists(records[x]) /\ records'[x].proof = records[x].proof
    BY <1>9
  <2>2. Exists(records[t]) /\ records[t].state \notin ActiveTargetStates
    BY <2>1 DEF ExecInv, NoDoubleExposure
  <2>3. t \in Clients
    <3>1. records[x] \in ExecutionOrderRecord
      BY <2>1, Existing DEF ExecInv
    <3>2. records[x].proof.request \in OrderRequest \cup ReplaceRequest
      BY <3>1 DEF ExecutionOrderRecord, ProofId
    <3> QED
      BY <2>1, <3>2 DEF OrderRequest, ReplaceRequest
  <2> QED
    BY <1>9, <2>1, <2>2, <2>3
<1>14. RequestsAreJournaled'
  BY <1>1, <1>3, <1>5, <1>7 DEF ExecInv, RequestsAreJournaled
<1>15. AcceptancesHold'
  <2> SUFFICES ASSUME NEW d \in decisions
               PROVE  /\ d.op \in {"ORDER", "REPLACE"} => Exists(records'[d.client])
                      /\ d.op \in {"CANCEL", "REPLACE"} =>
                            /\ Exists(records'[d.target])
                            /\ records'[d.target].state \notin ActiveTargetStates
    BY <1>1 DEF AcceptancesHold
  <2>1. d \in Decision
    BY DEF ExecInv, TypeOK
  <2>2. d.op \in {"ORDER", "REPLACE"} => d.client \in Clients
    BY <2>1 DEF Decision
  <2>3. d.op \in {"CANCEL", "REPLACE"} => d.target \in Clients
    BY <2>1 DEF Decision
  <2> QED
    BY <1>9, <2>2, <2>3 DEF ExecInv, AcceptancesHold
<1>16. NeverCreated'
  BY <1>4, <1>5, <1>7 DEF ExecInv, NeverCreated
<1>17. OL!Next
  <2>1. ASSUME NEW x \in Clients PROVE records'[x].state \in OL!States \cup {"NONE"}
    BY <1>10 DEF TypeOK, ExecutionOrderRecord, NoRecord
  <2>2. ASSUME NEW x \in Clients
        PROVE  records'[x].state = records[x].state \/ OL!Moves(records[x].state, records'[x].state)
    BY <1>1, <1>3, <1>5, <1>7 DEF OL!Moves
  <2> QED
    BY <2>1, <2>2 DEF OL!Next
<1> QED
  BY <1>10, <1>11, <1>12, <1>13, <1>14, <1>15, <1>16, <1>17 DEF ExecInv
-----------------------------------------------------------------------------
(* The theorems.                                                            *)

LEMMA InvInit == Init => ExecInv /\ OL!Init
<1> SUFFICES ASSUME Init PROVE ExecInv /\ OL!Init
  OBVIOUS
<1>1. \A c \in Clients : records[c] = NoRecord /\ ~Exists(records[c])
  BY DEF Init, Exists, NoRecord
<1>2. TypeOK
  BY <1>1, ExecutionAssumption DEF Init, TypeOK, ExecutionAssumption
<1>3. RecordBacked /\ RecordsPassedEveryGate /\ NoDoubleExposure /\ AcceptancesHold
  BY <1>1 DEF Init, RecordBacked, RecordsPassedEveryGate, NoDoubleExposure, AcceptancesHold
<1>4. RequestsAreJournaled /\ NeverCreated
  BY <1>1 DEF RequestsAreJournaled, NeverCreated, NoRecord
<1>5. OL!Init
  BY <1>1 DEF OL!Init, NoRecord
<1> QED
  BY <1>2, <1>3, <1>4, <1>5 DEF ExecInv

LEMMA InvNext == ExecInv /\ Next => ExecInv' /\ OL!Next
<1> SUFFICES ASSUME ExecInv, Next PROVE ExecInv' /\ OL!Next
  OBVIOUS
<1>1. ASSUME NEW q \in OrderRequest, AdmitOrder(q) PROVE ExecInv' /\ OL!Next
  <2>1. CASE /\ Verdict(OrderGates(q)) = "ACCEPTED"
             /\ ~Exists(records[ClientOf[q.intent]])
             /\ OrderAllowed(KindOf[q.intent], q.perm)
             /\ q.checks.provenance # "failed" /\ CapabilityPassed(q.checks)
    BY <1>1, <2>1, OrderAdmitted
  <2>2. CASE /\ Verdict(OrderGates(q)) = "IDEMPOTENT_REPLAY"
             /\ Exists(records[ClientOf[q.intent]])
    BY <1>1, <2>2, OrderReplayed
  <2>3. CASE Verdict(OrderGates(q)) \in RejectReasons
    BY <1>1, <2>3, OrderRejected
  <2> QED
    BY <2>1, <2>2, <2>3, OrderVerdict
<1>2. ASSUME NEW q \in CancelRequest, AdmitCancel(q) PROVE ExecInv' /\ OL!Next
  <2>1. CASE /\ Verdict(CancelGates(q)) = "ACCEPTED"
             /\ Exists(TargetOf(q)) /\ TargetOf(q).state \in ActiveTargetStates
    BY <1>2, <2>1, CancelAdmitted
  <2>2. CASE Verdict(CancelGates(q)) \in {"REJECTED_BY_PERMISSION", "RECONCILIATION_REQUIRED",
                                          "TARGET_ORDER_NOT_ACTIVE"}
    BY <1>2, <2>2, CancelRejected
  <2> QED
    BY <2>1, <2>2, CancelVerdict
<1>3. ASSUME NEW q \in ReplaceRequest, AdmitReplace(q) PROVE ExecInv' /\ OL!Next
  <2>1. CASE /\ Verdict(ReplaceGates(q)) = "ACCEPTED"
             /\ Exists(TargetOf(q)) /\ TargetOf(q).state \in ActiveTargetStates
             /\ OrderAllowed(KindOf[q.intent], q.perm)
             /\ q.checks.provenance # "failed" /\ CapabilityPassed(q.checks)
    BY <1>3, <2>1, ReplaceAdmitted
  <2>2. CASE Verdict(ReplaceGates(q)) \in RejectReasons
    BY <1>3, <2>2, ReplaceRejected
  <2> QED
    BY <2>1, <2>2, ReplaceVerdict
<1>4. ASSUME NEW c \in Clients, NEW next \in Reports, VenueReport(c, next)
      PROVE  ExecInv' /\ OL!Next
  BY <1>4, VenueReportStep
<1> QED
  BY <1>1, <1>2, <1>3, <1>4 DEF Next

LEMMA InvStutter == ExecInv /\ UNCHANGED vars => ExecInv'
BY DEF vars, stores, ExecInv, TypeOK, RecordBacked, RecordsPassedEveryGate, NoDoubleExposure,
       RequestsAreJournaled, AcceptancesHold, NeverCreated, ExecutionOrderRecord, NoRecord,
       Event, ProofId, Proof, Marker, Decision, PutEvent

\* The inductive invariant of the execution stores: every write of admit that
\* is made is justified by the writes before it, whichever write fails.
THEOREM ExecutionInductive == Spec => []ExecInv
<1>1. Init => ExecInv
  BY InvInit
<1>2. ExecInv /\ [Next]_vars => ExecInv'
  BY InvNext, InvStutter
<1> QED
  BY <1>1, <1>2, PTL DEF Spec

\* Every store behind the ports of the coordinator keeps values of its type,
\* through failing writes of admit and reports of the venue.
THEOREM TypeCorrect == Spec => []TypeOK
<1>1. ExecInv => TypeOK
  BY DEF ExecInv
<1> QED
  BY <1>1, ExecutionInductive, PTL

\* A record of admit rests on its journaled intent, its lifecycle events and
\* its readiness proof, whichever of the store writes raised.
THEOREM RecordsAreBacked == Spec => []RecordBacked
<1>1. ExecInv => RecordBacked
  BY DEF ExecInv
<1> QED
  BY <1>1, ExecutionInductive, PTL

\* The request in the proof of a record passed the permission, provenance,
\* venue and freshness gates of _admit_order_intent or _admit_replace_intent.
THEOREM GatesWerePassed == Spec => []RecordsPassedEveryGate
<1>1. ExecInv => RecordsPassedEveryGate
  BY DEF ExecInv
<1> QED
  BY <1>1, ExecutionInductive, PTL

\* A replacement and the order it replaces are never both active, although
\* _admit_replace_intent updates their records by two separate writes.
THEOREM ExposureIsSingle == Spec => []NoDoubleExposure
<1>1. ExecInv => NoDoubleExposure
  BY DEF ExecInv
<1> QED
  BY <1>1, ExecutionInductive, PTL

\* A record asks for a cancel or a replace only with the intent, and the
\* replacement's proof, already stored.
THEOREM RequestsJournaled == Spec => []RequestsAreJournaled
<1>1. ExecInv => RequestsAreJournaled
  BY DEF ExecInv
<1> QED
  BY <1>1, ExecutionInductive, PTL

\* The accepting answers of admit stay true through all later calls and
\* reports.
THEOREM AcceptancesStand == Spec => []AcceptancesHold
<1>1. ExecInv => AcceptancesHold
  BY DEF ExecInv
<1> QED
  BY <1>1, ExecutionInductive, PTL

\* The coordinator implements the order lifecycle: every call and every report
\* moves the records along the table of allowed transitions.
THEOREM LifecycleRefinement == Spec => ImplementsLifecycle
<1> DEFINE state == [c \in Clients |-> records[c].state]
<1>1. Init => OL!Init
  BY InvInit
<1>2. ExecInv /\ [Next]_vars => [OL!Next]_state
  <2> SUFFICES ASSUME ExecInv, [Next]_vars PROVE [OL!Next]_state
    OBVIOUS
  <2>1. CASE Next
    BY <2>1, InvNext
  <2>2. CASE UNCHANGED vars
    BY <2>2 DEF vars, stores
  <2> QED
    BY <2>1, <2>2
<1> QED
  BY <1>1, <1>2, ExecutionInductive, PTL DEF Spec, ImplementsLifecycle, OL!Spec
=============================================================================

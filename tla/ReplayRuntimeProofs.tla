------------------------ MODULE ReplayRuntimeProofs ------------------------
(***************************************************************************)
(* Proofs that a replay run loses and doubles no event, for every number   *)
(* of callers, handlers, events, pauses and deaths.                        *)
(***************************************************************************)
EXTENDS ReplayRuntime, TLAPS

RunStates ==
    [binding : Bindings, dispatcher : Dispatchers, status : Statuses, revision : Nat,
     next_event_index : Nat, created_at : Times, updated_at : Times]

RunState(s) == s \in RunStates /\ s.next_event_index <= Total(s)

\* A receipt that the handlers of run R may have answered.
Genuine(r, R) ==
    /\ r.index \in Nat /\ r.index < Total(R)
    /\ \E a \in AnswersTo(R.dispatcher, KindAt(R, r.index)) : r = ReceiptOf(R, r.index, a)

\* An output that the handlers of run R may have answered.
GenuineOutput(o, R) ==
    /\ o.index \in Nat /\ o.index < Total(R)
    /\ \E a \in AnswersTo(R.dispatcher, KindAt(R, o.index)) : o \in OutputsOf(o.index, a)

-----------------------------------------------------------------------------
(* What a call knows of the stores R, rs and os it was started over.        *)

CreateCalls == [op : {"create"}, new : RunStates]

ChangeCalls ==
    [op : {"start", "pause", "resume"}, expected : Nat, new : RunStates, checked : {TRUE},
     plan : {{}}, outs : {{}}, recs : {{}}]

\* The plan, outs and recs of a step are sets of records StepOK describes.
IsStepCall(s) ==
    /\ s = [op |-> "step", expected |-> s.expected, new |-> s.new, from |-> s.from,
            checked |-> s.checked, plan |-> s.plan, outs |-> s.outs, recs |-> s.recs]
    /\ s.expected \in Nat /\ s.from \in Nat /\ s.checked \in BOOLEAN
    /\ RunState(s.new)

\* The call was planned on an earlier state of R or on R itself.
Loaded(s, R) ==
    /\ R # NoRun
    /\ s.new.binding = R.binding /\ s.new.dispatcher = R.dispatcher
    /\ s.expected <= R.revision

CreateOK(s) == s \in CreateCalls /\ RunState(s.new) /\ s.new.next_event_index = 0

ChangeOK(s, R) ==
    /\ s \in ChangeCalls /\ RunState(s.new)
    /\ Loaded(s, R)
    /\ s.expected = R.revision => s.new.next_event_index = R.next_event_index

\* A plan of a step has a genuine receipt for each of its events; what is left
\* to save and what is saved already make up the plan.
StepOK(s, R, rs, os) ==
    /\ IsStepCall(s)
    /\ Loaded(s, R)
    /\ s.expected = R.revision => s.from = R.next_event_index
    /\ \A r \in s.plan :
            /\ Genuine(r, R)
            /\ s.from <= r.index /\ r.index < s.new.next_event_index
            /\ r \in s.recs \/ r \in rs
            /\ r.outputs \subseteq os \cup s.outs
    /\ \A i \in s.from .. s.new.next_event_index - 1 : \E r \in s.plan : r.index = i
    /\ s.recs \subseteq s.plan
    /\ \A o \in s.outs : GenuineOutput(o, R)

CallOK(s, R, rs, os) ==
    s = Idle \/ CreateOK(s) \/ ChangeOK(s, R) \/ StepOK(s, R, rs, os)

-----------------------------------------------------------------------------
(* The inductive invariant.                                                 *)

RunTyped == run = NoRun \/ RunState(run)

CallsHold ==
    /\ DOMAIN call = Callers
    /\ call = [c \in Callers |-> call[c]]
    /\ \A c \in Callers : CallOK(call[c], run, receipts, outputs)

\* What is stored was answered by the handlers of the run, and a receipt is
\* the only one of its event.
StoredIsGenuine ==
    /\ run = NoRun => receipts = {} /\ outputs = {} /\ results = {}
    /\ \A r \in receipts : Genuine(r, run)
    /\ \A o \in outputs : GenuineOutput(o, run)
    /\ \A r, q \in receipts : r.index = q.index => r = q

ResultsTyped == \A s \in results : s.from \in Nat /\ s.to \in Nat

Counted == pauses \in 0 .. MaxPauses /\ deaths \in 0 .. MaxDeaths

ReplayInv ==
    /\ RunTyped
    /\ CallsHold
    /\ StoredIsGenuine
    /\ ResultsTyped
    /\ Counted
    /\ ProgressHasReceipts
    /\ ReceiptsBacked
    /\ ReportedOnce

-----------------------------------------------------------------------------
(* Facts about operators.                                                   *)

LEMMA TotalIsNat ==
    ASSUME NEW s, s.binding \in Bindings
    PROVE  Total(s) \in Nat
BY ReplayAssumption DEF ReplayAssumption, IsHeld, Total

\* A run that goes on, and stores that grow, disturb no call under way.
LEMMA CallsSurvive ==
    ASSUME NEW s, NEW R, NEW S, NEW rs, NEW rt, NEW os, NEW ot,
           CallOK(s, R, rs, os), rs \subseteq rt, os \subseteq ot,
           RunState(R) \/ R = NoRun,
           \/ S = R
           \/ R = NoRun
           \/ /\ RunState(S)
              /\ S.binding = R.binding /\ S.dispatcher = R.dispatcher
              /\ S.revision = R.revision + 1
    PROVE  CallOK(s, S, rt, ot)
<1>1. CASE s = Idle \/ CreateOK(s)
  BY <1>1 DEF CallOK
<1>2. CASE ChangeOK(s, R)
  <2>1. R # NoRun /\ RunState(R) /\ s.expected \in Nat /\ R.revision \in Nat
    BY <1>2 DEF ChangeOK, Loaded, ChangeCalls, RunState, RunStates
  <2>2. S # NoRun
    BY <2>1 DEF RunState, RunStates, NoRun, Statuses
  <2> QED
    BY <1>2, <2>1, <2>2 DEF ChangeOK, Loaded, CallOK
<1>3. CASE StepOK(s, R, rs, os)
  <2>1. R # NoRun /\ RunState(R) /\ s.expected \in Nat /\ R.revision \in Nat
    BY <1>3 DEF StepOK, Loaded, IsStepCall, RunState, RunStates
  <2>2. S # NoRun
    BY <2>1 DEF RunState, RunStates, NoRun, Statuses
  <2>3. Loaded(s, S) /\ (s.expected = S.revision => s.from = S.next_event_index)
    BY <1>3, <2>1, <2>2 DEF StepOK, Loaded
  <2>4. \A r : Genuine(r, R) => Genuine(r, S)
    BY <2>1, <1>3 DEF Genuine, Total, KindAt, ReceiptOf
  <2>5. \A o : GenuineOutput(o, R) => GenuineOutput(o, S)
    BY <2>1, <1>3 DEF GenuineOutput, Total, KindAt
  <2> QED
    BY <1>3, <2>3, <2>4, <2>5 DEF StepOK, CallOK
<1> QED
  BY <1>1, <1>2, <1>3 DEF CallOK

\* What a call is shows in its op.
LEMMA CallByOp ==
    ASSUME NEW s, NEW R, NEW rs, NEW os, CallOK(s, R, rs, os)
    PROVE  /\ s.op = "create" => CreateOK(s)
           /\ s.op \in {"start", "pause", "resume"} => ChangeOK(s, R)
           /\ s.op = "step" => StepOK(s, R, rs, os)
           /\ s.op \in {"none", "create", "start", "pause", "resume", "step"}
<1>1. CASE s = Idle
  BY <1>1 DEF Idle
<1>2. CASE CreateOK(s)
  BY <1>2 DEF CreateOK, CreateCalls
<1>3. CASE ChangeOK(s, R)
  BY <1>3 DEF ChangeOK, ChangeCalls
<1>4. CASE StepOK(s, R, rs, os)
  <2>1. s.op = "step"
    BY <1>4 DEF StepOK, IsStepCall
  <2> QED
    BY <1>4, <2>1
<1> QED
  BY <1>1, <1>2, <1>3, <1>4 DEF CallOK

\* An action that moves one call, over stores that only grow.
LEMMA OneCallMoves ==
    ASSUME RunTyped, CallsHold, NEW c \in Callers, NEW s,
           call' = [call EXCEPT ![c] = s],
           receipts \subseteq receipts', outputs \subseteq outputs',
           \/ run' = run
           \/ run = NoRun
           \/ /\ RunState(run')
              /\ run'.binding = run.binding /\ run'.dispatcher = run.dispatcher
              /\ run'.revision = run.revision + 1,
           CallOK(s, run', receipts', outputs')
    PROVE  CallsHold'
<1>1. DOMAIN call' = Callers /\ call' = [x \in Callers |-> call'[x]]
  BY DEF CallsHold
<1>2. ASSUME NEW x \in Callers PROVE CallOK(call'[x], run', receipts', outputs')
  <2>1. CASE x = c
    BY <2>1 DEF CallsHold
  <2>2. CASE x # c
    <3>1. call'[x] = call[x] /\ CallOK(call[x], run, receipts, outputs)
      BY <2>2 DEF CallsHold
    <3>2. CallOK(call[x], run', receipts', outputs')
      BY <3>1, CallsSurvive DEF RunTyped
    <3> QED
      BY <3>1, <3>2
  <2> QED
    BY <2>1, <2>2
<1> QED
  BY <1>1, <1>2 DEF CallsHold

\* An action that leaves the stores alone.
LEMMA StoresUntouched ==
    ASSUME ReplayInv, UNCHANGED <<run, receipts, outputs, results>>, CallsHold', Counted'
    PROVE  ReplayInv'
<1>1. RunTyped' /\ StoredIsGenuine' /\ ResultsTyped'
  BY DEF ReplayInv, RunTyped, StoredIsGenuine, ResultsTyped
<1>2. ProgressHasReceipts' /\ ReceiptsBacked' /\ ReportedOnce'
  BY DEF ReplayInv, ProgressHasReceipts, ReceiptsBacked, ReportedOnce
<1> QED
  BY <1>1, <1>2 DEF ReplayInv

\* A call that ends, by returning, raising or dying.
LEMMA CallEnds ==
    ASSUME ReplayInv, NEW c \in Callers, Ends(c),
           UNCHANGED <<run, receipts, outputs, results>>, Counted'
    PROVE  ReplayInv'
<1>1. CallsHold'
  BY OneCallMoves DEF ReplayInv, Ends, CallOK
<1> QED
  BY <1>1, StoresUntouched

\* A call that starts.
LEMMA CallStarts ==
    ASSUME ReplayInv, NEW c \in Callers, NEW s, Starts(c, s),
           UNCHANGED <<run, receipts, outputs, results>>, Counted',
           CallOK(s, run, receipts, outputs)
    PROVE  ReplayInv'
<1>1. CallsHold'
  BY OneCallMoves DEF ReplayInv, Starts
<1> QED
  BY <1>1, StoresUntouched

-----------------------------------------------------------------------------
(* The actions.                                                             *)

LEMMA CreateRunStep ==
    ASSUME ReplayInv, NEW c \in Callers, NEW d \in Dispatchers, NEW now \in Times,
           NEW b \in Bindings, CreateRun(c, b, d, now)
    PROVE  ReplayInv'
<1> DEFINE s == [op |-> "create", new |-> Created(b, d, now)]
<1>1. Created(b, d, now) \in RunStates /\ Created(b, d, now).binding = b
      /\ Created(b, d, now).next_event_index = 0
  BY DEF Created, RunStates, Statuses
<1>2. Total(Created(b, d, now)) \in Nat
  BY <1>1, TotalIsNat
<1>3. CreateOK(s)
  BY <1>1, <1>2 DEF CreateOK, CreateCalls, RunState
<1>4. CallOK(s, run, receipts, outputs)
  BY <1>3 DEF CallOK
<1> QED
  BY <1>4, CallStarts DEF CreateRun, ReplayInv, Counted

LEMMA StoreCreateStep ==
    ASSUME ReplayInv, NEW c \in Callers, StoreCreate(c)
    PROVE  ReplayInv'
<1>1. CASE run # NoRun
  <2>1. UNCHANGED <<run, receipts, outputs, results>> /\ Counted' /\ Ends(c)
    BY <1>1 DEF StoreCreate, ReplayInv, Counted
  <2> QED
    BY <2>1, CallEnds
<1>2. CASE run = NoRun
  <2>1. CreateOK(call[c])
    BY CallByOp DEF StoreCreate, ReplayInv, CallsHold
  <2>2. RunState(run') /\ run'.next_event_index = 0
    BY <1>2, <2>1 DEF StoreCreate, CreateOK
  <2>3. receipts = {} /\ outputs = {} /\ results = {}
    BY <1>2 DEF ReplayInv, StoredIsGenuine
  <2>4. UNCHANGED <<receipts, outputs, results, pauses, deaths>>
    BY DEF StoreCreate
  <2>5. CallsHold'
    BY <1>2, <2>4, OneCallMoves DEF StoreCreate, Ends, CallOK, ReplayInv
  <2>6. RunTyped' /\ StoredIsGenuine' /\ ResultsTyped' /\ Counted'
    <3>1. run' # NoRun
      BY <2>2 DEF RunState, RunStates, NoRun, Statuses
    <3> QED
      BY <2>2, <2>3, <2>4, <3>1
      DEF RunTyped, StoredIsGenuine, ResultsTyped, ReplayInv, Counted
  <2>7. ProgressHasReceipts' /\ ReceiptsBacked' /\ ReportedOnce'
    BY <2>2, <2>3, <2>4 DEF ProgressHasReceipts, ReceiptsBacked, ReportedOnce
  <2> QED
    BY <2>5, <2>6, <2>7 DEF ReplayInv
<1> QED
  BY <1>1, <1>2

\* A start, pause or resume plans a state that differs in status and time.
LEMMA ChangesStep ==
    ASSUME ReplayInv, NEW c \in Callers, NEW op \in {"start", "pause", "resume"}, NEW new,
           run # NoRun, RunState(new),
           new.binding = run.binding, new.dispatcher = run.dispatcher,
           new.next_event_index = run.next_event_index,
           Changes(c, op, new), Counted'
    PROVE  ReplayInv'
<1> DEFINE s == [op |-> op, expected |-> run.revision, new |-> new, checked |-> TRUE,
                 plan |-> {}, outs |-> {}, recs |-> {}]
<1>1. run.revision \in Nat /\ new \in RunStates
  BY DEF ReplayInv, RunTyped, RunState, RunStates
<1>2. s \in ChangeCalls
  BY <1>1 DEF ChangeCalls
<1>3. ChangeOK(s, run)
  BY <1>1, <1>2 DEF ChangeOK, Loaded
<1>4. CallOK(s, run, receipts, outputs)
  BY <1>3 DEF CallOK
<1> QED
  BY <1>4, CallStarts DEF Changes

LEMMA TouchedFacts ==
    ASSUME NEW s, RunState(s), NEW now \in Times, NEW status \in Statuses
    PROVE  LET t == [Touched(s, now) EXCEPT !.status = status]
           IN  /\ RunState(t)
               /\ t.binding = s.binding /\ t.dispatcher = s.dispatcher
               /\ t.next_event_index = s.next_event_index
<1> DEFINE u == Touched(s, now)
           t == [u EXCEPT !.status = status]
<1>1. s \in RunStates
  BY DEF RunState
<1>2. /\ u \in RunStates
      /\ u.binding = s.binding /\ u.dispatcher = s.dispatcher
      /\ u.next_event_index = s.next_event_index
  <2> DEFINE v == [s EXCEPT !.revision = s.revision + 1]
  <2>1. s.revision + 1 \in Nat
    BY <1>1 DEF RunStates
  <2>2. /\ v \in RunStates
        /\ v.binding = s.binding /\ v.dispatcher = s.dispatcher
        /\ v.next_event_index = s.next_event_index
    BY <1>1, <2>1 DEF RunStates
  <2>3. u = [v EXCEPT !.updated_at = now]
    BY DEF Touched
  <2> HIDE DEF v
  <2> QED
    BY <2>2, <2>3 DEF RunStates
<1> HIDE DEF u
<1>3. /\ t \in RunStates
      /\ t.binding = u.binding /\ t.dispatcher = u.dispatcher
      /\ t.next_event_index = u.next_event_index
  BY <1>2 DEF RunStates
<1>4. RunState(t)
  BY <1>2, <1>3 DEF RunState, Total
<1> QED
  BY <1>2, <1>3, <1>4 DEF u

LEMMA StatusChangeSteps ==
    ASSUME ReplayInv, NEW c \in Callers, NEW d \in Dispatchers, NEW now \in Times,
           StartRun(c, d, now) \/ PauseRun(c, d, now) \/ ResumeRun(c, d, now)
    PROVE  ReplayInv'
<1>1. run # NoRun /\ RunState(run)
  BY DEF StartRun, PauseRun, ResumeRun, Loads, ReplayInv, RunTyped
<1>2. CASE StartRun(c, d, now)
  <2> DEFINE st == IF Total(run) = 0 THEN "COMPLETED" ELSE "RUNNING"
  <2>1. st \in Statuses /\ Started(run, now) = [Touched(run, now) EXCEPT !.status = st]
    BY DEF Started, Statuses
  <2>2. Counted'
    BY <1>2 DEF StartRun, Changes, ReplayInv, Counted
  <2>3. Changes(c, "start", Started(run, now))
    BY <1>2 DEF StartRun
  <2> QED
    BY <1>1, <2>1, <2>2, <2>3, TouchedFacts, ChangesStep
<1>3. CASE PauseRun(c, d, now)
  <2>1. "PAUSED" \in Statuses
    BY DEF Statuses
  <2>2. Counted'
    BY <1>3, ReplayAssumption DEF PauseRun, Changes, ReplayInv, Counted, ReplayAssumption
  <2> QED
    BY <1>1, <1>3, <2>1, <2>2, TouchedFacts, ChangesStep DEF PauseRun, Paused
<1>4. CASE ResumeRun(c, d, now)
  <2>1. "RUNNING" \in Statuses
    BY DEF Statuses
  <2>2. Counted'
    BY <1>4 DEF ResumeRun, Changes, ReplayInv, Counted
  <2> QED
    BY <1>1, <1>4, <2>1, <2>2, TouchedFacts, ChangesStep DEF ResumeRun, Resumed
<1> QED
  BY <1>2, <1>3, <1>4

\* The state a step plans: count events further, of the same run.
LEMMA SteppedFacts ==
    ASSUME NEW s, RunState(s), NEW now \in Times, NEW count \in Nat,
           s.next_event_index + count <= Total(s)
    PROVE  LET t == Stepped(s, count, now)
           IN  /\ RunState(t)
               /\ t.binding = s.binding /\ t.dispatcher = s.dispatcher
               /\ t.next_event_index = s.next_event_index + count
<1> DEFINE next == s.next_event_index + count
           status == IF next = Total(s) THEN "COMPLETED" ELSE "RUNNING"
           u == [Touched(s, now) EXCEPT !.status = status]
           t == [u EXCEPT !.next_event_index = next]
<1>1. status \in Statuses /\ next \in Nat
  BY DEF Statuses, RunState, RunStates
<1>2. RunState(u) /\ u.binding = s.binding /\ u.dispatcher = s.dispatcher
  BY <1>1, TouchedFacts
<1>3. Stepped(s, count, now) = t
  <2>1. s \in RunStates
    BY DEF RunState
  <2> QED
    BY <2>1 DEF Stepped, Touched, RunStates
<1> HIDE DEF u, next
<1>4. /\ t \in RunStates
      /\ t.binding = u.binding /\ t.dispatcher = u.dispatcher
      /\ t.next_event_index = next
  BY <1>1, <1>2 DEF RunState, RunStates
<1>5. RunState(t)
  BY <1>2, <1>4 DEF RunState, Total, next
<1> QED
  BY <1>2, <1>3, <1>4, <1>5 DEF next

LEMMA StepRunStep ==
    ASSUME ReplayInv, NEW c \in Callers, NEW d \in Dispatchers, NEW now \in Times,
           NEW m \in 1 .. MaxEvents, StepRun(c, d, now, m)
    PROVE  ReplayInv'
<1> DEFINE from == run.next_event_index
           indexes == from .. from + Count(m) - 1
           new == Stepped(run, Count(m), now)
<1>1. run # NoRun /\ RunState(run) /\ run.dispatcher = d
  BY DEF StepRun, Loads, ReplayInv, RunTyped
<1>2. Total(run) \in Nat /\ from \in Nat /\ from <= Total(run) /\ run.revision \in Nat
  BY <1>1, TotalIsNat DEF RunState, RunStates
<1>3. Count(m) \in Nat /\ Count(m) > 0 /\ from + Count(m) <= Total(run)
  BY <1>2, ReplayAssumption DEF StepRun, Count, ReplayAssumption
<1>4. RunState(new) /\ new.binding = run.binding /\ new.dispatcher = run.dispatcher
      /\ new.next_event_index = from + Count(m)
  BY <1>1, <1>3, SteppedFacts
<1>5. PICK answers \in [indexes -> UNION {AnswersTo(d, KindAt(run, i)) : i \in indexes}] :
        /\ \A i \in indexes : answers[i] \in AnswersTo(d, KindAt(run, i))
        /\ LET plan == {ReceiptOf(run, i, answers[i]) : i \in indexes}
           IN  Starts(c, [op |-> "step", expected |-> run.revision, new |-> new,
                          from |-> from, checked |-> FALSE, plan |-> plan,
                          outs |-> UNION {r.outputs : r \in plan}, recs |-> plan])
  BY DEF StepRun
<1> DEFINE plan == {ReceiptOf(run, i, answers[i]) : i \in indexes}
           outs == UNION {r.outputs : r \in plan}
           s == [op |-> "step", expected |-> run.revision, new |-> new, from |-> from,
                 checked |-> FALSE, plan |-> plan, outs |-> outs, recs |-> plan]
<1>6. ASSUME NEW r \in plan
      PROVE  /\ Genuine(r, run)
             /\ from <= r.index /\ r.index < new.next_event_index
             /\ r.outputs \subseteq outs
  <2>1. PICK i \in indexes : r = ReceiptOf(run, i, answers[i])
    OBVIOUS
  <2>2. r.index = i /\ i \in Nat /\ i < Total(run) /\ from <= i /\ i < from + Count(m)
    BY <1>2, <1>3, <2>1 DEF ReceiptOf
  <2>3. answers[i] \in AnswersTo(run.dispatcher, KindAt(run, r.index))
    BY <1>1, <1>5, <2>2
  <2>4. Genuine(r, run)
    BY <2>1, <2>2, <2>3 DEF Genuine
  <2> QED
    BY <2>2, <2>4, <1>4
<1>7. ASSUME NEW o \in outs PROVE GenuineOutput(o, run)
  <2>1. PICK r \in plan : o \in r.outputs
    OBVIOUS
  <2>2. PICK i \in indexes : r = ReceiptOf(run, i, answers[i])
    BY <2>1
  <2>3. i \in Nat /\ i < Total(run) /\ answers[i] \in AnswersTo(run.dispatcher, KindAt(run, i))
    <3>1. i \in Nat /\ i < Total(run)
      BY <1>2, <1>3
    <3>2. answers[i] \in AnswersTo(d, KindAt(run, i))
      BY <1>5
    <3> QED
      BY <1>1, <3>1, <3>2
  <2>4. o \in OutputsOf(i, answers[i])
    BY <2>1, <2>2 DEF ReceiptOf
  <2>5. o.index = i
    BY <2>4 DEF OutputsOf
  <2> QED
    BY <2>3, <2>4, <2>5 DEF GenuineOutput
<1>8. \A i \in indexes : \E r \in plan : r.index = i
  <2> SUFFICES ASSUME NEW i \in indexes PROVE \E r \in plan : r.index = i
    OBVIOUS
  <2>1. ReceiptOf(run, i, answers[i]) \in plan /\ ReceiptOf(run, i, answers[i]).index = i
    BY DEF ReceiptOf
  <2> QED
    BY <2>1
<1> HIDE DEF plan, outs, new, from
<1>9. IsStepCall(s)
  BY <1>2, <1>4 DEF IsStepCall
<1>10. Loaded(s, run)
  BY <1>1, <1>2, <1>4 DEF Loaded
<1>11. StepOK(s, run, receipts, outputs)
  <2>1. s.from = from /\ s.new = new /\ s.plan = plan /\ s.recs = plan /\ s.outs = outs
    OBVIOUS
  <2>2. s.from .. s.new.next_event_index - 1 = indexes
    <3> HIDE DEF s
    <3>1. s.new.next_event_index = from + Count(m)
      BY <1>4, <2>1
    <3>2. s.new.next_event_index - 1 = from + Count(m) - 1
      BY <1>2, <1>3, <3>1
    <3> QED
      BY <2>1, <3>2
  <2>3. \A i \in s.from .. s.new.next_event_index - 1 : \E r \in s.plan : r.index = i
    BY <1>8, <2>1, <2>2
  <2>4. s.from = run.next_event_index
    BY <2>1 DEF from
  <2> HIDE DEF s, indexes
  <2> QED
    BY <1>6, <1>7, <1>9, <1>10, <2>1, <2>3, <2>4 DEF StepOK
<1>12. CallOK(s, run, receipts, outputs)
  BY <1>11 DEF CallOK
<1>13. Starts(c, s)
  BY <1>5 DEF plan, outs
<1>14. UNCHANGED <<run, receipts, outputs, results>> /\ Counted'
  BY DEF StepRun, ReplayInv, Counted
<1> QED
  BY <1>12, <1>13, <1>14, CallStarts

\* Updates of the fields of a step under way.
LEMMA StepCallUpdates ==
    ASSUME NEW s, IsStepCall(s), NEW x
    PROVE  /\ [s EXCEPT !.checked = x] =
                [op |-> "step", expected |-> s.expected, new |-> s.new, from |-> s.from,
                 checked |-> x, plan |-> s.plan, outs |-> s.outs, recs |-> s.recs]
           /\ [s EXCEPT !.outs = x] =
                [op |-> "step", expected |-> s.expected, new |-> s.new, from |-> s.from,
                 checked |-> s.checked, plan |-> s.plan, outs |-> x, recs |-> s.recs]
           /\ [s EXCEPT !.recs = x] =
                [op |-> "step", expected |-> s.expected, new |-> s.new, from |-> s.from,
                 checked |-> s.checked, plan |-> s.plan, outs |-> s.outs, recs |-> x]
<1> DEFINE Call(e, n, f, k, p, o, q) ==
        [op |-> "step", expected |-> e, new |-> n, from |-> f, checked |-> k, plan |-> p,
         outs |-> o, recs |-> q]
<1>1. ASSUME NEW e, NEW n, NEW f, NEW k, NEW p, NEW o, NEW q
      PROVE  /\ [Call(e, n, f, k, p, o, q) EXCEPT !.checked = x] = Call(e, n, f, x, p, o, q)
             /\ [Call(e, n, f, k, p, o, q) EXCEPT !.outs = x] = Call(e, n, f, k, p, x, q)
             /\ [Call(e, n, f, k, p, o, q) EXCEPT !.recs = x] = Call(e, n, f, k, p, o, x)
  OBVIOUS
<1>2. s = Call(s.expected, s.new, s.from, s.checked, s.plan, s.outs, s.recs)
  BY DEF IsStepCall
<1> HIDE DEF Call
<1>3. /\ [s EXCEPT !.checked = x] = Call(s.expected, s.new, s.from, x, s.plan, s.outs, s.recs)
      /\ [s EXCEPT !.outs = x] = Call(s.expected, s.new, s.from, s.checked, s.plan, x, s.recs)
      /\ [s EXCEPT !.recs = x] = Call(s.expected, s.new, s.from, s.checked, s.plan, s.outs, x)
  BY <1>1, <1>2
<1> QED
  BY <1>3 DEF Call

LEMMA PreflightStep ==
    ASSUME ReplayInv, NEW c \in Callers, Preflight(c)
    PROVE  ReplayInv'
<1>1. UNCHANGED <<run, receipts, outputs, results>> /\ Counted'
  BY DEF Preflight, ReplayInv, Counted
<1>2. CASE \E r \in call[c].recs : Conflicts(r)
  BY <1>1, <1>2, CallEnds DEF Preflight
<1>3. CASE ~\E r \in call[c].recs : Conflicts(r)
  <2> DEFINE s == [call[c] EXCEPT !.checked = TRUE]
  <2>1. StepOK(call[c], run, receipts, outputs)
    BY CallByOp DEF Preflight, ReplayInv, CallsHold
  <2>2. /\ s = [op |-> "step", expected |-> call[c].expected, new |-> call[c].new,
                from |-> call[c].from, checked |-> TRUE, plan |-> call[c].plan,
                outs |-> call[c].outs, recs |-> call[c].recs]
    BY <2>1, StepCallUpdates DEF StepOK
  <2>3. IsStepCall(s) /\ s.expected = call[c].expected /\ s.new = call[c].new
        /\ s.from = call[c].from /\ s.plan = call[c].plan /\ s.outs = call[c].outs
        /\ s.recs = call[c].recs
    BY <2>1, <2>2 DEF StepOK, IsStepCall
  <2>4. call' = [call EXCEPT ![c] = s]
    BY <1>3 DEF Preflight
  <2> HIDE DEF s
  <2>5. CallOK(s, run, receipts, outputs)
    BY <2>1, <2>3 DEF StepOK, Loaded, CallOK
  <2>6. CallsHold'
    BY <1>1, <2>4, <2>5, OneCallMoves DEF ReplayInv
  <2> QED
    BY <1>1, <2>6, StoresUntouched
<1> QED
  BY <1>2, <1>3

\* Only a step has anything to save.
LEMMA SavingIsStep ==
    ASSUME ReplayInv, NEW c \in Callers, Writing(c),
           call[c].outs # {} \/ call[c].recs # {}
    PROVE  StepOK(call[c], run, receipts, outputs) /\ run # NoRun
<1>1. CallOK(call[c], run, receipts, outputs)
  BY DEF ReplayInv, CallsHold
<1>2. call[c].op \notin {"start", "pause", "resume"}
  BY <1>1, CallByOp DEF ChangeOK, ChangeCalls
<1>3. StepOK(call[c], run, receipts, outputs)
  BY <1>1, <1>2, CallByOp DEF Writing
<1> QED
  BY <1>3 DEF StepOK, Loaded

LEMMA SaveOutputStep ==
    ASSUME ReplayInv, NEW c \in Callers, SaveOutput(c)
    PROVE  ReplayInv'
<1>1. PICK o \in call[c].outs :
        /\ outputs' = outputs \cup {o}
        /\ call' = [call EXCEPT ![c].outs = @ \ {o}]
  BY DEF SaveOutput
<1>2. UNCHANGED <<run, receipts, results, pauses, deaths>>
  BY DEF SaveOutput
<1>3. StepOK(call[c], run, receipts, outputs) /\ run # NoRun
  BY <1>1, SavingIsStep DEF SaveOutput
<1> DEFINE left == call[c].outs \ {o}
           s == [call[c] EXCEPT !.outs = left]
<1>4. s = [op |-> "step", expected |-> call[c].expected, new |-> call[c].new,
           from |-> call[c].from, checked |-> call[c].checked, plan |-> call[c].plan,
           outs |-> left, recs |-> call[c].recs]
  BY <1>3, StepCallUpdates DEF StepOK
<1>5. call' = [call EXCEPT ![c] = s]
  BY <1>1
<1> HIDE DEF s
<1>6. IsStepCall(s) /\ s.expected = call[c].expected /\ s.new = call[c].new
      /\ s.from = call[c].from /\ s.plan = call[c].plan /\ s.outs = left
      /\ s.recs = call[c].recs
  BY <1>3, <1>4 DEF StepOK, IsStepCall
<1>7. StepOK(s, run, receipts, outputs')
  BY <1>1, <1>3, <1>6 DEF StepOK, Loaded
<1>8. CallsHold'
  BY <1>1, <1>2, <1>5, <1>7, OneCallMoves DEF ReplayInv, CallOK
<1>9. RunTyped' /\ StoredIsGenuine' /\ ResultsTyped' /\ Counted'
  <2>1. GenuineOutput(o, run)
    BY <1>1, <1>3 DEF StepOK
  <2> QED
    BY <1>1, <1>2, <1>3, <2>1
    DEF ReplayInv, RunTyped, StoredIsGenuine, ResultsTyped, Counted
<1>10. ProgressHasReceipts' /\ ReceiptsBacked' /\ ReportedOnce'
  BY <1>1, <1>2 DEF ReplayInv, ProgressHasReceipts, ReceiptsBacked, ReportedOnce
<1> QED
  BY <1>8, <1>9, <1>10 DEF ReplayInv

LEMMA SaveReceiptStep ==
    ASSUME ReplayInv, NEW c \in Callers, SaveReceipt(c)
    PROVE  ReplayInv'
<1>1. PICK r \in call[c].recs :
        IF Conflicts(r)
        THEN Ends(c) /\ receipts' = receipts
        ELSE /\ receipts' = receipts \cup {r}
             /\ call' = [call EXCEPT ![c].recs = @ \ {r}]
  BY DEF SaveReceipt
<1>2. UNCHANGED <<run, outputs, results, pauses, deaths>> /\ call[c].outs = {}
  BY DEF SaveReceipt, OutputsSaved
<1>3. StepOK(call[c], run, receipts, outputs) /\ run # NoRun
  BY <1>1, SavingIsStep DEF SaveReceipt
<1>4. CASE Conflicts(r)
  BY <1>1, <1>2, <1>4, CallEnds DEF ReplayInv, Counted
<1>5. CASE ~Conflicts(r)
  <2> DEFINE left == call[c].recs \ {r}
             s == [call[c] EXCEPT !.recs = left]
  <2>1. s = [op |-> "step", expected |-> call[c].expected, new |-> call[c].new,
             from |-> call[c].from, checked |-> call[c].checked, plan |-> call[c].plan,
             outs |-> call[c].outs, recs |-> left]
    BY <1>3, StepCallUpdates DEF StepOK
  <2>2. call' = [call EXCEPT ![c] = s] /\ receipts' = receipts \cup {r}
    BY <1>1, <1>5
  <2> HIDE DEF s
  <2>3. IsStepCall(s) /\ s.expected = call[c].expected /\ s.new = call[c].new
        /\ s.from = call[c].from /\ s.plan = call[c].plan /\ s.outs = call[c].outs
        /\ s.recs = left
    BY <1>3, <2>1 DEF StepOK, IsStepCall
  <2>4. StepOK(s, run, receipts', outputs)
    BY <1>1, <1>3, <2>2, <2>3 DEF StepOK, Loaded
  <2>5. CallsHold'
    BY <1>2, <2>2, <2>4, OneCallMoves DEF ReplayInv, CallOK
  <2>6. Genuine(r, run) /\ r.outputs \subseteq outputs
    BY <1>1, <1>2, <1>3 DEF StepOK
  <2>7. \A q \in receipts : q.index = r.index => q = r
    BY <1>5 DEF Conflicts
  <2>8. RunTyped' /\ StoredIsGenuine' /\ ResultsTyped' /\ Counted'
    BY <1>2, <1>3, <2>2, <2>6, <2>7
    DEF ReplayInv, RunTyped, StoredIsGenuine, ResultsTyped, Counted
  <2>9. ProgressHasReceipts'
    BY <1>2, <2>2, <2>7 DEF ReplayInv, ProgressHasReceipts
  <2>10. ReceiptsBacked' /\ ReportedOnce'
    BY <1>2, <2>2, <2>6 DEF ReplayInv, ReceiptsBacked, ReportedOnce
  <2> QED
    BY <2>5, <2>8, <2>9, <2>10 DEF ReplayInv
<1> QED
  BY <1>4, <1>5

LEMMA DieStep ==
    ASSUME ReplayInv, NEW c \in Callers, Die(c)
    PROVE  ReplayInv'
<1>1. Counted'
  BY ReplayAssumption DEF Die, ReplayInv, Counted, ReplayAssumption
<1> QED
  BY <1>1, CallEnds DEF Die

\* The run a call replaces is the one it was planned on.
LEMMA ReplacedRun ==
    ASSUME ReplayInv, NEW c \in Callers, Written(c),
           Replaces(call[c].expected, call[c].new)
    PROVE  /\ run # NoRun /\ RunState(run) /\ RunState(call[c].new)
           /\ call[c].new.binding = run.binding /\ call[c].new.dispatcher = run.dispatcher
           /\ call[c].new.revision = run.revision + 1
           /\ call[c].new.next_event_index >= run.next_event_index
           /\ IF call[c].op = "step"
              THEN StepOK(call[c], run, receipts, outputs)
                   /\ call[c].from = run.next_event_index
              ELSE call[c].new.next_event_index = run.next_event_index
<1>1. CallOK(call[c], run, receipts, outputs)
  BY DEF ReplayInv, CallsHold
<1>2. ChangeOK(call[c], run) \/ (call[c].op = "step" /\ StepOK(call[c], run, receipts, outputs))
  BY <1>1, CallByOp DEF Written, Writing
<1>3. run # NoRun /\ RunState(call[c].new) /\ RunState(run)
  BY <1>2 DEF ChangeOK, StepOK, IsStepCall, Loaded, ReplayInv, RunTyped
<1>4. /\ call[c].new.binding = run.binding /\ call[c].new.dispatcher = run.dispatcher
      /\ call[c].new.revision = run.revision + 1
  BY DEF Replaces, ValidTransition
<1>5. call[c].new.next_event_index >= run.next_event_index
  BY <1>3 DEF Replaces, ValidTransition, StatusTransition, RunState, RunStates
<1>6. CASE ChangeOK(call[c], run)
  <2>1. call[c].op # "step"
    BY <1>6 DEF ChangeOK, ChangeCalls
  <2>2. call[c].new.next_event_index = run.next_event_index
    BY <1>6 DEF ChangeOK, Replaces
  <2> QED
    BY <1>3, <1>4, <1>5, <2>1, <2>2
<1>7. CASE call[c].op = "step" /\ StepOK(call[c], run, receipts, outputs)
  <2>1. call[c].from = run.next_event_index
    BY <1>7 DEF StepOK, Replaces
  <2> QED
    BY <1>3, <1>4, <1>5, <1>7, <2>1
<1> QED
  BY <1>2, <1>6, <1>7

LEMMA ReplaceStep ==
    ASSUME ReplayInv, NEW c \in Callers, Replace(c)
    PROVE  ReplayInv'
<1>1. Ends(c) /\ UNCHANGED <<receipts, outputs, pauses, deaths>> /\ Counted'
  BY DEF Replace, ReplayInv, Counted
<1>2. CASE ~Replaces(call[c].expected, call[c].new)
  BY <1>1, <1>2, CallEnds DEF Replace
<1>3. CASE Replaces(call[c].expected, call[c].new)
  <2> DEFINE new == call[c].new
  <2>1. /\ run # NoRun /\ RunState(run) /\ RunState(new)
        /\ new.binding = run.binding /\ new.dispatcher = run.dispatcher
        /\ new.revision = run.revision + 1
        /\ new.next_event_index >= run.next_event_index
    BY <1>3, ReplacedRun DEF Replace
  <2>2. run' = new
    BY <1>3 DEF Replace
  <2>3. /\ run.next_event_index \in Nat /\ new.next_event_index \in Nat
        /\ new # NoRun
    BY <2>1 DEF RunState, RunStates, NoRun, Statuses
  <2> HIDE DEF new
  <2>4. CallsHold'
    BY <1>1, <2>1, <2>2, OneCallMoves DEF Ends, CallOK, ReplayInv
  <2>5. StoredIsGenuine' /\ ReceiptsBacked'
    <3>1. \A r : Genuine(r, run) => Genuine(r, new)
      BY <2>1 DEF Genuine, Total, KindAt, ReceiptOf
    <3>2. \A o : GenuineOutput(o, run) => GenuineOutput(o, new)
      BY <2>1 DEF GenuineOutput, Total, KindAt
    <3> QED
      BY <1>1, <2>2, <2>3, <3>1, <3>2 DEF ReplayInv, StoredIsGenuine, ReceiptsBacked
  <2>6. CASE call[c].op # "step"
    <3>1. results' = results /\ new.next_event_index = run.next_event_index
      BY <1>3, <2>6, ReplacedRun DEF Replace, new
    <3>2. ProgressHasReceipts'
      BY <1>1, <2>1, <2>2, <3>1 DEF ReplayInv, ProgressHasReceipts
    <3>3. ReportedOnce' /\ ResultsTyped'
      BY <1>1, <2>2, <3>1 DEF ReplayInv, ReportedOnce, ResultsTyped
    <3> QED
      BY <1>1, <2>1, <2>2, <2>4, <2>5, <3>2, <3>3 DEF ReplayInv, RunTyped
  <2>7. CASE call[c].op = "step"
    <3> DEFINE done == StepResult(c)
    <3>1. /\ StepOK(call[c], run, receipts, outputs)
          /\ call[c].from = run.next_event_index
          /\ call[c].recs = {}
          /\ results' = results \cup {done}
      BY <1>3, <2>7, ReplacedRun DEF Replace, Written
    <3>2. done.from = run.next_event_index /\ done.to = new.next_event_index
          /\ done.receipts = call[c].plan
      BY <3>1 DEF StepResult, new
    <3>3. call[c].plan \subseteq receipts
      BY <3>1 DEF StepOK
    <3>4. ASSUME NEW i \in run.next_event_index .. new.next_event_index - 1
          PROVE  \E r \in receipts : r.index = i /\ Genuine(r, run)
      BY <3>1, <3>3 DEF StepOK, new
    <3>5. ProgressHasReceipts'
      <4> SUFFICES ASSUME NEW i \in 0 .. new.next_event_index - 1
                   PROVE  \E r \in receipts :
                            /\ r.index = i /\ r.binding = new.binding
                            /\ r.dispatcher = new.dispatcher
                            /\ \A q \in receipts : q.index = i => q = r
        BY <1>1, <2>2 DEF ProgressHasReceipts
      <4>1. CASE i \in 0 .. run.next_event_index - 1
        BY <2>1, <4>1 DEF ReplayInv, ProgressHasReceipts
      <4>2. CASE i \in run.next_event_index .. new.next_event_index - 1
        <5>1. PICK r \in receipts : r.index = i /\ Genuine(r, run)
          BY <3>4, <4>2
        <5>2. r.binding = run.binding /\ r.dispatcher = run.dispatcher
          BY <5>1 DEF Genuine, ReceiptOf
        <5> QED
          BY <2>1, <5>1, <5>2 DEF ReplayInv, StoredIsGenuine
      <4> QED
        BY <2>3, <4>1, <4>2
    <3> HIDE DEF done
    <3>6. ResultsTyped'
      BY <2>3, <3>1, <3>2 DEF ReplayInv, ResultsTyped
    <3>7. ReportedOnce'
      <4>1. \A s \in results : s.from \in Nat /\ s.to \in Nat /\ s.to <= run.next_event_index
        BY DEF ReplayInv, ReportedOnce, ResultsTyped
      <4>2. ASSUME NEW s \in results
            PROVE  /\ s.to <= new.next_event_index /\ s.receipts \subseteq receipts
                   /\ s.to <= done.from
                   /\ \A t \in results : s = t \/ s.to <= t.from \/ t.to <= s.from
        BY <2>1, <2>3, <3>2, <4>1 DEF ReplayInv, ReportedOnce
      <4>3. done.to <= new.next_event_index /\ done.receipts \subseteq receipts
        BY <2>3, <3>2, <3>3
      <4> QED
        BY <1>1, <2>2, <3>1, <4>2, <4>3 DEF ReportedOnce
    <3> QED
      BY <1>1, <2>1, <2>2, <2>4, <2>5, <3>5, <3>6, <3>7 DEF ReplayInv, RunTyped
  <2> QED
    BY <2>6, <2>7
<1> QED
  BY <1>2, <1>3

-----------------------------------------------------------------------------
(* The theorems.                                                            *)

LEMMA InvInit == Init => ReplayInv
<1> SUFFICES ASSUME Init PROVE ReplayInv
  OBVIOUS
<1>1. RunTyped /\ StoredIsGenuine /\ ResultsTyped
  BY DEF Init, RunTyped, StoredIsGenuine, ResultsTyped
<1>2. CallsHold
  BY DEF Init, CallsHold, CallOK
<1>3. Counted
  BY ReplayAssumption DEF Init, Counted, ReplayAssumption
<1>4. ProgressHasReceipts /\ ReceiptsBacked /\ ReportedOnce
  BY DEF Init, ProgressHasReceipts, ReceiptsBacked, ReportedOnce
<1> QED
  BY <1>1, <1>2, <1>3, <1>4 DEF ReplayInv

LEMMA InvNext == ReplayInv /\ [Next]_vars => ReplayInv'
<1> SUFFICES ASSUME ReplayInv, [Next]_vars PROVE ReplayInv'
  OBVIOUS
<1>1. CASE UNCHANGED vars
  <2>1. CallsHold' /\ Counted'
    BY <1>1 DEF vars, ReplayInv, CallsHold, Counted
  <2> QED
    BY <1>1, <2>1, StoresUntouched DEF vars
<1>2. ASSUME NEW c \in Callers, NEW d \in Dispatchers, NEW now \in Times,
             \/ \E b \in Bindings : CreateRun(c, b, d, now)
             \/ StartRun(c, d, now) \/ PauseRun(c, d, now) \/ ResumeRun(c, d, now)
             \/ \E m \in 1 .. MaxEvents : StepRun(c, d, now, m)
      PROVE  ReplayInv'
  BY <1>2, CreateRunStep, StatusChangeSteps, StepRunStep
<1>3. ASSUME NEW c \in Callers,
             \/ StoreCreate(c) \/ Preflight(c) \/ SaveOutput(c) \/ SaveReceipt(c)
             \/ Replace(c) \/ Die(c)
      PROVE  ReplayInv'
  BY <1>3, StoreCreateStep, PreflightStep, SaveOutputStep, SaveReceiptStep, ReplaceStep, DieStep
<1> QED
  BY <1>1, <1>2, <1>3 DEF Next

\* The inductive invariant of the replay stores: whatever a call still has to
\* write was planned on a state of this very run, so neither a race for the
\* revision nor a death between two writes of step_run disturbs it.
THEOREM ReplayInductive == Spec => []ReplayInv
BY InvInit, InvNext, PTL DEF Spec

\* The run state, the receipts and outputs and every call under way have their
\* types at every point between the awaits of the runtime.
THEOREM TypeCorrect == Spec => []TypeOK
<1>1. ReplayInv => TypeOK
  <2> SUFFICES ASSUME ReplayInv PROVE TypeOK
    OBVIOUS
  <2>1. run # NoRun => IsRunState(run)
    <3>1. run # NoRun => RunState(run) /\ Total(run) \in Nat
      BY TotalIsNat DEF ReplayInv, RunTyped, RunState, RunStates
    <3> QED
      BY <3>1 DEF RunState, RunStates, IsRunState, Total
  <2>2. ASSUME NEW r \in receipts
        PROVE  r.binding \in Bindings /\ r.dispatcher \in Dispatchers /\ r.index < Total(r)
    <3>1. Genuine(r, run) /\ run # NoRun
      BY DEF ReplayInv, StoredIsGenuine
    <3>2. RunState(run)
      BY <3>1 DEF ReplayInv, RunTyped
    <3>3. r.binding = run.binding /\ r.dispatcher = run.dispatcher
      BY <3>1 DEF Genuine, ReceiptOf
    <3> QED
      BY <3>1, <3>2, <3>3 DEF Genuine, RunState, RunStates, Total
  <2>3. ASSUME NEW o \in outputs PROVE o.handler \in Handlers
    <3>1. GenuineOutput(o, run) /\ run # NoRun
      BY DEF ReplayInv, StoredIsGenuine
    <3>2. run.dispatcher \in Dispatchers
      BY <3>1 DEF ReplayInv, RunTyped, RunState, RunStates
    <3>3. PICK a \in AnswersTo(run.dispatcher, KindAt(run, o.index)) : o \in OutputsOf(o.index, a)
      BY <3>1 DEF GenuineOutput
    <3>4. o.handler \in DOMAIN a
      BY <3>3 DEF OutputsOf
    <3>5. DOMAIN a \subseteq run.dispatcher
      BY <3>3 DEF AnswersTo, Selected
    <3> QED
      BY <3>2, <3>4, <3>5, ReplayAssumption DEF ReplayAssumption
  <2>4. \A c \in Callers :
            call[c].op \in {"none", "create", "start", "step", "pause", "resume"}
    BY CallByOp DEF ReplayInv, CallsHold
  <2> QED
    BY <2>1, <2>2, <2>3, <2>4 DEF ReplayInv, Counted, TypeOK
<1> QED
  BY <1>1, ReplayInductive, PTL

\* The run moves past an event only with its one receipt stored, although
\* step_run writes receipts and the run state in separate steps.
THEOREM Progress == Spec => []ProgressHasReceipts
<1>1. ReplayInv => ProgressHasReceipts
  BY DEF ReplayInv
<1> QED
  BY <1>1, ReplayInductive, PTL

\* Every output a stored receipt names is stored: step_run saves outputs first.
THEOREM Backing == Spec => []ReceiptsBacked
<1>1. ReplayInv => ReceiptsBacked
  BY DEF ReplayInv
<1> QED
  BY <1>1, ReplayInductive, PTL

\* No two step results of step_run report the same event, and what is reported
\* is stored: the revision check of replace lets one of the racing calls through.
THEOREM Reported == Spec => []ReportedOnce
<1>1. ReplayInv => ReportedOnce
  BY DEF ReplayInv
<1> QED
  BY <1>1, ReplayInductive, PTL

\* Handlers that are deterministic have one way to answer an event.
LEMMA OneAnswer ==
    ASSUME NEW s, NEW i, Deterministic(s, i),
           NEW a \in AnswersTo(s.dispatcher, KindAt(s, i)),
           NEW b \in AnswersTo(s.dispatcher, KindAt(s, i))
    PROVE  a = b
<1> DEFINE sel == Selected(s.dispatcher, KindAt(s, i))
<1>1. a = [h \in sel |-> a[h]] /\ b = [h \in sel |-> b[h]]
  BY DEF AnswersTo
<1>2. ASSUME NEW h \in sel PROVE a[h] = b[h]
  BY DEF AnswersTo, Deterministic
<1> QED
  BY <1>1, <1>2

\* With deterministic handlers the stored outputs of an event are exactly those
\* of its receipt: retries and lost races of step_run leave nothing else behind.
THEOREM Matching == Spec => []OutputsMatchReceipts
<1>1. ReplayInv => OutputsMatchReceipts
  <2> SUFFICES ASSUME ReplayInv, NEW r \in receipts, Deterministic(r, r.index)
               PROVE  r.outputs = {o \in outputs : o.index = r.index}
    BY DEF OutputsMatchReceipts
  <2>1. Genuine(r, run)
    BY DEF ReplayInv, StoredIsGenuine
  <2>2. PICK a \in AnswersTo(run.dispatcher, KindAt(run, r.index)) : r = ReceiptOf(run, r.index, a)
    BY <2>1 DEF Genuine
  <2>3. r.outputs = OutputsOf(r.index, a) /\ r.binding = run.binding /\ r.dispatcher = run.dispatcher
    BY <2>2 DEF ReceiptOf
  <2>4. Deterministic(run, r.index)
    BY <2>3 DEF Deterministic, KindAt
  <2>5. ASSUME NEW o \in r.outputs PROVE o \in outputs /\ o.index = r.index
    BY <2>3 DEF ReplayInv, ReceiptsBacked, OutputsOf
  <2>6. ASSUME NEW o \in outputs, o.index = r.index PROVE o \in r.outputs
    <3>1. PICK b \in AnswersTo(run.dispatcher, KindAt(run, r.index)) : o \in OutputsOf(r.index, b)
      BY <2>6 DEF ReplayInv, StoredIsGenuine, GenuineOutput
    <3>2. a = b
      BY <2>4, OneAnswer
    <3> QED
      BY <2>3, <3>1, <3>2
  <2> QED
    BY <2>5, <2>6
<1> QED
  BY <1>1, ReplayInductive, PTL
=============================================================================

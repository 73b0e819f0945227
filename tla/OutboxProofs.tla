---------------------------- MODULE OutboxProofs ----------------------------
(***************************************************************************)
(* Proofs about Outbox, for any number of events, aggregates and stoppers, *)
(* any LIMIT, any number of faults and crashes, and events numbered in any *)
(* way.  What an INSERT into domain_events that fails without a duplicate  *)
(* or texts that sort badly would break is proved from hypotheses that     *)
(* rule exactly that out; everything else is proved without any.           *)
(***************************************************************************)
EXTENDS Outbox, EventTableProofs, FiniteSetTheorems

-----------------------------------------------------------------------------
\* The inductive invariant that needs no hypothesis.

\* A Drain works on pending rows, only while it holds the mutex, and the
\* pump's own Drain only where run calls it.
Frame ==
    /\ mu = "free" => batch = {} /\ cur = NoEvent
    /\ mu = "pump" => pump \in {"startup", "tick", "final"}
    /\ cur # NoEvent => cur \in batch
    /\ batch \subseteq Pending

\* Rows of event_outbox belong to accepted events and have distinct stamps
\* that lie in the past.
Staged ==
    /\ \A e \in Events : at[e] > 0 => stage[e] = "accepted"
    /\ \A e \in Events : at[e] <= now
    /\ \A e, f \in Events : at[e] > 0 /\ at[e] = at[f] => e = f
    /\ \A e \in processed : at[e] > 0

\* Rows of domain_events are those of accepted events.
Rows ==
    \A r \in domain : r.id \in Events /\ r = EventRow(r.id)
                      /\ stage[r.id] = "accepted"

\* There is a bound on the numbers in use (NextSequence is a MAX).
Bounded == \E b \in Nat : \A r \in domain : r.seq <= b

\* The table is finite, so that versions are numbers.
Finite == IsFiniteSet(domain)

BInv == TypeOK /\ Frame /\ Staged /\ Rows /\ Bounded /\ Finite

-----------------------------------------------------------------------------
\* Further invariants, each with the hypotheses it needs.

\* Every Stop that has returned has seen the pump done.
Quiet == \A s \in Stoppers : stopper[s] = "returned" => pump = "done"

\* The running Drain took the pending rows staged first, and is at the
\* first of them.
Prefix ==
    /\ \A e \in batch, f \in Pending \ batch : at[e] <= at[f]
    /\ cur # NoEvent => \A f \in batch : at[cur] <= at[f]

\* A row about to be marked has its place in its aggregate's history filled.
CurFilled == cur # NoEvent => seq[cur] \in SeqsOf(Agg[cur], domain)

\* When an event is recorded, the rows staged before it are retired.
RecordedInOrder ==
    \A e, f \in Events :
        0 < at[e] /\ at[e] < at[f] /\ f \in Recorded => e \in processed

\* The event of a row about to be marked is recorded, or an earlier one
\* holds its place.
CurAnswered == cur # NoEvent => cur \in Recorded \/ Superseded(cur)

-----------------------------------------------------------------------------
\* Initial states and the steps of the use cases.

LEMMA InitBInv == Init => BInv
<1> SUFFICES ASSUME Init PROVE BInv
  OBVIOUS
<1>1. TypeOK
  <2>1. 0 \in 0 .. MaxInstant
    BY RankAssumption
  <2>2. /\ at \in [Events -> 0 .. MaxInstant] /\ now \in 0 .. MaxInstant
        /\ seq \in [Events -> Nat]
        /\ stage \in [Events -> {"new", "ready", "accepted", "rejected"}]
        /\ stopper \in [Stoppers -> {"idle", "waiting", "returned"}]
        /\ version \in [Copies -> Nat]
    BY <2>1 DEF Init
  <2> QED BY <2>2 DEF Init, TypeOK
<1>2. Frame /\ Staged /\ Rows
  BY DEF Init, Frame, Staged, Rows, Pending
<1>3. Bounded /\ Finite
  BY FS_EmptySet DEF Init, Bounded, Finite
<1> QED BY <1>1, <1>2, <1>3 DEF BInv

\* The version of an aggregate that is loaded now is a number.
LEMMA LoadedIsNat ==
    ASSUME Finite, NEW c \in Copies
    PROVE  Loaded(c) \in Nat
<1>1. RowsOf(CopyOf[c], domain) \subseteq domain
  BY DEF RowsOf
<1> QED BY <1>1, FS_Subset, FS_CardinalityType DEF Finite, Loaded

LEMMA LoadBInv ==
    ASSUME BInv, NEW c \in Copies, Load(c)
    PROVE  BInv'
<1> USE DEF Load, disk, drain, stopping
<1>1. Loaded(c) \in Nat
  BY LoadedIsNat DEF BInv
<1>2. TypeOK'
  BY <1>1 DEF BInv, TypeOK
<1>3. Frame' /\ Staged' /\ Rows' /\ Bounded' /\ Finite'
  BY DEF BInv, Frame, Pending, Staged, Rows, EventRow, Bounded, Finite
<1> QED BY <1>2, <1>3 DEF BInv

LEMMA SequenceBInv ==
    ASSUME BInv, NEW e \in Events, Sequence(e)
    PROVE  BInv'
<1> USE DEF Sequence, disk, drain, stopping
<1>1. NextSequence(Agg[e], domain) \in Nat
  <2>1. PICK b \in Nat : \A r \in domain : r.seq <= b
    BY DEF BInv, Bounded
  <2> QED BY <2>1, NextIsNat DEF BInv, TypeOK
<1>2. \E n \in Nat : seq' = [seq EXCEPT ![e] = n]
  BY <1>1 DEF ByStore, ByVersion, BInv, TypeOK
<1>3. version' \in [Copies -> Nat]
  BY DEF ByStore, ByVersion, BInv, TypeOK
<1>4. TypeOK'
  BY <1>2, <1>3 DEF BInv, TypeOK
<1>5. Frame' /\ Bounded' /\ Finite'
  BY DEF BInv, Frame, Pending, Bounded, Finite
<1>6. Staged'
  BY DEF BInv, TypeOK, Staged
<1>7. Rows'
  <2> SUFFICES ASSUME NEW r \in domain
               PROVE  r.id \in Events /\ r = Row(r.id, Agg[r.id], seq'[r.id])
                      /\ stage'[r.id] = "accepted"
    BY DEF Rows, EventRow
  <2>1. r.id # e
    BY DEF BInv, Rows
  <2> QED BY <1>2, <2>1 DEF BInv, TypeOK, Rows, EventRow
<1> QED BY <1>4, <1>5, <1>6, <1>7 DEF BInv

LEMMA AppendToOutboxBInv ==
    ASSUME BInv, NEW e \in Events, AppendToOutbox(e)
    PROVE  BInv'
<1> USE DEF AppendToOutbox, Stage, drain, stopping
<1>1. TypeOK'
  BY RankAssumption DEF BInv, TypeOK
<1>2. Frame'
  BY DEF BInv, TypeOK, Frame, Pending
<1>3. Staged'
  BY RankAssumption DEF BInv, TypeOK, Staged
<1>4. Rows'
  BY DEF BInv, TypeOK, Rows, EventRow
<1>5. Bounded' /\ Finite'
  BY DEF BInv, Bounded, Finite
<1> QED BY <1>1, <1>2, <1>3, <1>4, <1>5 DEF BInv

\* Adding the row of an accepted event keeps the table in order.
LEMMA RecordRows ==
    ASSUME BInv, NEW e \in Events, domain' = domain \cup {EventRow(e)},
           seq' = seq, \A f \in Events : stage[f] = "accepted" => stage'[f] = "accepted",
           stage'[e] = "accepted"
    PROVE  /\ Rows' /\ Bounded' /\ Finite'
           /\ domain' \subseteq [id : Events, agg : Aggregates, seq : Nat]
<1>1. EventRow(e).id = e /\ EventRow(e).seq = seq[e] /\ seq[e] \in Nat
      /\ EventRow(e) \in [id : Events, agg : Aggregates, seq : Nat]
  BY EventAssumption DEF BInv, TypeOK, EventRow, Row
<1>2. \A f : EventRow(f)' = EventRow(f)
  BY DEF EventRow
<1>3. Rows'
  BY <1>1, <1>2 DEF BInv, Rows
<1>4. Bounded'
  <2>1. PICK b \in Nat : \A r \in domain : r.seq <= b
    BY DEF BInv, Bounded
  <2>2. PICK c \in Nat : c >= b /\ c >= seq[e]
    BY <1>1, <2>1
  <2>3. \A r \in domain' : r.seq <= c
    BY <1>1, <2>1, <2>2 DEF BInv, TypeOK
  <2> QED BY <2>3 DEF Bounded
<1>5. Finite'
  BY FS_AddElement DEF BInv, Finite
<1> QED BY <1>1, <1>3, <1>4, <1>5 DEF BInv, TypeOK

LEMMA AppendDirectBInv ==
    ASSUME BInv, NEW e \in Events, AppendDirect(e)
    PROVE  BInv'
<1> USE DEF AppendDirect, drain, stopping
<1>1. stage'[e] = "accepted"
      /\ \A f \in Events : stage[f] = "accepted" => stage'[f] = "accepted"
  BY DEF BInv, TypeOK
<1>2. /\ Rows' /\ Bounded' /\ Finite'
      /\ domain' \subseteq [id : Events, agg : Aggregates, seq : Nat]
  BY <1>1, RecordRows
<1>3. TypeOK'
  BY <1>2 DEF BInv, TypeOK
<1>4. Frame' /\ Staged'
  BY <1>1 DEF BInv, Frame, Pending, Staged
<1> QED BY <1>2, <1>3, <1>4 DEF BInv

LEMMA RejectBInv ==
    ASSUME BInv, NEW e \in Events, Reject(e)
    PROVE  BInv'
<1> USE DEF Reject, disk, drain, stopping
<1>1. faults' \in Nat
  BY DEF BInv, TypeOK, Fault
<1>2. TypeOK'
  BY <1>1 DEF BInv, TypeOK
<1>3. Frame' /\ Bounded' /\ Finite'
  BY DEF BInv, Frame, Pending, Bounded, Finite
<1>4. Staged'
  BY DEF BInv, TypeOK, Staged
<1>5. Rows'
  BY DEF BInv, TypeOK, Rows, EventRow
<1> QED BY <1>2, <1>3, <1>4, <1>5 DEF BInv

-----------------------------------------------------------------------------
\* The steps of Drain.

LEMMA DrainBeginBInv ==
    ASSUME BInv, NEW p \in Drainers, DrainBegin(p)
    PROVE  BInv'
<1> USE DEF DrainBegin, disk, callers, stopping
<1>1. PICK rows \in SUBSET Pending : batch' = rows
  OBVIOUS
<1>2. direct' \in Nat
  BY DEF BInv, TypeOK, Calls
<1>3. TypeOK'
  BY <1>1, <1>2 DEF BInv, TypeOK, Pending
<1>4. Frame'
  BY <1>1 DEF BInv, Frame, Pending, Calls, Drainers
<1>5. Staged' /\ Rows' /\ Bounded' /\ Finite'
  BY DEF BInv, Staged, Rows, EventRow, Bounded, Finite
<1> QED BY <1>3, <1>4, <1>5 DEF BInv

LEMMA DrainQueryFailsBInv ==
    ASSUME BInv, NEW p \in Drainers, DrainQueryFails(p)
    PROVE  BInv'
<1> USE DEF DrainQueryFails, QueryFails, disk, callers, drain, stopping
<1>1. direct' \in Nat /\ faults' \in Nat
      /\ pump' \in {"startup", "select", "tick", "final", "done"}
  BY DEF BInv, TypeOK, Calls, Fault, AfterDrain
<1>2. TypeOK'
  BY <1>1 DEF BInv, TypeOK
<1>3. Frame' /\ Staged' /\ Rows' /\ Bounded' /\ Finite'
  BY DEF BInv, Frame, Pending, Staged, Rows, EventRow, Bounded, Finite
<1> QED BY <1>2, <1>3 DEF BInv

LEMMA DrainRecordBInv ==
    ASSUME BInv, NEW e \in Events, DrainRecord(e)
    PROVE  BInv'
<1> USE DEF DrainRecord, callers, stopping
<1>1. e \in batch /\ stage[e] = "accepted"
  BY DEF BInv, Frame, Staged, Pending, Front
<1>2. /\ Rows' /\ Bounded' /\ Finite'
      /\ domain' \subseteq [id : Events, agg : Aggregates, seq : Nat]
  BY <1>1, RecordRows
<1>3. TypeOK'
  BY <1>2 DEF BInv, TypeOK
<1>4. Frame' /\ Staged'
  BY <1>1 DEF BInv, Frame, Pending, Staged, Drainers
<1> QED BY <1>2, <1>3, <1>4 DEF BInv

LEMMA DrainRecordFailsBInv ==
    ASSUME BInv, NEW e \in Events, DrainRecordFails(e)
    PROVE  BInv'
<1> USE DEF DrainRecordFails, disk, callers, stopping
<1>1. faults' \in Nat /\ e \in batch
  BY DEF BInv, TypeOK, Fault, Front
<1>2. TypeOK'
  BY <1>1 DEF BInv, TypeOK
<1>3. Frame'
  BY <1>1 DEF BInv, Frame, Pending, Drainers
<1>4. Staged' /\ Rows' /\ Bounded' /\ Finite'
  BY DEF BInv, Staged, Rows, EventRow, Bounded, Finite
<1> QED BY <1>2, <1>3, <1>4 DEF BInv

LEMMA DrainMarkBInv ==
    ASSUME BInv, DrainMark
    PROVE  BInv'
<1> USE DEF DrainMark, MarkRows, callers, stopping
<1>1. cur \in Events /\ cur \in batch /\ at[cur] > 0
  BY EventAssumption DEF BInv, Frame, Pending
<1>2. TypeOK'
  BY <1>1 DEF BInv, TypeOK
<1>3. Frame'
  BY <1>1 DEF BInv, Frame, Pending, Drainers
<1>4. Staged' /\ Rows' /\ Bounded' /\ Finite'
  BY <1>1 DEF BInv, Staged, Rows, EventRow, Bounded, Finite
<1> QED BY <1>2, <1>3, <1>4 DEF BInv

LEMMA DrainReturnBInv ==
    ASSUME BInv, mu \in Drainers, DrainReturn, faults' \in Nat
    PROVE  BInv'
<1> USE DEF DrainReturn, disk, callers, stopping
<1>1. TypeOK'
  BY DEF BInv, TypeOK, AfterDrain
<1>2. Frame' /\ Staged' /\ Rows' /\ Bounded' /\ Finite'
  BY DEF BInv, Frame, Pending, Staged, Rows, EventRow, Bounded, Finite
<1> QED BY <1>1, <1>2 DEF BInv

\* The three ways a Drain with the mutex returns.
DrainReturns == DrainMarkFails \/ DrainEnd \/ DrainCancelled

LEMMA DrainReturnsBInv ==
    ASSUME BInv, DrainReturns
    PROVE  BInv' /\ DrainReturn /\ mu \in Drainers
<1>1. DrainReturn /\ mu \in Drainers /\ faults' \in Nat
  BY DEF DrainReturns, DrainMarkFails, DrainEnd, DrainCancelled, Fault, BInv,
         TypeOK, Drainers
<1> QED BY <1>1, DrainReturnBInv

-----------------------------------------------------------------------------
\* The steps of run, Stop, crashes.

LEMMA PumpBInv ==
    ASSUME BInv, PumpTick \/ PumpStops
    PROVE  BInv'
<1> USE DEF PumpTick, PumpStops, LeaveSelect, disk, callers, drain, stopping
<1>1. TypeOK'
  BY DEF BInv, TypeOK
<1>2. Frame' /\ Staged' /\ Rows' /\ Bounded' /\ Finite'
  BY DEF BInv, Frame, Pending, Staged, Rows, EventRow, Bounded, Finite
<1> QED BY <1>1, <1>2 DEF BInv

LEMMA StopBInv ==
    ASSUME BInv, NEW s \in Stoppers, StopCall(s) \/ StopReturn(s)
    PROVE  BInv'
<1> USE DEF StopCall, StopReturn, disk, callers, drain
<1>1. TypeOK'
  BY DEF BInv, TypeOK, Pending
<1>2. Frame' /\ Staged' /\ Rows' /\ Bounded' /\ Finite'
  BY DEF BInv, Frame, Pending, Staged, Rows, EventRow, Bounded, Finite
<1> QED BY <1>1, <1>2 DEF BInv

LEMMA RestartBInv ==
    ASSUME BInv, Restart
    PROVE  BInv'
<1> USE DEF Restart, RestartAt, disk
<1>1. TypeOK'
  <2>1. stage' \in [Events -> {"new", "ready", "accepted", "rejected"}]
    BY DEF BInv, TypeOK
  <2>2. stopper' \in [Stoppers -> {"idle", "waiting", "returned"}]
    OBVIOUS
  <2>3. owed' \subseteq Events /\ restarts' \in Nat
    BY DEF BInv, TypeOK, Pending
  <2>4. version' \in [Copies -> Nat]
    BY LoadedIsNat DEF BInv
  <2> QED BY <2>1, <2>2, <2>3, <2>4 DEF BInv, TypeOK
<1>2. Frame' /\ Bounded' /\ Finite'
  BY DEF BInv, Frame, Bounded, Finite
<1>3. \A e \in Events : stage[e] = "accepted" => stage'[e] = "accepted"
  OBVIOUS
<1>4. Staged' /\ Rows'
  BY <1>3 DEF BInv, TypeOK, Staged, Rows, EventRow
<1> QED BY <1>1, <1>2, <1>4 DEF BInv

LEMMA StutterBInv ==
    ASSUME BInv, UNCHANGED vars
    PROVE  BInv'
<1> USE DEF vars, disk, callers, drain, stopping
<1>1. TypeOK'
  BY DEF BInv, TypeOK
<1>2. Frame' /\ Staged' /\ Rows' /\ Bounded' /\ Finite'
  BY DEF BInv, Frame, Pending, Staged, Rows, EventRow, Bounded, Finite
<1> QED BY <1>1, <1>2 DEF BInv

\* One step, action by action.
LEMMA StepBInv == BInv /\ [Next]_vars => BInv'
BY LoadBInv, SequenceBInv, AppendToOutboxBInv, AppendDirectBInv, RejectBInv,
   DrainBeginBInv, DrainQueryFailsBInv, DrainRecordBInv, DrainRecordFailsBInv,
   DrainMarkBInv, DrainReturnsBInv, PumpBInv, StopBInv, RestartBInv, StutterBInv
   DEF Next, DrainStep, DrainReturns

THEOREM BaseInvariant == Spec => []BInv
BY InitBInv, StepBInv, PTL DEF Spec

-----------------------------------------------------------------------------
\* Stop.

LEMMA InitQuiet == Init => Quiet
BY DEF Init, Quiet

LEMMA StepQuiet == BInv /\ Quiet /\ [Next]_vars => Quiet'
<1> SUFFICES ASSUME BInv, Quiet, [Next]_vars PROVE Quiet'
  OBVIOUS
<1>1. CASE UNCHANGED <<pump, stopper>>
  BY <1>1 DEF Quiet
<1>2. CASE \E p \in Drainers : DrainQueryFails(p)
  BY <1>2 DEF DrainQueryFails, QueryFails, Calls, stopping, Quiet, Drainers
<1>3. CASE DrainReturns
  <2>1. DrainReturn /\ mu \in Drainers
    BY <1>3, DrainReturnsBInv
  <2>2. mu = "pump" => pump # "done"
    BY DEF BInv, Frame
  <2> QED BY <2>1, <2>2 DEF DrainReturn, stopping, Quiet
<1>4. CASE PumpTick \/ PumpStops
  BY <1>4 DEF PumpTick, PumpStops, LeaveSelect, stopping, Quiet
<1>5. CASE \E s \in Stoppers : StopCall(s)
  BY <1>5 DEF StopCall, Quiet, BInv, TypeOK
<1>6. CASE \E s \in Stoppers : StopReturn(s)
  BY <1>6 DEF StopReturn, Quiet, BInv, TypeOK
<1>7. CASE Restart
  BY <1>7 DEF Restart, RestartAt, Quiet
<1> QED
  BY <1>1, <1>2, <1>3, <1>4, <1>5, <1>6, <1>7 DEF Next, DrainStep, DrainReturns,
     vars, stopping, Load, Sequence, AppendToOutbox, Stage, AppendDirect, Reject,
     DrainBegin, DrainRecord, DrainRecordFails, DrainMark, MarkRows

\* After any Stop has returned the pump never holds the mutex of the store
\* again, however many goroutines call Stop and whenever they do.
THEOREM NoActivityAfterStop == Spec => []StopQuiesces
<1>1. BInv /\ Quiet => StopQuiesces
  BY DEF BInv, Frame, Quiet, StopQuiesces
<1> QED BY BaseInvariant, InitQuiet, StepQuiet, <1>1, PTL DEF Spec

\* Every variable of the outbox model keeps its type.
THEOREM TypeCorrect == Spec => []TypeOK
<1>1. BInv => TypeOK
  BY DEF BInv
<1> QED BY BaseInvariant, <1>1, PTL

-----------------------------------------------------------------------------
\* The order of retirement.

\* Texts that sort like instants give the instants back.
LEMMA RankOrder ==
    ASSUME RankMonotone, NEW m \in 1 .. MaxInstant, NEW n \in 1 .. MaxInstant,
           Rank[m] <= Rank[n]
    PROVE  m <= n
<1>1. m \in Int /\ n \in Int /\ Rank[m] \in Nat /\ Rank[n] \in Nat
  BY RankAssumption
<1>2. n < m => Rank[n] < Rank[m]
  BY DEF RankMonotone
<1> QED BY <1>1, <1>2

\* So does comparing the texts of two pending rows.
LEMMA PendingOrder ==
    ASSUME RankMonotone, BInv, NEW e \in Pending, NEW f \in Pending,
           Rank[at[e]] <= Rank[at[f]]
    PROVE  at[e] <= at[f]
<1>1. at[e] \in 1 .. MaxInstant /\ at[f] \in 1 .. MaxInstant
  BY RankAssumption DEF BInv, TypeOK, Pending
<1> QED BY <1>1, RankOrder

OrderInv == Prefix /\ RetiredInOrder

LEMMA InitOrder == Init => OrderInv
BY DEF Init, OrderInv, Prefix, RetiredInOrder

LEMMA StepOrder ==
    ASSUME RankMonotone, BInv, OrderInv, [Next]_vars
    PROVE  OrderInv'
<1>1. CASE UNCHANGED <<at, processed, batch, cur>>
  BY <1>1 DEF OrderInv, Prefix, RetiredInOrder, Pending
<1>2. CASE batch' = {} /\ cur' = NoEvent /\ UNCHANGED <<at, processed>>
  BY <1>2 DEF OrderInv, Prefix, RetiredInOrder
<1>3. ASSUME NEW e \in Events, AppendToOutbox(e)
      PROVE  OrderInv'
  <2>1. /\ batch' = {} /\ cur' = NoEvent /\ processed' = processed
        /\ at' = [at EXCEPT ![e] = now + 1]
        /\ e \notin processed
    BY <1>3 DEF AppendToOutbox, Stage, drain, BInv, Frame, Staged, TypeOK
  <2>2. \A f \in Events : at[f] \in Nat /\ at[f] <= now /\ now \in Nat
    BY RankAssumption DEF BInv, TypeOK, Staged
  <2>3. RetiredInOrder'
    BY <2>1, <2>2 DEF OrderInv, RetiredInOrder, BInv, TypeOK
  <2> QED BY <2>1, <2>3 DEF OrderInv, Prefix
<1>4. ASSUME NEW p \in Drainers, DrainBegin(p)
      PROVE  OrderInv'
  <2>1. PICK rows \in SUBSET Pending : Selected(rows) /\ batch' = rows
    BY <1>4 DEF DrainBegin
  <2>2. cur' = NoEvent /\ UNCHANGED <<at, processed>>
    BY <1>4 DEF DrainBegin, disk
  <2>3. \A e \in rows, f \in Pending \ rows : at[e] <= at[f]
    BY <2>1, PendingOrder DEF Selected
  <2> QED BY <2>1, <2>2, <2>3 DEF OrderInv, Prefix, RetiredInOrder, Pending
<1>5. ASSUME NEW e \in Events, DrainRecord(e) \/ DrainRecordFails(e)
      PROVE  OrderInv'
  <2>1. Front(e) /\ cur' = e /\ UNCHANGED <<at, processed, batch>>
    BY <1>5 DEF DrainRecord, DrainRecordFails, disk
  <2>2. \A f \in batch : at[e] <= at[f]
    BY <2>1, PendingOrder DEF Front, BInv, Frame
  <2> QED BY <2>1, <2>2 DEF OrderInv, Prefix, RetiredInOrder, Pending
<1>6. ASSUME DrainMark
      PROVE  OrderInv'
  <2>1. /\ cur \in Events /\ cur # NoEvent /\ cur \in batch
        /\ processed' = processed \cup {cur} /\ batch' = batch \ {cur}
        /\ cur' = NoEvent /\ at' = at
    BY <1>6, EventAssumption DEF DrainMark, MarkRows, BInv, Frame
  <2>2. Prefix'
    BY <2>1 DEF OrderInv, Prefix, Pending
  <2>3. ASSUME NEW e \in Events, 0 < at[e], at[e] < at[cur]
        PROVE  e \in processed
    <3>1. at[e] \in Int /\ at[cur] \in Int
      BY <2>1, RankAssumption DEF BInv, TypeOK
    <3>2. e \in Pending => at[cur] <= at[e]
      BY <2>1 DEF OrderInv, Prefix
    <3> QED BY <2>3, <3>1, <3>2 DEF Pending
  <2>4. RetiredInOrder'
    BY <2>1, <2>3 DEF OrderInv, RetiredInOrder
  <2> QED BY <2>2, <2>4 DEF OrderInv
<1>7. CASE DrainReturns
  <2>1. DrainReturn
    BY <1>7, DrainReturnsBInv
  <2> QED BY <1>2, <2>1 DEF DrainReturn, disk
<1>8. CASE Restart
  BY <1>2, <1>8 DEF Restart, RestartAt, disk
<1> QED
  BY <1>1, <1>3, <1>4, <1>5, <1>6, <1>7, <1>8 DEF Next, DrainStep, DrainReturns,
     vars, disk, drain, Load, Sequence, AppendDirect, Reject, DrainQueryFails,
     QueryFails, PumpTick, PumpStops, LeaveSelect, StopCall, StopReturn

\* Rows are retired in the order in which they were staged, however their
\* events are numbered and whatever fails: Drain's batches are prefixes of
\* the pending rows and it stops at the first mark that fails.
THEOREM RetirementOrder ==
    ASSUME RankMonotone
    PROVE  Spec => []RetiredInOrder
<1>1. BInv /\ OrderInv /\ [Next]_vars => OrderInv'
  BY StepOrder
<1>2. OrderInv => RetiredInOrder
  BY DEF OrderInv
<1> QED BY BaseInvariant, InitOrder, <1>1, <1>2, PTL DEF Spec

-----------------------------------------------------------------------------
\* No retired row leaves its place empty.

SlotInv == CurFilled /\ SlotFilled

\* Places stay filled, and numbers of staged events stay what they are.
LEMMA SlotsStay ==
    ASSUME BInv, SlotInv, domain \subseteq domain',
           \A e \in Events : stage[e] = "accepted" => seq'[e] = seq[e],
           cur' \in {cur, NoEvent}, processed' = processed
    PROVE  SlotInv'
<1>1. \A a : \A n \in SeqsOf(a, domain) : n \in SeqsOf(a, domain')
  BY DEF SeqsOf, RowsOf
<1>2. \A e \in processed : e \in Events /\ seq'[e] = seq[e]
  BY RankAssumption DEF BInv, TypeOK, Staged
<1>3. cur # NoEvent => cur \in Events /\ seq'[cur] = seq[cur]
  BY DEF BInv, TypeOK, Frame, Staged, Pending
<1>4. SlotFilled'
  BY <1>1, <1>2 DEF SlotInv, SlotFilled
<1>5. CurFilled'
  <2> SUFFICES ASSUME cur' # NoEvent
               PROVE  seq'[cur'] \in SeqsOf(Agg[cur'], domain')
    BY DEF CurFilled
  <2>1. cur' = cur
    OBVIOUS
  <2>2. seq[cur] \in SeqsOf(Agg[cur], domain)
    BY <2>1 DEF SlotInv, CurFilled
  <2> QED BY <1>1, <1>3, <2>1, <2>2
<1> QED BY <1>4, <1>5 DEF SlotInv

LEMMA StepSlot ==
    ASSUME "insert" \notin Faults, BInv, SlotInv, [Next]_vars
    PROVE  SlotInv'
<1>1. ASSUME NEW e \in Events, DrainRecord(e)
      PROVE  SlotInv'
  <2>1. cur' = e /\ domain' = domain \cup {EventRow(e)}
        /\ UNCHANGED <<seq, processed>>
    BY <1>1 DEF DrainRecord, callers
  <2>2. seq[e] \in SeqsOf(Agg[e], domain')
    BY <2>1, SeqsAfterInsert DEF EventRow
  <2>3. \A a : \A n \in SeqsOf(a, domain) : n \in SeqsOf(a, domain')
    BY <2>1 DEF SeqsOf, RowsOf
  <2> QED BY <2>1, <2>2, <2>3 DEF SlotInv, CurFilled, SlotFilled
<1>2. ASSUME NEW e \in Events, DrainRecordFails(e)
      PROVE  SlotInv'
  <2>1. cur' = e /\ ~Insertable(EventRow(e), domain)
        /\ UNCHANGED <<domain, seq, processed>>
    BY <1>2 DEF DrainRecordFails, Fault, disk, callers
  <2>2. PICK r \in domain : r.id = e \/ (r.agg = Agg[e] /\ r.seq = seq[e])
    BY <2>1 DEF Insertable, EventRow, Row
  <2>3. r.agg = Agg[e] /\ r.seq = seq[e]
    <3>1. r.id = e => r = EventRow(e)
      BY <2>2 DEF BInv, Rows
    <3> QED BY <2>2, <3>1 DEF EventRow, Row
  <2>4. seq[e] \in SeqsOf(Agg[e], domain)
    BY <2>2, <2>3 DEF SeqsOf, RowsOf
  <2> QED BY <2>1, <2>4 DEF SlotInv, CurFilled, SlotFilled
<1>3. ASSUME DrainMark
      PROVE  SlotInv'
  <2>1. /\ cur # NoEvent /\ cur' = NoEvent /\ processed' = processed \cup {cur}
        /\ UNCHANGED <<domain, seq>>
    BY <1>3, EventAssumption DEF DrainMark, MarkRows, callers
  <2> QED BY <2>1 DEF SlotInv, CurFilled, SlotFilled
<1>4. ASSUME NEW e \in Events, Sequence(e)
      PROVE  SlotInv'
  <2>1. /\ \A f \in Events : stage[f] = "accepted" => seq'[f] = seq[f]
        /\ UNCHANGED <<domain, cur, processed>>
    BY <1>4 DEF Sequence, ByStore, ByVersion, disk, drain, BInv, TypeOK
  <2> QED BY <2>1, SlotsStay
<1>5. CASE /\ domain \subseteq domain' /\ cur' \in {cur, NoEvent}
           /\ UNCHANGED <<seq, processed>>
  BY <1>5, SlotsStay
<1>6. CASE DrainReturns
  <2>1. DrainReturn
    BY <1>6, DrainReturnsBInv
  <2> QED BY <1>5, <2>1 DEF DrainReturn, disk, callers
<1> QED
  BY <1>1, <1>2, <1>3, <1>4, <1>5, <1>6 DEF Next, DrainStep, DrainReturns,
     vars, disk, callers, drain, Load, AppendToOutbox, Stage, AppendDirect,
     Reject, DrainBegin, DrainQueryFails, QueryFails, PumpTick, PumpStops,
     LeaveSelect, StopCall, StopReturn, Restart, RestartAt

\* However events are numbered, Drain retires a row only when the place of
\* its event in the history is filled, if its INSERT fails for no reason but
\* a duplicate.
THEOREM NoEmptySlot ==
    ASSUME "insert" \notin Faults
    PROVE  Spec => []SlotFilled
<1>1. Init => SlotInv
  BY DEF Init, SlotInv, CurFilled, SlotFilled
<1>2. BInv /\ SlotInv /\ [Next]_vars => SlotInv'
  BY StepSlot
<1>3. SlotInv => SlotFilled
  BY DEF SlotInv
<1> QED BY BaseInvariant, <1>1, <1>2, <1>3, PTL DEF Spec

-----------------------------------------------------------------------------
\* Drain drops an event only for one with its number that came first.

LossInv == RecordedInOrder /\ CurAnswered /\ NoSilentLoss

\* An event of which there is a row, or whose place an earlier one holds, is
\* so for ever: accepted events keep their numbers and their stamps.
LEMMA AnsweredStay ==
    ASSUME BInv, domain \subseteq domain',
           \A e \in Events : stage[e] = "accepted"
                => seq'[e] = seq[e] /\ at'[e] = at[e],
           NEW e \in Events, stage[e] = "accepted",
           e \in Recorded \/ Superseded(e)
    PROVE  e \in Recorded' \/ Superseded(e)'
<1>1. Recorded \subseteq Recorded'
  BY DEF Recorded
<1>2. CASE e \in Recorded
  BY <1>1, <1>2
<1>3. CASE Superseded(e)
  <2>1. PICK f \in Recorded : Agg[f] = Agg[e] /\ seq[f] = seq[e] /\ at[f] < at[e]
    BY <1>3 DEF Superseded
  <2>2. f \in Events /\ stage[f] = "accepted"
    BY DEF BInv, Rows, Recorded
  <2> QED BY <1>1, <2>1, <2>2 DEF Superseded
<1> QED BY <1>2, <1>3

\* Steps that record nothing keep what the rows retired so far promise.
LEMMA LossStay ==
    ASSUME BInv, LossInv, domain' = domain,
           \A e \in Events : stage[e] = "accepted"
                => seq'[e] = seq[e] /\ at'[e] = at[e],
           \A e \in Events : stage[e] # "accepted" => \A f \in Events :
                0 < at'[e] /\ at'[e] < at'[f] => f \notin Recorded,
           cur' \in {cur, NoEvent}, processed' = processed
    PROVE  LossInv'
<1>1. \A e \in processed : e \in Events /\ stage[e] = "accepted"
  BY RankAssumption DEF BInv, TypeOK, Staged
<1>2. cur # NoEvent => cur \in Events /\ stage[cur] = "accepted"
  BY DEF BInv, TypeOK, Frame, Staged, Pending
<1>3. NoSilentLoss'
  BY <1>1, AnsweredStay DEF LossInv, NoSilentLoss
<1>4. CurAnswered'
  <2> SUFFICES ASSUME NEW e \in Events, stage[e] = "accepted", cur = e, cur' = e
               PROVE  e \in Recorded' \/ Superseded(e)'
    BY <1>2 DEF CurAnswered, Superseded
  <2>1. e \in Recorded \/ Superseded(e)
    BY EventAssumption DEF LossInv, CurAnswered
  <2> QED BY <2>1, AnsweredStay
<1>5. RecordedInOrder'
  <2> SUFFICES ASSUME NEW e \in Events, NEW f \in Events,
                      0 < at'[e], at'[e] < at'[f], f \in Recorded
               PROVE  e \in processed
    BY DEF RecordedInOrder, Recorded
  <2>1. stage[e] = "accepted" /\ stage[f] = "accepted"
    BY DEF BInv, Rows, Recorded
  <2> QED BY <2>1 DEF LossInv, RecordedInOrder
<1> QED BY <1>3, <1>4, <1>5 DEF LossInv

\* An INSERT that the UNIQUE index refuses lost to the event's own row or to
\* that of an earlier event.
LEMMA RefusedForEarlier ==
    ASSUME BInv, RecordedInOrder, NEW e \in Pending,
           ~Insertable(EventRow(e), domain)
    PROVE  e \in Recorded \/ Superseded(e)
<1>1. PICK r \in domain : r.id = e \/ (r.agg = Agg[e] /\ r.seq = seq[e])
  BY DEF Insertable, EventRow, Row
<1>2. CASE r.id = e
  BY <1>2 DEF Recorded
<1>3. CASE r.id # e /\ r.agg = Agg[e] /\ r.seq = seq[e]
  <2> DEFINE f == r.id
  <2>1. f \in Events /\ r = EventRow(f) /\ f \in Recorded
    BY DEF BInv, Rows, Recorded
  <2>2. Agg[f] = Agg[e] /\ seq[f] = seq[e]
    BY <1>3, <2>1 DEF EventRow, Row
  <2> HIDE DEF f
  <2>3. f # e
    BY <1>3 DEF f
  <2>4. e \in Events /\ at[e] > 0 /\ e \notin processed
    BY DEF Pending
  <2>5. at[e] \in Int /\ at[f] \in Int
    BY <2>1, <2>4, RankAssumption DEF BInv, TypeOK
  <2>6. ~(at[e] < at[f])
    BY <2>1, <2>4 DEF RecordedInOrder
  <2>7. at[e] # at[f]
    BY <2>1, <2>3, <2>4 DEF BInv, Staged
  <2>8. at[f] < at[e]
    BY <2>5, <2>6, <2>7
  <2> QED BY <2>1, <2>2, <2>8 DEF Superseded
<1> QED BY <1>1, <1>2, <1>3

\* The row at the front of the batch is the pending row staged first.
LEMMA FrontIsOldest ==
    ASSUME RankMonotone, BInv, OrderInv, NEW e, Front(e)
    PROVE  e \in Pending /\ \A f \in Pending : at[e] <= at[f]
<1>1. e \in Pending /\ batch \subseteq Pending /\ e \in batch
  BY DEF Front, BInv, Frame
<1>2. ASSUME NEW f \in Pending
      PROVE  at[e] <= at[f]
  <2>1. CASE f \in batch
    BY <1>1, <2>1, PendingOrder DEF Front
  <2>2. CASE f \notin batch
    BY <1>1, <2>2 DEF OrderInv, Prefix
  <2> QED BY <2>1, <2>2
<1> QED BY <1>1, <1>2

LEMMA DrainRecordLoss ==
    ASSUME RankMonotone, BInv, OrderInv, LossInv, NEW e \in Events, DrainRecord(e)
    PROVE  LossInv'
<1>1. /\ cur' = e /\ Front(e) /\ domain' = domain \cup {EventRow(e)}
      /\ UNCHANGED <<at, seq, stage, processed>>
  BY DEF DrainRecord, callers
<1>2. EventRow(e).id = e
  BY DEF EventRow, Row
<1>3. Recorded' = Recorded \cup {e}
  BY <1>1, <1>2 DEF Recorded
<1>4. RecordedInOrder'
  <2> SUFFICES ASSUME NEW x \in Events, 0 < at[x], at[x] < at[e]
               PROVE  x \in processed
    BY <1>1, <1>3 DEF LossInv, RecordedInOrder
  <2>1. at[x] \in Int /\ at[e] \in Int
    BY RankAssumption DEF BInv, TypeOK
  <2>2. x \in Pending => at[e] <= at[x]
    BY <1>1, FrontIsOldest
  <2> QED BY <2>1, <2>2 DEF Pending
<1>5. CurAnswered'
  BY <1>1, <1>3 DEF CurAnswered
<1>6. NoSilentLoss'
  <2> SUFFICES ASSUME NEW x \in processed
               PROVE  x \in Recorded' \/ Superseded(x)'
    BY <1>1 DEF NoSilentLoss
  <2> QED BY <1>1, <1>3 DEF LossInv, NoSilentLoss, Superseded
<1> QED BY <1>4, <1>5, <1>6 DEF LossInv

LEMMA StepLoss ==
    ASSUME RankMonotone, "insert" \notin Faults,
           BInv, OrderInv, LossInv, [Next]_vars
    PROVE  LossInv'
<1>0. \A e, f \in Events : stage[e] # "accepted" /\ at'[e] = at[e]
            => ~(0 < at'[e] /\ at'[e] < at'[f])
  BY RankAssumption DEF BInv, TypeOK, Staged
<1>1. CASE /\ UNCHANGED <<domain, at, seq, processed>>
           /\ cur' \in {cur, NoEvent}
  BY <1>0, <1>1, LossStay
<1>2. ASSUME NEW e \in Events, Sequence(e)
      PROVE  LossInv'
  <2>1. /\ \A f \in Events : stage[f] = "accepted" => seq'[f] = seq[f]
        /\ UNCHANGED <<domain, at, cur, processed>>
    BY <1>2 DEF Sequence, ByStore, ByVersion, disk, drain, BInv, TypeOK
  <2> QED BY <1>0, <2>1, LossStay
<1>3. ASSUME NEW e \in Events, AppendToOutbox(e)
      PROVE  LossInv'
  <2>1. /\ stage[e] = "ready" /\ at' = [at EXCEPT ![e] = now + 1]
        /\ UNCHANGED <<domain, seq, cur, processed>>
    BY <1>3 DEF AppendToOutbox, Stage, drain
  <2>2. \A f \in Events : at[f] \in Nat /\ at[f] <= now /\ now \in Nat
    BY RankAssumption DEF BInv, TypeOK, Staged
  <2>3. \A f \in Events : at'[f] = IF f = e THEN now + 1 ELSE at[f]
    BY <2>1 DEF BInv, TypeOK
  <2>4. \A f \in Events : stage[f] = "accepted" => seq'[f] = seq[f] /\ at'[f] = at[f]
    BY <2>1, <2>3
  <2>5. \A x \in Events : stage[x] # "accepted" => \A f \in Events :
            0 < at'[x] /\ at'[x] < at'[f] => f \notin Recorded
    <3> SUFFICES ASSUME NEW x \in Events, stage[x] # "accepted", NEW f \in Events,
                        0 < at'[x], at'[x] < at'[f]
                 PROVE  FALSE
      OBVIOUS
    <3>1. x = e
      BY <2>2, <2>3 DEF BInv, Staged
    <3> QED BY <2>2, <2>3, <3>1
  <2> QED BY <2>1, <2>4, <2>5, LossStay
<1>4. ASSUME NEW e \in Events, AppendDirect(e)
      PROVE  LossInv'
  <2>1. /\ stage[e] = "ready" /\ domain' = domain \cup {EventRow(e)}
        /\ UNCHANGED <<at, seq, cur, processed>>
    BY <1>4 DEF AppendDirect, drain
  <2>2. EventRow(e).id = e
    BY DEF EventRow, Row
  <2>3. Recorded' = Recorded \cup {e}
    BY <2>1, <2>2 DEF Recorded
  <2>4. at[e] = 0
    <3>1. at[e] \in Nat
      BY RankAssumption DEF BInv, TypeOK
    <3>2. ~(at[e] > 0)
      BY <2>1 DEF BInv, Staged
    <3> QED BY <3>1, <3>2
  <2>5. RecordedInOrder'
    <3>1. \A x \in Events : at[x] \in Nat
      BY RankAssumption DEF BInv, TypeOK
    <3>2. \A x \in Events : ~(0 < at[x] /\ at[x] < at[e])
      BY <2>4, <3>1
    <3> QED BY <2>1, <2>3, <3>2 DEF LossInv, RecordedInOrder
  <2>6. CurAnswered'
    BY <2>1, <2>3 DEF LossInv, CurAnswered, Superseded
  <2>7. NoSilentLoss'
    <3> SUFFICES ASSUME NEW x \in processed
                 PROVE  x \in Recorded' \/ Superseded(x)'
      BY <2>1 DEF NoSilentLoss
    <3> QED BY <2>1, <2>3 DEF LossInv, NoSilentLoss, Superseded
  <2> QED BY <2>5, <2>6, <2>7 DEF LossInv
<1>5. ASSUME NEW e \in Events, DrainRecord(e)
      PROVE  LossInv'
  BY <1>5, DrainRecordLoss
<1>6. ASSUME NEW e \in Events, DrainRecordFails(e)
      PROVE  LossInv'
  <2>1. /\ cur' = e /\ Front(e) /\ ~Insertable(EventRow(e), domain)
        /\ UNCHANGED <<domain, at, seq, processed>>
    BY <1>6 DEF DrainRecordFails, Fault, disk, callers
  <2>2. e \in Recorded \/ Superseded(e)
    BY <2>1, FrontIsOldest, RefusedForEarlier DEF LossInv
  <2> QED BY <2>1, <2>2 DEF LossInv, RecordedInOrder, CurAnswered, NoSilentLoss,
             Recorded, Superseded
<1>7. ASSUME DrainMark
      PROVE  LossInv'
  <2>1. /\ cur # NoEvent /\ cur' = NoEvent /\ processed' = processed \cup {cur}
        /\ UNCHANGED <<domain, at, seq>>
    BY <1>7, EventAssumption DEF DrainMark, MarkRows, callers
  <2>2. RecordedInOrder' /\ CurAnswered'
    BY <2>1 DEF LossInv, RecordedInOrder, CurAnswered, Recorded
  <2>3. NoSilentLoss'
    BY <2>1 DEF LossInv, CurAnswered, NoSilentLoss, Recorded, Superseded
  <2> QED BY <2>2, <2>3 DEF LossInv
<1>8. CASE DrainReturns
  <2>1. DrainReturn
    BY <1>8, DrainReturnsBInv
  <2> QED BY <1>1, <2>1 DEF DrainReturn, disk, callers
<1> QED
  BY <1>1, <1>2, <1>3, <1>4, <1>5, <1>6, <1>7, <1>8 DEF Next, DrainStep,
     DrainReturns, vars, disk, callers, drain, Load, Reject, DrainBegin,
     DrainQueryFails, QueryFails, PumpTick, PumpStops, LeaveSelect, StopCall,
     StopReturn, Restart, RestartAt

\* What NoSilentLoss needs.
LogInv == BInv /\ OrderInv /\ LossInv

LEMMA LogInvariant ==
    ASSUME RankMonotone, "insert" \notin Faults
    PROVE  Spec => []LogInv
<1>1. Init => LogInv
  BY InitBInv, InitOrder DEF Init, LogInv, LossInv, RecordedInOrder,
     CurAnswered, NoSilentLoss
<1>2. LogInv /\ [Next]_vars => LogInv'
  BY StepBInv, StepOrder, StepLoss DEF LogInv
<1> QED BY <1>1, <1>2, PTL DEF Spec

\* However events are numbered, Drain drops a staged event only for an event
\* with its number that was staged before it or appended directly, over
\* crashes between its INSERT and its mark and failed queries and marks, when
\* its INSERT fails for no reason but a duplicate.
THEOREM NothingLost ==
    ASSUME RankMonotone, "insert" \notin Faults
    PROVE  Spec => []NoSilentLoss
<1>1. LogInv => NoSilentLoss
  BY DEF LogInv, LossInv
<1> QED BY LogInvariant, <1>1, PTL

\* Staged events are delivered in the order they were staged in: when one is
\* recorded, those staged before it are retired, hence recorded or dropped
\* for an earlier event with their number.
THEOREM DeliveryOrder ==
    ASSUME RankMonotone, "insert" \notin Faults
    PROVE  Spec => []DeliveredInOrder
<1>1. LogInv => DeliveredInOrder
  BY DEF LogInv, LossInv, RecordedInOrder, NoSilentLoss, DeliveredInOrder
<1> QED BY LogInvariant, <1>1, PTL

-----------------------------------------------------------------------------
\* The outbox implements the abstract audit log.

\* What the abstract log calls waiting are the pending rows not recorded yet,
\* and a slot is taken when the UNIQUE index refuses the row.
LEMMA WaitingPending ==
    Promise!Waiting = Pending \ Recorded
BY DEF Promise!Waiting, Pending

LEMMA TakenRefused ==
    ASSUME BInv, NEW e \in Events
    PROVE  /\ Insertable(EventRow(e), domain) => ~Promise!Taken(e) /\ e \notin Recorded
           /\ Superseded(e) => Promise!Taken(e)
<1>1. \A f \in Recorded : f \in Events /\ EventRow(f) \in domain
  BY DEF BInv, Rows, Recorded
<1>2. \A f : EventRow(f).id = f /\ EventRow(f).agg = Agg[f] /\ EventRow(f).seq = seq[f]
  BY DEF EventRow, Row
<1>3. ASSUME Insertable(EventRow(e), domain), NEW f \in Recorded
      PROVE  f # e /\ <<Agg[f], seq[f]>> # <<Agg[e], seq[e]>>
  BY <1>1, <1>2, <1>3 DEF Insertable
<1>4. Insertable(EventRow(e), domain) => ~Promise!Taken(e) /\ e \notin Recorded
  BY <1>1, <1>3 DEF Promise!Taken
<1>5. Superseded(e) => Promise!Taken(e)
  BY <1>1 DEF Superseded, Promise!Taken
<1> QED BY <1>4, <1>5

\* A row that Drain records is the event waiting longest.
LEMMA RecordsOldest ==
    ASSUME RankMonotone, LogInv, NEW e \in Events, DrainRecord(e)
    PROVE  Promise!Record(e)
<1>1. /\ Front(e) /\ Insertable(EventRow(e), domain)
      /\ domain' = domain \cup {EventRow(e)}
      /\ UNCHANGED <<now, at, seq, processed>>
  BY DEF DrainRecord, callers
<1>2. EventRow(e).id = e
  BY DEF EventRow, Row
<1>3. e \notin Recorded /\ ~Promise!Taken(e)
  BY <1>1, TakenRefused DEF LogInv
<1>4. Recorded' = Recorded \cup {e}
  BY <1>1, <1>2 DEF Recorded
<1>5. e \in Pending /\ \A f \in Pending : at[e] <= at[f]
  BY <1>1, FrontIsOldest DEF LogInv
<1>6. Promise!IsNext(e)
  BY <1>3, <1>5, WaitingPending DEF Promise!IsNext
<1>7. (processed \ Recorded)' = processed \ Recorded
  BY <1>1, <1>4, <1>5 DEF Pending
<1> QED BY <1>1, <1>3, <1>4, <1>6, <1>7 DEF Promise!Record

\* A row that Drain marks without having recorded it is dismissed.
LEMMA MarkDismisses ==
    ASSUME LogInv, DrainMark, cur \notin Recorded
    PROVE  cur \in Events /\ Promise!Dismiss(cur)
<1>1. /\ cur \in Events /\ cur # NoEvent /\ processed' = processed \cup {cur}
      /\ UNCHANGED <<domain, at, now, seq>>
  BY EventAssumption DEF DrainMark, MarkRows, callers
<1>2. cur \in batch /\ batch \subseteq Pending
  BY <1>1 DEF LogInv, BInv, Frame
<1>3. \A f \in Pending : at[cur] <= at[f]
  BY <1>1, <1>2 DEF LogInv, OrderInv, Prefix
<1>4. Promise!IsNext(cur)
  BY <1>2, <1>3, WaitingPending DEF Promise!IsNext
<1>5. Promise!Taken(cur)
  BY <1>1, TakenRefused DEF LogInv, LossInv, CurAnswered
<1>6. Recorded' = Recorded
  BY <1>1 DEF Recorded
<1> QED BY <1>1, <1>4, <1>5, <1>6 DEF Promise!Dismiss

LEMMA StepPromise ==
    ASSUME RankMonotone, LogInv, [Next]_vars
    PROVE  [Promise!Next]_(Promise!vars)
<1>0. ASSUME NEW e \in Events, stage[e] # "accepted"
      PROVE  at[e] = 0 /\ e \notin Recorded /\ e \notin processed
  <2>1. at[e] \in Nat /\ ~(at[e] > 0)
    BY <1>0, RankAssumption DEF LogInv, BInv, TypeOK, Staged
  <2>2. e \notin Recorded
    BY <1>0 DEF LogInv, BInv, Rows, Recorded
  <2>3. e \notin processed
    BY <2>1 DEF LogInv, BInv, Staged
  <2> QED BY <2>1, <2>2, <2>3
<1>1. ASSUME NEW e \in Events, Sequence(e)
      PROVE  Promise!Number(e)
  <2>1. /\ stage[e] = "new" /\ UNCHANGED <<domain, at, processed, now>>
        /\ seq' \in [Events -> Nat] /\ \A f \in Events \ {e} : seq'[f] = seq[f]
    <3>1. seq' \in [Events -> Nat]
      BY <1>1, SequenceBInv DEF LogInv, BInv, TypeOK
    <3> QED BY <1>1, <3>1 DEF Sequence, ByStore, ByVersion, disk, LogInv, BInv, TypeOK
  <2>2. at[e] = 0 /\ e \notin Recorded
    BY <1>0, <2>1
  <2>3. Recorded' = Recorded
    BY <2>1 DEF Recorded
  <2>4. [f \in Events |-> <<Agg[f], seq'[f]>>] \in [Events -> Aggregates \X Nat]
    BY <2>1, EventAssumption
  <2> QED BY <2>1, <2>2, <2>3, <2>4 DEF Promise!Number
<1>2. ASSUME NEW e \in Events, AppendToOutbox(e)
      PROVE  Promise!Accept(e)
  <2>1. stage[e] = "ready" /\ now' = now + 1 /\ at' = [at EXCEPT ![e] = now + 1]
        /\ UNCHANGED <<domain, seq, processed>>
    BY <1>2 DEF AppendToOutbox, Stage
  <2>2. at[e] = 0 /\ e \notin Recorded
    BY <1>0, <2>1
  <2> QED BY <2>1, <2>2 DEF Promise!Accept, Recorded
<1>3. ASSUME NEW e \in Events, AppendDirect(e)
      PROVE  Promise!Publish(e)
  <2>1. /\ stage[e] = "ready" /\ Insertable(EventRow(e), domain)
        /\ domain' = domain \cup {EventRow(e)}
        /\ UNCHANGED <<now, at, seq, processed>>
    BY <1>3 DEF AppendDirect
  <2>2. at[e] = 0 /\ e \notin processed
    BY <1>0, <2>1
  <2>3. ~Promise!Taken(e)
    BY <2>1, TakenRefused DEF LogInv
  <2>4. EventRow(e).id = e
    BY DEF EventRow, Row
  <2>5. Recorded' = Recorded \cup {e}
    BY <2>1, <2>4 DEF Recorded
  <2>6. (processed \ Recorded)' = processed \ Recorded
    BY <2>1, <2>2, <2>5
  <2> QED BY <2>1, <2>2, <2>3, <2>5, <2>6 DEF Promise!Publish
<1>4. ASSUME NEW e \in Events, DrainRecord(e)
      PROVE  Promise!Record(e)
  BY <1>4, RecordsOldest
<1>5. CASE UNCHANGED <<domain, at, now, seq, processed>>
  BY <1>5 DEF Promise!vars, Recorded
<1>6. ASSUME DrainMark
      PROVE  [Promise!Next]_(Promise!vars)
  <2>1. CASE cur \in Recorded
    <3>1. processed' = processed \cup {cur} /\ UNCHANGED <<domain, at, now, seq>>
      BY <1>6 DEF DrainMark, MarkRows, callers
    <3>2. Recorded' = Recorded /\ (processed \ Recorded)' = processed \ Recorded
      BY <2>1, <3>1 DEF Recorded
    <3> QED BY <3>1, <3>2 DEF Promise!vars
  <2>2. CASE cur \notin Recorded
    BY <1>6, <2>2, MarkDismisses DEF Promise!Next, Promise!Settle
  <2> QED BY <2>1, <2>2
<1>7. CASE DrainReturns
  <2>1. DrainReturn
    BY <1>7, DrainReturnsBInv DEF LogInv
  <2> QED BY <1>5, <2>1 DEF DrainReturn, disk, callers
<1> QED
  BY <1>1, <1>2, <1>3, <1>4, <1>5, <1>6, <1>7 DEF Promise!Next, Promise!Settle,
     Next, DrainStep, DrainReturns, vars, disk, callers, Load, Reject,
     DrainBegin, DrainQueryFails, QueryFails, DrainRecordFails, PumpTick,
     PumpStops, LeaveSelect, StopCall, StopReturn, Restart, RestartAt

\* The tables of the outbox behave as the abstract log, however events are
\* numbered: every accepted event is recorded at most once and in the order
\* of acceptance, or dismissed in its turn because a recorded event has its
\* place, whatever the interleaving of use cases, pump and direct drains, and
\* over crashes.
THEOREM ImplementsAuditLog ==
    ASSUME RankMonotone, "insert" \notin Faults
    PROVE  Spec => PromiseSafety
<1>1. Init => Promise!Init
  <2> SUFFICES ASSUME Init PROVE Promise!Init
    OBVIOUS
  <2>1. [e \in Events |-> <<Agg[e], seq[e]>>] \in [Events -> Aggregates \X Nat]
    BY EventAssumption DEF Init
  <2> QED BY <2>1 DEF Init, Promise!Init, Recorded
<1>2. LogInv /\ [Next]_vars => [Promise!Next]_(Promise!vars)
  BY StepPromise
<1> QED BY LogInvariant, <1>1, <1>2, PTL
       DEF Spec, PromiseSafety, Promise!SafetySpec

-----------------------------------------------------------------------------
(***************************************************************************)
(* What the startup drain and the last drain of the pump achieve, for any  *)
(* LIMIT, any number of events, stoppers, direct drains and crashes: a     *)
(* backlog that fits one batch is dealt with, if the texts of the stamps   *)
(* sort like their instants.  The two drains read one batch each, while    *)
(* use cases stage more rows and others drain, so the argument is one of   *)
(* counting: a batch that left out a row of the backlog would hold LIMIT   *)
(* other rows of it.                                                       *)
(***************************************************************************)

\* The hypothesis of StartupRecovers and StopFlushes about the backlog.
Fits == faults = 0 /\ Cardinality(owed) <= Limit

StagedFinite == IsFiniteSet({e \in Events : at[e] > 0})

\* The backlog consists of the rows staged first.
OwedOldest ==
    /\ \A o \in owed : at[o] > 0
    /\ \A o \in owed, e \in Pending : at[e] <= at[o] => e \in owed

\* The drain that has to deal with the backlog holds what is left of it, and
\* nothing is left once that drain is over.
OwedInHand ==
    Fits =>
        /\ mu = "pump" /\ (pump = "final" \/ (pump = "startup" /\ ~stopped))
            => owed \ processed \subseteq batch
        /\ pump \in {"select", "tick"} /\ ~stopped => owed \subseteq processed
        /\ pump = "done" => owed \subseteq processed

StopSeen == pump \in {"final", "done"} => stopped

BacklogInv == StagedFinite /\ OwedOldest /\ OwedInHand /\ StopSeen

-----------------------------------------------------------------------------

LEMMA InitBacklog == Init => BacklogInv
<1> SUFFICES ASSUME Init PROVE BacklogInv
  OBVIOUS
<1>1. {e \in Events : at[e] > 0} = {}
  BY DEF Init
<1>2. StagedFinite
  BY <1>1, FS_EmptySet DEF StagedFinite
<1> QED BY <1>2 DEF Init, BacklogInv, OwedOldest, OwedInHand, StopSeen

\* The counting argument: the batch of a drain holds what is left of a
\* backlog that fits.
LEMMA OwedSelected ==
    ASSUME RankMonotone, BInv, StagedFinite, OwedOldest, Fits,
           NEW rows, Selected(rows)
    PROVE  owed \ processed \subseteq rows
<1> SUFFICES ASSUME NEW o \in owed, o \notin processed, o \notin rows
             PROVE  FALSE
  OBVIOUS
<1>1. o \in Pending /\ rows \subseteq Pending
  BY DEF OwedOldest, BInv, TypeOK, Pending, Selected
<1>2. rows \subseteq owed \ {o}
  <2> SUFFICES ASSUME NEW e \in rows PROVE e \in owed
    OBVIOUS
  <2>1. Rank[at[e]] <= Rank[at[o]]
    BY <1>1 DEF Selected
  <2>2. at[e] <= at[o]
    BY <1>1, <2>1, PendingOrder
  <2> QED BY <1>1, <2>2 DEF OwedOldest
<1>3. IsFiniteSet(owed) /\ Cardinality(owed) \in Nat
  <2>1. owed \subseteq {e \in Events : at[e] > 0}
    BY DEF OwedOldest, BInv, TypeOK
  <2>2. IsFiniteSet(owed)
    BY <2>1, FS_Subset DEF StagedFinite
  <2> QED BY <2>2, FS_CardinalityType
<1>4. IsFiniteSet(owed \ {o}) /\ Cardinality(owed \ {o}) = Cardinality(owed) - 1
  BY <1>3, FS_RemoveElement
<1>5. IsFiniteSet(rows) /\ Cardinality(rows) <= Cardinality(owed) - 1
  BY <1>2, <1>4, FS_Subset
<1>6. Cardinality(rows) = Limit
  BY <1>1 DEF Selected
<1> QED BY <1>3, <1>5, <1>6, LimitAssumption DEF Fits

-----------------------------------------------------------------------------
\* The steps.

\* Steps that leave the backlog, the batch and the control points alone.
LEMMA IdleBacklog ==
    ASSUME BInv, BacklogInv,
           UNCHANGED <<at, processed, batch, mu, pump, stopped, owed>>,
           faults' = faults \/ faults' = faults + 1
    PROVE  BacklogInv'
<1>1. faults' = 0 => faults = 0
  BY DEF BInv, TypeOK
<1>2. Fits' => Fits
  BY <1>1 DEF Fits
<1> QED BY <1>2 DEF BacklogInv, StagedFinite, OwedOldest, OwedInHand, StopSeen,
           Pending

LEMMA AppendToOutboxBacklog ==
    ASSUME BInv, BacklogInv, NEW e \in Events, AppendToOutbox(e)
    PROVE  BacklogInv'
<1>1. /\ at' = [at EXCEPT ![e] = now + 1] /\ at[e] = 0
      /\ \A f \in Events : at[f] \in Nat /\ at[f] <= now
      /\ now \in Nat
  BY RankAssumption DEF AppendToOutbox, Stage, BInv, TypeOK, Staged
<1>2. UNCHANGED <<processed, batch, mu, pump, stopped, owed, faults>>
  BY DEF AppendToOutbox, Stage, drain, stopping
<1>3. StagedFinite'
  <2>1. {f \in Events : at'[f] > 0} = {f \in Events : at[f] > 0} \cup {e}
    BY <1>1 DEF BInv, TypeOK
  <2> QED BY <2>1, FS_AddElement DEF BacklogInv, StagedFinite
<1>4. OwedOldest'
  <2>1. /\ e \notin owed /\ owed \subseteq Events
        /\ \A f \in Events : at'[f] = IF f = e THEN now + 1 ELSE at[f]
    BY <1>1 DEF BacklogInv, OwedOldest, BInv, TypeOK
  <2>2. \A f \in Pending' : f = e \/ f \in Pending
    BY <1>2, <2>1 DEF Pending
  <2> QED BY <1>1, <1>2, <2>1, <2>2 DEF BacklogInv, OwedOldest, Pending
<1> QED BY <1>2, <1>3, <1>4 DEF BacklogInv, OwedInHand, Fits, StopSeen

LEMMA DrainBeginBacklog ==
    ASSUME RankMonotone, BInv, BacklogInv, NEW p \in Drainers, DrainBegin(p)
    PROVE  BacklogInv'
<1>1. UNCHANGED <<at, processed, pump, stopped, owed, faults>> /\ mu' = p
  BY DEF DrainBegin, disk, stopping
<1>2. PICK rows \in SUBSET Pending : Selected(rows) /\ batch' = rows
  BY DEF DrainBegin
<1>3. Fits => owed \ processed \subseteq rows
  BY <1>2, OwedSelected DEF BacklogInv
<1>4. OwedInHand'
  BY <1>1, <1>2, <1>3 DEF BacklogInv, OwedInHand, Fits
<1> QED BY <1>1, <1>4 DEF BacklogInv, StagedFinite, OwedOldest, Pending, StopSeen

LEMMA DrainQueryFailsBacklog ==
    ASSUME BInv, BacklogInv, NEW p \in Drainers, DrainQueryFails(p)
    PROVE  BacklogInv'
<1>1. /\ UNCHANGED <<at, processed, batch, mu, stopped, owed>>
      /\ faults' = faults + 1
      /\ pump' \in {pump, AfterDrain}
  BY DEF DrainQueryFails, QueryFails, Fault, disk, drain, stopping
<1>2. ~Fits'
  BY <1>1 DEF Fits, BInv, TypeOK
<1>3. StopSeen'
  BY <1>1 DEF BacklogInv, StopSeen, AfterDrain
<1> QED BY <1>1, <1>2, <1>3 DEF BacklogInv, StagedFinite, OwedOldest,
           OwedInHand, Pending

LEMMA DrainMarkBacklog ==
    ASSUME BInv, BacklogInv, DrainMark
    PROVE  BacklogInv'
<1>1. /\ UNCHANGED <<at, mu, pump, stopped, owed, faults>>
      /\ processed' = processed \cup {cur} /\ batch' = batch \ {cur}
  BY DEF DrainMark, MarkRows, stopping
<1>2. OwedOldest' /\ StagedFinite' /\ StopSeen'
  BY <1>1 DEF BacklogInv, StagedFinite, OwedOldest, Pending, StopSeen
<1>3. OwedInHand'
  BY <1>1 DEF BacklogInv, OwedInHand, Fits
<1> QED BY <1>2, <1>3 DEF BacklogInv

LEMMA DrainReturnsBacklog ==
    ASSUME BInv, BacklogInv, DrainReturns
    PROVE  BacklogInv'
<1>1. /\ UNCHANGED <<at, processed, stopped, owed>> /\ mu' = "free"
      /\ pump' = IF mu = "pump" THEN AfterDrain ELSE pump
  BY DrainReturnsBInv DEF DrainReturn, disk, stopping
<1>2. StagedFinite' /\ OwedOldest'
  BY <1>1 DEF BacklogInv, StagedFinite, OwedOldest, Pending
<1>3. StopSeen'
  BY <1>1 DEF BacklogInv, StopSeen, AfterDrain
<1>4. OwedInHand'
  <2>1. CASE DrainMarkFails
    <3>1. ~Fits'
      BY <2>1 DEF DrainMarkFails, Fault, Fits, BInv, TypeOK
    <3> QED BY <3>1 DEF OwedInHand
  <2>2. CASE DrainCancelled
    BY <1>1, <2>2 DEF DrainCancelled, BacklogInv, OwedInHand, Fits
  <2>3. CASE DrainEnd
    <3>1. batch = {} /\ faults' = faults /\ (mu = "direct" => mu # "pump")
      BY <2>3 DEF DrainEnd
    <3>2. mu = "pump" => pump \in {"startup", "tick", "final"}
      BY DEF BInv, Frame
    <3> QED BY <1>1, <3>1, <3>2 DEF BacklogInv, OwedInHand, Fits, AfterDrain,
               StopSeen
  <2> QED BY <2>1, <2>2, <2>3 DEF DrainReturns
<1> QED BY <1>2, <1>3, <1>4 DEF BacklogInv

LEMMA PumpBacklog ==
    ASSUME BInv, BacklogInv, PumpTick \/ PumpStops
    PROVE  BacklogInv'
<1>1. UNCHANGED <<at, processed, batch, mu, stopped, owed, faults>>
      /\ pump = "select" /\ mu # "pump"
  BY DEF PumpTick, PumpStops, LeaveSelect, disk, drain, stopping, BInv, Frame
<1>2. pump' = "tick" \/ (pump' = "final" /\ stopped)
  BY DEF PumpTick, PumpStops, LeaveSelect
<1> QED BY <1>1, <1>2 DEF BacklogInv, StagedFinite, OwedOldest, OwedInHand, Fits,
           Pending, StopSeen

LEMMA StopCallBacklog ==
    ASSUME BInv, BacklogInv, NEW s \in Stoppers, StopCall(s)
    PROVE  BacklogInv'
<1>1. UNCHANGED <<at, processed, batch, mu, pump, faults>> /\ stopped'
      /\ owed' = IF stopped THEN owed ELSE Pending
  BY DEF StopCall, disk, drain
<1>2. StagedFinite' /\ StopSeen' /\ Pending' = Pending
  BY <1>1 DEF BacklogInv, StagedFinite, StopSeen, Pending
<1>3. OwedOldest'
  BY <1>1, <1>2 DEF BacklogInv, OwedOldest, Pending
<1>4. OwedInHand'
  BY <1>1 DEF BacklogInv, OwedInHand, Fits, StopSeen
<1> QED BY <1>2, <1>3, <1>4 DEF BacklogInv

LEMMA RestartBacklog ==
    ASSUME BInv, BacklogInv, Restart
    PROVE  BacklogInv'
<1>1. UNCHANGED <<at, processed>> /\ mu' = "free" /\ pump' = "startup"
      /\ owed' = Pending /\ Pending' = Pending
  BY DEF Restart, RestartAt, disk, Pending
<1> QED BY <1>1 DEF BacklogInv, StagedFinite, OwedOldest, OwedInHand, Pending,
           StopSeen

LEMMA StepBacklog ==
    ASSUME RankMonotone, BInv, BacklogInv, [Next]_vars
    PROVE  BacklogInv'
<1>1. CASE UNCHANGED vars
  BY <1>1, IdleBacklog DEF vars, disk, drain, stopping
<1>2. ASSUME NEW c \in Copies, Load(c)
      PROVE  BacklogInv'
  BY <1>2, IdleBacklog DEF Load, disk, drain, stopping
<1>3. ASSUME NEW e \in Events,
             Sequence(e) \/ AppendDirect(e) \/ Reject(e)
             \/ DrainRecord(e) \/ DrainRecordFails(e)
      PROVE  BacklogInv'
  BY <1>3, IdleBacklog DEF Sequence, AppendDirect, Reject, DrainRecord,
     DrainRecordFails, Fault, disk, drain, stopping
<1>4. ASSUME NEW s \in Stoppers, StopReturn(s)
      PROVE  BacklogInv'
  BY <1>4, IdleBacklog DEF StopReturn, disk, drain
<1> QED
  BY <1>1, <1>2, <1>3, <1>4, AppendToOutboxBacklog, DrainBeginBacklog,
     DrainQueryFailsBacklog, DrainMarkBacklog, DrainReturnsBacklog, PumpBacklog,
     StopCallBacklog, RestartBacklog DEF Next, DrainStep, DrainReturns

-----------------------------------------------------------------------------
\* The theorems.

LEMMA BacklogInvariant ==
    ASSUME RankMonotone
    PROVE  Spec => []BacklogInv
BY BaseInvariant, InitBacklog, StepBacklog, PTL DEF Spec

\* Before run starts polling, its startup drain has dealt with all the
\* previous process left pending, for every LIMIT that holds it.
THEOREM StartupRecovery ==
    ASSUME RankMonotone
    PROVE  Spec => []StartupRecovers
<1>1. BacklogInv => StartupRecovers
  BY DEF BacklogInv, OwedInHand, Fits, StartupRecovers, Cleared
<1> QED BY BacklogInvariant, <1>1, PTL

\* When run is done, its last drain has dealt with all that was pending when
\* Stop was first called, for every LIMIT that holds it.
THEOREM LastFlush ==
    ASSUME RankMonotone
    PROVE  Spec => []StopFlushes
<1>1. BacklogInv => StopFlushes
  BY DEF BacklogInv, OwedInHand, Fits, StopFlushes, Cleared
<1> QED BY BacklogInvariant, <1>1, PTL

=============================================================================

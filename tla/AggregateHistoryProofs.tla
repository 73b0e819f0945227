------------------------ MODULE AggregateHistoryProofs ------------------------
(***************************************************************************)
(* Proofs about the histories of aggregates, for any number of users,      *)
(* commands and failed saves.                                              *)
(*                                                                         *)
(* A copy stands for the rows it has seen and will add: its trace, which   *)
(* its saved part of the history begins and its pending events continue.   *)
(* The invariant says that every trace is lawful, each of its events is    *)
(* one that a command emits from what the rows before it replay to, and    *)
(* that it replays to the copy.  A save that is admitted makes the trace   *)
(* (or a part of it) the history, so the history is lawful too, and        *)
(* whatever holds of lawful rows holds of it.                              *)
(***************************************************************************)
EXTENDS AggregateHistory, AggregateKindsProofs

\* The events a command may emit, by kind.
Emitted(k, agg, now) ==
    CASE k = "Order" -> OrderPlace(agg.state, now) \cup OrderModify(agg.state, now)
                        \cup OrderCancel(agg.state, now) \cup OrderFill(agg.state, now)
      [] k = "Alert" -> AlertCreate(agg.version, now) \cup AlertTrigger(agg.state, now)
                        \cup AlertDelete(agg.state, now)
      [] k = "Position" -> PositionOpen(agg.version, now)
                           \cup PositionClose(agg.state, now)

\* Every row is of an event that a command emits after the rows before it.
LawfulAt(k, rows, n) ==
    LET e == EventOf(k, rows[n])
    IN  /\ e.type = rows[n].type
        /\ e \in Emitted(k, LoadFromEvents(k, Prefix(rows, n - 1)), rows[n].at)

Lawful(k, rows) == \A n \in 1 .. Len(rows) : LawfulAt(k, rows, n)

\* Times of rows increase and are not in the future.
Timed(rows, now) ==
    /\ \A n \in 1 .. Len(rows) : rows[n].at \in Nat /\ n <= rows[n].at /\ rows[n].at <= now
    /\ \A m, n \in 1 .. Len(rows) : m < n => rows[m].at < rows[n].at

Sound(rows) == IsSeq(rows) /\ Lawful(kind, rows) /\ Timed(rows, clock)

RowOf(e) == [type |-> e.type, at |-> e.at, payload |-> Payload(e)]

\* The rows of a copy: those it has seen and those it would save.
Trace(c) ==
    [n \in 1 .. c.version |->
        IF n <= Saved(c) THEN history[n] ELSE RowOf(c.pending[n - Saved(c)])]

CopySound(c) ==
    /\ c = [state |-> c.state, version |-> c.version, pending |-> c.pending]
    /\ c.version \in Nat
    /\ IsSeq(c.pending) /\ Len(c.pending) <= c.version
    /\ Saved(c) <= Len(history)
    /\ Sound(Trace(c))
    /\ LoadFromEvents(kind, Trace(c)) = ClearPendingEvents(c)

HistoryInv ==
    /\ kind \in Kinds
    /\ clock \in Nat
    /\ Sound(history)
    /\ DOMAIN copy = Users
    /\ \A c \in Copies : CopySound(c)


-----------------------------------------------------------------------------
\* What commands emit, and when.

LEMMA OrderEmits ==
    ASSUME NEW agg, NEW now, NEW e \in Emitted("Order", agg, now)
    PROVE  LET o == agg.state
           IN  \/ /\ o.status = "NEW"
                  /\ e = [type |-> "OrderPlaced", at |-> now, terms |-> e.terms,
                          order_type |-> e.order_type, qty |-> e.qty,
                          price |-> e.price]
                  /\ e.qty \in Int /\ e.qty > 0
               \/ /\ OrderCanModify(o)
                  /\ e = [type |-> "OrderModified", at |-> now, qty |-> e.qty,
                          price |-> e.price, order_type |-> e.order_type]
                  /\ e.qty \in Int /\ e.qty > 0
                  /\ <<e.qty, e.price, e.order_type>> # <<o.qty, o.price, o.order_type>>
               \/ /\ OrderCanCancel(o)
                  /\ e = [type |-> "OrderCancelled", at |-> now]
               \/ /\ OrderCanFill(o)
                  /\ e = [type |-> "OrderFilled", at |-> now, qty |-> e.qty,
                          price |-> e.price]
                  /\ e.qty \in Int /\ e.qty > 0
<1> DEFINE o == agg.state
<1>1. e \in OrderPlace(o, now) \cup OrderModify(o, now)
             \cup OrderCancel(o, now) \cup OrderFill(o, now)
  BY DEF Emitted
<1> HIDE DEF o
<1>2. CASE e \in OrderPlace(o, now)
  BY <1>2, NumberAssumption DEF OrderPlace, ValidQuantity, o
<1>3. CASE e \in OrderModify(o, now)
  <2>1. PICK qty \in Quantities, price \in Prices, order_type \in OrderTypes \cup {""} :
          /\ e = ModifiedEvent(o, qty, price, order_type, now)
          /\ OrderCanModify(o) /\ ValidQuantity(qty)
          /\ ~(qty = o.qty /\ price = o.price /\ order_type \in {"", o.order_type})
    BY <1>3 DEF OrderModify
  <2>2. /\ e = [type |-> "OrderModified", at |-> now, qty |-> e.qty,
                price |-> e.price, order_type |-> e.order_type]
        /\ e.qty = qty /\ e.price = price
        /\ e.order_type = IF order_type = "" THEN o.order_type ELSE order_type
    BY <2>1 DEF ModifiedEvent
  <2>3. <<e.qty, e.price, e.order_type>> # <<o.qty, o.price, o.order_type>>
    BY <2>1, <2>2
  <2> QED BY <2>1, <2>2, <2>3, NumberAssumption DEF ValidQuantity, o
<1>4. CASE e \in OrderCancel(o, now)
  BY <1>4 DEF OrderCancel, o
<1>5. CASE e \in OrderFill(o, now)
  BY <1>5, NumberAssumption DEF OrderFill, ValidQuantity, o
<1> QED BY <1>1, <1>2, <1>3, <1>4, <1>5

LEMMA AlertEmits ==
    ASSUME NEW agg, NEW now, NEW e \in Emitted("Alert", agg, now)
    PROVE  \/ /\ agg.version = 0
              /\ e = [type |-> "AlertCreated", at |-> now, terms |-> e.terms,
                      price |-> e.price]
           \/ /\ AlertCanTrigger(agg.state)
              /\ e = [type |-> "AlertTriggered", at |-> now]
           \/ /\ AlertCanDelete(agg.state)
              /\ e = [type |-> "AlertDeleted", at |-> now]
<1>1. e \in AlertCreate(agg.version, now) \cup AlertTrigger(agg.state, now)
             \cup AlertDelete(agg.state, now)
  BY DEF Emitted
<1> QED BY <1>1 DEF AlertCreate, AlertTrigger, AlertDelete

LEMMA PositionEmits ==
    ASSUME NEW agg, NEW now, NEW e \in Emitted("Position", agg, now)
    PROVE  \/ /\ agg.version = 0
              /\ e = [type |-> "PositionOpened", at |-> now, terms |-> e.terms,
                      qty |-> e.qty, price |-> e.price]
              /\ e.qty \in Int /\ e.qty > 0
           \/ /\ PositionCanClose(agg.state)
              /\ e = [type |-> "PositionClosed", at |-> now]
<1>1. e \in PositionOpen(agg.version, now) \cup PositionClose(agg.state, now)
  BY DEF Emitted
<1> QED BY <1>1, NumberAssumption DEF PositionOpen, PositionClose, ValidQuantity

\* Stored and read back, an event is what it was.
LEMMA StoredAndRead ==
    ASSUME kind \in Kinds, NEW agg, NEW now, NEW e \in Emitted(kind, agg, now)
    PROVE  EventOf(kind, RowOf(e)) = e /\ RowOf(e).type = e.type /\ e.at = now
           /\ RowOf(e).at = now
<1>1. CASE kind = "Order"
  <2>1. EventOf(kind, RowOf(e)) = OrderEvent(RowOf(e)) /\ Payload(e) = OrderPayload(e)
    BY <1>1 DEF EventOf, Payload
  <2> QED BY <1>1, <2>1, OrderEmits DEF RowOf, OrderPayload, OrderEvent,
          QuantityOrZero, ValidQuantity
<1>2. CASE kind = "Alert"
  <2>1. EventOf(kind, RowOf(e)) = AlertEvent(RowOf(e)) /\ Payload(e) = AlertPayload(e)
    BY <1>2 DEF EventOf, Payload
  <2> QED BY <1>2, <2>1, AlertEmits DEF RowOf, AlertPayload, AlertEvent
<1>3. CASE kind = "Position"
  <2>1. EventOf(kind, RowOf(e)) = PositionEvent(RowOf(e))
        /\ Payload(e) = PositionPayload(e)
    BY <1>3 DEF EventOf, Payload
  <2> QED BY <1>3, <2>1, PositionEmits DEF RowOf, PositionPayload, PositionEvent,
          QuantityOrZero, ValidQuantity
<1> QED BY <1>1, <1>2, <1>3, KindAssumption

-----------------------------------------------------------------------------
\* Where an event leads.

StatusAfter(type) ==
    CASE type = "OrderPlaced" -> "PLACED"
      [] type = "OrderModified" -> "MODIFIED"
      [] type = "OrderCancelled" -> "CANCELLED"
      [] type = "OrderFilled" -> "FILLED"
      [] type = "AlertCreated" -> "ACTIVE"
      [] type = "AlertTriggered" -> "TRIGGERED"
      [] type = "AlertDeleted" -> "DELETED"
      [] type = "PositionOpened" -> "OPEN"
      [] type = "PositionClosed" -> "CLOSED"

LEMMA AppliedState ==
    ASSUME NEW k \in {"Order", "Alert", "Position"}, NEW agg, NEW now,
           NEW e \in Emitted(k, agg, now),
           DOMAIN agg.state = DOMAIN NewState(k)
    PROVE  LET s == ApplyState(k, agg.state, e)
           IN  /\ DOMAIN s = DOMAIN NewState(k)
               /\ s.status = StatusAfter(e.type)
               /\ e.type = "OrderModified" =>
                    s.qty = e.qty /\ s.price = e.price /\ s.order_type = e.order_type
<1>1. CASE k = "Order"
  <2>1. DOMAIN agg.state =
          {"status", "terms", "order_type", "qty", "price", "filled_qty",
           "filled_price", "modify_count", "placed_at", "modified_at",
           "cancelled_at", "filled_at"}
    BY <1>1 DEF NewState, OrderNew
  <2> QED BY <1>1, <2>1, OrderEmits DEF ApplyState, OrderApply, StatusAfter
<1>2. CASE k = "Alert"
  <2>1. DOMAIN agg.state =
          {"status", "terms", "target_price", "created_at", "triggered_at",
           "deleted_at"}
    BY <1>2 DEF NewState, AlertNew
  <2> QED BY <1>2, <2>1, AlertEmits DEF ApplyState, AlertApply, StatusAfter
<1>3. CASE k = "Position"
  <2>1. DOMAIN agg.state =
          {"status", "terms", "qty", "avg_price", "opened_at", "closed_at"}
    BY <1>3 DEF NewState, PositionNew
  <2> QED BY <1>3, <2>1, PositionEmits DEF ApplyState, PositionApply, Opened,
          StatusAfter
<1> QED BY <1>1, <1>2, <1>3

-----------------------------------------------------------------------------
\* Lawful rows.

LEMMA SubSeqIsPrefix ==
    ASSUME NEW rows, IsSeq(rows), NEW n \in 0 .. Len(rows)
    PROVE  SubSeq(rows, 1, n) = Prefix(rows, n)
<1>1. rows \in Seq(Range(rows)) /\ Len(rows) \in Nat
  BY IsSequence DEF IsSeq
<1> QED BY <1>1 DEF Prefix

\* What the rows before one replay to, and what it adds.
LEMMA LoadPrefix ==
    ASSUME NEW k \in {"Order", "Alert", "Position"}, NEW rows, IsSeq(rows),
           Lawful(k, rows), NEW n \in 1 .. Len(rows)
    PROVE  LET before == LoadFromEvents(k, Prefix(rows, n - 1))
               e == EventOf(k, rows[n])
           IN  /\ e.type = rows[n].type
               /\ e \in Emitted(k, before, rows[n].at)
               /\ before.version = n - 1
               /\ LoadFromEvents(k, Prefix(rows, n)) = Apply(k, before, e)
               /\ LoadFromEvents(k, Prefix(rows, n)).state
                    = ApplyState(k, before.state, e)
<1>1. n \in Nat /\ n - 1 \in Nat /\ n = (n - 1) + 1 /\ n \in 1 .. n
  BY DEF IsSeq
<1>2. /\ IsSeq(Prefix(rows, n - 1)) /\ Len(Prefix(rows, n - 1)) = n - 1
      /\ IsSeq(Prefix(rows, n)) /\ Len(Prefix(rows, n)) = n
      /\ \A m \in 1 .. n - 1 : Prefix(rows, n)[m] = Prefix(rows, n - 1)[m]
      /\ Prefix(rows, n)[n] = rows[n]
  BY <1>1, PrefixOf
<1>3. /\ LoadFromEvents(k, Prefix(rows, n)) =
            Apply(k, LoadFromEvents(k, Prefix(rows, n - 1)), EventOf(k, rows[n]))
      /\ LoadFromEvents(k, Prefix(rows, n)).state =
            ApplyState(k, LoadFromEvents(k, Prefix(rows, n - 1)).state,
                       EventOf(k, rows[n]))
  BY <1>1, <1>2, LoadStep
<1>4. LoadFromEvents(k, Prefix(rows, n - 1)).version = n - 1
  BY <1>2, LoadIsReplay DEF IsLoaded
<1> QED BY <1>3, <1>4 DEF Lawful, LawfulAt

LEMMA LoadPrefixNothing ==
    ASSUME NEW k, NEW rows
    PROVE  LoadFromEvents(k, Prefix(rows, 0)) = Fresh(NewState(k))
BY PrefixOf, LoadNothing

\* Rows lead to a state with the fields of its kind.
LEMMA LoadedFields ==
    ASSUME NEW k \in {"Order", "Alert", "Position"}, NEW rows, IsSeq(rows),
           Lawful(k, rows), NEW n \in 0 .. Len(rows)
    PROVE  DOMAIN LoadFromEvents(k, Prefix(rows, n)).state = DOMAIN NewState(k)
<1> DEFINE Good(m) == m <= Len(rows) =>
              DOMAIN LoadFromEvents(k, Prefix(rows, m)).state = DOMAIN NewState(k)
           S == {m \in Nat : Good(m)}
<1>1. 0 \in S
  BY LoadPrefixNothing DEF Fresh
<1>2. \A m \in Nat : m \in S => m + 1 \in S
  <2> SUFFICES ASSUME NEW m \in Nat, m \in S PROVE m + 1 \in S
    OBVIOUS
  <2>1. CASE m + 1 <= Len(rows)
    <3> DEFINE before == LoadFromEvents(k, Prefix(rows, m))
               e == EventOf(k, rows[m + 1])
    <3>1. m + 1 \in 1 .. Len(rows) /\ (m + 1) - 1 = m
      BY <2>1 DEF IsSeq
    <3>2. /\ e \in Emitted(k, before, rows[m + 1].at)
          /\ LoadFromEvents(k, Prefix(rows, m + 1)).state
                = ApplyState(k, before.state, e)
      BY <3>1, LoadPrefix
    <3>3. DOMAIN before.state = DOMAIN NewState(k)
      BY <2>1 DEF IsSeq
    <3> HIDE DEF before, e
    <3>4. DOMAIN ApplyState(k, before.state, e) = DOMAIN NewState(k)
      BY <3>2, <3>3, AppliedState
    <3> QED BY <3>2, <3>4
  <2> QED BY <2>1
<1> HIDE DEF S
<1>3. n \in S
  BY <1>1, <1>2, Inductive DEF IsSeq
<1> QED BY <1>3 DEF S, IsSeq

\* The status after a row is the one its type says.
LEMMA StatusAfterRow ==
    ASSUME NEW k \in {"Order", "Alert", "Position"}, NEW rows, IsSeq(rows),
           Lawful(k, rows), NEW n \in 1 .. Len(rows)
    PROVE  LET s == LoadFromEvents(k, Prefix(rows, n)).state
               e == EventOf(k, rows[n])
           IN  /\ s.status = StatusAfter(rows[n].type)
               /\ rows[n].type = "OrderModified" =>
                    s.qty = e.qty /\ s.price = e.price /\ s.order_type = e.order_type
<1> DEFINE before == LoadFromEvents(k, Prefix(rows, n - 1))
           e == EventOf(k, rows[n])
<1>1. /\ e.type = rows[n].type /\ e \in Emitted(k, before, rows[n].at)
      /\ LoadFromEvents(k, Prefix(rows, n)).state = ApplyState(k, before.state, e)
  BY LoadPrefix
<1>2. DOMAIN before.state = DOMAIN NewState(k)
  BY LoadedFields DEF IsSeq
<1> HIDE DEF before
<1> QED BY <1>1, <1>2, AppliedState

\* The types of two rows that follow each other.
LEMMA NextRow ==
    ASSUME NEW k \in {"Order", "Alert", "Position"}, NEW rows, IsSeq(rows),
           Lawful(k, rows), NEW n \in 1 .. Len(rows), n + 1 <= Len(rows)
    PROVE  /\ rows[n].type \notin Final
           /\ rows[n + 1].type \notin First
           /\ rows[n].type = "AlertTriggered" => rows[n + 1].type = "AlertDeleted"
<1> DEFINE before == LoadFromEvents(k, Prefix(rows, n - 1))
           e == EventOf(k, rows[n])
           agg == LoadFromEvents(k, Prefix(rows, n))
           f == EventOf(k, rows[n + 1])
<1>1. n \in Nat /\ n + 1 \in 1 .. Len(rows) /\ (n + 1) - 1 = n
  BY DEF IsSeq
<1>2. e.type = rows[n].type /\ e \in Emitted(k, before, rows[n].at)
  BY LoadPrefix
<1>3. f.type = rows[n + 1].type /\ f \in Emitted(k, agg, rows[n + 1].at)
      /\ agg.version = n
  BY <1>1, LoadPrefix
<1>4. agg.state.status = StatusAfter(rows[n].type)
  BY StatusAfterRow
<1> HIDE DEF before, e, agg, f
<1>5. CASE k = "Order"
  <2>1. rows[n].type \in {"OrderPlaced", "OrderModified", "OrderCancelled", "OrderFilled"}
    BY <1>2, <1>5, OrderEmits
  <2>2. /\ agg.state.status \notin {"NEW", "CANCELLED", "FILLED"}
        /\ f.type \in {"OrderModified", "OrderCancelled", "OrderFilled"}
    <3>1. agg.state.status # "NEW"
      BY <1>4, <2>1 DEF StatusAfter
    <3> QED BY <1>3, <1>5, <3>1, OrderEmits DEF OrderCanModify, OrderCanCancel,
            OrderCanFill
  <2> QED BY <1>3, <1>4, <2>1, <2>2 DEF StatusAfter, Final, First
<1>6. CASE k = "Alert"
  <2>1. rows[n].type \in {"AlertCreated", "AlertTriggered", "AlertDeleted"}
    BY <1>2, <1>6, AlertEmits
  <2>2. \/ f.type = "AlertTriggered" /\ agg.state.status = "ACTIVE"
        \/ f.type = "AlertDeleted" /\ agg.state.status # "DELETED"
    <3>1. f \in Emitted("Alert", agg, rows[n + 1].at) /\ agg.version # 0
      BY <1>1, <1>3, <1>6
    <3>2. \/ AlertCanTrigger(agg.state) /\ f.type = "AlertTriggered"
          \/ AlertCanDelete(agg.state) /\ f.type = "AlertDeleted"
      BY <3>1, AlertEmits
    <3> QED BY <3>2 DEF AlertCanTrigger, AlertCanDelete
  <2> QED BY <1>3, <1>4, <2>1, <2>2 DEF StatusAfter, Final, First
<1>7. CASE k = "Position"
  <2>1. rows[n].type \in {"PositionOpened", "PositionClosed"}
    BY <1>2, <1>7, PositionEmits
  <2>2. f.type = "PositionClosed" /\ agg.state.status = "OPEN"
    BY <1>1, <1>3, <1>7, PositionEmits DEF PositionCanClose
  <2> QED BY <1>3, <1>4, <2>1, <2>2 DEF StatusAfter, Final, First
<1> QED BY <1>5, <1>6, <1>7

-----------------------------------------------------------------------------
\* What the properties ask of the history holds of all sound rows.

LEMMA SoundIsLegal ==
    ASSUME HistoryInv
    PROVE  LegalHistory /\ PlacedFirst
<1>1. /\ kind \in {"Order", "Alert", "Position"} /\ IsSeq(history)
      /\ Lawful(kind, history)
  BY KindAssumption DEF HistoryInv, Sound
<1>2. LegalHistory
  <2> SUFFICES ASSUME NEW i \in 1 .. Len(history), NEW j \in 1 .. Len(history), i < j
               PROVE  /\ history[i].type \notin Final
                      /\ history[j].type \notin First
                      /\ history[i].type = "AlertTriggered" =>
                            history[j].type = "AlertDeleted"
    BY DEF LegalHistory
  <2>1. /\ i \in Nat /\ j \in Nat /\ Len(history) \in Nat /\ i + 1 <= Len(history)
        /\ j - 1 \in 1 .. Len(history) /\ (j - 1) + 1 = j /\ i + 1 \in 1 .. Len(history)
    BY <1>1 DEF IsSeq
  <2>2. /\ history[i].type \notin Final
        /\ history[i].type = "AlertTriggered" => history[i + 1].type = "AlertDeleted"
    BY <1>1, <2>1, NextRow
  <2>3. history[j].type \notin First
    <3> DEFINE n == j - 1
    <3>1. n \in 1 .. Len(history) /\ n + 1 <= Len(history) /\ n + 1 = j
      BY <2>1
    <3> HIDE DEF n
    <3>2. history[n + 1].type \notin First
      BY <1>1, <3>1, NextRow
    <3> QED BY <3>1, <3>2
  <2>4. i + 1 < j => history[i + 1].type \notin Final
    BY <1>1, <2>1, NextRow
  <2> QED BY <2>1, <2>2, <2>3, <2>4 DEF Final
<1>3. PlacedFirst
  <2> SUFFICES ASSUME kind = "Order", history # << >>
               PROVE  history[1].type = "OrderPlaced"
    BY DEF PlacedFirst
  <2>1. 1 \in 1 .. Len(history) /\ 1 - 1 = 0
    <3>1. Len(history) # 0
      <4> SUFFICES ASSUME Len(history) = 0 PROVE FALSE
        OBVIOUS
      <4>1. history \in Seq(Range(history))
        BY <1>1, IsSequence DEF IsSeq
      <4> QED BY <4>1
    <3> QED BY <1>1, <3>1 DEF IsSeq
  <2> DEFINE before == LoadFromEvents(kind, Prefix(history, 0))
             e == EventOf(kind, history[1])
  <2>2. e.type = history[1].type /\ e \in Emitted(kind, before, history[1].at)
    BY <1>1, <2>1, LoadPrefix
  <2>3. before.state.status = "NEW"
    <3>1. before = Fresh(OrderNew)
      BY LoadPrefixNothing DEF NewState
    <3>2. Fresh(OrderNew).state.status = "NEW"
      BY DEF Fresh, OrderNew
    <3> HIDE DEF before
    <3> QED BY <3>1, <3>2
  <2> HIDE DEF before, e
  <2> QED BY <2>2, <2>3, OrderEmits DEF OrderCanModify, OrderCanCancel, OrderCanFill
<1> QED BY <1>2, <1>3

LEMMA SoundRecordsOnce ==
    ASSUME HistoryInv
    PROVE  RecordedOnce /\ Len(history) <= clock
<1>1. IsSeq(history) /\ Timed(history, clock) /\ clock \in Nat
  BY DEF HistoryInv, Sound
<1>2. RecordedOnce
  BY <1>1 DEF IsSeq, Timed, RecordedOnce
<1>3. Len(history) # 0 => Len(history) \in 1 .. Len(history)
  BY <1>1 DEF IsSeq
<1>4. Len(history) # 0 => history[Len(history)].at \in Nat
        /\ Len(history) <= history[Len(history)].at
        /\ history[Len(history)].at <= clock
  BY <1>1, <1>3 DEF Timed
<1>5. Len(history) <= clock
  BY <1>1, <1>4 DEF IsSeq
<1> QED BY <1>2, <1>5

LEMMA SoundChanges ==
    ASSUME HistoryInv
    PROVE  ModifiesChange
<1>1. /\ kind \in {"Order", "Alert", "Position"} /\ IsSeq(history)
      /\ Lawful(kind, history)
  BY KindAssumption DEF HistoryInv, Sound
<1> SUFFICES ASSUME NEW i \in 1 .. Len(history), history[i].type = "OrderModified"
             PROVE  LET before == LoadFromEvents(kind, SubSeq(history, 1, i - 1)).state
                        after == LoadFromEvents(kind, SubSeq(history, 1, i)).state
                    IN  <<before.qty, before.price, before.order_type>>
                        # <<after.qty, after.price, after.order_type>>
  BY DEF ModifiesChange
<1> DEFINE before == LoadFromEvents(kind, Prefix(history, i - 1))
           after == LoadFromEvents(kind, Prefix(history, i)).state
           e == EventOf(kind, history[i])
<1>2. SubSeq(history, 1, i - 1) = Prefix(history, i - 1)
      /\ SubSeq(history, 1, i) = Prefix(history, i)
  <2>1. i - 1 \in 0 .. Len(history) /\ i \in 0 .. Len(history)
    BY <1>1 DEF IsSeq
  <2> QED BY <1>1, <2>1, SubSeqIsPrefix
<1>3. e.type = "OrderModified" /\ e \in Emitted(kind, before, history[i].at)
  BY <1>1, LoadPrefix
<1>4. after.qty = e.qty /\ after.price = e.price /\ after.order_type = e.order_type
  BY <1>1, StatusAfterRow
<1> HIDE DEF before, after, e
<1>5. kind = "Order"
  BY <1>1, <1>3, AlertEmits, PositionEmits
<1>6. <<e.qty, e.price, e.order_type>>
        # <<before.state.qty, before.state.price, before.state.order_type>>
  BY <1>3, <1>5, OrderEmits
<1>7. <<before.state.qty, before.state.price, before.state.order_type>>
        # <<after.qty, after.price, after.order_type>>
  BY <1>4, <1>6
<1> QED BY <1>2, <1>7 DEF before, after

-----------------------------------------------------------------------------
\* Traces.

LEMMA TraceSeq ==
    ASSUME NEW c, c.version \in Nat
    PROVE  /\ IsSeq(Trace(c)) /\ Len(Trace(c)) = c.version
           /\ \A n \in 1 .. c.version :
                Trace(c)[n] = IF n <= Saved(c) THEN history[n]
                              ELSE RowOf(c.pending[n - Saved(c)])
<1>1. /\ Trace(c) = [n \in 1 .. c.version |-> Trace(c)[n]]
      /\ \A n \in 1 .. c.version :
            Trace(c)[n] = IF n <= Saved(c) THEN history[n]
                          ELSE RowOf(c.pending[n - Saved(c)])
  BY DEF Trace
<1> QED BY <1>1, IsSequence

\* Two sequences that agree are one.
LEMMA SameSeq ==
    ASSUME NEW s, NEW t, IsSeq(s), IsSeq(t), Len(s) = Len(t),
           \A n \in 1 .. Len(s) : s[n] = t[n]
    PROVE  s = t
BY DEF IsSeq

\* The first n rows of a copy's trace, when the history ends where its
\* pending events begin.
LEMMA Concatenated ==
    ASSUME NEW c, CopySound(c), NEW rows, IsSeq(rows), Len(rows) = Saved(c),
           \A m \in 1 .. Len(rows) : rows[m] = history[m],
           NEW n \in 0 .. Len(c.pending)
    PROVE  LET all == rows \o SubSeq(StoredEvents(c), 1, n)
           IN  /\ IsSeq(all) /\ Len(all) = Saved(c) + n
               /\ \A m \in 1 .. Saved(c) + n : all[m] = Trace(c)[m]
<1> DEFINE stored == StoredEvents(c)
           some == SubSeq(stored, 1, n)
           X == Range(rows) \cup Range(stored)
           all == rows \o some
<1>1. /\ c.version \in Nat /\ Len(c.pending) \in Nat /\ n \in Nat
      /\ Saved(c) \in Nat /\ c.version = Saved(c) + Len(c.pending)
  BY DEF CopySound, Saved, IsSeq
<1>2. /\ stored = [i \in 1 .. Len(c.pending) |-> stored[i]]
      /\ \A i \in 1 .. Len(c.pending) : stored[i] = RowOf(c.pending[i])
  BY DEF StoredEvents, RowOf
<1>3. stored \in Seq(X) /\ Len(stored) = Len(c.pending)
  BY <1>1, <1>2, IsSequence
<1>4. rows \in Seq(X)
  BY IsSequence DEF IsSeq
<1> HIDE DEF stored, X
<1>5. /\ some \in Seq(X) /\ Len(some) = n
      /\ \A i \in 1 .. n : some[i] = stored[i]
  BY <1>1, <1>3
<1> HIDE DEF some
<1>6. /\ all \in Seq(X) /\ Len(all) = Saved(c) + n
      /\ \A m \in 1 .. Saved(c) + n :
            all[m] = IF m <= Saved(c) THEN rows[m] ELSE some[m - Saved(c)]
  BY <1>1, <1>4, <1>5
<1> HIDE DEF all
<1>7. IsSeq(all)
  BY <1>6, <1>1 DEF IsSeq
<1>8. ASSUME NEW m \in 1 .. Saved(c) + n PROVE all[m] = Trace(c)[m]
  <2>1. m \in 1 .. c.version
    BY <1>1
  <2>2. Trace(c)[m] = IF m <= Saved(c) THEN history[m] ELSE RowOf(c.pending[m - Saved(c)])
    BY <1>1, <2>1, TraceSeq
  <2>3. CASE m <= Saved(c)
    BY <1>1, <1>6, <2>2, <2>3
  <2>4. CASE m > Saved(c)
    <3>1. m - Saved(c) \in 1 .. n /\ m - Saved(c) \in 1 .. Len(c.pending)
      BY <1>1, <2>4
    <3>2. all[m] = some[m - Saved(c)] /\ ~(m <= Saved(c))
      BY <1>1, <1>6, <2>4
    <3>3. some[m - Saved(c)] = stored[m - Saved(c)]
      BY <1>5, <3>1
    <3> QED BY <1>2, <2>2, <3>1, <3>2, <3>3
  <2> QED BY <1>1, <2>3, <2>4
<1> QED BY <1>6, <1>7, <1>8 DEF all, some, stored

\* All of the stored events.
LEMMA AllStored ==
    ASSUME NEW c, CopySound(c)
    PROVE  SubSeq(StoredEvents(c), 1, Len(c.pending)) = StoredEvents(c)
<1> DEFINE stored == StoredEvents(c)
<1>1. Len(c.pending) \in Nat
  BY DEF CopySound, IsSeq
<1>2. stored = [i \in 1 .. Len(c.pending) |-> stored[i]]
  BY DEF StoredEvents
<1>3. stored \in Seq(Range(stored)) /\ Len(stored) = Len(c.pending)
  BY <1>1, <1>2, IsSequence
<1> HIDE DEF stored
<1> QED BY <1>3 DEF stored

LEMMA TraceIsHistoryAndPending ==
    ASSUME NEW c, CopySound(c), IsSeq(history)
    PROVE  SubSeq(history, 1, Saved(c)) \o StoredEvents(c) = Trace(c)
<1> DEFINE rows == SubSeq(history, 1, Saved(c))
<1>1. /\ c.version \in Nat /\ Len(c.pending) \in 0 .. Len(c.pending)
      /\ Saved(c) \in 0 .. Len(history) /\ c.version = Saved(c) + Len(c.pending)
  BY DEF CopySound, Saved, IsSeq
<1>2. /\ IsSeq(rows) /\ Len(rows) = Saved(c)
      /\ \A m \in 1 .. Len(rows) : rows[m] = history[m]
  <2>1. rows = Prefix(history, Saved(c)) /\ Saved(c) \in Nat
    BY <1>1, SubSeqIsPrefix DEF IsSeq
  <2> HIDE DEF rows
  <2> QED BY <2>1, PrefixOf
<1> HIDE DEF rows
<1> DEFINE some == SubSeq(StoredEvents(c), 1, Len(c.pending))
           all == rows \o some
<1>3. /\ IsSeq(all) /\ Len(all) = Saved(c) + Len(c.pending)
      /\ \A m \in 1 .. Saved(c) + Len(c.pending) : all[m] = Trace(c)[m]
  BY <1>1, <1>2, Concatenated
<1>4. some = StoredEvents(c)
  BY AllStored
<1> HIDE DEF all, some
<1>5. all = Trace(c)
  BY <1>1, <1>3, TraceSeq, SameSeq
<1> QED BY <1>4, <1>5 DEF all, rows

-----------------------------------------------------------------------------
\* Every step keeps the invariant.

LEMMA InitHistoryInv == Init => HistoryInv
<1> SUFFICES ASSUME Init PROVE HistoryInv
  OBVIOUS
<1>1. Copies = {}
  BY DEF Init, Copies
<1>2. Len(history) = 0 /\ IsSeq(history)
  <2>1. history = [n \in 1 .. 0 |-> history[n]]
    BY DEF Init
  <2> QED BY <2>1, IsSequence
<1> QED BY <1>1, <1>2 DEF Init, HistoryInv, Sound, Lawful, Timed

\* A step that only adds to the history leaves the trace of a copy as it was.
LEMMA SameTrace ==
    ASSUME NEW c, c.version \in Nat, Saved(c) <= Len(history),
           Len(history) \in Nat, UNCHANGED kind,
           \A n \in 1 .. Len(history) : history'[n] = history[n]
    PROVE  Trace(c)' = Trace(c)
<1>1. \A e : RowOf(e)' = RowOf(e)
  BY DEF RowOf, Payload
<1>2. \A n \in 1 .. c.version : n <= Saved(c) => history'[n] = history[n]
  BY DEF Saved
<1> QED BY <1>1, <1>2 DEF Trace, Saved

LEMMA SoundLater ==
    ASSUME NEW rows, Sound(rows), UNCHANGED kind, clock \in Nat, clock' \in Nat,
           clock <= clock'
    PROVE  Sound(rows)'
<1>1. Timed(rows, clock')
  BY DEF Sound, Timed
<1> QED BY <1>1 DEF Sound

LEMMA SameCopy ==
    ASSUME NEW c, CopySound(c), HistoryInv, UNCHANGED kind, clock' \in Nat,
           clock <= clock', Len(history') \in Nat, Len(history) <= Len(history'),
           \A n \in 1 .. Len(history) : history'[n] = history[n]
    PROVE  CopySound(c)'
<1>1. /\ Len(history) \in Nat /\ clock \in Nat
      /\ c.version \in Nat /\ Len(c.pending) \in Nat /\ Saved(c) <= Len(history)
      /\ Sound(Trace(c)) /\ LoadFromEvents(kind, Trace(c)) = ClearPendingEvents(c)
  BY DEF HistoryInv, Sound, IsSeq, CopySound
<1>2. Trace(c)' = Trace(c)
  BY <1>1, SameTrace
<1>3. Sound(Trace(c))'
  <2> DEFINE rows == Trace(c)
  <2>1. Timed(rows, clock')
    BY <1>1 DEF Sound, Timed
  <2> QED BY <1>1, <1>2, <2>1 DEF Sound
<1>4. Saved(c) <= Len(history')
  BY <1>1 DEF Saved
<1> QED BY <1>1, <1>2, <1>3, <1>4 DEF CopySound

LEMMA CopiesAfter ==
    ASSUME DOMAIN copy = Users, NEW u \in Users, NEW c, copy' = [copy EXCEPT ![u] = c]
    PROVE  DOMAIN copy' = Users /\ \A b \in Copies' : b \in Copies \/ b = c
BY DEF Copies

LEMMA LoadHistoryInv ==
    ASSUME HistoryInv, NEW u \in Users, Load(u)
    PROVE  HistoryInv'
<1> DEFINE agg == LoadFromEvents(kind, history)
<1>1. /\ IsSeq(history) /\ Len(history) \in Nat /\ DOMAIN copy = Users
      /\ clock \in Nat /\ UNCHANGED <<kind, history, clock>>
      /\ copy' = [copy EXCEPT ![u] = agg]
  BY DEF HistoryInv, Sound, IsSeq, Load
<1>2. agg = [state |-> agg.state, version |-> Len(history), pending |-> << >>]
  BY <1>1, LoadIsReplay DEF IsLoaded
<1> HIDE DEF agg
<1>3. \A b \in Copies' : b \in Copies \/ b = agg
  BY <1>1, CopiesAfter
<1>4. CopySound(agg)
  <2>1. /\ agg.version = Len(history) /\ agg.pending = << >>
        /\ agg = [state |-> agg.state, version |-> agg.version, pending |-> agg.pending]
    BY <1>2
  <2>2. Len(agg.pending) = 0 /\ IsSeq(agg.pending)
    <3>1. agg.pending = [n \in 1 .. 0 |-> agg.pending[n]]
      BY <2>1
    <3> QED BY <3>1, IsSequence
  <2>3. Saved(agg) = Len(history)
    BY <1>1, <2>1, <2>2 DEF Saved
  <2>4. Trace(agg) = history
    BY <1>1, <2>1, <2>3, TraceSeq, SameSeq
  <2>5. ClearPendingEvents(agg) = agg
    BY <2>1 DEF ClearPendingEvents
  <2> QED BY <1>1, <2>1, <2>2, <2>3, <2>4, <2>5 DEF CopySound, HistoryInv, agg
<1>5. \A b \in Copies' : CopySound(b)
  BY <1>3, <1>4 DEF HistoryInv
<1>6. \A b \in Copies' : CopySound(b)'
  BY <1>1, <1>5, SameCopy
<1>7. Sound(history)'
  BY <1>1, SoundLater DEF HistoryInv
<1> QED BY <1>1, <1>6, <1>7, CopiesAfter DEF HistoryInv

LEMMA ForgetHistoryInv ==
    ASSUME HistoryInv, NEW u \in Users, Forget(u)
    PROVE  HistoryInv'
<1>1. /\ DOMAIN copy = Users /\ UNCHANGED <<kind, history, clock>>
      /\ copy' = [copy EXCEPT ![u] = Closed] /\ clock \in Nat /\ Len(history) \in Nat
  BY DEF HistoryInv, Forget, Sound, IsSeq
<1>2. \A b \in Copies' : b \in Copies
  BY <1>1, CopiesAfter DEF Copies
<1>3. \A b \in Copies' : CopySound(b)'
  BY <1>1, <1>2, SameCopy DEF HistoryInv
<1>4. Sound(history)'
  BY <1>1, SoundLater DEF HistoryInv
<1> QED BY <1>1, <1>3, <1>4, CopiesAfter DEF HistoryInv

\* Rows and one more.
LEMMA SoundWithOneMore ==
    ASSUME kind \in Kinds, clock \in Nat, clock' = clock + 1, UNCHANGED kind,
           NEW rows, Sound(rows), NEW longer, IsSeq(longer),
           Len(longer) = Len(rows) + 1,
           \A n \in 1 .. Len(rows) : longer[n] = rows[n],
           NEW e \in Emitted(kind, LoadFromEvents(kind, rows), clock + 1),
           longer[Len(longer)] = RowOf(e)
    PROVE  Lawful(kind, longer) /\ Timed(longer, clock + 1)
<1> DEFINE m == Len(rows)
<1>1. /\ IsSeq(rows) /\ m \in Nat /\ Lawful(kind, rows) /\ Timed(rows, clock)
  BY DEF Sound, IsSeq
<1>2. ASSUME NEW n \in 1 .. m + 1 PROVE Prefix(longer, n - 1) = Prefix(rows, n - 1)
  BY <1>1 DEF Prefix
<1>3. LawfulAt(kind, longer, m + 1)
  <2>1. Prefix(longer, (m + 1) - 1) = rows
    BY <1>1, <1>2, WholePrefix
  <2>2. longer[m + 1] = RowOf(e)
    OBVIOUS
  <2>3. /\ EventOf(kind, RowOf(e)) = e /\ RowOf(e).type = e.type
        /\ RowOf(e).at = clock + 1
    BY StoredAndRead
  <2> QED BY <2>1, <2>2, <2>3 DEF LawfulAt
<1>4. ASSUME NEW n \in 1 .. m PROVE LawfulAt(kind, longer, n)
  <2>1. longer[n] = rows[n] /\ Prefix(longer, n - 1) = Prefix(rows, n - 1)
    BY <1>1, <1>2
  <2> QED BY <1>1, <2>1 DEF Lawful, LawfulAt
<1>5. Lawful(kind, longer)
  <2>1. \A n \in 1 .. Len(longer) : n \in 1 .. m \/ n = m + 1
    BY <1>1
  <2> QED BY <1>3, <1>4, <2>1 DEF Lawful
<1>6. Timed(longer, clock + 1)
  <2>1. longer[m + 1].at = clock + 1
    BY StoredAndRead
  <2>2. m <= clock
    <3>1. m # 0 => m \in 1 .. m /\ m <= rows[m].at /\ rows[m].at <= clock
                   /\ rows[m].at \in Nat
      BY <1>1 DEF Timed
    <3> QED BY <1>1, <3>1
  <2>3. \A n \in 1 .. m : /\ longer[n] = rows[n] /\ rows[n].at \in Nat
                          /\ n <= rows[n].at /\ rows[n].at <= clock
    BY <1>1 DEF Timed
  <2>4. \A i, j \in 1 .. m : i < j => longer[i].at < longer[j].at
    BY <1>1 DEF Timed
  <2> HIDE DEF m
  <2>5. \A n \in 1 .. m + 1 : /\ longer[n].at \in Nat /\ n <= longer[n].at
                              /\ longer[n].at <= clock + 1
    BY <1>1, <2>1, <2>2, <2>3
  <2>6. ASSUME NEW i \in 1 .. m + 1, NEW j \in 1 .. m + 1, i < j
        PROVE  longer[i].at < longer[j].at
    <3>1. CASE j = m + 1
      BY <1>1, <2>1, <2>3, <2>6, <3>1
    <3>2. CASE j # m + 1
      <4>1. i \in 1 .. m /\ j \in 1 .. m
        BY <1>1, <2>6, <3>2
      <4> QED BY <2>4, <2>6, <4>1
    <3> QED BY <3>1, <3>2
  <2> QED BY <2>5, <2>6 DEF Timed, m
<1> QED BY <1>5, <1>6

LEMMA EmittedSame ==
    ASSUME NEW k, NEW a, NEW b, NEW now, a.state = b.state, a.version = b.version
    PROVE  Emitted(k, a, now) = Emitted(k, b, now)
BY DEF Emitted

\* What a command makes of a copy.
LEMMA CommandCopy ==
    ASSUME HistoryInv, UNCHANGED <<kind, history>>, clock' = clock + 1,
           NEW c, CopySound(c), NEW e \in Emitted(kind, c, clock + 1),
           NEW b, b = Raise(Apply(kind, c, e), e)
    PROVE  CopySound(b)'
<1> DEFINE new == ApplyState(kind, c.state, e)
           rows == Trace(c)
           m == Len(c.pending)
<1>1. /\ c = [state |-> c.state, version |-> c.version, pending |-> c.pending]
      /\ c.version \in Nat /\ IsSeq(c.pending) /\ m \in Nat /\ m <= c.version
      /\ Saved(c) <= Len(history) /\ Sound(rows) /\ Len(history) \in Nat
      /\ LoadFromEvents(kind, rows) = ClearPendingEvents(c)
      /\ IsSeq(rows) /\ Len(rows) = c.version /\ Saved(c) = c.version - m
      /\ clock \in Nat /\ clock' \in Nat /\ kind \in Kinds
  BY TraceSeq DEF CopySound, IsSeq, HistoryInv, Sound, Saved
<1>2. b = [state |-> new, version |-> c.version + 1, pending |-> Append(c.pending, e)]
  <2>1. PICK agg : agg = Apply(kind, c, e)
    OBVIOUS
  <2>2. agg = [state |-> new, version |-> c.version + 1, pending |-> c.pending]
    BY <1>1, <2>1, AppliedRecord
  <2>3. PICK s, v, p : s = new /\ v = c.version + 1 /\ p = c.pending
    OBVIOUS
  <2>4. agg = [state |-> s, version |-> v, pending |-> p]
    BY <2>2, <2>3
  <2>5. Raise(agg, e) = [state |-> s, version |-> v, pending |-> Append(p, e)]
    BY <2>4, RaisedRecord
  <2> QED BY <2>1, <2>3, <2>5
<1>3. /\ IsSeq(Append(c.pending, e)) /\ Len(Append(c.pending, e)) = m + 1
      /\ \A i \in 1 .. m : Append(c.pending, e)[i] = c.pending[i]
      /\ Append(c.pending, e)[m + 1] = e
  BY <1>1, OneMore
<1> HIDE DEF new, rows, m
<1>4. /\ b.state = new /\ b.version = c.version + 1
      /\ b.pending = Append(c.pending, e)
      /\ b = [state |-> b.state, version |-> b.version, pending |-> b.pending]
  BY <1>2
<1>5. /\ b.version \in Nat /\ IsSeq(b.pending) /\ Len(b.pending) = m + 1
      /\ Len(b.pending) <= b.version /\ Saved(b) = Saved(c) /\ Saved(c) \in Nat
  BY <1>1, <1>3, <1>4 DEF Saved
<1> DEFINE longer == Trace(b)
<1>6. /\ IsSeq(longer) /\ Len(longer) = c.version + 1
      /\ \A n \in 1 .. c.version : longer[n] = rows[n]
      /\ longer[c.version + 1] = RowOf(e)
  <2>1. \A n \in 1 .. c.version + 1 :
          longer[n] = IF n <= Saved(c) THEN history[n]
                      ELSE RowOf(b.pending[n - Saved(c)])
    BY <1>4, <1>5, TraceSeq
  <2>2. \A n \in 1 .. c.version :
          rows[n] = IF n <= Saved(c) THEN history[n]
                    ELSE RowOf(c.pending[n - Saved(c)])
    BY <1>1, TraceSeq DEF rows
  <2>3. IsSeq(longer) /\ Len(longer) = c.version + 1
    BY <1>4, <1>5, TraceSeq
  <2> HIDE DEF longer
  <2>4. ASSUME NEW n \in 1 .. c.version PROVE longer[n] = rows[n]
    <3>1. n \in 1 .. c.version + 1 /\ (~(n <= Saved(c)) => n - Saved(c) \in 1 .. m)
      BY <1>1, <1>5
    <3> QED BY <1>3, <1>4, <2>1, <2>2, <3>1
  <2>5. longer[c.version + 1] = RowOf(e)
    <3>1. /\ c.version + 1 \in 1 .. c.version + 1 /\ ~(c.version + 1 <= Saved(c))
          /\ (c.version + 1) - Saved(c) = m + 1
      BY <1>1, <1>5
    <3> QED BY <1>3, <1>4, <2>1, <3>1
  <2> QED BY <2>3, <2>4, <2>5
<1> HIDE DEF longer
<1>7. /\ LoadFromEvents(kind, rows).state = c.state
      /\ LoadFromEvents(kind, rows).version = c.version
  BY <1>1 DEF ClearPendingEvents
<1>8. e \in Emitted(kind, LoadFromEvents(kind, rows), clock + 1)
  BY <1>7, EmittedSame
<1>9. Lawful(kind, longer) /\ Timed(longer, clock + 1)
  BY <1>1, <1>6, <1>8, SoundWithOneMore
<1>10. LoadFromEvents(kind, longer) = ClearPendingEvents(b)
  <2>1. EventOf(kind, longer[Len(longer)]) = e
    BY <1>1, <1>6, StoredAndRead
  <2>2. LoadFromEvents(kind, longer) = Apply(kind, ClearPendingEvents(c), e)
    BY <1>1, <1>6, <2>1, LoadStep
  <2>3. ClearPendingEvents(c) = [state |-> c.state, version |-> c.version, pending |-> << >>]
    BY <1>1, ClearedRecord
  <2>4. IsLoaded(ClearPendingEvents(c), c.version) /\ ClearPendingEvents(c).state = c.state
    BY <2>3 DEF IsLoaded
  <2>5. Apply(kind, ClearPendingEvents(c), e) =
          [state |-> new, version |-> c.version + 1, pending |-> << >>]
    BY <1>1, <2>4, AppliedIsLoaded DEF new
  <2>6. ClearPendingEvents(b) = [state |-> new, version |-> c.version + 1, pending |-> << >>]
    BY <1>2, ClearedRecord
  <2> QED BY <2>2, <2>5, <2>6
<1>11. Trace(b)' = longer
  BY <1>1, <1>5, SameTrace DEF longer
<1>12. Saved(b) <= Len(history)
  BY <1>1, <1>5
<1> QED BY <1>1, <1>4, <1>5, <1>6, <1>9, <1>10, <1>11, <1>12 DEF CopySound, Sound

LEMMA CommandHistoryInv ==
    ASSUME HistoryInv, NEW u \in Users, NEW k, NEW events, Command(u, k, events),
           events \subseteq Emitted(k, copy[u], clock + 1)
    PROVE  HistoryInv'
<1>1. /\ DOMAIN copy = Users /\ UNCHANGED <<kind, history>> /\ kind = k
      /\ clock \in Nat /\ clock' = clock + 1 /\ clock' \in Nat /\ clock <= clock'
      /\ Len(history) \in Nat /\ copy[u] \in Copies
  BY DEF HistoryInv, Command, Sound, IsSeq, Copies
<1>2. PICK e \in events : copy' = [copy EXCEPT ![u] = Raise(Apply(kind, copy[u], e), e)]
  BY DEF Command
<1>3. PICK c : c = copy[u]
  OBVIOUS
<1>4. PICK b : b = Raise(Apply(kind, c, e), e)
  OBVIOUS
<1>5. CopySound(b)'
  <2>1. CopySound(c) /\ e \in Emitted(kind, c, clock + 1)
    BY <1>1, <1>2, <1>3 DEF HistoryInv
  <2> QED BY <1>1, <1>4, <2>1, CommandCopy
<1>6. \A a \in Copies' : a \in Copies \/ a = b
  BY <1>1, <1>2, <1>3, <1>4, CopiesAfter
<1>7. \A a \in Copies : CopySound(a)'
  BY <1>1, SameCopy DEF HistoryInv
<1>8. Sound(history)'
  BY <1>1, SoundLater DEF HistoryInv
<1> QED BY <1>1, <1>2, <1>5, <1>6, <1>7, <1>8, CopiesAfter DEF HistoryInv

\* The commands emit what Emitted says.
LEMMA CommandsEmit ==
    ASSUME NEW c, NEW now
    PROVE  /\ OrderPlace(c.state, now) \subseteq Emitted("Order", c, now)
           /\ OrderModify(c.state, now) \subseteq Emitted("Order", c, now)
           /\ OrderCancel(c.state, now) \subseteq Emitted("Order", c, now)
           /\ OrderFill(c.state, now) \subseteq Emitted("Order", c, now)
           /\ AlertCreate(c.version, now) \subseteq Emitted("Alert", c, now)
           /\ AlertTrigger(c.state, now) \subseteq Emitted("Alert", c, now)
           /\ AlertDelete(c.state, now) \subseteq Emitted("Alert", c, now)
           /\ PositionOpen(c.version, now) \subseteq Emitted("Position", c, now)
           /\ PositionClose(c.state, now) \subseteq Emitted("Position", c, now)
BY DEF Emitted

\* Some first rows of a sound sequence are sound.
LEMMA SoundPrefix ==
    ASSUME clock \in Nat, NEW rows, Sound(rows), NEW some, IsSeq(some),
           Len(some) <= Len(rows), \A n \in 1 .. Len(some) : some[n] = rows[n]
    PROVE  Sound(some)
<1>1. Len(some) \in Nat /\ Len(rows) \in Nat
  BY DEF Sound, IsSeq
<1>2. ASSUME NEW n \in 1 .. Len(some) PROVE LawfulAt(kind, some, n)
  <2>1. n \in 1 .. Len(rows) /\ Prefix(some, n - 1) = Prefix(rows, n - 1)
    BY <1>1 DEF Prefix
  <2> QED BY <2>1 DEF Sound, Lawful, LawfulAt
<1>3. Timed(some, clock)
  <2>1. \A n \in 1 .. Len(some) : n \in 1 .. Len(rows) /\ some[n] = rows[n]
    BY <1>1
  <2> QED BY <2>1 DEF Sound, Timed
<1> QED BY <1>2, <1>3 DEF Sound, Lawful

\* What a save, whole or in part, makes of the history.
LEMMA SavedHistory ==
    ASSUME HistoryInv, NEW c \in Copies, StartSequence(c) > Len(history),
           NEW n \in 0 .. Len(c.pending),
           NEW all, all = history \o SubSeq(StoredEvents(c), 1, n)
    PROVE  /\ Sound(all) /\ Len(all) = Len(history) + n
           /\ Saved(c) = Len(history)
           /\ \A m \in 1 .. Len(all) : all[m] = Trace(c)[m]
           /\ \A m \in 1 .. Len(history) : all[m] = history[m]
<1>1. /\ CopySound(c) /\ IsSeq(history) /\ Len(history) \in Nat /\ clock \in Nat
      /\ Len(c.pending) \in Nat /\ n \in Nat /\ c.version \in Nat
      /\ Saved(c) = c.version - Len(c.pending)
  <2>1. CopySound(c) /\ IsSeq(history) /\ clock \in Nat
    BY DEF HistoryInv, Sound
  <2> QED BY <2>1 DEF CopySound, IsSeq, Saved
<1>2. Saved(c) = Len(history)
  BY <1>1 DEF CopySound, StartSequence
<1>3. /\ IsSeq(all) /\ Len(all) = Saved(c) + n
      /\ \A m \in 1 .. Saved(c) + n : all[m] = Trace(c)[m]
  BY <1>1, <1>2, Concatenated
<1>4. Sound(all)
  <2>1. Sound(Trace(c)) /\ Len(Trace(c)) = c.version /\ Len(all) <= c.version
    BY <1>1, <1>2, <1>3, TraceSeq DEF CopySound
  <2> QED BY <1>1, <1>3, <2>1, SoundPrefix
<1>5. \A m \in 1 .. Len(history) : Trace(c)[m] = history[m]
  <2>1. \A m \in 1 .. Len(history) : m \in 1 .. c.version /\ m <= Saved(c)
    BY <1>1, <1>2
  <2> QED BY <1>1, <2>1, TraceSeq
<1> QED BY <1>1, <1>2, <1>3, <1>4, <1>5

LEMMA SaveHistoryInv ==
    ASSUME HistoryInv, NEW u \in Users, Save(u)
    PROVE  HistoryInv'
<1>1. PICK c : c = copy[u]
  OBVIOUS
<1>2. PICK b : b = ClearPendingEvents(c)
  OBVIOUS
<1>3. /\ DOMAIN copy = Users /\ UNCHANGED <<kind, clock>> /\ c \in Copies
      /\ StartSequence(c) > Len(history)
      /\ history' = history \o StoredEvents(c)
      /\ copy' = [copy EXCEPT ![u] = b] /\ kind \in Kinds /\ clock \in Nat
  BY <1>1, <1>2 DEF HistoryInv, Save, Saves, Copies
<1>4. /\ CopySound(c) /\ c.version \in Nat /\ Len(c.pending) \in Nat
      /\ Saved(c) = c.version - Len(c.pending) /\ Sound(history)
      /\ Len(history) \in Nat
      /\ c = [state |-> c.state, version |-> c.version, pending |-> c.pending]
  <2>1. CopySound(c) /\ Sound(history)
    BY <1>3 DEF HistoryInv
  <2> QED BY <2>1 DEF CopySound, Saved, IsSeq, Sound
<1>5. PICK all : all = history'
  OBVIOUS
<1>6. /\ Sound(all) /\ Len(all) = Len(history) + Len(c.pending)
      /\ Saved(c) = Len(history)
      /\ \A m \in 1 .. Len(all) : all[m] = Trace(c)[m]
      /\ \A m \in 1 .. Len(history) : all[m] = history[m]
  <2>1. PICK n \in 0 .. Len(c.pending) : n = Len(c.pending)
    BY <1>4
  <2>2. all = history \o SubSeq(StoredEvents(c), 1, n)
    BY <1>3, <1>4, <1>5, <2>1, AllStored
  <2>3. /\ Sound(all) /\ Len(all) = Len(history) + n
        /\ Saved(c) = Len(history)
        /\ \A m \in 1 .. Len(all) : all[m] = Trace(c)[m]
        /\ \A m \in 1 .. Len(history) : all[m] = history[m]
    BY <1>3, <2>2, SavedHistory
  <2> QED BY <2>1, <2>3
<1>7. Len(all) = c.version /\ all = Trace(c)
  <2>1. Len(all) = c.version
    BY <1>4, <1>6
  <2> QED BY <1>4, <1>6, <2>1, TraceSeq, SameSeq DEF Sound
<1>8. CopySound(b)'
  <2>1. b = [state |-> c.state, version |-> c.version, pending |-> << >>]
    BY <1>2, <1>4, ClearedRecord
  <2>2. /\ b.state = c.state /\ b.version = c.version /\ b.pending = << >>
        /\ b = [state |-> b.state, version |-> b.version, pending |-> b.pending]
    BY <2>1
  <2>3. IsSeq(b.pending) /\ Len(b.pending) = 0
    <3>1. b.pending = [n \in 1 .. 0 |-> b.pending[n]]
      BY <2>2
    <3> QED BY <3>1, IsSequence
  <2>4. Saved(b) = Len(all)
    BY <1>4, <1>7, <2>2, <2>3 DEF Saved
  <2>5. Trace(b)' = all
    <3>1. Trace(b)' = [n \in 1 .. Len(all) |-> all[n]]
      BY <1>4, <1>5, <1>7, <2>2, <2>4 DEF Trace
    <3> QED BY <1>6, <3>1 DEF Sound, IsSeq
  <2>6. LoadFromEvents(kind, all) = ClearPendingEvents(b)
    <3>1. ClearPendingEvents(b) = b
      BY <2>1, ClearedRecord
    <3> QED BY <1>2, <1>4, <1>7, <3>1 DEF CopySound
  <2>7. Sound(all)'
    BY <1>3, <1>6, SoundLater
  <2>8. b.version \in Nat /\ Len(b.pending) <= b.version /\ Saved(b) <= Len(all)
    BY <1>4, <1>7, <2>2, <2>3, <2>4
  <2> QED BY <1>3, <1>5, <2>2, <2>3, <2>5, <2>6, <2>7, <2>8 DEF CopySound
<1>9. \A a \in Copies' : a \in Copies \/ a = b
  BY <1>3, CopiesAfter
<1>10. \A a \in Copies : CopySound(a)'
  <2>1. Len(history') \in Nat /\ Len(history) <= Len(history')
    BY <1>4, <1>5, <1>6
  <2>2. \A n \in 1 .. Len(history) : history'[n] = history[n]
    BY <1>5, <1>6
  <2> QED BY <1>3, <2>1, <2>2, SameCopy DEF HistoryInv
<1>11. Sound(history)'
  BY <1>3, <1>5, <1>6, SoundLater
<1> QED BY <1>3, <1>8, <1>9, <1>10, <1>11, CopiesAfter DEF HistoryInv

LEMMA SaveFailsHistoryInv ==
    ASSUME HistoryInv, NEW u \in Users, SaveFails(u)
    PROVE  HistoryInv'
<1>1. PICK c : c = copy[u]
  OBVIOUS
<1>2. PICK n \in 0 .. Len(c.pending) - 1 :
        history' = history \o SubSeq(StoredEvents(c), 1, n)
  BY <1>1 DEF SaveFails
<1>3. /\ UNCHANGED <<kind, copy, clock>> /\ c \in Copies /\ clock \in Nat
      /\ StartSequence(c) > Len(history) /\ Len(history) \in Nat
      /\ Len(c.pending) \in Nat
  <2>1. UNCHANGED <<kind, copy, clock>> /\ c \in Copies /\ StartSequence(c) > Len(history)
    BY <1>1 DEF SaveFails, Saves, Copies
  <2>2. CopySound(c) /\ Sound(history) /\ clock \in Nat
    BY <2>1 DEF HistoryInv
  <2> QED BY <2>1, <2>2 DEF CopySound, Sound, IsSeq
<1>4. PICK all : all = history'
  OBVIOUS
<1>5. /\ Sound(all) /\ Len(all) = Len(history) + n
      /\ \A m \in 1 .. Len(history) : all[m] = history[m]
  <2>1. n \in 0 .. Len(c.pending)
    BY <1>3
  <2> QED BY <1>2, <1>3, <1>4, <2>1, SavedHistory
<1>6. \A a \in Copies : CopySound(a)'
  <2>1. Len(history') \in Nat /\ Len(history) <= Len(history')
    BY <1>3, <1>4, <1>5
  <2>2. \A m \in 1 .. Len(history) : history'[m] = history[m]
    BY <1>4, <1>5
  <2> QED BY <1>3, <2>1, <2>2, SameCopy DEF HistoryInv
<1>7. Sound(history)'
  BY <1>3, <1>4, <1>5, SoundLater
<1>8. Copies' = Copies
  BY <1>3 DEF Copies
<1> QED BY <1>3, <1>6, <1>7, <1>8 DEF HistoryInv

LEMMA StepHistoryInv == HistoryInv /\ [Next]_vars => HistoryInv'
<1> SUFFICES ASSUME HistoryInv, [Next]_vars PROVE HistoryInv'
  OBVIOUS
<1>1. ASSUME NEW u \in Users,
             Place(u) \/ Modify(u) \/ Cancel(u) \/ Fill(u)
             \/ Create(u) \/ Trigger(u) \/ Delete(u) \/ Open(u) \/ Close(u)
      PROVE  HistoryInv'
  <2>1. \E k, events : Command(u, k, events)
                       /\ events \subseteq Emitted(k, copy[u], clock + 1)
    BY <1>1, CommandsEmit DEF Place, Modify, Cancel, Fill, Create, Trigger, Delete,
       Open, Close
  <2> QED BY <2>1, CommandHistoryInv
<1>2. CASE UNCHANGED vars
  <2>1. /\ UNCHANGED <<kind, history, copy, clock>> /\ Len(history) \in Nat
        /\ clock \in Nat
    BY <1>2 DEF vars, HistoryInv, Sound, IsSeq
  <2>2. \A c \in Copies : CopySound(c)'
    BY <2>1, SameCopy DEF HistoryInv
  <2>3. Sound(history)' /\ Copies' = Copies
    BY <2>1, SoundLater DEF HistoryInv, Copies
  <2> QED BY <2>1, <2>2, <2>3 DEF HistoryInv
<1> QED BY <1>1, <1>2, LoadHistoryInv, SaveHistoryInv, SaveFailsHistoryInv,
        ForgetHistoryInv DEF Next

LEMMA HistoryInvariant == Spec => []HistoryInv
BY InitHistoryInv, StepHistoryInv, PTL DEF Spec

-----------------------------------------------------------------------------
\* The results.

\* The status of a copy is one of its kind's.
LEMMA CopyStatus ==
    ASSUME HistoryInv, NEW c \in Copies
    PROVE  /\ c.version \in Len(c.pending) .. clock
           /\ c.state.status \in OrderStatuses \cup AlertStatuses \cup PositionStatuses
<1> DEFINE rows == Trace(c)
<1>1. /\ kind \in {"Order", "Alert", "Position"} /\ clock \in Nat
      /\ c.version \in Nat /\ Len(c.pending) \in Nat /\ Len(c.pending) <= c.version
      /\ IsSeq(rows) /\ Lawful(kind, rows) /\ Timed(rows, clock)
      /\ LoadFromEvents(kind, rows) = ClearPendingEvents(c)
  <2>1. CopySound(c) /\ kind \in {"Order", "Alert", "Position"} /\ clock \in Nat
    BY KindAssumption DEF HistoryInv
  <2> QED BY <2>1 DEF CopySound, Sound, IsSeq
<1>2. Len(rows) = c.version
  BY <1>1, TraceSeq
<1>3. LoadFromEvents(kind, rows).state = c.state /\ Prefix(rows, c.version) = rows
  BY <1>1, <1>2, WholePrefix DEF ClearPendingEvents
<1> HIDE DEF rows
<1>4. CASE c.version = 0
  <2>1. c.state = NewState(kind)
    BY <1>3, <1>4, LoadPrefixNothing DEF Fresh
  <2>2. NewState(kind).status \in {"NEW", "ACTIVE", "OPEN"}
    <3>1. OrderNew.status = "NEW" /\ AlertNew.status = "ACTIVE" /\ PositionNew.status = "OPEN"
      BY DEF OrderNew, AlertNew, PositionNew
    <3> QED BY <1>1, <3>1 DEF NewState
  <2> QED BY <1>1, <1>4, <2>1, <2>2 DEF OrderStatuses, AlertStatuses, PositionStatuses
<1>5. CASE c.version # 0
  <2>1. c.version \in 1 .. Len(rows)
    BY <1>1, <1>2, <1>5
  <2>2. PICK n \in 1 .. Len(rows) : n = c.version
    BY <2>1
  <2>3. c.state.status = StatusAfter(rows[n].type)
    <3>1. LoadFromEvents(kind, Prefix(rows, n)).state.status = StatusAfter(rows[n].type)
      BY <1>1, StatusAfterRow
    <3> QED BY <1>3, <2>2, <3>1
  <2>4. c.version <= clock
    BY <1>1, <2>2 DEF Timed
  <2>5. rows[n].type \in {"OrderPlaced", "OrderModified", "OrderCancelled", "OrderFilled",
                        "AlertCreated", "AlertTriggered", "AlertDeleted",
                        "PositionOpened", "PositionClosed"}
    <3> DEFINE before == LoadFromEvents(kind, Prefix(rows, n - 1))
               e == EventOf(kind, rows[n])
    <3>1. e.type = rows[n].type /\ e \in Emitted(kind, before, rows[n].at)
      BY <1>1, LoadPrefix
    <3> HIDE DEF before, e
    <3>2. CASE kind = "Order"
      BY <3>1, <3>2, OrderEmits
    <3>3. CASE kind = "Alert"
      BY <3>1, <3>3, AlertEmits
    <3>4. CASE kind = "Position"
      BY <3>1, <3>4, PositionEmits
    <3> QED BY <1>1, <3>2, <3>3, <3>4
  <2> QED BY <1>1, <2>3, <2>4, <2>5 DEF StatusAfter, OrderStatuses, AlertStatuses,
          PositionStatuses
<1> QED BY <1>4, <1>5

\* No copy is ahead of time or has more pending than it has seen, and the
\* status of a copy is one of its kind's.
THEOREM HistoryTyped == Spec => []TypeOK
<1>1. HistoryInv => TypeOK
  BY CopyStatus, SoundRecordsOnce DEF TypeOK, HistoryInv
<1> QED BY HistoryInvariant, <1>1, PTL

\* Whatever copies the commands were called on, the rows the store has are a
\* possible life: the UNIQUE index admits a save only if its copy was loaded
\* from all the rows there are.
THEOREM HistoriesAreLegal == Spec => []LegalHistory
<1>1. HistoryInv => LegalHistory
  BY SoundIsLegal
<1> QED BY HistoryInvariant, <1>1, PTL

\* An order's first row is its placement.
THEOREM OrdersArePlacedFirst == Spec => []PlacedFirst
<1>1. HistoryInv => PlacedFirst
  BY SoundIsLegal
<1> QED BY HistoryInvariant, <1>1, PTL

\* What the loaders rebuild is what the commands left, in every field.
THEOREM ReplayRebuilds == Spec => []ReplayIsLive
<1>1. HistoryInv => ReplayIsLive
  BY TraceIsHistoryAndPending DEF ReplayIsLive, HistoryInv, Sound, CopySound
<1> QED BY HistoryInvariant, <1>1, PTL

\* No command is recorded twice, also when a save that failed half way is
\* tried again.
THEOREM CommandsRecordedOnce == Spec => []RecordedOnce
<1>1. HistoryInv => RecordedOnce
  BY SoundRecordsOnce
<1> QED BY HistoryInvariant, <1>1, PTL

\* Every recorded modification changes the order as the rows before it left
\* it.
THEOREM ModificationsChange == Spec => []ModifiesChange
<1>1. HistoryInv => ModifiesChange
  BY SoundChanges
<1> QED BY HistoryInvariant, <1>1, PTL

=============================================================================

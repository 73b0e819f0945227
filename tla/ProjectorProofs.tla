---------------------------- MODULE ProjectorProofs ----------------------------
(***************************************************************************)
(* Proofs about the projector, for any number of aggregates, events,       *)
(* dispatchers, readers and crashes.  Apply is called with the events of   *)
(* an aggregate in any order and from any of them on, so what holds of the *)
(* projection must be kept by every event alone, whatever came before: the *)
(* invariant says in which states a projected aggregate can be.            *)
(***************************************************************************)
EXTENDS Projector, AggregateKindsProofs, FiniteSetTheorems

Statuses == OrderStatuses \cup AlertStatuses \cup PositionStatuses

\* States of a projected order.
OrderShape(o) ==
    "status" \in DOMAIN o /\ o.status \in OrderStatuses

\* States of the projected alert of an owner: what is missing may still be
\* filled in, and nothing is when it has been triggered.
AlertShape(a, owner) ==
    /\ a \in [status : AlertStatuses, terms : {Missing, owner},
              target_price : Nat, created_at : Nat, triggered_at : Nat,
              deleted_at : Nat]
    /\ a.status = "TRIGGERED" => a.terms = owner /\ a.target_price > 0

\* States of the projected position of an owner.
PositionShape(p, owner) ==
    /\ p \in [status : PositionStatuses, terms : {owner}, qty : Nat,
              avg_price : Int, opened_at : Nat, closed_at : Nat]
    /\ p.status = "OPEN" <=> p.qty > 0 /\ p.closed_at = Never

Shape(i, s) ==
    CASE kind = "Order" -> OrderShape(s)
      [] kind = "Alert" -> AlertShape(s, Owner[i])
      [] kind = "Position" -> PositionShape(s, Owner[i])
      [] kind = "Session" -> FALSE

\* A dispatch under way carries an event of its aggregate.
JobsSound ==
    /\ DOMAIN job = Dispatchers
    /\ \A d \in Dispatchers : job[d] # Idle =>
        /\ job[d] = [id |-> job[d].id, event |-> job[d].event,
                     seq |-> job[d].seq, todo |-> job[d].todo]
        /\ job[d].id \in Ids \cup {NoId}
        /\ \E now \in 1 .. clock : job[d].event \in BusEvents(job[d].id, now)

ReadInv ==
    /\ kind \in Kinds
    /\ clock \in Nat
    /\ JobsSound
    /\ DOMAIN projection \subseteq Ids
    /\ \A i \in DOMAIN projection : Shape(i, projection[i].state)

-----------------------------------------------------------------------------
\* Apply, by kind: whatever state an aggregate is in, and also as the first
\* event the projector sees of it.

\* The fields of the public events.
LEMMA AlertEventFields ==
    ASSUME NEW owner, NEW now \in Nat \ {0}, NEW e \in AlertBusEvents(owner, now)
    PROVE  /\ e.terms = owner /\ e.at = now
           /\ e.type \in {"alert.created", "alert.triggered"} =>
                e.price \in Nat /\ e.price > 0
<1> DEFINE positive == {p \in Prices : p > 0}
<1>1. e \in [type : {"alert.created", "alert.triggered"}, at : {now},
            terms : {owner}, price : positive]
      \/ e \in [type : {"alert.deleted"}, at : {now}, terms : {owner}]
  BY DEF AlertBusEvents
<1>2. \A p \in positive : p \in Nat /\ p > 0
  BY NumberAssumption
<1> HIDE DEF positive
<1>3. CASE e \in [type : {"alert.created", "alert.triggered"}, at : {now},
                 terms : {owner}, price : positive]
  BY <1>2, <1>3
<1>4. CASE e \in [type : {"alert.deleted"}, at : {now}, terms : {owner}]
  BY <1>4
<1> QED BY <1>1, <1>3, <1>4

LEMMA PositionEventFields ==
    ASSUME NEW owner, NEW now \in Nat \ {0},
           NEW e \in PositionBusEvents(owner, now)
    PROVE  /\ e.terms = owner /\ e.at = now
           /\ e.type = "position.opened" =>
                e.price \in Int /\ e.qty \in Nat /\ e.qty > 0
<1> DEFINE valid == {q \in Quantities : ValidQuantity(q)}
<1>1. e \in [type : {"position.opened"}, at : {now}, terms : {owner},
            qty : valid, price : Prices]
      \/ e \in [type : {"position.closed"}, at : {now}, terms : {owner}]
  BY DEF PositionBusEvents
<1>2. \A q \in valid : q \in Nat /\ q > 0
  BY NumberAssumption DEF ValidQuantity
<1> HIDE DEF valid
<1>3. CASE e \in [type : {"position.opened"}, at : {now}, terms : {owner},
                 qty : valid, price : Prices]
  BY <1>2, <1>3, NumberAssumption
<1>4. CASE e \in [type : {"position.closed"}, at : {now}, terms : {owner}]
  BY <1>4
<1> QED BY <1>1, <1>3, <1>4

LEMMA OrderApplied ==
    ASSUME NEW owner, NEW now \in Nat \ {0},
           NEW e \in OrderBusEvents(owner, now), NEW o, OrderShape(o) \/ o = OrderNew
    PROVE  OrderShape(OrderApply(o, e))
<1>1. "status" \in DOMAIN o
  <2>1. DOMAIN OrderNew =
          {"status", "terms", "order_type", "qty", "price", "filled_qty",
           "filled_price", "modify_count", "placed_at", "modified_at",
           "cancelled_at", "filled_at"}
    BY DEF OrderNew
  <2> QED BY <2>1 DEF OrderShape
<1>2. CASE e.type = "order.placed"
  BY <1>1, <1>2 DEF OrderShape, OrderApply, OrderStatuses
<1>3. CASE e.type = "order.modified"
  BY <1>1, <1>3 DEF OrderShape, OrderApply, OrderStatuses
<1>4. CASE e.type = "order.cancelled"
  BY <1>1, <1>4 DEF OrderShape, OrderApply, OrderStatuses
<1>5. CASE e.type = "order.filled"
  BY <1>1, <1>5 DEF OrderShape, OrderApply, OrderStatuses
<1> QED BY <1>2, <1>3, <1>4, <1>5 DEF OrderBusEvents

LEMMA AlertApplied ==
    ASSUME NEW owner \in Terms, NEW now \in Nat \ {0},
           NEW e \in AlertBusEvents(owner, now), NEW a,
           AlertShape(a, owner) \/ a = AlertNew
    PROVE  AlertShape(AlertApply(a, e), owner)
<1>1. owner # Missing /\ Prices \subseteq Int
  BY TermsAssumption, NumberAssumption
<1>2. a \in [status : AlertStatuses, terms : {Missing, owner},
             target_price : Nat, created_at : Nat, triggered_at : Nat,
             deleted_at : Nat]
  BY DEF AlertShape, AlertNew, AlertStatuses, Never
<1>3. CASE e.type = "alert.created"
  <2>1. e.terms = owner /\ e.at \in Nat /\ e.price \in Nat /\ e.price > 0
    BY <1>3, AlertEventFields
  <2> QED BY <1>2, <1>3, <2>1 DEF AlertShape, AlertApply, AlertStatuses
<1>4. CASE e.type = "alert.triggered"
  <2>1. e.terms = owner /\ e.at \in Nat /\ e.price \in Nat /\ e.price > 0
    BY <1>4, AlertEventFields
  <2> DEFINE terms == IF a.terms = Missing THEN e.terms ELSE a.terms
             price == IF a.target_price = 0 THEN e.price ELSE a.target_price
  <2>4. terms = owner /\ price \in Nat /\ price > 0
    BY <1>2, <2>1
  <2>5. Backfill(a, e) = [a EXCEPT !.terms = terms, !.target_price = price]
    BY DEF Backfill
  <2> HIDE DEF terms, price
  <2>2. /\ Backfill(a, e).terms = owner
        /\ Backfill(a, e).target_price \in Nat /\ Backfill(a, e).target_price > 0
        /\ Backfill(a, e) \in [status : AlertStatuses, terms : {Missing, owner},
              target_price : Nat, created_at : Nat, triggered_at : Nat,
              deleted_at : Nat]
    BY <1>2, <2>4, <2>5
  <2>3. AlertApply(a, e) =
          [Backfill(a, e) EXCEPT !.status = "TRIGGERED", !.triggered_at = e.at]
    BY <1>4 DEF AlertApply
  <2> QED BY <2>1, <2>2, <2>3 DEF AlertShape, AlertStatuses
<1>5. CASE e.type = "alert.deleted"
  BY <1>1, <1>2, <1>5 DEF AlertShape, AlertApply, AlertBusEvents, AlertStatuses
<1> QED BY <1>3, <1>4, <1>5 DEF AlertBusEvents

LEMMA PositionApplied ==
    ASSUME NEW owner \in Terms, NEW now \in Nat \ {0},
           NEW e \in PositionBusEvents(owner, now), NEW p,
           PositionShape(p, owner) \/ p = PositionNew
    PROVE  PositionShape(PositionApply(p, e), owner)
<1>1. owner # Missing /\ Prices \subseteq Int /\ Quantities \subseteq Int
  BY TermsAssumption, NumberAssumption
<1>2. p \in [status : PositionStatuses, terms : {Missing, owner}, qty : Nat,
             avg_price : Int, opened_at : Nat, closed_at : Nat]
  BY DEF PositionShape, PositionNew, PositionStatuses, Never
<1>3. CASE e.type = "position.opened"
  <2>1. /\ e.terms = owner /\ e.at \in Nat /\ e.price \in Int
        /\ e.qty \in Nat /\ e.qty > 0
    BY <1>3, PositionEventFields
  <2>2. PositionApply(p, e) = [Opened(p, e) EXCEPT !.closed_at = Never]
    BY <1>3 DEF PositionApply, OpenedAgain
  <2>3. Opened(p, e) =
          [status |-> "OPEN", terms |-> owner, qty |-> e.qty,
           avg_price |-> e.price, opened_at |-> e.at, closed_at |-> p.closed_at]
    <3> DEFINE Fields == {"status", "terms", "qty", "avg_price", "opened_at",
                          "closed_at"}
    <3>1. p = [f \in Fields |-> p[f]]
      BY <1>2
    <3>2. Opened(p, e) = [f \in Fields |->
            CASE f = "status" -> "OPEN" [] f = "terms" -> owner
              [] f = "qty" -> e.qty [] f = "avg_price" -> e.price
              [] f = "opened_at" -> e.at [] f = "closed_at" -> p.closed_at]
      BY <3>1, <2>1 DEF Opened
    <3> QED BY <3>2
  <2>4. PositionApply(p, e) =
          [status |-> "OPEN", terms |-> owner, qty |-> e.qty,
           avg_price |-> e.price, opened_at |-> e.at, closed_at |-> Never]
    BY <2>2, <2>3
  <2> QED BY <2>1, <2>4 DEF PositionShape, PositionStatuses, Never
<1>4. CASE e.type = "position.closed"
  BY <1>1, <1>2, <1>4 DEF PositionShape, PositionApply, PositionBusEvents,
     PositionStatuses, Never
<1> QED BY <1>3, <1>4 DEF PositionBusEvents

-----------------------------------------------------------------------------
\* Every step keeps the invariant.

LEMMA InitReadInv == Init => ReadInv
BY DEF Init, ReadInv, JobsSound

LEMMA DispatchReadInv ==
    ASSUME ReadInv, NEW d \in Dispatchers, NEW i \in Ids \cup {NoId},
           NEW e \in BusEvents(i, clock + 1), Dispatch(d, i, e)
    PROVE  ReadInv'
<1> USE DEF Dispatch
<1>1. clock' = clock + 1 /\ clock' \in Nat
  BY DEF ReadInv
<1>2. \A j, now : BusEvents(j, now)' = BusEvents(j, now)
  BY DEF BusEvents
<1>3. JobsSound'
  <2> SUFFICES ASSUME NEW c \in Dispatchers, job'[c] # Idle
               PROVE  /\ job'[c] = [id |-> job'[c].id, event |-> job'[c].event,
                                    seq |-> job'[c].seq, todo |-> job'[c].todo]
                      /\ job'[c].id \in Ids \cup {NoId}
                      /\ \E now \in 1 .. clock' :
                            job'[c].event \in BusEvents(job'[c].id, now)
    BY <1>2 DEF ReadInv, JobsSound
  <2>1. CASE c = d
    <3>1. job'[c].id = i /\ job'[c].event = e
      BY <2>1 DEF ReadInv, JobsSound
    <3>2. clock + 1 \in 1 .. clock'
      BY <1>1 DEF ReadInv
    <3> QED BY <2>1, <3>1, <3>2 DEF ReadInv, JobsSound
  <2>2. CASE c # d
    <3>1. job'[c] = job[c]
      BY <2>2 DEF ReadInv, JobsSound
    <3>2. \A now \in 1 .. clock : now \in 1 .. clock'
      BY <1>1 DEF ReadInv
    <3> QED BY <3>1, <3>2 DEF ReadInv, JobsSound
  <2> QED BY <2>1, <2>2
<1>4. \A j \in DOMAIN projection : Shape(j, projection[j].state)'
  BY DEF ReadInv, Shape
<1> QED BY <1>1, <1>3, <1>4 DEF ReadInv

\* Steps that may take a dispatch further, and change nothing else ReadInv
\* looks at but the projection.
LEMMA JobStep ==
    ASSUME ReadInv, NEW d \in Dispatchers, job[d] # Idle,
           UNCHANGED <<kind, clock>>,
           \/ \E s : Called(d, s)
           \/ \E n : job' = [job EXCEPT ![d].seq = n]
    PROVE  JobsSound'
<1>1. /\ DOMAIN job' = Dispatchers
      /\ \A c \in Dispatchers \ {d} : job'[c] = job[c]
      /\ job'[d] = Idle
         \/ (/\ job'[d].id = job[d].id /\ job'[d].event = job[d].event
             /\ job'[d] = [id |-> job'[d].id, event |-> job'[d].event,
                           seq |-> job'[d].seq, todo |-> job'[d].todo])
  BY DEF ReadInv, JobsSound, Called
<1>2. \A j, now : BusEvents(j, now)' = BusEvents(j, now)
  BY DEF BusEvents
<1> QED BY <1>1, <1>2 DEF ReadInv, JobsSound

LEMMA HandleReadInv ==
    ASSUME ReadInv, NEW d \in Dispatchers,
           NEW k \in {"Order", "Alert", "Position"}, Handle(d, k)
    PROVE  ReadInv'
<1> DEFINE i == job[d].id
           e == job[d].event
<1>1. /\ kind = k /\ job[d] # Idle /\ Called(d, "project")
      /\ UNCHANGED <<kind, clock>>
  BY DEF Handle, ToCall
<1>2. i \in Ids \cup {NoId} /\ \E now \in Nat \ {0} : e \in BusEvents(i, now)
  BY <1>1 DEF ReadInv, JobsSound
<1>3. PICK now \in Nat \ {0} : e \in BusEvents(i, now)
  BY <1>2
<1>4. JobsSound'
  BY <1>1, JobStep
<1>5. CASE i = NoId
  BY <1>1, <1>4, <1>5 DEF Handle, ReadInv, Shape
<1>6. CASE i # NoId
  <2>1. i \in Ids /\ Owner[i] \in Terms
    BY <1>2, <1>6, OwnerAssumption
  <2>2. projection' = [j \in DOMAIN projection \cup {i} |->
                         IF j = i THEN Apply(kind, Lookup(i), e) ELSE projection[j]]
    BY <1>6 DEF Handle
  <2> DEFINE s == Lookup(i).state
  <2>3. Shape(i, s) \/ s = NewState(kind)
    BY DEF Lookup, Fresh, ReadInv
  <2>4. Apply(kind, Lookup(i), e).state = ApplyState(kind, s, e)
    BY DEF Apply, IncrementVersion, Lookup, Fresh
  <2> HIDE DEF s, i, e
  <2>5. Shape(i, ApplyState(kind, s, e))
    <3>1. CASE kind = "Order"
      BY <1>3, <2>3, <3>1, OrderApplied DEF BusEvents, ApplyState, NewState, Shape
    <3>2. CASE kind = "Alert"
      BY <1>3, <2>1, <2>3, <3>2, AlertApplied DEF BusEvents, ApplyState, NewState,
         Shape
    <3>3. CASE kind = "Position"
      BY <1>3, <2>1, <2>3, <3>3, PositionApplied DEF BusEvents, ApplyState,
         NewState, Shape
    <3> QED BY <1>1, <3>1, <3>2, <3>3
  <2>6. \A j \in DOMAIN projection' : Shape(j, projection'[j].state)
    BY <2>2, <2>4, <2>5 DEF ReadInv
  <2> QED BY <1>1, <1>4, <2>1, <2>2, <2>6 DEF ReadInv, Shape
<1> QED BY <1>5, <1>6

LEMMA StepReadInv == ReadInv /\ [Next]_vars => ReadInv'
<1> SUFFICES ASSUME ReadInv, [Next]_vars PROVE ReadInv'
  OBVIOUS
<1>1. ASSUME UNCHANGED <<kind, clock, projection>>, JobsSound' PROVE ReadInv'
  BY <1>1 DEF ReadInv, Shape
<1>2. ASSUME UNCHANGED <<kind, clock, job>> PROVE JobsSound'
  <2>1. \A j, now : BusEvents(j, now)' = BusEvents(j, now)
    BY <1>2 DEF BusEvents
  <2> QED BY <1>2, <2>1 DEF ReadInv, JobsSound
<1>3. ASSUME NEW d \in Dispatchers,
             Number(d) \/ Record(d) \/ RecordRefused(d) \/ NotSubscribed(d)
      PROVE  ReadInv'
  <2>1. /\ job[d] # Idle /\ UNCHANGED <<kind, clock, projection>>
        /\ (\E s : Called(d, s)) \/ (\E n : job' = [job EXCEPT ![d].seq = n])
    BY <1>3 DEF Number, Record, RecordRefused, NotSubscribed, ToCall
  <2> QED BY <1>1, <2>1, JobStep
<1>4. ASSUME NEW d \in Dispatchers,
             HandleOrderEvent(d) \/ HandleAlertEvent(d) \/ HandlePositionEvent(d)
      PROVE  ReadInv'
  BY <1>4, HandleReadInv DEF HandleOrderEvent, HandleAlertEvent, HandlePositionEvent
<1>5. ASSUME NEW r \in Readers,
             (\E i \in Ids : Get(r, i) \/ GetNothing(r, i)) \/ LetGo(r)
      PROVE  ReadInv'
  BY <1>1, <1>2, <1>5 DEF Get, GetNothing, LetGo, vars
<1>6. CASE Restart
  BY <1>6 DEF Restart, ReadInv, JobsSound
<1>7. CASE UNCHANGED vars
  BY <1>1, <1>2, <1>7 DEF vars
<1> QED BY <1>3, <1>4, <1>5, <1>6, <1>7, DispatchReadInv DEF Next

LEMMA ReadInvariant == Spec => []ReadInv
BY InitReadInv, StepReadInv, PTL DEF Spec

-----------------------------------------------------------------------------
\* The results.

\* A projected position is OPEN exactly when it holds something and has no
\* time of closing, after any events in any order, also from the middle of
\* its life (Apply of position_aggregate.go).
THEOREM PositionsStayConsistent == Spec => []PositionConsistent
<1>1. ReadInv => PositionConsistent
  BY DEF ReadInv, PositionConsistent, Shape, PositionShape
<1> QED BY ReadInvariant, <1>1, PTL

\* Triggered alerts and positions say whose they are, alerts also their
\* price, even if the projector missed how they began.
THEOREM OwnersAreKnown == Spec => []OwnersKnown
<1>1. ReadInv => OwnersKnown
  <2> SUFFICES ASSUME ReadInv, NEW i \in DOMAIN projection
               PROVE  LET s == projection[i].state
                      IN  /\ kind = "Position" \/ s.status = "TRIGGERED" =>
                                s.terms = Owner[i]
                          /\ s.status = "TRIGGERED" => s.target_price > 0
    BY DEF OwnersKnown
  <2>1. Shape(i, projection[i].state) /\ kind \in {"Order", "Alert", "Position", "Session"}
    BY KindAssumption DEF ReadInv
  <2> QED BY <2>1 DEF Shape, OrderShape, AlertShape, PositionShape, OrderStatuses,
             PositionStatuses
<1> QED BY ReadInvariant, <1>1, PTL

-----------------------------------------------------------------------------
\* The log: every row is of an event of its aggregate.

RowsOf(i) ==
    UNION {{[type |-> e.type, at |-> e.at, payload |-> p, event |-> e] :
                p \in Payloads(e)} : e \in UNION {BusEvents(i, now) : now \in Nat \ {0}}}

LogInv ==
    /\ DOMAIN log = Ids
    /\ \A i \in Ids :
        /\ IsSeq(log[i])
        /\ \A n \in 1 .. Len(log[i]) : log[i][n] \in RowsOf(i)

LEMMA RowOfEvent ==
    ASSUME NEW i, NEW row
    PROVE  row \in RowsOf(i) <=>
                \E now \in Nat \ {0} : \E e \in BusEvents(i, now) : \E p \in Payloads(e) :
                    row = [type |-> e.type, at |-> e.at, payload |-> p, event |-> e]
BY DEF RowsOf

\* Two states of the kind, equal in all but the quantities.
AlmostSame(s, t) ==
    /\ DOMAIN s = DOMAIN NewState(kind) /\ DOMAIN t = DOMAIN NewState(kind)
    /\ SameButQuantities(s, t)

\* A public event has type, time and, as its type asks, terms and a price.
LEMMA BusEventDomain ==
    ASSUME kind \in {"Order", "Alert", "Position", "Session"}, NEW i, NEW now,
           NEW e \in BusEvents(i, now)
    PROVE  /\ {"type", "at"} \subseteq DOMAIN e /\ e.at = now
           /\ kind = "Order" =>
                /\ e.type \in {"order.placed", "order.filled", "order.modified",
                               "order.cancelled"}
                /\ e.type = "order.placed" => {"terms", "price"} \subseteq DOMAIN e
                /\ e.type = "order.filled" => "price" \in DOMAIN e
           /\ kind = "Alert" =>
                /\ e.type \in {"alert.created", "alert.triggered", "alert.deleted"}
                /\ e.type # "alert.deleted" => {"terms", "price"} \subseteq DOMAIN e
           /\ kind = "Position" =>
                /\ e.type \in {"position.opened", "position.closed"}
                /\ "terms" \in DOMAIN e
                /\ e.type = "position.opened" => "price" \in DOMAIN e
           /\ kind = "Session" =>
                /\ e.type \in {"session.created", "session.cleared",
                               "session.invalidated"}
                /\ e.type = "session.created" =>
                        e = [type |-> "session.created", at |-> now, terms |-> e.terms]
                /\ e.type # "session.created" => e = [type |-> e.type, at |-> now]
<1>1. CASE kind = "Order"
  BY <1>1 DEF BusEvents, OrderBusEvents
<1>2. CASE kind = "Alert"
  BY <1>2 DEF BusEvents, AlertBusEvents
<1>3. CASE kind = "Position"
  BY <1>3 DEF BusEvents, PositionBusEvents
<1>4. CASE kind = "Session"
  BY <1>4 DEF BusEvents, SessionBusEvents
<1> QED BY <1>1, <1>2, <1>3, <1>4

\* What the JSON of a public event loses.
LEMMA FromJSONFields ==
    ASSUME NEW e
    PROVE  \A f \in DOMAIN e \ {"qty"} : FromJSON(e)[f] = e[f]
BY DEF FromJSON

\* A row is read back as its event but for the quantity.
LEMMA ReadBack ==
    ASSUME kind \in {"Order", "Alert", "Position", "Session"}, NEW i,
           NEW now, NEW e \in BusEvents(i, now), NEW p \in Payloads(e),
           NEW row, row = [type |-> e.type, at |-> e.at, payload |-> p, event |-> e]
    PROVE  /\ kind # "Session" => EventOf(kind, row) = FromJSON(e)
           /\ kind = "Session" => EventOf(kind, row) = e
<1>1. CASE kind = "Order"
  BY <1>1, BusEventDomain DEF EventOf, OrderEvent, Payloads
<1>2. CASE kind = "Alert"
  BY <1>2, BusEventDomain DEF EventOf, AlertEvent, Payloads
<1>3. CASE kind = "Position"
  BY <1>3, BusEventDomain DEF EventOf, PositionEvent, Payloads
<1>4. CASE kind = "Session"
  <2>1. EventOf(kind, row) = SessionEvent(row) /\ p \in SessionPayloads(e)
    BY <1>4 DEF EventOf, Payloads
  <2>2. CASE e.type = "session.created"
    <3>1. e = [type |-> "session.created", at |-> now, terms |-> e.terms]
      BY <1>4, <2>2, BusEventDomain
    <3>2. p = e \/ p = [terms |-> e.terms]
      BY <2>1, <2>2 DEF SessionPayloads
    <3> QED BY <1>4, <2>1, <2>2, <3>1, <3>2 DEF SessionEvent
  <2>3. CASE e.type # "session.created"
    BY <1>4, <2>1, <2>3, BusEventDomain DEF SessionEvent
  <2> QED BY <2>2, <2>3
<1> QED BY <1>1, <1>2, <1>3, <1>4

\* Apply makes almost the same of almost the same.
LEMMA SameOrderApplied ==
    ASSUME NEW s, NEW t, NEW e, NEW f, kind = "Order", AlmostSame(s, t),
           f.type = e.type, f.at = e.at,
           e.type \in {"order.placed", "order.filled", "order.modified", "order.cancelled"},
           e.type = "order.placed" => f.terms = e.terms /\ f.price = e.price,
           e.type = "order.filled" => f.price = e.price
    PROVE  AlmostSame(OrderApply(s, e), OrderApply(t, f))
<1> DEFINE Fields == {"status", "terms", "order_type", "qty", "price", "filled_qty",
                      "filled_price", "modify_count", "placed_at", "modified_at",
                      "cancelled_at", "filled_at"}
<1>1. DOMAIN NewState(kind) = Fields
  BY DEF NewState, OrderNew
<1>2. /\ DOMAIN s = Fields /\ DOMAIN t = Fields
      /\ \A x \in Fields \ {"qty", "filled_qty"} : s[x] = t[x]
  BY <1>1 DEF AlmostSame, SameButQuantities
<1> USE DEF AlmostSame, SameButQuantities, OrderApply
<1>3. CASE e.type = "order.placed"
  BY <1>1, <1>2, <1>3
<1>4. CASE e.type = "order.filled"
  BY <1>1, <1>2, <1>4
<1>5. CASE e.type = "order.modified"
  BY <1>1, <1>2, <1>5
<1>6. CASE e.type = "order.cancelled"
  BY <1>1, <1>2, <1>6
<1> QED BY <1>3, <1>4, <1>5, <1>6

LEMMA SameAlertApplied ==
    ASSUME NEW s, NEW t, NEW e, NEW f, kind = "Alert", AlmostSame(s, t),
           f.type = e.type, f.at = e.at,
           e.type \in {"alert.created", "alert.triggered", "alert.deleted"},
           e.type # "alert.deleted" => f.terms = e.terms /\ f.price = e.price
    PROVE  AlmostSame(AlertApply(s, e), AlertApply(t, f))
<1> DEFINE Fields == {"status", "terms", "target_price", "created_at",
                      "triggered_at", "deleted_at"}
<1>1. DOMAIN NewState(kind) = Fields
  BY DEF NewState, AlertNew
<1>2. /\ DOMAIN s = Fields /\ DOMAIN t = Fields
      /\ \A x \in Fields : s[x] = t[x]
  BY <1>1 DEF AlmostSame, SameButQuantities
<1> USE DEF AlmostSame, SameButQuantities, AlertApply, Backfill
<1>3. CASE e.type = "alert.created"
  BY <1>1, <1>2, <1>3
<1>4. CASE e.type = "alert.triggered"
  BY <1>1, <1>2, <1>4
<1>5. CASE e.type = "alert.deleted"
  BY <1>1, <1>2, <1>5
<1> QED BY <1>3, <1>4, <1>5

LEMMA SamePositionApplied ==
    ASSUME NEW s, NEW t, NEW e, NEW f, kind = "Position", AlmostSame(s, t),
           f.type = e.type, f.at = e.at, f.terms = e.terms,
           e.type \in {"position.opened", "position.closed"},
           e.type = "position.opened" => f.price = e.price
    PROVE  AlmostSame(PositionApply(s, e), PositionApply(t, f))
<1> DEFINE Fields == {"status", "terms", "qty", "avg_price", "opened_at", "closed_at"}
<1>1. DOMAIN NewState(kind) = Fields
  BY DEF NewState, PositionNew
<1>2. /\ DOMAIN s = Fields /\ DOMAIN t = Fields
      /\ \A x \in Fields \ {"qty"} : s[x] = t[x]
  BY <1>1 DEF AlmostSame, SameButQuantities
<1> USE DEF AlmostSame, SameButQuantities, PositionApply, OpenedAgain, Opened
<1>3. CASE e.type = "position.opened"
  BY <1>1, <1>2, <1>3
<1>4. CASE e.type = "position.closed"
  BY <1>1, <1>2, <1>4
<1> QED BY <1>3, <1>4

LEMMA SameSessionApplied ==
    ASSUME NEW s, NEW t, NEW e, kind = "Session", AlmostSame(s, t),
           e.type \in {"session.created", "session.cleared", "session.invalidated"}
    PROVE  AlmostSame(SessionApply(s, e), SessionApply(t, e))
<1> DEFINE Fields == {"status", "terms", "created_at", "cleared_at", "invalidated_at"}
<1>1. DOMAIN NewState(kind) = Fields
  BY DEF NewState, SessionNew
<1>2. /\ DOMAIN s = Fields /\ DOMAIN t = Fields
      /\ \A x \in Fields : s[x] = t[x]
  BY <1>1 DEF AlmostSame, SameButQuantities
<1> USE DEF AlmostSame, SameButQuantities, SessionApply, Created
<1>3. CASE e.type = "session.created"
  BY <1>1, <1>2, <1>3
<1>4. CASE e.type = "session.cleared"
  BY <1>1, <1>2, <1>4
<1>5. CASE e.type = "session.invalidated"
  BY <1>1, <1>2, <1>5
<1> QED BY <1>3, <1>4, <1>5

LEMMA SameApplied ==
    ASSUME kind \in {"Order", "Alert", "Position", "Session"}, NEW i, NEW row,
           row \in RowsOf(i), NEW s, NEW t, AlmostSame(s, t)
    PROVE  AlmostSame(ApplyState(kind, s, row.event),
                      ApplyState(kind, t, EventOf(kind, row)))
<1> DEFINE f == EventOf(kind, row)
<1>1. PICK now \in Nat \ {0} :
        \E e \in BusEvents(i, now) : \E p \in Payloads(e) :
            row = [type |-> e.type, at |-> e.at, payload |-> p, event |-> e]
  BY RowOfEvent
<1> DEFINE e == row.event
<1>2. /\ e \in BusEvents(i, now)
      /\ \E p \in Payloads(e) :
            row = [type |-> e.type, at |-> e.at, payload |-> p, event |-> e]
  BY <1>1
<1> HIDE DEF e
<1>3. kind # "Session" => \A x \in DOMAIN e \ {"qty"} : f[x] = e[x]
  BY <1>2, ReadBack, FromJSONFields
<1>4. kind = "Session" => f = e
  BY <1>2, ReadBack
<1> HIDE DEF f
<1>5. AlmostSame(ApplyState(kind, s, e), ApplyState(kind, t, f))
  <2>1. CASE kind = "Order"
    <3>1. /\ e.type \in {"order.placed", "order.filled", "order.modified",
                         "order.cancelled"}
          /\ f.type = e.type /\ f.at = e.at
          /\ e.type = "order.placed" => f.terms = e.terms /\ f.price = e.price
          /\ e.type = "order.filled" => f.price = e.price
      BY <1>2, <1>3, <2>1, BusEventDomain
    <3> QED BY <2>1, <3>1, SameOrderApplied DEF ApplyState
  <2>2. CASE kind = "Alert"
    <3>1. /\ e.type \in {"alert.created", "alert.triggered", "alert.deleted"}
          /\ f.type = e.type /\ f.at = e.at
          /\ e.type # "alert.deleted" => f.terms = e.terms /\ f.price = e.price
      BY <1>2, <1>3, <2>2, BusEventDomain
    <3> QED BY <2>2, <3>1, SameAlertApplied DEF ApplyState
  <2>3. CASE kind = "Position"
    <3>1. /\ e.type \in {"position.opened", "position.closed"}
          /\ f.type = e.type /\ f.at = e.at /\ f.terms = e.terms
          /\ e.type = "position.opened" => f.price = e.price
      BY <1>2, <1>3, <2>3, BusEventDomain
    <3> QED BY <2>3, <3>1, SamePositionApplied DEF ApplyState
  <2>4. CASE kind = "Session"
    <3>1. e.type \in {"session.created", "session.cleared", "session.invalidated"}
      BY <1>2, <2>4, BusEventDomain
    <3> QED BY <1>4, <2>4, <3>1, SameSessionApplied DEF ApplyState
  <2> QED BY <2>1, <2>2, <2>3, <2>4
<1> QED BY <1>5 DEF e, f

\* The events that rows were made from.
Events(rows) == [n \in DOMAIN rows |-> rows[n].event]

LEMMA EventsSeq ==
    ASSUME NEW rows, IsSeq(rows)
    PROVE  /\ IsSeq(Events(rows)) /\ Len(Events(rows)) = Len(rows)
           /\ \A n \in 1 .. Len(rows) : Events(rows)[n] = rows[n].event
<1> DEFINE es == Events(rows)
<1>1. /\ Len(rows) \in Nat /\ es = [n \in 1 .. Len(rows) |-> es[n]]
      /\ \A n \in 1 .. Len(rows) : es[n] = rows[n].event
  BY DEF IsSeq, Events
<1> HIDE DEF es
<1>2. IsSeq(es) /\ Len(es) = Len(rows)
  BY <1>1, IsSequence
<1> QED BY <1>1, <1>2 DEF es

\* A row more, dispatched and loaded.
LEMMA RowMore ==
    ASSUME NEW rows, IsSeq(rows), NEW longer, IsSeq(longer),
           Len(longer) = Len(rows) + 1,
           \A n \in 1 .. Len(rows) : longer[n] = rows[n]
    PROVE  LET row == longer[Len(longer)]
           IN  /\ Replay(kind, Events(longer)) =
                        Apply(kind, Replay(kind, Events(rows)), row.event)
               /\ Replay(kind, Events(longer)).state =
                        ApplyState(kind, Replay(kind, Events(rows)).state, row.event)
               /\ LoadFromEvents(kind, longer).state =
                        ApplyState(kind, LoadFromEvents(kind, rows).state,
                                   EventOf(kind, row))
<1> DEFINE es == Events(rows)
           es1 == Events(longer)
<1>1. /\ Len(rows) \in Nat /\ Len(es) = Len(rows) /\ Len(es1) = Len(es) + 1
      /\ \A n \in 1 .. Len(es) : es1[n] = es[n]
      /\ es1[Len(es1)] = longer[Len(longer)].event
  <2>1. /\ Len(rows) \in Nat /\ Len(es) = Len(rows) /\ Len(es1) = Len(longer)
        /\ \A n \in 1 .. Len(rows) : es[n] = rows[n].event
        /\ \A n \in 1 .. Len(longer) : es1[n] = longer[n].event
    BY EventsSeq DEF IsSeq
  <2> HIDE DEF es, es1
  <2> QED BY <2>1
<1> HIDE DEF es, es1
<1>2. Replay(kind, es1) = Apply(kind, Replay(kind, es), es1[Len(es1)])
  BY <1>1, ReplayStep
<1>3. IsLoaded(Replay(kind, es), Len(es))
  BY <1>1, ReplayIsLoaded
<1>4. Apply(kind, Replay(kind, es), es1[Len(es1)]).state =
        ApplyState(kind, Replay(kind, es).state, es1[Len(es1)])
  BY <1>1, <1>3, AppliedIsLoaded
<1>5. LoadFromEvents(kind, longer).state =
        ApplyState(kind, LoadFromEvents(kind, rows).state,
                   EventOf(kind, longer[Len(longer)]))
  BY LoadStep
<1> QED BY <1>1, <1>2, <1>4, <1>5 DEF es, es1

\* The loaders and Apply agree on every log.
LEMMA LoadsWhatWasDispatched ==
    ASSUME kind \in {"Order", "Alert", "Position", "Session"}, NEW i, NEW rows,
           IsSeq(rows), \A n \in 1 .. Len(rows) : rows[n] \in RowsOf(i),
           NEW m \in 0 .. Len(rows)
    PROVE  AlmostSame(Replay(kind, Events(Prefix(rows, m))).state,
                      LoadFromEvents(kind, Prefix(rows, m)).state)
<1> DEFINE Good(k) == AlmostSame(Replay(kind, Events(Prefix(rows, k))).state,
                                 LoadFromEvents(kind, Prefix(rows, k)).state)
           S == {k \in Nat : k <= Len(rows) => Good(k)}
<1>1. 0 \in S
  <2>1. /\ IsSeq(Prefix(rows, 0)) /\ Len(Prefix(rows, 0)) = 0
        /\ Len(Events(Prefix(rows, 0))) = 0
    BY PrefixOf, EventsSeq
  <2>2. /\ Replay(kind, Events(Prefix(rows, 0))).state = NewState(kind)
        /\ LoadFromEvents(kind, Prefix(rows, 0)).state = NewState(kind)
    BY <2>1, ReplayNothing, LoadNothing DEF Fresh
  <2> QED BY <2>2 DEF AlmostSame, SameButQuantities
<1>2. ASSUME NEW k \in Nat, k + 1 <= Len(rows), Good(k) PROVE Good(k + 1)
  <2> DEFINE short == Prefix(rows, k)
             longer == Prefix(rows, k + 1)
  <2>1. /\ IsSeq(short) /\ Len(short) = k /\ IsSeq(longer) /\ Len(longer) = k + 1
        /\ \A n \in 1 .. k : longer[n] = short[n]
        /\ longer[k + 1] = rows[k + 1]
    BY PrefixMore
  <2>2. Good(k) /\ rows[k + 1] \in RowsOf(i)
    BY <1>2 DEF IsSeq
  <2> HIDE DEF short, longer
  <2>3. /\ Replay(kind, Events(longer)).state =
                ApplyState(kind, Replay(kind, Events(short)).state, rows[k + 1].event)
        /\ LoadFromEvents(kind, longer).state =
                ApplyState(kind, LoadFromEvents(kind, short).state,
                           EventOf(kind, rows[k + 1]))
    BY <2>1, RowMore
  <2>4. AlmostSame(Replay(kind, Events(short)).state, LoadFromEvents(kind, short).state)
    BY <2>2 DEF short
  <2>5. AlmostSame(Replay(kind, Events(longer)).state, LoadFromEvents(kind, longer).state)
    BY <2>2, <2>3, <2>4, SameApplied
  <2> QED BY <2>5 DEF longer
<1> HIDE DEF Good
<1>3. \A k \in Nat : k \in S => k + 1 \in S
  BY <1>2 DEF IsSeq
<1> HIDE DEF S
<1>4. m \in S
  BY <1>1, <1>3, Inductive DEF IsSeq
<1>5. Good(m)
  BY <1>4 DEF S, IsSeq
<1> QED BY <1>5 DEF Good

\* Invalidated once is invalidated for ever.
LEMMA InvalidatedStays ==
    ASSUME kind = "Session", NEW i, NEW rows,
           IsSeq(rows), \A n \in 1 .. Len(rows) : rows[n] \in RowsOf(i),
           NEW m \in 0 .. Len(rows)
    PROVE  LoadFromEvents(kind, Prefix(rows, m)).state.invalidated_at # Never
                <=> \E n \in 1 .. m : rows[n].type = "session.invalidated"
<1> DEFINE Good(k) == LoadFromEvents(kind, Prefix(rows, k)).state.invalidated_at # Never
                        <=> \E n \in 1 .. k : rows[n].type = "session.invalidated"
           S == {k \in Nat : k <= Len(rows) => Good(k)}
<1>1. 0 \in S
  <2>1. LoadFromEvents(kind, Prefix(rows, 0)).state = SessionNew
    BY PrefixOf, LoadNothing DEF Fresh, NewState
  <2>2. SessionNew.invalidated_at = Never
    BY DEF SessionNew
  <2> QED BY <2>1, <2>2
<1>2. ASSUME NEW k \in Nat, k + 1 <= Len(rows), Good(k) PROVE Good(k + 1)
  <2> DEFINE before == LoadFromEvents(kind, Prefix(rows, k)).state
             after == LoadFromEvents(kind, Prefix(rows, k + 1)).state
             row == rows[k + 1]
  <2>1. after = ApplyState(kind, before, EventOf(kind, row))
    <3>1. /\ IsSeq(Prefix(rows, k)) /\ Len(Prefix(rows, k)) = k
          /\ IsSeq(Prefix(rows, k + 1)) /\ Len(Prefix(rows, k + 1)) = k + 1
          /\ \A n \in 1 .. k : Prefix(rows, k + 1)[n] = Prefix(rows, k)[n]
          /\ Prefix(rows, k + 1)[k + 1] = row
      BY PrefixMore
    <3> QED BY <3>1, LoadStep
  <2>2. Good(k) /\ row \in RowsOf(i) /\ k \in 0 .. Len(rows)
    BY <1>2 DEF IsSeq
  <2>3. DOMAIN before =
          {"status", "terms", "created_at", "cleared_at", "invalidated_at"}
    <3>1. DOMAIN before = DOMAIN SessionNew
      BY <2>2, LoadsWhatWasDispatched DEF AlmostSame, NewState
    <3> QED BY <3>1 DEF SessionNew
  <2>4. PICK now \in Nat \ {0} :
          \E e \in BusEvents(i, now) : \E p \in Payloads(e) :
            row = [type |-> e.type, at |-> e.at, payload |-> p, event |-> e]
    BY <2>2, RowOfEvent
  <2> DEFINE e == row.event
  <2>5. /\ e \in BusEvents(i, now) /\ row.type = e.type
        /\ \E p \in Payloads(e) :
            row = [type |-> e.type, at |-> e.at, payload |-> p, event |-> e]
    BY <2>4
  <2> HIDE DEF before, after, row, e
  <2>6. EventOf(kind, row) = e
    BY <2>5, ReadBack
  <2>7. after = SessionApply(before, e)
    BY <2>1, <2>6 DEF ApplyState
  <2>8. /\ e.type \in {"session.created", "session.cleared", "session.invalidated"}
        /\ e.at = now
    BY <2>5, BusEventDomain
  <2>9. IF e.type = "session.invalidated" THEN after.invalidated_at # Never
        ELSE after.invalidated_at = before.invalidated_at
    BY <2>3, <2>7, <2>8 DEF SessionApply, Created, Never
  <2>10. (\E n \in 1 .. k + 1 : rows[n].type = "session.invalidated")
         <=> e.type = "session.invalidated"
             \/ \E n \in 1 .. k : rows[n].type = "session.invalidated"
    <3>1. \A n \in 1 .. k + 1 : n \in 1 .. k \/ n = k + 1
      OBVIOUS
    <3>2. \A n \in 1 .. k : n \in 1 .. k + 1
      OBVIOUS
    <3>3. k + 1 \in 1 .. k + 1
      OBVIOUS
    <3> QED BY <2>5, <3>1, <3>2, <3>3 DEF row
  <2> QED BY <2>2, <2>9, <2>10 DEF before, after
<1> HIDE DEF Good
<1>3. \A k \in Nat : k \in S => k + 1 \in S
  BY <1>2 DEF IsSeq
<1> HIDE DEF S
<1>4. m \in S
  BY <1>1, <1>3, Inductive DEF IsSeq
<1>5. Good(m)
  BY <1>4 DEF S, IsSeq
<1> QED BY <1>5 DEF Good

-----------------------------------------------------------------------------
\* How far the dispatches of an aggregate are.

\* Dispatches that have a subscriber still to call.
Calling(i, subscriber) == {d \in UnderWay(i) : subscriber \in job[d].todo}

\* A dispatch under way has a call to make, and no log without an id.
JobInv ==
    \A d \in Dispatchers : job[d] # Idle =>
        /\ job[d] \in Jobs /\ job[d].todo # {}
        /\ "log" \in job[d].todo => job[d].id # NoId

\* Every event dispatched has been counted by the log or is still to be, and
\* so for the projection, and none is lost but what the log refuses and what a
\* restart clears.
Counted(i) ==
    LET logged == Len(log[i]) + Cardinality(Calling(i, "log")) + refused[i]
        projected == Lookup(i).version + Cardinality(Calling(i, "project"))
    IN  /\ IsFiniteSet(Calling(i, "log")) /\ IsFiniteSet(Calling(i, "project"))
        /\ Lookup(i).version \in Nat /\ IsLoaded(Lookup(i), Lookup(i).version)
        /\ i \in DOMAIN projection <=> Lookup(i).version # 0
        /\ logged <= clock /\ projected <= clock
        /\ refused[i] \in Nat /\ (refused[i] = 0 \/ Len(log[i]) # 0)
        /\ kind # "Session" /\ i \notin restarted => projected = logged

CountInv ==
    /\ created \subseteq Ids \cup {NoId} /\ reordered \subseteq Ids \cup {NoId}
    /\ restarted \subseteq Ids /\ refused \in [Ids -> Nat]
    /\ clock \in 0 .. MaxEvents /\ restarts \in 0 .. MaxRestarts
    /\ \A d \in Dispatchers : job[d] # Idle => job[d].seq <= clock
    /\ \A i \in Ids : Counted(i)

\* What the events of the log lead to.
Logged(i) == Replay(kind, Events(log[i]))

\* One dispatch at a time: projection and log differ by its event at most.
Followed(i) ==
    /\ \A c, d \in UnderWay(i) : c = d
    /\ UnderWay(i) = {} => Lookup(i) = Logged(i)
    /\ \A d \in UnderWay(i) :
        LET e == job[d].event
        IN  /\ job[d].todo = {"log", "project"} => Lookup(i) = Logged(i)
            /\ job[d].todo = {"project"} => Apply(kind, Lookup(i), e) = Logged(i)
            /\ job[d].todo = {"log"} => Lookup(i) = Apply(kind, Logged(i), e)

FollowInv ==
    kind # "Session" => \A i \in Ids \ (reordered \cup apart) : Followed(i)

Placement(s) == <<s.terms, s.placed_at>>
NotPlaced == <<Missing, Never>>
PlacementOf(e) == <<e.terms, e.at>>

Placing(i) == {d \in UnderWay(i) : job[d].event.type = "order.placed"}

\* However dispatches overlap, an order is placed once, by one event.
Placed(i) ==
    LET projected == Placement(Lookup(i).state)
        logged == Placement(Logged(i).state)
    IN  /\ DOMAIN Lookup(i).state = DOMAIN OrderNew
        /\ DOMAIN Logged(i).state = DOMAIN OrderNew
        /\ \A c, d \in Placing(i) : c = d
        /\ i \notin created =>
            Placing(i) = {} /\ projected = NotPlaced /\ logged = NotPlaced
        /\ Placing(i) = {} => projected = logged
        /\ \A d \in Placing(i) :
            LET placed == PlacementOf(job[d].event)
            IN  /\ projected = IF "project" \in job[d].todo THEN NotPlaced ELSE placed
                /\ logged = IF "log" \in job[d].todo THEN NotPlaced ELSE placed

PlacedInv == kind = "Order" => \A i \in Ids \ apart : Placed(i)

-----------------------------------------------------------------------------
\* What the steps do to the dispatches under way.

LEMMA IsJob ==
    ASSUME NEW i \in Ids \cup {NoId}, NEW e \in PublicEvents, NEW n \in Nat,
           NEW todo \in SUBSET {"log", "project"},
           NEW j, j = [id |-> i, event |-> e, seq |-> n, todo |-> todo]
    PROVE  /\ j \in Jobs /\ j # Idle
           /\ j.id = i /\ j.event = e /\ j.seq = n /\ j.todo = todo
<1>1. j \in Jobs
  BY DEF Jobs
<1> QED BY <1>1, IdleAssumption

LEMMA JobFields ==
    ASSUME NEW j \in Jobs
    PROVE  /\ j = [id |-> j.id, event |-> j.event, seq |-> j.seq, todo |-> j.todo]
           /\ j.id \in Ids \cup {NoId} /\ j.event \in PublicEvents /\ j.seq \in Nat
           /\ j.todo \in SUBSET {"log", "project"}
BY DEF Jobs

LEMMA DispatchIsPublic ==
    ASSUME kind \in Kinds, clock \in Nat, clock < MaxEvents, NEW i \in Ids \cup {NoId},
           NEW e \in BusEvents(i, clock + 1)
    PROVE  e \in PublicEvents
<1>1. clock + 1 \in 1 .. MaxEvents /\ Owner[i] \in Terms
      /\ kind \in {"Order", "Alert", "Position", "Session"}
  BY BoundAssumption, OwnerAssumption, KindAssumption
<1>2. e \in OrderBusEvents(Owner[i], clock + 1) \cup AlertBusEvents(Owner[i], clock + 1)
           \cup PositionBusEvents(Owner[i], clock + 1)
           \cup SessionBusEvents(Owner[i], clock + 1)
  BY <1>1 DEF BusEvents
<1>3. PICK c \in Terms \X (1 .. MaxEvents) : c[1] = Owner[i] /\ c[2] = clock + 1
  <2>1. <<Owner[i], clock + 1>> \in Terms \X (1 .. MaxEvents)
    BY <1>1
  <2> QED BY <2>1
<1> QED BY <1>2, <1>3 DEF PublicEvents

\* A dispatch begins.
LEMMA DispatchJobs ==
    ASSUME ReadInv, JobInv, NEW d \in Dispatchers, NEW i \in Ids \cup {NoId},
           NEW e \in BusEvents(i, clock + 1), Dispatch(d, i, e)
    PROVE  /\ JobInv'
           /\ d \notin UnderWay(i) /\ job'[d].id = i /\ job'[d].event = e /\ job'[d].seq = 0
           /\ job'[d].todo = {"project"} \cup IF i = NoId THEN {} ELSE {"log"}
           /\ \A c \in Dispatchers : c # d => job'[c] = job[c]
           /\ \A j \in Ids :
                /\ UnderWay(j)' = UnderWay(j) \cup IF j = i THEN {d} ELSE {}
                /\ \A s \in {"log", "project"} :
                    Calling(j, s)' = Calling(j, s) \cup IF j = i THEN {d} ELSE {}
<1> DEFINE todo == {"project"} \cup IF i = NoId THEN {} ELSE {"log"}
<1>1. e \in PublicEvents
  BY DispatchIsPublic DEF Dispatch, ReadInv
<1>2. /\ job' = [job EXCEPT ![d] = [id |-> i, event |-> e, seq |-> 0, todo |-> todo]]
      /\ DOMAIN job = Dispatchers /\ job[d] = Idle
  BY DEF Dispatch, ReadInv, JobsSound
<1>3. /\ todo \in SUBSET {"log", "project"} /\ todo # {} /\ ("log" \in todo => i # NoId)
      /\ "project" \in todo /\ (i \in Ids => "log" \in todo)
  BY OwnerAssumption
<1> HIDE DEF todo
<1>4. job'[d] = [id |-> i, event |-> e, seq |-> 0, todo |-> todo]
      /\ DOMAIN job' = Dispatchers
  BY <1>2
<1>5. /\ job'[d] \in Jobs /\ job'[d] # Idle
      /\ job'[d].id = i /\ job'[d].event = e /\ job'[d].seq = 0 /\ job'[d].todo = todo
  BY <1>1, <1>3, <1>4, IsJob
<1>6. \A c \in Dispatchers : c # d => job'[c] = job[c]
  BY <1>2
<1>7. JobInv'
  BY <1>3, <1>5, <1>6 DEF JobInv
<1>8. ASSUME NEW j \in Ids
      PROVE  /\ UnderWay(j)' = UnderWay(j) \cup IF j = i THEN {d} ELSE {}
             /\ \A s \in {"log", "project"} :
                    Calling(j, s)' = Calling(j, s) \cup IF j = i THEN {d} ELSE {}
  <2>1. UnderWay(j)' = UnderWay(j) \cup IF j = i THEN {d} ELSE {}
    BY <1>2, <1>5, <1>6 DEF UnderWay
  <2>2. ASSUME NEW s \in {"log", "project"}
        PROVE  Calling(j, s)' = Calling(j, s) \cup IF j = i THEN {d} ELSE {}
    <3>1. \A c \in UnderWay(j) : c \in Dispatchers /\ c # d
      BY <1>2 DEF UnderWay
    <3>2. j = i => s \in job'[d].todo
      BY <1>3, <1>5
    <3> QED BY <1>6, <2>1, <3>1, <3>2 DEF Calling
  <2> QED BY <2>1, <2>2
<1> QED BY <1>2, <1>5, <1>6, <1>7, <1>8 DEF UnderWay, todo

\* A subscriber has been called.
LEMMA CalledJobs ==
    ASSUME ReadInv, JobInv, NEW d \in Dispatchers, NEW s \in {"log", "project"},
           ToCall(d, s), Called(d, s)
    PROVE  /\ JobInv'
           /\ \A c \in Dispatchers : c # d => job'[c] = job[c]
           /\ IF job[d].todo = {s} THEN job'[d] = Idle
              ELSE /\ job'[d] # Idle /\ job'[d].id = job[d].id
                   /\ job'[d].event = job[d].event /\ job'[d].seq = job[d].seq
                   /\ job'[d].todo = job[d].todo \ {s}
           /\ \A j \in Ids :
                /\ UnderWay(j)' = UnderWay(j) \ IF job[d].todo = {s} THEN {d} ELSE {}
                /\ Calling(j, s)' = Calling(j, s) \ {d}
                /\ \A t \in {"log", "project"} : t # s => Calling(j, t)' = Calling(j, t)
<1> DEFINE old == job[d]
<1>1. /\ DOMAIN job = Dispatchers /\ old # Idle /\ old \in Jobs /\ s \in old.todo
      /\ old.todo # {} /\ ("log" \in old.todo => old.id # NoId)
  BY DEF ReadInv, JobsSound, JobInv, ToCall
<1>2. /\ old = [id |-> old.id, event |-> old.event, seq |-> old.seq, todo |-> old.todo]
      /\ old.id \in Ids \cup {NoId} /\ old.event \in PublicEvents /\ old.seq \in Nat
      /\ old.todo \in SUBSET {"log", "project"}
  BY <1>1, JobFields
<1>3. \A c \in Dispatchers : c # d => job'[c] = job[c]
  BY <1>1 DEF Called
<1>4. job'[d] = IF old.todo = {s} THEN Idle ELSE [old EXCEPT !.todo = old.todo \ {s}]
  <2>1. old.todo \ {s} = {} <=> old.todo = {s}
    BY <1>1
  <2>2. job'[d] = IF old.todo \ {s} = {} THEN Idle
                  ELSE [old EXCEPT !.todo = old.todo \ {s}]
    BY <1>1 DEF Called
  <2> QED BY <2>1, <2>2
<1> HIDE DEF old
<1>5. old.todo # {s} =>
        /\ job'[d] # Idle /\ job'[d].id = old.id /\ job'[d].event = old.event
        /\ job'[d].seq = old.seq /\ job'[d].todo = old.todo \ {s} /\ job'[d] \in Jobs
        /\ old.todo \ {s} # {}
  <2> SUFFICES ASSUME old.todo # {s}
               PROVE  /\ job'[d] # Idle /\ job'[d].id = old.id /\ job'[d].event = old.event
                      /\ job'[d].seq = old.seq /\ job'[d].todo = old.todo \ {s}
                      /\ job'[d] \in Jobs /\ old.todo \ {s} # {}
    OBVIOUS
  <2>1. job'[d] = [id |-> old.id, event |-> old.event, seq |-> old.seq,
                   todo |-> old.todo \ {s}]
    BY <1>2, <1>4
  <2>2. old.todo \ {s} \in SUBSET {"log", "project"} /\ old.todo \ {s} # {}
    BY <1>1, <1>2
  <2> QED BY <1>2, <2>1, <2>2, IsJob
<1>6. JobInv'
  BY <1>1, <1>3, <1>4, <1>5 DEF JobInv
<1>7. ASSUME NEW j \in Ids
      PROVE  /\ UnderWay(j)' = UnderWay(j) \ IF old.todo = {s} THEN {d} ELSE {}
             /\ Calling(j, s)' = Calling(j, s) \ {d}
             /\ \A t \in {"log", "project"} : t # s => Calling(j, t)' = Calling(j, t)
  <2>1. UnderWay(j)' = UnderWay(j) \ IF old.todo = {s} THEN {d} ELSE {}
    BY <1>1, <1>3, <1>4, <1>5 DEF UnderWay, old
  <2>2. Calling(j, s)' = Calling(j, s) \ {d}
    <3>1. \A c \in UnderWay(j) : c \in Dispatchers
      BY DEF UnderWay
    <3> QED BY <1>3, <1>5, <2>1, <3>1 DEF Calling, old
  <2>3. \A t \in {"log", "project"} : t # s => Calling(j, t)' = Calling(j, t)
    <3>1. \A c \in UnderWay(j) : c \in Dispatchers
      BY DEF UnderWay
    <3> QED BY <1>3, <1>5, <2>1, <3>1 DEF Calling, old
  <2> QED BY <2>1, <2>2, <2>3
<1> QED BY <1>3, <1>4, <1>5, <1>6, <1>7 DEF old

\* A dispatch is given its number.
LEMMA NumberJobs ==
    ASSUME ReadInv, JobInv, NEW d \in Dispatchers, job[d] # Idle, NEW n \in Nat,
           job' = [job EXCEPT ![d].seq = n]
    PROVE  /\ JobInv'
           /\ \A c \in Dispatchers : c # d => job'[c] = job[c]
           /\ job'[d] # Idle /\ job'[d].id = job[d].id /\ job'[d].event = job[d].event
           /\ job'[d].todo = job[d].todo /\ job'[d].seq = n
           /\ \A j \in Ids : UnderWay(j)' = UnderWay(j)
                /\ \A s \in {"log", "project"} : Calling(j, s)' = Calling(j, s)
<1> DEFINE old == job[d]
<1>1. /\ DOMAIN job = Dispatchers /\ old \in Jobs
      /\ old.todo # {} /\ ("log" \in old.todo => old.id # NoId)
  BY DEF ReadInv, JobsSound, JobInv
<1>2. /\ old = [id |-> old.id, event |-> old.event, seq |-> old.seq, todo |-> old.todo]
      /\ old.id \in Ids \cup {NoId} /\ old.event \in PublicEvents
      /\ old.todo \in SUBSET {"log", "project"}
  BY <1>1, JobFields
<1>3. \A c \in Dispatchers : c # d => job'[c] = job[c]
  BY <1>1
<1>4. job'[d] = [old EXCEPT !.seq = n]
  BY <1>1
<1> HIDE DEF old
<1>5. job'[d] = [id |-> old.id, event |-> old.event, seq |-> n, todo |-> old.todo]
  BY <1>2, <1>4
<1>6. /\ job'[d] # Idle /\ job'[d].id = old.id /\ job'[d].event = old.event
      /\ job'[d].todo = old.todo /\ job'[d].seq = n /\ job'[d] \in Jobs
  BY <1>2, <1>5, IsJob
<1>7. JobInv'
  BY <1>1, <1>3, <1>6 DEF JobInv
<1>8. \A j \in Ids : UnderWay(j)' = UnderWay(j)
  BY <1>3, <1>6 DEF UnderWay, old
<1>9. ASSUME NEW j \in Ids, NEW s \in {"log", "project"}
      PROVE  Calling(j, s)' = Calling(j, s)
  <2>1. \A c \in UnderWay(j) : c \in Dispatchers
    BY DEF UnderWay
  <2> QED BY <1>3, <1>6, <1>8, <2>1 DEF Calling, old
<1> QED BY <1>3, <1>6, <1>7, <1>8, <1>9 DEF old

LEMMA RestartJobs ==
    ASSUME Restart
    PROVE  /\ JobInv'
           /\ \A j \in Ids : UnderWay(j)' = {}
                /\ \A s \in {"log", "project"} : Calling(j, s)' = {}
BY DEF Restart, JobInv, UnderWay, Calling

\* A row has been recorded.
LEMMA RecordedLog ==
    ASSUME ReadInv, JobInv, LogInv, NEW d \in Dispatchers, Record(d)
    PROVE  LET i == job[d].id
           IN  /\ i \in Ids /\ DOMAIN log' = Ids
               /\ \A j \in Ids : j # i => log'[j] = log[j]
               /\ \E row : /\ row \in RowsOf(i) /\ row.event = job[d].event
                           /\ log'[i] = Append(log[i], row)
<1> DEFINE i == job[d].id
           e == job[d].event
<1>1. /\ job[d] # Idle /\ job[d] \in Jobs /\ i # NoId /\ DOMAIN log = Ids
  BY DEF Record, ToCall, JobInv, LogInv
<1>2. i \in Ids
  BY <1>1, JobFields
<1>3. PICK p \in Payloads(e) :
        log' = [log EXCEPT ![i] = Append(@,
                    [type |-> e.type, at |-> e.at, payload |-> p, event |-> e])]
  BY DEF Record
<1>4. PICK now \in 1 .. clock : e \in BusEvents(i, now)
  BY <1>1 DEF ReadInv, JobsSound
<1>5. now \in Nat \ {0}
  BY DEF ReadInv
<1> HIDE DEF i, e
<1>6. PICK row : row = [type |-> e.type, at |-> e.at, payload |-> p, event |-> e]
  OBVIOUS
<1>7. row \in RowsOf(i) /\ row.event = e
  BY <1>4, <1>5, <1>6, RowOfEvent
<1> QED BY <1>1, <1>2, <1>3, <1>6, <1>7 DEF i, e

LEMMA StepLogInv ==
    ASSUME ReadInv, JobInv, LogInv, [Next]_vars
    PROVE  LogInv'
<1>1. UNCHANGED kind => \A i : RowsOf(i)' = RowsOf(i)
  BY DEF RowsOf, BusEvents, Payloads
<1>2. ASSUME UNCHANGED <<kind, log>> PROVE LogInv'
  BY <1>1, <1>2 DEF LogInv
<1>3. ASSUME NEW d \in Dispatchers, Record(d) PROVE LogInv'
  <2> DEFINE i == job[d].id
  <2>1. /\ i \in Ids /\ DOMAIN log' = Ids
        /\ \A j \in Ids : j # i => log'[j] = log[j]
        /\ \E row : row \in RowsOf(i) /\ log'[i] = Append(log[i], row)
    BY <1>3, RecordedLog
  <2> HIDE DEF i
  <2>2. PICK row : row \in RowsOf(i) /\ log'[i] = Append(log[i], row)
    BY <2>1
  <2>3. UNCHANGED kind
    BY <1>3 DEF Record
  <2> SUFFICES ASSUME NEW j \in Ids
               PROVE  IsSeq(log'[j]) /\ \A n \in 1 .. Len(log'[j]) : log'[j][n] \in RowsOf(j)
    BY <1>1, <2>1, <2>3 DEF LogInv
  <2>4. CASE j = i
    <3>1. /\ IsSeq(log[i]) /\ Len(log[i]) \in Nat
          /\ \A n \in 1 .. Len(log[i]) : log[i][n] \in RowsOf(i)
      BY <2>1 DEF LogInv, IsSeq
    <3> DEFINE rows == log[i]
               longer == Append(rows, row)
    <3>2. /\ IsSeq(longer) /\ Len(longer) = Len(rows) + 1
          /\ \A n \in 1 .. Len(rows) : longer[n] = rows[n]
          /\ longer[Len(rows) + 1] = row
      BY <3>1, OneMore
    <3> HIDE DEF longer
    <3>3. ASSUME NEW n \in 1 .. Len(longer) PROVE longer[n] \in RowsOf(i)
      <4>1. n \in 1 .. Len(rows) \/ n = Len(rows) + 1
        BY <3>1, <3>2
      <4> QED BY <2>2, <3>1, <3>2, <4>1
    <3>4. log'[j] = longer
      BY <2>2, <2>4 DEF longer
    <3> QED BY <2>4, <3>2, <3>3, <3>4
  <2>5. CASE j # i
    BY <2>1, <2>5 DEF LogInv
  <2> QED BY <2>4, <2>5
<1>4. CASE UNCHANGED vars
  BY <1>2, <1>4 DEF vars
<1>5. CASE Restart
  BY <1>2, <1>5 DEF Restart
<1>6. CASE \E r \in Readers : (\E i \in Ids : Get(r, i) \/ GetNothing(r, i)) \/ LetGo(r)
  BY <1>2, <1>6 DEF Get, GetNothing, LetGo, vars
<1>7. CASE \E d \in Dispatchers :
            \/ \E i \in Ids \cup {NoId} : \E e \in BusEvents(i, clock + 1) : Dispatch(d, i, e)
            \/ Number(d) \/ RecordRefused(d) \/ NotSubscribed(d)
            \/ HandleOrderEvent(d) \/ HandleAlertEvent(d) \/ HandlePositionEvent(d)
  BY <1>2, <1>7 DEF Dispatch, Number, RecordRefused, NotSubscribed, HandleOrderEvent,
     HandleAlertEvent, HandlePositionEvent, Handle
<1> QED BY <1>3, <1>4, <1>5, <1>6, <1>7 DEF Next

LEMMA StepJobInv ==
    ASSUME ReadInv, JobInv, LogInv, [Next]_vars
    PROVE  JobInv'
<1>1. ASSUME UNCHANGED job PROVE JobInv'
  BY <1>1 DEF JobInv
<1>2. ASSUME NEW d \in Dispatchers, NEW i \in Ids \cup {NoId},
             NEW e \in BusEvents(i, clock + 1), Dispatch(d, i, e)
      PROVE  JobInv'
  BY <1>2, DispatchJobs
<1>3. ASSUME NEW d \in Dispatchers, Number(d) PROVE JobInv'
  <2> DEFINE n == Len(log[job[d].id]) + 1
  <2>1. job[d] # Idle /\ job' = [job EXCEPT ![d].seq = n]
    BY <1>3 DEF Number, ToCall
  <2>2. job[d].id \in Ids
    BY <1>3, JobFields DEF Number, ToCall, JobInv
  <2>3. n \in Nat
    BY <2>2 DEF LogInv, IsSeq
  <2> QED BY <2>1, <2>3, NumberJobs
<1>4. ASSUME NEW d \in Dispatchers, Record(d) \/ RecordRefused(d) PROVE JobInv'
  BY <1>4, CalledJobs DEF Record, RecordRefused
<1>5. ASSUME NEW d \in Dispatchers,
             \/ HandleOrderEvent(d) \/ HandleAlertEvent(d) \/ HandlePositionEvent(d)
             \/ NotSubscribed(d)
      PROVE  JobInv'
  BY <1>5, CalledJobs DEF HandleOrderEvent, HandleAlertEvent, HandlePositionEvent,
     Handle, NotSubscribed
<1>6. ASSUME NEW r \in Readers,
             (\E i \in Ids : Get(r, i) \/ GetNothing(r, i)) \/ LetGo(r)
      PROVE  JobInv'
  BY <1>1, <1>6 DEF Get, GetNothing, LetGo, vars
<1>7. CASE Restart
  BY <1>7, RestartJobs
<1>8. CASE UNCHANGED vars
  BY <1>1, <1>8 DEF vars
<1> QED BY <1>2, <1>3, <1>4, <1>5, <1>6, <1>7, <1>8 DEF Next

LEMMA InitJobInv == ASSUME Init PROVE JobInv
BY DEF Init, JobInv

LEMMA InitLogInv == ASSUME Init PROVE LogInv
<1>1. PICK none : none = << >>
  OBVIOUS
<1>2. IsSeq(none) /\ Len(none) = 0
  BY <1>1 DEF IsSeq
<1>3. log = [i \in Ids |-> none]
  BY <1>1 DEF Init
<1> QED BY <1>2, <1>3 DEF LogInv

LEMMA LogInvariant == Spec => [](ReadInv /\ JobInv /\ LogInv)
<1>1. Init => JobInv /\ LogInv
  BY InitJobInv, InitLogInv
<1>2. ReadInv /\ JobInv /\ LogInv /\ [Next]_vars => (ReadInv /\ JobInv /\ LogInv)'
  BY StepReadInv, StepJobInv, StepLogInv
<1> QED BY InitReadInv, <1>1, <1>2, PTL DEF Spec

\* Whichever format each row is stored in, a log replays to the state its
\* events lead to, but for the quantities, however the dispatches interleave
\* and at any time (the persister of the use cases and the loaders).
THEOREM LogsLoadAsDispatched == Spec => []LoadedAsDispatched
<1>1. ReadInv /\ LogInv => LoadedAsDispatched
  <2> SUFFICES ASSUME ReadInv, LogInv, NEW i \in Ids
               PROVE  SameButQuantities(
                        Replay(kind, [n \in DOMAIN log[i] |-> log[i][n].event]).state,
                        LoadFromEvents(kind, log[i]).state)
    BY DEF LoadedAsDispatched
  <2>1. kind \in {"Order", "Alert", "Position", "Session"}
    BY KindAssumption DEF ReadInv
  <2>2. PICK rows : rows = log[i]
    OBVIOUS
  <2>3. /\ IsSeq(rows) /\ \A n \in 1 .. Len(rows) : rows[n] \in RowsOf(i)
        /\ Len(rows) \in 0 .. Len(rows)
    BY <2>2 DEF LogInv, IsSeq
  <2>4. AlmostSame(Replay(kind, Events(Prefix(rows, Len(rows)))).state,
                   LoadFromEvents(kind, Prefix(rows, Len(rows))).state)
    BY <2>1, <2>3, LoadsWhatWasDispatched
  <2>5. SameButQuantities(Replay(kind, Events(rows)).state,
                          LoadFromEvents(kind, rows).state)
    BY <2>3, <2>4, WholePrefix DEF AlmostSame
  <2>6. Events(rows) = [n \in DOMAIN log[i] |-> log[i][n].event]
    BY <2>2 DEF Events
  <2> QED BY <2>2, <2>5, <2>6
<1> QED BY LogInvariant, <1>1, PTL

\* A session that was invalidated shows it for ever in its replay, whatever
\* events come after (SessionAggregate.Apply refuses none).
THEOREM InvalidationsShow == Spec => []InvalidationShows
<1>1. LogInv => InvalidationShows
  <2> SUFFICES ASSUME LogInv, kind = "Session", NEW i \in Ids
               PROVE  LoadFromEvents(kind, log[i]).state.invalidated_at # Never
                        <=> \E n \in 1 .. Len(log[i]) :
                                log[i][n].type = "session.invalidated"
    BY DEF InvalidationShows
  <2>1. PICK rows : rows = log[i]
    OBVIOUS
  <2>2. /\ IsSeq(rows) /\ \A n \in 1 .. Len(rows) : rows[n] \in RowsOf(i)
        /\ Len(rows) \in 0 .. Len(rows)
    BY <2>1 DEF LogInv, IsSeq
  <2>3. PICK m \in 0 .. Len(rows) : m = Len(rows)
    BY <2>2
  <2>4. LoadFromEvents(kind, Prefix(rows, m)).state.invalidated_at # Never
            <=> \E n \in 1 .. m : rows[n].type = "session.invalidated"
    BY <2>2, InvalidatedStays
  <2>5. Prefix(rows, m) = rows
    BY <2>2, <2>3, WholePrefix
  <2> QED BY <2>1, <2>3, <2>4, <2>5
<1> QED BY LogInvariant, <1>1, PTL

-----------------------------------------------------------------------------
\* Every event is counted, by the log and by the projection.

LEMMA CountedNumbers ==
    ASSUME LogInv, CountInv, NEW j \in Ids
    PROVE  /\ Len(log[j]) \in Nat /\ clock \in Nat /\ Lookup(j).version \in Nat
           /\ Cardinality(Calling(j, "log")) \in Nat
           /\ Cardinality(Calling(j, "project")) \in Nat /\ refused[j] \in Nat
<1>1. IsFiniteSet(Calling(j, "log")) /\ IsFiniteSet(Calling(j, "project"))
  BY DEF CountInv, Counted
<1> QED BY <1>1, FS_CardinalityType DEF LogInv, IsSeq, CountInv, Counted

\* A step that does not concern an aggregate.
LEMMA CountedKept ==
    ASSUME LogInv, CountInv, NEW j \in Ids, clock' \in Nat, clock' >= clock,
           UNCHANGED kind, log'[j] = log[j], Lookup(j)' = Lookup(j),
           j \in DOMAIN projection' <=> j \in DOMAIN projection,
           Calling(j, "log")' = Calling(j, "log"),
           Calling(j, "project")' = Calling(j, "project"),
           j \notin restarted' => j \notin restarted, refused'[j] = refused[j]
    PROVE  Counted(j)'
<1>1. Counted(j)
  BY DEF CountInv
<1> QED BY <1>1, CountedNumbers DEF Counted

\* What Lookup finds only depends on the projection of the id.
LEMMA LookupKept ==
    ASSUME UNCHANGED kind, NEW j, j \in DOMAIN projection' <=> j \in DOMAIN projection,
           j \in DOMAIN projection => projection'[j] = projection[j]
    PROVE  Lookup(j)' = Lookup(j)
BY DEF Lookup

LEMMA DispatchCountInv ==
    ASSUME ReadInv, JobInv, LogInv, CountInv, NEW d \in Dispatchers,
           NEW i \in Ids \cup {NoId}, NEW e \in BusEvents(i, clock + 1), Dispatch(d, i, e)
    PROVE  CountInv'
<1>1. /\ d \notin UnderWay(i) /\ job'[d].seq = 0
      /\ \A c \in Dispatchers : c # d => job'[c] = job[c]
      /\ \A j \in Ids : \A s \in {"log", "project"} :
            Calling(j, s)' = Calling(j, s) \cup IF j = i THEN {d} ELSE {}
  BY DispatchJobs
<1>2. /\ clock' = clock + 1 /\ clock' \in 0 .. MaxEvents /\ clock \in Nat
      /\ created' \subseteq Ids \cup {NoId} /\ reordered' \subseteq Ids \cup {NoId}
      /\ UNCHANGED <<kind, log, projection, restarts, restarted, refused>>
  BY BoundAssumption DEF Dispatch, CountInv
<1>3. \A c \in Dispatchers : job'[c] # Idle => job'[c].seq <= clock'
  <2> SUFFICES ASSUME NEW c \in Dispatchers, job'[c] # Idle PROVE job'[c].seq <= clock'
    OBVIOUS
  <2>1. CASE c = d
    BY <1>1, <1>2, <2>1
  <2>2. CASE c # d
    <3>1. job[c] # Idle /\ job'[c] = job[c] /\ job[c].seq \in Nat /\ job[c].seq <= clock
      BY <1>1, <2>2, JobFields DEF JobInv, CountInv
    <3> QED BY <1>2, <3>1
  <2> QED BY <2>1, <2>2
<1>4. ASSUME NEW j \in Ids PROVE Counted(j)'
  <2>1. Lookup(j)' = Lookup(j) /\ Counted(j)
    BY <1>2, LookupKept DEF CountInv
  <2>2. CASE j = i
    <3>1. /\ IsFiniteSet(Calling(j, "log")) /\ IsFiniteSet(Calling(j, "project"))
          /\ d \notin Calling(j, "log") /\ d \notin Calling(j, "project")
          /\ Calling(j, "log")' = Calling(j, "log") \cup {d}
          /\ Calling(j, "project")' = Calling(j, "project") \cup {d}
      BY <1>1, <2>1, <2>2 DEF Counted, Calling
    <3>2. /\ IsFiniteSet(Calling(j, "log")') /\ IsFiniteSet(Calling(j, "project")')
          /\ Cardinality(Calling(j, "log")') = Cardinality(Calling(j, "log")) + 1
          /\ Cardinality(Calling(j, "project")') = Cardinality(Calling(j, "project")) + 1
      BY <3>1, FS_AddElement
    <3>3. /\ Len(log'[j]) + Cardinality(Calling(j, "log")') + refused'[j] <= clock'
          /\ Lookup(j)'.version + Cardinality(Calling(j, "project")') <= clock'
          /\ kind' # "Session" /\ j \notin restarted' =>
                Lookup(j)'.version + Cardinality(Calling(j, "project")')
                    = Len(log'[j]) + Cardinality(Calling(j, "log")') + refused'[j]
      <4>1. /\ Len(log[j]) + Cardinality(Calling(j, "log")) + refused[j] <= clock
            /\ Lookup(j).version + Cardinality(Calling(j, "project")) <= clock
            /\ kind # "Session" /\ j \notin restarted =>
                Lookup(j).version + Cardinality(Calling(j, "project"))
                    = Len(log[j]) + Cardinality(Calling(j, "log")) + refused[j]
        BY <2>1 DEF Counted
      <4>2. PICK a \in Nat, b \in Nat, c \in Nat, v \in Nat, r \in Nat :
              /\ r = refused[j]
              /\ a = Len(log[j]) /\ b = Cardinality(Calling(j, "log"))
              /\ c = Cardinality(Calling(j, "project")) /\ v = Lookup(j).version
        BY CountedNumbers
      <4>3. /\ Len(log'[j]) = a /\ Lookup(j)'.version = v /\ refused'[j] = r
            /\ Cardinality(Calling(j, "log")') = b + 1
            /\ Cardinality(Calling(j, "project")') = c + 1
        BY <1>2, <2>1, <3>2, <4>2
      <4>4. a + b + r <= clock /\ v + c <= clock
            /\ (kind # "Session" /\ j \notin restarted => v + c = a + b + r)
        BY <4>1, <4>2
      <4>5. clock' = clock + 1 /\ clock \in Nat /\ UNCHANGED <<kind, restarted, refused>>
        BY <1>2
      <4> QED BY <4>3, <4>4, <4>5
    <3> QED BY <1>2, <2>1, <3>2, <3>3 DEF Counted
  <2>3. CASE j # i
    <3>1. /\ Calling(j, "log")' = Calling(j, "log")
          /\ Calling(j, "project")' = Calling(j, "project")
      BY <1>1, <2>3
    <3> QED BY <1>2, <2>1, <3>1, CountedKept
  <2> QED BY <2>2, <2>3
<1> QED BY <1>2, <1>3, <1>4 DEF CountInv

\* Steps that take a dispatch further.
LEMMA SeqKept ==
    ASSUME JobInv, CountInv, UNCHANGED clock, NEW d \in Dispatchers,
           \A c \in Dispatchers : c # d => job'[c] = job[c],
           job'[d] # Idle => job'[d].seq <= clock
    PROVE  \A c \in Dispatchers : job'[c] # Idle => job'[c].seq <= clock'
BY DEF CountInv

LEMMA NumberCountInv ==
    ASSUME ReadInv, JobInv, LogInv, CountInv, NEW d \in Dispatchers, Number(d)
    PROVE  CountInv'
<1>1. PICK i : i = job[d].id
  OBVIOUS
<1>2. /\ job[d] # Idle /\ "log" \in job[d].todo
      /\ job' = [job EXCEPT ![d].seq = Len(log[i]) + 1]
      /\ UNCHANGED <<kind, created, log, projection, clock, restarts, reordered, restarted, refused>>
  BY <1>1 DEF Number, ToCall, observed
<1>3. i \in Ids /\ d \in Calling(i, "log")
  BY <1>1, <1>2, JobFields DEF JobInv, Calling, UnderWay
<1>4. PICK n \in Nat : n = Len(log[i]) + 1
  BY <1>3, CountedNumbers
<1>5. /\ \A c \in Dispatchers : c # d => job'[c] = job[c]
      /\ job'[d].seq = n
      /\ \A j \in Ids : \A s \in {"log", "project"} : Calling(j, s)' = Calling(j, s)
  BY <1>2, <1>4, NumberJobs
<1>6. n <= clock
  <2>1. /\ IsFiniteSet(Calling(i, "log"))
        /\ Len(log[i]) + Cardinality(Calling(i, "log")) + refused[i] <= clock
    BY <1>3 DEF CountInv, Counted
  <2>2. Cardinality(Calling(i, "log")) # 0
    BY <1>3, <2>1, FS_EmptySet
  <2> QED BY <1>3, <1>4, <2>1, <2>2, CountedNumbers
<1>7. \A c \in Dispatchers : job'[c] # Idle => job'[c].seq <= clock'
  BY <1>2, <1>5, <1>6, SeqKept
<1>8. ASSUME NEW j \in Ids PROVE Counted(j)'
  BY <1>2, <1>5, LookupKept, CountedKept, CountedNumbers
<1> QED BY <1>2, <1>7, <1>8 DEF CountInv

\* A call made is no longer to be made.
LEMMA OneCallLess ==
    ASSUME ReadInv, JobInv, CountInv, NEW d \in Dispatchers,
           NEW s \in {"log", "project"}, ToCall(d, s), Called(d, s), UNCHANGED clock
    PROVE  /\ \A c \in Dispatchers : job'[c] # Idle => job'[c].seq <= clock'
           /\ \A j \in Ids :
                /\ \A t \in {"log", "project"} : t # s => Calling(j, t)' = Calling(j, t)
                /\ j # job[d].id => Calling(j, s)' = Calling(j, s)
                /\ j = job[d].id =>
                    /\ IsFiniteSet(Calling(j, s)')
                    /\ Cardinality(Calling(j, s)') = Cardinality(Calling(j, s)) - 1
<1>1. /\ \A c \in Dispatchers : c # d => job'[c] = job[c]
      /\ job'[d] # Idle => job'[d].seq = job[d].seq
      /\ \A j \in Ids :
            /\ Calling(j, s)' = Calling(j, s) \ {d}
            /\ \A t \in {"log", "project"} : t # s => Calling(j, t)' = Calling(j, t)
  BY CalledJobs
<1>2. job[d] # Idle /\ s \in job[d].todo /\ job[d].seq <= clock
  BY DEF ToCall, CountInv
<1>3. \A c \in Dispatchers : job'[c] # Idle => job'[c].seq <= clock'
  BY <1>1, <1>2, SeqKept
<1>4. ASSUME NEW j \in Ids, j # job[d].id PROVE Calling(j, s)' = Calling(j, s)
  BY <1>1, <1>4 DEF Calling, UnderWay
<1>5. ASSUME NEW j \in Ids, j = job[d].id
      PROVE  /\ IsFiniteSet(Calling(j, s)')
             /\ Cardinality(Calling(j, s)') = Cardinality(Calling(j, s)) - 1
  <2>1. IsFiniteSet(Calling(j, s)) /\ d \in Calling(j, s)
    BY <1>2, <1>5 DEF CountInv, Counted, Calling, UnderWay
  <2> QED BY <1>1, <2>1, FS_RemoveElement
<1> QED BY <1>1, <1>3, <1>4, <1>5

LEMMA RecordCountInv ==
    ASSUME ReadInv, JobInv, LogInv, CountInv, NEW d \in Dispatchers, Record(d)
    PROVE  CountInv'
<1>1. PICK i : i = job[d].id
  OBVIOUS
<1>2. /\ ToCall(d, "log") /\ Called(d, "log")
      /\ UNCHANGED <<kind, created, projection, clock, restarts, reordered, restarted, refused>>
  BY DEF Record, observed
<1>3. /\ i \in Ids /\ \A j \in Ids : j # i => log'[j] = log[j]
      /\ \E row : log'[i] = Append(log[i], row)
  BY <1>1, RecordedLog
<1>4. Len(log'[i]) = Len(log[i]) + 1
  BY <1>3, OneMore DEF LogInv
<1>5. /\ \A c \in Dispatchers : job'[c] # Idle => job'[c].seq <= clock'
      /\ \A j \in Ids :
            /\ Calling(j, "project")' = Calling(j, "project")
            /\ j # i => Calling(j, "log")' = Calling(j, "log")
      /\ IsFiniteSet(Calling(i, "log")')
      /\ Cardinality(Calling(i, "log")') = Cardinality(Calling(i, "log")) - 1
  BY <1>1, <1>2, <1>3, OneCallLess
<1>6. ASSUME NEW j \in Ids PROVE Counted(j)'
  <2>1. Lookup(j)' = Lookup(j) /\ Counted(j)
    BY <1>2, LookupKept DEF CountInv
  <2>2. CASE j = i
    <3>1. PICK a \in Nat, b \in Nat : a = Len(log[j]) /\ b = Cardinality(Calling(j, "log"))
      BY CountedNumbers
    <3>2. Len(log'[j]) = a + 1 /\ Cardinality(Calling(j, "log")') = b - 1
      BY <1>4, <1>5, <2>2, <3>1
    <3>3. /\ Len(log'[j]) + Cardinality(Calling(j, "log")')
                = Len(log[j]) + Cardinality(Calling(j, "log"))
          /\ Len(log'[j]) # 0
      BY <3>1, <3>2
    <3> QED BY <1>2, <1>5, <2>1, <2>2, <3>3 DEF Counted
  <2>3. CASE j # i
    BY <1>2, <1>3, <1>5, <2>1, <2>3, CountedKept, CountedNumbers
  <2> QED BY <2>2, <2>3
<1> QED BY <1>2, <1>5, <1>6 DEF CountInv

LEMMA RecordRefusedCountInv ==
    ASSUME ReadInv, JobInv, LogInv, CountInv, NEW d \in Dispatchers, RecordRefused(d)
    PROVE  CountInv'
<1>1. PICK i : i = job[d].id
  OBVIOUS
<1>2. /\ ToCall(d, "log") /\ Called(d, "log")
      /\ refused' = [refused EXCEPT ![i] = @ + 1] /\ job[d].seq \in 1 .. Len(log[i])
      /\ UNCHANGED <<kind, created, log, projection, clock, restarts, reordered, restarted>>
  BY <1>1 DEF RecordRefused
<1>3. i \in Ids /\ refused \in [Ids -> Nat]
  BY <1>1, <1>2, JobFields DEF ToCall, JobInv, CountInv
<1>4. /\ \A c \in Dispatchers : job'[c] # Idle => job'[c].seq <= clock'
      /\ \A j \in Ids :
            /\ Calling(j, "project")' = Calling(j, "project")
            /\ j # i => Calling(j, "log")' = Calling(j, "log")
      /\ IsFiniteSet(Calling(i, "log")')
      /\ Cardinality(Calling(i, "log")') = Cardinality(Calling(i, "log")) - 1
  BY <1>1, <1>2, <1>3, OneCallLess
<1>5. ASSUME NEW j \in Ids PROVE Counted(j)'
  <2>1. Lookup(j)' = Lookup(j) /\ Counted(j)
    BY <1>2, LookupKept DEF CountInv
  <2>2. CASE j = i
    <3>1. PICK a \in Nat, b \in Nat, r \in Nat :
            a = Len(log[j]) /\ b = Cardinality(Calling(j, "log")) /\ r = refused[j]
      BY CountedNumbers
    <3>2. /\ Len(log'[j]) = a /\ Cardinality(Calling(j, "log")') = b - 1
          /\ refused'[j] = r + 1 /\ a # 0
      BY <1>2, <1>3, <1>4, <2>2, <3>1
    <3>3. /\ Len(log'[j]) + Cardinality(Calling(j, "log")') + refused'[j]
                = Len(log[j]) + Cardinality(Calling(j, "log")) + refused[j]
          /\ Len(log'[j]) # 0 /\ refused'[j] \in Nat
      BY <3>1, <3>2
    <3> QED BY <1>2, <1>4, <2>1, <2>2, <3>3 DEF Counted
  <2>3. CASE j # i
    BY <1>2, <1>4, <2>1, <2>3, CountedKept, CountedNumbers
  <2> QED BY <2>2, <2>3
<1>6. refused' \in [Ids -> Nat]
  BY <1>2, <1>3
<1> QED BY <1>2, <1>4, <1>5, <1>6 DEF CountInv

\* What a handler does to the aggregates.
LEMMA HandledLookup ==
    ASSUME ReadInv, JobInv, CountInv, NEW d \in Dispatchers,
           NEW k \in {"Order", "Alert", "Position"}, Handle(d, k)
    PROVE  /\ UNCHANGED <<kind, created, log, clock, restarts, reordered, restarted, refused>>
           /\ kind # "Session" /\ ToCall(d, "project") /\ Called(d, "project")
           /\ \A j \in Ids :
                LET agg == Apply(kind, Lookup(j), job[d].event)
                    version == Lookup(j).version
                IN  IF j = job[d].id
                    THEN /\ j \in DOMAIN projection' /\ Lookup(j)' = agg
                         /\ IsLoaded(agg, version + 1) /\ agg.version = version + 1
                         /\ agg.state = ApplyState(kind, Lookup(j).state, job[d].event)
                    ELSE /\ Lookup(j)' = Lookup(j)
                         /\ j \in DOMAIN projection' <=> j \in DOMAIN projection
<1>1. PICK i : i = job[d].id
  OBVIOUS
<1>2. PICK e : e = job[d].event
  OBVIOUS
<1>3. /\ UNCHANGED <<kind, created, log, clock, restarts, reordered, restarted, refused>>
      /\ kind = k /\ ToCall(d, "project") /\ Called(d, "project")
      /\ projection' =
            IF i = NoId THEN projection
            ELSE [j \in DOMAIN projection \cup {i} |->
                    IF j = i THEN Apply(kind, Lookup(i), e) ELSE projection[j]]
  BY <1>1, <1>2 DEF Handle, observed
<1>4. ASSUME NEW j \in Ids, j = i
      PROVE  LET agg == Apply(kind, Lookup(j), e)
                 version == Lookup(j).version
             IN  /\ j \in DOMAIN projection' /\ Lookup(j)' = agg
                 /\ IsLoaded(agg, version + 1) /\ agg.version = version + 1
                 /\ agg.state = ApplyState(kind, Lookup(j).state, e)
  <2>1. PICK agg : agg = Apply(kind, Lookup(j), e)
    OBVIOUS
  <2>2. j # NoId
    BY OwnerAssumption
  <2>3. j \in DOMAIN projection' /\ projection'[j] = agg
    BY <1>3, <1>4, <2>1, <2>2
  <2>4. Lookup(j)' = agg
    BY <2>3 DEF Lookup
  <2>5. Lookup(j).version \in Nat /\ IsLoaded(Lookup(j), Lookup(j).version)
    BY DEF CountInv, Counted
  <2>6. /\ agg = [state |-> ApplyState(kind, Lookup(j).state, e),
                  version |-> Lookup(j).version + 1, pending |-> << >>]
        /\ IsLoaded(agg, Lookup(j).version + 1)
    BY <2>1, <2>5, AppliedIsLoaded
  <2> QED BY <2>1, <2>3, <2>4, <2>6
<1>5. ASSUME NEW j \in Ids, j # i
      PROVE  Lookup(j)' = Lookup(j) /\ (j \in DOMAIN projection' <=> j \in DOMAIN projection)
  <2>1. /\ j \in DOMAIN projection' <=> j \in DOMAIN projection
        /\ j \in DOMAIN projection => projection'[j] = projection[j]
    BY <1>3, <1>5
  <2> QED BY <1>3, <2>1, LookupKept
<1>6. kind # "Session"
  BY <1>3
<1> QED BY <1>1, <1>2, <1>3, <1>4, <1>5, <1>6

LEMMA HandleCountInv ==
    ASSUME ReadInv, JobInv, LogInv, CountInv, NEW d \in Dispatchers,
           NEW k \in {"Order", "Alert", "Position"}, Handle(d, k)
    PROVE  CountInv'
<1>1. PICK i : i = job[d].id
  OBVIOUS
<1>2. /\ UNCHANGED <<kind, created, log, clock, restarts, reordered, restarted, refused>>
      /\ ToCall(d, "project") /\ Called(d, "project")
      /\ \A j \in Ids : j # i => /\ Lookup(j)' = Lookup(j)
                                 /\ j \in DOMAIN projection' <=> j \in DOMAIN projection
      /\ i \in Ids => /\ i \in DOMAIN projection'
                      /\ IsLoaded(Lookup(i)', Lookup(i).version + 1)
                      /\ Lookup(i)'.version = Lookup(i).version + 1
  BY <1>1, HandledLookup
<1>3. /\ \A c \in Dispatchers : job'[c] # Idle => job'[c].seq <= clock'
      /\ \A j \in Ids :
            /\ Calling(j, "log")' = Calling(j, "log")
            /\ j # i => Calling(j, "project")' = Calling(j, "project")
            /\ j = i =>
                /\ IsFiniteSet(Calling(j, "project")')
                /\ Cardinality(Calling(j, "project")')
                    = Cardinality(Calling(j, "project")) - 1
  BY <1>1, <1>2, OneCallLess
<1>4. ASSUME NEW j \in Ids PROVE Counted(j)'
  <2>1. CASE j = i
    <3>1. Counted(j)
      BY DEF CountInv
    <3>2. PICK v \in Nat, c \in Nat :
            v = Lookup(j).version /\ c = Cardinality(Calling(j, "project"))
      BY CountedNumbers
    <3>3. /\ Lookup(j)'.version = v + 1 /\ Cardinality(Calling(j, "project")') = c - 1
          /\ IsLoaded(Lookup(j)', Lookup(j)'.version)
      BY <1>2, <1>3, <2>1, <3>2
    <3>4. /\ Lookup(j)'.version + Cardinality(Calling(j, "project")')
                = Lookup(j).version + Cardinality(Calling(j, "project"))
          /\ Lookup(j)'.version \in Nat /\ Lookup(j)'.version # 0
      BY <3>2, <3>3
    <3> QED BY <1>2, <1>3, <2>1, <3>1, <3>3, <3>4 DEF Counted
  <2>2. CASE j # i
    BY <1>2, <1>3, <2>2, CountedKept, CountedNumbers
  <2> QED BY <2>1, <2>2
<1> QED BY <1>2, <1>3, <1>4 DEF CountInv

LEMMA NotSubscribedCountInv ==
    ASSUME ReadInv, JobInv, LogInv, CountInv, NEW d \in Dispatchers, NotSubscribed(d)
    PROVE  CountInv'
<1>1. PICK i : i = job[d].id
  OBVIOUS
<1>2. /\ UNCHANGED <<kind, created, log, projection, clock, restarts, reordered, restarted, refused>>
      /\ kind = "Session" /\ ToCall(d, "project") /\ Called(d, "project")
  BY DEF NotSubscribed, observed
<1>3. /\ \A c \in Dispatchers : job'[c] # Idle => job'[c].seq <= clock'
      /\ \A j \in Ids :
            /\ Calling(j, "log")' = Calling(j, "log")
            /\ j # i => Calling(j, "project")' = Calling(j, "project")
            /\ j = i =>
                /\ IsFiniteSet(Calling(j, "project")')
                /\ Cardinality(Calling(j, "project")')
                    = Cardinality(Calling(j, "project")) - 1
  BY <1>1, <1>2, OneCallLess
<1>4. ASSUME NEW j \in Ids PROVE Counted(j)'
  <2>1. Lookup(j)' = Lookup(j) /\ Counted(j)
    BY <1>2, LookupKept DEF CountInv
  <2>2. CASE j = i
    BY <1>2, <1>3, <2>1, <2>2, CountedNumbers DEF Counted
  <2>3. CASE j # i
    BY <1>2, <1>3, <2>1, <2>3, CountedKept, CountedNumbers
  <2> QED BY <2>2, <2>3
<1> QED BY <1>2, <1>3, <1>4 DEF CountInv

LEMMA RestartCountInv ==
    ASSUME ReadInv, JobInv, LogInv, CountInv, Restart
    PROVE  CountInv'
<1>1. /\ UNCHANGED <<kind, created, log, clock>> /\ reordered' = {}
      /\ restarts' \in 0 .. MaxRestarts
      /\ restarted' = {i \in Ids : log[i] # << >>} /\ refused' = [i \in Ids |-> 0]
  BY BoundAssumption DEF Restart, CountInv
<1>2. ASSUME NEW j \in Ids PROVE Counted(j)'
  <2>1. /\ Calling(j, "log")' = {} /\ Calling(j, "project")' = {}
        /\ IsFiniteSet({}) /\ Cardinality({}) = 0
    BY RestartJobs, FS_EmptySet
  <2>2. j \notin DOMAIN projection' /\ Lookup(j)' = Fresh(NewState(kind))
    BY DEF Restart, Lookup, NewState
  <2>3. /\ Lookup(j)'.version = 0 /\ IsLoaded(Lookup(j)', 0)
    BY <2>2 DEF Fresh, IsLoaded
  <2>4. Len(log[j]) \in Nat /\ Len(log[j]) <= clock
    <3>1. Len(log[j]) + Cardinality(Calling(j, "log")) + refused[j] <= clock
      BY DEF CountInv, Counted
    <3> QED BY <3>1, CountedNumbers
  <2>5. j \notin restarted' => Len(log[j]) = 0
    BY <1>1
  <2>6. PICK a \in Nat : a = Len(log[j]) /\ a <= clock /\ (j \notin restarted' => a = 0)
    BY <2>4, <2>5
  <2>7. PICK v \in Nat : v = 0 /\ Lookup(j)'.version = v /\ IsLoaded(Lookup(j)', v)
    BY <2>3
  <2>8. PICK z \in Nat : z = 0 /\ Cardinality(Calling(j, "log")') = z
                       /\ Cardinality(Calling(j, "project")') = z
    BY <2>1
  <2>9. clock \in Nat
    BY CountedNumbers
  <2>10. /\ Len(log'[j]) + Cardinality(Calling(j, "log")') + refused'[j] = a
         /\ refused'[j] = 0
         /\ Lookup(j)'.version + Cardinality(Calling(j, "project")') = 0
         /\ a <= clock' /\ 0 <= clock' /\ (j \notin restarted' => a = 0)
    BY <1>1, <2>6, <2>7, <2>8, <2>9
  <2>11. /\ IsFiniteSet(Calling(j, "log")') /\ IsFiniteSet(Calling(j, "project")')
         /\ Lookup(j)'.version = 0 /\ IsLoaded(Lookup(j)', Lookup(j)'.version)
         /\ j \notin DOMAIN projection'
    BY <2>1, <2>2, <2>3
  <2> QED BY <2>10, <2>11 DEF Counted
<1>3. \A c \in Dispatchers : job'[c] # Idle => job'[c].seq <= clock'
  BY DEF Restart
<1> QED BY <1>1, <1>2, <1>3 DEF CountInv

LEMMA StepCountInv ==
    ASSUME ReadInv, JobInv, LogInv, CountInv, [Next]_vars
    PROVE  CountInv'
<1>1. ASSUME UNCHANGED <<kind, created, log, projection, job, clock, restarts, observed>>
      PROVE  CountInv'
  <2>1. \A j \in Ids : /\ Calling(j, "log")' = Calling(j, "log")
                       /\ Calling(j, "project")' = Calling(j, "project")
    BY <1>1 DEF Calling, UnderWay
  <2>2. \A j \in Ids : Counted(j)'
    BY <1>1, <2>1, LookupKept, CountedKept, CountedNumbers DEF observed
  <2> QED BY <1>1, <2>2 DEF CountInv, observed
<1>2. ASSUME NEW d \in Dispatchers, NEW i \in Ids \cup {NoId},
             NEW e \in BusEvents(i, clock + 1), Dispatch(d, i, e)
      PROVE  CountInv'
  BY <1>2, DispatchCountInv
<1>3. ASSUME NEW d \in Dispatchers,
             Number(d) \/ Record(d) \/ RecordRefused(d) \/ NotSubscribed(d)
      PROVE  CountInv'
  BY <1>3, NumberCountInv, RecordCountInv, RecordRefusedCountInv, NotSubscribedCountInv
<1>4. ASSUME NEW d \in Dispatchers,
             HandleOrderEvent(d) \/ HandleAlertEvent(d) \/ HandlePositionEvent(d)
      PROVE  CountInv'
  BY <1>4, HandleCountInv DEF HandleOrderEvent, HandleAlertEvent, HandlePositionEvent
<1>5. ASSUME NEW r \in Readers,
             (\E i \in Ids : Get(r, i) \/ GetNothing(r, i)) \/ LetGo(r)
      PROVE  CountInv'
  BY <1>1, <1>5 DEF Get, GetNothing, LetGo, vars
<1>6. CASE Restart
  BY <1>6, RestartCountInv
<1>7. CASE UNCHANGED vars
  BY <1>1, <1>7 DEF vars
<1> QED BY <1>2, <1>3, <1>4, <1>5, <1>6, <1>7 DEF Next

LEMMA InitCountInv ==
    ASSUME Init PROVE CountInv
<1>1. ASSUME NEW j \in Ids PROVE Counted(j)
  <2>1. UnderWay(j) = {}
    BY DEF Init, UnderWay
  <2>2. Calling(j, "log") = {} /\ Calling(j, "project") = {}
    BY <2>1 DEF Calling
  <2>3. j \notin DOMAIN projection /\ Lookup(j) = Fresh(NewState(kind))
    BY DEF Init, Lookup
  <2>4. Lookup(j).version = 0 /\ IsLoaded(Lookup(j), 0)
    BY <2>3 DEF Fresh, IsLoaded
  <2>5. Len(log[j]) = 0 /\ clock = 0
    BY DEF Init
  <2>6. IsFiniteSet({}) /\ Cardinality({}) = 0
    BY FS_EmptySet
  <2>7. /\ Len(log[j]) + Cardinality(Calling(j, "log")) + refused[j] = 0
        /\ refused[j] = 0
        /\ Lookup(j).version + Cardinality(Calling(j, "project")) = 0
    <3>1. Cardinality(Calling(j, "log")) = 0 /\ Cardinality(Calling(j, "project")) = 0
      BY <2>2, <2>6
    <3>2. refused[j] = 0
      BY DEF Init
    <3> QED BY <2>4, <2>5, <3>1, <3>2
  <2>8. /\ IsFiniteSet(Calling(j, "log")) /\ IsFiniteSet(Calling(j, "project"))
        /\ IsLoaded(Lookup(j), Lookup(j).version)
    BY <2>2, <2>4, <2>6
  <2> QED BY <2>3, <2>4, <2>5, <2>7, <2>8 DEF Counted
<1>2. created = {} /\ reordered = {} /\ clock = 0 /\ restarts = 0
      /\ restarted = {} /\ refused \in [Ids -> Nat]
  BY DEF Init
<1>3. \A d \in Dispatchers : job[d] = Idle
  BY DEF Init
<1> QED BY <1>1, <1>2, <1>3, BoundAssumption DEF CountInv

LEMMA CountInvariant == Spec => [](ReadInv /\ JobInv /\ LogInv /\ CountInv)
<1>1. Init => CountInv
  BY InitCountInv
<1>2. ReadInv /\ JobInv /\ LogInv /\ CountInv /\ [Next]_vars => CountInv'
  BY StepCountInv
<1> QED BY LogInvariant, <1>1, <1>2, PTL DEF Spec

\* Every variable keeps its type: no log and no aggregate has more events
\* than were dispatched, and no sequence number is beyond them (projection.go
\* and the persister of the use cases).
THEOREM ProjectorTyped == Spec => []TypeOK
<1>1. ReadInv /\ JobInv /\ LogInv /\ CountInv => TypeOK
  <2> SUFFICES ASSUME ReadInv, JobInv, LogInv, CountInv PROVE TypeOK
    OBVIOUS
  <2>1. /\ kind \in Kinds /\ DOMAIN projection \subseteq Ids
        /\ created \subseteq Ids \cup {NoId} /\ reordered \subseteq Ids \cup {NoId}
        /\ restarted \subseteq Ids /\ refused \in [Ids -> Nat]
        /\ clock \in 0 .. MaxEvents /\ restarts \in 0 .. MaxRestarts
    BY DEF ReadInv, CountInv
  <2>2. ASSUME NEW i \in Ids
        PROVE  /\ Len(log[i]) <= clock /\ refused[i] \in 0 .. clock
               /\ i \in DOMAIN projection => projection[i].version \in 1 .. clock
    <3>1. /\ Len(log[i]) + Cardinality(Calling(i, "log")) + refused[i] <= clock
          /\ Lookup(i).version + Cardinality(Calling(i, "project")) <= clock
          /\ i \in DOMAIN projection => Lookup(i).version # 0
      BY DEF CountInv, Counted
    <3>2. /\ Len(log[i]) \in Nat /\ clock \in Nat /\ Lookup(i).version \in Nat
          /\ Cardinality(Calling(i, "log")) \in Nat
          /\ Cardinality(Calling(i, "project")) \in Nat /\ refused[i] \in Nat
      BY CountedNumbers
    <3>3. i \in DOMAIN projection => Lookup(i).version \in 1 .. clock
      BY <3>1, <3>2
    <3>4. i \in DOMAIN projection => Lookup(i) = projection[i]
      BY DEF Lookup
    <3> QED BY <3>1, <3>2, <3>3, <3>4
  <2>3. ASSUME NEW d \in Dispatchers, job[d] # Idle
        PROVE  job[d].todo \in (SUBSET {"log", "project"}) \ {{}} /\ job[d].seq <= clock
    BY <2>3, JobFields DEF JobInv, CountInv
  <2>4. \A i \in DOMAIN projection : projection[i].version \in 1 .. clock
    BY <2>1, <2>2
  <2> QED BY <2>1, <2>2, <2>3, <2>4 DEF TypeOK
<1> QED BY CountInvariant, <1>1, PTL

-----------------------------------------------------------------------------
\* The projection follows the log.

LEMMA RefusedApart ==
    ASSUME JobInv, CountInv, NEW d \in Dispatchers, RecordRefused(d)
    PROVE  apart \cup {job[d].id} \subseteq apart'
<1>1. job[d].id \in Ids /\ refused \in [Ids -> Nat]
  BY JobFields DEF RecordRefused, ToCall, JobInv, CountInv
<1> QED BY <1>1 DEF RecordRefused, apart

LEMMA LoggedKept ==
    ASSUME UNCHANGED kind, NEW j, log'[j] = log[j]
    PROVE  Logged(j)' = Logged(j)
BY DEF Logged, Events

LEMMA FollowedKept ==
    ASSUME UNCHANGED kind, NEW j \in Ids, Followed(j), Lookup(j)' = Lookup(j),
           log'[j] = log[j], UnderWay(j)' = UnderWay(j),
           \A c \in UnderWay(j) : job'[c].event = job[c].event
                                  /\ job'[c].todo = job[c].todo
    PROVE  Followed(j)'
BY LoggedKept DEF Followed

\* A subscriber has been called in the only dispatch of an aggregate.
LEMMA OnlyCalled ==
    ASSUME ReadInv, JobInv, NEW d \in Dispatchers, NEW s \in {"log", "project"},
           ToCall(d, s), Called(d, s)
    PROVE  /\ \A j \in Ids : j # job[d].id =>
                /\ UnderWay(j)' = UnderWay(j)
                /\ \A c \in UnderWay(j) : job'[c] = job[c]
           /\ \A j \in Ids : j = job[d].id /\ (\A b, c \in UnderWay(j) : b = c) =>
                /\ UnderWay(j) = {d}
                /\ \/ job[d].todo = {s} /\ UnderWay(j)' = {}
                   \/ /\ job[d].todo = {"log", "project"} /\ UnderWay(j)' = {d}
                      /\ job'[d].event = job[d].event
                      /\ job'[d].todo = {"log", "project"} \ {s}
<1>1. /\ \A c \in Dispatchers : c # d => job'[c] = job[c]
      /\ job[d].todo # {s} => /\ job'[d].event = job[d].event
                              /\ job'[d].todo = job[d].todo \ {s}
      /\ \A j \in Ids : UnderWay(j)' = UnderWay(j) \ IF job[d].todo = {s} THEN {d} ELSE {}
  BY CalledJobs
<1>2. /\ job[d] # Idle /\ s \in job[d].todo
      /\ job[d].todo \in SUBSET {"log", "project"}
  BY JobFields DEF ToCall, JobInv
<1>3. ASSUME NEW j \in Ids, j # job[d].id
      PROVE  UnderWay(j)' = UnderWay(j) /\ \A c \in UnderWay(j) : job'[c] = job[c]
  <2>1. d \notin UnderWay(j) /\ \A c \in UnderWay(j) : c \in Dispatchers
    BY <1>3 DEF UnderWay
  <2> QED BY <1>1, <2>1
<1>4. ASSUME NEW j \in Ids, j = job[d].id, \A b, c \in UnderWay(j) : b = c
      PROVE  /\ UnderWay(j) = {d}
             /\ \/ job[d].todo = {s} /\ UnderWay(j)' = {}
                \/ /\ job[d].todo = {"log", "project"} /\ UnderWay(j)' = {d}
                   /\ job'[d].event = job[d].event
                   /\ job'[d].todo = {"log", "project"} \ {s}
  <2>1. d \in UnderWay(j)
    BY <1>2, <1>4 DEF UnderWay
  <2>2. UnderWay(j) = {d}
    BY <1>4, <2>1
  <2>3. CASE job[d].todo = {s}
    BY <1>1, <2>2, <2>3
  <2>4. CASE job[d].todo # {s}
    <3>1. job[d].todo = {"log", "project"}
      BY <1>2, <2>4
    <3> QED BY <1>1, <2>2, <2>4, <3>1
  <2> QED BY <2>2, <2>3, <2>4
<1> QED BY <1>3, <1>4

\* A row more in the log.
LEMMA LoggedMore ==
    ASSUME ReadInv, JobInv, LogInv, NEW d \in Dispatchers, Record(d),
           NEW i, i = job[d].id
    PROVE  Logged(i)' = Apply(kind, Logged(i), job[d].event)
<1>1. /\ i \in Ids /\ UNCHANGED kind
      /\ \E row : row.event = job[d].event /\ log'[i] = Append(log[i], row)
  BY RecordedLog DEF Record
<1>2. PICK rows : rows = log[i]
  OBVIOUS
<1>3. PICK row : row.event = job[d].event /\ log'[i] = Append(rows, row)
  BY <1>1, <1>2
<1>4. PICK longer : longer = Append(rows, row)
  OBVIOUS
<1>5. IsSeq(rows)
  BY <1>1, <1>2 DEF LogInv
<1>6. /\ IsSeq(longer) /\ Len(longer) = Len(rows) + 1
      /\ \A n \in 1 .. Len(rows) : longer[n] = rows[n]
      /\ longer[Len(longer)] = row
  BY <1>4, <1>5, OneMore
<1>7. Replay(kind, Events(longer)) = Apply(kind, Replay(kind, Events(rows)), row.event)
  BY <1>5, <1>6, RowMore
<1>8. log'[i] = longer /\ log[i] = rows
  BY <1>2, <1>3, <1>4
<1>9. Logged(i)' = Replay(kind, Events(longer))
  BY <1>1, <1>8 DEF Logged, Events
<1> QED BY <1>2, <1>3, <1>7, <1>9 DEF Logged

LEMMA DispatchFollowInv ==
    ASSUME ReadInv, JobInv, LogInv, CountInv, FollowInv, NEW d \in Dispatchers,
           NEW i \in Ids \cup {NoId}, NEW e \in BusEvents(i, clock + 1), Dispatch(d, i, e)
    PROVE  FollowInv'
<1>1. /\ d \notin UnderWay(i) /\ job'[d].event = e
      /\ i \in Ids => job'[d].todo = {"log", "project"}
      /\ \A c \in Dispatchers : c # d => job'[c] = job[c]
      /\ \A j \in Ids : UnderWay(j)' = UnderWay(j) \cup IF j = i THEN {d} ELSE {}
  BY DispatchJobs, OwnerAssumption
<1>2. /\ UNCHANGED <<kind, log, projection, apart>> /\ job[d] = Idle
      /\ reordered' = IF UnderWay(i) = {} THEN reordered ELSE reordered \cup {i}
  BY DEF Dispatch, apart
<1> SUFFICES ASSUME kind # "Session", NEW j \in Ids \ (reordered' \cup apart')
             PROVE  Followed(j)'
  BY <1>2 DEF FollowInv
<1>3. Followed(j) /\ Lookup(j)' = Lookup(j) /\ Logged(j)' = Logged(j)
  BY <1>2, LookupKept, LoggedKept DEF FollowInv
<1>4. CASE j = i
  <2>1. UnderWay(j) = {} /\ UnderWay(j)' = {d}
    BY <1>1, <1>2, <1>4
  <2>2. Lookup(j) = Logged(j)
    BY <1>3, <2>1 DEF Followed
  <2> QED BY <1>1, <1>3, <1>4, <2>1, <2>2 DEF Followed
<1>5. CASE j # i
  <2>1. \A c \in UnderWay(j) : job'[c] = job[c]
    BY <1>1, <1>2 DEF UnderWay
  <2> QED BY <1>1, <1>2, <1>3, <1>5, <2>1, FollowedKept
<1> QED BY <1>4, <1>5

LEMMA RecordFollowInv ==
    ASSUME ReadInv, JobInv, LogInv, CountInv, FollowInv, NEW d \in Dispatchers, Record(d)
    PROVE  FollowInv'
<1>1. PICK i : i = job[d].id
  OBVIOUS
<1>2. /\ UNCHANGED <<kind, projection, reordered, apart>>
      /\ ToCall(d, "log") /\ Called(d, "log")
  BY DEF Record, observed, apart
<1>3. \A j \in Ids : j # i => log'[j] = log[j]
  BY <1>1, RecordedLog
<1> SUFFICES ASSUME kind # "Session", NEW j \in Ids \ (reordered' \cup apart')
             PROVE  Followed(j)'
  BY <1>2 DEF FollowInv
<1>4. Followed(j) /\ Lookup(j)' = Lookup(j)
  BY <1>2, LookupKept DEF FollowInv
<1>5. CASE j = i
  <2>1. Logged(j)' = Apply(kind, Logged(j), job[d].event)
    BY <1>1, <1>5, LoggedMore
  <2>2. /\ UnderWay(j) = {d}
        /\ \/ job[d].todo = {"log"} /\ UnderWay(j)' = {}
           \/ /\ job[d].todo = {"log", "project"} /\ UnderWay(j)' = {d}
              /\ job'[d].event = job[d].event
              /\ job'[d].todo = {"project"}
    <3>1. \A b, c \in UnderWay(j) : b = c
      BY <1>4 DEF Followed
    <3>2. {"log", "project"} \ {"log"} = {"project"}
      OBVIOUS
    <3> QED BY <1>1, <1>2, <1>5, <3>1, <3>2, OnlyCalled
  <2>3. CASE job[d].todo = {"log"} /\ UnderWay(j)' = {}
    <3>1. Lookup(j) = Logged(j)'
      BY <1>4, <2>1, <2>2, <2>3 DEF Followed
    <3> QED BY <1>2, <1>4, <2>3, <3>1 DEF Followed
  <2>4. CASE /\ job[d].todo = {"log", "project"} /\ UnderWay(j)' = {d}
             /\ job'[d].event = job[d].event /\ job'[d].todo = {"project"}
    <3>1. Lookup(j) = Logged(j)
      BY <1>4, <2>2, <2>4 DEF Followed
    <3>2. Apply(kind, Lookup(j)', job'[d].event) = Logged(j)'
      BY <1>4, <2>1, <2>4, <3>1
    <3> QED BY <1>2, <2>4, <3>2 DEF Followed
  <2> QED BY <2>2, <2>3, <2>4
<1>6. CASE j # i
  <2>1. /\ UnderWay(j)' = UnderWay(j)
        /\ \A c \in UnderWay(j) : job'[c] = job[c]
    BY <1>1, <1>2, <1>6, OnlyCalled
  <2> QED BY <1>2, <1>3, <1>4, <1>6, <2>1, FollowedKept
<1> QED BY <1>5, <1>6

LEMMA HandleFollowInv ==
    ASSUME ReadInv, JobInv, LogInv, CountInv, FollowInv, NEW d \in Dispatchers,
           NEW k \in {"Order", "Alert", "Position"}, Handle(d, k)
    PROVE  FollowInv'
<1>1. PICK i : i = job[d].id
  OBVIOUS
<1>2. /\ UNCHANGED <<kind, log, reordered, apart>>
      /\ ToCall(d, "project") /\ Called(d, "project")
      /\ \A j \in Ids : IF j = i THEN Lookup(j)' = Apply(kind, Lookup(j), job[d].event)
                        ELSE Lookup(j)' = Lookup(j)
  BY <1>1, HandledLookup DEF apart
<1> SUFFICES ASSUME kind # "Session", NEW j \in Ids \ (reordered' \cup apart')
             PROVE  Followed(j)'
  BY <1>2 DEF FollowInv
<1>3. Followed(j) /\ Logged(j)' = Logged(j)
  BY <1>2, LoggedKept DEF FollowInv
<1>4. CASE j = i
  <2>1. Lookup(j)' = Apply(kind, Lookup(j), job[d].event)
    BY <1>2, <1>4
  <2>2. /\ UnderWay(j) = {d}
        /\ \/ job[d].todo = {"project"} /\ UnderWay(j)' = {}
           \/ /\ job[d].todo = {"log", "project"} /\ UnderWay(j)' = {d}
              /\ job'[d].event = job[d].event
              /\ job'[d].todo = {"log"}
    <3>1. \A b, c \in UnderWay(j) : b = c
      BY <1>3 DEF Followed
    <3>2. {"log", "project"} \ {"project"} = {"log"}
      OBVIOUS
    <3> QED BY <1>1, <1>2, <1>4, <3>1, <3>2, OnlyCalled
  <2>3. CASE job[d].todo = {"project"} /\ UnderWay(j)' = {}
    <3>1. Lookup(j)' = Logged(j)
      BY <1>3, <2>1, <2>2, <2>3 DEF Followed
    <3> QED BY <1>2, <1>3, <2>3, <3>1 DEF Followed
  <2>4. CASE /\ job[d].todo = {"log", "project"} /\ UnderWay(j)' = {d}
             /\ job'[d].event = job[d].event /\ job'[d].todo = {"log"}
    <3>1. Lookup(j) = Logged(j)
      BY <1>3, <2>2, <2>4 DEF Followed
    <3>2. Lookup(j)' = Apply(kind, Logged(j)', job'[d].event)
      BY <1>3, <2>1, <2>4, <3>1
    <3> QED BY <1>2, <2>4, <3>2 DEF Followed
  <2> QED BY <2>2, <2>3, <2>4
<1>5. CASE j # i
  <2>1. /\ UnderWay(j)' = UnderWay(j)
        /\ \A c \in UnderWay(j) : job'[c] = job[c]
    BY <1>1, <1>2, <1>5, OnlyCalled
  <2> QED BY <1>2, <1>3, <1>5, <2>1, FollowedKept
<1> QED BY <1>4, <1>5

LEMMA NothingLogged ==
    ASSUME LogInv, NEW j \in Ids, log[j] = << >>
    PROVE  Logged(j) = Fresh(NewState(kind))
<1>1. PICK rows : rows = log[j]
  OBVIOUS
<1>2. IsSeq(rows) /\ Len(rows) = 0
  BY <1>1 DEF LogInv
<1>3. Len(Events(rows)) = 0
  BY <1>2, EventsSeq
<1>4. Replay(kind, Events(rows)) = Fresh(NewState(kind))
  BY <1>3, ReplayNothing
<1> QED BY <1>1, <1>4 DEF Logged

LEMMA StepFollowInv ==
    ASSUME ReadInv, JobInv, LogInv, CountInv, FollowInv, [Next]_vars
    PROVE  FollowInv'
<1>1. ASSUME UNCHANGED <<kind, log, projection, job, observed>> PROVE FollowInv'
  <2> SUFFICES ASSUME kind # "Session", NEW j \in Ids \ (reordered \cup apart)
               PROVE  Followed(j)'
    BY <1>1 DEF FollowInv, observed, apart
  <2>1. UnderWay(j)' = UnderWay(j) /\ Lookup(j)' = Lookup(j) /\ Followed(j)
    BY <1>1, LookupKept DEF FollowInv, UnderWay
  <2> QED BY <1>1, <2>1, FollowedKept
<1>2. ASSUME NEW d \in Dispatchers, NEW i \in Ids \cup {NoId},
             NEW e \in BusEvents(i, clock + 1), Dispatch(d, i, e)
      PROVE  FollowInv'
  BY <1>2, DispatchFollowInv
<1>3. ASSUME NEW d \in Dispatchers, Number(d) PROVE FollowInv'
  <2>1. /\ job[d] # Idle /\ "log" \in job[d].todo
        /\ job' = [job EXCEPT ![d].seq = Len(log[job[d].id]) + 1]
        /\ UNCHANGED <<kind, log, projection, reordered, apart>>
    BY <1>3 DEF Number, ToCall, observed, apart
  <2>2. job[d].id \in Ids
    BY <2>1, JobFields DEF JobInv
  <2>3. PICK n \in Nat : n = Len(log[job[d].id]) + 1
    BY <2>2, CountedNumbers
  <2>4. /\ \A c \in Dispatchers : job'[c].event = job[c].event /\ job'[c].todo = job[c].todo
        /\ \A j \in Ids : UnderWay(j)' = UnderWay(j)
    BY <2>1, <2>3, NumberJobs
  <2> SUFFICES ASSUME kind # "Session", NEW j \in Ids \ (reordered \cup apart)
               PROVE  Followed(j)'
    BY <2>1 DEF FollowInv
  <2>5. Lookup(j)' = Lookup(j) /\ Followed(j) /\ \A c \in UnderWay(j) : c \in Dispatchers
    BY <2>1, LookupKept DEF FollowInv, UnderWay
  <2> QED BY <2>1, <2>4, <2>5, FollowedKept
<1>4. ASSUME NEW d \in Dispatchers, Record(d) PROVE FollowInv'
  BY <1>4, RecordFollowInv
<1>5. ASSUME NEW d \in Dispatchers, RecordRefused(d) PROVE FollowInv'
  <2>1. /\ ToCall(d, "log") /\ Called(d, "log") /\ apart \cup {job[d].id} \subseteq apart'
        /\ UNCHANGED <<kind, log, projection, reordered>>
    BY <1>5, RefusedApart DEF RecordRefused
  <2> SUFFICES ASSUME kind # "Session", NEW j \in Ids \ (reordered \cup apart),
                      j # job[d].id
               PROVE  Followed(j)'
    BY <2>1 DEF FollowInv
  <2>2. Lookup(j)' = Lookup(j) /\ Followed(j)
    BY <2>1, LookupKept DEF FollowInv
  <2>3. UnderWay(j)' = UnderWay(j) /\ \A c \in UnderWay(j) : job'[c] = job[c]
    BY <2>1, OnlyCalled
  <2> QED BY <2>1, <2>2, <2>3, FollowedKept
<1>6. ASSUME NEW d \in Dispatchers,
             HandleOrderEvent(d) \/ HandleAlertEvent(d) \/ HandlePositionEvent(d)
      PROVE  FollowInv'
  BY <1>6, HandleFollowInv DEF HandleOrderEvent, HandleAlertEvent, HandlePositionEvent
<1>7. ASSUME NEW d \in Dispatchers, NotSubscribed(d) PROVE FollowInv'
  BY <1>7 DEF NotSubscribed, FollowInv
<1>8. ASSUME NEW r \in Readers,
             (\E i \in Ids : Get(r, i) \/ GetNothing(r, i)) \/ LetGo(r)
      PROVE  FollowInv'
  BY <1>1, <1>8 DEF Get, GetNothing, LetGo, vars
<1>9. CASE Restart
  <2>1. /\ UNCHANGED <<kind, log>> /\ apart' = {i \in Ids : log[i] # << >>}
        /\ DOMAIN projection' = {}
    BY <1>9 DEF Restart, apart
  <2> SUFFICES ASSUME NEW j \in Ids, log[j] = << >> PROVE Followed(j)'
    BY <2>1 DEF FollowInv
  <2>2. UnderWay(j)' = {}
    BY <1>9, RestartJobs
  <2>3. Lookup(j)' = Fresh(NewState(kind))
    BY <2>1 DEF Lookup, NewState
  <2>4. Logged(j)' = Fresh(NewState(kind))
    BY <2>1, LoggedKept, NothingLogged
  <2> QED BY <2>2, <2>3, <2>4 DEF Followed
<1>10. CASE UNCHANGED vars
  BY <1>1, <1>10 DEF vars
<1> QED BY <1>2, <1>3, <1>4, <1>5, <1>6, <1>7, <1>8, <1>9, <1>10 DEF Next

-----------------------------------------------------------------------------
\* An order is placed once, in the projection and in the log.

LEMMA PlacementApplied ==
    ASSUME NEW owner, NEW now, NEW e \in OrderBusEvents(owner, now), NEW s,
           DOMAIN s = DOMAIN OrderNew
    PROVE  /\ DOMAIN OrderApply(s, e) = DOMAIN OrderNew
           /\ Placement(OrderApply(s, e)) =
                IF e.type = "order.placed" THEN PlacementOf(e) ELSE Placement(s)
<1>1. DOMAIN s = {"status", "terms", "order_type", "qty", "price", "filled_qty",
                  "filled_price", "modify_count", "placed_at", "modified_at",
                  "cancelled_at", "filled_at"}
  BY DEF OrderNew
<1> USE DEF OrderApply, Placement, PlacementOf
<1>2. CASE e.type = "order.placed"
  BY <1>1, <1>2
<1>3. CASE e.type = "order.filled"
  BY <1>1, <1>3
<1>4. CASE e.type = "order.modified"
  BY <1>1, <1>4
<1>5. CASE e.type = "order.cancelled"
  BY <1>1, <1>5
<1> QED BY <1>2, <1>3, <1>4, <1>5 DEF OrderBusEvents

LEMMA PlacedKept ==
    ASSUME UNCHANGED kind, NEW j \in Ids, Placed(j), Lookup(j)' = Lookup(j),
           Logged(j)' = Logged(j), j \in created => j \in created',
           Placing(j)' = Placing(j),
           \A c \in Placing(j) : job'[c].event = job[c].event
                                 /\ job'[c].todo = job[c].todo
    PROVE  Placed(j)'
BY DEF Placed

\* A subscriber has been called.
LEMMA PlacingCalled ==
    ASSUME ReadInv, JobInv, NEW d \in Dispatchers, NEW s \in {"log", "project"},
           ToCall(d, s), Called(d, s)
    PROVE  /\ \A j \in Ids : j # job[d].id \/ job[d].event.type # "order.placed" =>
                /\ Placing(j)' = Placing(j)
                /\ \A c \in Placing(j) : job'[c] = job[c]
           /\ \A j \in Ids :
                /\ j = job[d].id /\ job[d].event.type = "order.placed"
                /\ \A b, c \in Placing(j) : b = c
                => /\ Placing(j) = {d}
                   /\ \/ job[d].todo = {s} /\ Placing(j)' = {}
                      \/ /\ job[d].todo = {"log", "project"} /\ Placing(j)' = {d}
                         /\ job'[d].event = job[d].event
                         /\ job'[d].todo = {"log", "project"} \ {s}
<1>1. /\ \A c \in Dispatchers : c # d => job'[c] = job[c]
      /\ job[d].todo # {s} => /\ job'[d].event = job[d].event
                              /\ job'[d].todo = job[d].todo \ {s}
      /\ \A j \in Ids : UnderWay(j)' = UnderWay(j) \ IF job[d].todo = {s} THEN {d} ELSE {}
  BY CalledJobs
<1>2. /\ job[d] # Idle /\ s \in job[d].todo
      /\ job[d].todo \in SUBSET {"log", "project"}
  BY JobFields DEF ToCall, JobInv
<1>3. ASSUME NEW j \in Ids, j # job[d].id \/ job[d].event.type # "order.placed"
      PROVE  Placing(j)' = Placing(j) /\ \A c \in Placing(j) : job'[c] = job[c]
  <2>1. d \notin Placing(j) /\ \A c \in UnderWay(j) : c \in Dispatchers
    BY <1>3 DEF UnderWay, Placing
  <2>2. \A c : c \in Placing(j)' <=> c \in UnderWay(j)' /\ job'[c].event.type = "order.placed"
    BY DEF Placing
  <2>3. \A c : c \in Placing(j) <=> c \in UnderWay(j) /\ job[c].event.type = "order.placed"
    BY DEF Placing
  <2>4. ASSUME NEW c PROVE c \in Placing(j)' <=> c \in Placing(j)
    <3>1. CASE c = d
      <4>1. d \in UnderWay(j)' => d \in UnderWay(j) /\ job[d].todo # {s}
        BY <1>1
      <4> QED BY <1>1, <2>1, <2>2, <2>3, <3>1, <4>1
    <3>2. CASE c # d
      BY <1>1, <2>1, <2>2, <2>3, <3>2
    <3> QED BY <3>1, <3>2
  <2>5. \A c \in Placing(j) : c \in Dispatchers /\ c # d
    BY <2>1, <2>3
  <2> QED BY <1>1, <2>4, <2>5
<1>4. ASSUME NEW j \in Ids, j = job[d].id, job[d].event.type = "order.placed",
             \A b, c \in Placing(j) : b = c
      PROVE  /\ Placing(j) = {d}
             /\ \/ job[d].todo = {s} /\ Placing(j)' = {}
                \/ /\ job[d].todo = {"log", "project"} /\ Placing(j)' = {d}
                   /\ job'[d].event = job[d].event
                   /\ job'[d].todo = {"log", "project"} \ {s}
  <2>1. d \in Placing(j) /\ d \in UnderWay(j)
    BY <1>2, <1>4 DEF UnderWay, Placing
  <2>2. Placing(j) = {d}
    BY <1>4, <2>1
  <2>3. \A c \in UnderWay(j) : c \in Dispatchers
    BY DEF UnderWay
  <2>4. \A c : c # d => c \notin Placing(j)'
    BY <1>1, <2>2, <2>3 DEF Placing
  <2>5. CASE job[d].todo = {s}
    <3>1. d \notin Placing(j)'
      BY <1>1, <2>5 DEF Placing
    <3> QED BY <2>2, <2>4, <2>5, <3>1
  <2>6. CASE job[d].todo # {s}
    <3>1. job[d].todo = {"log", "project"}
      BY <1>2, <2>6
    <3>2. d \in Placing(j)'
      BY <1>1, <1>4, <2>1, <2>6 DEF Placing
    <3> QED BY <1>1, <2>2, <2>4, <2>6, <3>1, <3>2
  <2> QED BY <2>2, <2>5, <2>6
<1> QED BY <1>3, <1>4

LEMMA DispatchPlacedInv ==
    ASSUME ReadInv, JobInv, LogInv, CountInv, PlacedInv, NEW d \in Dispatchers,
           NEW i \in Ids \cup {NoId}, NEW e \in BusEvents(i, clock + 1), Dispatch(d, i, e)
    PROVE  PlacedInv'
<1>1. /\ d \notin UnderWay(i) /\ job'[d].event = e
      /\ i \in Ids => job'[d].todo = {"log", "project"}
      /\ \A c \in Dispatchers : c # d => job'[c] = job[c]
      /\ \A j \in Ids : UnderWay(j)' = UnderWay(j) \cup IF j = i THEN {d} ELSE {}
  BY DispatchJobs, OwnerAssumption
<1>2. /\ UNCHANGED <<kind, log, projection, apart>> /\ job[d] = Idle
      /\ created' = IF e.type \in Creates THEN created \cup {i} ELSE created
  BY DEF Dispatch, apart
<1> SUFFICES ASSUME kind = "Order", NEW j \in Ids \ apart
             PROVE  Placed(j)'
  BY <1>2 DEF PlacedInv
<1>3. Placed(j) /\ Lookup(j)' = Lookup(j) /\ Logged(j)' = Logged(j)
  BY <1>2, LookupKept, LoggedKept DEF PlacedInv
<1>4. e.type \in {"order.placed", "order.filled", "order.modified", "order.cancelled"}
      /\ (e.type = "order.placed" <=> i \notin created)
  <2>1. e.type \in {"order.placed", "order.filled", "order.modified", "order.cancelled"}
    BY BusEventDomain
  <2>2. e.type \in Creates <=> i \notin created
    BY DEF Dispatch, InOrder
  <2> QED BY <2>1, <2>2 DEF Creates
<1>5. \A c \in UnderWay(j) : c \in Dispatchers /\ c # d
  BY <1>2 DEF UnderWay
<1>6. \A c : c \in Placing(j)' <=> c \in UnderWay(j)' /\ job'[c].event.type = "order.placed"
  BY DEF Placing
<1>7. \A c : c \in Placing(j) <=> c \in UnderWay(j) /\ job[c].event.type = "order.placed"
  BY DEF Placing
<1>8. CASE j = i /\ e.type = "order.placed"
  <2>1. Placing(j) = {} /\ Placing(j)' = {d}
    <3>1. Placing(j) = {}
      BY <1>3, <1>4, <1>8 DEF Placed
    <3>2. d \in Placing(j)'
      BY <1>1, <1>6, <1>8
    <3>3. \A c : c # d => c \notin Placing(j)'
      BY <1>1, <1>5, <1>6, <1>7, <3>1
    <3> QED BY <3>1, <3>2, <3>3
  <2>2. /\ Placement(Lookup(j).state) = NotPlaced
        /\ Placement(Logged(j).state) = NotPlaced
    BY <1>3, <1>4, <1>8 DEF Placed
  <2>3. j \in created'
    BY <1>2, <1>8 DEF Creates
  <2> QED BY <1>1, <1>3, <1>8, <2>1, <2>2, <2>3 DEF Placed
<1>9. CASE j # i \/ e.type # "order.placed"
  <2>1. Placing(j)' = Placing(j)
    <3>1. d \notin Placing(j)' /\ d \notin Placing(j)
      BY <1>1, <1>5, <1>6, <1>7, <1>9
    <3>2. ASSUME NEW c, c # d PROVE c \in Placing(j)' <=> c \in Placing(j)
      BY <1>1, <1>5, <1>6, <1>7, <3>2
    <3> QED BY <3>1, <3>2
  <2>2. \A c \in Placing(j) : job'[c] = job[c]
    BY <1>1, <1>5, <1>7
  <2>3. j \in created => j \in created'
    BY <1>2
  <2> QED BY <1>2, <1>3, <2>1, <2>2, <2>3, PlacedKept
<1> QED BY <1>8, <1>9

\* The state an event under way would lead to.
LEMMA PlacementUnderWay ==
    ASSUME ReadInv, CountInv, kind = "Order", NEW d \in Dispatchers, job[d] # Idle, NEW agg,
           NEW version \in Nat, IsLoaded(agg, version),
           DOMAIN agg.state = DOMAIN OrderNew
    PROVE  LET e == job[d].event
               state == Apply(kind, agg, e).state
           IN  /\ DOMAIN state = DOMAIN OrderNew
               /\ Placement(state) = IF e.type = "order.placed" THEN PlacementOf(e)
                                     ELSE Placement(agg.state)
<1>1. PICK e : e = job[d].event
  OBVIOUS
<1>2. PICK now \in 1 .. clock : e \in BusEvents(job[d].id, now)
  BY <1>1 DEF ReadInv, JobsSound
<1>3. e \in OrderBusEvents(Owner[job[d].id], now)
  BY <1>2 DEF BusEvents
<1>4. Apply(kind, agg, e).state = OrderApply(agg.state, e)
  <2>1. Apply(kind, agg, e) =
          [state |-> ApplyState(kind, agg.state, e),
           version |-> version + 1, pending |-> << >>]
    BY AppliedIsLoaded
  <2> QED BY <2>1 DEF ApplyState
<1> QED BY <1>1, <1>3, <1>4, PlacementApplied

LEMMA LoggedIsLoaded ==
    ASSUME LogInv, NEW j \in Ids
    PROVE  Len(log[j]) \in Nat /\ IsLoaded(Logged(j), Len(log[j]))
<1>1. PICK rows : rows = log[j]
  OBVIOUS
<1>2. IsSeq(rows) /\ Len(rows) \in Nat
  BY <1>1 DEF LogInv, IsSeq
<1>3. Len(Events(rows)) = Len(rows)
  BY <1>2, EventsSeq
<1>4. IsLoaded(Replay(kind, Events(rows)), Len(rows))
  BY <1>2, <1>3, ReplayIsLoaded
<1> QED BY <1>1, <1>2, <1>4 DEF Logged

LEMMA RecordPlacedInv ==
    ASSUME ReadInv, JobInv, LogInv, CountInv, PlacedInv, NEW d \in Dispatchers, Record(d)
    PROVE  PlacedInv'
<1>1. PICK i : i = job[d].id
  OBVIOUS
<1>2. /\ UNCHANGED <<kind, created, projection, reordered, apart>>
      /\ ToCall(d, "log") /\ Called(d, "log") /\ job[d] # Idle /\ "log" \in job[d].todo
  BY DEF Record, observed, ToCall, apart
<1>3. \A j \in Ids : j # i => log'[j] = log[j]
  BY <1>1, RecordedLog
<1> SUFFICES ASSUME kind = "Order", NEW j \in Ids \ apart
             PROVE  Placed(j)'
  BY <1>2 DEF PlacedInv
<1>4. Placed(j) /\ Lookup(j)' = Lookup(j)
  BY <1>2, LookupKept DEF PlacedInv
<1>5. CASE j = i
  <2>1. Logged(j)' = Apply(kind, Logged(j), job[d].event)
    BY <1>1, <1>5, LoggedMore
  <2>2. /\ DOMAIN Logged(j)'.state = DOMAIN OrderNew
        /\ Placement(Logged(j)'.state) =
            IF job[d].event.type = "order.placed" THEN PlacementOf(job[d].event)
            ELSE Placement(Logged(j).state)
    BY <1>2, <1>4, <2>1, LoggedIsLoaded, PlacementUnderWay DEF Placed
  <2>3. CASE job[d].event.type = "order.placed"
    <3>1. /\ Placing(j) = {d}
          /\ \/ job[d].todo = {"log"} /\ Placing(j)' = {}
             \/ /\ job[d].todo = {"log", "project"} /\ Placing(j)' = {d}
                /\ job'[d].event = job[d].event
                /\ job'[d].todo = {"project"}
      <4>1. \A b, c \in Placing(j) : b = c
        BY <1>4 DEF Placed
      <4>2. {"log", "project"} \ {"log"} = {"project"}
        OBVIOUS
      <4> QED BY <1>1, <1>2, <1>5, <2>3, <4>1, <4>2, PlacingCalled
    <3>2. j \in created
      BY <1>4, <3>1 DEF Placed
    <3>3. CASE job[d].todo = {"log"} /\ Placing(j)' = {}
      <4>1. Placement(Lookup(j).state) = PlacementOf(job[d].event)
        BY <1>4, <3>1, <3>3 DEF Placed
      <4> QED BY <1>2, <1>4, <2>2, <2>3, <3>2, <3>3, <4>1 DEF Placed
    <3>4. CASE /\ job[d].todo = {"log", "project"} /\ Placing(j)' = {d}
               /\ job'[d].event = job[d].event /\ job'[d].todo = {"project"}
      <4>1. Placement(Lookup(j).state) = NotPlaced
        BY <1>4, <3>1, <3>4 DEF Placed
      <4> QED BY <1>2, <1>4, <2>2, <2>3, <3>2, <3>4, <4>1 DEF Placed
    <3> QED BY <3>1, <3>3, <3>4
  <2>4. CASE job[d].event.type # "order.placed"
    <3>1. /\ Placing(j)' = Placing(j)
          /\ \A c \in Placing(j) : job'[c] = job[c]
      BY <1>1, <1>2, <2>4, PlacingCalled
    <3> QED BY <1>2, <1>4, <2>2, <2>4, <3>1 DEF Placed
  <2> QED BY <2>3, <2>4
<1>6. CASE j # i
  <2>1. /\ Placing(j)' = Placing(j)
        /\ \A c \in Placing(j) : job'[c] = job[c]
    BY <1>1, <1>2, <1>6, PlacingCalled
  <2> QED BY <1>2, <1>3, <1>4, <1>6, <2>1, LoggedKept, PlacedKept
<1> QED BY <1>5, <1>6

LEMMA HandlePlacedInv ==
    ASSUME ReadInv, JobInv, LogInv, CountInv, PlacedInv, NEW d \in Dispatchers,
           NEW k \in {"Order", "Alert", "Position"}, Handle(d, k)
    PROVE  PlacedInv'
<1>1. PICK i : i = job[d].id
  OBVIOUS
<1>2. /\ UNCHANGED <<kind, created, log, reordered, apart>>
      /\ ToCall(d, "project") /\ Called(d, "project")
      /\ job[d] # Idle /\ "project" \in job[d].todo
      /\ \A j \in Ids : IF j = i THEN Lookup(j)' = Apply(kind, Lookup(j), job[d].event)
                        ELSE Lookup(j)' = Lookup(j)
  BY <1>1, HandledLookup DEF ToCall, apart
<1> SUFFICES ASSUME kind = "Order", NEW j \in Ids \ apart
             PROVE  Placed(j)'
  BY <1>2 DEF PlacedInv
<1>3. Placed(j) /\ Logged(j)' = Logged(j)
  BY <1>2, LoggedKept DEF PlacedInv
<1>4. CASE j = i
  <2>1. Lookup(j)' = Apply(kind, Lookup(j), job[d].event)
    BY <1>2, <1>4
  <2>2. /\ DOMAIN Lookup(j)'.state = DOMAIN OrderNew
        /\ Placement(Lookup(j)'.state) =
            IF job[d].event.type = "order.placed" THEN PlacementOf(job[d].event)
            ELSE Placement(Lookup(j).state)
    <3>1. Lookup(j).version \in Nat /\ IsLoaded(Lookup(j), Lookup(j).version)
      BY DEF CountInv, Counted
    <3> QED BY <1>2, <1>3, <2>1, <3>1, PlacementUnderWay DEF Placed
  <2>3. CASE job[d].event.type = "order.placed"
    <3>1. /\ Placing(j) = {d}
          /\ \/ job[d].todo = {"project"} /\ Placing(j)' = {}
             \/ /\ job[d].todo = {"log", "project"} /\ Placing(j)' = {d}
                /\ job'[d].event = job[d].event
                /\ job'[d].todo = {"log"}
      <4>1. \A b, c \in Placing(j) : b = c
        BY <1>3 DEF Placed
      <4>2. {"log", "project"} \ {"project"} = {"log"}
        OBVIOUS
      <4> QED BY <1>1, <1>2, <1>4, <2>3, <4>1, <4>2, PlacingCalled
    <3>2. j \in created
      BY <1>3, <3>1 DEF Placed
    <3>3. CASE job[d].todo = {"project"} /\ Placing(j)' = {}
      <4>1. Placement(Logged(j).state) = PlacementOf(job[d].event)
        BY <1>3, <3>1, <3>3 DEF Placed
      <4> QED BY <1>2, <1>3, <2>2, <2>3, <3>2, <3>3, <4>1 DEF Placed
    <3>4. CASE /\ job[d].todo = {"log", "project"} /\ Placing(j)' = {d}
               /\ job'[d].event = job[d].event /\ job'[d].todo = {"log"}
      <4>1. Placement(Logged(j).state) = NotPlaced
        BY <1>3, <3>1, <3>4 DEF Placed
      <4> QED BY <1>2, <1>3, <2>2, <2>3, <3>2, <3>4, <4>1 DEF Placed
    <3> QED BY <3>1, <3>3, <3>4
  <2>4. CASE job[d].event.type # "order.placed"
    <3>1. /\ Placing(j)' = Placing(j)
          /\ \A c \in Placing(j) : job'[c] = job[c]
      BY <1>1, <1>2, <2>4, PlacingCalled
    <3> QED BY <1>2, <1>3, <2>2, <2>4, <3>1 DEF Placed
  <2> QED BY <2>3, <2>4
<1>5. CASE j # i
  <2>1. /\ Placing(j)' = Placing(j)
        /\ \A c \in Placing(j) : job'[c] = job[c]
    BY <1>1, <1>2, <1>5, PlacingCalled
  <2> QED BY <1>2, <1>3, <1>5, <2>1, PlacedKept
<1> QED BY <1>4, <1>5

LEMMA StepPlacedInv ==
    ASSUME ReadInv, JobInv, LogInv, CountInv, PlacedInv, [Next]_vars
    PROVE  PlacedInv'
<1>1. ASSUME UNCHANGED <<kind, created, log, projection, job, observed>> PROVE PlacedInv'
  <2> SUFFICES ASSUME kind = "Order", NEW j \in Ids \ apart
               PROVE  Placed(j)'
    BY <1>1 DEF PlacedInv, observed, apart
  <2>1. Placing(j)' = Placing(j) /\ Lookup(j)' = Lookup(j) /\ Logged(j)' = Logged(j)
        /\ Placed(j)
    BY <1>1, LookupKept, LoggedKept DEF PlacedInv, UnderWay, Placing
  <2> QED BY <1>1, <2>1, PlacedKept
<1>2. ASSUME NEW d \in Dispatchers, NEW i \in Ids \cup {NoId},
             NEW e \in BusEvents(i, clock + 1), Dispatch(d, i, e)
      PROVE  PlacedInv'
  BY <1>2, DispatchPlacedInv
<1>3. ASSUME NEW d \in Dispatchers, Number(d) PROVE PlacedInv'
  <2>1. /\ job[d] # Idle /\ "log" \in job[d].todo
        /\ job' = [job EXCEPT ![d].seq = Len(log[job[d].id]) + 1]
        /\ UNCHANGED <<kind, created, log, projection, reordered, apart>>
    BY <1>3 DEF Number, ToCall, observed, apart
  <2>2. job[d].id \in Ids
    BY <2>1, JobFields DEF JobInv
  <2>3. PICK n \in Nat : n = Len(log[job[d].id]) + 1
    BY <2>2, CountedNumbers
  <2>4. /\ \A c \in Dispatchers : job'[c].event = job[c].event /\ job'[c].todo = job[c].todo
        /\ \A j \in Ids : UnderWay(j)' = UnderWay(j)
    BY <2>1, <2>3, NumberJobs
  <2> SUFFICES ASSUME kind = "Order", NEW j \in Ids \ apart
               PROVE  Placed(j)'
    BY <2>1 DEF PlacedInv
  <2>5. /\ Lookup(j)' = Lookup(j) /\ Logged(j)' = Logged(j) /\ Placed(j)
        /\ \A c \in UnderWay(j) : c \in Dispatchers
    BY <2>1, LookupKept, LoggedKept DEF PlacedInv, UnderWay
  <2>6. Placing(j)' = Placing(j) /\ \A c \in Placing(j) : c \in Dispatchers
    BY <2>4, <2>5 DEF Placing
  <2> QED BY <2>1, <2>4, <2>5, <2>6, PlacedKept
<1>4. ASSUME NEW d \in Dispatchers, Record(d) PROVE PlacedInv'
  BY <1>4, RecordPlacedInv
<1>5. ASSUME NEW d \in Dispatchers, RecordRefused(d) PROVE PlacedInv'
  <2>1. /\ ToCall(d, "log") /\ Called(d, "log") /\ apart \cup {job[d].id} \subseteq apart'
        /\ UNCHANGED <<kind, created, log, projection>>
    BY <1>5, RefusedApart DEF RecordRefused
  <2> SUFFICES ASSUME kind = "Order", NEW j \in Ids \ apart, j # job[d].id
               PROVE  Placed(j)'
    BY <2>1 DEF PlacedInv
  <2>2. Lookup(j)' = Lookup(j) /\ Logged(j)' = Logged(j) /\ Placed(j)
    BY <2>1, LookupKept, LoggedKept DEF PlacedInv
  <2>3. Placing(j)' = Placing(j) /\ \A c \in Placing(j) : job'[c] = job[c]
    BY <2>1, PlacingCalled
  <2> QED BY <2>1, <2>2, <2>3, PlacedKept
<1>6. ASSUME NEW d \in Dispatchers,
             HandleOrderEvent(d) \/ HandleAlertEvent(d) \/ HandlePositionEvent(d)
      PROVE  PlacedInv'
  BY <1>6, HandlePlacedInv DEF HandleOrderEvent, HandleAlertEvent, HandlePositionEvent
<1>7. ASSUME NEW d \in Dispatchers, NotSubscribed(d) PROVE PlacedInv'
  BY <1>7 DEF NotSubscribed, PlacedInv
<1>8. ASSUME NEW r \in Readers,
             (\E i \in Ids : Get(r, i) \/ GetNothing(r, i)) \/ LetGo(r)
      PROVE  PlacedInv'
  BY <1>1, <1>8 DEF Get, GetNothing, LetGo, vars
<1>9. CASE Restart
  <2>1. /\ UNCHANGED <<kind, log>> /\ apart' = {i \in Ids : log[i] # << >>}
        /\ DOMAIN projection' = {}
    BY <1>9 DEF Restart, apart
  <2> SUFFICES ASSUME kind = "Order", NEW j \in Ids, log[j] = << >> PROVE Placed(j)'
    BY <2>1 DEF PlacedInv
  <2>2. Placing(j)' = {}
    BY <1>9, RestartJobs DEF Placing
  <2>3. Lookup(j)' = Fresh(OrderNew)
    BY <2>1 DEF Lookup, NewState
  <2>4. Logged(j)' = Fresh(OrderNew)
    BY <2>1, LoggedKept, NothingLogged DEF NewState
  <2>5. Fresh(OrderNew).state = OrderNew /\ Placement(OrderNew) = NotPlaced
    BY DEF Fresh, OrderNew, Placement, NotPlaced
  <2> QED BY <2>2, <2>3, <2>4, <2>5 DEF Placed
<1>10. CASE UNCHANGED vars
  BY <1>1, <1>10 DEF vars
<1> QED BY <1>2, <1>3, <1>4, <1>5, <1>6, <1>7, <1>8, <1>9, <1>10 DEF Next

-----------------------------------------------------------------------------
\* The projection and what the log is replayed to.

LEMMA InitFollowPlaced ==
    ASSUME Init, LogInv PROVE FollowInv /\ PlacedInv
<1>1. ASSUME NEW j \in Ids
      PROVE  /\ UnderWay(j) = {} /\ Placing(j) = {}
             /\ Lookup(j) = Fresh(NewState(kind)) /\ Logged(j) = Fresh(NewState(kind))
  <2>1. UnderWay(j) = {} /\ log[j] = << >> /\ j \notin DOMAIN projection
    BY DEF Init, UnderWay
  <2> QED BY <2>1, NothingLogged DEF Placing, Lookup
<1>2. FollowInv
  BY <1>1 DEF FollowInv, Followed
<1>3. ASSUME kind = "Order", NEW j \in Ids PROVE Placed(j)
  <2>1. Lookup(j) = Fresh(OrderNew) /\ Logged(j) = Fresh(OrderNew)
    BY <1>1, <1>3 DEF NewState
  <2>2. Fresh(OrderNew).state = OrderNew /\ Placement(OrderNew) = NotPlaced
    BY DEF Fresh, OrderNew, Placement, NotPlaced
  <2> QED BY <1>1, <2>1, <2>2 DEF Placed
<1> QED BY <1>2, <1>3 DEF PlacedInv

LEMMA FollowInvariant ==
    Spec => [](ReadInv /\ JobInv /\ LogInv /\ CountInv /\ FollowInv /\ PlacedInv)
<1>1. Init => FollowInv /\ PlacedInv
  BY InitLogInv, InitFollowPlaced
<1>2. ReadInv /\ JobInv /\ LogInv /\ CountInv /\ FollowInv /\ PlacedInv /\ [Next]_vars
        => FollowInv' /\ PlacedInv'
  BY StepFollowInv, StepPlacedInv
<1> QED BY CountInvariant, <1>1, <1>2, PTL DEF Spec

LEMMA WhatIsReplayed ==
    ASSUME ReadInv, LogInv, NEW i \in Ids
    PROVE  /\ i \in DOMAIN Replayed <=> Len(log[i]) # 0
           /\ i \in DOMAIN Replayed =>
                /\ Replayed[i].version = Len(log[i])
                /\ AlmostSame(Logged(i).state, Replayed[i].state)
<1>1. kind \in {"Order", "Alert", "Position", "Session"}
  BY KindAssumption DEF ReadInv
<1>2. PICK rows : rows = log[i]
  OBVIOUS
<1>3. /\ IsSeq(rows) /\ \A n \in 1 .. Len(rows) : rows[n] \in RowsOf(i)
      /\ Len(rows) \in 0 .. Len(rows)
  BY <1>2 DEF LogInv, IsSeq
<1>4. IsLoaded(LoadFromEvents(kind, rows), Len(rows))
  BY <1>3, LoadIsReplay
<1>5. AlmostSame(Replay(kind, Events(Prefix(rows, Len(rows)))).state,
                 LoadFromEvents(kind, Prefix(rows, Len(rows))).state)
  BY <1>1, <1>3, LoadsWhatWasDispatched
<1>6. AlmostSame(Logged(i).state, LoadFromEvents(kind, rows).state)
  BY <1>2, <1>3, <1>5, WholePrefix DEF Logged
<1>7. rows # << >> <=> Len(rows) # 0
  BY <1>3 DEF IsSeq
<1>8. i \in DOMAIN Replayed <=> rows # << >>
  BY <1>2 DEF Replayed
<1>9. i \in DOMAIN Replayed => Replayed[i] = LoadFromEvents(kind, rows)
  BY <1>2 DEF Replayed
<1>10. LoadFromEvents(kind, rows).version = Len(rows)
  BY <1>4 DEF IsLoaded
<1> QED BY <1>2, <1>6, <1>7, <1>8, <1>9, <1>10

\* The projection of an aggregate is what its log replays to, when its
\* dispatches did not overlap, none is under way and the process has not been
\* restarted since its first event; when this is so of all of them, the lists
\* of active orders and alerts are those of the log (projection.go).
THEOREM ProjectionsFollowLogs == Spec => []ProjectionFollowsLog
<1>1. ReadInv /\ LogInv /\ CountInv /\ FollowInv => ProjectionFollowsLog
  <2> SUFFICES ASSUME ReadInv, LogInv, CountInv, FollowInv, kind # "Session"
               PROVE  LET settled == {i \in Ids \ (reordered \cup apart) : UnderWay(i) = {}}
                      IN  /\ \A i \in settled :
                                /\ i \in DOMAIN projection <=> i \in DOMAIN Replayed
                                /\ i \in DOMAIN projection =>
                                    SameButQuantities(projection[i].state,
                                                      Replayed[i].state)
                          /\ settled = Ids => ActiveAsLogged
    BY DEF ProjectionFollowsLog
  <2> DEFINE settled == {i \in Ids \ (reordered \cup apart) : UnderWay(i) = {}}
  <2>1. ASSUME NEW i \in settled
        PROVE  /\ i \in DOMAIN projection <=> i \in DOMAIN Replayed
               /\ i \in DOMAIN projection =>
                    AlmostSame(projection[i].state, Replayed[i].state)
    <3>1. i \in Ids /\ Lookup(i) = Logged(i)
      BY DEF FollowInv, Followed
    <3>2. IsLoaded(Lookup(i), Lookup(i).version) /\ IsLoaded(Logged(i), Len(log[i]))
          /\ (i \in DOMAIN projection <=> Lookup(i).version # 0)
      BY <3>1, LoggedIsLoaded DEF CountInv, Counted
    <3>3. Logged(i).version = Len(log[i])
      BY <3>2 DEF IsLoaded
    <3>4. i \in DOMAIN projection <=> i \in DOMAIN Replayed
      BY <3>1, <3>2, <3>3, WhatIsReplayed
    <3>5. i \in DOMAIN projection => projection[i] = Logged(i)
      BY <3>1 DEF Lookup
    <3> QED BY <3>1, <3>4, <3>5, WhatIsReplayed
  <2>2. ASSUME settled = Ids PROVE ActiveAsLogged
    <3>1. PICK ids : ids = DOMAIN projection /\ ids = DOMAIN Replayed
      <4>1. DOMAIN projection \subseteq Ids /\ DOMAIN Replayed \subseteq Ids
        BY DEF ReadInv, Replayed
      <4> QED BY <2>1, <2>2, <4>1
    <3>2. \A i \in ids : AlmostSame(projection[i].state, Replayed[i].state)
      <4>1. ids \subseteq Ids
        BY <3>1 DEF ReadInv
      <4> QED BY <2>1, <2>2, <3>1, <4>1
    <3>3. CASE kind = "Order"
      <4>1. \A i \in ids : /\ projection[i].state.status = Replayed[i].state.status
                           /\ projection[i].state.placed_at = Replayed[i].state.placed_at
        <5>1. {"status", "placed_at"} \subseteq DOMAIN NewState(kind)
          BY <3>3 DEF NewState, OrderNew
        <5> QED BY <3>2, <5>1 DEF AlmostSame, SameButQuantities
      <4>2. PlacedAt(projection) = PlacedAt(Replayed)
        BY <3>1, <4>1 DEF PlacedAt
      <4>3. {i \in DOMAIN projection :
                projection[i].state.status \in {"PLACED", "MODIFIED"}}
            = {i \in DOMAIN Replayed :
                Replayed[i].state.status \in {"PLACED", "MODIFIED"}}
        BY <3>1, <4>1
      <4> QED BY <3>3, <4>2, <4>3 DEF ActiveAsLogged, ListActiveOrders
    <3>4. CASE kind = "Alert"
      <4>1. \A i \in ids : /\ projection[i].state.status = Replayed[i].state.status
                           /\ projection[i].state.created_at = Replayed[i].state.created_at
        <5>1. {"status", "created_at"} \subseteq DOMAIN NewState(kind)
          BY <3>4 DEF NewState, AlertNew
        <5> QED BY <3>2, <5>1 DEF AlmostSame, SameButQuantities
      <4>2. [i \in DOMAIN projection |-> projection[i].state.created_at]
            = [i \in DOMAIN Replayed |-> Replayed[i].state.created_at]
        BY <3>1, <4>1
      <4>3. {i \in DOMAIN projection : projection[i].state.status = "ACTIVE"}
            = {i \in DOMAIN Replayed : Replayed[i].state.status = "ACTIVE"}
        BY <3>1, <4>1
      <4> QED BY <3>4, <4>2, <4>3 DEF ActiveAsLogged, ListActiveAlerts
    <3>5. CASE kind \notin {"Order", "Alert"}
      BY <3>5 DEF ActiveAsLogged
    <3> QED BY <3>3, <3>4, <3>5
  <2> QED BY <2>1, <2>2 DEF AlmostSame
<1> QED BY FollowInvariant, <1>1, PTL

\* The projection is given every event dispatched and the log all but those it
\* refused, however dispatches overlap: when those of an aggregate are over,
\* its projection is ahead of its log by the appends refused, and without any
\* the orders of an owner are the same in the same order, unless the process
\* has been restarted (projection.go, the persister).
THEOREM OnlyRefusedAreMissing == Spec => []OnlyRefusedMissing
<1>1. ReadInv /\ LogInv /\ CountInv /\ PlacedInv => OnlyRefusedMissing
  <2> DEFINE over == {i \in Ids \ restarted : UnderWay(i) = {}}
             given == over \ apart
             Projected == Among(projection, given)
             Listed == Among(Replayed, given)
  <2> SUFFICES ASSUME ReadInv, LogInv, CountInv, PlacedInv, kind # "Session"
               PROVE  /\ \A i \in over :
                            /\ i \in DOMAIN projection <=> i \in DOMAIN Replayed
                            /\ i \in DOMAIN projection =>
                                projection[i].version = Replayed[i].version + refused[i]
                      /\ over = Ids => Count(projection) = Count(Replayed)
                      /\ kind = "Order" => \A i \in Ids :
                            ListOrdersForEmail(Projected, Owner[i])
                                = ListOrdersForEmail(Listed, Owner[i])
    BY DEF OnlyRefusedMissing
  <2>1. ASSUME NEW i \in over
        PROVE  /\ Lookup(i).version = Len(log[i]) + refused[i]
               /\ i \in DOMAIN projection <=> Len(log[i]) # 0
    <3>1. /\ Cardinality(Calling(i, "log")) = 0 /\ Cardinality(Calling(i, "project")) = 0
      <4>1. Calling(i, "log") = {} /\ Calling(i, "project") = {}
        BY DEF Calling
      <4>2. Cardinality({}) = 0
        BY FS_EmptySet
      <4> QED BY <4>1, <4>2
    <3>2. /\ Lookup(i).version + Cardinality(Calling(i, "project"))
                = Len(log[i]) + Cardinality(Calling(i, "log")) + refused[i]
          /\ i \in DOMAIN projection <=> Lookup(i).version # 0
          /\ refused[i] = 0 \/ Len(log[i]) # 0
      BY DEF CountInv, Counted
    <3>3. /\ Lookup(i).version \in Nat /\ Len(log[i]) \in Nat /\ refused[i] \in Nat
      BY CountedNumbers
    <3> QED BY <3>1, <3>2, <3>3
  <2>2. ASSUME NEW i \in over
        PROVE  /\ i \in DOMAIN projection <=> i \in DOMAIN Replayed
               /\ i \in DOMAIN projection =>
                    projection[i].version = Replayed[i].version + refused[i]
    <3>1. i \in DOMAIN projection => projection[i] = Lookup(i)
      BY DEF Lookup
    <3> QED BY <2>1, <3>1, WhatIsReplayed
  <2>3. DOMAIN projection \subseteq Ids /\ DOMAIN Replayed \subseteq Ids
    BY DEF ReadInv, Replayed
  <2>4. ASSUME over = Ids PROVE Count(projection) = Count(Replayed)
    <3>1. DOMAIN projection = DOMAIN Replayed
      BY <2>2, <2>3, <2>4
    <3> QED BY <3>1 DEF Count
  <2>5. ASSUME kind = "Order", NEW o \in Ids
        PROVE  ListOrdersForEmail(Projected, Owner[o]) = ListOrdersForEmail(Listed, Owner[o])
    <3>1. PICK ids : /\ ids = DOMAIN projection \cap given
                     /\ ids = DOMAIN Replayed \cap given
      BY <2>2
    <3>2. ASSUME NEW i \in ids
          PROVE  /\ projection[i].state.terms = Replayed[i].state.terms
                 /\ projection[i].state.placed_at = Replayed[i].state.placed_at
      <4>1. i \in Ids \ apart /\ UnderWay(i) = {} /\ projection[i] = Lookup(i)
        BY <3>1 DEF Lookup
      <4>2. Placement(Lookup(i).state) = Placement(Logged(i).state)
        <5>1. Placing(i) = {} /\ Placed(i)
          BY <2>5, <4>1 DEF Placing, PlacedInv
        <5> QED BY <5>1 DEF Placed
      <4>3. AlmostSame(Logged(i).state, Replayed[i].state)
        BY <3>1, <4>1, WhatIsReplayed
      <4>4. {"terms", "placed_at"} \subseteq DOMAIN NewState(kind)
        BY <2>5 DEF NewState, OrderNew
      <4>5. /\ Logged(i).state.terms = Replayed[i].state.terms
            /\ Logged(i).state.placed_at = Replayed[i].state.placed_at
        BY <4>3, <4>4 DEF AlmostSame, SameButQuantities
      <4> QED BY <4>1, <4>2, <4>5 DEF Placement
    <3>3. PICK p : p = Projected
      OBVIOUS
    <3>4. PICK q : q = Listed
      OBVIOUS
    <3>5. DOMAIN p = ids /\ \A i \in ids : p[i] = projection[i]
      BY <3>1, <3>3 DEF Among
    <3>6. DOMAIN q = ids /\ \A i \in ids : q[i] = Replayed[i]
      BY <3>1, <3>4 DEF Among
    <3>7. PlacedAt(p) = PlacedAt(q)
      BY <3>2, <3>5, <3>6 DEF PlacedAt
    <3>8. {i \in DOMAIN p : p[i].state.terms = Owner[o]}
          = {i \in DOMAIN q : q[i].state.terms = Owner[o]}
      BY <3>2, <3>5, <3>6
    <3>9. ListOrdersForEmail(p, Owner[o]) = ListOrdersForEmail(q, Owner[o])
      BY <3>7, <3>8 DEF ListOrdersForEmail
    <3> QED BY <3>3, <3>4, <3>9
  <2> HIDE DEF Projected, Listed
  <2> QED BY <2>2, <2>4, <2>5
<1> QED BY FollowInvariant, <1>1, PTL

=============================================================================

-------------------------- MODULE AggregateHistory --------------------------
(***************************************************************************)
(* The life of one aggregate whose history is in the event store.  Several *)
(* users load it (LoadEvents, then Load...FromEvents, or New... when there *)
(* is no history), call commands on the copy they hold, and save what is   *)
(* pending (To...StoredEvents, then EventStore.Append).                    *)
(*                                                                         *)
(* A save numbers its rows from the version the copy was loaded with, so   *)
(* it is refused by the UNIQUE index when another user has saved first.    *)
(* The history is a sequence whose n-th row has sequence number n: that    *)
(* the store keeps it so is the theorem NoGaps of EventStoreProofs.        *)
(***************************************************************************)
EXTENDS AggregateKinds

CONSTANTS
    Users,        \* goroutines that use the aggregate
    Kinds,        \* kinds of aggregate considered
    Closed,       \* "the user holds no copy"
    MaxCommands,  \* bound: commands that succeed
    MaxFaults     \* bound: Appends that fail half way

ASSUME KindAssumption == Kinds \subseteq {"Order", "Alert", "Position"}
ASSUME BoundAssumption == MaxCommands \in Nat /\ MaxFaults \in Nat

VARIABLES
    kind,     \* the kind of the aggregate, chosen once
    history,  \* its rows of domain_events, by sequence number
    copy,     \* [Users -> the aggregate the user holds, or Closed]
    clock,    \* time: one unit per command
    faults    \* Appends failed so far

vars == <<kind, history, copy, clock, faults>>

Payload(e) ==
    CASE kind = "Order" -> OrderPayload(e)
      [] kind = "Alert" -> AlertPayload(e)
      [] kind = "Position" -> PositionPayload(e)

\* To...StoredEvents: the pending events of a copy as rows.
StoredEvents(agg) ==
    [i \in 1 .. Len(agg.pending) |->
        [type |-> agg.pending[i].type, at |-> agg.pending[i].at,
         payload |-> Payload(agg.pending[i])]]

\* The number of events a copy was loaded from or has saved.
Saved(agg) == agg.version - Len(agg.pending)

\* A faulty StartSequence: the number is asked for when the copy is saved.
StartSequenceOfStore(agg) == Len(history) + 1

\* The startSequence given to To...StoredEvents.
StartSequence(agg) == Saved(agg) + 1

Init ==
    /\ kind \in Kinds
    /\ history = << >>
    /\ copy = [u \in Users |-> Closed]
    /\ clock = 0
    /\ faults = 0

-----------------------------------------------------------------------------
\* Actions of a user.

Load(u) ==
    /\ copy[u] = Closed
    /\ copy' = [copy EXCEPT ![u] = LoadFromEvents(kind, history)]
    /\ UNCHANGED <<kind, history, clock, faults>>

\* A command of an aggregate of kind k emits one of events: Apply, raise.
Command(u, k, events) ==
    /\ kind = k
    /\ copy[u] # Closed
    /\ clock < MaxCommands
    /\ \E e \in events :
        copy' = [copy EXCEPT ![u] = Raise(Apply(kind, @, e), e)]
    /\ clock' = clock + 1
    /\ UNCHANGED <<kind, history, faults>>

Place(u) == Command(u, "Order", OrderPlace(copy[u].state, clock + 1))
Modify(u) == Command(u, "Order", OrderModify(copy[u].state, clock + 1))
Cancel(u) == Command(u, "Order", OrderCancel(copy[u].state, clock + 1))
Fill(u) == Command(u, "Order", OrderFill(copy[u].state, clock + 1))

Create(u) == Command(u, "Alert", AlertCreate(copy[u].version, clock + 1))
Trigger(u) == Command(u, "Alert", AlertTrigger(copy[u].state, clock + 1))
Delete(u) == Command(u, "Alert", AlertDelete(copy[u].state, clock + 1))

Open(u) == Command(u, "Position", PositionOpen(copy[u].version, clock + 1))
Close(u) == Command(u, "Position", PositionClose(copy[u].state, clock + 1))

\* There is something to save and the UNIQUE index admits the first row.
Saves(u) ==
    /\ copy[u] # Closed
    /\ copy[u].pending # << >>
    /\ StartSequence(copy[u]) > Len(history)

Save(u) ==
    /\ Saves(u)
    /\ history' = history \o StoredEvents(copy[u])
    /\ copy' = [copy EXCEPT ![u] = ClearPendingEvents(@)]
    /\ UNCHANGED <<kind, clock, faults>>

\* Append fails after some of its INSERTs; the user keeps the copy.
SaveFails(u) ==
    /\ Saves(u)
    /\ faults < MaxFaults
    /\ faults' = faults + 1
    /\ \E n \in 0 .. Len(copy[u].pending) - 1 :
        history' = history \o SubSeq(StoredEvents(copy[u]), 1, n)
    /\ UNCHANGED <<kind, copy, clock>>

\* The user lets go of the copy, in particular after a save that was refused.
Forget(u) ==
    /\ copy[u] # Closed
    /\ copy' = [copy EXCEPT ![u] = Closed]
    /\ UNCHANGED <<kind, history, clock, faults>>

Next ==
    \E u \in Users :
        \/ Load(u)
        \/ Place(u) \/ Modify(u) \/ Cancel(u) \/ Fill(u)
        \/ Create(u) \/ Trigger(u) \/ Delete(u)
        \/ Open(u) \/ Close(u)
        \/ Save(u) \/ SaveFails(u) \/ Forget(u)

Spec == Init /\ [][Next]_vars

-----------------------------------------------------------------------------
\* Properties.

Copies == {copy[u] : u \in Users} \ {Closed}

\* The parts of the state are in their ranges; no copy has more pending
\* events than it has seen.
TypeOK ==
    /\ kind \in Kinds
    /\ Len(history) <= clock
    /\ \A c \in Copies :
        /\ c.version \in Len(c.pending) .. clock
        /\ c.state.status \in OrderStatuses \cup AlertStatuses \cup PositionStatuses

Final == {"OrderCancelled", "OrderFilled", "AlertDeleted", "PositionClosed"}
First == {"OrderPlaced", "AlertCreated", "PositionOpened"}

(***************************************************************************)
(* A history is a possible life of the aggregate although every command    *)
(* was checked against a copy that may have been out of date: placed,      *)
(* created or opened comes first if it comes at all, nothing follows       *)
(* cancelled, filled, deleted or closed, and only deleted follows          *)
(* triggered.                                                              *)
(***************************************************************************)
LegalHistory ==
    \A i, j \in 1 .. Len(history) :
        i < j =>
            /\ history[i].type \notin Final
            /\ history[j].type \notin First
            /\ history[i].type = "AlertTriggered" => history[j].type = "AlertDeleted"

\* An order's history begins with its placement (alerts and positions have
\* no such guard: a new one already counts as ACTIVE or OPEN).
PlacedFirst ==
    kind = "Order" /\ history # << >> => history[1].type = "OrderPlaced"

\* Replay reaches the state that the commands reached: what a user holds is
\* what anybody would load from its saved part of the history and the
\* stored form of its pending events.
ReplayIsLive ==
    \A c \in Copies :
        ClearPendingEvents(c) =
            LoadFromEvents(kind, SubSeq(history, 1, Saved(c)) \o StoredEvents(c))

\* No command is recorded twice, whatever saves fail half way and are tried
\* again.
RecordedOnce ==
    \A i, j \in 1 .. Len(history) : i # j => history[i].at # history[j].at

\* Every modification in a history changes quantity, price or order type of
\* the order as it was at that point of the HISTORY ("modify must change at
\* least one field"), not only of the copy Modify was called on.
ModifiesChange ==
    \A i \in 1 .. Len(history) :
        history[i].type = "OrderModified" =>
            LET before == LoadFromEvents(kind, SubSeq(history, 1, i - 1)).state
                after == LoadFromEvents(kind, SubSeq(history, 1, i)).state
            IN  <<before.qty, before.price, before.order_type>>
                # <<after.qty, after.price, after.order_type>>

=============================================================================

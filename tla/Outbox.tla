------------------------------- MODULE Outbox -------------------------------
(***************************************************************************)
(* The transactional outbox (outbox.go) next to the direct path into the   *)
(* same table: use cases stage events with AppendToOutbox, the pump        *)
(* goroutine moves them to domain_events with Drain, Stop asks the pump to *)
(* finish, and the process may crash between any two SQLite statements.    *)
(*                                                                         *)
(* Every statement commits on its own.  AppendToOutbox and an Append of    *)
(* one event hold the mutex for one INSERT and are one step each; Drain    *)
(* holds it for a query and two statements per row, and a crash can fall   *)
(* between any of them.                                                    *)
(***************************************************************************)
EXTENDS EventTable

CONSTANTS
    Events,       \* events the use cases produce; an event stands for its row id
    Aggregates,
    Agg,          \* [Events -> Aggregates]
    SeqSources,   \* how Sequence fields are made: "version" (an aggregate's
                  \* version) and "store" (EventStore.NextSequence)
    Copies,       \* aggregates in memory; two copies may be of one aggregate
    CopyOf,       \* [Copies -> Aggregates]
    Limit,        \* LIMIT of Drain's query (100 in the code)
    Rank,         \* [1..MaxInstant -> Nat]: how the inserted_at text of the
                  \* n-th accepted event sorts
    MaxInstant,   \* bound: rows ever staged
    Stoppers,     \* goroutines that call OutboxPump.Stop
    NoEvent,      \* "Drain is between two rows"
    Faults,       \* kinds of statement that may fail
    MaxFaults,    \* bound: statements that fail
    MaxDirect,    \* bound: calls of Drain by somebody else than the pump
    MaxRestarts   \* bound: process crashes

FaultKinds == {"outbox", "append", "query", "insert", "mark"}

ASSUME EventAssumption ==
    /\ Agg \in [Events -> Aggregates]
    /\ CopyOf \in [Copies -> Aggregates]
    /\ NoEvent \notin Events
ASSUME SourceAssumption == SeqSources \subseteq {"version", "store"}
ASSUME LimitAssumption == Limit \in Nat \ {0}
ASSUME RankAssumption ==
    MaxInstant \in Nat /\ Rank \in [1 .. MaxInstant -> Nat]
ASSUME FaultAssumption == Faults \subseteq FaultKinds
ASSUME BoundAssumption ==
    MaxFaults \in Nat /\ MaxDirect \in Nat /\ MaxRestarts \in Nat

VARIABLES
    domain,     \* rows of domain_events (on disk)
    at,         \* event_outbox (on disk): [Events -> position in the order of
                \* inserted_at stamps, 0 when the event has no row]
    processed,  \* rows of event_outbox with processed = 1 (on disk)
    now,        \* inserted_at stamps handed out
    seq,        \* [Events -> Sequence field of the event]
    stage,      \* [Events -> what the use case knows of the event]
    version,    \* [Copies -> version of the aggregate in memory]
    mu,         \* who holds EventStore.mu across steps: only a Drain does
    batch,      \* rows of the running Drain still to do
    cur,        \* row whose INSERT was tried and whose mark is next
    pump,       \* control point of OutboxPump.run
    stopped,    \* the stop channel is closed
    stopper,    \* [Stoppers -> control point of Stop]
    owed,       \* rows pending at the last restart or first Stop (observation)
    direct, faults, restarts  \* counters of the bounds

disk == <<domain, at, processed, now>>
callers == <<seq, stage, version>>
drain == <<mu, batch, cur>>
stopping == <<stopped, stopper, owed>>
vars == <<disk, callers, drain, pump, stopping, direct, faults, restarts>>

Drainers == {"pump", "direct"}

Init ==
    /\ domain = {}
    /\ at = [e \in Events |-> 0]
    /\ processed = {}
    /\ now = 0
    /\ seq = [e \in Events |-> 0]
    /\ stage = [e \in Events |-> "new"]
    /\ version = [c \in Copies |-> 0]
    /\ mu = "free"
    /\ batch = {}
    /\ cur = NoEvent
    /\ pump = "startup"
    /\ stopped = FALSE
    /\ stopper = [s \in Stoppers |-> "idle"]
    /\ owed = {}
    /\ direct = 0
    /\ faults = 0
    /\ restarts = 0

\* SELECT ... FROM event_outbox WHERE processed = 0
Pending == {e \in Events : at[e] > 0} \ processed

Recorded == {r.id : r \in domain}

EventRow(e) == Row(e, Agg[e], seq[e])

\* A statement of the given kind fails.
Fault(kind) ==
    /\ kind \in Faults
    /\ faults < MaxFaults
    /\ faults' = faults + 1

-----------------------------------------------------------------------------
\* Use cases.

\* The version of an aggregate that is loaded now: Apply counts the rows
\* LoadEvents returns, and LoadEvents does not look into event_outbox.
Loaded(c) == Cardinality(RowsOf(CopyOf[c], domain))

\* A use case loads its aggregate (again).  LoadEvents takes the read lock.
Load(c) ==
    /\ mu = "free"
    /\ version' = [version EXCEPT ![c] = Loaded(c)]
    /\ UNCHANGED <<disk, seq, stage, drain, pump, stopping, direct, faults,
                   restarts>>

\* The event follows the events its copy of the aggregate knows of.
ByVersion(e, c) ==
    /\ "version" \in SeqSources
    /\ CopyOf[c] = Agg[e]
    /\ seq' = [seq EXCEPT ![e] = version[c] + 1]
    /\ version' = [version EXCEPT ![c] = version[c] + 1]

\* NextSequence looks at domain_events alone and takes no lock.
ByStore(e) ==
    /\ "store" \in SeqSources
    /\ seq' = [seq EXCEPT ![e] = NextSequence(Agg[e], domain)]
    /\ UNCHANGED version

\* The use case makes its event and numbers it.
Sequence(e) ==
    /\ stage[e] = "new"
    /\ ByStore(e) \/ \E c \in Copies : ByVersion(e, c)
    /\ stage' = [stage EXCEPT ![e] = "ready"]
    /\ UNCHANGED <<disk, drain, pump, stopping, direct, faults, restarts>>

\* The row is inserted with the given inserted_at.
Stage(e, stamp) ==
    /\ stage[e] = "ready"
    /\ mu = "free"
    /\ now < MaxInstant
    /\ now' = now + 1
    /\ at' = [at EXCEPT ![e] = stamp]
    /\ stage' = [stage EXCEPT ![e] = "accepted"]
    /\ UNCHANGED <<domain, processed, seq, version, drain, pump, stopping,
                   direct, faults, restarts>>

\* A faulty AppendToOutbox: the stamp is ahead of the clock.
AppendToOutboxAhead(e) == Stage(e, now + 2)

\* AppendToOutbox: event_outbox has no constraint on (aggregate_id, sequence).
\* The clock is read under the mutex, so stamps follow the order of insertion.
AppendToOutbox(e) == Stage(e, now + 1)

\* Append of one event, the synchronous path of the other use cases.
AppendDirect(e) ==
    /\ stage[e] = "ready"
    /\ mu = "free"
    /\ Insertable(EventRow(e), domain)
    /\ domain' = domain \cup {EventRow(e)}
    /\ stage' = [stage EXCEPT ![e] = "accepted"]
    /\ UNCHANGED <<at, processed, now, seq, version, drain, pump, stopping,
                   direct, faults, restarts>>

\* An error goes back to the use case, which logs it and goes on.
Reject(e) ==
    /\ stage[e] = "ready"
    /\ mu = "free"
    /\ \/ Fault("outbox") \/ Fault("append")
       \/ ~Insertable(EventRow(e), domain) /\ UNCHANGED faults
    /\ stage' = [stage EXCEPT ![e] = "rejected"]
    /\ UNCHANGED <<disk, seq, version, drain, pump, stopping, direct, restarts>>

-----------------------------------------------------------------------------
\* Drain, called by the pump or directly.

\* A faulty AfterDrain: the stop case forgets to return.
AfterDrainLoops == "select"

\* run goes from one control point to the next when its Drain returns.
AfterDrain == IF pump = "final" THEN "done" ELSE "select"

\* p may call Drain now.
Calls(p) ==
    IF p = "pump"
    THEN pump \in {"startup", "tick", "final"} /\ UNCHANGED direct
    ELSE direct < MaxDirect /\ direct' = direct + 1

\* A faulty Selected: ORDER BY inserted_at DESC.
SelectedNewest(rows) ==
    /\ rows \subseteq Pending
    /\ \/ rows = Pending /\ Cardinality(rows) <= Limit
       \/ Cardinality(rows) = Limit
    /\ \A e \in rows, f \in Pending \ rows : Rank[at[e]] >= Rank[at[f]]

\* The rows ORDER BY inserted_at ASC LIMIT Limit returns.
Selected(rows) ==
    /\ rows \subseteq Pending
    /\ \/ rows = Pending /\ Cardinality(rows) <= Limit
       \/ Cardinality(rows) = Limit
    /\ \A e \in rows, f \in Pending \ rows : Rank[at[e]] <= Rank[at[f]]

\* Lock and query.
DrainBegin(p) ==
    /\ mu = "free"
    /\ Calls(p)
    /\ mu' = p
    /\ \E rows \in SUBSET Pending : Selected(rows) /\ batch' = rows
    /\ cur' = NoEvent
    /\ UNCHANGED <<disk, callers, pump, stopping, faults, restarts>>

\* Lock, failed query, early return; run goes on at the given point.
QueryFails(p, next) ==
    /\ mu = "free"
    /\ Calls(p)
    /\ Fault("query")
    /\ pump' = IF p = "pump" THEN next ELSE pump
    /\ UNCHANGED <<disk, callers, drain, stopping, restarts>>

\* A faulty DrainQueryFails: run gives up when its Drain fails.
DrainQueryFailsForGood(p) == QueryFails(p, "done")

DrainQueryFails(p) == QueryFails(p, AfterDrain)

\* A faulty Front: rows are handled in any order.
FrontAny(e) == e \in batch

\* The row the loop is at: rows come in the order of their inserted_at text.
Front(e) == e \in batch /\ \A f \in batch : Rank[at[e]] <= Rank[at[f]]

\* The INSERT into domain_events commits.
DrainRecord(e) ==
    /\ mu \in Drainers
    /\ cur = NoEvent
    /\ Front(e)
    /\ Insertable(EventRow(e), domain)
    /\ domain' = domain \cup {EventRow(e)}
    /\ cur' = e
    /\ UNCHANGED <<at, processed, now, callers, mu, batch, pump, stopping,
                   direct, faults, restarts>>

\* The INSERT fails, on a UNIQUE constraint or otherwise: Drain logs a
\* warning and goes on to mark the row.
DrainRecordFails(e) ==
    /\ mu \in Drainers
    /\ cur = NoEvent
    /\ Front(e)
    /\ \/ ~Insertable(EventRow(e), domain) /\ UNCHANGED faults
       \/ Fault("insert")
    /\ cur' = e
    /\ UNCHANGED <<disk, callers, mu, batch, pump, stopping, direct, restarts>>

\* UPDATE event_outbox SET processed = 1 of the given rows.
MarkRows(rows) ==
    /\ mu \in Drainers
    /\ cur \in Events
    /\ processed' = processed \cup rows
    /\ batch' = batch \ rows
    /\ cur' = NoEvent
    /\ UNCHANGED <<domain, at, now, callers, mu, pump, stopping, direct,
                   faults, restarts>>

\* A faulty DrainMark: one UPDATE for the whole batch.
DrainMarkBatch == MarkRows(batch)

DrainMark == MarkRows({cur})

\* Drain returns, to run or to its direct caller.
DrainReturn ==
    /\ mu' = "free"
    /\ batch' = {}
    /\ cur' = NoEvent
    /\ pump' = IF mu = "pump" THEN AfterDrain ELSE pump
    /\ UNCHANGED <<disk, callers, stopping, direct, restarts>>

\* The UPDATE fails and Drain returns at once.
DrainMarkFails ==
    /\ mu \in Drainers
    /\ cur \in Events
    /\ Fault("mark")
    /\ DrainReturn

DrainEnd ==
    /\ mu \in Drainers
    /\ cur = NoEvent
    /\ batch = {}
    /\ DrainReturn
    /\ UNCHANGED faults

\* A direct caller's context was cancelled (the pump's never is).
DrainCancelled ==
    /\ mu = "direct"
    /\ cur = NoEvent
    /\ batch # {}
    /\ DrainReturn
    /\ UNCHANGED faults

DrainStep ==
    \/ \E e \in Events : DrainRecord(e) \/ DrainRecordFails(e)
    \/ DrainMark
    \/ DrainMarkFails
    \/ DrainEnd
    \/ DrainCancelled

-----------------------------------------------------------------------------
\* The pump's loop, Stop and crashes.

\* select takes a case and run goes on at p.
LeaveSelect(p) ==
    /\ pump = "select"
    /\ pump' = p
    /\ UNCHANGED <<disk, callers, drain, stopping, direct, faults, restarts>>

\* The ticker's case.
PumpTick == LeaveSelect("tick")

\* A faulty PumpStops: no last drain.
PumpStopsAtOnce == stopped /\ LeaveSelect("done")

\* The stop case.
PumpStops == stopped /\ LeaveSelect("final")

\* Stop closes the channel, the first time it is called.
StopCall(s) ==
    /\ stopper[s] = "idle"
    /\ stopped' = TRUE
    /\ stopper' = [stopper EXCEPT ![s] = "waiting"]
    /\ owed' = IF stopped THEN owed ELSE Pending
    /\ UNCHANGED <<disk, callers, drain, pump, direct, faults, restarts>>

\* A faulty StopReturn: Stop does not wait for run.
StopReturnAtOnce(s) ==
    /\ stopper[s] = "waiting"
    /\ stopper' = [stopper EXCEPT ![s] = "returned"]
    /\ UNCHANGED <<disk, callers, drain, pump, stopped, owed, direct, faults,
                   restarts>>

\* <-p.done
StopReturn(s) ==
    /\ stopper[s] = "waiting"
    /\ pump = "done"
    /\ stopper' = [stopper EXCEPT ![s] = "returned"]
    /\ UNCHANGED <<disk, callers, drain, pump, stopped, owed, direct, faults,
                   restarts>>

\* The process dies and a new one starts its pump on the same tables.  The
\* use cases that were running die with it, and so do the aggregates in
\* memory, which are loaded anew.
RestartAt(p) ==
    /\ restarts < MaxRestarts
    /\ restarts' = restarts + 1
    /\ stage' = [e \in Events |->
                    IF stage[e] = "ready" THEN "rejected" ELSE stage[e]]
    /\ version' = [c \in Copies |-> Loaded(c)]
    /\ mu' = "free"
    /\ batch' = {}
    /\ cur' = NoEvent
    /\ pump' = p
    /\ stopped' = FALSE
    /\ stopper' = [s \in Stoppers |-> "idle"]
    /\ owed' = Pending
    /\ UNCHANGED <<disk, seq, direct, faults>>

\* A faulty Restart: run starts polling without the startup drain.
RestartPolling == RestartAt("select")

Restart == RestartAt("startup")

PumpDrains == DrainBegin("pump") \/ DrainQueryFails("pump")

Next ==
    \/ \E e \in Events :
        Sequence(e) \/ AppendToOutbox(e) \/ AppendDirect(e) \/ Reject(e)
    \/ \E c \in Copies : Load(c)
    \/ \E p \in Drainers : DrainBegin(p) \/ DrainQueryFails(p)
    \/ DrainStep
    \/ PumpTick \/ PumpStops
    \/ \E s \in Stoppers : StopCall(s) \/ StopReturn(s)
    \/ Restart

(***************************************************************************)
(* A Drain that holds the mutex keeps running and so does run; the ticker  *)
(* ticks; a pump that waits for the mutex gets it in the end (sync.RWMutex *)
(* queues its waiters); and select, which chooses at random when both      *)
(* cases are ready, does not choose the ticker for ever once stop is       *)
(* closed.  Nobody has to produce events, call Drain, stop or crash.       *)
(***************************************************************************)
Fairness ==
    /\ WF_vars(DrainStep)
    /\ SF_vars(PumpDrains)
    /\ WF_vars(PumpTick)
    /\ SF_vars(PumpStops)
    /\ \A s \in Stoppers : WF_vars(StopReturn(s))

Spec == Init /\ [][Next]_vars /\ Fairness

-----------------------------------------------------------------------------
\* Properties.

\* Every variable has its type.
TypeOK ==
    /\ domain \subseteq [id : Events, agg : Aggregates, seq : Nat]
    /\ at \in [Events -> 0 .. MaxInstant]
    /\ processed \subseteq Events
    /\ now \in 0 .. MaxInstant
    /\ seq \in [Events -> Nat]
    /\ stage \in [Events -> {"new", "ready", "accepted", "rejected"}]
    /\ version \in [Copies -> Nat]
    /\ mu \in {"free"} \cup Drainers
    /\ batch \subseteq Events
    /\ cur \in Events \cup {NoEvent}
    /\ pump \in {"startup", "select", "tick", "final", "done"}
    /\ stopped \in BOOLEAN
    /\ stopper \in [Stoppers -> {"idle", "waiting", "returned"}]
    /\ owed \subseteq Events
    /\ direct \in Nat /\ faults \in Nat /\ restarts \in Nat

\* The inserted_at texts sort like the instants they stand for (a hypothesis
\* of the properties about order; Rfc3339Text shows that it can fail).
RankMonotone ==
    \A m, n \in 1 .. MaxInstant : m < n => Rank[m] < Rank[n]

(***************************************************************************)
(* Every staged event reaches domain_events (README.md: "at-least-once").  *)
(* It does NOT hold: numbers may be given out twice, whichever way events  *)
(* are numbered, and Drain drops an event for any error of its INSERT.     *)
(***************************************************************************)
AtLeastOnce == processed \subseteq Recorded

\* The place of e in its aggregate's history is held by an event that was
\* staged before e or appended directly.
Superseded(e) ==
    \E f \in Recorded : Agg[f] = Agg[e] /\ seq[f] = seq[e] /\ at[f] < at[e]

(***************************************************************************)
(* What Drain promises instead: it drops a staged event only in favour of  *)
(* an event with the same number that came first, and never in favour of   *)
(* one staged later, over stale copies of aggregates, crashes between the  *)
(* INSERT and the mark, batches cut by LIMIT and failed queries and marks. *)
(* Hypotheses: RankMonotone, and INSERTs fail for no reason but UNIQUE.    *)
(***************************************************************************)
NoSilentLoss == \A e \in processed : e \in Recorded \/ Superseded(e)

\* However events are numbered, Drain never retires a row whose place in
\* its aggregate's history is left empty, if its INSERT fails for no reason
\* but UNIQUE: a UNIQUE error means that some event has that place.
SlotFilled ==
    \A e \in processed : seq[e] \in SeqsOf(Agg[e], domain)

\* Staged events reach domain_events in the order they were staged in, over
\* batches cut by LIMIT, failed marks and crashes (outbox_test.go: "drain
\* must preserve sequence order"): when one is recorded, those staged before
\* it are too, but for those whose place an earlier event holds.
DeliveredInOrder ==
    \A e, f \in Events :
        0 < at[e] /\ at[e] < at[f] /\ f \in Recorded
            => e \in Recorded \/ Superseded(e)

\* However events are numbered, rows are retired in the order in which they
\* were staged: no row waits behind one that was staged later.
RetiredInOrder ==
    \A e, f \in Events :
        0 < at[e] /\ at[e] < at[f] /\ f \in processed => e \in processed

\* The observed backlog fits the one Drain that has to deal with it, and no
\* statement has failed yet: a query or a mark that fails ends that Drain.
Cleared == faults = 0 /\ Cardinality(owed) <= Limit => owed \subseteq processed

\* The rows the previous process left pending, at most LIMIT of them, are
\* dealt with before the new pump starts polling (the comment of run), though
\* Drains of others and use cases are let in before the startup drain, as
\* long as no statement fails.
StartupRecovers == pump = "select" /\ ~stopped => Cleared

\* The rows pending when Stop is first called, at most LIMIT of them, are
\* dealt with when the pump is done, as long as no statement fails: run drains
\* once more after it has seen the signal, whatever it was doing when the
\* channel was closed.
StopFlushes == pump = "done" => Cleared

\* Once a Stop has returned, the pump is not in the database (comment of
\* Stop: "no further DB activity from this pump after Stop returns").
StopQuiesces == (\E s \in Stoppers : stopper[s] = "returned") => mu # "pump"

\* While nobody stops the pump every staged event is processed in the end,
\* whatever finitely many crashes and failed statements there are.
Settled == \A e \in Events : e \in Pending ~> e \in processed \/ stopped

\* Every Stop returns (unless the process dies), also when several
\* goroutines stop the pump and the ticker keeps firing.
StopReturns ==
    \A s \in Stoppers : stopper[s] = "waiting" ~> stopper[s] # "waiting"

\* The promise made to the use cases.  An event is dismissed when Drain has
\* marked its row without recording it.
Promise == INSTANCE AuditLog
    WITH Slots <- Aggregates \X Nat, count <- now, place <- at,
         slot <- [e \in Events |-> <<Agg[e], seq[e]>>],
         recorded <- Recorded, dismissed <- processed \ Recorded

\* The tables behave as the abstract log: every event at most once, in order,
\* none dismissed but for an event that holds its place, and every accepted
\* event dealt with in the end if nobody stops the pump.
PromiseSafety == Promise!SafetySpec
PromiseSpec == Promise!Spec

=============================================================================

----------------------------- MODULE EventStore -----------------------------
(***************************************************************************)
(* The direct path into the audit log (store.go): callers number a batch   *)
(* of events with NextSequence and persist it with Append, readers replay  *)
(* it with LoadEvents, and the process may crash between any two           *)
(* statements.                                                             *)
(*                                                                         *)
(* NextSequence takes no lock, so it may read the table while somebody     *)
(* else's Append is half way through.  Append holds the mutex across a     *)
(* loop of INSERTs, each of which commits on its own: an error or a crash  *)
(* in the middle leaves the rows inserted so far.                          *)
(***************************************************************************)
EXTENDS EventTable, SequencesExt

CONSTANTS
    Writers,     \* goroutines that append
    Aggregates,  \* aggregate ids
    Target,      \* [Writers -> Aggregates]: whose events a writer appends
    BatchSize,   \* [Writers -> Nat]: events per Append call
    Free,        \* "nobody holds the mutex"
    MaxCalls,    \* bound: Append calls per writer
    MaxFaults,   \* bound: INSERTs that fail for a reason other than UNIQUE
    MaxRestarts  \* bound: process crashes

ASSUME TargetAssumption == Target \in [Writers -> Aggregates]
ASSUME BatchAssumption == BatchSize \in [Writers -> Nat]
ASSUME FreeAssumption == Free \notin Writers
ASSUME BoundAssumption ==
    MaxCalls \in Nat /\ MaxFaults \in Nat /\ MaxRestarts \in Nat

VARIABLES
    domain,    \* rows of domain_events (on disk)
    mu,        \* holder of the write lock EventStore.mu
    pc,        \* [Writers -> control point or result of the last Append]
    start,     \* [Writers -> sequence number given to the batch's first event]
    pos,       \* [Writers -> events of the batch inserted so far]
    calls,     \* [Writers -> Append calls made]
    faults,    \* INSERTs failed so far
    restarts,  \* crashes so far
    loaded     \* [Aggregates -> what the last LoadEvents returned]

vars == <<domain, mu, pc, start, pos, calls, faults, restarts, loaded>>

Results == {"ok", "refused", "failed"}

\* A row's id is a fresh UUID, so (writer, call, position) stands for it.
Ids == [writer : Writers, call : Nat, index : Nat \ {0}]

Init ==
    /\ domain = {}
    /\ mu = Free
    /\ pc = [w \in Writers |-> "idle"]
    /\ start = [w \in Writers |-> 0]
    /\ pos = [w \in Writers |-> 0]
    /\ calls = [w \in Writers |-> 0]
    /\ faults = 0
    /\ restarts = 0
    /\ loaded = [a \in Aggregates |-> << >>]

-----------------------------------------------------------------------------
\* Sequencing, by the caller.

\* NextSequence(Target[w]): one query, no lock.
Sequence(w) ==
    /\ pc[w] \in {"idle"} \cup Results
    /\ calls[w] < MaxCalls
    /\ calls' = [calls EXCEPT ![w] = @ + 1]
    /\ start' = [start EXCEPT ![w] = NextSequence(Target[w], domain)]
    /\ pos' = [pos EXCEPT ![w] = 0]
    /\ pc' = [pc EXCEPT ![w] = "sequenced"]
    /\ UNCHANGED <<domain, mu, faults, restarts, loaded>>

(***************************************************************************)
(* The caller passes the batch whose Append failed once more.  Append      *)
(* assigned the UUIDs to its own copies, so the second call makes new      *)
(* ones; the sequence numbers are the old ones.                            *)
(***************************************************************************)
Retry(w) ==
    /\ pc[w] \in {"refused", "failed"}
    /\ calls[w] < MaxCalls
    /\ calls' = [calls EXCEPT ![w] = @ + 1]
    /\ pos' = [pos EXCEPT ![w] = 0]
    /\ pc' = [pc EXCEPT ![w] = "sequenced"]
    /\ UNCHANGED <<domain, mu, start, faults, restarts, loaded>>

-----------------------------------------------------------------------------
\* Append.

\* A faulty LockAppend: Append without the mutex.
LockAppendUnlocked(w) ==
    /\ pc[w] = "sequenced"
    /\ pc' = [pc EXCEPT ![w] = "appending"]
    /\ UNCHANGED <<domain, mu, start, pos, calls, faults, restarts, loaded>>

\* s.mu.Lock()
LockAppend(w) ==
    /\ pc[w] = "sequenced"
    /\ mu = Free
    /\ mu' = w
    /\ pc' = [pc EXCEPT ![w] = "appending"]
    /\ UNCHANGED <<domain, start, pos, calls, faults, restarts, loaded>>

\* The row the next INSERT of w's batch writes.
NextRow(w) ==
    Row([writer |-> w, call |-> calls[w], index |-> pos[w] + 1],
        Target[w], start[w] + pos[w])

InLoop(w) == pc[w] = "appending" /\ pos[w] < BatchSize[w]

\* Append returns r: the deferred Unlock runs.
Return(w, r) ==
    /\ pc' = [pc EXCEPT ![w] = r]
    /\ mu' = Free
    /\ UNCHANGED <<domain, start, pos, calls, restarts, loaded>>

\* An iteration whose INSERT commits.
InsertRow(w) ==
    /\ InLoop(w)
    /\ Insertable(NextRow(w), domain)
    /\ domain' = domain \cup {NextRow(w)}
    /\ pos' = [pos EXCEPT ![w] = @ + 1]
    /\ UNCHANGED <<mu, pc, start, calls, faults, restarts, loaded>>

\* A faulty InsertRefused: the early return forgets the Unlock.
InsertRefusedLocked(w) ==
    /\ InLoop(w)
    /\ ~Insertable(NextRow(w), domain)
    /\ pc' = [pc EXCEPT ![w] = "refused"]
    /\ UNCHANGED <<domain, mu, start, pos, calls, faults, restarts, loaded>>

\* An iteration whose INSERT violates a UNIQUE constraint.
InsertRefused(w) ==
    /\ InLoop(w)
    /\ ~Insertable(NextRow(w), domain)
    /\ Return(w, "refused")
    /\ UNCHANGED faults

\* An iteration whose INSERT fails for another reason (busy, disk full).
InsertFault(w) ==
    /\ InLoop(w)
    /\ faults < MaxFaults
    /\ faults' = faults + 1
    /\ Return(w, "failed")

AppendDone(w) ==
    /\ pc[w] = "appending"
    /\ pos[w] = BatchSize[w]
    /\ Return(w, "ok")
    /\ UNCHANGED faults

-----------------------------------------------------------------------------
\* Readers and crashes.

\* A faulty Load: LoadEvents without the read lock.
LoadUnlocked(a) ==
    /\ loaded' = [loaded EXCEPT ![a] = LoadEvents(a, domain)]
    /\ UNCHANGED <<domain, mu, pc, start, pos, calls, faults, restarts>>

\* LoadEvents(a): one query under the read lock, so no writer is inside.
Load(a) ==
    /\ mu = Free
    /\ loaded' = [loaded EXCEPT ![a] = LoadEvents(a, domain)]
    /\ UNCHANGED <<domain, mu, pc, start, pos, calls, faults, restarts>>

\* The process dies and starts again: only the table survives (and what a
\* reader was told, which the model keeps as an observation).
Restart ==
    /\ restarts < MaxRestarts
    /\ restarts' = restarts + 1
    /\ mu' = Free
    /\ pc' = [w \in Writers |-> "idle"]
    /\ start' = [w \in Writers |-> 0]
    /\ pos' = [w \in Writers |-> 0]
    /\ UNCHANGED <<domain, calls, faults, loaded>>

AppendStep(w) ==
    \/ InsertRow(w)
    \/ InsertRefused(w)
    \/ InsertFault(w)
    \/ AppendDone(w)

Next ==
    \/ \E w \in Writers : Sequence(w) \/ Retry(w) \/ LockAppend(w) \/ AppendStep(w)
    \/ \E a \in Aggregates : Load(a)
    \/ Restart

(***************************************************************************)
(* A goroutine inside Append keeps running.  One that waits for the mutex  *)
(* gets it if it is released again and again: sync.RWMutex queues its      *)
(* waiters.  Callers need never call, readers need never read.             *)
(***************************************************************************)
Fairness == \A w \in Writers : WF_vars(AppendStep(w)) /\ SF_vars(LockAppend(w))

Spec == Init /\ [][Next]_vars /\ Fairness

-----------------------------------------------------------------------------
\* Properties.

\* Every variable has its type (the columns and locals of store.go).
TypeOK ==
    /\ domain \subseteq [id : Ids, agg : Aggregates, seq : Nat]
    /\ mu \in Writers \cup {Free}
    /\ pc \in [Writers -> {"idle", "sequenced", "appending"} \cup Results]
    /\ start \in [Writers -> Nat]
    /\ pos \in [Writers -> Nat]
    /\ calls \in [Writers -> Nat]
    /\ faults \in Nat
    /\ restarts \in Nat
    /\ DOMAIN loaded = Aggregates

\* The sequence numbers of an aggregate have no gap, whatever Appends were
\* refused, failed or crashed half way, and although NextSequence is read
\* without the lock.
GapFree ==
    \A a \in Aggregates : SeqsOf(a, domain) = 1 .. MaxSequence(a, domain)

RowsOfCall(w) ==
    {r \in domain : r.id.writer = w /\ r.id.call = calls[w]}

\* An Append that lost the race for its sequence numbers (UNIQUE error)
\* left none of its rows: a stale batch is refused at its first row.
RefusedLeavesNothing ==
    \A w \in Writers : pc[w] = "refused" => RowsOfCall(w) = {}

\* Append persists its events atomically (the doc comment of Append): one
\* that returned an error left none of its rows.
AppendAtomic ==
    \A w \in Writers : pc[w] \in {"refused", "failed"} => RowsOfCall(w) = {}

\* A row is only ever added directly after the last one of its aggregate: a
\* batch numbered from a stale NextSequence never fills in behind others.
AppendsAtEnd ==
    [][\A r \in domain' \ domain : r.seq = NextSequence(r.agg, domain)]_vars

\* LoadEvents never returns part of a batch whose Append returns nil: the
\* read lock keeps a reader out of the loop of INSERTs.
ReadersSeeWholeBatches ==
    \A w \in Writers :
        LET mine == {r \in Range(loaded[Target[w]]) :
                        r.id.writer = w /\ r.id.call = calls[w]}
        IN  pc[w] = "ok" => Cardinality(mine) \in {0, BatchSize[w]}

\* A later LoadEvents of an aggregate extends an earlier one at the end: a
\* state replayed from the shorter log is never contradicted.
ReplayExtends ==
    [][\A a \in Aggregates : IsPrefix(loaded[a], loaded'[a])]_vars

\* A caller that entered Append gets an answer, or the process crashes: no
\* return path keeps the mutex.
AppendReturns ==
    \A w \in Writers : pc[w] = "sequenced" ~> pc[w] \in {"idle"} \cup Results

=============================================================================

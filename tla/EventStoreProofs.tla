-------------------------- MODULE EventStoreProofs --------------------------
(***************************************************************************)
(* Proofs about EventStore, for any number of writers, aggregates, batch   *)
(* sizes, faults and crashes: type correctness, gap-free sequence numbers, *)
(* whole refusals and appending at the end.                                *)
(***************************************************************************)
EXTENDS EventStore, EventTableProofs, FiniteSetTheorems, SequenceTheorems

-----------------------------------------------------------------------------
\* The inductive invariant.

\* The sequence numbers of an aggregate are 1 .. m for some m.  (The bound of
\* the quantifier is there for TLC.)
ContiguousAt(a, table) ==
    \E m \in {0} \cup SeqsOf(a, table) : m \in Nat /\ SeqsOf(a, table) = 1 .. m

Contiguous == \A a \in Aggregates : ContiguousAt(a, domain)

\* Exactly the holder of the mutex is inside Append.
MutexHeld == \A w \in Writers : pc[w] = "appending" <=> mu = w

\* A batch was numbered from a NextSequence that was right at the time: the
\* number before its first is taken.
AnchoredAt(n, a, table) == n = 1 \/ (n > 1 /\ n - 1 \in SeqsOf(a, table))

Anchored ==
    \A w \in Writers :
        pc[w] \in {"sequenced", "appending", "refused", "failed"} =>
            AnchoredAt(start[w], Target[w], domain)

\* Once its first row is in, the writer inside Append is at the end of its
\* aggregate's history: nobody else can insert.
AtEnd ==
    \A w \in Writers :
        /\ pc[w] = "sequenced" => pos[w] = 0
        /\ pc[w] = "appending" /\ pos[w] > 0 =>
            SeqsOf(Target[w], domain) = 1 .. start[w] + pos[w] - 1

\* Ids are fresh: no row comes from a call or an iteration still to be made.
FreshIds ==
    /\ \A r \in domain : r.id.call <= calls[r.id.writer]
    /\ \A w \in Writers :
        /\ pc[w] = "appending" => \A r \in RowsOfCall(w) : r.id.index <= pos[w]
        /\ pc[w] \in {"sequenced", "refused"} => RowsOfCall(w) = {}

IInv ==
    /\ TypeOK
    /\ Contiguous
    /\ MutexHeld
    /\ Anchored
    /\ AtEnd
    /\ FreshIds

-----------------------------------------------------------------------------
\* Initial states.

LEMMA InitInv == Init => IInv
<1> SUFFICES ASSUME Init PROVE IInv
  OBVIOUS
<1>1. TypeOK
  BY DEF Init, TypeOK, Results
<1>2. Contiguous
  <2>1. \A a \in Aggregates : SeqsOf(a, domain) = {}
    BY DEF Init, SeqsOf, RowsOf
  <2>2. 1 .. 0 = {}
    OBVIOUS
  <2> QED BY <2>1, <2>2 DEF Contiguous, ContiguousAt
<1>3. MutexHeld
  BY FreeAssumption DEF Init, MutexHeld
<1>4. Anchored /\ AtEnd
  BY DEF Init, Anchored, AtEnd
<1>5. FreshIds
  BY DEF Init, FreshIds
<1> QED BY <1>1, <1>2, <1>3, <1>4, <1>5 DEF IInv

-----------------------------------------------------------------------------
\* Consequences of the invariant at an INSERT.

\* The number of a row about to be inserted, and its aggregate's history.
LEMMA RowAtEnd ==
    ASSUME IInv, NEW w \in Writers, InLoop(w)
    PROVE  /\ NextRow(w).seq = start[w] + pos[w]
           /\ NextRow(w).seq \in Nat
           /\ Insertable(NextRow(w), domain) =>
                SeqsOf(Target[w], domain) = 1 .. start[w] + pos[w] - 1
           /\ pos[w] > 0 => Insertable(NextRow(w), domain)
<1> DEFINE id == [writer |-> w, call |-> calls[w], index |-> pos[w] + 1]
<1>1. /\ start[w] \in Nat /\ pos[w] \in Nat /\ calls[w] \in Nat
      /\ Target[w] \in Aggregates
      /\ pc[w] = "appending"
  BY TargetAssumption DEF IInv, TypeOK, InLoop
<1>2. NextRow(w) = Row(id, Target[w], start[w] + pos[w])
  BY DEF NextRow
<1>3. NextRow(w).seq = start[w] + pos[w]
  BY <1>2 DEF Row
<1>4. ASSUME Insertable(NextRow(w), domain)
      PROVE  SeqsOf(Target[w], domain) = 1 .. start[w] + pos[w] - 1
  <2>1. CASE pos[w] > 0
    BY <2>1, <1>1 DEF IInv, AtEnd
  <2>2. CASE pos[w] = 0
    <3>1. PICK m \in Nat : SeqsOf(Target[w], domain) = 1 .. m
      BY <1>1 DEF IInv, Contiguous, ContiguousAt
    <3>2. start[w] \notin 1 .. m
      BY <1>1, <1>2, <1>4, <2>2, <3>1, InsertableIsNew
    <3>3. \/ start[w] = 1
          \/ start[w] > 1 /\ start[w] - 1 \in SeqsOf(Target[w], domain)
      BY <1>1 DEF IInv, Anchored, AnchoredAt
    <3>4. start[w] = m + 1
      BY <1>1, <3>1, <3>2, <3>3
    <3>5. m = start[w] + pos[w] - 1
      BY <1>1, <2>2, <3>4
    <3> QED BY <3>1, <3>5
  <2> QED BY <2>1, <2>2, <1>1
<1>5. ASSUME pos[w] > 0
      PROVE  Insertable(NextRow(w), domain)
  <2>1. SeqsOf(Target[w], domain) = 1 .. start[w] + pos[w] - 1
    BY <1>1, <1>5 DEF IInv, AtEnd
  <2>2. start[w] + pos[w] \notin SeqsOf(Target[w], domain)
    BY <1>1, <2>1
  <2>3. \A r \in domain : r.id # id
    <3>1. SUFFICES ASSUME NEW r \in domain, r.id = id PROVE FALSE
      OBVIOUS
    <3>2. r \in RowsOfCall(w)
      BY <3>1 DEF RowsOfCall
    <3>3. r.id.index <= pos[w]
      BY <3>2, <1>1 DEF IInv, FreshIds
    <3> QED BY <3>1, <3>3, <1>1
  <2> QED BY <2>2, <2>3, <1>2, NewIsInsertable
<1> QED BY <1>1, <1>3, <1>4, <1>5

-----------------------------------------------------------------------------
\* Every step keeps the invariant: one lemma per action.

LEMMA SequenceInv ==
    ASSUME IInv, NEW w \in Writers, Sequence(w)
    PROVE  IInv'
<1> USE DEF Sequence
<1>1. PICK m \in Nat : SeqsOf(Target[w], domain) = 1 .. m
  BY TargetAssumption DEF IInv, Contiguous, ContiguousAt
<1>2. start'[w] = m + 1 /\ start' \in [Writers -> Nat]
  BY <1>1, NextOfContiguous DEF IInv, TypeOK
<1>3. TypeOK'
  BY <1>2 DEF IInv, TypeOK
<1>4. Contiguous'
  BY DEF IInv, Contiguous
<1>5. MutexHeld'
  BY DEF IInv, TypeOK, MutexHeld, Results
<1>6. Anchored'
  <2>1. AnchoredAt(start'[w], Target[w], domain)
    <3>1. m = 0 \/ (m + 1 > 1 /\ (m + 1) - 1 \in 1 .. m)
      OBVIOUS
    <3> QED BY <1>1, <1>2, <3>1 DEF AnchoredAt
  <2> QED BY <2>1 DEF IInv, TypeOK, Anchored
<1>7. AtEnd'
  BY DEF IInv, TypeOK, AtEnd
<1>8. FreshIds'
  <2>1. \A r \in domain : r.id.call <= calls'[r.id.writer]
    BY DEF IInv, TypeOK, FreshIds, Ids
  <2>2. RowsOfCall(w)' = {}
    BY DEF IInv, TypeOK, FreshIds, Ids, RowsOfCall
  <2>3. \A v \in Writers \ {w} : RowsOfCall(v)' = RowsOfCall(v)
    BY DEF IInv, TypeOK, RowsOfCall
  <2> QED BY <2>1, <2>2, <2>3 DEF IInv, TypeOK, FreshIds
<1> QED BY <1>3, <1>4, <1>5, <1>6, <1>7, <1>8 DEF IInv

LEMMA RetryInv ==
    ASSUME IInv, NEW w \in Writers, Retry(w)
    PROVE  IInv'
<1> USE DEF Retry
<1>1. TypeOK'
  BY DEF IInv, TypeOK
<1>2. Contiguous'
  BY DEF IInv, Contiguous
<1>3. MutexHeld'
  BY DEF IInv, TypeOK, MutexHeld
<1>4. Anchored' /\ AtEnd'
  BY DEF IInv, TypeOK, Anchored, AtEnd
<1>5. FreshIds'
  <2>1. \A r \in domain : r.id.call <= calls'[r.id.writer]
    BY DEF IInv, TypeOK, FreshIds, Ids
  <2>2. RowsOfCall(w)' = {}
    BY DEF IInv, TypeOK, FreshIds, Ids, RowsOfCall
  <2>3. \A v \in Writers \ {w} : RowsOfCall(v)' = RowsOfCall(v)
    BY DEF IInv, TypeOK, RowsOfCall
  <2> QED BY <2>1, <2>2, <2>3 DEF IInv, TypeOK, FreshIds
<1> QED BY <1>1, <1>2, <1>3, <1>4, <1>5 DEF IInv

LEMMA LockAppendInv ==
    ASSUME IInv, NEW w \in Writers, LockAppend(w)
    PROVE  IInv'
<1> USE DEF LockAppend
<1>1. TypeOK'
  BY DEF IInv, TypeOK
<1>2. Contiguous'
  BY DEF IInv, Contiguous
<1>3. MutexHeld'
  BY FreeAssumption DEF IInv, TypeOK, MutexHeld
<1>4. Anchored'
  <2> SUFFICES ASSUME NEW v \in Writers,
                      pc'[v] \in {"sequenced", "appending", "refused", "failed"}
               PROVE  AnchoredAt(start'[v], Target[v], domain')
    BY DEF Anchored
  <2>1. pc[v] \in {"sequenced", "appending", "refused", "failed"}
    BY DEF IInv, TypeOK
  <2> QED BY <2>1 DEF IInv, Anchored
<1>5. AtEnd'
  BY DEF IInv, TypeOK, AtEnd
<1>6. FreshIds'
  BY DEF IInv, TypeOK, FreshIds, RowsOfCall
<1> QED BY <1>1, <1>2, <1>3, <1>4, <1>5, <1>6 DEF IInv

LEMMA InsertRowInv ==
    ASSUME IInv, NEW w \in Writers, InsertRow(w)
    PROVE  IInv'
<1> DEFINE a == Target[w]
           n == start[w] + pos[w]
           id == [writer |-> w, call |-> calls[w], index |-> pos[w] + 1]
<1>1. /\ InLoop(w) /\ pc[w] = "appending" /\ mu = w
      /\ start[w] \in Nat /\ pos[w] \in Nat /\ calls[w] \in Nat
      /\ a \in Aggregates /\ id \in Ids
  <2>1. InLoop(w) /\ pc[w] = "appending" /\ mu = w
    BY DEF IInv, MutexHeld, InsertRow, InLoop
  <2>2. start[w] \in Nat /\ pos[w] \in Nat /\ calls[w] \in Nat
    BY DEF IInv, TypeOK
  <2> QED BY <2>1, <2>2, TargetAssumption DEF Ids
<1>2. /\ NextRow(w) = Row(id, a, n)
      /\ domain' = domain \cup {Row(id, a, n)}
      /\ pos' = [pos EXCEPT ![w] = @ + 1]
      /\ UNCHANGED <<mu, pc, start, calls, faults, restarts, loaded>>
  BY DEF InsertRow, NextRow
<1>3. SeqsOf(a, domain) = 1 .. n - 1 /\ n \in Nat
  <2>1. Insertable(NextRow(w), domain)
    BY DEF InsertRow
  <2> QED BY <1>1, <2>1, RowAtEnd
<1> HIDE DEF a, n, id
<1>4. n >= 1
  <2>1. start[w] >= 1
    BY <1>1 DEF IInv, Anchored, AnchoredAt
  <2> QED BY <1>1, <2>1 DEF n
<1>5. SeqsOf(a, domain') = 1 .. n
  <2>1. SeqsOf(a, domain') = SeqsOf(a, domain) \cup {n}
    BY <1>2, SeqsAfterInsert
  <2> QED BY <2>1, <1>3, <1>4
<1>6. \A b \in Aggregates : b # a => SeqsOf(b, domain') = SeqsOf(b, domain)
  <2> SUFFICES ASSUME NEW b \in Aggregates, b # a
               PROVE  SeqsOf(b, domain') = SeqsOf(b, domain)
    OBVIOUS
  <2>1. domain' = domain \cup {Row(id, a, n)}
    BY <1>2
  <2> QED BY <2>1, SeqsAfterInsert
<1>7. TypeOK'
  <2>1. Row(id, a, n) \in [id : Ids, agg : Aggregates, seq : Nat]
    BY <1>1, <1>3 DEF Row
  <2>2. domain' \subseteq [id : Ids, agg : Aggregates, seq : Nat]
    BY <1>2, <2>1 DEF IInv, TypeOK
  <2> QED BY <1>1, <1>2, <2>2 DEF IInv, TypeOK
<1>8. Contiguous'
  <2> SUFFICES ASSUME NEW b \in Aggregates PROVE ContiguousAt(b, domain')
    BY DEF Contiguous
  <2>1. CASE b = a
    <3>1. n \in SeqsOf(a, domain')
      BY <1>3, <1>4, <1>5
    <3> QED BY <2>1, <3>1, <1>3, <1>5 DEF ContiguousAt
  <2>2. CASE b # a
    BY <2>2, <1>6 DEF IInv, Contiguous, ContiguousAt
  <2> QED BY <2>1, <2>2
<1>9. MutexHeld'
  BY <1>2 DEF IInv, MutexHeld
<1>10. \A b \in Aggregates :
         \A k \in SeqsOf(b, domain) : k \in SeqsOf(b, domain')
  BY <1>3, <1>5, <1>6
<1>11. Anchored'
  <2> SUFFICES ASSUME NEW v \in Writers,
                      pc[v] \in {"sequenced", "appending", "refused", "failed"}
               PROVE  AnchoredAt(start[v], Target[v], domain')
    BY <1>2 DEF Anchored
  <2>1. AnchoredAt(start[v], Target[v], domain)
    BY DEF IInv, Anchored
  <2> QED BY <2>1, <1>10, TargetAssumption DEF AnchoredAt
<1>12. AtEnd'
  <2> SUFFICES ASSUME NEW v \in Writers
               PROVE  /\ pc[v] = "sequenced" => pos'[v] = 0
                      /\ pc[v] = "appending" /\ pos'[v] > 0 =>
                         SeqsOf(Target[v], domain') = 1 .. start[v] + pos'[v] - 1
    BY <1>2 DEF AtEnd
  <2>1. CASE v = w
    <3>1. pos'[w] = pos[w] + 1
      BY <1>2 DEF IInv, TypeOK
    <3>2. start[w] + pos'[w] - 1 = n
      BY <3>1, <1>1 DEF n
    <3> QED BY <2>1, <3>2, <1>1, <1>5 DEF a
  <2>2. CASE v # w
    <3>1. pc[v] # "appending"
      BY <2>2, <1>1 DEF IInv, MutexHeld
    <3>2. pos'[v] = pos[v]
      BY <2>2, <1>2 DEF IInv, TypeOK
    <3> QED BY <3>1, <3>2 DEF IInv, AtEnd
  <2> QED BY <2>1, <2>2
<1>13. FreshIds'
  <2>1. Row(id, a, n).id = id /\ id.writer = w /\ id.call = calls[w]
        /\ id.index = pos[w] + 1
    BY DEF Row, id
  <2>2. \A r \in domain' : r.id.call <= calls[r.id.writer]
    BY <1>1, <1>2, <2>1 DEF IInv, FreshIds
  <2>3. \A v \in Writers \ {w} : RowsOfCall(v)' = RowsOfCall(v)
    BY <1>2, <2>1 DEF RowsOfCall
  <2>4. \A r \in RowsOfCall(w)' : r.id.index <= pos[w] + 1
    <3> SUFFICES ASSUME NEW r \in RowsOfCall(w)'
                 PROVE  r.id.index <= pos[w] + 1
      OBVIOUS
    <3>1. CASE r = Row(id, a, n)
      BY <3>1, <2>1, <1>1
    <3>2. CASE r \in domain
      <4>1. r \in RowsOfCall(w)
        BY <3>2, <1>2 DEF RowsOfCall
      <4>2. r.id.index \in Nat
        BY <3>2 DEF IInv, TypeOK, Ids
      <4> QED BY <4>1, <4>2, <1>1 DEF IInv, FreshIds
    <3> QED BY <3>1, <3>2, <1>2 DEF RowsOfCall
  <2>5. pos'[w] = pos[w] + 1 /\ \A v \in Writers \ {w} : pos'[v] = pos[v]
    BY <1>2 DEF IInv, TypeOK
  <2> QED BY <1>1, <1>2, <2>2, <2>3, <2>4, <2>5 DEF IInv, FreshIds
<1> QED BY <1>7, <1>8, <1>9, <1>11, <1>12, <1>13 DEF IInv

\* Leaving Append keeps the invariant; a refusal happens before the first row.
LEMMA ReturnInv ==
    ASSUME IInv, NEW w \in Writers, pc[w] = "appending",
           NEW r \in Results, Return(w, r), faults' \in Nat,
           r = "refused" => RowsOfCall(w) = {}
    PROVE  IInv'
<1> USE DEF Return
<1>1. TypeOK'
  BY DEF IInv, TypeOK
<1>2. Contiguous'
  BY DEF IInv, Contiguous
<1>3. MutexHeld'
  BY FreeAssumption DEF IInv, TypeOK, MutexHeld, Results
<1>4. Anchored'
  BY DEF IInv, TypeOK, Anchored, Results
<1>5. AtEnd'
  BY DEF IInv, TypeOK, AtEnd, Results
<1>6. FreshIds'
  BY DEF IInv, TypeOK, FreshIds, RowsOfCall, Results
<1> QED BY <1>1, <1>2, <1>3, <1>4, <1>5, <1>6 DEF IInv

LEMMA InsertRefusedInv ==
    ASSUME IInv, NEW w \in Writers, InsertRefused(w)
    PROVE  IInv'
<1>1. pc[w] = "appending" /\ pos[w] = 0
  <2>1. ~(pos[w] > 0)
    BY RowAtEnd DEF InsertRefused
  <2> QED BY <2>1 DEF InsertRefused, InLoop, IInv, TypeOK
<1>2. RowsOfCall(w) = {}
  <2>1. \A r \in RowsOfCall(w) : r.id.index \in Nat \ {0} /\ r.id.index <= 0
    BY <1>1 DEF IInv, TypeOK, FreshIds, RowsOfCall, Ids
  <2> QED BY <2>1
<1> QED BY <1>1, <1>2, ReturnInv DEF InsertRefused, IInv, TypeOK, Results

LEMMA InsertFaultInv ==
    ASSUME IInv, NEW w \in Writers, InsertFault(w)
    PROVE  IInv'
BY ReturnInv DEF InsertFault, InLoop, IInv, TypeOK, Results

LEMMA AppendDoneInv ==
    ASSUME IInv, NEW w \in Writers, AppendDone(w)
    PROVE  IInv'
BY ReturnInv DEF AppendDone, IInv, TypeOK, Results

LEMMA LoadInv ==
    ASSUME IInv, NEW a \in Aggregates, Load(a)
    PROVE  IInv'
BY DEF Load, IInv, TypeOK, Contiguous, MutexHeld, Anchored, AtEnd, FreshIds,
       RowsOfCall

LEMMA RestartInv ==
    ASSUME IInv, Restart
    PROVE  IInv'
<1> USE DEF Restart
<1>1. TypeOK' /\ Contiguous'
  BY DEF IInv, TypeOK, Contiguous
<1>2. MutexHeld' /\ Anchored' /\ AtEnd'
  BY FreeAssumption DEF MutexHeld, Anchored, AtEnd
<1>3. FreshIds'
  BY DEF IInv, FreshIds
<1> QED BY <1>1, <1>2, <1>3 DEF IInv

LEMMA StutterInv ==
    ASSUME IInv, UNCHANGED vars
    PROVE  IInv'
BY DEF vars, IInv, TypeOK, Contiguous, MutexHeld, Anchored, AtEnd, FreshIds,
       RowsOfCall

\* The invariant holds in every reachable state of the direct path.
THEOREM Invariant == Spec => []IInv
<1>1. IInv /\ [Next]_vars => IInv'
  BY SequenceInv, RetryInv, LockAppendInv, InsertRowInv, InsertRefusedInv,
     InsertFaultInv, AppendDoneInv, LoadInv, RestartInv, StutterInv
     DEF Next, AppendStep
<1> QED BY InitInv, <1>1, PTL DEF Spec

-----------------------------------------------------------------------------
\* The results.

\* Every variable keeps its type: tables, mutex and locals of store.go.
THEOREM TypeCorrect == Spec => []TypeOK
<1>1. IInv => TypeOK
  BY DEF IInv
<1> QED BY Invariant, <1>1, PTL

\* Sequence numbers of an aggregate are gap free for any number of writers,
\* batch sizes, failing INSERTs, retries and crashes.
THEOREM NoGaps == Spec => []GapFree
<1>1. IInv => GapFree
  <2> SUFFICES ASSUME IInv, NEW a \in Aggregates
               PROVE  SeqsOf(a, domain) = 1 .. MaxSequence(a, domain)
    BY DEF GapFree
  <2>1. PICK m \in Nat : SeqsOf(a, domain) = 1 .. m
    BY DEF IInv, Contiguous, ContiguousAt
  <2> QED BY <2>1, NextOfContiguous
<1> QED BY Invariant, <1>1, PTL

\* An Append refused by the UNIQUE index of domain_events left no row.
THEOREM WholeRefusals == Spec => []RefusedLeavesNothing
<1>1. IInv => RefusedLeavesNothing
  BY DEF IInv, FreshIds, RefusedLeavesNothing
<1> QED BY Invariant, <1>1, PTL

\* Rows are only ever added after the last of their aggregate: the INSERTs of
\* Append never write at a stale NextSequence.
THEOREM OnlyAtTheEnd == Spec => AppendsAtEnd
<1>1. ASSUME IInv, [Next]_vars, NEW r \in domain' \ domain
      PROVE  r.seq = NextSequence(r.agg, domain)
  <2>1. PICK w \in Writers : InsertRow(w)
    BY <1>1 DEF vars, Next, Sequence, Retry, LockAppend, AppendStep,
                InsertRefused, InsertFault, AppendDone, Return, Load, Restart
  <2>2. r = NextRow(w) /\ InLoop(w) /\ Insertable(NextRow(w), domain)
    BY <2>1, <1>1 DEF InsertRow
  <2>3. r.agg = Target[w] /\ r.seq = start[w] + pos[w] /\ r.seq \in Nat
    BY <2>2, <1>1, RowAtEnd DEF NextRow, Row
  <2>4. start[w] >= 1 /\ start[w] \in Nat /\ pos[w] \in Nat
    BY <2>2, <1>1 DEF IInv, TypeOK, Anchored, AnchoredAt, InLoop
  <2>5. SeqsOf(Target[w], domain) = 1 .. r.seq - 1 /\ r.seq - 1 \in Nat
    <3>1. SeqsOf(Target[w], domain) = 1 .. start[w] + pos[w] - 1
      BY <2>2, <1>1, RowAtEnd
    <3>2. r.seq - 1 = start[w] + pos[w] - 1 /\ r.seq - 1 \in Nat
      BY <2>3, <2>4
    <3> QED BY <3>1, <3>2
  <2>6. NextSequence(Target[w], domain) = (r.seq - 1) + 1
    BY <2>5, NextOfContiguous
  <2> QED BY <2>3, <2>6
<1>2. IInv /\ [Next]_vars =>
        [\A r \in domain' \ domain : r.seq = NextSequence(r.agg, domain)]_vars
  BY <1>1
<1> QED BY Invariant, <1>2, PTL DEF Spec, AppendsAtEnd

-----------------------------------------------------------------------------
(***************************************************************************)
(* What readers of the log get, for any number of writers, batch sizes,    *)
(* faults and crashes: LoadEvents returns the rows of an aggregate, each   *)
(* at the place its number says; a batch that was appended is seen whole   *)
(* or not at all; what is read later extends what was read before.         *)
(*                                                                         *)
(* The query of LoadEvents sorts by counting smaller numbers, so the first *)
(* part counts rows through the bijection between a gap-free history and   *)
(* its numbers.                                                            *)
(***************************************************************************)

\* UNIQUE(aggregate_id, sequence)
NumberedIn(table) ==
    \A r, q \in table : r.agg = q.agg /\ r.seq = q.seq => r = q

-----------------------------------------------------------------------------
\* Counting rows by their numbers.

\* As many rows have a number up to k as there are such numbers.
LEMMA RowsUpTo ==
    ASSUME NEW table, NEW a, NEW m \in Nat, SeqsOf(a, table) = 1 .. m,
           NumberedIn(table), NEW k \in 0 .. m
    PROVE  LET some == {q \in RowsOf(a, table) : q.seq \in 1 .. k}
           IN  IsFiniteSet(some) /\ Cardinality(some) = k
<1> DEFINE some == {q \in RowsOf(a, table) : q.seq \in 1 .. k}
           row == [n \in 1 .. k |-> CHOOSE r \in RowsOf(a, table) : r.seq = n]
<1>1. \A n \in 1 .. k : row[n] \in some /\ row[n].seq = n
  <2> SUFFICES ASSUME NEW n \in 1 .. k
               PROVE  row[n] \in some /\ row[n].seq = n
    OBVIOUS
  <2>1. n \in SeqsOf(a, table)
    OBVIOUS
  <2>2. \E r \in RowsOf(a, table) : r.seq = n
    BY <2>1 DEF SeqsOf
  <2> QED BY <2>2
<1>2. \A r \in some : row[r.seq] = r
  <2> SUFFICES ASSUME NEW r \in some PROVE row[r.seq] = r
    OBVIOUS
  <2>1. row[r.seq] \in some /\ row[r.seq].seq = r.seq
    BY <1>1
  <2> QED BY <2>1 DEF NumberedIn, RowsOf
<1> HIDE DEF row
<1>3. row \in [1 .. k -> some]
  <2>1. row = [n \in 1 .. k |-> row[n]]
    BY DEF row
  <2> QED BY <1>1, <2>1
<1> HIDE DEF some
<1>4. row \in Bijection(1 .. k, some)
  <2>1. row \in Injection(1 .. k, some)
    BY <1>1, <1>3 DEF Injection, IsInjective
  <2>2. row \in Surjection(1 .. k, some)
    <3> SUFFICES ASSUME NEW r \in some PROVE \E n \in 1 .. k : row[n] = r
      BY <1>3 DEF Surjection
    <3> QED BY <1>2 DEF some
  <2> QED BY <2>1, <2>2 DEF Bijection
<1>5. ExistsBijection(1 .. k, some) /\ k \in Nat
  BY <1>4 DEF ExistsBijection
<1>6. IsFiniteSet(some) /\ Cardinality(some) = k
  BY <1>5, FS_NatBijection, FS_CountingElements
<1> QED BY <1>6 DEF some

\* LoadEvents returns the rows of the aggregate in the order of their numbers.
LEMMA LoadEventsInOrder ==
    ASSUME NEW table, NEW a, NEW m \in Nat, SeqsOf(a, table) = 1 .. m,
           NumberedIn(table)
    PROVE  /\ LoadEvents(a, table) \in [1 .. m -> RowsOf(a, table)]
           /\ \A n \in 1 .. m : LoadEvents(a, table)[n].seq = n
<1> DEFINE rows == RowsOf(a, table)
           smaller(r) == {q \in rows : q.seq < r.seq}
<1>1. \A r \in rows : r.seq \in 1 .. m
  BY DEF SeqsOf
<1>2. Cardinality(rows) = m
  <2>1. rows = {q \in rows : q.seq \in 1 .. m}
    BY <1>1
  <2>2. m \in 0 .. m
    OBVIOUS
  <2> HIDE DEF rows
  <2> QED BY <2>1, <2>2, RowsUpTo DEF rows
<1>3. ASSUME NEW r \in rows
      PROVE  Cardinality(smaller(r)) = r.seq - 1
  <2> DEFINE k == r.seq - 1
  <2>1. r.seq \in 1 .. m /\ k \in 0 .. m
    BY <1>1
  <2>2. smaller(r) = {q \in rows : q.seq \in 1 .. k}
    BY <1>1, <2>1
  <2> HIDE DEF k
  <2>3. Cardinality({q \in rows : q.seq \in 1 .. k}) = k
    BY <2>1, RowsUpTo
  <2>4. Cardinality(smaller(r)) = k
    BY <2>2, <2>3
  <2> QED BY <2>4 DEF k
<1> HIDE DEF smaller
<1>4. ASSUME NEW n \in 1 .. m
      PROVE  LET r == CHOOSE r \in rows : Cardinality(smaller(r)) = n - 1
             IN  r \in rows /\ r.seq = n
  <2>1. n \in SeqsOf(a, table)
    OBVIOUS
  <2>2. PICK q \in rows : q.seq = n
    BY <2>1 DEF SeqsOf
  <2>3. Cardinality(smaller(q)) = n - 1
    BY <2>2, <1>3
  <2> DEFINE r == CHOOSE r \in rows : Cardinality(smaller(r)) = n - 1
  <2>4. r \in rows /\ Cardinality(smaller(r)) = n - 1
    BY <2>3
  <2> HIDE DEF r
  <2>5. r.seq - 1 = n - 1 /\ r.seq \in 1 .. m
    BY <2>4, <1>1, <1>3
  <2>6. r.seq = n
    BY <2>5
  <2> QED BY <2>4, <2>6 DEF r
<1>5. LoadEvents(a, table) =
        [n \in 1 .. m |-> CHOOSE r \in rows : Cardinality(smaller(r)) = n - 1]
  BY <1>2 DEF LoadEvents, smaller
<1> HIDE DEF rows
<1> QED BY <1>4, <1>5 DEF rows

-----------------------------------------------------------------------------
\* The invariant, on top of IInv.

\* A writer appends only to its own aggregate.
Owned == \A r \in domain : r.agg = Target[r.id.writer]

\* What a reader was told are rows of the aggregate, from number 1 on.
LoadedSoFar ==
    \A a \in Aggregates :
        /\ loaded[a] \in Seq(domain)
        /\ \A n \in 1 .. Len(loaded[a]) :
            loaded[a][n].agg = a /\ loaded[a][n].seq = n

\* The rows of a call that is in its loop are those inserted so far, and a
\* call that returned nil inserted them all.
Counted ==
    \A w \in Writers :
        /\ pc[w] = "appending" =>
            IsFiniteSet(RowsOfCall(w)) /\ Cardinality(RowsOfCall(w)) = pos[w]
        /\ pc[w] = "ok" => Cardinality(RowsOfCall(w)) = BatchSize[w]

\* The rows of w's last call that the last reader of its aggregate saw.
Seen(w) ==
    {r \in Range(loaded[Target[w]]) : r.id.writer = w /\ r.id.call = calls[w]}

SeenWhole ==
    \A w \in Writers :
        /\ pc[w] \in {"sequenced", "appending"} => Seen(w) = {}
        /\ pc[w] = "ok" => Seen(w) \in {{}, RowsOfCall(w)}

ReplayInv ==
    /\ NumberedIn(domain)
    /\ Owned
    /\ LoadedSoFar
    /\ Counted
    /\ SeenWhole

LEMMA InitReplay == Init => ReplayInv
<1> SUFFICES ASSUME Init PROVE ReplayInv
  OBVIOUS
<1>1. NumberedIn(domain) /\ Owned
  BY DEF Init, NumberedIn, Owned
<1>2. LoadedSoFar
  BY DEF Init, LoadedSoFar
<1>3. Counted /\ SeenWhole
  <2>1. \A w \in Writers : Seen(w) = {}
    BY TargetAssumption DEF Init, Seen, Range
  <2> QED BY <2>1 DEF Init, Counted, SeenWhole
<1> QED BY <1>1, <1>2, <1>3 DEF ReplayInv

\* Rows that were read are in the table.
LEMMA LoadedInTable ==
    ASSUME IInv, ReplayInv, NEW w \in Writers
    PROVE  Range(loaded[Target[w]]) \subseteq domain
<1>1. loaded[Target[w]] \in Seq(domain)
  BY TargetAssumption DEF ReplayInv, LoadedSoFar
<1> QED BY <1>1 DEF Range

-----------------------------------------------------------------------------
\* Every step keeps the invariant.

\* A new call has no rows, and none of them was read.
LEMMA NewCallReplay ==
    ASSUME IInv, ReplayInv, NEW w \in Writers, Sequence(w) \/ Retry(w)
    PROVE  ReplayInv'
<1>1. /\ UNCHANGED <<domain, loaded>>
      /\ calls' = [calls EXCEPT ![w] = @ + 1]
      /\ pc' = [pc EXCEPT ![w] = "sequenced"]
      /\ pos' = [pos EXCEPT ![w] = 0]
  BY DEF Sequence, Retry
<1>2. NumberedIn(domain)' /\ Owned' /\ LoadedSoFar'
  BY <1>1 DEF ReplayInv, NumberedIn, Owned, LoadedSoFar
<1>3. \A v \in Writers \ {w} :
        RowsOfCall(v)' = RowsOfCall(v) /\ Seen(v)' = Seen(v)
        /\ pc'[v] = pc[v] /\ pos'[v] = pos[v]
  BY <1>1 DEF IInv, TypeOK, RowsOfCall, Seen
<1>4. pc'[w] = "sequenced"
  BY <1>1 DEF IInv, TypeOK
<1>5. Counted'
  BY <1>3, <1>4 DEF ReplayInv, Counted
<1>6. Seen(w)' = {}
  <2> SUFFICES ASSUME NEW r \in Range(loaded[Target[w]]), r.id.writer = w,
                      r.id.call = calls'[w]
               PROVE  FALSE
    BY <1>1 DEF Seen
  <2>1. r \in domain
    BY LoadedInTable
  <2>2. r.id.call <= calls[w]
    BY <2>1 DEF IInv, FreshIds
  <2> QED BY <1>1, <2>2 DEF IInv, TypeOK
<1>7. SeenWhole'
  BY <1>3, <1>4, <1>6 DEF ReplayInv, SeenWhole
<1> QED BY <1>2, <1>5, <1>7 DEF ReplayInv

LEMMA LockAppendReplay ==
    ASSUME IInv, ReplayInv, NEW w \in Writers, LockAppend(w)
    PROVE  ReplayInv'
<1>1. /\ UNCHANGED <<domain, loaded, calls, pos>> /\ pc[w] = "sequenced"
      /\ pc' = [pc EXCEPT ![w] = "appending"]
  BY DEF LockAppend
<1>2. NumberedIn(domain)' /\ Owned' /\ LoadedSoFar'
  BY <1>1 DEF ReplayInv, NumberedIn, Owned, LoadedSoFar
<1>3. \A v \in Writers : RowsOfCall(v)' = RowsOfCall(v) /\ Seen(v)' = Seen(v)
  BY <1>1 DEF RowsOfCall, Seen
<1>4. RowsOfCall(w) = {} /\ pos[w] = 0
  BY <1>1 DEF IInv, FreshIds, AtEnd
<1>5. Counted'
  BY <1>1, <1>3, <1>4, FS_EmptySet DEF ReplayInv, Counted, IInv, TypeOK
<1>6. SeenWhole'
  BY <1>1, <1>3 DEF ReplayInv, SeenWhole, IInv, TypeOK
<1> QED BY <1>2, <1>5, <1>6 DEF ReplayInv

LEMMA InsertRowReplay ==
    ASSUME IInv, ReplayInv, NEW w \in Writers, InsertRow(w)
    PROVE  ReplayInv'
<1> DEFINE row == NextRow(w)
<1>1. /\ domain' = domain \cup {row} /\ Insertable(row, domain)
      /\ UNCHANGED <<pc, calls, loaded>> /\ pc[w] = "appending"
      /\ pos' = [pos EXCEPT ![w] = @ + 1] /\ pos[w] \in Nat
  BY DEF InsertRow, InLoop, IInv, TypeOK
<1>2. /\ row.agg = Target[w] /\ row.id.writer = w /\ row.id.call = calls[w]
      /\ row.id.index = pos[w] + 1
  BY DEF NextRow, Row
<1> HIDE DEF row
<1>3. NumberedIn(domain)'
  BY <1>1 DEF ReplayInv, NumberedIn, Insertable
<1>4. Owned'
  BY <1>1, <1>2 DEF ReplayInv, Owned
<1>5. LoadedSoFar'
  <2>1. Seq(domain) \subseteq Seq(domain')
    BY <1>1
  <2> QED BY <1>1, <2>1 DEF ReplayInv, LoadedSoFar
<1>6. \A v \in Writers : Seen(v)' = Seen(v)
  BY <1>1 DEF Seen
<1>7. \A v \in Writers \ {w} : RowsOfCall(v)' = RowsOfCall(v) /\ pos'[v] = pos[v]
  BY <1>1, <1>2 DEF RowsOfCall, IInv, TypeOK
<1>8. RowsOfCall(w)' = RowsOfCall(w) \cup {row} /\ row \notin RowsOfCall(w)
  <2>1. RowsOfCall(w)' = RowsOfCall(w) \cup {row}
    BY <1>1, <1>2 DEF RowsOfCall
  <2>2. row \in RowsOfCall(w) => row.id.index <= pos[w]
    BY <1>1 DEF IInv, FreshIds
  <2> QED BY <1>1, <1>2, <2>1, <2>2
<1>9. Counted'
  <2>1. IsFiniteSet(RowsOfCall(w)) /\ Cardinality(RowsOfCall(w)) = pos[w]
    BY <1>1 DEF ReplayInv, Counted
  <2>2. IsFiniteSet(RowsOfCall(w)') /\ Cardinality(RowsOfCall(w)') = pos[w] + 1
    BY <1>8, <2>1, FS_AddElement
  <2>3. pos'[w] = pos[w] + 1
    BY <1>1 DEF IInv, TypeOK
  <2> QED BY <1>1, <1>7, <2>2, <2>3 DEF ReplayInv, Counted
<1>10. SeenWhole'
  BY <1>1, <1>6, <1>7 DEF ReplayInv, SeenWhole
<1> QED BY <1>3, <1>4, <1>5, <1>9, <1>10 DEF ReplayInv

LEMMA ReturnReplay ==
    ASSUME IInv, ReplayInv, NEW w \in Writers, pc[w] = "appending",
           NEW r \in Results, Return(w, r), r = "ok" => pos[w] = BatchSize[w]
    PROVE  ReplayInv'
<1>1. UNCHANGED <<domain, loaded, calls, pos>> /\ pc' = [pc EXCEPT ![w] = r]
  BY DEF Return
<1>2. NumberedIn(domain)' /\ Owned' /\ LoadedSoFar'
  BY <1>1 DEF ReplayInv, NumberedIn, Owned, LoadedSoFar
<1>3. \A v \in Writers : RowsOfCall(v)' = RowsOfCall(v) /\ Seen(v)' = Seen(v)
  BY <1>1 DEF RowsOfCall, Seen
<1>4. Counted'
  BY <1>1, <1>3 DEF ReplayInv, Counted, IInv, TypeOK, Results
<1>5. SeenWhole'
  BY <1>1, <1>3 DEF ReplayInv, SeenWhole, IInv, TypeOK, Results
<1> QED BY <1>2, <1>4, <1>5 DEF ReplayInv

\* A reader gets the whole history of its aggregate, and no batch is half
\* way in while it reads.
LEMMA LoadReplay ==
    ASSUME IInv, ReplayInv, NEW a \in Aggregates, Load(a)
    PROVE  /\ ReplayInv'
           /\ \A b \in Aggregates : IsPrefix(loaded[b], loaded'[b])
<1>1. /\ UNCHANGED <<domain, pc, calls, pos>> /\ mu = Free
      /\ loaded' = [loaded EXCEPT ![a] = LoadEvents(a, domain)]
  BY DEF Load
<1>2. PICK m \in Nat : SeqsOf(a, domain) = 1 .. m
  BY DEF IInv, Contiguous, ContiguousAt
<1>3. /\ loaded'[a] \in [1 .. m -> RowsOf(a, domain)]
      /\ \A n \in 1 .. m : loaded'[a][n].seq = n
  BY <1>1, <1>2, LoadEventsInOrder DEF ReplayInv, IInv, TypeOK
<1>4. loaded'[a] \in Seq(RowsOf(a, domain)) /\ Len(loaded'[a]) = m
  BY <1>2, <1>3
<1>5. \A b \in Aggregates \ {a} : loaded'[b] = loaded[b]
  BY <1>1 DEF IInv, TypeOK
<1>6. LoadedSoFar'
  <2>1. loaded'[a] \in Seq(domain)
    BY <1>4 DEF RowsOf
  <2>2. \A n \in 1 .. m : loaded'[a][n].agg = a
    BY <1>3 DEF RowsOf
  <2> QED BY <1>1, <1>3, <1>4, <1>5, <2>1, <2>2 DEF ReplayInv, LoadedSoFar
<1>7. Range(loaded'[a]) = RowsOf(a, domain)
  <2>1. \A r \in RowsOf(a, domain) : \E n \in 1 .. m : loaded'[a][n] = r
    <3> SUFFICES ASSUME NEW r \in RowsOf(a, domain)
                 PROVE  r.seq \in 1 .. m /\ loaded'[a][r.seq] = r
      OBVIOUS
    <3>1. r.seq \in 1 .. m
      BY <1>2 DEF SeqsOf
    <3> QED BY <3>1, <1>3 DEF ReplayInv, NumberedIn, RowsOf
  <2> QED BY <1>3, <2>1 DEF Range
<1>8. \A w \in Writers : RowsOfCall(w)' = RowsOfCall(w)
  BY <1>1 DEF RowsOfCall
<1>9. SeenWhole'
  <2> SUFFICES ASSUME NEW w \in Writers
               PROVE  /\ pc[w] \in {"sequenced", "appending"} => Seen(w)' = {}
                      /\ pc[w] = "ok" => Seen(w)' \in {{}, RowsOfCall(w)}
    BY <1>1, <1>8 DEF SeenWhole
  <2>1. CASE Target[w] = a
    <3>1. Seen(w)' = RowsOfCall(w)
      BY <1>1, <1>7, <2>1 DEF Seen, RowsOfCall, RowsOf, ReplayInv, Owned
    <3>2. pc[w] # "appending"
      BY <1>1, FreeAssumption DEF IInv, MutexHeld
    <3>3. pc[w] = "sequenced" => RowsOfCall(w) = {}
      BY DEF IInv, FreshIds
    <3> QED BY <3>1, <3>2, <3>3
  <2>2. CASE Target[w] # a
    <3>1. Seen(w)' = Seen(w)
      BY <1>1, <1>5, <2>2, TargetAssumption DEF Seen
    <3> QED BY <3>1 DEF ReplayInv, SeenWhole
  <2> QED BY <2>1, <2>2
<1>10. IsPrefix(loaded[a], loaded'[a])
  <2>1. loaded[a] \in Seq(domain)
    BY DEF ReplayInv, LoadedSoFar
  <2>2. \A n \in 1 .. Len(loaded[a]) : n \in 1 .. m /\ loaded'[a][n] = loaded[a][n]
    <3> SUFFICES ASSUME NEW n \in 1 .. Len(loaded[a])
                 PROVE  n \in 1 .. m /\ loaded'[a][n] = loaded[a][n]
      OBVIOUS
    <3>1. loaded[a][n] \in RowsOf(a, domain) /\ loaded[a][n].seq = n
      BY <2>1 DEF ReplayInv, LoadedSoFar, RowsOf
    <3>2. n \in 1 .. m
      BY <1>2, <3>1 DEF SeqsOf
    <3> QED BY <1>3, <3>1, <3>2 DEF ReplayInv, NumberedIn, RowsOf
  <2>3. Len(loaded[a]) \in Nat /\ Len(loaded[a]) <= m
    BY <2>1, <2>2
  <2> QED BY <1>4, <2>1, <2>2, <2>3 DEF IsPrefix
<1>11. \A b \in Aggregates : IsPrefix(loaded[b], loaded'[b])
  <2>1. \A b \in Aggregates : loaded[b] \in Seq(domain)
    BY DEF ReplayInv, LoadedSoFar
  <2> QED BY <1>5, <1>10, <2>1 DEF IsPrefix
<1>12. NumberedIn(domain)' /\ Owned' /\ Counted'
  BY <1>1, <1>8 DEF ReplayInv, NumberedIn, Owned, Counted
<1> QED BY <1>6, <1>9, <1>11, <1>12 DEF ReplayInv

LEMMA RestartReplay ==
    ASSUME IInv, ReplayInv, Restart
    PROVE  ReplayInv'
BY DEF Restart, ReplayInv, NumberedIn, Owned, LoadedSoFar, Counted, SeenWhole

LEMMA StutterReplay ==
    ASSUME ReplayInv, UNCHANGED vars
    PROVE  ReplayInv'
BY DEF vars, ReplayInv, NumberedIn, Owned, LoadedSoFar, Counted, SeenWhole,
       Seen, RowsOfCall

LEMMA StepReplay == IInv /\ ReplayInv /\ [Next]_vars => ReplayInv'
<1> SUFFICES ASSUME IInv, ReplayInv, [Next]_vars PROVE ReplayInv'
  OBVIOUS
<1>1. ASSUME NEW w \in Writers, AppendStep(w) PROVE ReplayInv'
  <2>1. CASE InsertRow(w)
    BY <2>1, InsertRowReplay
  <2>2. CASE InsertRefused(w)
    BY <2>2, ReturnReplay DEF InsertRefused, InLoop, Results
  <2>3. CASE InsertFault(w)
    BY <2>3, ReturnReplay DEF InsertFault, InLoop, Results
  <2>4. CASE AppendDone(w)
    BY <2>4, ReturnReplay DEF AppendDone, Results
  <2> QED BY <1>1, <2>1, <2>2, <2>3, <2>4 DEF AppendStep
<1> QED BY <1>1, NewCallReplay, LockAppendReplay, LoadReplay, RestartReplay,
           StutterReplay DEF Next

LEMMA ReplayInvariant == Spec => []ReplayInv
BY Invariant, InitReplay, StepReplay, PTL DEF Spec

-----------------------------------------------------------------------------
\* The results.

\* LoadEvents never returns part of a batch whose Append returns nil, for any
\* number of writers, batch sizes, retries, faults and crashes.
THEOREM WholeBatches == Spec => []ReadersSeeWholeBatches
<1>1. ReplayInv => ReadersSeeWholeBatches
  <2> SUFFICES ASSUME ReplayInv, NEW w \in Writers, pc[w] = "ok"
               PROVE  Cardinality(Seen(w)) \in {0, BatchSize[w]}
    BY DEF ReadersSeeWholeBatches, Seen
  <2> QED BY FS_EmptySet DEF ReplayInv, SeenWhole, Counted
<1> QED BY ReplayInvariant, <1>1, PTL

\* A later LoadEvents of an aggregate extends an earlier one at the end.
THEOREM LaterExtends == Spec => ReplayExtends
<1>1. IInv /\ ReplayInv /\ [Next]_vars =>
        [\A a \in Aggregates : IsPrefix(loaded[a], loaded'[a])]_vars
  <2> SUFFICES ASSUME IInv, ReplayInv, Next
               PROVE  \A a \in Aggregates : IsPrefix(loaded[a], loaded'[a])
    OBVIOUS
  <2>1. \A a \in Aggregates : loaded[a] \in Seq(domain)
    BY DEF ReplayInv, LoadedSoFar
  <2>2. CASE UNCHANGED loaded
    BY <2>1, <2>2 DEF IsPrefix
  <2>3. CASE \E a \in Aggregates : Load(a)
    BY <2>3, LoadReplay
  <2> QED BY <2>2, <2>3 DEF Next, Sequence, Retry, LockAppend, AppendStep,
             InsertRow, InsertRefused, InsertFault, AppendDone, Return, Restart
<1> QED BY Invariant, ReplayInvariant, <1>1, PTL DEF Spec, ReplayExtends

=============================================================================

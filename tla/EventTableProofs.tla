-------------------------- MODULE EventTableProofs --------------------------
(***************************************************************************)
(* Facts about the domain_events table that the proofs of EventStore and   *)
(* of Outbox share: what an INSERT changes, which rows the two uniqueness  *)
(* constraints admit and what NextSequence returns.                        *)
(***************************************************************************)
EXTENDS EventTable, NumberProofs

\* NextSequence is a number as long as the table's numbers are bounded.
LEMMA NextIsNat ==
    ASSUME NEW a, NEW table, \A r \in table : r.seq \in Nat,
           NEW b \in Nat, \A r \in table : r.seq <= b
    PROVE  NextSequence(a, table) \in Nat
<1>1. CASE RowsOf(a, table) = {}
  BY <1>1 DEF NextSequence, MaxSequence
<1>2. CASE RowsOf(a, table) # {}
  <2>1. SeqsOf(a, table) \subseteq Nat /\ \A x \in SeqsOf(a, table) : x <= b
    BY DEF SeqsOf, RowsOf
  <2>2. SeqsOf(a, table) # {}
    BY <1>2 DEF SeqsOf
  <2>3. Max(SeqsOf(a, table)) \in Nat
    BY <2>1, <2>2, MaxOfBounded
  <2> QED BY <1>2, <2>3 DEF NextSequence, MaxSequence
<1> QED BY <1>1, <1>2

\* MAX(sequence) of a contiguous history is its length, and NextSequence is
\* the number after it.
LEMMA NextOfContiguous ==
    ASSUME NEW a, NEW table, NEW m \in Nat, SeqsOf(a, table) = 1 .. m
    PROVE  MaxSequence(a, table) = m /\ NextSequence(a, table) = m + 1
<1>1. CASE m = 0
  <2>1. RowsOf(a, table) = {}
    <3>1. SeqsOf(a, table) = {} BY <1>1
    <3>2. \A r \in RowsOf(a, table) : r.seq \in SeqsOf(a, table) BY DEF SeqsOf
    <3> QED BY <3>1, <3>2
  <2> QED BY <2>1, <1>1 DEF MaxSequence, NextSequence
<1>2. CASE m # 0
  <2>1. RowsOf(a, table) # {}
    <3>1. 1 \in SeqsOf(a, table) BY <1>2
    <3> QED BY <3>1 DEF SeqsOf
  <2>2. Max(1 .. m) = m
    <3>1. m \in 1 .. m /\ \A y \in 1 .. m : m >= y
      BY <1>2
    <3>2. \A x \in 1 .. m : (\A y \in 1 .. m : x >= y) => x = m
      BY <1>2
    <3> QED BY <3>1, <3>2 DEF Max
  <2> QED BY <2>1, <2>2 DEF MaxSequence, NextSequence
<1> QED BY <1>1, <1>2

\* An INSERT adds its number to its own aggregate and to no other.
LEMMA SeqsAfterInsert ==
    ASSUME NEW table, NEW id, NEW a, NEW n, NEW new, new = table \cup {Row(id, a, n)}
    PROVE  /\ SeqsOf(a, new) = SeqsOf(a, table) \cup {n}
           /\ \A b : b # a => SeqsOf(b, new) = SeqsOf(b, table)
<1> DEFINE row == Row(id, a, n)
<1>1. row.agg = a /\ row.seq = n
  BY DEF Row
<1> HIDE DEF row
<1>2. new = table \cup {row}
  BY DEF row
<1>3. SeqsOf(a, new) = SeqsOf(a, table) \cup {n}
  <2>1. RowsOf(a, new) = RowsOf(a, table) \cup {row}
    BY <1>1, <1>2 DEF RowsOf
  <2> QED BY <1>1, <2>1 DEF SeqsOf
<1>4. \A b : b # a => SeqsOf(b, new) = SeqsOf(b, table)
  <2> TAKE b
  <2>1. b # a => RowsOf(b, new) = RowsOf(b, table)
    BY <1>1, <1>2 DEF RowsOf
  <2> QED BY <2>1 DEF SeqsOf
<1> QED BY <1>3, <1>4

\* A row the UNIQUE index admits has a number its aggregate does not use.
LEMMA InsertableIsNew ==
    ASSUME NEW table, NEW id, NEW a, NEW n, Insertable(Row(id, a, n), table)
    PROVE  n \notin SeqsOf(a, table)
BY DEF Insertable, SeqsOf, RowsOf, Row

\* A row with a new id and a new number is admitted.
LEMMA NewIsInsertable ==
    ASSUME NEW table, NEW id, NEW a, NEW n,
           \A r \in table : r.id # id, n \notin SeqsOf(a, table)
    PROVE  Insertable(Row(id, a, n), table)
BY DEF Insertable, SeqsOf, RowsOf, Row

=============================================================================

------------------------- MODULE AggregateKindsProofs -------------------------
(***************************************************************************)
(* What replay computes, for every sequence of events.                     *)
(***************************************************************************)
EXTENDS AggregateKinds, NumberProofs

\* What the recursion of Replay defines.
IsReplay(f, kind, events, m) ==
    f = [n \in 0 .. m |-> IF n = 0 THEN Fresh(NewState(kind))
                          ELSE Apply(kind, f[n - 1], events[n])]

LEMMA ReplayDefined ==
    ASSUME NEW kind, NEW events, Len(events) \in Nat
    PROVE  \E f : IsReplay(f, kind, events, Len(events))
                  /\ Replay(kind, events) = f[Len(events)]
<1> DEFINE S == {m \in Nat : \E f : IsReplay(f, kind, events, m)}
<1>1. 0 \in S
  <2> DEFINE f == [n \in 0 .. 0 |-> Fresh(NewState(kind))]
  <2>1. IsReplay(f, kind, events, 0)
    BY DEF IsReplay
  <2> QED BY <2>1
<1>2. \A m \in Nat : m \in S => m + 1 \in S
  <2> SUFFICES ASSUME NEW m \in Nat, m \in S PROVE m + 1 \in S
    OBVIOUS
  <2>1. PICK g : IsReplay(g, kind, events, m)
    OBVIOUS
  <2> DEFINE f == [n \in 0 .. m + 1 |->
                     IF n = m + 1 THEN Apply(kind, g[m], events[m + 1]) ELSE g[n]]
  <2>2. \A n \in 0 .. m : g[n] = IF n = 0 THEN Fresh(NewState(kind))
                                 ELSE Apply(kind, g[n - 1], events[n])
    BY <2>1 DEF IsReplay
  <2>3. \A n \in 0 .. m + 1 : f[n] = IF n = 0 THEN Fresh(NewState(kind))
                                     ELSE Apply(kind, f[n - 1], events[n])
    BY <2>2
  <2>4. f = [n \in 0 .. m + 1 |-> f[n]]
    OBVIOUS
  <2> HIDE DEF f
  <2>5. IsReplay(f, kind, events, m + 1)
    BY <2>3, <2>4 DEF IsReplay
  <2> QED BY <2>5
<1> HIDE DEF S
<1>3. Len(events) \in S
  BY <1>1, <1>2, Inductive
<1>4. \E f : IsReplay(f, kind, events, Len(events))
  BY <1>3 DEF S
<1> DEFINE g == CHOOSE f : IsReplay(f, kind, events, Len(events))
<1>5. IsReplay(g, kind, events, Len(events))
  BY <1>4
<1>6. Replay(kind, events) = g[Len(events)]
  BY DEF Replay, IsReplay
<1> QED BY <1>5, <1>6

-----------------------------------------------------------------------------
\* Replay.

LEMMA AppliedRecord ==
    ASSUME NEW kind, NEW s, NEW v, NEW p, NEW e, NEW agg,
           agg = [state |-> s, version |-> v, pending |-> p]
    PROVE  Apply(kind, agg, e) =
                [state |-> ApplyState(kind, s, e), version |-> v + 1, pending |-> p]
<1> DEFINE new == ApplyState(kind, s, e)
<1>1. agg.state = s /\ agg.version = v
  OBVIOUS
<1>2. Apply(kind, agg, e) = [agg EXCEPT !.state = new, !.version = v + 1]
  BY <1>1 DEF Apply, IncrementVersion
<1> HIDE DEF new
<1>3. Apply(kind, agg, e) = [state |-> new, version |-> v + 1, pending |-> p]
  BY <1>2
<1> QED BY <1>3 DEF new

LEMMA RaisedRecord ==
    ASSUME NEW s, NEW v, NEW p, NEW e, NEW agg,
           agg = [state |-> s, version |-> v, pending |-> p]
    PROVE  Raise(agg, e) = [state |-> s, version |-> v, pending |-> Append(p, e)]
BY DEF Raise

LEMMA ClearedRecord ==
    ASSUME NEW s, NEW v, NEW p, NEW agg,
           agg = [state |-> s, version |-> v, pending |-> p]
    PROVE  ClearPendingEvents(agg) = [state |-> s, version |-> v, pending |-> << >>]
BY DEF ClearPendingEvents

\* An aggregate that no command has been called on since it was loaded.
IsLoaded(agg, version) ==
    agg = [state |-> agg.state, version |-> version, pending |-> << >>]

LEMMA AppliedIsLoaded ==
    ASSUME NEW kind, NEW agg, NEW version \in Nat, NEW e, IsLoaded(agg, version)
    PROVE  /\ Apply(kind, agg, e) =
                [state |-> ApplyState(kind, agg.state, e),
                 version |-> version + 1, pending |-> << >>]
           /\ IsLoaded(Apply(kind, agg, e), version + 1)
<1>1. Apply(kind, agg, e) = [state |-> ApplyState(kind, agg.state, e),
                             version |-> version + 1, pending |-> << >>]
  BY AppliedRecord DEF IsLoaded
<1> QED BY <1>1 DEF IsLoaded

\* The version of a replayed aggregate counts its events.
LEMMA ReplayIsLoaded ==
    ASSUME NEW kind, NEW events, Len(events) \in Nat
    PROVE  IsLoaded(Replay(kind, events), Len(events))
<1>1. PICK f : /\ IsReplay(f, kind, events, Len(events))
               /\ Replay(kind, events) = f[Len(events)]
  BY ReplayDefined
<1> DEFINE S == {n \in Nat : n <= Len(events) => IsLoaded(f[n], n)}
<1>2. \A n \in 0 .. Len(events) :
        f[n] = IF n = 0 THEN Fresh(NewState(kind))
               ELSE Apply(kind, f[n - 1], events[n])
  BY <1>1 DEF IsReplay
<1>3. 0 \in S
  BY <1>2 DEF IsLoaded, Fresh
<1>4. \A n \in Nat : n \in S => n + 1 \in S
  <2> SUFFICES ASSUME NEW n \in Nat, n \in S, n + 1 <= Len(events)
               PROVE  IsLoaded(f[n + 1], n + 1)
    OBVIOUS
  <2>1. IsLoaded(f[n], n)
    OBVIOUS
  <2>2. f[n + 1] = Apply(kind, f[n], events[n + 1])
    BY <1>2
  <2> QED BY <2>1, <2>2, AppliedIsLoaded
<1> HIDE DEF S
<1>5. Len(events) \in S
  BY <1>3, <1>4, Inductive
<1> QED BY <1>1, <1>5 DEF S

LEMMA ReplayNothing ==
    ASSUME NEW kind, NEW events, Len(events) = 0
    PROVE  Replay(kind, events) = Fresh(NewState(kind))
<1>1. PICK f : /\ IsReplay(f, kind, events, Len(events))
               /\ Replay(kind, events) = f[Len(events)]
  BY ReplayDefined
<1> QED BY <1>1 DEF IsReplay

\* One event more is one Apply more.
LEMMA ReplayStep ==
    ASSUME NEW kind, NEW events, NEW longer, Len(events) \in Nat,
           Len(longer) = Len(events) + 1,
           \A n \in 1 .. Len(events) : longer[n] = events[n]
    PROVE  Replay(kind, longer) =
                Apply(kind, Replay(kind, events), longer[Len(longer)])
<1> DEFINE m == Len(events)
<1>1. PICK f : IsReplay(f, kind, events, m) /\ Replay(kind, events) = f[m]
  BY ReplayDefined
<1>2. PICK g : IsReplay(g, kind, longer, m + 1) /\ Replay(kind, longer) = g[m + 1]
  <2>1. Len(longer) = m + 1 /\ Len(longer) \in Nat
    OBVIOUS
  <2>2. \E g : /\ IsReplay(g, kind, longer, Len(longer))
               /\ Replay(kind, longer) = g[Len(longer)]
    BY <2>1, ReplayDefined
  <2> QED BY <2>1, <2>2
<1> DEFINE S == {n \in Nat : n <= m => f[n] = g[n]}
<1>3. \A n \in 0 .. m : f[n] = IF n = 0 THEN Fresh(NewState(kind))
                               ELSE Apply(kind, f[n - 1], events[n])
  BY <1>1 DEF IsReplay
<1>4. \A n \in 0 .. m + 1 : g[n] = IF n = 0 THEN Fresh(NewState(kind))
                                   ELSE Apply(kind, g[n - 1], longer[n])
  BY <1>2 DEF IsReplay
<1>5. 0 \in S
  BY <1>3, <1>4
<1>6. \A n \in Nat : n \in S => n + 1 \in S
  <2> SUFFICES ASSUME NEW n \in Nat, n \in S PROVE n + 1 \in S
    OBVIOUS
  <2>1. CASE n + 1 <= m
    <3>1. f[n] = g[n] /\ longer[n + 1] = events[n + 1]
      BY <2>1
    <3>2. f[n + 1] = Apply(kind, f[n], events[n + 1])
      BY <1>3, <2>1
    <3>3. g[n + 1] = Apply(kind, g[n], longer[n + 1])
      BY <1>4, <2>1
    <3> QED BY <3>1, <3>2, <3>3
  <2> QED BY <2>1
<1> HIDE DEF S
<1>7. m \in S
  BY <1>5, <1>6, Inductive
<1>8. f[m] = g[m]
  BY <1>7 DEF S
<1>9. g[m + 1] = Apply(kind, g[m], longer[m + 1])
  BY <1>4
<1> QED BY <1>1, <1>2, <1>8, <1>9

-----------------------------------------------------------------------------
\* The loaders.

\* s is a sequence, whatever it is of.
IsSeq(s) == Len(s) \in Nat /\ s = [n \in 1 .. Len(s) |-> s[n]]

LEMMA IsSequence ==
    ASSUME NEW m \in Nat, NEW s, s = [n \in 1 .. m |-> s[n]]
    PROVE  Len(s) = m /\ IsSeq(s) /\ s \in Seq(Range(s))
<1>1. s \in [1 .. m -> Range(s)]
  BY DEF Range
<1>2. s \in Seq(Range(s)) /\ Len(s) = m
  BY <1>1
<1> QED BY <1>2 DEF IsSeq

LEMMA OneMore ==
    ASSUME NEW s, NEW e, IsSeq(s)
    PROVE  /\ IsSeq(Append(s, e)) /\ Len(Append(s, e)) = Len(s) + 1
           /\ \A i \in 1 .. Len(s) : Append(s, e)[i] = s[i]
           /\ Append(s, e)[Len(s) + 1] = e
<1> DEFINE X == Range(s) \cup {e}
           q == Append(s, e)
<1>1. s \in Seq(X) /\ Len(s) \in Nat
  BY IsSequence DEF IsSeq
<1> HIDE DEF X
<1>2. /\ q \in Seq(X \cup {e}) /\ Len(q) = Len(s) + 1
      /\ \A i \in 1 .. Len(s) : q[i] = s[i]
      /\ q[Len(s) + 1] = e
  BY <1>1
<1> HIDE DEF q
<1>3. IsSeq(q)
  BY <1>1, <1>2 DEF IsSeq
<1> QED BY <1>2, <1>3 DEF q

Prefix(rows, n) == [m \in 1 .. n |-> rows[m]]

LEMMA PrefixOf ==
    ASSUME NEW rows, NEW n \in Nat
    PROVE  /\ IsSeq(Prefix(rows, n)) /\ Len(Prefix(rows, n)) = n
           /\ \A m \in 1 .. n : Prefix(rows, n)[m] = rows[m]
<1>1. Prefix(rows, n) = [m \in 1 .. n |-> Prefix(rows, n)[m]]
      /\ \A m \in 1 .. n : Prefix(rows, n)[m] = rows[m]
  BY DEF Prefix
<1> QED BY <1>1, IsSequence

LEMMA PrefixMore ==
    ASSUME NEW rows, NEW k \in Nat
    PROVE  /\ IsSeq(Prefix(rows, k)) /\ Len(Prefix(rows, k)) = k
           /\ IsSeq(Prefix(rows, k + 1)) /\ Len(Prefix(rows, k + 1)) = k + 1
           /\ \A n \in 1 .. k : Prefix(rows, k + 1)[n] = Prefix(rows, k)[n]
           /\ Prefix(rows, k + 1)[k + 1] = rows[k + 1]
<1>1. k + 1 \in Nat /\ k + 1 \in 1 .. k + 1 /\ \A n \in 1 .. k : n \in 1 .. k + 1
  OBVIOUS
<1> QED BY <1>1, PrefixOf

LEMMA WholePrefix ==
    ASSUME NEW rows, IsSeq(rows)
    PROVE  Prefix(rows, Len(rows)) = rows
BY DEF Prefix, IsSeq

EventsOf(kind, rows) == [n \in DOMAIN rows |-> EventOf(kind, rows[n])]

LEMMA EventsOfRows ==
    ASSUME NEW kind, NEW rows, IsSeq(rows)
    PROVE  /\ Len(EventsOf(kind, rows)) = Len(rows)
           /\ \A n \in 1 .. Len(rows) :
                EventsOf(kind, rows)[n] = EventOf(kind, rows[n])
<1> DEFINE events == EventsOf(kind, rows)
<1>1. Len(rows) \in Nat /\ DOMAIN rows = 1 .. Len(rows)
  BY DEF IsSeq
<1>2. events = [n \in 1 .. Len(rows) |-> EventOf(kind, rows[n])]
  BY <1>1 DEF EventsOf
<1> HIDE DEF events
<1>3. events = [n \in 1 .. Len(rows) |-> events[n]]
  BY <1>2
<1>4. Len(events) = Len(rows)
  BY <1>1, <1>3, IsSequence
<1> QED BY <1>2, <1>4 DEF events

\* The loaders return an aggregate whose version is the number of rows.
LEMMA LoadIsReplay ==
    ASSUME NEW kind, NEW rows, IsSeq(rows)
    PROVE  /\ LoadFromEvents(kind, rows) = Replay(kind, EventsOf(kind, rows))
           /\ IsLoaded(LoadFromEvents(kind, rows), Len(rows))
<1> DEFINE agg == Replay(kind, EventsOf(kind, rows))
<1>1. IsLoaded(agg, Len(rows))
  BY EventsOfRows, ReplayIsLoaded DEF IsSeq
<1>2. LoadFromEvents(kind, rows) = [agg EXCEPT !.pending = << >>]
  BY DEF LoadFromEvents, ClearPendingEvents, EventsOf
<1> HIDE DEF agg
<1>3. LoadFromEvents(kind, rows) = agg
  BY <1>1, <1>2 DEF IsLoaded
<1> QED BY <1>1, <1>3 DEF agg

LEMMA LoadNothing ==
    ASSUME NEW kind, NEW rows, IsSeq(rows), Len(rows) = 0
    PROVE  LoadFromEvents(kind, rows) = Fresh(NewState(kind))
BY LoadIsReplay, EventsOfRows, ReplayNothing

\* A row more is an event more.
LEMMA LoadStep ==
    ASSUME NEW kind, NEW rows, NEW longer, IsSeq(rows), IsSeq(longer),
           Len(longer) = Len(rows) + 1,
           \A n \in 1 .. Len(rows) : longer[n] = rows[n]
    PROVE  LET last == EventOf(kind, longer[Len(longer)])
           IN  /\ LoadFromEvents(kind, longer) =
                    Apply(kind, LoadFromEvents(kind, rows), last)
               /\ LoadFromEvents(kind, longer).state =
                    ApplyState(kind, LoadFromEvents(kind, rows).state, last)
<1> DEFINE ev == EventsOf(kind, rows)
           ev1 == EventsOf(kind, longer)
<1>1. /\ Len(ev) = Len(rows) /\ Len(ev1) = Len(rows) + 1 /\ Len(rows) \in Nat
      /\ \A n \in 1 .. Len(rows) : ev[n] = EventOf(kind, rows[n])
      /\ \A n \in 1 .. Len(rows) + 1 : ev1[n] = EventOf(kind, longer[n])
  BY EventsOfRows DEF IsSeq
<1>2. LoadFromEvents(kind, rows) = Replay(kind, ev)
      /\ LoadFromEvents(kind, longer) = Replay(kind, ev1)
      /\ IsLoaded(LoadFromEvents(kind, rows), Len(rows))
  BY LoadIsReplay
<1> HIDE DEF ev, ev1
<1>3. \A n \in 1 .. Len(ev) : ev1[n] = ev[n]
  BY <1>1
<1>4. Replay(kind, ev1) = Apply(kind, Replay(kind, ev), ev1[Len(ev1)])
  BY <1>1, <1>3, ReplayStep
<1>5. LoadFromEvents(kind, longer) =
        Apply(kind, LoadFromEvents(kind, rows), EventOf(kind, longer[Len(longer)]))
  BY <1>1, <1>2, <1>4
<1>6. Apply(kind, LoadFromEvents(kind, rows), EventOf(kind, longer[Len(longer)])).state
        = ApplyState(kind, LoadFromEvents(kind, rows).state,
                     EventOf(kind, longer[Len(longer)]))
  BY <1>1, <1>2, AppliedIsLoaded
<1> QED BY <1>5, <1>6

=============================================================================

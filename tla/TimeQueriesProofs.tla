-------------------------- MODULE TimeQueriesProofs --------------------------
(***************************************************************************)
(* That the texts of two times, each in its own zone, sort like the times, *)
(* wherever the format tells them apart, for every number of decimal       *)
(* places; and what the two time-range queries return therefore, for every *)
(* table.                                                                  *)
(***************************************************************************)
EXTENDS TimeQueries, NumberProofs, FiniteSetTheorems, SequenceTheorems

\* What the recursion of Cut defines.
IsCut(f, t, k) ==
    f = [i \in 0 .. k |-> IF i = 0 THEN t ELSE f[i - 1] \div 10]

LEMMA CutDefined ==
    ASSUME NEW t, NEW k \in Nat
    PROVE  \E f : IsCut(f, t, k) /\ Cut(t, k) = f[k]
<1> DEFINE S == {m \in Nat : \E f : IsCut(f, t, m)}
<1>1. 0 \in S
  <2> DEFINE f == [i \in 0 .. 0 |-> t]
  <2>1. IsCut(f, t, 0)
    BY DEF IsCut
  <2> QED BY <2>1
<1>2. \A m \in Nat : m \in S => m + 1 \in S
  <2> SUFFICES ASSUME NEW m \in Nat, m \in S PROVE m + 1 \in S
    OBVIOUS
  <2>1. PICK g : IsCut(g, t, m)
    OBVIOUS
  <2> DEFINE f == [i \in 0 .. m + 1 |-> IF i = m + 1 THEN g[m] \div 10 ELSE g[i]]
  <2>2. \A i \in 0 .. m : g[i] = IF i = 0 THEN t ELSE g[i - 1] \div 10
    BY <2>1 DEF IsCut
  <2>3. \A i \in 0 .. m + 1 : f[i] = IF i = 0 THEN t ELSE f[i - 1] \div 10
    BY <2>2
  <2>4. f = [i \in 0 .. m + 1 |-> f[i]]
    OBVIOUS
  <2> HIDE DEF f
  <2>5. IsCut(f, t, m + 1)
    BY <2>3, <2>4 DEF IsCut
  <2> QED BY <2>5
<1> HIDE DEF S
<1>3. k \in S
  BY <1>1, <1>2, Inductive
<1>4. \E f : IsCut(f, t, k)
  BY <1>3 DEF S
<1> DEFINE g == CHOOSE f : IsCut(f, t, k)
<1>5. IsCut(g, t, k)
  BY <1>4
<1>6. Cut(t, k) = g[k]
  BY DEF Cut, IsCut
<1> QED BY <1>5, <1>6

LEMMA CutStep ==
    ASSUME NEW t, NEW k \in Nat
    PROVE  Cut(t, 0) = t /\ Cut(t, k + 1) = Cut(t, k) \div 10
<1>1. Cut(t, 0) = t
  <2>1. PICK f : IsCut(f, t, 0) /\ Cut(t, 0) = f[0]
    BY CutDefined
  <2> QED BY <2>1 DEF IsCut
<1>2. Cut(t, k + 1) = Cut(t, k) \div 10
  <2>1. PICK f : IsCut(f, t, k + 1) /\ Cut(t, k + 1) = f[k + 1]
    BY CutDefined
  <2>2. PICK g : IsCut(g, t, k) /\ Cut(t, k) = g[k]
    BY CutDefined
  <2>3. \A i \in 0 .. k + 1 : f[i] = IF i = 0 THEN t ELSE f[i - 1] \div 10
    BY <2>1 DEF IsCut
  <2>4. \A i \in 0 .. k : g[i] = IF i = 0 THEN t ELSE g[i - 1] \div 10
    BY <2>2 DEF IsCut
  <2> DEFINE S == {i \in Nat : i <= k => f[i] = g[i]}
  <2>5. 0 \in S
    BY <2>3, <2>4
  <2>6. \A i \in Nat : i \in S => i + 1 \in S
    <3> SUFFICES ASSUME NEW i \in Nat, i \in S PROVE i + 1 \in S
      OBVIOUS
    <3>1. CASE ~(i + 1 <= k)
      BY <3>1
    <3>2. CASE i + 1 <= k
      <4>1. f[i] = g[i]
        BY <3>2
      <4>2. f[i + 1] = f[(i + 1) - 1] \div 10 /\ g[i + 1] = g[(i + 1) - 1] \div 10
        BY <2>3, <2>4, <3>2
      <4>3. f[i + 1] = g[i + 1]
        BY <4>1, <4>2
      <4> QED BY <4>3
    <3> QED BY <3>1, <3>2
  <2> HIDE DEF S
  <2>7. k \in S
    BY <2>5, <2>6, Inductive
  <2>8. f[k] = g[k]
    BY <2>7 DEF S
  <2>9. f[k + 1] = f[(k + 1) - 1] \div 10
    BY <2>3
  <2> QED BY <2>1, <2>2, <2>8, <2>9
<1> QED BY <1>1, <1>2

LEMMA CutMonotone ==
    ASSUME NEW s \in Nat, NEW t \in Nat, s <= t, NEW k \in Nat
    PROVE  Cut(s, k) \in Nat /\ Cut(t, k) \in Nat /\ Cut(s, k) <= Cut(t, k)
<1> DEFINE S == {i \in Nat : /\ Cut(s, i) \in Nat /\ Cut(t, i) \in Nat
                             /\ Cut(s, i) <= Cut(t, i)}
<1>1. 0 \in S
  BY CutStep
<1>2. \A i \in Nat : i \in S => i + 1 \in S
  <2> SUFFICES ASSUME NEW i \in Nat, i \in S PROVE i + 1 \in S
    OBVIOUS
  <2> DEFINE x == Cut(s, i)
             y == Cut(t, i)
  <2>1. Cut(s, i + 1) = x \div 10 /\ Cut(t, i + 1) = y \div 10
    BY CutStep
  <2>2. x \in Nat /\ y \in Nat /\ x <= y
    OBVIOUS
  <2> HIDE DEF x, y
  <2>3. x \div 10 \in Nat /\ y \div 10 \in Nat /\ x \div 10 <= y \div 10
    BY <2>2
  <2> QED BY <2>1, <2>3
<1> HIDE DEF S
<1>3. k \in S
  BY <1>1, <1>2, Inductive
<1> QED BY <1>3 DEF S

\* The first i places of a reading.
FirstPlaces(t, i) == Cut(t, Places - i)

LEMMA PrefixStep ==
    ASSUME NEW t \in Nat, NEW i \in 1 .. Places
    PROVE  /\ FirstPlaces(t, i) \in Nat /\ FirstPlaces(t, i - 1) \in Nat
           /\ DigitAt(t, i) \in 0 .. 9
           /\ FirstPlaces(t, i) = 10 * FirstPlaces(t, i - 1) + DigitAt(t, i)
<1> DEFINE x == Cut(t, Places - i)
<1>1. Places - i \in Nat /\ (Places - i) + 1 = Places - (i - 1)
  BY PlacesAssumption
<1>2. x \in Nat
  <2>1. t <= t
    OBVIOUS
  <2> QED BY <1>1, <2>1, CutMonotone
<1>3. Cut(t, Places - (i - 1)) = x \div 10
  BY <1>1, CutStep
<1> HIDE DEF x
<1>4. x \div 10 \in Nat /\ x % 10 \in 0 .. 9 /\ x = 10 * (x \div 10) + (x % 10)
  BY <1>2
<1> QED BY <1>2, <1>3, <1>4 DEF FirstPlaces, DigitAt, x

\* The first place at which two readings of one second differ tells which
\* is the earlier one.
LEMMA FirstDifference ==
    ASSUME NEW s \in Nat, NEW t \in Nat, s < t, SecondOf(s) = SecondOf(t)
    PROVE  \E k \in 1 .. Places :
                /\ DigitAt(s, k) < DigitAt(t, k)
                /\ \A j \in 1 .. k - 1 : DigitAt(s, j) = DigitAt(t, j)
<1> DEFINE S == {k \in Nat : k <= Places => FirstPlaces(s, k) = FirstPlaces(t, k)}
<1>1. 0 \in S
  <2>1. Places - 0 = Places
    BY PlacesAssumption
  <2> QED BY <2>1 DEF FirstPlaces, SecondOf
<1>2. Places \notin S
  <2>1. Places - Places = 0
    BY PlacesAssumption
  <2>2. FirstPlaces(s, Places) = s /\ FirstPlaces(t, Places) = t
    BY <2>1, CutStep DEF FirstPlaces
  <2> QED BY <2>2, PlacesAssumption
<1>3. PICK k \in Nat : k \notin S /\ \A j \in Nat : j < k => j \in S
  <2> HIDE DEF S
  <2>1. PICK k \in Nat : k \in Nat \ S /\ \A j \in Nat : j < k => j \notin Nat \ S
    <3>1. Places \in Nat \ S
      BY <1>2, PlacesAssumption
    <3> QED BY <3>1, LeastNumber
  <2> QED BY <2>1
<1>4. k \in 1 .. Places /\ FirstPlaces(s, k) # FirstPlaces(t, k)
  BY <1>1, <1>3, PlacesAssumption
<1>5. \A j \in 0 .. k - 1 : FirstPlaces(s, j) = FirstPlaces(t, j)
  BY <1>3, <1>4, PlacesAssumption
<1> HIDE DEF S
<1>6. \A j \in 1 .. k - 1 : DigitAt(s, j) = DigitAt(t, j)
  BY <1>5 DEF FirstPlaces, DigitAt
<1>7. FirstPlaces(s, k) <= FirstPlaces(t, k)
  BY <1>4, CutMonotone, PlacesAssumption DEF FirstPlaces
<1>8. FirstPlaces(s, k - 1) = FirstPlaces(t, k - 1)
  BY <1>4, <1>5
<1>9. DigitAt(s, k) < DigitAt(t, k)
  <2> DEFINE p == FirstPlaces(s, k)
             q == FirstPlaces(t, k)
             r == FirstPlaces(s, k - 1)
             d == DigitAt(s, k)
             e == DigitAt(t, k)
  <2>1. /\ p \in Nat /\ r \in Nat /\ d \in 0 .. 9 /\ p = 10 * r + d
        /\ q \in Nat /\ e \in 0 .. 9 /\ q = 10 * r + e
    BY <1>4, <1>8, PrefixStep
  <2>2. p <= q /\ p # q
    BY <1>4, <1>7
  <2> HIDE DEF p, q, r, d, e
  <2>3. d < e
    BY <2>1, <2>2
  <2> QED BY <2>3 DEF d, e
<1> QED BY <1>4, <1>6, <1>9

-----------------------------------------------------------------------------
\* The digits that are printed end in one that is not 0.
LEMMA PrintedPlaces ==
    ASSUME NEW t \in Nat
    PROVE  /\ Printed(t) \in 0 .. Places
           /\ \A i \in 1 .. Places : DigitAt(t, i) # 0 => i <= Printed(t)
<1> DEFINE S == {0} \cup {i \in 1 .. Places : DigitAt(t, i) # 0}
<1>1. S \subseteq Nat /\ 0 \in S /\ \A i \in S : i <= Places
  BY PlacesAssumption
<1>2. Printed(t) = Max(S)
  BY DEF Printed
<1>3. Max(S) \in S /\ \A i \in S : i <= Max(S)
  <2> HIDE DEF S
  <2> QED BY <1>1, MaxOfBounded, PlacesAssumption
<1>4. S \subseteq 0 .. Places
  BY <1>1
<1>5. \A i \in 1 .. Places : DigitAt(t, i) # 0 => i \in S
  OBVIOUS
<1> HIDE DEF S
<1> QED BY <1>2, <1>3, <1>4, <1>5

\* The offset of a zone, with a sign that sorts before every digit.
Offset(z) == IF z = 0 THEN << Zulu >>
             ELSE IF z > 0 THEN << Plus, z >> ELSE << Minus, -z >>

LEMMA OffsetShape ==
    ASSUME NEW z \in Int
    PROVE  /\ Offset(z) \in Seq(Int) /\ Len(Offset(z)) \in Nat \ {0}
           /\ z # 0 => Offset(z)[1] < Dot
BY DEF Offset, Plus, Minus, Dot, Zulu

LEMMA TextShape ==
    ASSUME NEW t \in Nat, NEW z \in Int, NEW u, u = Text(t, z)
    PROVE  /\ u \in Seq(Int) /\ Len(u) \in Nat /\ Len(u) >= 2
           /\ u[1] = SecondOf(t) + z
           /\ Printed(t) = 0 => u[2] = Offset(z)[1]
           /\ Printed(t) # 0 =>
                /\ u[2] = Dot
                /\ Len(u) >= Printed(t) + 3
                /\ \A i \in 1 .. Printed(t) : u[i + 2] = Digit(DigitAt(t, i))
                /\ u[Printed(t) + 3] = Offset(z)[1]
<1> DEFINE n == Printed(t)
           a == << SecondOf(t) + z >>
           b == IF n = 0 THEN << >> ELSE << Dot >>
           c == [i \in 1 .. n |-> Digit(DigitAt(t, i))]
           o == Offset(z)
<1>1. n \in Nat /\ n <= Places
  BY PrintedPlaces
<1>2. SecondOf(t) \in Nat
  <2>1. t <= t
    OBVIOUS
  <2> QED BY <2>1, CutMonotone, PlacesAssumption DEF SecondOf
<1>3. a \in Seq(Int) /\ Len(a) = 1 /\ a[1] = SecondOf(t) + z
  BY <1>2
<1>4. b \in Seq(Int) /\ Len(b) = (IF n = 0 THEN 0 ELSE 1) /\ (n # 0 => b[1] = Dot)
  BY DEF Dot
<1>5. c \in Seq(Int) /\ Len(c) = n /\ \A i \in 1 .. n : c[i] = Digit(DigitAt(t, i))
  <2>1. \A i \in 1 .. n : DigitAt(t, i) \in Int
    <3> HIDE DEF n
    <3>1. \A i \in 1 .. n : i \in 1 .. Places
      BY <1>1, PlacesAssumption
    <3>2. \A i \in 1 .. Places : DigitAt(t, i) \in 0 .. 9
      BY PrefixStep
    <3> QED BY <3>1, <3>2
  <2>2. \A i \in 1 .. n : Digit(DigitAt(t, i)) \in Int
    BY <2>1 DEF Digit
  <2> HIDE DEF n
  <2> QED BY <1>1, <2>2
<1>6. o \in Seq(Int) /\ Len(o) \in Nat \ {0}
  BY OffsetShape
<1>7. u = ((a \o b) \o c) \o o
  BY DEF Text, Offset
<1> HIDE DEF n, a, b, c, o
<1> DEFINE ab == a \o b
           abc == ab \o c
<1>8. /\ ab \in Seq(Int) /\ Len(ab) = Len(a) + Len(b)
      /\ \A i \in 1 .. Len(a) + Len(b) :
            ab[i] = IF i <= Len(a) THEN a[i] ELSE b[i - Len(a)]
  BY <1>3, <1>4, ConcatProperties
<1> HIDE DEF ab
<1>9. /\ abc \in Seq(Int) /\ Len(abc) = Len(ab) + Len(c)
      /\ \A i \in 1 .. Len(ab) + Len(c) :
            abc[i] = IF i <= Len(ab) THEN ab[i] ELSE c[i - Len(ab)]
  BY <1>5, <1>8, ConcatProperties
<1>10. u = abc \o o
  BY <1>7 DEF ab
<1> HIDE DEF abc
<1>11. /\ u \in Seq(Int) /\ Len(u) = Len(abc) + Len(o)
       /\ \A i \in 1 .. Len(abc) + Len(o) :
            u[i] = IF i <= Len(abc) THEN abc[i] ELSE o[i - Len(abc)]
  <2>1. abc \in Seq(Int) /\ o \in Seq(Int)
    BY <1>6, <1>9
  <2>2. /\ abc \o o \in Seq(Int) /\ Len(abc \o o) = Len(abc) + Len(o)
        /\ \A i \in 1 .. Len(abc) + Len(o) :
             (abc \o o)[i] = IF i <= Len(abc) THEN abc[i] ELSE o[i - Len(abc)]
    BY <2>1, ConcatProperties
  <2> QED BY <1>10, <2>2
<1>12. CASE n = 0
  <2>1. Len(ab) = 1 /\ Len(abc) = 1
    BY <1>3, <1>4, <1>5, <1>8, <1>9, <1>12
  <2>2. u[1] = a[1] /\ u[2] = o[1]
    BY <1>3, <1>4, <1>5, <1>6, <1>8, <1>9, <1>11, <1>12, <2>1
  <2>3. Len(u) \in Nat /\ Len(u) >= 2
    BY <1>6, <1>11, <2>1
  <2> QED BY <1>3, <1>11, <1>12, <2>2, <2>3 DEF n, o
<1>13. CASE n # 0
  <2>1. Len(ab) = 2 /\ Len(abc) = n + 2
    BY <1>1, <1>3, <1>4, <1>5, <1>8, <1>9, <1>13
  <2>2. Len(u) \in Nat /\ Len(u) >= n + 3
    BY <1>1, <1>6, <1>11, <2>1
  <2>3. ab[1] = a[1] /\ ab[2] = b[1]
    BY <1>3, <1>4, <1>8, <1>13
  <2>4. abc[1] = ab[1] /\ abc[2] = ab[2] /\ \A i \in 1 .. n : abc[i + 2] = c[i]
    BY <1>1, <1>5, <1>9, <2>1
  <2>5. \A i \in 1 .. n + 2 : u[i] = abc[i]
    BY <1>1, <1>6, <1>11, <2>1
  <2>6. u[n + 3] = o[1]
    BY <1>1, <1>6, <1>11, <2>1
  <2>7. u[1] = a[1] /\ u[2] = b[1] /\ \A i \in 1 .. n : u[i + 2] = c[i]
    BY <1>1, <2>3, <2>4, <2>5
  <2>8. u[1] = SecondOf(t) + z /\ u[2] = Dot /\ u[n + 3] = o[1]
    BY <1>3, <1>4, <1>13, <2>6, <2>7
  <2>9. \A i \in 1 .. n : u[i + 2] = Digit(DigitAt(t, i))
    BY <1>5, <2>7
  <2>10. Len(u) >= 2
    BY <1>1, <2>2
  <2> QED BY <1>11, <1>13, <2>2, <2>8, <2>9, <2>10 DEF n, o
<1> QED BY <1>12, <1>13

-----------------------------------------------------------------------------
\* The first byte that differs decides.
LEMMA Decided ==
    ASSUME NEW u \in Seq(Int), NEW v \in Seq(Int), NEW k \in Nat, 1 <= k,
           k <= Len(u), k <= Len(v), u[k] < v[k],
           \A j \in 1 .. Len(u) : j < k => u[j] = v[j]
    PROVE  Before(u, v) /\ ~Before(v, u)
<1>1. Len(u) \in Nat /\ Len(v) \in Nat
  OBVIOUS
<1>2. \A j \in 1 .. Len(u) : u[j] \in Int
  BY ElementOfSeq
<1>3. \A j \in 1 .. Len(v) : v[j] \in Int
  BY ElementOfSeq
<1>4. Before(u, v)
  <2>1. k \in 1 .. Len(u) /\ \A j \in 1 .. k - 1 : j \in 1 .. Len(u) /\ j < k
    BY <1>1
  <2> QED BY <2>1 DEF Before
<1>5. ASSUME NEW i \in 1 .. Len(v), i <= Len(u), \A j \in 1 .. i - 1 : v[j] = u[j],
             v[i] < u[i]
      PROVE  FALSE
  <2>1. CASE i < k
    <3>1. i \in 1 .. Len(u) /\ u[i] = v[i]
      BY <1>1, <1>5, <2>1
    <3> QED BY <1>1, <1>2, <1>3, <1>5, <3>1
  <2>2. CASE i = k
    BY <1>1, <1>2, <1>3, <1>5, <2>2
  <2>3. CASE i > k
    <3>1. k \in 1 .. i - 1
      BY <1>1, <2>3
    <3> QED BY <1>1, <1>2, <1>3, <1>5, <3>1
  <2> QED BY <1>1, <2>1, <2>2, <2>3
<1> QED BY <1>4, <1>5 DEF Before

\* The earlier of two times that the texts tell apart has the text that
\* sorts first.
LEMMA EarlierSortsFirst ==
    ASSUME NEW s \in Nat, NEW zs \in Int, NEW t \in Nat, NEW zt \in Int, s < t,
           Tellable(s, zs, t, zt)
    PROVE  /\ Before(Text(s, zs), Text(t, zt))
           /\ ~Before(Text(t, zt), Text(s, zs))
<1> DEFINE u == Text(s, zs)
           v == Text(t, zt)
<1>1. /\ u \in Seq(Int) /\ Len(u) \in Nat /\ Len(u) >= 2
      /\ u[1] = SecondOf(s) + zs
      /\ Printed(s) = 0 => u[2] = Offset(zs)[1]
      /\ Printed(s) # 0 =>
            /\ u[2] = Dot
            /\ Len(u) >= Printed(s) + 3
            /\ \A i \in 1 .. Printed(s) : u[i + 2] = Digit(DigitAt(s, i))
            /\ u[Printed(s) + 3] = Offset(zs)[1]
  BY TextShape
<1>2. /\ v \in Seq(Int) /\ Len(v) \in Nat /\ Len(v) >= 2
      /\ v[1] = SecondOf(t) + zt
      /\ Printed(t) # 0 =>
            /\ v[2] = Dot
            /\ Len(v) >= Printed(t) + 3
            /\ \A i \in 1 .. Printed(t) : v[i + 2] = Digit(DigitAt(t, i))
  BY TextShape
<1> HIDE DEF u, v
<1>3. /\ SecondOf(s) \in Nat /\ SecondOf(t) \in Nat
      /\ SecondOf(s) <= SecondOf(t)
  <2>1. s <= t
    OBVIOUS
  <2> QED BY <2>1, CutMonotone, PlacesAssumption DEF SecondOf
<1>4. /\ u \in Seq(Int) /\ Len(u) \in Nat /\ Len(u) >= 2
      /\ v \in Seq(Int) /\ Len(v) \in Nat /\ Len(v) >= 2
  BY <1>1, <1>2
<1>5. CASE SecondOf(s) + zs < SecondOf(t) + zt
  <2>1. u[1] < v[1]
    BY <1>1, <1>2, <1>3, <1>5
  <2>2. \A j \in 1 .. Len(u) : ~(j < 1)
    BY <1>4
  <2>3. Before(u, v) /\ ~Before(v, u)
    <3>1. 1 \in Nat /\ 1 <= 1 /\ 1 <= Len(u) /\ 1 <= Len(v)
      BY <1>4
    <3>2. \A j \in 1 .. Len(u) : j < 1 => u[j] = v[j]
      BY <2>2
    <3> QED BY <1>4, <2>1, <3>1, <3>2, Decided
  <2> QED BY <2>3 DEF u, v
<1>6. CASE SecondOf(s) = SecondOf(t) /\ zs = zt /\ zs # 0
  <2>1. Offset(zs)[1] < 2 /\ Offset(zs)[1] \in Int
    <3>1. zs # 0
      BY <1>6
    <3>2. Offset(zs) \in Seq(Int) /\ Len(Offset(zs)) \in Nat \ {0}
      BY OffsetShape
    <3>3. 1 \in 1 .. Len(Offset(zs))
      BY <3>2
    <3> QED BY <3>1, <3>2, <3>3, OffsetShape, ElementOfSeq DEF Dot
  <2>2. PICK k \in 1 .. Places :
            /\ DigitAt(s, k) < DigitAt(t, k)
            /\ \A j \in 1 .. k - 1 : DigitAt(s, j) = DigitAt(t, j)
    BY <1>6, FirstDifference
  <2>3. k \in Nat /\ Places \in Nat /\ 1 <= k /\ k <= Places
    BY PlacesAssumption
  <2>4. \A i \in 1 .. Places : DigitAt(s, i) \in 0 .. 9 /\ DigitAt(t, i) \in 0 .. 9
    BY PrefixStep
  <2>5. Printed(s) \in Nat /\ Printed(t) \in Nat /\ k <= Printed(t)
    <3>1. DigitAt(t, k) # 0
      BY <2>2, <2>4
    <3> QED BY <3>1, PrintedPlaces, PlacesAssumption
  <2>6. Printed(t) <= Places /\ Printed(s) <= Places
    BY PrintedPlaces, PlacesAssumption
  <2>7. /\ v[2] = Dot /\ Len(v) >= k + 3
        /\ \A i \in 1 .. k : v[i + 2] = DigitAt(t, i) + 3
    <3> DEFINE q == Printed(t)
    <3>1. q \in Nat /\ q # 0 /\ k <= q
      BY <2>3, <2>5
    <3>2. /\ v[2] = Dot /\ Len(v) >= q + 3
          /\ \A i \in 1 .. q : v[i + 2] = DigitAt(t, i) + 3
      BY <1>2, <3>1 DEF Digit
    <3> HIDE DEF q
    <3>3. Len(v) >= k + 3 /\ \A i \in 1 .. k : i \in 1 .. q
      BY <1>2, <2>3, <3>1, <3>2
    <3> QED BY <3>2, <3>3
  <2>8. CASE Printed(s) = 0
    <3>1. u[2] < v[2]
      BY <1>1, <2>1, <2>7, <2>8 DEF Dot
    <3>2. \A j \in 1 .. Len(u) : j < 2 => u[j] = v[j]
      <4>1. \A j \in 1 .. Len(u) : j < 2 => j = 1
        BY <1>1
      <4> QED BY <1>1, <1>2, <1>6, <4>1
    <3>3. Before(u, v) /\ ~Before(v, u)
      BY <1>4, <3>1, <3>2, Decided
    <3> QED BY <3>3 DEF u, v
  <2>9. CASE Printed(s) >= k
    <3>1. u[2] = Dot /\ Len(u) >= k + 3
          /\ \A i \in 1 .. k : u[i + 2] = DigitAt(s, i) + 3
      <4> DEFINE q == Printed(s)
      <4>1. q \in Nat /\ q # 0 /\ k <= q
        BY <2>3, <2>5, <2>9
      <4>2. /\ u[2] = Dot /\ Len(u) >= q + 3
            /\ \A i \in 1 .. q : u[i + 2] = DigitAt(s, i) + 3
        BY <1>1, <4>1 DEF Digit
      <4> HIDE DEF q
      <4>3. Len(u) >= k + 3 /\ \A i \in 1 .. k : i \in 1 .. q
        BY <1>1, <2>3, <4>1, <4>2
      <4> QED BY <4>2, <4>3
    <3>2. u[k + 2] < v[k + 2]
      <4>1. k \in 1 .. k /\ DigitAt(s, k) \in Int /\ DigitAt(t, k) \in Int
        BY <2>3, <2>4
      <4>2. u[k + 2] = DigitAt(s, k) + 3 /\ v[k + 2] = DigitAt(t, k) + 3
        BY <2>7, <3>1, <4>1
      <4> QED BY <2>2, <4>1, <4>2
    <3>3. ASSUME NEW j \in 1 .. Len(u), j < k + 2 PROVE u[j] = v[j]
      <4>1. CASE j = 1
        BY <1>1, <1>2, <1>6, <4>1
      <4>2. CASE j = 2
        BY <2>7, <3>1, <4>2
      <4>3. CASE j > 2
        <5>1. j - 2 \in 1 .. k - 1 /\ j - 2 \in 1 .. k /\ (j - 2) + 2 = j
          BY <1>4, <2>3, <3>3, <4>3
        <5>2. u[(j - 2) + 2] = DigitAt(s, j - 2) + 3 /\ v[(j - 2) + 2] = DigitAt(t, j - 2) + 3
          BY <2>7, <3>1, <5>1
        <5> QED BY <2>2, <5>1, <5>2
      <4> QED BY <1>4, <4>1, <4>2, <4>3
    <3>4. k + 2 \in Nat /\ 1 <= k + 2 /\ k + 2 <= Len(u) /\ k + 2 <= Len(v)
      <4>1. Len(u) >= k + 3 /\ Len(v) >= k + 3
        BY <2>7, <3>1
      <4>2. Len(u) \in Nat /\ Len(v) \in Nat
        BY <1>4
      <4> QED BY <2>3, <4>1, <4>2
    <3>5. Before(u, v) /\ ~Before(v, u)
      BY <1>4, <3>2, <3>3, <3>4, Decided
    <3> QED BY <3>5 DEF u, v
  <2>10. CASE Printed(s) # 0 /\ Printed(s) < k
    <3> DEFINE p == Printed(s)
    <3>1. p \in Nat /\ 1 <= p /\ p < k /\ p + 1 \in 1 .. k
      BY <2>3, <2>5, <2>10
    <3>2. /\ u[2] = Dot /\ Len(u) >= p + 3
          /\ \A i \in 1 .. p : u[i + 2] = DigitAt(s, i) + 3
          /\ u[p + 3] = Offset(zs)[1]
      BY <1>1, <2>10 DEF Digit
    <3> HIDE DEF p
    <3>3. v[p + 3] = DigitAt(t, p + 1) + 3 /\ DigitAt(t, p + 1) \in 0 .. 9
      <4>1. v[(p + 1) + 2] = DigitAt(t, p + 1) + 3
        BY <2>7, <3>1
      <4>2. (p + 1) + 2 = p + 3 /\ p + 1 \in 1 .. Places
        BY <2>3, <3>1
      <4> QED BY <2>4, <4>1, <4>2
    <3>4. u[p + 3] < v[p + 3]
      BY <2>1, <3>2, <3>3
    <3>5. ASSUME NEW j \in 1 .. Len(u), j < p + 3 PROVE u[j] = v[j]
      <4>1. CASE j = 1
        BY <1>1, <1>2, <1>6, <4>1
      <4>2. CASE j = 2
        BY <2>7, <3>2, <4>2
      <4>3. CASE j > 2
        <5>1. j - 2 \in 1 .. k - 1 /\ j - 2 \in 1 .. k /\ j - 2 \in 1 .. p /\ (j - 2) + 2 = j
          BY <1>4, <2>3, <3>1, <3>5, <4>3
        <5>2. u[(j - 2) + 2] = DigitAt(s, j - 2) + 3 /\ v[(j - 2) + 2] = DigitAt(t, j - 2) + 3
          BY <2>7, <3>2, <5>1
        <5> QED BY <2>2, <5>1, <5>2
      <4> QED BY <1>4, <4>1, <4>2, <4>3
    <3>6. p + 3 \in Nat /\ 1 <= p + 3 /\ p + 3 <= Len(u) /\ p + 3 <= Len(v)
      BY <1>4, <2>3, <2>7, <3>1, <3>2
    <3>7. Before(u, v) /\ ~Before(v, u)
      BY <1>4, <3>4, <3>5, <3>6, Decided
    <3> QED BY <3>7 DEF u, v
  <2> QED BY <2>3, <2>5, <2>8, <2>9, <2>10
<1>7. \/ SecondOf(s) + zs < SecondOf(t) + zt
      \/ SecondOf(s) = SecondOf(t) /\ zs = zt /\ zs # 0
  <2>1. CASE zs = zt /\ zs # 0
    BY <1>3, <2>1
  <2>2. CASE Gap(SecondOf(s), SecondOf(t)) > Gap(zs, zt)
    BY <1>3, <2>2 DEF Gap
  <2> QED BY <2>1, <2>2 DEF Tellable
<1> QED BY <1>5, <1>6, <1>7

LEMMA TellableSymmetric ==
    ASSUME NEW s, NEW zs \in Int, NEW t, NEW zt \in Int,
           SecondOf(s) \in Nat, SecondOf(t) \in Nat, Tellable(s, zs, t, zt)
    PROVE  Tellable(t, zt, s, zs)
<1>1. \A m, n \in Int : Gap(m, n) = Gap(n, m)
  BY DEF Gap
<1> QED BY <1>1 DEF Tellable

\* So the texts decide as the clock does.
LEMMA TextsTell ==
    ASSUME NEW s \in Nat, NEW zs \in Int, NEW t \in Nat, NEW zt \in Int,
           Tellable(s, zs, t, zt)
    PROVE  Before(Text(s, zs), Text(t, zt)) <=> s < t
<1>1. CASE s < t
  BY <1>1, EarlierSortsFirst
<1>2. SecondOf(s) \in Nat /\ SecondOf(t) \in Nat
  <2>1. s <= s /\ t <= t
    OBVIOUS
  <2> QED BY <2>1, CutMonotone, PlacesAssumption DEF SecondOf
<1>3. CASE s > t
  <2>1. Tellable(t, zt, s, zs)
    BY <1>2, TellableSymmetric
  <2> QED BY <1>3, <2>1, EarlierSortsFirst
<1>4. CASE s = t
  <2>1. Gap(SecondOf(s), SecondOf(t)) = 0 /\ Gap(zs, zt) \in Nat
    BY <1>2, <1>4 DEF Gap
  <2>2. zs = zt
    BY <2>1 DEF Tellable
  <2> DEFINE u == Text(s, zs)
  <2>3. u \in Seq(Int)
    BY TextShape
  <2>4. \A i \in 1 .. Len(u) : u[i] \in Int
    <3> HIDE DEF u
    <3> QED BY <2>3, ElementOfSeq
  <2>5. ~Before(u, u)
    <3> HIDE DEF u
    <3> QED BY <2>4 DEF Before
  <2>6. ~Before(Text(s, zs), Text(t, zt))
    BY <1>4, <2>2, <2>5 DEF u
  <2> QED BY <1>4, <2>6
<1> QED BY <1>1, <1>3, <1>4

-----------------------------------------------------------------------------
\* The rows that the last query asked for, by the texts.
Selected ==
    {r \in Range(table) :
        \/ asked.kind = "since" /\ Before(Text(asked.since, asked.zone), RowText(r))
        \/ /\ asked.kind = "hash"
           /\ r.email_hash = asked.hash /\ asked.hash # NoHash
           /\ ~Before(RowText(r), Text(asked.since, asked.zone))}

Rows == [id : Nat, occurred : Readings, zone : Zones,
         email_hash : EmailHashes \cup {NoHash}]

TableInv == table \in Seq(Rows)

\* The answer lists the rows selected, in the order of their texts.
AnswerInv ==
    /\ asked.kind \in {"none", "since", "hash"}
    /\ asked.kind = "none" => answer = << >>
    /\ asked.kind # "none" =>
        /\ asked.since \in Readings /\ asked.zone \in Zones
        /\ Range(answer) = Selected
        /\ \A i, j \in DOMAIN answer :
            i < j => ~Before(RowText(answer[j]), RowText(answer[i]))
    /\ \E n \in Nat : DOMAIN answer = 1 .. n

QueryInv == TableInv /\ AnswerInv

\* The rows of a table are finitely many.
LEMMA RowsFinite ==
    ASSUME TableInv
    PROVE  IsFiniteSet(Range(table))
<1>1. PICK n \in Nat : DOMAIN table = 1 .. n
  BY LenProperties DEF TableInv
<1>2. IsFiniteSet(1 .. n)
  BY FS_Interval
<1> DEFINE f == [i \in 1 .. n |-> table[i]]
<1>3. f \in Surjection(1 .. n, Range(table))
  BY <1>1 DEF Range, Surjection
<1> QED BY <1>2, <1>3, FS_Surjection

LEMMA RowsTimed ==
    ASSUME TableInv, NEW r \in Range(table)
    PROVE  r.occurred \in Nat /\ r.zone \in Int
<1>1. PICK i \in 1 .. Len(table) : r = table[i]
  BY LenProperties DEF TableInv, Range
<1>2. r \in Rows
  BY <1>1, ElementOfSeq DEF TableInv
<1> QED BY <1>2, ReadingAssumption DEF Rows

LEMMA ListingShape ==
    ASSUME TableInv, NEW rows, rows \subseteq Range(table),
           NEW list \in OrderedByText(rows)
    PROVE  /\ \E n \in Nat : DOMAIN list = 1 .. n
           /\ Range(list) = rows
           /\ \A i, j \in DOMAIN list :
                i < j => ~Before(RowText(list[j]), RowText(list[i]))
<1>1. Cardinality(rows) \in Nat
  BY RowsFinite, FS_Subset, FS_CardinalityType
<1>2. list \in [1 .. Cardinality(rows) -> rows]
  BY DEF OrderedByText, Listings
<1> QED BY <1>1, <1>2 DEF OrderedByText, Listings

LEMMA InitQueryInv == Init => QueryInv
<1> SUFFICES ASSUME Init PROVE QueryInv
  OBVIOUS
<1>1. table = << >> /\ asked.kind = "none" /\ answer = << >>
  BY DEF Init, NoQuery
<1>2. DOMAIN answer = 1 .. 0
  BY <1>1
<1> QED BY <1>1, <1>2, EmptySeq DEF QueryInv, TableInv, AnswerInv

LEMMA RecordKeeps ==
    ASSUME QueryInv, NEW t \in Readings, NEW z \in Zones,
           NEW hash \in EmailHashes \cup {NoHash}, Record(t, z, hash)
    PROVE  QueryInv'
<1>1. TableInv'
  <2> DEFINE row == [id |-> Len(table) + 1, occurred |-> t, zone |-> z,
                     email_hash |-> hash]
  <2>1. table \in Seq(Rows) /\ Len(table) \in Nat
    BY LenProperties DEF QueryInv, TableInv
  <2>2. row \in Rows
    BY <2>1 DEF Rows
  <2>3. table' = Append(table, row)
    BY DEF Record
  <2> HIDE DEF row
  <2>4. table' \in Seq(Rows)
    BY <2>1, <2>2, <2>3
  <2> QED BY <2>4 DEF TableInv
<1>2. AnswerInv'
  <2>1. asked'.kind = "none" /\ answer' = << >> /\ DOMAIN answer' = 1 .. 0
    BY DEF Record, NoQuery
  <2> QED BY <2>1 DEF AnswerInv
<1> QED BY <1>1, <1>2 DEF QueryInv

LEMMA SinceKeeps ==
    ASSUME QueryInv, NEW since \in Readings, NEW z \in Zones,
           LoadEventsSince(since, z)
    PROVE  QueryInv'
<1> DEFINE rows == {r \in Range(table) : Before(Text(since, z), RowText(r))}
<1>1. TableInv /\ TableInv'
  BY DEF QueryInv, TableInv, LoadEventsSince
<1>2. /\ asked'.kind = "since" /\ asked'.since = since /\ asked'.zone = z
      /\ table' = table /\ answer' \in OrderedByText(rows)
  BY DEF LoadEventsSince
<1>3. Selected' = rows
  BY <1>2 DEF Selected, RowText
<1>4. rows \subseteq Range(table)
  OBVIOUS
<1> HIDE DEF rows
<1>5. /\ \E n \in Nat : DOMAIN answer' = 1 .. n
      /\ Range(answer') = rows
      /\ \A i, j \in DOMAIN answer' :
            i < j => ~Before(RowText(answer'[j]), RowText(answer'[i]))
  BY <1>1, <1>2, <1>4, ListingShape
<1>6. AnswerInv'
  BY <1>2, <1>3, <1>5 DEF AnswerInv, RowText
<1> QED BY <1>1, <1>6 DEF QueryInv

LEMMA HashKeeps ==
    ASSUME QueryInv, NEW since \in Readings, NEW z \in Zones,
           NEW hash \in EmailHashes \cup {NoHash},
           LoadEventsByEmailHash(hash, since, z)
    PROVE  QueryInv'
<1> DEFINE rows == {r \in Range(table) :
                r.email_hash = hash /\ ~Before(RowText(r), Text(since, z))}
<1>1. TableInv /\ TableInv'
  BY DEF QueryInv, TableInv, LoadEventsByEmailHash
<1>2. /\ asked'.kind = "hash" /\ asked'.since = since /\ asked'.zone = z
      /\ asked'.hash = hash /\ table' = table
  BY DEF LoadEventsByEmailHash
<1>3. CASE hash = NoHash
  <2>1. answer' = << >> /\ DOMAIN answer' = 1 .. 0
    BY <1>3 DEF LoadEventsByEmailHash
  <2>2. Selected' = {}
    BY <1>2, <1>3 DEF Selected
  <2>3. Range(answer') = {}
    BY <2>1 DEF Range
  <2>4. AnswerInv'
    BY <1>2, <2>1, <2>2, <2>3 DEF AnswerInv
  <2> QED BY <1>1, <2>4 DEF QueryInv
<1>4. CASE hash # NoHash
  <2>1. answer' \in OrderedByText(rows)
    BY <1>4 DEF LoadEventsByEmailHash
  <2>2. Selected' = rows
    BY <1>2, <1>4 DEF Selected, RowText
  <2>3. rows \subseteq Range(table)
    OBVIOUS
  <2> HIDE DEF rows
  <2>4. /\ \E n \in Nat : DOMAIN answer' = 1 .. n
        /\ Range(answer') = rows
        /\ \A i, j \in DOMAIN answer' :
              i < j => ~Before(RowText(answer'[j]), RowText(answer'[i]))
    BY <1>1, <2>1, <2>3, ListingShape
  <2>5. AnswerInv'
    BY <1>2, <2>2, <2>4 DEF AnswerInv, RowText
  <2> QED BY <1>1, <2>5 DEF QueryInv
<1> QED BY <1>3, <1>4

LEMMA QueryInvKept == QueryInv /\ [Next]_vars => QueryInv'
<1> SUFFICES ASSUME QueryInv, [Next]_vars PROVE QueryInv'
  OBVIOUS
<1>1. ASSUME NEW t \in Readings, NEW z \in Zones,
             NEW hash \in EmailHashes \cup {NoHash}, Record(t, z, hash)
      PROVE  QueryInv'
  BY <1>1, RecordKeeps
<1>2. ASSUME NEW t \in Readings, NEW z \in Zones, LoadEventsSince(t, z)
      PROVE  QueryInv'
  BY <1>2, SinceKeeps
<1>3. ASSUME NEW t \in Readings, NEW z \in Zones,
             NEW hash \in EmailHashes \cup {NoHash},
             LoadEventsByEmailHash(hash, t, z)
      PROVE  QueryInv'
  BY <1>3, HashKeeps
<1>4. CASE UNCHANGED vars
  BY <1>4 DEF vars, QueryInv, TableInv, AnswerInv, Selected, RowText
<1> QED BY <1>1, <1>2, <1>3, <1>4 DEF Next

\* The answer of LoadEventsSince or LoadEventsByEmailHash lists every row
\* that its WHERE clause selects and no other, in the order of their texts.
THEOREM QueriesListSelected == Spec => []QueryInv
<1> QED BY InitQueryInv, QueryInvKept, PTL DEF Spec

-----------------------------------------------------------------------------
\* What the texts select is what the caller asked for.
LEMMA ExactAnswer == QueryInv => RangeExact
<1> SUFFICES ASSUME QueryInv, NEW r \in Range(table), asked.kind # "none",
                    Tellable(r.occurred, r.zone, asked.since, asked.zone)
             PROVE  r \in Range(answer) <=> Wanted(r)
  BY DEF RangeExact
<1>1. r.occurred \in Nat /\ r.zone \in Int
  BY RowsTimed DEF QueryInv
<1>2. /\ asked.since \in Nat /\ asked.zone \in Int
      /\ asked.kind \in {"since", "hash"} /\ Range(answer) = Selected
  BY ReadingAssumption DEF QueryInv, AnswerInv
<1>3. SecondOf(r.occurred) \in Nat /\ SecondOf(asked.since) \in Nat
  <2>1. r.occurred <= r.occurred /\ asked.since <= asked.since
    BY <1>1, <1>2
  <2> QED BY <1>1, <1>2, <2>1, CutMonotone, PlacesAssumption DEF SecondOf
<1>4. Before(Text(asked.since, asked.zone), RowText(r)) <=> asked.since < r.occurred
  <2>1. Tellable(asked.since, asked.zone, r.occurred, r.zone)
    BY <1>1, <1>2, <1>3, TellableSymmetric
  <2> QED BY <1>1, <1>2, <2>1, TextsTell DEF RowText
<1>5. Before(RowText(r), Text(asked.since, asked.zone)) <=> r.occurred < asked.since
  BY <1>1, <1>2, TextsTell DEF RowText
<1>6. CASE asked.kind = "since"
  BY <1>1, <1>2, <1>4, <1>6 DEF Selected, Wanted
<1>7. CASE asked.kind = "hash"
  BY <1>1, <1>2, <1>5, <1>7 DEF Selected, Wanted
<1> QED BY <1>2, <1>6, <1>7

\* LoadEventsSince and LoadEventsByEmailHash return the events of the range
\* they are asked for, wherever the format tells the times apart: always
\* within one zone other than UTC, across seconds within UTC, and between two
\* zones when the times are further apart than the zones.
THEOREM QueriesReturnTheRange == Spec => []RangeExact
<1> QED BY QueriesListSelected, ExactAnswer, PTL

LEMMA OrderedAnswer == QueryInv => Chronological
<1> SUFFICES ASSUME QueryInv, NEW i \in 1 .. Len(answer), NEW j \in 1 .. Len(answer),
                    i < j, Tellable(answer[i].occurred, answer[i].zone,
                                    answer[j].occurred, answer[j].zone)
             PROVE  answer[i].occurred <= answer[j].occurred
  BY DEF Chronological
<1>1. PICK n \in Nat : DOMAIN answer = 1 .. n
  BY DEF QueryInv, AnswerInv
<1>2. Len(answer) = n
  BY <1>1
<1>3. answer # << >>
  BY <1>1, <1>2
<1>4. /\ Range(answer) \subseteq Range(table)
      /\ ~Before(RowText(answer[j]), RowText(answer[i]))
  BY <1>1, <1>2, <1>3 DEF QueryInv, AnswerInv, Selected
<1>5. \A r \in Range(table) : r.occurred \in Nat /\ r.zone \in Int
  BY RowsTimed DEF QueryInv
<1> DEFINE q == answer[i]
           r == answer[j]
<1>6. q.occurred \in Nat /\ q.zone \in Int /\ r.occurred \in Nat /\ r.zone \in Int
  BY <1>1, <1>2, <1>4, <1>5 DEF Range
<1>7. Tellable(q.occurred, q.zone, r.occurred, r.zone) /\ ~Before(RowText(r), RowText(q))
  BY <1>4
<1> HIDE DEF q, r
<1>8. SecondOf(q.occurred) \in Nat /\ SecondOf(r.occurred) \in Nat
  <2>1. q.occurred <= q.occurred /\ r.occurred <= r.occurred
    BY <1>6
  <2> QED BY <1>6, <2>1, CutMonotone, PlacesAssumption DEF SecondOf
<1>9. ~(r.occurred < q.occurred)
  <2>1. Tellable(r.occurred, r.zone, q.occurred, q.zone)
    BY <1>6, <1>7, <1>8, TellableSymmetric
  <2> QED BY <1>6, <1>7, <2>1, TextsTell DEF RowText
<1> QED BY <1>6, <1>9 DEF q, r

\* They return them in the order in which they occurred, wherever the
\* format tells the times apart.
THEOREM QueriesKeepTheOrder == Spec => []Chronological
<1> QED BY QueriesListSelected, OrderedAnswer, PTL

=============================================================================

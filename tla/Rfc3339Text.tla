----------------------------- MODULE Rfc3339Text -----------------------------
(***************************************************************************)
(* How time.RFC3339Nano texts sort.  inserted_at and occurred_at are TEXT  *)
(* columns, so SQLite's ORDER BY, > and >= compare these texts byte by     *)
(* byte.  Date and time of day have a fixed width and sort like the second *)
(* they name; the fraction of a second is printed WITHOUT its trailing     *)
(* zeros, and without the dot when nothing is left; then comes "Z" for     *)
(* UTC, or the sign and the fixed-width offset of another zone.            *)
(***************************************************************************)
EXTENDS Integers, Sequences, FiniteSetsExt

CONSTANT Places  \* decimal places of a clock reading (9 in the code)

ASSUME PlacesAssumption == Places \in Nat

\* Codes that compare like the bytes "+" < "-" < "." < "0".."9" < "Z".
Plus == 0
Minus == 1
Dot == 2
Digit(d) == d + 3
Zulu == 13

\* A clock reading counts units of 10^-Places seconds; its first places:
\* what is left without the last k.
Cut(t, k) ==
    LET rest[i \in 0 .. k] == IF i = 0 THEN t ELSE rest[i - 1] \div 10
    IN  rest[k]

SecondOf(t) == Cut(t, Places)

DigitAt(t, i) == Cut(t, Places - i) % 10

\* Places printed: up to the last digit that is not 0.
Printed(t) == Max({0} \cup {i \in 1 .. Places : DigitAt(t, i) # 0})

\* The text of reading t in the zone that is zone seconds ahead of UTC.
Text(t, zone) ==
    << SecondOf(t) + zone >>
    \o (IF Printed(t) = 0 THEN << >> ELSE << Dot >>)
    \o [i \in 1 .. Printed(t) |-> Digit(DigitAt(t, i))]
    \o (IF zone = 0 THEN << Zulu >>
        ELSE IF zone > 0 THEN << Plus, zone >> ELSE << Minus, -zone >>)

\* Byte order; neither text is a proper prefix of the other.
Before(u, v) ==
    \E i \in 1 .. Len(u) :
        /\ i <= Len(v)
        /\ \A j \in 1 .. i - 1 : u[j] = v[j]
        /\ u[i] < v[i]

\* Position of t when readings in UTC are sorted as texts.
TextRank(t, readings) ==
    Cardinality({u \in readings : Before(Text(u, 0), Text(t, 0))})

=============================================================================

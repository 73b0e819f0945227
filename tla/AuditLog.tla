------------------------------ MODULE AuditLog ------------------------------
(***************************************************************************)
(* What a use case is promised about the audit log, without tables, locks, *)
(* pumps or crashes.  An event is given a slot, its place in the history   *)
(* of its aggregate, and the slots of two events may be the same.  Events  *)
(* that were accepted are dealt with in the order of acceptance: the event *)
(* is recorded, once, or it is dismissed because another recorded event    *)
(* has its slot.  An event may also be published, that is recorded at once *)
(* by the direct path.  Outbox implements this specification when nothing  *)
(* but a taken slot makes an INSERT into domain_events fail (see Outbox    *)
(* and OutboxProofs).                                                      *)
(***************************************************************************)
EXTENDS Integers

CONSTANTS
    Events,
    Slots

VARIABLES
    count,     \* number of events accepted so far
    place,     \* [Events -> position in the order of acceptance, 0 if not accepted]
    slot,      \* [Events -> Slots]
    recorded,  \* events in the audit log
    dismissed  \* accepted events that will never be there

vars == <<count, place, slot, recorded, dismissed>>

Init ==
    /\ count = 0
    /\ place = [e \in Events |-> 0]
    /\ slot \in [Events -> Slots]
    /\ recorded = {}
    /\ dismissed = {}

\* Some recorded event has the slot of e.
Taken(e) == \E f \in recorded : slot[f] = slot[e]

\* An event that is not accepted yet gets a slot, perhaps a taken one.
Number(e) ==
    /\ place[e] = 0
    /\ e \notin recorded
    /\ slot' \in [Events -> Slots]
    /\ \A f \in Events \ {e} : slot'[f] = slot[f]
    /\ UNCHANGED <<count, place, recorded, dismissed>>

Accept(e) ==
    /\ place[e] = 0
    /\ e \notin recorded
    /\ count' = count + 1
    /\ place' = [place EXCEPT ![e] = count + 1]
    /\ UNCHANGED <<slot, recorded, dismissed>>

Waiting == {e \in Events : place[e] > 0} \ (recorded \cup dismissed)

\* e was accepted longest ago of all that wait.
IsNext(e) == e \in Waiting /\ \A f \in Waiting : place[e] <= place[f]

Record(e) ==
    /\ IsNext(e)
    /\ ~Taken(e)
    /\ recorded' = recorded \cup {e}
    /\ UNCHANGED <<count, place, slot, dismissed>>

Dismiss(e) ==
    /\ IsNext(e)
    /\ Taken(e)
    /\ dismissed' = dismissed \cup {e}
    /\ UNCHANGED <<count, place, slot, recorded>>

Publish(e) ==
    /\ place[e] = 0
    /\ ~Taken(e)
    /\ recorded' = recorded \cup {e}
    /\ UNCHANGED <<count, place, slot, dismissed>>

Settle == \E e \in Events : Record(e) \/ Dismiss(e)

Next == Settle \/ \E e \in Events : Number(e) \/ Accept(e) \/ Publish(e)

SafetySpec == Init /\ [][Next]_vars

Spec == SafetySpec /\ WF_vars(Settle)

=============================================================================

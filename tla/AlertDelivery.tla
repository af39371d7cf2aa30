---------------------------- MODULE AlertDelivery ----------------------------
(***************************************************************************)
(* What the path from the data plane to the backends' databases promises:  *)
(* a backend writes an alert only after it was raised, at most once, and   *)
(* in the order of raising.  Alerts may be missing.                        *)
(***************************************************************************)
EXTENDS Naturals, Sequences

CONSTANTS
    Backend,    \* Flask processes, each with its database
    MaxAlerts   \* bound: alerts raised

VARIABLES
    raised,     \* alerts raised so far; an alert is its number
    stored      \* [Backend -> sequence of alerts]: the rows of its alerts table

Newest(b) == IF stored[b] = <<>> THEN 0 ELSE stored[b][Len(stored[b])]

Init ==
    /\ raised = 0
    /\ stored = [b \in Backend |-> <<>>]

Raise ==
    /\ raised < MaxAlerts
    /\ raised' = raised + 1
    /\ UNCHANGED stored

Store(b) ==
    /\ \E a \in (Newest(b) + 1)..raised : stored' = [stored EXCEPT ![b] = Append(@, a)]
    /\ UNCHANGED raised

Next == Raise \/ \E b \in Backend : Store(b)

Spec == Init /\ [][Next]_<<raised, stored>>
=============================================================================

-------------------------------- MODULE DayLedger --------------------------------
(***************************************************************************)
(* What the dashboard's history promises: a day is open until it is over,   *)
(* may then be closed with an entry, and never changes again.               *)
(***************************************************************************)
EXTENDS Naturals

CONSTANTS LastDay,  \* days are numbered from 0
          Entry,    \* what a day can be closed with
          None      \* not closed

VARIABLES today,    \* the day it is
          closed    \* day -> its entry, or None

Day == 0..LastDay

Init ==
    /\ today \in Day
    /\ closed = [d \in Day |-> None]

Tick ==
    /\ today < LastDay
    /\ today' = today + 1
    /\ UNCHANGED closed

\* Some days that are over get their entry, all at once.
Close ==
    /\ closed' \in [Day -> Entry \cup {None}]
    /\ \A d \in Day : closed'[d] # closed[d] => closed[d] = None /\ d < today
    /\ UNCHANGED today

Next == Tick \/ Close

Spec == Init /\ [][Next]_<<today, closed>>
=============================================================================

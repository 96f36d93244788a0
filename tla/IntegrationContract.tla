------------------------- MODULE IntegrationContract -------------------------
(***************************************************************************)
(* What integrate() of a model exchange FMU promises its caller: it goes   *)
(* from the time the FMU has reached, which is the far side of an event it *)
(* stopped before, until tend or until the first event. Near an event it   *)
(* may go back or ahead by a fraction of the search precision, and so may  *)
(* the far side of the event.                                              *)
(***************************************************************************)
EXTENDS Integers

CONSTANTS
    Back, Ahead,      \* how far an event takes the FMU back or beyond tend
    Horizon,          \* the longest interval in which an event is located
    None              \* no integration is asked for

VARIABLES
    m,        \* time reached, far side of an event it stopped before, flags
    asked     \* tend of the integration under way

FmuRecord ==
    [time : Int, until : Int, upcoming : BOOLEAN, event : BOOLEAN]

(* Where an integration goes on.                                           *)
From(f) == IF f.upcoming THEN f.until ELSE f.time

Earlier(s, t) == IF s < t THEN s ELSE t
Later(s, t) == IF s > t THEN s ELSE t

Outcome(f, tend, g) ==
    /\ Earlier(From(f), tend) - Back <= g.time
    /\ g.time <= Later(From(f), tend) + Ahead
    /\ \/ g.event
       \/ g.time = Later(From(f), tend)
       \/ tend < From(f) /\ g.time = tend
    /\ g.upcoming =>
           g.event /\ Earlier(g.time, tend) - Back <= g.until /\ g.until <= g.time + Horizon

Init == m \in FmuRecord /\ ~m.upcoming /\ asked = None

Integrate ==
    /\ asked = None
    /\ asked' \in Int
    /\ m' = m

Return ==
    /\ asked # None
    /\ Outcome(m, asked, m')
    /\ asked' = None

(* The caller puts the FMU to another time, resets its flags or steps over *)
(* the event it stopped before.                                            *)
Put ==
    /\ asked = None /\ asked' = None
    /\ m' \in FmuRecord
    /\ m'.upcoming => m.upcoming

Next == Integrate \/ Return \/ Put

Spec == Init /\ [][Next]_<<m, asked>>

=============================================================================

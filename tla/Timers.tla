------------------------------- MODULE Timers -------------------------------
(***************************************************************************)
(* The deadlines of a session (session/timers.rs).  A set of timers is a   *)
(* function from the armed timers to the time each has left, so that the   *)
(* clock needs no variable: time passing is every timer losing one tick.   *)
(* A timer is due once nothing is left; how far below zero it has gone is  *)
(* kept, because the earliest deadline is the one that expires first.      *)
(***************************************************************************)
EXTENDS Integers, Functions

(* Timer::ALL, in the order that breaks a tie between two deadlines.        *)
Order == [Sequence |-> 0, Message |-> 1, Ongoing |-> 2, CommunicationSetup |-> 3]

TimerNames == DOMAIN Order

(* The empty function, which is also the empty sequence.                    *)
NoTimers == <<>>

TimerSets(lowest, highest) == UNION {[armed -> lowest .. highest] : armed \in SUBSET TimerNames}

Arm(timers, name, after) ==
    [t \in DOMAIN timers \cup {name} |-> IF t = name THEN after ELSE timers[t]]

Disarm(timers, name) == Restrict(timers, DOMAIN timers \ {name})

Elapsed(timers) == [t \in DOMAIN timers |-> timers[t] - 1]

Due(timers) == {t \in DOMAIN timers : timers[t] <= 0}

(* The timer `expired` reports: the earliest deadline, in enum order.       *)
Expired(timers) ==
    CHOOSE t \in Due(timers) :
        \A u \in Due(timers) :
            \/ timers[t] < timers[u]
            \/ timers[t] = timers[u] /\ Order[t] <= Order[u]
=============================================================================

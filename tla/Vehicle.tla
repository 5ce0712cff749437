------------------------------ MODULE Vehicle -------------------------------
(***************************************************************************)
(* A vehicle session against any station.  The station sends anything, one *)
(* read of Reads after the other, asked or not; the application sends the  *)
(* requests of Script when it likes and the caller honours poll_timeout.   *)
(***************************************************************************)
EXTENDS Evcc

CONSTANTS
    Protocols,  \* EvccConfig.protocols, most preferred first
    Rejoins,    \* what EvccConfig.rejoin may hold, NoId included
    Transfers,  \* the energy transfers a rejoined -20 session had selected
    Script,     \* the requests of the application, by protocol
    Reads,      \* what one read may bring: sequences of frames
    MaxAge      \* where the history variable age stops counting

VARIABLES
    age,   \* history: ticks since the flow entered its phase
    told   \* history: the application was told that the session failed

vars == <<evcc, age, told>>

Init ==
    /\ \E id \in Rejoins : evcc = New(Protocols, id)
    /\ age = 0
    /\ told = FALSE

AgeAfter == IF PhaseName(evcc'.flow) # PhaseName(evcc.flow) THEN 0 ELSE age

Open == Start /\ UNCHANGED <<age, told>>

Ask ==
    /\ evcc.protocol \in DOMAIN Script
    /\ \E r \in Script[evcc.protocol] : Request(r)
    /\ age' = AgeAfter
    /\ UNCHANGED told

Input ==
    /\ \E fs \in Reads : HandleInput(fs)
    /\ age' = AgeAfter
    /\ told' = (told \/ \E i \in DOMAIN evcc'.events : evcc'.events[i][1] = "Failed")

PickUp ==
    /\ \E transfer \in Transfers : Resume(transfer)
    /\ age' = AgeAfter
    /\ UNCHANGED told

Timeout == HandleTimeout /\ UNCHANGED <<age, told>>

Clock ==
    /\ DOMAIN evcc.timers # {}
    /\ Tick
    /\ age' = IF age < MaxAge THEN age + 1 ELSE age
    /\ UNCHANGED told

Next == Open \/ Ask \/ Input \/ PickUp \/ Timeout \/ Clock

Spec == Init /\ [][Next]_vars

-----------------------------------------------------------------------------
(* The fields hold what their types say: the buffer is within its limit and *)
(* empty between calls, the protocol is the flow's, and a session has an    *)
(* identity only once it has a flow.                                        *)
TypeOK ==
    /\ evcc.flow = NoFlow \/ evcc.flow \in Flows
    /\ evcc.protocol = evcc.flow.protocol
    /\ DOMAIN evcc.timers \subseteq TimerNames \ {"Sequence"}
    /\ ~evcc.closed => evcc.frames = <<>>
    /\ evcc.established => HasFlow(evcc.flow) /\ evcc.id # NoId

(* A vehicle never waits without a deadline: the message timer bounds the   *)
(* answer and the setup timer everything up to the session id.  A closed    *)
(* session wakes nobody.                                                    *)
WaitsUntilADeadline ==
    IF evcc.closed THEN evcc.timers = NoTimers
    ELSE /\ evcc.outstanding # NoName => "Message" \in DOMAIN evcc.timers
         /\ evcc.offer # <<>> /\ ~evcc.established
                => "CommunicationSetup" \in DOMAIN evcc.timers

(* A loop ends with the vehicle's budget, counted from its first request,   *)
(* however long the station keeps answering Ongoing.                        *)
LoopIsBounded ==
    (LoopKind(evcc.flow) \in LoopKinds /\ age > Budget[LoopKind(evcc.flow)] + MaxLate)
        => evcc.closed

(* The id the station assigned is adopted once: no later message, however   *)
(* it reads, moves the session to another id.                               *)
IdIsAdoptedOnce ==
    [][evcc.established => evcc'.established /\ evcc'.id = evcc.id]_vars

(* Once the application has been told that the session failed, nothing but  *)
(* the stop goes onto the wire.                                             *)
FailureLeavesTheStop ==
    [][told => \A i \in DOMAIN evcc'.tx : evcc'.tx[i].req.name = "SessionStop"]_vars
=============================================================================

------------------------------ MODULE Session -------------------------------
(***************************************************************************)
(* A vehicle and a station of this crate at the two ends of a connection.  *)
(* The connection is a pair of byte streams: nothing is reordered, lost or *)
(* duplicated, until it breaks and carries nothing any more.  Both sides   *)
(* see the same clock.  The two applications are free: the vehicle's sends *)
(* any request of Script that its flow permits, the station's answers as   *)
(* it likes.                                                               *)
(***************************************************************************)
EXTENDS Integers, Sequences, Functions

CONSTANTS
    SeccProtocols, SeccSets, SeccId, SeccSetup, SeccSequence, SeccBudget,
    EvccProtocols, EvccSets, Rejoin, EvccSetup, EvccMessage, EvccBudget,
    Security, MaxPending, MaxLate,
    Script,     \* the requests of the vehicle's application, by protocol
    Outcomes,   \* the answers of the station's application
    PausedTransfer,  \* the energy transfer a rejoined -20 session had selected
    MaxRest     \* how long a prompt vehicle takes for its next request

VARIABLES
    evcc, secc,
    up, down,  \* frames on the way to the station and to the vehicle
    broken,    \* the connection is gone
    heard,     \* the outcome of the last response the vehicle read
    rest,      \* ticks since then, of a prompt vehicle
    prompt     \* whether both applications and the network are prompt

wires == <<up, down, broken>>
vars == <<evcc, secc, wires, heard, rest, prompt>>

S == INSTANCE Secc WITH
        Sets <- SeccSets, SetupTimeout <- SeccSetup,
        SequenceTimeout <- SeccSequence, Budget <- SeccBudget

E == INSTANCE Evcc WITH
        Sets <- EvccSets, SetupTimeout <- EvccSetup,
        MessageTimeout <- EvccMessage, Budget <- EvccBudget

Init ==
    /\ evcc = E!New(EvccProtocols, Rejoin)
    /\ \E protocols \in SUBSET SeccProtocols : secc = S!Opened(S!New(protocols, SeccId))
    /\ up = <<>> /\ down = <<>>
    /\ broken = FALSE
    /\ heard = "none" /\ rest = 0
    /\ prompt \in BOOLEAN

(* What a side has queued goes onto the wire, while there is one.           *)
Transmit(wire, tx) == IF broken THEN <<>> ELSE wire \o tx

Start ==
    /\ E!Start
    /\ up' = Transmit(up, evcc'.tx)
    /\ UNCHANGED <<secc, down, broken, heard, rest, prompt>>

(* A -20 session that was rejoined is resumed before it goes on.            *)
ToBeResumed == heard = "Joined" /\ evcc.protocol = "Iso20"

Ask ==
    /\ ~ToBeResumed
    /\ evcc.protocol \in DOMAIN Script
    /\ \E r \in Script[evcc.protocol] : E!Request(r)
    /\ up' = Transmit(up, evcc'.tx)
    /\ rest' = 0
    /\ UNCHANGED <<secc, down, broken, heard, prompt>>

VehicleResumes ==
    /\ ToBeResumed
    /\ E!Resume(PausedTransfer)
    /\ heard' = "Ok"
    /\ UNCHANGED <<secc, wires, rest, prompt>>

(* One read takes any number of the frames that have arrived.               *)
StationReads ==
    /\ \E n \in 1 .. Len(up) :
        /\ S!HandleInput(SubSeq(up, 1, n))
        /\ up' = SubSeq(up, n + 1, Len(up))
    /\ down' = Transmit(down, secc'.tx)
    /\ UNCHANGED <<evcc, broken, heard, rest, prompt>>

VehicleReads ==
    /\ \E n \in 1 .. Len(down) :
        /\ E!HandleInput(SubSeq(down, 1, n))
        /\ down' = SubSeq(down, n + 1, Len(down))
        /\ heard' = IF down[n].kind = "Res" THEN down[n].outcome ELSE heard
    /\ UNCHANGED <<secc, up, broken, rest, prompt>>

(* The station's application may rejoin the session the vehicle named, and  *)
(* then answers OK_OldSessionJoined.                                        *)
Rejoined == S!Joining /\ Rejoin # S!NoId /\ secc.id = Rejoin

StationRejoins ==
    /\ Rejoin # S!NoId /\ secc.id # Rejoin
    /\ \/ secc.protocol = "Iso2" /\ S!JoinSession(Rejoin)
       \/ S!Resume(Rejoin, PausedTransfer)
    /\ UNCHANGED <<evcc, wires, heard, rest, prompt>>

(* A refused request is answered FAILED.                                    *)
StationAnswers ==
    /\ \E outcome \in Outcomes :
        /\ (outcome = "Joined") <=> Rejoined
        /\ secc.outstanding.refused => outcome = "Failed"
        /\ S!Respond(outcome, TRUE)
    /\ down' = Transmit(down, secc'.tx)
    /\ UNCHANGED <<evcc, up, broken, heard, rest, prompt>>

Timeout ==
    /\ \/ E!HandleTimeout /\ UNCHANGED secc
       \/ S!HandleTimeout /\ UNCHANGED evcc
    /\ UNCHANGED <<wires, heard, rest, prompt>>

(* Prompt applications and a prompt network leave nothing undone for the    *)
(* time of a tick, and the vehicle has its next request out in time.        *)
Resting == E!HasFlow(evcc.flow) /\ ~evcc.closed

NothingToDo ==
    /\ up = <<>> /\ down = <<>> /\ ~ToBeResumed
    /\ secc.outstanding = S!NoRequest
    /\ E!Due(evcc.timers) = {} /\ S!Due(secc.timers) = {}
    /\ Resting => rest < MaxRest

Clock ==
    /\ DOMAIN evcc.timers \cup DOMAIN secc.timers # {}
    /\ E!OnTime(evcc) /\ S!OnTime(secc)
    /\ prompt => NothingToDo
    /\ evcc' = E!Later(evcc) /\ secc' = S!Later(secc)
    /\ rest' = IF prompt /\ Resting THEN rest + 1 ELSE rest
    /\ UNCHANGED <<wires, heard, prompt>>

Break ==
    /\ ~broken /\ ~prompt
    /\ broken' = TRUE /\ up' = <<>> /\ down' = <<>>
    /\ UNCHANGED <<evcc, secc, heard, rest, prompt>>

Next ==
    \/ Start \/ Ask \/ VehicleResumes \/ StationReads \/ VehicleReads
    \/ StationRejoins \/ StationAnswers \/ Timeout \/ Clock \/ Break

(* Time goes on, and it goes past no deadline that a caller of poll_timeout *)
(* has not honoured.                                                        *)
Spec == Init /\ [][Next]_vars /\ WF_vars(Clock \/ Timeout)

-----------------------------------------------------------------------------
Said(side, event, detail) == \E i \in DOMAIN side.events : side.events[i] = <<event, detail>>

(* The exchanges under way: on the wire up, at the station, on the way back.*)
Named(wire) == [i \in DOMAIN wire |-> E!Name(wire[i])]

Serving == IF secc.outstanding = S!NoRequest THEN <<>> ELSE <<secc.outstanding.name>>

UnderWay == <<Named(up), Serving, Named(down)>>

Nothing == <<<<>>, <<>>, <<>>>>

(* Where the one message is; two at once, or one the vehicle is not waiting *)
(* for, are at no place of the dialogue.                                    *)
Place ==
    LET asked == <<evcc.outstanding>> IN
    IF evcc.closed THEN "over"
    ELSE CASE UnderWay = Nothing -> IF evcc.outstanding = E!NoName THEN "vehicle" ELSE "lost"
           [] UnderWay = <<asked, <<>>, <<>>>> -> "up"
           [] UnderWay = <<<<>>, asked, <<>>>> -> "station"
           [] UnderWay = <<<<>>, <<>>, asked>> -> "down"
           [] OTHER -> "nowhere"

About == IF evcc.closed THEN E!NoName ELSE evcc.outstanding

ExchangeNames ==
    {E!Handshaking} \cup ({E!V2G} \cup E!Part20) \X {r.name : r \in UNION Range(Script)}

D == INSTANCE Dialogue WITH
        Names <- ExchangeNames, NoName <- E!NoName, place <- Place, about <- About

(* The two drivers over a connection implement the dialogue: one exchange   *)
(* at a time, and the answer the vehicle reads is the answer to what the    *)
(* station was asked.                                                       *)
OneExchangeAtATime == D!Spec

(* Both ends walk the same graph: with nothing in transit they are at the   *)
(* same place of the same protocol, under the same id, and only the station *)
(* may already know that the session has failed.                            *)
EndsAgree ==
    (/\ UnderWay = Nothing /\ evcc.outstanding = E!NoName
     /\ E!HasFlow(evcc.flow) /\ ~secc.closed /\ ~evcc.closed /\ ~ToBeResumed)
        => /\ evcc.protocol = secc.protocol
           /\ evcc.flow.seq.failed => secc.flow.seq.failed
           /\ [evcc.flow.seq EXCEPT !.failed = FALSE] = [secc.flow.seq EXCEPT !.failed = FALSE]
           /\ evcc.established => secc.established /\ evcc.id = secc.id

(* A vehicle that keeps to its own flow is never told that it broke the     *)
(* order or that its session is unknown, and neither end takes the other's  *)
(* bytes for a broken stream.                                               *)
NobodyIsBlamed ==
    /\ ~Said(secc, "Refused", "Sequence") /\ ~Said(secc, "Refused", "UnknownSession")
    /\ ~Said(secc, "Closed", "Fatal") /\ ~Said(evcc, "Closed", "Fatal")

(* When the connection is gone the station ends the session, and so does a  *)
(* vehicle that is waiting for an answer.                                   *)
BreakIsNoticed ==
    broken ~> secc.closed /\ (evcc.closed \/ evcc.outstanding = E!NoName)

(* The station's loop budget is the shorter one, so that the loop ends with *)
(* an answer: while everybody is prompt the vehicle's own budget never runs *)
(* out.                                                                     *)
StationGivesUpFirst == prompt => ~Said(evcc, "Closed", "Ongoing")
=============================================================================

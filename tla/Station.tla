------------------------------ MODULE Station -------------------------------
(***************************************************************************)
(* A station session driven by any vehicle and any application.  The       *)
(* vehicle sends anything, one read of Reads after the other and whether   *)
(* it was answered or not; the application answers what it is handed, when *)
(* it likes, and the caller calls handle_timeout when a deadline passed.   *)
(***************************************************************************)
EXTENDS Secc

CONSTANTS
    Protocols,   \* SeccConfig.protocols
    StationIds,  \* what SeccConfig.session_id may hold, NoId included
    PausedId,    \* the id of a session the application may rejoin
    Transfers,   \* the energy transfers a rejoined -20 session had selected
    Reads,       \* what one read may bring, by the protocol agreed on so far
    MaxAge       \* where the history variable age stops counting

VARIABLES
    age,      \* history: ticks since the flow entered its phase
    settled   \* history: the last request was answered, and not with Ongoing

vars == <<secc, age, settled>>

Outcomes == {"Ok", "Ongoing", "Failed"}

Init ==
    /\ \E id \in StationIds : secc = Opened(New(Protocols, id))
    /\ age = 0
    /\ settled = FALSE

Happened(event) == \E i \in DOMAIN secc'.events : secc'.events[i][1] = event

MovedOn == PhaseName(secc'.flow) # PhaseName(secc.flow)

Input ==
    /\ \E fs \in Reads[secc.protocol] : HandleInput(fs)
    /\ age' = IF MovedOn THEN 0 ELSE age
    /\ settled' = (settled /\ ~Happened("Request"))

Reply ==
    /\ \E outcome \in Outcomes, encodes \in BOOLEAN :
        /\ Respond(outcome, encodes)
        /\ settled' = (outcome = "Ok" /\ encodes /\ ~Happened("Request"))
    /\ age' = IF MovedOn THEN 0 ELSE age

Rejoin ==
    /\ \/ JoinSession(PausedId)
       \/ \E transfer \in Transfers : Resume(PausedId, transfer)
    /\ age' = IF MovedOn THEN 0 ELSE age
    /\ UNCHANGED settled

Timeout ==
    /\ HandleTimeout
    /\ UNCHANGED <<age, settled>>

Clock ==
    /\ Tick
    /\ age' = IF age < MaxAge THEN age + 1 ELSE age
    /\ UNCHANGED settled

Next == Input \/ Reply \/ Rejoin \/ Timeout \/ Clock

(* The clock runs, and the caller honours poll_timeout.                     *)
Spec == Init /\ [][Next]_vars /\ WF_vars(Clock) /\ WF_vars(Timeout)

-----------------------------------------------------------------------------
(* The fields hold what their types say: the buffer is within its limit,    *)
(* the protocol is the flow's, and a session has an identity only once its  *)
(* setup was accepted.                                                      *)
TypeOK ==
    /\ secc.flow = NoFlow \/ secc.flow \in Flows
    /\ secc.protocol = secc.flow.protocol
    /\ secc.timers \in TimerSets(-MaxLate, SequenceTimeout + Budget["Authorization"])
    /\ Len(secc.frames) <= MaxPending
    /\ secc.established => PhaseName(secc.flow) \notin {"none", "Start"}
    /\ secc.outstanding.refused => secc.closed

(* A session that is not over always has a deadline, whatever the vehicle   *)
(* sends and however the application answers: it cannot be held open by     *)
(* silence, and a closed one wakes nobody.                                  *)
OpenUntilADeadline ==
    IF secc.closed THEN secc.timers = NoTimers
    ELSE {"Sequence", "CommunicationSetup"} \cap DOMAIN secc.timers # {}

(* No frame is left unread behind a request that has been answered: what    *)
(* the vehicle sent early is read as soon as it may be.                     *)
NoFrameLeftBehind ==
    (~secc.closed /\ secc.outstanding = NoRequest) => secc.frames = <<>>

(* A loop is bounded by the station's budget from its first request on,     *)
(* however often the vehicle repeats it.                                    *)
LoopIsBounded ==
    (/\ ~secc.closed /\ LoopKind(secc.flow) \in LoopKinds
     /\ age > Budget[LoopKind(secc.flow)] + MaxLate)
        => secc.flow.seq.failed

(* Once the budget of a loop has run out no further request is let through  *)
(* but the stop, and the refusal is never put down to the vehicle's order:  *)
(* dispatch reports it as Overdue, in the phase whose budget it was.        *)
OverdueEndsTheSession ==
    [][secc.overdue # "none" =>
        \A i \in DOMAIN secc'.events :
            LET e == secc'.events[i] IN
            /\ e[1] = "Request" => e[2] = "SessionStop"
            /\ e # <<"Refused", "Sequence">>
            /\ e[1] = "Overdue" => e[2] = PhaseName(secc.flow)]_vars

(* No request is ever checked against the all-zero id: once SessionSetupReq *)
(* has been answered, an id has been assigned or adopted.                   *)
AssignedBeforeChecked ==
    (~secc.closed /\ secc.established /\ secc.outstanding.name[2] # "SessionSetup")
        => secc.id # NoId

(* A session that failed - the station's budget included - comes to its     *)
(* end, whatever the vehicle keeps sending.                                 *)
FailureEndsTheSession == (HasFlow(secc.flow) /\ secc.flow.seq.failed) ~> secc.closed

-----------------------------------------------------------------------------
(* What the driver's documentation says, and the code does not do: "a phase *)
(* it kept answering Ongoing ran past".  No request would be overdue once   *)
(* the station has given the final answer of the phase.                     *)
OverdueMeansOngoing == [][Happened("Overdue") => ~settled]_vars
=============================================================================

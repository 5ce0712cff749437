-------------------------------- MODULE Evcc --------------------------------
(***************************************************************************)
(* The vehicle's half of a session (evcc.rs).  The driver's record is the  *)
(* variable evcc; every operation that changes it is an action.            *)
(***************************************************************************)
EXTENDS Driver

CONSTANT MessageTimeout  \* EvccConfig.message_timeout

ASSUME MessageIsBounded == MessageTimeout \in Nat \ {0}

VARIABLE evcc

(* Evcc::new; rejoin is NoId or the id of the paused session to rejoin.     *)
New(protocols, rejoin) ==
    [offer |-> <<>>, set |-> None, outstanding |-> NoName] @@ Fresh(protocols, rejoin)

CloseFatal(s) ==
    IF s.closed THEN s
    ELSE Close([s EXCEPT !.frames = <<>>, !.outstanding = NoName], "Fatal")

Settle(s) == IF s.result = "Err" THEN CloseFatal(s) ELSE s

-----------------------------------------------------------------------------
(* start: the one handshake request.                                        *)
Started(s) ==
    LET offer == OfferOf(s.protocols, Sets) IN
    [s EXCEPT !.offer = offer, !.tx = <<AppReq(offer)>>, !.outstanding = Handshaking,
              !.timers = Arm(Arm(@, "CommunicationSetup", SetupTimeout),
                             "Message", MessageTimeout)]

Start ==
    /\ evcc.outstanding = NoName /\ ~HasFlow(evcc.flow) /\ ~evcc.closed
    /\ OfferOf(evcc.protocols, Sets) # <<>>
    /\ evcc' = Started(Drained(evcc))

(* request, where it is allowed: the session moves all at once, and only    *)
(* when the bytes exist.                                                    *)
MayPipeline(s, r) == ~s.closed /\ HasFlow(s.flow) /\ PermitsRequest(s.flow, r)

MayRequest(s, r) ==
    /\ ~s.closed /\ s.outstanding = NoName
    /\ HasFlow(s.flow) /\ PermitsRequest(s.flow, r)

RequestedUntimed(s, r) ==
    LET m == Req(s.protocol, r, s.id)
    IN [EnterPhase([s EXCEPT !.flow = AcceptRequest(@, r), !.tx = <<m>>])
            EXCEPT !.outstanding = Name(m)]

Requested(s, r) ==
    LET m == Req(s.protocol, r, s.id)
        moved == EnterPhase([s EXCEPT !.flow = AcceptRequest(@, r), !.tx = <<m>>])
    IN [moved EXCEPT !.timers = Arm(@, "Message", MessageTimeout), !.outstanding = Name(m)]

Request(r) ==
    /\ MayRequest(evcc, r)
    /\ evcc' = Requested(Drained(evcc), r)

-----------------------------------------------------------------------------
(* dispatch, arm by arm.  A response answers the outstanding request or the *)
(* session ends.                                                            *)
Shaken(s, m) ==
    LET i == Resolve(s.offer, m.response.schema) IN
    IF Declines(m.response) THEN Close(s, "NoCommonProtocol")
    ELSE IF i = 0 THEN Fault(s)
    ELSE Emit([s EXCEPT !.protocol = s.offer[i].protocol, !.set = s.offer[i].set,
                        !.flow = NewFlow(s.offer[i].protocol, Security)],
              "ProtocolAgreed", s.offer[i].protocol)

(* The first response assigns the session id, later ones must carry it.     *)
AdoptsAnyId(s, m) ==
    [s EXCEPT !.id = m.id, !.established = TRUE, !.timers = Disarm(@, "CommunicationSetup")]

AdoptsEveryId(s, m) ==
    IF m.id = NoId THEN Fault(s)
    ELSE [s EXCEPT !.id = m.id, !.established = TRUE,
                   !.timers = Disarm(@, "CommunicationSetup")]

Identified(s, m) ==
    IF s.established THEN (IF m.id = s.id THEN s ELSE Fault(s))
    ELSE IF m.id = NoId THEN Fault(s)
    ELSE [s EXCEPT !.id = m.id, !.established = TRUE,
                   !.timers = Disarm(@, "CommunicationSetup")]

RespondedUnlatched(s, m) ==
    LET heard == Emit(s, "Response", m.name[2])
    IN IF IsFinished(s.flow) THEN Close(heard, "Normal")
       ELSE IF IsFailure(m) THEN Emit(heard, "Failed", m.name[2]) ELSE heard

Responded(s, m) ==
    LET told == IF IsFailure(m) THEN [s EXCEPT !.flow = FailFlow(@)] ELSE s
        heard == Emit(told, "Response", m.name[2])
    IN CASE IsPaused(s.flow) -> Close(heard, "Paused")
         [] IsFinished(s.flow) /\ ~IsPaused(s.flow) -> Close(heard, "Normal")
         [] ~IsFinished(s.flow) ->
                IF IsFailure(m) THEN Emit(heard, "Failed", m.name[2]) ELSE heard

Dispatch(before, m) ==
    LET s == [before EXCEPT !.timers = Disarm(@, "Message"), !.outstanding = NoName] IN
    CASE IsRequest(m) \/ ~Answers(m, before.outstanding) -> Fault(before)
      [] Answers(m, before.outstanding) /\ m.kind = "AppRes" -> Shaken(s, m)
      [] Answers(m, before.outstanding) /\ m.kind # "AppRes" ->
            LET known == Identified(s, m)
            IN IF known.result = "Err" THEN known ELSE Responded(known, m)

-----------------------------------------------------------------------------
(* One turn of drain, which reads on until the session is closed: a vehicle *)
(* has no request to answer first.                                          *)
Turn(s) ==
    LET m == Head(s.frames)
        rest == [s EXCEPT !.frames = Tail(@)]
    IN CASE Decode(m, s.protocol) = "Ignored" -> rest
         [] Decode(m, s.protocol) = "Message" -> Dispatch(rest, m)
         [] Decode(m, s.protocol) = "Error" -> Fault([s EXCEPT !.frames = <<>>])

Drains(s) == ~s.closed /\ s.frames # <<>> /\ s.result = "Ok"

Drain(s) ==
    LET after[n \in 0 .. Len(s.frames)] ==
            IF n = 0 THEN s
            ELSE IF Drains(after[n - 1]) THEN Turn(after[n - 1]) ELSE after[n - 1]
    IN after[Len(s.frames)]

HandleInput(fs) ==
    /\ ~evcc.closed
    /\ LET received == Receive(Drained(evcc), fs)
       IN evcc' = Settle(IF received.result = "Err" THEN received ELSE Drain(received))

(* handle_timeout: every deadline closes the session.                       *)
HandleTimeout ==
    /\ Due(evcc.timers) # {}
    /\ evcc' = Close(Drained(evcc), Expired(evcc.timers))

(* resume, called on SessionSetupRes(OK_OldSessionJoined); that it is       *)
(* called then and only then is the application's side of the contract.     *)
Resume(transfer) ==
    /\ evcc.protocol = "Iso20" /\ evcc.established /\ evcc.outstanding = NoName
    /\ evcc.flow.seq.phase = "SessionSetup"
    /\ evcc' = [Drained(evcc) EXCEPT !.flow = ResumeFlow(@, transfer)]

Tick == OnTime(evcc) /\ evcc' = Later(evcc)
=============================================================================

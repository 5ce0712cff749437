-------------------------------- MODULE Secc --------------------------------
(***************************************************************************)
(* The station's half of a session (secc.rs).  The driver's record is the  *)
(* variable secc; every operation that changes it is an action.            *)
(***************************************************************************)
EXTENDS Driver

CONSTANT SequenceTimeout  \* SeccConfig.sequence_timeout

(* A loop of -2 runs out while the vehicle's next request is still awaited. *)
ASSUME SequenceIsLonger ==
    SequenceTimeout \in Nat /\ Budget["Ongoing"] < SequenceTimeout

VARIABLE secc

NoRequest == [name |-> NoName, refused |-> FALSE]

(* Secc::new and, with the connection up, Secc::opened.                     *)
New(protocols, id) == [outstanding |-> NoRequest, overdue |-> "none"] @@ Fresh(protocols, id)

Opened(s) == [s EXCEPT !.timers = Arm(@, "CommunicationSetup", SetupTimeout)]

-----------------------------------------------------------------------------
(* Two more ways to close: a refused request stays answerable, a fault      *)
(* drops it together with whatever was framed behind it.                    *)
CloseAfterRefusal(s) == Close(s, "Refused")

CloseFatal(s) ==
    IF s.closed THEN s
    ELSE Close([s EXCEPT !.frames = <<>>, !.outstanding = NoRequest], "Fatal")

(* The outcome of handle_input and respond: an error closes the session.    *)
Settle(s) == IF s.result = "Err" THEN CloseFatal(s) ELSE s

-----------------------------------------------------------------------------
(* dispatch, arm by arm.                                                    *)

(* supportedAppProtocolReq, once.                                           *)
Shake(s, m) ==
    LET agreed == Agree(m.offer, s.protocols, Sets)
        answered == [s EXCEPT !.timers = Disarm(@, "CommunicationSetup"),
                              !.tx = Append(@, AppRes(Response(agreed)))]
    IN IF agreed.protocol = None THEN Close(answered, "NoCommonProtocol")
       ELSE Emit([answered EXCEPT !.protocol = agreed.protocol,
                                  !.flow = NewFlow(agreed.protocol, Security)],
                 "ProtocolAgreed", agreed.protocol)

CarriesTheSessionId(s, m) == s.id # NoId /\ m.id = s.id

Surface(s, m) ==
    LET accepted == [s EXCEPT !.flow = AcceptRequest(@, m.req),
                              !.established = @ \/ m.req.name = "SessionSetup"]
    IN Emit([EnterPhase(accepted) EXCEPT !.outstanding = [name |-> Name(m), refused |-> FALSE]],
            "Request", m.req.name)

(* A request that will be answered FAILED, and the close that goes with it. *)
Refuse(s, m, event, reason) ==
    CloseAfterRefusal(
        Emit([s EXCEPT !.outstanding = [name |-> Name(m), refused |-> TRUE]], event, reason))

RefuseAlwaysAsSequence(s, m) == Refuse(s, m, "Refused", "Sequence")

RefuseOutOfSequence(s, m) ==
    IF s.overdue # "none" THEN Refuse([s EXCEPT !.overdue = "none"], m, "Overdue", s.overdue)
                          ELSE Refuse(s, m, "Refused", "Sequence")

Dispatch(before, m) ==
    LET s == [before EXCEPT !.timers = Arm(@, "Sequence", SequenceTimeout)] IN
    CASE m.kind = "AppReq" -> IF HasFlow(s.flow) THEN Fault(s) ELSE Shake(s, m)
      [] ~IsRequest(m) -> Fault(s)
      [] IsRequest(m) /\ m.kind # "AppReq" ->
            IF s.established /\ ~CarriesTheSessionId(s, m) THEN Refuse(s, m, "Refused", "UnknownSession")
            ELSE IF ~HasFlow(s.flow) \/ ~IsSequenced(m.req) THEN Fault(s)
            ELSE IF PermitsRequest(s.flow, m.req) THEN Surface(s, m)
            ELSE RefuseOutOfSequence(s, m)

-----------------------------------------------------------------------------
(* One turn of pump: the first frame is ignored, dispatched or fatal.       *)
TurnCountingIgnored(s) ==
    LET m == Head(s.frames)
        rest == [s EXCEPT !.frames = Tail(@)]
    IN CASE Decode(m, s.protocol) = "Ignored" ->
                [rest EXCEPT !.timers = Arm(@, "Sequence", SequenceTimeout)]
         [] Decode(m, s.protocol) = "Message" -> Dispatch(rest, m)
         [] Decode(m, s.protocol) = "Error" -> Fault([s EXCEPT !.frames = <<>>])

Turn(s) ==
    LET m == Head(s.frames)
        rest == [s EXCEPT !.frames = Tail(@)]
    IN CASE Decode(m, s.protocol) = "Ignored" -> rest
         [] Decode(m, s.protocol) = "Message" -> Dispatch(rest, m)
         [] Decode(m, s.protocol) = "Error" -> Fault([s EXCEPT !.frames = <<>>])

(* pump stops at a request that has to be answered first.                   *)
Pumps(s) == ~s.closed /\ s.outstanding = NoRequest /\ s.frames # <<>> /\ s.result = "Ok"

Pump(s) ==
    LET after[n \in 0 .. Len(s.frames)] ==
            IF n = 0 THEN s
            ELSE IF Pumps(after[n - 1]) THEN Turn(after[n - 1]) ELSE after[n - 1]
    IN after[Len(s.frames)]

-----------------------------------------------------------------------------
(* The operations.                                                          *)

HandleInput(fs) ==
    /\ ~secc.closed
    /\ LET received == Receive(Drained(secc), fs)
       IN secc' = Settle(IF received.result = "Err" THEN received ELSE Pump(received))

(* respond: the flow learns of a failure, the answer is queued, and only    *)
(* then is the session closed or the next frame read.                       *)
Answered(s, m) ==
    LET sent == [s EXCEPT !.outstanding = NoRequest, !.tx = Append(@, m)] IN
    CASE IsPaused(s.flow) -> Close(sent, "Paused")
      [] IsFinished(s.flow) /\ ~IsPaused(s.flow) -> Close(sent, "Normal")
      [] ~IsFinished(s.flow) ->
            IF s.closed THEN sent
            ELSE [sent EXCEPT !.timers = Arm(@, "Sequence", SequenceTimeout)]

AnswerWithoutPump(s, m, encodes) ==
    LET told == IF IsFailure(m) THEN [s EXCEPT !.flow = FailFlow(@)] ELSE s
    IN IF encodes THEN Answered(told, m) ELSE Fault(told)

AnswerUnlatched(s, m, encodes) ==
    IF encodes THEN Settle(Pump(Answered(s, m))) ELSE Fault(s)

Answer(s, m, encodes) ==
    LET told == IF IsFailure(m) THEN [s EXCEPT !.flow = FailFlow(@)] ELSE s
    IN IF encodes THEN Settle(Pump(Answered(told, m))) ELSE Fault(told)

RespondUnassigned(outcome, encodes) ==
    /\ secc.outstanding # NoRequest
    /\ secc' = Answer(Drained(secc),
                      Res(secc.protocol, secc.outstanding.name, secc.id, outcome), encodes)

Respond(outcome, encodes) ==
    /\ secc.outstanding # NoRequest
    /\ secc.id # NoId
    /\ secc' = Answer(Drained(secc),
                      Res(secc.protocol, secc.outstanding.name, secc.id, outcome), encodes)

(* handle_timeout: an exhausted loop budget is remembered for the next      *)
(* request, every other deadline closes the session.                        *)
ExpireUntimed(s) ==
    [s EXCEPT !.timers = NoTimers, !.overdue = PhaseName(s.flow), !.flow = FailFlow(@)]

ExpireUnlatched(s) ==
    [s EXCEPT !.timers = Disarm(@, "Ongoing"), !.overdue = PhaseName(s.flow)]

Expire(s) ==
    [s EXCEPT !.timers = Disarm(@, "Ongoing"), !.overdue = PhaseName(s.flow),
              !.flow = FailFlow(@)]

ExpireAll(s) ==
    LET left == IF Expired(s.timers) = "Ongoing" THEN Expire(s) ELSE s
    IN IF Due(left.timers) = {} THEN left ELSE Close(left, Expired(left.timers))

HandleTimeout ==
    /\ Due(secc.timers) # {}
    /\ secc' = ExpireAll(Drained(secc))

(* join_session and resume.  Neither checks when it is called: that the     *)
(* application calls it while it is answering SessionSetupReq is the        *)
(* contract their documentation states.                                     *)
Joining == ~secc.outstanding.refused /\ secc.outstanding.name[2] = "SessionSetup"

JoinSession(id) ==
    /\ Joining
    /\ secc' = [Drained(secc) EXCEPT !.id = id]

Resume(id, transfer) ==
    /\ Joining /\ secc.protocol = "Iso20" /\ secc.flow.seq.phase = "SessionSetup"
    /\ secc' = [Drained(secc) EXCEPT !.id = id, !.flow = ResumeFlow(@, transfer)]

Tick == DOMAIN secc.timers # {} /\ OnTime(secc) /\ secc' = Later(secc)
=============================================================================

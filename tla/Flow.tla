-------------------------------- MODULE Flow --------------------------------
(***************************************************************************)
(* The flow of a session (session/mod.rs): the sequencer of the generation *)
(* the handshake agreed on.  A flow is a record [protocol, seq]; NoFlow    *)
(* stands for the drivers' flow: Option<Flow> before the handshake.        *)
(***************************************************************************)
EXTENDS Integers

I2 == INSTANCE Iso2Flow
I20 == INSTANCE Iso20Flow

NoFlow == [protocol |-> "none", seq |-> "none"]

Flows ==
    [protocol : {"Iso2"}, seq : I2!Sequencers]
        \cup [protocol : {"Iso20"}, seq : I20!Sequencers]

NewFlow(protocol, security) ==
    [protocol |-> protocol,
     seq |-> IF protocol = "Iso2" THEN I2!New(security) ELSE I20!New]

HasFlow(flow) == flow.protocol # "none"

(* Request::of finds a request in the message: a ServiceSelectionReq of an  *)
(* id that is no energy transfer service is none.                           *)
IsSequenced(r) == r.name = "ServiceSelection" => r.arg \in I20!ServiceIds

(* Flow::permits, on a request of the flow's own generation.                *)
PermitsRequest(flow, r) ==
    IF flow.protocol = "Iso2" THEN I2!Permits(flow.seq, r) ELSE I20!Permits(flow.seq, r)

(* Flow::accept, where the flow permits the request.                        *)
AcceptRequest(flow, r) ==
    LET s == flow.seq IN
    [flow EXCEPT !.seq =
        IF flow.protocol = "Iso2"
        THEN I2!Accepted(s, r, CHOOSE next \in I2!Phases : I2!NextPhase(s, r, next))
        ELSE I20!Accepted(s, r, CHOOSE next \in I20!Phases : I20!NextPhase(s, r, next))]

FailFlow(flow) == IF HasFlow(flow) THEN [flow EXCEPT !.seq.failed = TRUE] ELSE flow

PhaseName(flow) == IF HasFlow(flow) THEN flow.seq.phase ELSE "none"

IsPaused(flow) == PhaseName(flow) = "Paused"

IsFinished(flow) == PhaseName(flow) \in {"Paused", "Stopped"}

(* Flow::resume, which only an ISO 15118-20 flow has.                       *)
ResumeFlow(flow, transfer) == [flow EXCEPT !.seq = I20!Resumed(flow.seq, transfer)]

(* loop_timeout: which budget bounds the phase, if it is a loop.  The       *)
(* isolation test and the pre-charge have budgets that no configuration     *)
(* overrides, the authorization loop has one of its own.                    *)
LoopKinds == {"Authorization", "CableCheck", "PreCharge", "Ongoing"}

LoopKind(flow) ==
    LET phase == PhaseName(flow)
        loops == IF flow.protocol = "Iso2" THEN I2!OngoingLoops ELSE I20!OngoingLoops
    IN
    CASE phase = "Authorized" -> "Authorization"
      [] phase \in {"CableCheck", "PreCharge"} -> phase
      [] phase \in loops -> "Ongoing"
      [] OTHER -> "none"
=============================================================================

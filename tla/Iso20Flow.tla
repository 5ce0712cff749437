----------------------------- MODULE Iso20Flow ------------------------------
(***************************************************************************)
(* The ISO 15118-20 message-ordering graph (session/iso20.rs) as operators *)
(* on a sequencer value, in the manner of Iso2Flow.  A request message is  *)
(* a record: its name, the value the graph branches on, the message set    *)
(* (V2GTP payload type) it travelled under, and whether it said            *)
(* EVProcessing = Ongoing.                                                 *)
(***************************************************************************)

None == "none"

(* The assigned energy transfer service ids, by the names of the table at   *)
(* Service::from_service_id.                                                *)
ServiceIds == {"AC", "DC", "WPT", "DC_ACDP", "AC_BPT", "DC_BPT", "DC_ACDP_BPT",
               "MCS", "MCS_BPT", "AC_DER_IEC", "AC_DER_SAE"}

Services == {"Ac", "Dc", "Wpt", "Acdp", "AcDerIec", "AcDerSae", "Mcs"}

ServiceOfItsOwn(id) == id

FromServiceId(id) ==
    CASE id \in {"AC", "AC_BPT"} -> "Ac"
      [] id \in {"DC", "DC_BPT"} -> "Dc"
      [] id = "WPT" -> "Wpt"
      [] id \in {"DC_ACDP", "DC_ACDP_BPT"} -> "Acdp"
      [] id \in {"MCS", "MCS_BPT"} -> "Mcs"
      [] id = "AC_DER_IEC" -> "AcDerIec"
      [] id = "AC_DER_SAE" -> "AcDerSae"

Bidirectional(id) ==
    id \in {"AC_BPT", "DC_BPT", "DC_ACDP_BPT", "MCS_BPT", "AC_DER_IEC", "AC_DER_SAE"}

EnergyTransfers == [service : Services, bidirectional : BOOLEAN]

EnergyTransfer(id) == [service |-> FromServiceId(id), bidirectional |-> Bidirectional(id)]

NoTransfer == [service |-> None, bidirectional |-> FALSE]

IsDc(service) == service \in {"Dc", "Mcs", "Acdp"}

(* The message sets of -20, named after PayloadType's variants.             *)
PayloadTypes == {"Main", "Ac", "Dc", "Wpt", "Acdp", "AcDerIec", "AcDerSae"}

PayloadType(service) == IF service = "Mcs" THEN "Dc" ELSE service

ServiceAdmits(service, set) ==
    IF service = "Acdp" THEN set \in {"Dc", "Acdp"} ELSE set = PayloadType(service)

ChargeProgress == {"Start", "Stop", "Standby", "ScheduleRenegotiation"}

ChargingSessions == {"Terminate", "Pause", "ServiceRenegotiation"}

MainRequestNames ==
    {"SessionSetup", "AuthorizationSetup", "Authorization", "ServiceDiscovery",
     "ServiceDetail", "CertificateInstallation", "ScheduleExchange",
     "MeteringConfirmation", "VehicleCheckIn", "VehicleCheckOut"}

ParameterSets == {"Ac", "Dc", "Wpt", "AcDerIec", "AcDerSae"}

Message(name, arg, set, ongoing) ==
    [name |-> name, arg |-> arg, set |-> set, ongoing |-> ongoing]

(* of_acdp: the pantograph's own messages.                                  *)
AcdpRequests == {Message("AcdpControl", None, "Acdp", FALSE)}

(* Every message Request::of classifies as a request.                       *)
Requests ==
    {Message(n, None, "Main", FALSE) : n \in MainRequestNames}
        \cup {Message("ServiceSelection", id, "Main", FALSE) : id \in ServiceIds}
        \cup {Message("PowerDelivery", p, "Main", o) : p \in ChargeProgress, o \in BOOLEAN}
        \cup {Message("SessionStop", how, "Main", FALSE) : how \in ChargingSessions}
        \cup {Message(n, None, set, FALSE) :
                n \in {"ChargeParameterDiscovery", "ChargeLoop"}, set \in ParameterSets}
        \cup {Message(n, None, "Dc", FALSE) : n \in {"CableCheck", "PreCharge", "WeldingDetection"}}
        \cup AcdpRequests \cup {Message("WptPositioning", None, "Wpt", FALSE)}

Phases ==
    {"Start", "SessionSetup", "AuthorizationSetup", "Authorized", "ServiceDiscovery",
     "ServiceSelected", "ChargeParameters", "ScheduleExchanged", "CableCheck",
     "PreCharge", "Charging", "Standby", "PowerStopped", "WeldingDetection",
     "Paused", "Stopped"}

(* The phases of a selected service, from which it can be renegotiated.     *)
ServicePhases ==
    {"ServiceSelected", "ChargeParameters", "ScheduleExchanged", "CableCheck",
     "PreCharge", "Charging", "Standby", "PowerStopped", "WeldingDetection"}

Sequencers ==
    [phase : Phases, transfer : EnergyTransfers \cup {NoTransfer}, renegotiated : BOOLEAN,
     failed : BOOLEAN, starting : BOOLEAN]

New ==
    [phase |-> "Start", transfer |-> NoTransfer, renegotiated |-> FALSE,
     failed |-> FALSE, starting |-> FALSE]

IsFinished(s) == s.phase \in {"Stopped", "Paused"}
IsPaused(s) == s.phase = "Paused"

(* admits: CommonMessages belong to every session, a service's own set only *)
(* to a session that selected the service.                                  *)
Admits(s, set) ==
    \/ set = "Main"
    \/ s.transfer # NoTransfer /\ ServiceAdmits(s.transfer.service, set)

-----------------------------------------------------------------------------
(* next_phase, as the relation "in sequencer s, request r leads to next".   *)

Established(s) == s.phase \notin {"Start", "Stopped", "Paused"}

PauseDuringLoop(s) == s.phase \notin {"CableCheck", "PreCharge"}

MayPause(s) == s.phase \notin {"CableCheck", "PreCharge", "Charging"}

StopEdge(s, r, next) ==
    /\ r.name = "SessionStop" /\ Established(s)
    /\ \/ r.arg = "Terminate" /\ next = "Stopped"
       \/ r.arg = "Pause" /\ MayPause(s) /\ next = "Paused"

(* SessionStopReq(ServiceRenegotiation) goes back to just after             *)
(* authorization; it needs a service to renegotiate.                        *)
UnwindsService(r) == r.name = "SessionStop" /\ r.arg = "ServiceRenegotiation"

RenegotiateAnywhereEdge(s, r, next) ==
    UnwindsService(r) /\ Established(s) /\ next = "Authorized"

RenegotiateServiceEdge(s, r, next) ==
    UnwindsService(r) /\ s.phase \in ServicePhases /\ next = "Authorized"

MaySelect(s) == s.phase = "ServiceDiscovery"

SetupEdge(s, r, next) ==
    \/ s.phase = "Start" /\ r.name = "SessionSetup" /\ next = "SessionSetup"
    \/ s.phase = "SessionSetup" /\ r.name = "AuthorizationSetup" /\ next = "AuthorizationSetup"
    \/ /\ s.phase = "AuthorizationSetup" /\ r.name = "CertificateInstallation"
       /\ next = "AuthorizationSetup"
    \/ /\ s.phase \in {"AuthorizationSetup", "Authorized"} /\ r.name = "Authorization"
       /\ next = "Authorized"
    \/ s.phase = "Authorized" /\ r.name = "ServiceDiscovery" /\ next = "ServiceDiscovery"
    \/ s.phase = "ServiceDiscovery" /\ r.name = "ServiceDetail" /\ next = "ServiceDiscovery"
    \/ MaySelect(s) /\ r.name = "ServiceSelection" /\ next = "ServiceSelected"
    \/ /\ s.phase = "ServiceSelected" /\ next = "ServiceSelected"
       /\ \/ s.transfer.service = "Acdp" /\ r.name \in {"VehicleCheckIn", "AcdpControl"}
          \/ s.transfer.service = "Wpt" /\ r.name = "WptPositioning"

(* From the charge parameters to power, and the DC safety phases between.   *)
ParameterEdge(s, r, next) ==
    LET dc == IsDc(s.transfer.service) IN
    \/ /\ s.phase \in {"ServiceSelected", "ChargeParameters"}
       /\ r.name = "ChargeParameterDiscovery"
       /\ next = "ChargeParameters"
    \/ /\ s.phase \in {"ChargeParameters", "ScheduleExchanged"}
       /\ r.name = "ScheduleExchange"
       /\ next = "ScheduleExchanged"
    \/ /\ \/ s.phase = "ScheduleExchanged" /\ dc
          \/ s.phase = "CableCheck"
       /\ r.name = "CableCheck"
       /\ next = "CableCheck"
    \/ /\ s.phase \in {"CableCheck", "PreCharge"} /\ r.name = "PreCharge"
       /\ next = "PreCharge"

PowerEdge(s, r, next) ==
    LET dc == IsDc(s.transfer.service)
        acdp == s.transfer.service = "Acdp"
        power(p) == r.name = "PowerDelivery" /\ r.arg = p
    IN
    \/ /\ power("Start") /\ next = "Charging"
       /\ \/ s.phase = "ScheduleExchanged" /\ (~dc \/ s.renegotiated)
          \/ s.phase \in {"PreCharge", "Standby"}
          \/ s.phase = "Charging" /\ s.starting
    \/ /\ s.phase = "Charging" /\ r.name \in {"ChargeLoop", "MeteringConfirmation"}
       /\ next = "Charging"
    \/ s.phase = "Charging" /\ power("ScheduleRenegotiation") /\ next = "ChargeParameters"
    \/ s.phase = "Charging" /\ power("Standby") /\ next = "Standby"
    \/ s.phase \in {"Charging", "Standby"} /\ power("Stop") /\ next = "PowerStopped"
    \/ /\ \/ s.phase = "PowerStopped" /\ dc
          \/ s.phase = "WeldingDetection"
       /\ r.name = "WeldingDetection"
       /\ next = "WeldingDetection"
    \/ /\ s.phase \in {"PowerStopped", "WeldingDetection"} /\ acdp
       /\ r.name \in {"VehicleCheckOut", "AcdpControl"}
       /\ next = s.phase

(* After a FAILED response the peer may stop the session and nothing else;  *)
(* renegotiating the service is not stopping it.                            *)
NextPhaseRenegotiable(s, r, next) ==
    \/ StopEdge(s, r, next) \/ RenegotiateServiceEdge(s, r, next)
    \/ /\ ~s.failed
       /\ SetupEdge(s, r, next) \/ ParameterEdge(s, r, next) \/ PowerEdge(s, r, next)

NextPhase(s, r, next) ==
    \/ StopEdge(s, r, next)
    \/ /\ ~s.failed
       /\ \/ RenegotiateServiceEdge(s, r, next)
          \/ SetupEdge(s, r, next)
          \/ ParameterEdge(s, r, next)
          \/ PowerEdge(s, r, next)

(* Flow::permits for -20: the message set first, then the graph.            *)
Permits(s, r) == Admits(s, r.set) /\ \E next \in Phases : NextPhase(s, r, next)

(* The service a request leaves selected.                                   *)
TransferAfter(s, r) ==
    IF r.name = "ServiceSelection" THEN EnergyTransfer(r.arg)
    ELSE IF UnwindsService(r) THEN NoTransfer ELSE s.transfer

(* Coming back to the parameters from a charge is a renegotiation, and a    *)
(* service renegotiation forgets it.                                        *)
BackFromCharge(s, next) ==
    next = "ChargeParameters" /\ s.phase \in {"Charging", "Standby", "PowerStopped"}

RenegotiatedForGood(s, r, next) == s.renegotiated \/ BackFromCharge(s, next)

RenegotiatedFromStandby(s, r, next) ==
    ~UnwindsService(r) /\ (s.renegotiated \/ (next = "ChargeParameters" /\ s.phase = "Standby"))

RenegotiatedAfter(s, r, next) ==
    ~UnwindsService(r) /\ (s.renegotiated \/ BackFromCharge(s, next))

(* accept_processing: what the sequencer becomes when r moves it to next.   *)
Accepted(s, r, next) ==
    [s EXCEPT
        !.phase = next,
        !.transfer = TransferAfter(s, r),
        !.renegotiated = RenegotiatedAfter(s, r, next),
        !.starting = r.ongoing /\ r.name = "PowerDelivery" /\ r.arg = "Start"]

Failed(s) == [s EXCEPT !.failed = TRUE]

(* resume: a paused session picked up just after SessionSetup.              *)
Resumed(s, transfer) ==
    [s EXCEPT !.transfer = transfer, !.phase = "ServiceSelected",
              !.renegotiated = FALSE, !.starting = FALSE]

(* Phase::loop_timeout, as in ISO 15118-2, and the schedule exchange.       *)
OngoingLoops == {"ChargeParameters", "ScheduleExchanged", "WeldingDetection"}
=============================================================================

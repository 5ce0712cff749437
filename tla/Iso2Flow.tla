------------------------------ MODULE Iso2Flow ------------------------------
(***************************************************************************)
(* The ISO 15118-2 message-ordering graph (session/iso2/mod.rs) as         *)
(* operators on a sequencer value.  A sequencer is a record with the       *)
(* fields of the Rust struct; both the station and the vehicle carry one.  *)
(* The module has no variables: Iso2Sequencer turns it into a state        *)
(* machine and Flow makes it one of the two flows a session can run.       *)
(***************************************************************************)
EXTENDS Naturals

None == "none"

Securities == {"None", "Tls"}

PaymentOptions == {"Contract", "ExternalPayment"}

AcModes == {"AC_single_phase_core", "AC_three_phase_core"}
DcModes == {"DC_core", "DC_extended", "DC_combo_core", "DC_unique"}
EnergyTransferModes == AcModes \cup DcModes

ChargeProgress == {"Start", "Stop", "Renegotiate"}

ChargingSessions == {"Terminate", "Pause"}

(* A request carries a value only where the next legal request depends on   *)
(* it; Req builds the ones that carry none.                                 *)
Req(name) == [name |-> name, arg |-> None]
PaymentServiceSelection(option) == [name |-> "PaymentServiceSelection", arg |-> option]
ChargeParameterDiscovery(mode) == [name |-> "ChargeParameterDiscovery", arg |-> mode]
PowerDelivery(progress) == [name |-> "PowerDelivery", arg |-> progress]
SessionStop(how) == [name |-> "SessionStop", arg |-> how]

PlainRequestNames ==
    {"SessionSetup", "ServiceDiscovery", "ServiceDetail", "CertificateInstallation",
     "CertificateUpdate", "PaymentDetails", "Authorization", "CableCheck", "PreCharge",
     "ChargingStatus", "CurrentDemand", "MeteringReceipt", "WeldingDetection"}

Requests ==
    {Req(n) : n \in PlainRequestNames}
        \cup {PaymentServiceSelection(o) : o \in PaymentOptions}
        \cup {ChargeParameterDiscovery(m) : m \in EnergyTransferModes}
        \cup {PowerDelivery(p) : p \in ChargeProgress}
        \cup {SessionStop(h) : h \in ChargingSessions}

Phases ==
    {"Start", "SessionSetup", "ServiceDiscovery", "ServiceSelected",
     "CertificateInstalled", "PaymentDetails", "Authorized", "ChargeParameters",
     "CableCheck", "PreCharge", "Charging", "PowerStopped", "WeldingDetection",
     "Paused", "Stopped"}

TransferUnmapped(mode) == mode

(* Transfer::from: the two AC modes are AC and everything else is DC.       *)
Transfer(mode) == IF mode \in AcModes THEN "Ac" ELSE "Dc"

Sequencers ==
    [phase : Phases, security : Securities, transfer : {None, "Ac", "Dc"},
     payment : {None} \cup PaymentOptions, renegotiated : BOOLEAN, failed : BOOLEAN]

New(security) ==
    [phase |-> "Start", security |-> security, transfer |-> None, payment |-> None,
     renegotiated |-> FALSE, failed |-> FALSE]

IsFinished(s) == s.phase \in {"Stopped", "Paused"}
IsPaused(s) == s.phase = "Paused"

PermitsOverAnything(security) == security \in Securities

PermitsPlugAndCharge(security) == security = "Tls"

-----------------------------------------------------------------------------
(* next_phase, as the relation "in sequencer s, request r leads to next".   *)

(* SessionStopReq is legal from every established phase, but a pause is     *)
(* refused in the phases the code takes to mean that the cable is live.     *)
Established(s) == s.phase \notin {"Start", "Stopped", "Paused"}

PauseDuringLoop(s) == s.phase \notin {"CableCheck", "PreCharge"}

MayPause(s) == s.phase \notin {"CableCheck", "PreCharge", "Charging"}

StopEdge(s, r, next) ==
    /\ Established(s)
    /\ \/ r = SessionStop("Terminate") /\ next = "Stopped"
       \/ r = SessionStop("Pause") /\ MayPause(s) /\ next = "Paused"

(* A certificate exchange lands in a phase of its own, so that only         *)
(* PaymentDetailsReq can follow it.                                         *)
AfterCertificate == "CertificateInstalled"

(* From the first request to the charge parameters.                         *)
SetupEdge(s, r, next) ==
    LET contract == s.payment = "Contract" IN
    \/ s.phase = "Start" /\ r = Req("SessionSetup") /\ next = "SessionSetup"
    \/ s.phase = "SessionSetup" /\ r = Req("ServiceDiscovery") /\ next = "ServiceDiscovery"
    \/ s.phase = "ServiceDiscovery" /\ r = Req("ServiceDetail") /\ next = "ServiceDiscovery"
    \/ /\ s.phase = "ServiceDiscovery"
       /\ \/ r = PaymentServiceSelection("ExternalPayment")
          \/ r = PaymentServiceSelection("Contract") /\ PermitsPlugAndCharge(s.security)
       /\ next = "ServiceSelected"
    \/ /\ s.phase = "ServiceSelected" /\ contract
       /\ r \in {Req("CertificateInstallation"), Req("CertificateUpdate")}
       /\ next = AfterCertificate
    \/ /\ s.phase \in {"ServiceSelected", "CertificateInstalled"} /\ contract
       /\ r = Req("PaymentDetails")
       /\ next = "PaymentDetails"
    \/ /\ \/ s.phase = "ServiceSelected" /\ ~contract
          \/ s.phase \in {"PaymentDetails", "Authorized"}
       /\ r = Req("Authorization")
       /\ next = "Authorized"

(* Where ChargeParameterDiscoveryReq is legal: on the way up, and in DC     *)
(* again once the power has stopped or, under a contract, from the loop.    *)
DiscoversUnauthorized(s) == s.phase \in {"ServiceSelected", "Authorized", "ChargeParameters"}

MayDiscover(s) ==
    LET dc == s.transfer = "Dc" IN
    \/ s.phase \in {"Authorized", "ChargeParameters"}
    \/ s.phase = "PowerStopped" /\ dc
    \/ s.phase = "Charging" /\ dc /\ s.payment = "Contract"

(* Power follows the parameters directly in AC, and in DC only when the     *)
(* isolation test and the pre-charge are taken to be behind the session.    *)
PowersUpUntested(s) == s.phase \in {"ChargeParameters", "PreCharge"}

MayPowerUp(s) ==
    \/ s.phase = "ChargeParameters" /\ (s.transfer # "Dc" \/ s.renegotiated)
    \/ s.phase = "PreCharge"

(* From the charge parameters to power, the charge loop and back.           *)
ChargeEdge(s, r, next) ==
    LET dc == s.transfer = "Dc"
        contract == s.payment = "Contract"
    IN
    \/ MayDiscover(s) /\ r.name = "ChargeParameterDiscovery" /\ next = "ChargeParameters"
    \/ s.phase = "ChargeParameters" /\ dc /\ r = Req("CableCheck") /\ next = "CableCheck"
    \/ s.phase = "CableCheck" /\ r = Req("CableCheck") /\ next = "CableCheck"
    \/ s.phase \in {"CableCheck", "PreCharge"} /\ r = Req("PreCharge") /\ next = "PreCharge"
    \/ MayPowerUp(s) /\ r = PowerDelivery("Start") /\ next = "Charging"
    \/ /\ s.phase = "Charging" /\ next = "Charging"
       /\ \/ r = Req("ChargingStatus") /\ ~dc
          \/ r = Req("CurrentDemand") /\ dc
          \/ r = Req("MeteringReceipt") /\ contract
    \/ s.phase = "Charging" /\ r = PowerDelivery("Renegotiate") /\ next = "ChargeParameters"
    \/ s.phase = "Charging" /\ r = PowerDelivery("Stop") /\ next = "PowerStopped"
    \/ /\ \/ s.phase = "PowerStopped" /\ dc
          \/ s.phase = "WeldingDetection"
       /\ r = Req("WeldingDetection")
       /\ next = "WeldingDetection"

(* After a FAILED response only the session stop is left.                   *)
NextPhaseUnlatched(s, r, next) ==
    StopEdge(s, r, next) \/ SetupEdge(s, r, next) \/ ChargeEdge(s, r, next)

NextPhase(s, r, next) ==
    \/ StopEdge(s, r, next)
    \/ ~s.failed /\ (SetupEdge(s, r, next) \/ ChargeEdge(s, r, next))

Permits(s, r) == \E next \in Phases : NextPhase(s, r, next)

(* Coming back to the parameters from the charge loop, or after the power   *)
(* stopped, is a renegotiation whichever request did it.                    *)
RenegotiatesOnlyStopped(s, next) == next = "ChargeParameters" /\ s.phase = "PowerStopped"

Renegotiates(s, next) ==
    next = "ChargeParameters" /\ s.phase \in {"Charging", "PowerStopped"}

(* accept: what the sequencer becomes when r moves it to next.              *)
Accepted(s, r, next) ==
    [s EXCEPT
        !.phase = next,
        !.payment = IF r.name = "PaymentServiceSelection" THEN r.arg ELSE @,
        !.transfer = IF r.name = "ChargeParameterDiscovery" THEN Transfer(r.arg) ELSE @,
        !.renegotiated = @ \/ Renegotiates(s, next)]

Failed(s) == [s EXCEPT !.failed = TRUE]

(* Phase::loop_timeout: the phases the general budget bounds, besides the   *)
(* authorization and the two DC safety loops.                               *)
OngoingLoops == {"ChargeParameters", "WeldingDetection"}
=============================================================================

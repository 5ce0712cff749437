--------------------------- MODULE Iso2Sequencer ----------------------------
(***************************************************************************)
(* One ISO 15118-2 sequencer driven by any peer: every request that the    *)
(* graph accepts may arrive at any time, and a FAILED answer may go past   *)
(* at any time.  A refused request leaves the sequencer where it was, so   *)
(* it is a stuttering step.                                                *)
(*                                                                         *)
(* The sequencer records messages; what matters is what they did to the    *)
(* plug.  The history variables record that: which safety steps ran, and   *)
(* whether power has been switched on and not off again.                   *)
(***************************************************************************)
EXTENDS Iso2Flow

VARIABLES
    seq,         \* the Sequencer
    authorized,  \* history: an AuthorizationReq was accepted
    isolated,    \* history: a CableCheckReq was accepted
    precharged,  \* history: a PreChargeReq was accepted
    live,        \* history: PowerDelivery(Start) without a Stop since
    acCharged,   \* history: power was delivered over AC in this session
    exchanges    \* history: certificate exchanges accepted

vars == <<seq, authorized, isolated, precharged, live, acCharged, exchanges>>

(* The fields of the sequencer, and what happened at the plug, keep their   *)
(* types through every order of accept and failed.                          *)
TypeOK ==
    /\ seq \in Sequencers
    /\ authorized \in BOOLEAN
    /\ isolated \in BOOLEAN
    /\ precharged \in BOOLEAN
    /\ live \in BOOLEAN
    /\ acCharged \in BOOLEAN
    /\ exchanges \in Nat

Init ==
    /\ \E security \in Securities : seq = New(security)
    /\ authorized = FALSE
    /\ isolated = FALSE
    /\ precharged = FALSE
    /\ live = FALSE
    /\ acCharged = FALSE
    /\ exchanges = 0

(* What an accepted request does at the plug.                               *)
Observe(r) ==
    /\ authorized' = (authorized \/ r.name = "Authorization")
    /\ isolated' = (isolated \/ r.name = "CableCheck")
    /\ precharged' = (precharged \/ r.name = "PreCharge")
    /\ live' = ((live \/ r = PowerDelivery("Start")) /\ r # PowerDelivery("Stop"))
    /\ acCharged' = (acCharged \/ (r = PowerDelivery("Start") /\ seq.transfer # "Dc"))
    /\ exchanges' = IF r.name \in {"CertificateInstallation", "CertificateUpdate"}
                    THEN exchanges + 1 ELSE exchanges

Accept(r) ==
    \E next \in Phases :
        /\ NextPhase(seq, r, next)
        /\ seq' = Accepted(seq, r, next)
        /\ Observe(r)

Fail ==
    /\ seq' = Failed(seq)
    /\ UNCHANGED <<authorized, isolated, precharged, live, acCharged, exchanges>>

Next ==
    \/ \E r \in Requests : Accept(r)
    \/ Fail

Spec == Init /\ [][Next]_vars

-----------------------------------------------------------------------------
Delivering == {"Charging", "PowerStopped", "WeldingDetection"}

(* A contract is selected only over TLS, wherever the session goes next:    *)
(* the refusal of PaymentServiceSelection in next_phase is the only gate.   *)
PlugAndChargeNeedsTls ==
    seq.payment = "Contract" => seq.security = "Tls"

(* No request order reaches the charge parameters, or power, without an     *)
(* accepted AuthorizationReq.                                               *)
PowerNeedsAuthorization ==
    seq.phase \in {"ChargeParameters", "CableCheck", "PreCharge"} \cup Delivering
        => authorized

(* DC power flows only after an isolation test and a pre-charge, in every   *)
(* session that never delivered AC power before.                            *)
DcPowerNeedsIsolation ==
    (seq.phase = "Charging" /\ seq.transfer = "Dc" /\ ~acCharged)
        => (isolated /\ precharged)

(* What the comment on `renegotiated` says of every session: DC power flows *)
(* only with the isolation test and the pre-charge behind it.               *)
IsolationIsAlwaysBehindDcPower ==
    (seq.phase = "Charging" /\ seq.transfer = "Dc") => (isolated /\ precharged)

(* A pause accepted with the power on interrupts a renegotiation: the       *)
(* session stands at the charge parameters it came back to, never in the    *)
(* charge loop, before a charge or in the repeated safety steps.            *)
LivePauseLeavesRenegotiation ==
    [][(~IsPaused(seq) /\ IsPaused(seq') /\ live)
            => seq.phase = "ChargeParameters" /\ seq.renegotiated]_vars

(* What the comment on the pause rule says: a pause is never accepted while *)
(* power delivery has not been stopped.                                     *)
PausedMeansPowerOff ==
    seq.phase = "Paused" => ~live

(* A vehicle that comes back to the parameters with its contactors closed   *)
(* can always go on charging: PowerDelivery(Start) is permitted at once.    *)
RenegotiationCanComplete ==
    (seq.phase = "ChargeParameters" /\ live /\ ~seq.failed)
        => Permits(seq, PowerDelivery("Start"))

(* The certificate exchange reaches the backend at most once per session.   *)
OneCertificateExchange == exchanges <= 1

(* After a FAILED response the session only ends: the latch stays, and no   *)
(* step moves the phase anywhere but Paused or Stopped.                     *)
FailureIsFinal ==
    [][seq.failed => /\ seq'.failed
                     /\ seq'.phase \in {seq.phase, "Paused", "Stopped"}]_vars

(* How a session is paid for is decided once, and a finished session stays  *)
(* where it finished.                                                       *)
DecisionsAreFinal ==
    [][/\ seq.payment # None => seq'.payment = seq.payment
       /\ IsFinished(seq) => seq'.phase = seq.phase]_vars
=============================================================================

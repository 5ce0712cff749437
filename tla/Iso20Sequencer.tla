--------------------------- MODULE Iso20Sequencer ---------------------------
(***************************************************************************)
(* One ISO 15118-20 sequencer driven by any peer, in the manner of         *)
(* Iso2Sequencer, with the application's resume of a paused session, which *)
(* happens while SessionSetupReq is being answered.                        *)
(***************************************************************************)
EXTENDS Iso20Flow

VARIABLES
    seq,         \* the Sequencer
    authorized,  \* history: an AuthorizationReq was accepted
    resumed,     \* history: the session was picked up after a pause
    isolated,    \* history: CableCheckReq accepted under the selected service
    precharged,  \* history: PreChargeReq accepted under the selected service
    live,        \* history: PowerDelivery(Start) without a Stop or Standby since
    unwound      \* history: the service was renegotiated with the power on, and
                 \* its successor has not switched it on again

vars == <<seq, authorized, resumed, isolated, precharged, live, unwound>>

(* The fields of the sequencer, and what happened at the plug, keep their   *)
(* types through every order of accept_processing, failed and resume.       *)
TypeOK ==
    /\ seq \in Sequencers
    /\ authorized \in BOOLEAN
    /\ resumed \in BOOLEAN
    /\ isolated \in BOOLEAN
    /\ precharged \in BOOLEAN
    /\ live \in BOOLEAN
    /\ unwound \in BOOLEAN

Init ==
    /\ seq = New
    /\ authorized = FALSE
    /\ resumed = FALSE
    /\ isolated = FALSE
    /\ precharged = FALSE
    /\ live = FALSE
    /\ unwound = FALSE

PowerOn(r) == r.name = "PowerDelivery" /\ r.arg = "Start"

PowerOff(r) == r.name = "PowerDelivery" /\ r.arg \in {"Stop", "Standby"}

(* A service renegotiation ends the service and its safety steps.  It is    *)
(* accepted with the power on, and no request switches the power off.       *)
ServiceEnds(r) == r.name = "SessionStop" /\ r.arg = "ServiceRenegotiation"

(* What an accepted request does at the plug.                               *)
Observe(r) ==
    /\ authorized' = (authorized \/ r.name = "Authorization")
    /\ isolated' = ((isolated \/ r.name = "CableCheck") /\ ~ServiceEnds(r))
    /\ precharged' = ((precharged \/ r.name = "PreCharge") /\ ~ServiceEnds(r))
    /\ live' = ((live \/ PowerOn(r)) /\ ~PowerOff(r))
    /\ unwound' = (live' /\ (unwound \/ ServiceEnds(r)) /\ ~PowerOn(r))
    /\ UNCHANGED resumed

Accept(r) ==
    \E next \in Phases :
        /\ Admits(seq, r.set)
        /\ NextPhase(seq, r, next)
        /\ seq' = Accepted(seq, r, next)
        /\ Observe(r)

Fail ==
    /\ seq' = Failed(seq)
    /\ UNCHANGED <<authorized, resumed, isolated, precharged, live, unwound>>

(* The code checks nothing here: that resume goes with an answer            *)
(* OK_OldSessionJoined to SessionSetupReq, so in a session that has not     *)
(* failed, is the contract its documentation gives the application.         *)
Resume(transfer) ==
    /\ seq.phase = "SessionSetup" /\ ~seq.failed
    /\ seq' = Resumed(seq, transfer)
    /\ resumed' = TRUE
    /\ UNCHANGED <<authorized, isolated, precharged, live, unwound>>

Next ==
    \/ \E r \in Requests : Accept(r)
    \/ Fail
    \/ \E id \in ServiceIds : Resume(EnergyTransfer(id))

Spec == Init /\ [][Next]_vars

-----------------------------------------------------------------------------
(* No request order, service renegotiation included, gets past              *)
(* authorization without an AuthorizationReq or a resumed session.          *)
ServiceNeedsAuthorization ==
    seq.phase \in {"Authorized", "ServiceDiscovery"} \cup ServicePhases
        => authorized \/ resumed

(* DC power - a pantograph's and a megawatt charger's included - flows only *)
(* after an isolation test and a pre-charge under the service that is       *)
(* delivering, across schedule and service renegotiations.                  *)
DcPowerNeedsIsolation ==
    (seq.phase \in {"Charging", "Standby", "PowerStopped"} /\ IsDc(seq.transfer.service))
        => (isolated /\ precharged)

(* The sequencer names a service exactly while one is selected, so admits   *)
(* lets no energy transfer message through outside the selected service.    *)
ServiceNamedWhileSelected ==
    /\ seq.phase \in ServicePhases => seq.transfer # NoTransfer
    /\ seq.transfer # NoTransfer => seq.phase \in ServicePhases \cup {"Paused", "Stopped"}

(* A pause accepted with the power on interrupts a renegotiation: of the    *)
(* schedule, at the parameters it came back to or at the new schedule; or   *)
(* of the service, on its way from authorization to the new schedule.       *)
(* Never the charge loop, and never the safety steps before power.          *)
LivePauseLeavesRenegotiation ==
    [][(~IsPaused(seq) /\ IsPaused(seq') /\ live)
            => \/ /\ seq.phase \in {"ChargeParameters", "ScheduleExchanged"}
                  /\ seq.renegotiated \/ unwound
               \/ /\ seq.phase \in {"Authorized", "ServiceDiscovery", "ServiceSelected"}
                  /\ unwound]_vars

(* What the comment on the pause rule says: no pause is accepted while the  *)
(* cable is live.  A service renegotiation is given the benefit of the      *)
(* comment on its arm, which takes its contactors to be open.               *)
PausedMeansPowerOff ==
    (seq.phase = "Paused" /\ ~unwound) => ~live

(* A schedule renegotiation comes back with power flowing; once the new     *)
(* schedule is there PowerDelivery(Start) is permitted, in DC as in AC.     *)
RenegotiationCanComplete ==
    (seq.phase = "ScheduleExchanged" /\ live /\ ~unwound /\ ~seq.failed)
        => Permits(seq, Message("PowerDelivery", "Start", "Main", FALSE))

(* After a FAILED response the session only ends: the latch stays and the   *)
(* phase moves only to Paused or Stopped, service renegotiation included.   *)
FailureIsFinal ==
    [][seq.failed => /\ seq'.failed
                     /\ seq'.phase \in {seq.phase, "Paused", "Stopped"}]_vars
=============================================================================

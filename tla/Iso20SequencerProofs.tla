------------------------ MODULE Iso20SequencerProofs ------------------------
(***************************************************************************)
(* The safety invariants of Iso20Sequencer, proved for every behaviour, in *)
(* the manner of Iso2SequencerProofs.  SafetyInv adds to them what the     *)
(* phases and the flag `renegotiated` stand for: which safety step is      *)
(* behind each phase, that the flag is the selected service's and dies     *)
(* with it, and in which phases the power can be on, before and after a    *)
(* service was renegotiated under it.                                      *)
(***************************************************************************)
EXTENDS Iso20Sequencer, TLAPS

(* The phases that lie behind authorization, and behind power.              *)
Paid == {"Authorized", "ServiceDiscovery"} \cup ServicePhases
Powered == {"Charging", "Standby", "PowerStopped", "WeldingDetection"}
Finished == {"Paused", "Stopped"}

(* The phases a renegotiation goes through on its way back to power: of the *)
(* schedule, and, before those, of the service.                             *)
Recharging == {"ChargeParameters", "ScheduleExchanged", "CableCheck", "PreCharge"}
Reselecting == {"Authorized", "ServiceDiscovery", "ServiceSelected"}

SafetyInv ==
    /\ TypeOK
    /\ ServiceNeedsAuthorization
    /\ ServiceNamedWhileSelected
    /\ seq.phase = "CableCheck" => isolated
    /\ seq.phase = "PreCharge" => isolated /\ precharged
    /\ (seq.renegotiated \/ seq.phase \in Powered) /\ IsDc(seq.transfer.service)
            => isolated /\ precharged
    /\ seq.renegotiated => seq.phase \in ServicePhases \cup Finished
    /\ (live /\ ~unwound) => \/ seq.phase \in {"Charging"} \cup Finished
                             \/ seq.renegotiated /\ seq.phase \in Recharging
    /\ unwound => live /\ seq.phase \in Reselecting \cup Recharging \cup Finished

USE DEF None

(* A service is selected by one of the assigned ids.                        *)
LEMMA RequestArgs ==
    ASSUME NEW r \in Requests
    PROVE  r.name = "ServiceSelection" => r.arg \in ServiceIds
BY DEF Requests, AcdpRequests, Message, MainRequestNames

(* Every service id names an energy transfer.                               *)
LEMMA EnergyTransferType ==
    ASSUME NEW id \in ServiceIds
    PROVE  EnergyTransfer(id) \in EnergyTransfers /\ EnergyTransfer(id) # NoTransfer
<1>1. FromServiceId(id) \in Services
  BY DEF FromServiceId, ServiceIds, Services
<1>2. Bidirectional(id) \in BOOLEAN
  BY DEF Bidirectional
<1>3. EnergyTransfer(id) \in EnergyTransfers
  BY <1>1, <1>2 DEF EnergyTransfer, EnergyTransfers
<1>4. EnergyTransfer(id).service # NoTransfer.service
  BY <1>1 DEF EnergyTransfer, NoTransfer, Services
<1>5. QED
  BY <1>3, <1>4

(* accept_processing leaves a sequencer a sequencer; its fields one by one. *)
LEMMA AcceptedFields ==
    ASSUME NEW s \in Sequencers, NEW r \in Requests, NEW next \in Phases
    PROVE  LET t == Accepted(s, r, next) IN
           /\ t \in Sequencers
           /\ t.phase = next
           /\ t.transfer = TransferAfter(s, r)
           /\ t.renegotiated <=> RenegotiatedAfter(s, r, next)
           /\ t.failed = s.failed
<1>1. TransferAfter(s, r) \in EnergyTransfers \cup {NoTransfer}
  BY RequestArgs, EnergyTransferType DEF TransferAfter, Sequencers
<1>2. /\ RenegotiatedAfter(s, r, next) \in BOOLEAN
      /\ (r.ongoing /\ r.name = "PowerDelivery" /\ r.arg = "Start") \in BOOLEAN
  BY DEF RenegotiatedAfter
<1>3. QED
  BY <1>1, <1>2 DEF Accepted, Sequencers

(* The graph read backwards: what an accepted request was, and where the    *)
(* session stood, by the phase the request led to.                          *)
LEMMA EdgesInto ==
    ASSUME NEW s, NEW r, NEW next, NextPhase(s, r, next)
    PROVE  /\ next = "Authorized" => \/ r.name = "Authorization"
                                     \/ UnwindsService(r) /\ s.phase \in ServicePhases
           /\ next = "ServiceDiscovery" => s.phase \in {"Authorized", "ServiceDiscovery"}
           /\ next = "ServiceSelected" => \/ s.phase = "ServiceSelected"
                                          \/ /\ s.phase = "ServiceDiscovery"
                                             /\ r.name = "ServiceSelection"
           /\ next \in ServicePhases \ {"ServiceSelected"} => s.phase \in ServicePhases
           /\ next = "CableCheck" => r.name = "CableCheck"
           /\ next = "PreCharge" => r.name = "PreCharge" /\ s.phase \in {"CableCheck", "PreCharge"}
           /\ next = "Charging" =>
                \/ s.phase \in {"PreCharge", "Standby", "Charging"}
                \/ s.phase = "ScheduleExchanged" /\ (~IsDc(s.transfer.service) \/ s.renegotiated)
           /\ next \in Powered \ {"Charging"} => s.phase \in Powered
<1>1. CASE StopEdge(s, r, next)
  BY <1>1 DEF StopEdge, ServicePhases, Powered
<1>2. CASE RenegotiateServiceEdge(s, r, next)
  BY <1>2 DEF RenegotiateServiceEdge, ServicePhases, Powered
<1>3. CASE SetupEdge(s, r, next)
  BY <1>3 DEF SetupEdge, MaySelect, ServicePhases, Powered
<1>4. CASE ParameterEdge(s, r, next)
  BY <1>4 DEF ParameterEdge, ServicePhases, Powered
<1>5. CASE PowerEdge(s, r, next)
  BY <1>5 DEF PowerEdge, ServicePhases, Powered
<1>6. QED
  BY <1>1, <1>2, <1>3, <1>4, <1>5 DEF NextPhase

(* The same graph read forwards.                                            *)
LEMMA EdgesOutOf ==
    ASSUME NEW s, NEW r, NEW next, NextPhase(s, r, next)
    PROVE  /\ s.phase \notin Finished
           /\ s.phase \in ServicePhases =>
                \/ next \in ServicePhases \cup Finished
                \/ next = "Authorized" /\ UnwindsService(r)
           /\ s.phase = "Charging" =>
                \/ next \in {"Charging", "ChargeParameters", "Stopped"}
                \/ PowerOff(r) \/ UnwindsService(r)
           /\ s.phase \in Recharging =>
                \/ next \in Recharging \cup Finished
                \/ PowerOn(r) \/ UnwindsService(r)
           /\ s.phase \in Reselecting =>
                next \in Reselecting \cup {"ChargeParameters"} \cup Finished
           /\ next = "Paused" => s.phase \notin {"CableCheck", "PreCharge", "Charging"}
           /\ PowerOn(r) => next = "Charging"
           /\ r.name = "ServiceSelection" => next = "ServiceSelected" /\ s.phase = "ServiceDiscovery"
           /\ UnwindsService(r) => next = "Authorized"
<1>1. CASE StopEdge(s, r, next)
  BY <1>1 DEF StopEdge, MayPause, Established, Finished, PowerOn, UnwindsService, ServicePhases,
     Recharging, Reselecting
<1>2. CASE RenegotiateServiceEdge(s, r, next)
  BY <1>2 DEF RenegotiateServiceEdge, ServicePhases, Finished, PowerOn, UnwindsService, Reselecting
<1>3. CASE SetupEdge(s, r, next)
  BY <1>3 DEF SetupEdge, MaySelect, ServicePhases, Finished, PowerOn, UnwindsService, Recharging,
     Reselecting
<1>4. CASE ParameterEdge(s, r, next)
  BY <1>4 DEF ParameterEdge, ServicePhases, Finished, PowerOn, UnwindsService, Recharging,
     Reselecting
<1>5. CASE PowerEdge(s, r, next)
  BY <1>5 DEF PowerEdge, ServicePhases, Finished, PowerOn, PowerOff, UnwindsService, Recharging,
     Reselecting
<1>6. QED
  BY <1>1, <1>2, <1>3, <1>4, <1>5 DEF NextPhase

(* No service, no DC.                                                       *)
LEMMA NoServiceIsNotDc == ~IsDc(NoTransfer.service)
BY DEF IsDc, NoTransfer

(* An accepted request preserves the invariant.                             *)
LEMMA AcceptPreserves ==
    ASSUME SafetyInv, NEW r \in Requests, Accept(r)
    PROVE  SafetyInv'
<1>0. seq \in Sequencers
  BY DEF SafetyInv, TypeOK
<1>1. PICK next \in Phases : /\ NextPhase(seq, r, next)
                             /\ seq' = Accepted(seq, r, next)
                             /\ Observe(r)
  BY DEF Accept
<1>2. /\ seq' \in Sequencers
      /\ seq'.phase = next
      /\ seq'.transfer = TransferAfter(seq, r)
      /\ seq'.renegotiated <=> RenegotiatedAfter(seq, r, next)
  BY <1>0, <1>1, AcceptedFields
<1>3. /\ authorized' <=> (authorized \/ r.name = "Authorization")
      /\ resumed' = resumed
      /\ isolated' <=> ((isolated \/ r.name = "CableCheck") /\ ~UnwindsService(r))
      /\ precharged' <=> ((precharged \/ r.name = "PreCharge") /\ ~UnwindsService(r))
      /\ live' <=> ((live \/ PowerOn(r)) /\ ~PowerOff(r))
      /\ unwound' <=> (live' /\ (unwound \/ UnwindsService(r)) /\ ~PowerOn(r))
  BY <1>1 DEF Observe, ServiceEnds, UnwindsService
<1>4. UnwindsService(r) => /\ next = "Authorized" /\ seq'.transfer = NoTransfer
                           /\ ~seq'.renegotiated
  BY <1>1, <1>2, EdgesOutOf DEF TransferAfter, UnwindsService, RenegotiatedAfter
<1>5. ~UnwindsService(r) /\ r.name # "ServiceSelection" => seq'.transfer = seq.transfer
  BY <1>2 DEF TransferAfter
<1>6. r.name = "ServiceSelection" => /\ seq.phase = "ServiceDiscovery" /\ next = "ServiceSelected"
                                     /\ seq'.transfer # NoTransfer
  BY <1>1, <1>2, EdgesOutOf, RequestArgs, EnergyTransferType DEF TransferAfter
<1>7. seq'.renegotiated => seq.renegotiated \/ BackFromCharge(seq, next)
  BY <1>2 DEF RenegotiatedAfter
<1>8. TypeOK'
  BY <1>1, <1>2 DEF TypeOK, Observe, SafetyInv
<1>9. ServiceNeedsAuthorization'
  BY <1>1, <1>2, <1>3, EdgesInto DEF SafetyInv, ServiceNeedsAuthorization, ServicePhases
<1>10. ServiceNamedWhileSelected'
  <2>1. next \in ServicePhases => seq'.transfer # NoTransfer
    BY <1>1, <1>4, <1>5, <1>6, EdgesInto DEF SafetyInv, ServiceNamedWhileSelected, ServicePhases
  <2>2. seq'.transfer # NoTransfer => next \in ServicePhases \cup Finished
    BY <1>1, <1>4, <1>5, <1>6, EdgesOutOf DEF SafetyInv, ServiceNamedWhileSelected, ServicePhases,
       Finished
  <2>3. QED
    BY <1>2, <2>1, <2>2 DEF ServiceNamedWhileSelected, Finished
<1>11. (seq.phase = "CableCheck" => isolated)'
  BY <1>1, <1>2, <1>3, <1>4, EdgesInto
<1>12. (seq.phase = "PreCharge" => isolated /\ precharged)'
  BY <1>1, <1>2, <1>3, <1>4, EdgesInto DEF SafetyInv
<1>13. ((seq.renegotiated \/ seq.phase \in Powered) /\ IsDc(seq.transfer.service)
        => isolated /\ precharged)'
  <2>1. CASE UnwindsService(r)
    BY <2>1, <1>4, NoServiceIsNotDc
  <2>2. CASE r.name = "ServiceSelection"
    BY <2>2, <1>2, <1>6, <1>7 DEF SafetyInv, BackFromCharge, ServicePhases, Finished, Powered
  <2>3. CASE ~UnwindsService(r) /\ r.name # "ServiceSelection"
    BY <2>3, <1>1, <1>2, <1>3, <1>5, <1>7, EdgesInto DEF SafetyInv, BackFromCharge, Powered
  <2>4. QED
    BY <2>1, <2>2, <2>3
<1>14. (seq.renegotiated => seq.phase \in ServicePhases \cup Finished)'
  BY <1>1, <1>2, <1>4, <1>7, EdgesOutOf DEF SafetyInv, BackFromCharge, ServicePhases
<1>15. ((live /\ ~unwound) => \/ seq.phase \in {"Charging"} \cup Finished
                              \/ seq.renegotiated /\ seq.phase \in Recharging)'
  <2> SUFFICES ASSUME live', ~unwound'
               PROVE  \/ next \in {"Charging"} \cup Finished
                      \/ seq'.renegotiated /\ next \in Recharging
    BY <1>2
  <2>1. CASE PowerOn(r)
    BY <2>1, <1>1, EdgesOutOf
  <2>2. CASE ~PowerOn(r)
    <3>1. live /\ ~unwound /\ ~PowerOff(r) /\ ~UnwindsService(r)
      BY <2>2, <1>3
    <3>2. CASE seq.phase = "Charging"
      BY <3>1, <3>2, <1>1, <1>2, EdgesOutOf DEF RenegotiatedAfter, BackFromCharge, Recharging,
         Finished
    <3>3. CASE seq.phase # "Charging"
      BY <2>2, <3>1, <3>3, <1>1, <1>2, EdgesOutOf DEF SafetyInv, RenegotiatedAfter
    <3>4. QED
      BY <3>2, <3>3
  <2>3. QED
    BY <2>1, <2>2
<1>16. (unwound => live /\ seq.phase \in Reselecting \cup Recharging \cup Finished)'
  <2> SUFFICES ASSUME unwound'
               PROVE  live' /\ next \in Reselecting \cup Recharging \cup Finished
    BY <1>2
  <2>1. live' /\ ~PowerOn(r) /\ (unwound \/ UnwindsService(r))
    BY <1>3
  <2>2. CASE UnwindsService(r)
    BY <2>1, <2>2, <1>4 DEF Reselecting
  <2>3. CASE ~UnwindsService(r)
    BY <2>1, <2>3, <1>1, EdgesOutOf DEF SafetyInv, Recharging
  <2>4. QED
    BY <2>2, <2>3
<1>17. QED
  BY <1>8, <1>9, <1>10, <1>11, <1>12, <1>13, <1>14, <1>15, <1>16 DEF SafetyInv

(* A FAILED response sets the latch and nothing else.                       *)
LEMMA FailPreserves ==
    ASSUME SafetyInv, Fail
    PROVE  SafetyInv'
<1>1. /\ seq' \in Sequencers
      /\ seq'.phase = seq.phase /\ seq'.transfer = seq.transfer
      /\ seq'.renegotiated = seq.renegotiated
  BY DEF SafetyInv, TypeOK, Fail, Failed, Sequencers
<1>2. QED
  BY <1>1 DEF SafetyInv, TypeOK, Fail, ServiceNeedsAuthorization, ServiceNamedWhileSelected

(* A resumed session starts with its service and none of its safety steps.  *)
LEMMA ResumePreserves ==
    ASSUME SafetyInv, NEW id \in ServiceIds, Resume(EnergyTransfer(id))
    PROVE  SafetyInv'
<1>1. /\ seq' \in Sequencers
      /\ seq'.phase = "ServiceSelected" /\ seq'.transfer = EnergyTransfer(id)
      /\ ~seq'.renegotiated
  BY EnergyTransferType DEF SafetyInv, TypeOK, Resume, Resumed, Sequencers, Phases
<1>2. ~live /\ ~unwound /\ seq.phase = "SessionSetup"
  BY DEF Resume, SafetyInv, Recharging, Reselecting, Finished
<1>3. TypeOK' /\ ServiceNeedsAuthorization' /\ ServiceNamedWhileSelected'
  BY <1>1, EnergyTransferType DEF SafetyInv, TypeOK, Resume, ServiceNeedsAuthorization,
     ServiceNamedWhileSelected, ServicePhases
<1>4. QED
  BY <1>1, <1>2, <1>3 DEF SafetyInv, Resume, Powered

(* SafetyInv holds in every reachable state.                                *)
THEOREM SafetyInvariant == Spec => []SafetyInv
<1>1. Init => SafetyInv
  <2> SUFFICES ASSUME Init PROVE SafetyInv
    OBVIOUS
  <2>1. /\ seq \in Sequencers /\ seq.phase = "Start" /\ seq.transfer = NoTransfer
        /\ ~seq.renegotiated
    BY DEF Init, New, Sequencers, Phases
  <2>2. TypeOK
    BY <2>1 DEF Init, TypeOK
  <2>3. QED
    BY <2>1, <2>2 DEF Init, SafetyInv, ServiceNeedsAuthorization, ServiceNamedWhileSelected,
       ServicePhases, Powered
<1>2. SafetyInv /\ [Next]_vars => SafetyInv'
  <2> SUFFICES ASSUME SafetyInv, [Next]_vars PROVE SafetyInv'
    OBVIOUS
  <2>1. CASE \E r \in Requests : Accept(r)
    BY <2>1, AcceptPreserves
  <2>2. CASE Fail
    BY <2>2, FailPreserves
  <2>3. CASE \E id \in ServiceIds : Resume(EnergyTransfer(id))
    BY <2>3, ResumePreserves
  <2>4. CASE UNCHANGED vars
    BY <2>4 DEF vars, SafetyInv, TypeOK, ServiceNeedsAuthorization, ServiceNamedWhileSelected
  <2>5. QED
    BY <2>1, <2>2, <2>3, <2>4 DEF Next
<1>3. QED
  BY <1>1, <1>2, PTL DEF Spec

(* The sequencer's fields keep their types through every request order.     *)
THEOREM TypeCorrect == Spec => []TypeOK
<1>1. SafetyInv => TypeOK
  BY DEF SafetyInv
<1>2. QED
  BY <1>1, SafetyInvariant, PTL

(* Nothing past authorization is reached without an AuthorizationReq or a   *)
(* resumed session, however often the service is renegotiated.              *)
THEOREM AuthorizationFirst == Spec => []ServiceNeedsAuthorization
<1>1. SafetyInv => ServiceNeedsAuthorization
  BY DEF SafetyInv
<1>2. QED
  BY <1>1, SafetyInvariant, PTL

(* DC power is behind a cable check and a pre-charge under the very service *)
(* that delivers it: `renegotiated` is never set by another service.        *)
THEOREM IsolationFirst == Spec => []DcPowerNeedsIsolation
<1>1. SafetyInv => DcPowerNeedsIsolation
  BY DEF SafetyInv, DcPowerNeedsIsolation, Powered
<1>2. QED
  BY <1>1, SafetyInvariant, PTL

(* The sequencer names a service exactly while one is selected, so `admits` *)
(* lets no energy transfer message through outside the selected service.    *)
THEOREM ServiceNamed == Spec => []ServiceNamedWhileSelected
<1>1. SafetyInv => ServiceNamedWhileSelected
  BY DEF SafetyInv
<1>2. QED
  BY <1>1, SafetyInvariant, PTL

(* A pause accepted with the power on leaves one of the phases of a        *)
(* renegotiation before the safety steps, and no other.                     *)
THEOREM LivePause == Spec => LivePauseLeavesRenegotiation
<1> DEFINE A == (~IsPaused(seq) /\ IsPaused(seq') /\ live)
                    => \/ /\ seq.phase \in {"ChargeParameters", "ScheduleExchanged"}
                          /\ seq.renegotiated \/ unwound
                       \/ /\ seq.phase \in {"Authorized", "ServiceDiscovery", "ServiceSelected"}
                          /\ unwound
<1>1. SafetyInv /\ [Next]_vars => [A]_vars
  <2> SUFFICES ASSUME SafetyInv, Next PROVE A
    OBVIOUS
  <2>0. seq \in Sequencers
    BY DEF SafetyInv, TypeOK
  <2>1. CASE Fail
    BY <2>0, <2>1 DEF Fail, Failed, Sequencers, IsPaused
  <2>2. ASSUME NEW r \in Requests, Accept(r) PROVE A
    <3>1. PICK next \in Phases : NextPhase(seq, r, next) /\ seq' = Accepted(seq, r, next)
      BY <2>2 DEF Accept
    <3>2. IsPaused(seq') => /\ seq.phase \notin {"CableCheck", "PreCharge", "Charging"}
                            /\ seq.phase \notin Finished
      BY <2>0, <3>1, AcceptedFields, EdgesOutOf DEF IsPaused
    <3>3. QED
      BY <3>2 DEF SafetyInv, Recharging, Reselecting, Finished
  <2>3. CASE \E id \in ServiceIds : Resume(EnergyTransfer(id))
    BY <2>0, <2>3 DEF Resume, Resumed, Sequencers, IsPaused
  <2>4. QED
    BY <2>1, <2>2, <2>3 DEF Next
<1>2. QED
  BY <1>1, SafetyInvariant, PTL DEF Spec, LivePauseLeavesRenegotiation

(* A schedule renegotiation that comes back with power on can go on         *)
(* charging once the new schedule is there.                                 *)
THEOREM RenegotiationCompletes == Spec => []RenegotiationCanComplete
<1>1. SafetyInv => RenegotiationCanComplete
  <2> SUFFICES ASSUME SafetyInv, seq.phase = "ScheduleExchanged", live, ~unwound,
                      ~seq.failed
               PROVE  Permits(seq, Message("PowerDelivery", "Start", "Main", FALSE))
    BY DEF RenegotiationCanComplete
  <2> DEFINE r == Message("PowerDelivery", "Start", "Main", FALSE)
  <2>1. seq.renegotiated
    BY DEF SafetyInv, Finished
  <2>2. NextPhase(seq, r, "Charging")
    BY <2>1 DEF NextPhase, PowerEdge, Message
  <2>3. Admits(seq, r.set)
    BY DEF Admits, Message
  <2>4. QED
    BY <2>2, <2>3 DEF Permits, Phases
<1>2. QED
  BY <1>1, SafetyInvariant, PTL

(* Once a FAILED response went past, no request but a session stop moves    *)
(* the sequencer - a service renegotiation does not - and nothing clears    *)
(* the latch.                                                               *)
THEOREM FailureFinal == Spec => FailureIsFinal
<1> DEFINE A == seq.failed => seq'.failed /\ seq'.phase \in {seq.phase, "Paused", "Stopped"}
<1>1. SafetyInv /\ [Next]_vars => [A]_vars
  <2> SUFFICES ASSUME SafetyInv, Next, seq.failed
               PROVE  seq'.failed /\ seq'.phase \in {seq.phase, "Paused", "Stopped"}
    OBVIOUS
  <2>0. seq \in Sequencers
    BY DEF SafetyInv, TypeOK
  <2>1. CASE Fail
    BY <2>0, <2>1 DEF Fail, Failed, Sequencers
  <2>2. ASSUME NEW r \in Requests, Accept(r)
        PROVE  seq'.failed /\ seq'.phase \in {seq.phase, "Paused", "Stopped"}
    <3>1. PICK next \in Phases : StopEdge(seq, r, next) /\ seq' = Accepted(seq, r, next)
      BY <2>2 DEF Accept, NextPhase
    <3>2. QED
      BY <2>0, <3>1, AcceptedFields DEF StopEdge
  <2>3. QED
    BY <2>1, <2>2 DEF Next, Resume
<1>2. QED
  BY <1>1, SafetyInvariant, PTL DEF Spec, FailureIsFinal
=============================================================================

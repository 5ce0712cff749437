------------------------ MODULE Iso2SequencerProofs -------------------------
(***************************************************************************)
(* The safety invariants of Iso2Sequencer, proved for every behaviour.     *)
(*                                                                         *)
(* None of them is inductive by itself.  SafetyInv adds what the graph     *)
(* remembers implicitly in its phases: which safety step each phase        *)
(* stands behind, that the parameters phase has a transfer mode, and that  *)
(* power is on only in the charge loop or in a renegotiation.              *)
(***************************************************************************)
EXTENDS Iso2Sequencer, TLAPS

(* The phases that lie behind authorization.                                *)
Paid == {"ChargeParameters", "CableCheck", "PreCharge"} \cup Delivering

(* The phases before the payment is selected, and before a certificate      *)
(* exchange.                                                                *)
Unselected == {"Start", "SessionSetup", "ServiceDiscovery"}
Unpaid == Unselected \cup {"ServiceSelected"}

(* The phases a renegotiation goes through, from the loop back to power.    *)
Recharging == {"ChargeParameters", "CableCheck", "PreCharge"}

CertificateRequests == {"CertificateInstallation", "CertificateUpdate"}

SafetyInv ==
    /\ TypeOK
    /\ PlugAndChargeNeedsTls
    /\ seq.phase \in {"Authorized"} \cup Paid => authorized
    /\ seq.phase = "CableCheck" => isolated
    /\ seq.phase = "PreCharge" => isolated /\ precharged
    /\ (seq.renegotiated \/ seq.phase \in Delivering)
            => acCharged \/ (isolated /\ precharged)
    /\ live => \/ seq.phase \in {"Charging", "Paused", "Stopped"}
               \/ seq.renegotiated /\ seq.phase \in Recharging
    /\ seq.phase \in Unselected => seq.payment = None
    /\ seq.phase \in Unpaid => exchanges = 0
    /\ OneCertificateExchange

USE DEF None, Req, PaymentServiceSelection, ChargeParameterDiscovery, PowerDelivery,
        SessionStop

(* What a request carries.                                                  *)
LEMMA RequestArgs ==
    ASSUME NEW r \in Requests
    PROVE  /\ r.name = "PaymentServiceSelection" => r.arg \in PaymentOptions
           /\ r.name = "ChargeParameterDiscovery" => r.arg \in EnergyTransferModes
BY DEF Requests, PlainRequestNames

(* accept leaves a sequencer a sequencer.                                   *)
LEMMA AcceptedType ==
    ASSUME NEW s \in Sequencers, NEW r \in Requests, NEW next \in Phases
    PROVE  Accepted(s, r, next) \in Sequencers
<1>1. /\ (IF r.name = "PaymentServiceSelection" THEN r.arg ELSE s.payment)
            \in {None} \cup PaymentOptions
      /\ (IF r.name = "ChargeParameterDiscovery" THEN Transfer(r.arg) ELSE s.transfer)
            \in {None, "Ac", "Dc"}
  BY RequestArgs DEF Sequencers, Transfer
<1>2. (s.renegotiated \/ Renegotiates(s, next)) \in BOOLEAN
  BY DEF Renegotiates
<1>3. QED
  BY <1>1, <1>2 DEF Accepted, Sequencers

(* The fields of an accepted sequencer, one by one.                         *)
LEMMA AcceptedFields ==
    ASSUME NEW s \in Sequencers, NEW r, NEW next
    PROVE  LET t == Accepted(s, r, next) IN
           /\ t.phase = next
           /\ t.security = s.security
           /\ t.payment = IF r.name = "PaymentServiceSelection" THEN r.arg ELSE s.payment
           /\ t.transfer = IF r.name = "ChargeParameterDiscovery"
                           THEN Transfer(r.arg) ELSE s.transfer
           /\ t.renegotiated <=> (s.renegotiated \/ Renegotiates(s, next))
           /\ t.failed = s.failed
BY DEF Accepted, Sequencers

(* The graph read backwards: what an accepted request was, and where the    *)
(* session stood, by the phase the request led to.                          *)
LEMMA EdgesInto ==
    ASSUME NEW s, NEW r, NEW next, NextPhase(s, r, next)
    PROVE  /\ next = "Authorized" => r.name = "Authorization"
           /\ next = "ChargeParameters" => s.phase \in {"Authorized"} \cup Paid
           /\ next = "CableCheck" => /\ r.name = "CableCheck"
                                     /\ s.phase \in {"ChargeParameters", "CableCheck"}
           /\ next = "PreCharge" => /\ r.name = "PreCharge"
                                    /\ s.phase \in {"CableCheck", "PreCharge"}
           /\ next = "Charging" => \/ s.phase = "Charging"
                                   \/ MayPowerUp(s) /\ r = PowerDelivery("Start")
           /\ next = "PowerStopped" => s.phase = "Charging" /\ r = PowerDelivery("Stop")
           /\ next = "WeldingDetection" => s.phase \in {"PowerStopped", "WeldingDetection"}
           /\ next \in Unselected => /\ s.phase \in Unselected
                                     /\ r.name # "PaymentServiceSelection"
           /\ next \in Unpaid => s.phase \in Unpaid /\ r.name \notin CertificateRequests
<1>1. CASE StopEdge(s, r, next)
  BY <1>1 DEF StopEdge, MayPause, Unpaid, Unselected
<1>2. CASE SetupEdge(s, r, next)
  BY <1>2 DEF SetupEdge, AfterCertificate, Unpaid, Unselected, CertificateRequests
<1>3. CASE ChargeEdge(s, r, next)
  BY <1>3 DEF ChargeEdge, MayDiscover, Paid, Delivering, Unpaid, Unselected
<1>4. QED
  BY <1>1, <1>2, <1>3 DEF NextPhase

(* The same graph read forwards, where power is concerned.                  *)
LEMMA EdgesOutOf ==
    ASSUME NEW s, NEW r, NEW next, NextPhase(s, r, next)
    PROVE  /\ s.phase = "Charging" => next \in {"Charging", "ChargeParameters", "PowerStopped",
                                                "Stopped"}
           /\ s.phase \in Recharging => next \in Recharging \cup {"Charging", "Paused", "Stopped"}
           /\ next = "Paused" => s.phase \notin {"CableCheck", "PreCharge", "Charging"}
           /\ r = PowerDelivery("Start") => next = "Charging" /\ MayPowerUp(s)
           /\ s.phase \notin {"Stopped", "Paused"}
           /\ r.name = "PaymentServiceSelection" =>
                /\ s.phase = "ServiceDiscovery"
                /\ r.arg = "Contract" => s.security = "Tls"
           /\ r.name \in CertificateRequests => s.phase = "ServiceSelected"
<1>1. CASE StopEdge(s, r, next)
  BY <1>1 DEF StopEdge, MayPause, Established, CertificateRequests, Recharging
<1>2. CASE SetupEdge(s, r, next)
  BY <1>2 DEF SetupEdge, AfterCertificate, PermitsPlugAndCharge, CertificateRequests, Recharging
<1>3. CASE ChargeEdge(s, r, next)
  BY <1>3 DEF ChargeEdge, MayDiscover, MayPowerUp, CertificateRequests, Recharging
<1>4. QED
  BY <1>1, <1>2, <1>3 DEF NextPhase

(* An accepted request preserves the invariant.                             *)
LEMMA AcceptPreserves ==
    ASSUME SafetyInv, NEW r \in Requests, Accept(r)
    PROVE  SafetyInv'
<1>1. PICK next \in Phases : /\ NextPhase(seq, r, next)
                             /\ seq' = Accepted(seq, r, next)
                             /\ Observe(r)
  BY DEF Accept
<1>0. seq \in Sequencers
  BY DEF SafetyInv, TypeOK
<1>2. /\ seq'.phase = next
      /\ seq'.security = seq.security
      /\ seq'.payment = IF r.name = "PaymentServiceSelection" THEN r.arg ELSE seq.payment
      /\ seq'.transfer = IF r.name = "ChargeParameterDiscovery"
                         THEN Transfer(r.arg) ELSE seq.transfer
      /\ seq'.renegotiated <=> (seq.renegotiated \/ Renegotiates(seq, next))
  BY <1>1, <1>0, AcceptedFields
<1>3. /\ authorized' <=> (authorized \/ r.name = "Authorization")
      /\ isolated' <=> (isolated \/ r.name = "CableCheck")
      /\ precharged' <=> (precharged \/ r.name = "PreCharge")
      /\ live' <=> ((live \/ r = PowerDelivery("Start")) /\ r # PowerDelivery("Stop"))
      /\ acCharged' <=> (acCharged \/ (r = PowerDelivery("Start") /\ seq.transfer # "Dc"))
      /\ exchanges' = IF r.name \in CertificateRequests THEN exchanges + 1 ELSE exchanges
  BY <1>1 DEF Observe, CertificateRequests
<1> HIDE DEF PowerDelivery
<1>4. TypeOK'
  <2>1. seq' \in Sequencers
    BY <1>1, AcceptedType DEF SafetyInv, TypeOK
  <2>2. /\ authorized' \in BOOLEAN /\ isolated' \in BOOLEAN /\ precharged' \in BOOLEAN
        /\ live' \in BOOLEAN /\ acCharged' \in BOOLEAN
    BY <1>1 DEF Observe
  <2>3. exchanges' \in Nat
    BY <1>3 DEF SafetyInv, TypeOK
  <2>4. QED
    BY <2>1, <2>2, <2>3 DEF TypeOK
<1>5. PlugAndChargeNeedsTls'
  BY <1>1, <1>2, EdgesOutOf DEF SafetyInv, PlugAndChargeNeedsTls
<1>6. (seq.phase \in {"Authorized"} \cup Paid => authorized)'
  BY <1>1, <1>2, <1>3, EdgesInto DEF SafetyInv, Paid, Delivering, MayPowerUp
<1>7. (seq.phase = "CableCheck" => isolated)'
  BY <1>1, <1>2, <1>3, EdgesInto
<1>8. (seq.phase = "PreCharge" => isolated /\ precharged)'
  BY <1>1, <1>2, <1>3, EdgesInto DEF SafetyInv
<1>9. ((seq.renegotiated \/ seq.phase \in Delivering)
       => acCharged \/ (isolated /\ precharged))'
  BY <1>1, <1>2, <1>3, EdgesInto DEF SafetyInv, Delivering, Renegotiates, MayPowerUp
<1>10. (live => \/ seq.phase \in {"Charging", "Paused", "Stopped"}
                \/ seq.renegotiated /\ seq.phase \in Recharging)'
  BY <1>1, <1>2, <1>3, EdgesInto, EdgesOutOf DEF SafetyInv, Renegotiates, Recharging
<1>11. (seq.phase \in Unpaid => exchanges = 0)' /\ OneCertificateExchange'
  BY <1>1, <1>2, <1>3, EdgesInto, EdgesOutOf DEF SafetyInv, TypeOK, Unpaid, Unselected,
     OneCertificateExchange
<1>12. (seq.phase \in Unselected => seq.payment = None)'
  BY <1>1, <1>2, EdgesInto DEF SafetyInv
<1>13. QED
  BY <1>4, <1>5, <1>6, <1>7, <1>8, <1>9, <1>10, <1>11, <1>12 DEF SafetyInv

(* A FAILED response sets the latch and nothing else.                       *)
LEMMA FailPreserves ==
    ASSUME SafetyInv, Fail
    PROVE  SafetyInv'
<1>1. /\ seq' \in Sequencers
      /\ seq'.phase = seq.phase /\ seq'.security = seq.security
      /\ seq'.payment = seq.payment /\ seq'.transfer = seq.transfer
      /\ seq'.renegotiated = seq.renegotiated
  BY DEF SafetyInv, TypeOK, Fail, Failed, Sequencers
<1>2. QED
  BY <1>1 DEF SafetyInv, TypeOK, Fail, PlugAndChargeNeedsTls, OneCertificateExchange, Paid,
     Delivering, Unpaid, Unselected

(* SafetyInv holds in every reachable state.                                *)
THEOREM SafetyInvariant == Spec => []SafetyInv
<1>1. Init => SafetyInv
  <2> SUFFICES ASSUME Init PROVE SafetyInv
    OBVIOUS
  <2>1. PICK security \in Securities : seq = New(security)
    BY DEF Init
  <2>2. /\ seq \in Sequencers /\ seq.phase = "Start" /\ seq.payment = None
        /\ ~seq.renegotiated
    BY <2>1 DEF New, Sequencers, Phases
  <2>3. TypeOK
    BY <2>2 DEF Init, TypeOK
  <2>4. QED
    BY <2>2, <2>3 DEF Init, SafetyInv, PlugAndChargeNeedsTls, OneCertificateExchange, Paid,
       Delivering, Unpaid, Unselected
<1>2. SafetyInv /\ [Next]_vars => SafetyInv'
  <2> SUFFICES ASSUME SafetyInv, [Next]_vars PROVE SafetyInv'
    OBVIOUS
  <2>1. CASE \E r \in Requests : Accept(r)
    BY <2>1, AcceptPreserves
  <2>2. CASE Fail
    BY <2>2, FailPreserves
  <2>3. CASE UNCHANGED vars
    BY <2>3 DEF vars, SafetyInv, TypeOK, PlugAndChargeNeedsTls, OneCertificateExchange
  <2>4. QED
    BY <2>1, <2>2, <2>3 DEF Next
<1>3. QED
  BY <1>1, <1>2, PTL DEF Spec

(* The sequencer's fields keep their types through every request order.     *)
THEOREM TypeCorrect == Spec => []TypeOK
<1>1. SafetyInv => TypeOK
  BY DEF SafetyInv
<1>2. QED
  BY <1>1, SafetyInvariant, PTL

(* A contract is never selected without TLS: the gate of next_phase on      *)
(* PaymentServiceSelectionReq cannot be bypassed.                           *)
THEOREM ContractNeedsTls == Spec => []PlugAndChargeNeedsTls
<1>1. SafetyInv => PlugAndChargeNeedsTls
  BY DEF SafetyInv
<1>2. QED
  BY <1>1, SafetyInvariant, PTL

(* Charge parameters and power are always behind an AuthorizationReq.       *)
THEOREM AuthorizationFirst == Spec => []PowerNeedsAuthorization
<1>1. SafetyInv => PowerNeedsAuthorization
  BY DEF SafetyInv, PowerNeedsAuthorization, Paid
<1>2. QED
  BY <1>1, SafetyInvariant, PTL

(* In a session that has not delivered AC power, DC power is always behind  *)
(* a cable check and a pre-charge, however often it is renegotiated.        *)
THEOREM IsolationFirst == Spec => []DcPowerNeedsIsolation
<1>1. SafetyInv => DcPowerNeedsIsolation
  BY DEF SafetyInv, DcPowerNeedsIsolation, Delivering
<1>2. QED
  BY <1>1, SafetyInvariant, PTL

(* A renegotiation that comes back with power on can go on charging.        *)
THEOREM RenegotiationCompletes == Spec => []RenegotiationCanComplete
<1>1. SafetyInv => RenegotiationCanComplete
  <2> SUFFICES ASSUME SafetyInv, seq.phase = "ChargeParameters", live, ~seq.failed
               PROVE  Permits(seq, PowerDelivery("Start"))
    BY DEF RenegotiationCanComplete
  <2>1. NextPhase(seq, PowerDelivery("Start"), "Charging")
    BY DEF SafetyInv, NextPhase, ChargeEdge, MayPowerUp
  <2>2. QED
    BY <2>1 DEF Permits, Phases
<1>2. QED
  BY <1>1, SafetyInvariant, PTL

(* At most one certificate exchange is accepted in a session.               *)
THEOREM CertificateOnce == Spec => []OneCertificateExchange
<1>1. SafetyInv => OneCertificateExchange
  BY DEF SafetyInv
<1>2. QED
  BY <1>1, SafetyInvariant, PTL

(* Once a FAILED response went past, no request but a session stop moves    *)
(* the sequencer, and nothing clears the latch.                             *)
THEOREM FailureFinal == Spec => FailureIsFinal
<1> DEFINE A == seq.failed => seq'.failed /\ seq'.phase \in {seq.phase, "Paused", "Stopped"}
<1>1. SafetyInv /\ [Next]_vars => [A]_vars
  <2> SUFFICES ASSUME SafetyInv, Next, seq.failed
               PROVE  seq'.failed /\ seq'.phase \in {seq.phase, "Paused", "Stopped"}
    OBVIOUS
  <2>0. seq \in Sequencers
    BY DEF SafetyInv, TypeOK
  <2>1. CASE Fail
    BY <2>0, <2>1 DEF Fail, Failed, Sequencers
  <2>2. ASSUME NEW r \in Requests, Accept(r)
        PROVE  seq'.failed /\ seq'.phase \in {seq.phase, "Paused", "Stopped"}
    <3>1. PICK next \in Phases : StopEdge(seq, r, next) /\ seq' = Accepted(seq, r, next)
      BY <2>2 DEF Accept, NextPhase
    <3>2. QED
      BY <2>0, <3>1, AcceptedFields DEF StopEdge
  <2>3. QED
    BY <2>1, <2>2 DEF Next
<1>2. QED
  BY <1>1, SafetyInvariant, PTL DEF Spec, FailureIsFinal

(* A pause accepted with the power on leaves the charge parameters of a     *)
(* renegotiation, and no other phase.                                       *)
THEOREM LivePause == Spec => LivePauseLeavesRenegotiation
<1> DEFINE A == (~IsPaused(seq) /\ IsPaused(seq') /\ live)
                    => seq.phase = "ChargeParameters" /\ seq.renegotiated
<1>1. SafetyInv /\ [Next]_vars => [A]_vars
  <2> SUFFICES ASSUME SafetyInv, Next PROVE A
    OBVIOUS
  <2>0. seq \in Sequencers
    BY DEF SafetyInv, TypeOK
  <2>1. CASE Fail
    BY <2>0, <2>1 DEF Fail, Failed, Sequencers, IsPaused
  <2>2. ASSUME NEW r \in Requests, Accept(r) PROVE A
    <3>1. PICK next \in Phases : NextPhase(seq, r, next) /\ seq' = Accepted(seq, r, next)
      BY <2>2 DEF Accept
    <3>2. QED
      BY <2>0, <3>1, AcceptedFields, EdgesOutOf DEF SafetyInv, Recharging, IsPaused
  <2>3. QED
    BY <2>1, <2>2 DEF Next
<1>2. QED
  BY <1>1, SafetyInvariant, PTL DEF Spec, LivePauseLeavesRenegotiation

(* The payment is selected once, and a finished session never moves again.  *)
THEOREM DecisionsFinal == Spec => DecisionsAreFinal
<1> DEFINE A == /\ seq.payment # None => seq'.payment = seq.payment
                /\ IsFinished(seq) => seq'.phase = seq.phase
<1>1. SafetyInv /\ [Next]_vars => [A]_vars
  <2> SUFFICES ASSUME SafetyInv, Next PROVE A
    OBVIOUS
  <2>0. seq \in Sequencers
    BY DEF SafetyInv, TypeOK
  <2>1. CASE Fail
    BY <2>0, <2>1 DEF Fail, Failed, Sequencers
  <2>2. ASSUME NEW r \in Requests, Accept(r) PROVE A
    <3>1. PICK next \in Phases : NextPhase(seq, r, next) /\ seq' = Accepted(seq, r, next)
      BY <2>2 DEF Accept
    <3>2. QED
      BY <2>0, <3>1, AcceptedFields, EdgesOutOf DEF SafetyInv, Unselected, IsFinished
  <2>3. QED
    BY <2>1, <2>2 DEF Next
<1>2. QED
  BY <1>1, SafetyInvariant, PTL DEF Spec, DecisionsAreFinal
=============================================================================

----------------------------- MODULE MC_Station -----------------------------
EXTENDS Station

MCBudget ==
    [k \in LoopKinds |->
        CASE k = "PreCharge" -> 1 [] k = "CableCheck" -> 2 [] OTHER -> 3]

Iso2Offer == <<Entry("Iso2", None, 1)>>
Iso20Offer == <<Entry("Iso20", "Dc", 1)>>

In2(r, id) == Req("Iso2", r, id)

(* Before the handshake: what may open a session and what may not, one      *)
(* frame a read or two at once.                                             *)
FirstReads ==
    {<<AppReq(Iso2Offer)>>, <<AppReq(Iso20Offer)>>,
     <<AppReq(<<Entry("Din70121", None, 1)>>)>>,
     <<In2(I2!Req("SessionSetup"), 0)>>, <<Corrupt(V2G)>>, <<Vendor>>, <<Malformed>>,
     <<AppReq(Iso2Offer), In2(I2!Req("SessionSetup"), 0)>>,
     <<AppReq(Iso2Offer), AppReq(Iso2Offer)>>}

(* An ISO 15118-2 vehicle: the shortest way to the authorization loop and   *)
(* to the charge parameters, and what a confused peer sends.                *)
Iso2Frames ==
    {AppReq(Iso2Offer),
     In2(I2!Req("SessionSetup"), 0),
     In2(I2!Req("ServiceDiscovery"), 1),
     In2(I2!PaymentServiceSelection("ExternalPayment"), 1),
     In2(I2!Req("Authorization"), 1),
     In2(I2!Req("Authorization"), 2),
     In2(I2!ChargeParameterDiscovery("AC_single_phase_core"), 1),
     In2(I2!SessionStop("Terminate"), 1),
     Res("Iso2", <<V2G, "Authorization">>, 1, "Ok"),
     Corrupt(V2G), Vendor, Malformed}

Iso2Reads ==
    {<<f>> : f \in Iso2Frames}
        \cup {<<Vendor, In2(I2!Req("Authorization"), 1)>>,
              <<In2(I2!Req("Authorization"), 1), In2(I2!Req("Authorization"), 1)>>}

In20(name, set, id) == Req("Iso20", I20!Message(name, I20!None, set, FALSE), id)

(* An ISO 15118-20 vehicle that rejoins its paused DC session under id 2,   *)
(* or runs into the authorization loop of a new one under id 1; and the     *)
(* selection of a service nobody has assigned.                              *)
Iso20Reads ==
    {<<In20("SessionSetup", "Main", 2)>>,
     <<In20("AuthorizationSetup", "Main", 1)>>,
     <<In20("Authorization", "Main", 1)>>,
     <<In20("ChargeParameterDiscovery", "Dc", 2)>>,
     <<In20("ChargeParameterDiscovery", "Ac", 2)>>,
     <<In20("ScheduleExchange", "Main", 2)>>,
     <<In20("CableCheck", "Dc", 2)>>,
     <<In20("PreCharge", "Dc", 2)>>,
     <<Req("Iso20", I20!Message("SessionStop", "Pause", "Main", FALSE), 2)>>,
     <<Req("Iso20", I20!Message("ServiceSelection", "unassigned", "Main", FALSE), 2)>>,
     <<Corrupt("Dc")>>, <<Corrupt(V2G)>>}

MCReads == [none |-> FirstReads, Iso2 |-> Iso2Reads, Iso20 |-> Iso20Reads]

RejoinedTransfers == {I20!EnergyTransfer("DC")}
=============================================================================

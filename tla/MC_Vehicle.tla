----------------------------- MODULE MC_Vehicle -----------------------------
EXTENDS Vehicle

MCBudget ==
    [k \in LoopKinds |->
        CASE k = "PreCharge" -> 1 [] k = "CableCheck" -> 2 [] OTHER -> 3]

MCProtocols == <<"Din70121", "Iso20", "Iso2">>
MCSets == <<"Dc">>

In20(name, arg, set) == I20!Message(name, arg, set, FALSE)

(* Up to the authorization loop, and for a rejoined -20 session from the    *)
(* parameters to the isolation test.                                        *)
Iso2Script ==
    {I2!Req("SessionSetup"), I2!Req("ServiceDiscovery"), I2!Req("Authorization"),
     I2!PaymentServiceSelection("ExternalPayment"), I2!SessionStop("Terminate")}

Iso20Script ==
    {In20("SessionSetup", "none", "Main"), In20("AuthorizationSetup", "none", "Main"),
     In20("Authorization", "none", "Main"), In20("ChargeParameterDiscovery", "none", "Dc"),
     In20("ScheduleExchange", "none", "Main"), In20("CableCheck", "none", "Dc"),
     In20("SessionStop", "Pause", "Main")}

MCScript == [Iso2 |-> Iso2Script, Iso20 |-> Iso20Script]

Accept(schema) == AppRes([code |-> "OkSuccessfulNegotiation", schema |-> schema])
Reject == AppRes([code |-> "FailedNoNegotiation", schema |-> NoSchema])

In2(name, id, outcome) == Res("Iso2", <<V2G, name>>, id, outcome)

Answers2 ==
    {In2("SessionSetup", id, "Ok") : id \in 0 .. 2}
        \cup {In2("Authorization", id, o) : id \in 1 .. 2, o \in {"Ongoing", "Failed"}}
        \cup {In2(n, 1, "Ok") : n \in {"ServiceDiscovery", "PaymentServiceSelection", "SessionStop"}}

(* The answers, an answer to nothing, a request, and what is no message;    *)
(* and an answer with a frame behind it.                                    *)
Iso2Reads ==
    {<<f>> : f \in Answers2 \cup {Accept(2), Accept(3), Accept(NoSchema), Reject, Vendor, Malformed,
                                  Corrupt(V2G), Req("Iso2", I2!Req("SessionSetup"), 1)}}
        \cup {<<Accept(2), In2("SessionSetup", 1, "Ok")>>,
              <<Vendor, In2("Authorization", 1, "Ongoing")>>,
              <<In2("ServiceDiscovery", 1, "Ok"), Corrupt(V2G)>>,
              <<Vendor, Vendor, Vendor>>}

Main(name, outcome) == Res("Iso20", <<"Main", name>>, 1, outcome)

Iso20Reads ==
    {<<Accept(1)>>, <<Corrupt("Dc")>>, <<Corrupt(V2G)>>,
     <<Res("Iso20", <<"Main", "SessionSetup">>, 0, "Ok")>>,
     <<Res("Iso20", <<"Main", "Authorization">>, 2, "Ongoing")>>,
     <<Res("Iso20", <<"Dc", "ChargeParameterDiscovery">>, 1, "Ok")>>,
     <<Res("Iso20", <<"Dc", "CableCheck">>, 1, "Ongoing")>>,
     <<Res("Iso20", <<"Dc", "CableCheck">>, 1, "Failed")>>}
        \cup {<<Main(n, "Ok")>> : n \in {"SessionSetup", "AuthorizationSetup", "ScheduleExchange",
                                         "SessionStop"}}
        \cup {<<Main(n, "Ongoing")>> : n \in {"Authorization", "ScheduleExchange"}}

MCReads == Iso2Reads \cup Iso20Reads

RejoinedTransfers == {I20!EnergyTransfer("DC")}
=============================================================================

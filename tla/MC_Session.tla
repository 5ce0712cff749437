----------------------------- MODULE MC_Session -----------------------------
EXTENDS Session

(* The constants are written with the flows alone, not with the two drivers *)
(* they are the constants of.                                               *)
F == INSTANCE Flow

(* The station's loop budgets are below the vehicle's, kind by kind.        *)
StationBudget ==
    [k \in F!LoopKinds |->
        CASE k = "PreCharge" -> 1 [] k = "CableCheck" -> 2 [] OTHER -> 3]

VehicleBudget == [k \in F!LoopKinds |-> StationBudget[k] + 3]

VehicleProtocols == <<"Iso20", "Iso2">>
VehicleSets == <<"Dc">>

(* An ISO 15118-2 DC session with its loops, to the charge and back.        *)
Iso2Script ==
    {F!I2!Req(n) : n \in {"SessionSetup", "ServiceDiscovery", "Authorization", "CableCheck",
                         "PreCharge", "CurrentDemand", "WeldingDetection"}}
        \cup {F!I2!PaymentServiceSelection("ExternalPayment"),
              F!I2!ChargeParameterDiscovery("DC_core"),
              F!I2!SessionStop("Terminate"), F!I2!SessionStop("Pause")}
        \cup {F!I2!PowerDelivery(p) : p \in {"Start", "Stop", "Renegotiate"}}

In20(name, arg, set) == F!I20!Message(name, arg, set, FALSE)

Iso20Script ==
    {In20(n, "none", "Main") : n \in {"SessionSetup", "AuthorizationSetup", "Authorization",
                                      "ServiceDiscovery", "ScheduleExchange"}}
        \cup {In20(n, "none", "Dc") : n \in {"ChargeParameterDiscovery", "CableCheck", "PreCharge",
                                             "ChargeLoop"}}
        \cup {In20("ServiceSelection", "DC", "Main"), In20("PowerDelivery", "Start", "Main"),
              In20("PowerDelivery", "ScheduleRenegotiation", "Main")}
        \cup {In20("SessionStop", how, "Main") : how \in {"Terminate", "Pause", "ServiceRenegotiation"}}

MCScript == [Iso2 |-> Iso2Script, Iso20 |-> Iso20Script]

DcTransfer == F!I20!EnergyTransfer("DC")
=============================================================================

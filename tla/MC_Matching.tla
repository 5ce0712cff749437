---------------------------- MODULE MC_Matching -----------------------------
EXTENDS Matching

CONSTANTS car, bike, near, far

(* The worst case: the vehicles happen to have picked the same run id.      *)
OneRunId == [v \in Vehicles |-> 1]

(* The car is plugged in at near, the other vehicle at far, and near is out *)
(* of its range.                                                            *)
Cables ==
    [p \in Vehicles \X Stations |->
        CASE p = <<car, near>> -> 1 [] p = <<bike, near>> -> 3 [] OTHER -> 2]

(* A vehicle between two stations, two vehicles at one station, a vehicle   *)
(* that may retry; and, where nothing is lost, all of that at once.         *)
OneVehicle == [vehicles |-> {car}, stations |-> Stations, attempts |-> 1, prompt |-> FALSE]
OneStation == [vehicles |-> Vehicles, stations |-> {near}, attempts |-> 1, prompt |-> FALSE]
Retry == [vehicles |-> {car}, stations |-> {near}, attempts |-> 2, prompt |-> FALSE]
Everybody == [vehicles |-> Vehicles, stations |-> Stations, attempts |-> 2, prompt |-> TRUE]

SegmentsToCheck == {OneVehicle, OneStation, Retry, Everybody}

SomeLimit == {2}
NoLimit == {}
=============================================================================

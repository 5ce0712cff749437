------------------------------ MODULE Matching ------------------------------
(***************************************************************************)
(* The vehicles and stations of one powerline segment.  A frame waits in   *)
(* its sender's queue for any length of time; on the medium every node     *)
(* that does not miss it hears it at once.  The modem of a station reports *)
(* the attenuation of a burst it heard, when it likes.  In a prompt run    *)
(* nothing is missed and nothing waits for the time of a tick.             *)
(***************************************************************************)
EXTENDS Slac

CONSTANTS
    Vehicles, Stations,
    RunIds,                      \* EvConfig.run_id, by vehicle
    Attenuation,                 \* of the path from a vehicle to a station
    StationLimit, VehicleLimit,  \* the attenuation_limits
    NoId,
    Segments                     \* who is on the segment, how often a vehicle
                                 \* may start a run, and whether it is prompt

ASSUME SegmentConfiguration ==
    /\ Vehicles \cap Stations = {} /\ NoId \notin Vehicles
    /\ Attenuation \in [Vehicles \X Stations -> Nat]
    /\ Segments \subseteq [vehicles : SUBSET Vehicles, stations : SUBSET Stations,
                            attempts : Nat, prompt : BOOLEAN]

VARIABLES
    ev, evse,   \* the engines of those on the segment
    prompt,     \* whether this is a prompt run
    attempts,   \* how often each vehicle may still start
    picked,     \* history: the station a vehicle chose in this attempt
    asked,      \* history: the stations it chose in any attempt
    waited      \* history: ticks since a vehicle began to wait for reports

history == <<picked, asked, waited>>
vars == <<ev, evse, prompt, attempts, history>>

V == INSTANCE SlacEv
S == INSTANCE SlacEvse

Init ==
    \E segment \in Segments :
        /\ ev = [v \in segment.vehicles |-> V!New(v, RunIds[v])]
        /\ evse = [s \in segment.stations |-> S!New(s)]
        /\ prompt = segment.prompt
        /\ attempts = [v \in segment.vehicles |-> segment.attempts]
        /\ picked = [v \in segment.vehicles |-> None]
        /\ asked = [v \in segment.vehicles |-> {}]
        /\ waited = [v \in segment.vehicles |-> 0]

EVs == DOMAIN ev
EVSEs == DOMAIN evse

(* The first run and, after a failure, the retry.                           *)
StartRun(v) ==
    /\ ev[v].state \in {"Idle", "Failed"}
    /\ attempts[v] > 0
    /\ ev' = [ev EXCEPT ![v] = V!Start(@)]
    /\ attempts' = [attempts EXCEPT ![v] = @ - 1]
    /\ picked' = [picked EXCEPT ![v] = None]
    /\ UNCHANGED <<evse, prompt, asked, waited>>

(* The modem has heard sounds of vehicle v.                                 *)
Audible(v) == ev[v].state \in {"Sounding", "AwaitingMeasurements", "AwaitingKey"}

Profiles(v, s) == {Some(Attenuation[v, s])} \cup IF prompt THEN {} ELSE {None}

ModemReports(s) ==
    /\ \E v \in EVs :
        /\ Audible(v)
        /\ \E profile \in Profiles(v, s) :
            /\ evse[s].measured # Some(profile)
            /\ evse' = [evse EXCEPT ![s] = S!Observe(@, profile)]
    /\ UNCHANGED <<ev, prompt, attempts, history>>

(* The modem of a prompt station has reported before a sound is read.       *)
Reported(s, f) ==
    f.mmtype = "MnbcSoundInd" => evse[s].measured = Some(Some(Attenuation[f.source, s]))

VehicleSends(v) ==
    /\ ev[v].out # <<>>
    /\ LET f == Head(ev[v].out) IN
        \E hear \in SUBSET EVSEs :
            /\ prompt => hear = EVSEs /\ \A s \in EVSEs : Reported(s, f)
            /\ evse' = [s \in EVSEs |-> IF s \in hear THEN S!HandleFrame(evse[s], f) ELSE evse[s]]
    /\ ev' = [ev EXCEPT ![v].out = Tail(@)]
    /\ UNCHANGED <<prompt, attempts, history>>

StationSends(s) ==
    /\ evse[s].out # <<>>
    /\ \E hear \in SUBSET EVs :
        /\ prompt => hear = EVs
        /\ ev' = [v \in EVs |->
                    IF v \in hear THEN V!HandleFrame(ev[v], Head(evse[s].out)) ELSE ev[v]]
    /\ evse' = [evse EXCEPT ![s].out = Tail(@)]
    /\ UNCHANGED <<prompt, attempts, history>>

Waiting(v) == ev[v].state = "AwaitingMeasurements"

VehicleTimeout(v) ==
    /\ V!Due(ev[v])
    /\ ev' = [ev EXCEPT ![v] = V!HandleTimeout(@)]
    /\ picked' = [picked EXCEPT ![v] = IF Waiting(v) THEN {b.evse : b \in ev[v].best} ELSE @]
    /\ asked' = [asked EXCEPT ![v] = @ \cup picked'[v]]
    /\ waited' = [waited EXCEPT ![v] = 0]
    /\ UNCHANGED <<evse, prompt, attempts>>

StationTimeout(s) ==
    /\ S!Due(evse[s])
    /\ evse' = [evse EXCEPT ![s] = S!HandleTimeout(@)]
    /\ UNCHANGED <<ev, prompt, attempts, history>>

Silent == (\A v \in EVs : ev[v].out = <<>>) /\ (\A s \in EVSEs : evse[s].out = <<>>)

(* The application frees its station, and not before the vehicle knows.     *)
ResetStation(s) ==
    /\ prompt => Silent
    /\ evse[s].state \in {"Matched", "Failed"}
    /\ evse' = [evse EXCEPT ![s] = S!Reset(@)]
    /\ UNCHANGED <<ev, prompt, attempts, history>>

Timeout == (\E v \in EVs : VehicleTimeout(v)) \/ (\E s \in EVSEs : StationTimeout(s))

(* Time passes until a deadline, and the caller honours it there.           *)
Sooner(option) == {d - 1 : d \in option}

Armed == UNION ({ev[v].deadline : v \in EVs} \cup {evse[s].deadline : s \in EVSEs})

Clock ==
    /\ Armed # {} /\ \A d \in Armed : d > 0
    /\ prompt => Silent
    /\ ev' = [v \in EVs |->
                [ev[v] EXCEPT !.deadline = Sooner(@),
                              !.resultsDeadline = IF Waiting(v) THEN Sooner(@) ELSE @]]
    /\ evse' = [s \in EVSEs |-> [evse[s] EXCEPT !.deadline = Sooner(@)]]
    /\ waited' = [v \in EVs |-> IF Waiting(v) THEN waited[v] + 1 ELSE 0]
    /\ UNCHANGED <<prompt, attempts, picked, asked>>

Medium ==
    \/ \E v \in EVs : VehicleSends(v)
    \/ \E s \in EVSEs : StationSends(s) \/ ModemReports(s)

Next ==
    \/ \E v \in EVs : StartRun(v)
    \/ \E s \in EVSEs : ResetStation(s)
    \/ Medium \/ Timeout \/ Clock

(* Time goes on.  A prompt medium has its part in that: the clock waits for *)
(* it.  Any other one may carry nothing at all.                             *)
Spec == Init /\ [][Next]_vars /\ WF_vars(Clock \/ Timeout \/ (prompt /\ Medium))

-----------------------------------------------------------------------------
Enters(before, after, state) == before.state # state /\ after.state = state

(* A key goes along a choice.  A station gives its key to the vehicle that  *)
(* chose it, in this attempt and out of all of them.  A vehicle takes a key *)
(* only from a station that it has asked for one and that is still the best *)
(* it knows: a late report may have displaced the one it asked, and the     *)
(* answer to an attempt before this one may still be on its way.  (The      *)
(* station that changes in the step is the sender of the frame.)            *)
KeyFollowsChoice ==
    [][/\ \A s \in EVSEs : Enters(evse[s], evse'[s], "Matched") =>
            \A r \in evse[s].run : picked[r.pev] = Some(s)
       /\ \A v \in EVs, s \in EVSEs :
            (Enters(ev[v], ev'[v], "Matched") /\ evse'[s] # evse[s])
                => s \in asked[v] /\ {b.evse : b \in ev[v].best} = Some(s)]_vars

Serving(v) == {s \in EVSEs : \E r \in evse[s].run : r.pev = v}

TooFar(v, s) == Beyond(StationLimit, Attenuation[v, s]) \/ Beyond(VehicleLimit, Attenuation[v, s])

(* The purpose of the measurement.  When nothing is lost or late a vehicle  *)
(* that was answered ends up with the nearest of the stations that took up  *)
(* its run, and fails only if they are all too far away; how many of them   *)
(* it remembers makes no difference.                                        *)
NearestStationWins ==
    prompt =>
        \A v \in EVs :
            /\ ev[v].state = "Matched" =>
                \E b \in ev[v].best :
                    \A s \in Serving(v) : Attenuation[v, b.evse] <= Attenuation[v, s]
            /\ (ev[v].state = "Failed" /\ ev[v].answered # {}) =>
                \A s \in Serving(v) : TooFar(v, s)

(* Reports, however many and however late, never keep a vehicle waiting for *)
(* longer than the window that opened with the end of its burst.            *)
ResultsWindowIsBounded == \A v \in EVs : waited[v] <= Results

(* Neither side is left in a run: whatever is lost, every vehicle gets to   *)
(* an outcome, and no station is held by a vehicle that fell silent.        *)
EveryRunEnds ==
    /\ \A v \in Vehicles : []<>(v \in EVs => ev[v].state \in {"Idle", "Matched", "Failed"})
    /\ \A s \in Stations : []<>(s \in EVSEs => evse[s].state \notin {"Sounding", "Measured"})

-----------------------------------------------------------------------------
(* What the vehicle's documentation says, and the code does not do: it      *)
(* "takes the network key - but only from the station this vehicle picked". *)
(* A report that comes in after the choice would not change whose key is    *)
(* waited for.                                                              *)
WaitsForThePicked ==
    \A v \in EVs : ev[v].state = "AwaitingKey" => {b.evse : b \in ev[v].best} = picked[v]
=============================================================================

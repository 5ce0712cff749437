----------------------------- MODULE Handshake ------------------------------
(***************************************************************************)
(* One handshake between a vehicle and a station of any configuration.     *)
(* The vehicle is this crate's, offering what it is configured to speak,   *)
(* or a foreign one, whose entries are its own business: repeated schema   *)
(* ids, tied priorities, unknown namespaces, other versions.               *)
(***************************************************************************)
EXTENDS AppProtocol

CONSTANTS
    Iso20Sets,       \* the message sets that configurations name
    MaxSets,         \* bound on the sets a vehicle's configuration lists
    ForeignEntries,  \* the entries a foreign vehicle offers
    MaxForeign       \* bound on the length of a foreign offer

VARIABLES
    vehicle,  \* EvccConfig: protocols and sets, most preferred first
    station,  \* SeccConfig: protocols and sets
    offer,    \* the entries on the wire
    chosen,   \* the station's outcome
    reading   \* what the vehicle takes the answer to mean

vars == <<vehicle, station, offer, chosen, reading>>

NotYet == [protocol |-> "pending", set |-> None]

(* A Protocols value lists each protocol at most once.                      *)
ProtocolLists == {s \in BoundedSeq(ProtocolNames, 3) : \A i, j \in DOMAIN s : s[i] = s[j] => i = j}

Foreign == [protocols |-> <<>>, sets |-> <<>>]

Init ==
    /\ vehicle \in [protocols : ProtocolLists, sets : BoundedSeq(Iso20Sets, MaxSets)]
    /\ station \in [protocols : SUBSET ProtocolNames, sets : SUBSET Iso20Sets]
    /\ offer = <<>>
    /\ chosen = NotYet
    /\ reading = NotYet

(* Evcc::start, which refuses to open a session with nothing to offer.      *)
Start ==
    /\ offer = <<>>
    /\ offer' = OfferOf(vehicle.protocols, vehicle.sets)
    /\ offer' # <<>>
    /\ UNCHANGED <<vehicle, station, chosen, reading>>

ForeignOffer ==
    /\ vehicle = Foreign /\ offer = <<>>
    /\ offer' \in BoundedSeq(ForeignEntries, MaxForeign) \ {<<>>}
    /\ UNCHANGED <<vehicle, station, chosen, reading>>

(* Secc::dispatch on supportedAppProtocolReq.                               *)
Choose ==
    /\ offer # <<>> /\ chosen = NotYet
    /\ chosen' = Agree(offer, station.protocols, station.sets)
    /\ UNCHANGED <<vehicle, station, offer, reading>>

(* Evcc::dispatch on supportedAppProtocolRes.  Only this crate's vehicle is *)
(* followed up to its reading of the answer.                                *)
Read ==
    /\ vehicle # Foreign /\ chosen # NotYet /\ reading = NotYet
    /\ LET response == Response(chosen)
           i == Resolve(offer, response.schema)
       IN reading' = IF Declines(response) THEN [protocol |-> None, set |-> None]
                     ELSE IF i = 0 THEN [protocol |-> "UnknownSchemaId", set |-> None]
                     ELSE [protocol |-> offer[i].protocol, set |-> offer[i].set]
    /\ UNCHANGED <<vehicle, station, offer, chosen>>

Next == Start \/ ForeignOffer \/ Choose \/ Read

Spec == Init /\ [][Next]_vars

-----------------------------------------------------------------------------
(* The best entry, said without a loop: usable, of the smallest priority    *)
(* number among the usable ones, and the first of those.                    *)
Best(i) ==
    LET usable == {j \in DOMAIN offer :
                    Usable(offer[j], {p \in station.protocols : Supports(p)}, station.sets)}
    IN /\ i \in usable
       /\ \A j \in usable :
            offer[i].priority < offer[j].priority
                \/ (offer[i].priority = offer[j].priority /\ i <= j)

(* negotiate_with answers with the vehicle's best usable entry - its id,    *)
(* its set, its deviation - whatever ids and priorities repeat, and with    *)
(* nothing only when no entry is usable.                                    *)
BestEntryWins ==
    chosen # NotYet =>
        IF chosen = NothingAgreed THEN ~\E i \in DOMAIN offer : Best(i)
        ELSE \E i \in DOMAIN offer :
                /\ Best(i)
                /\ chosen.protocol = offer[i].protocol /\ chosen.set = offer[i].set
                /\ chosen.id = offer[i].id /\ chosen.deviates = ~offer[i].minor

(* Both sides come out of the handshake with the same protocol and the same *)
(* message set: the id the station echoes, read in the vehicle's own offer, *)
(* names the entry the station chose.                                       *)
SameReading ==
    reading # NotYet => reading.protocol = chosen.protocol /\ reading.set = chosen.set

(* A generation both sides speak, and for -20 a set both configured, is     *)
(* never lost to one that only looks common.                                *)
CommonProtocolIsFound ==
    (reading # NotYet /\ reading.protocol = None) =>
        ~\E p \in station.protocols :
            /\ Supports(p) /\ Contains(vehicle.protocols, p)
            /\ p = "Iso20" => ToSet(vehicle.sets) \cap station.sets # {}
=============================================================================

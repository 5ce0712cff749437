---------------------------- MODULE AppProtocol -----------------------------
(***************************************************************************)
(* The supportedAppProtocol handshake (app_protocol.rs) as operators on    *)
(* offers.  An offer is a sequence of entries.  An entry names a protocol  *)
(* (and, for ISO 15118-20, a message set), carries the vehicle's schema id *)
(* and priority, and says whether its version numbers are this crate's.    *)
(***************************************************************************)
EXTENDS Naturals, SequencesExt

None == "none"

ProtocolNames == {"Din70121", "Iso2", "Iso20"}

(* A namespace that names no protocol of this crate's.                      *)
Unknown == "unknown"

(* Flow::supports: the generations that have a message set.                 *)
Supports(protocol) == protocol \in {"Iso2", "Iso20"}

Entry(protocol, set, n) ==
    [protocol |-> protocol, set |-> set, id |-> n, priority |-> n,
     major |-> TRUE, minor |-> TRUE]

-----------------------------------------------------------------------------
(* advertising_with: one entry per protocol, and for ISO 15118-20 one per   *)
(* message set, a repeated set once.  The n-th entry gets schema id and     *)
(* priority n; three protocols and six sets stay below the cap of 20.       *)
Push(entries, protocol, set) == Append(entries, Entry(protocol, set, Len(entries) + 1))

PushSetByItsIndex(entries, set) ==
    LET named == SelectSeq(entries, LAMBDA entry : entry.set # None)
    IN Append(entries, Entry("Iso20", set, Len(named) + 1))

PushSet(entries, set) ==
    IF \E i \in DOMAIN entries : entries[i].set = set
    THEN entries ELSE Push(entries, "Iso20", set)

Advertising(protocols, sets) ==
    LET push(entries, protocol) ==
            IF protocol = "Iso20" THEN FoldLeft(PushSet, entries, sets)
                                  ELSE Push(entries, protocol, None)
    IN FoldLeft(push, <<>>, protocols)

(* Evcc::start: what is advertised is what can be spoken.                   *)
OfferWithoutFallback(protocols, sets) ==
    LET speakable(p) == /\ Supports(p) /\ (p = "Iso20" => sets # <<>>)
                        /\ p = "Iso2" => ~Contains(protocols, "Iso20")
    IN Advertising(SelectSeq(protocols, speakable), sets)

OfferOf(protocols, sets) ==
    LET speakable(p) == Supports(p) /\ (p = "Iso20" => sets # <<>>)
    IN Advertising(SelectSeq(protocols, speakable), sets)

-----------------------------------------------------------------------------
NothingAgreed ==
    [protocol |-> None, set |-> None, id |-> 0, priority |-> 0, deviates |-> FALSE]

(* Whether negotiate_with considers an entry at all.                        *)
Usable(entry, supported, sets) ==
    /\ entry.protocol # Unknown
    /\ entry.protocol \in supported
    /\ entry.set # None => entry.set \in sets
    /\ entry.major

BetterOrLater(best, entry) ==
    best.protocol = None \/ entry.priority <= best.priority

(* Priority 1 is the first choice and a tie keeps the earlier entry.        *)
Better(best, entry) ==
    best.protocol = None \/ entry.priority < best.priority

(* negotiate_with: the loop over the offer.                                 *)
Negotiate(offer, supported, sets) ==
    LET consider(best, entry) ==
            IF Usable(entry, supported, sets) /\ Better(best, entry)
            THEN [protocol |-> entry.protocol, set |-> entry.set, id |-> entry.id,
                  priority |-> entry.priority, deviates |-> ~entry.minor]
            ELSE best
    IN FoldLeft(consider, NothingAgreed, offer)

(* The station narrows what it supports to what it can speak, and only then *)
(* negotiates (Secc::dispatch).                                             *)
Agree(offer, protocols, sets) ==
    Negotiate(offer, {p \in protocols : Supports(p)}, sets)

(* supportedAppProtocolRes: accept echoes the schema id, reject names none. *)
(* The schema id is optional on the wire; the ids offered here start at 1.  *)
NoSchema == 0

Response(agreed) ==
    IF agreed.protocol = None
    THEN [code |-> "FailedNoNegotiation", schema |-> NoSchema]
    ELSE [code |-> IF agreed.deviates THEN "OkSuccessfulNegotiationWithMinorDeviation"
                                      ELSE "OkSuccessfulNegotiation",
          schema |-> agreed.id]

(* Evcc::dispatch: an answer that is not OK, or is OK and names no schema,  *)
(* agrees on nothing.                                                       *)
Declines(response) ==
    response.code = "FailedNoNegotiation" \/ response.schema = NoSchema

(* Evcc::dispatch: the echoed id is looked up in the offer as it was sent,  *)
(* the first entry that carries it; 0 when none does.                       *)
Resolve(offer, schema) == SelectInSeq(offer, LAMBDA entry : entry.id = schema)
=============================================================================

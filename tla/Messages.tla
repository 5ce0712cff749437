------------------------------ MODULE Messages ------------------------------
(***************************************************************************)
(* What travels in a V2GTP frame (message.rs, v2gtp.rs).  A frame is a     *)
(* record whose kind says what its payload really is; which of them a      *)
(* receiver reads, ignores or fails on depends on the protocol its session *)
(* has agreed on.  Session ids are numbers and 0 is the all-zero id.       *)
(***************************************************************************)
EXTENDS Naturals, Sequences

NoId == 0

(* The payload type 0x8001, shared by the handshake and ISO 15118-2; the    *)
(* ISO 15118-20 types are named after their message sets.                   *)
V2G == "V2G"

Part20 == {"Main", "Ac", "Dc", "Wpt", "Acdp", "AcDerIec", "AcDerSae"}

AppReq(offer) == [kind |-> "AppReq", offer |-> offer]

AppRes(response) == [kind |-> "AppRes", response |-> response]

Req(protocol, r, id) == [kind |-> "Req", protocol |-> protocol, req |-> r, id |-> id]

(* A response to the request called name, OK or FAILED.                     *)
Res(protocol, name, id, outcome) ==
    [kind |-> "Res", protocol |-> protocol, name |-> name, id |-> id, outcome |-> outcome]

(* A payload of a processed type that does not decode, a frame of a type no *)
(* session carries, and bytes that are not a frame.                         *)
Corrupt(type) == [kind |-> "Corrupt", type |-> type]
Vendor == [kind |-> "Vendor", type |-> "Vendor"]
Malformed == [kind |-> "Malformed"]

PayloadType(m) ==
    CASE m.kind \in {"AppReq", "AppRes"} -> V2G
      [] m.kind = "Req" -> IF m.protocol = "Iso2" THEN V2G ELSE m.req.set
      [] m.kind = "Res" -> m.name[1]
      [] OTHER -> m.type

IsRequest(m) == m.kind \in {"AppReq", "Req"}

(* The element name without Req or Res.  ISO 15118-20 gives the messages of *)
(* a service a prefix, so the payload type is part of the name.             *)
Handshaking == <<V2G, "supportedAppProtocol">>

Name(m) ==
    CASE m.kind \in {"AppReq", "AppRes"} -> Handshaking
      [] m.kind = "Req" -> <<PayloadType(m), m.req.name>>
      [] OTHER -> m.name

NoName == <<"none", "none">>

(* answers: a response pairs with the request that has its name.            *)
Answers(m, name) == ~IsRequest(m) /\ Name(m) = name

IsFailure(m) == m.kind = "Res" /\ m.outcome = "Failed"

(* belongs_to: the payload types of a session that agreed on protocol.      *)
BelongsTo(type, protocol) ==
    IF protocol = "Iso20" THEN type \in Part20 ELSE type = V2G

(* The payload is a message of the grammar that protocol selects.           *)
Decodes(m, protocol) ==
    IF protocol = "none" THEN m.kind \in {"AppReq", "AppRes"}
    ELSE m.kind \in {"Req", "Res"} /\ m.protocol = protocol

(* Message::decode, as next_message acts on it: a frame of another          *)
(* session's type is skipped, one of this session's own type is a message   *)
(* or ends the session.                                                     *)
Decode(m, protocol) ==
    IF ~BelongsTo(PayloadType(m), protocol) THEN "Ignored"
    ELSE IF Decodes(m, protocol) THEN "Message" ELSE "Error"
=============================================================================

------------------------------ MODULE Dialogue ------------------------------
(***************************************************************************)
(* What a V2G session promises, whatever the generation: a dialogue of one *)
(* exchange at a time.  There is one message, it is at one place, and it   *)
(* stays the same exchange all the way round: what reaches the station is  *)
(* what the vehicle asked, and what comes back is its answer.              *)
(***************************************************************************)

CONSTANT Names, NoName

VARIABLES
    place,  \* where the message is
    about   \* the request of the exchange, NoName between exchanges

vars == <<place, about>>

Init == place = "vehicle" /\ about = NoName

(* The vehicle asks, and the connection may already be gone.                *)
Ask ==
    /\ place = "vehicle"
    /\ place' \in {"up", "lost"}
    /\ about' \in Names

Arrive == place = "up" /\ place' = "station" /\ UNCHANGED about

(* The handshake is answered while it is read.                              *)
Answer == place \in {"up", "station"} /\ place' \in {"down", "lost"} /\ UNCHANGED about

Return == place = "down" /\ place' = "vehicle" /\ about' = NoName

Lose == place \in {"up", "down"} /\ place' = "lost" /\ UNCHANGED about

HangUp == place # "over" /\ place' = "over" /\ about' = NoName

Next == Ask \/ Arrive \/ Answer \/ Return \/ Lose \/ HangUp

Spec == Init /\ [][Next]_vars
=============================================================================

---------------------------- MODULE MC_Discovery ----------------------------
EXTENDS Discovery

CONSTANTS station, neighbour, router

OnTheLink == {station, neighbour}

AllRequests == {Request(s, "Tcp") : s \in {"Tls", "None"}}

AllPolicies == [{station} -> {"Unsupported", "Supported", "Required"}]

(* A second station, an answer from off the link, another transport, and a  *)
(* datagram that is none of these.                                          *)
OtherAnswers ==
    {Response(neighbour, "Tls", "Tcp"), Response(neighbour, "None", "Tcp"),
     Response(router, "Tls", "Tcp"), Response(neighbour, "Tls", "Udp"), Malformed}
=============================================================================

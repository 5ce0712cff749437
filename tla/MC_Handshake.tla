---------------------------- MODULE MC_Handshake ----------------------------
EXTENDS Handshake

Foreigner(protocol, set, id, priority, major, minor) ==
    [protocol |-> protocol, set |-> set, id |-> id, priority |-> priority,
     major |-> major, minor |-> minor]

(* Ids and priorities that repeat, both version deviations, a protocol with *)
(* no message set and a namespace nobody knows.                             *)
MCForeignEntries ==
    {Foreigner("Iso2", None, 1, 2, TRUE, TRUE),
     Foreigner("Iso2", None, 2, 1, TRUE, FALSE),
     Foreigner("Iso2", None, 3, 1, FALSE, TRUE),
     Foreigner("Iso20", "Dc", 1, 1, TRUE, TRUE),
     Foreigner("Iso20", "Dc", 2, 2, TRUE, FALSE),
     Foreigner("Iso20", "Ac", 1, 3, TRUE, TRUE),
     Foreigner("Din70121", None, 1, 1, TRUE, TRUE),
     Foreigner(Unknown, None, 2, 1, TRUE, TRUE)}
=============================================================================

----------------------------- MODULE CertChain ------------------------------
(***************************************************************************)
(* Walking a certificate chain to a trust anchor (pnc/pki/chain.rs).  A    *)
(* certificate is a record of what the walk reads of it:                   *)
(*   parses, len           whether the DER parses, and its length;         *)
(*   subject, issuer, domain   its names;                                  *)
(*   curve, notBefore, notAfter;                                           *)
(*   constraints           at most one [ca, pathLen], pathLen at most one; *)
(*   usage                 at most one set of key usage bits.              *)
(* An anchor is a record [cert, source].  A chain is leaf-first.           *)
(***************************************************************************)
EXTENDS Integers, Sequences

CONSTANT Verified  \* <<c, i>>: VerifyWith takes c's signature under i's key

MaxPathLen == 3

Iso20MaxCertificateLen == 1600

First(S) == CHOOSE i \in S : \A j \in S : i <= j

Err(kind, index) == [kind |-> kind, index |-> index]

Passed == Err("none", 0)

-----------------------------------------------------------------------------
IsValidAt(c, now) == c.notBefore <= now /\ now <= c.notAfter

(* Under ISO 15118-20 a certificate lives within its issuer's life.         *)
Nests(rules, c, issuer) ==
    rules = "Iso20" => issuer.notBefore <= c.notBefore /\ c.notAfter <= issuer.notAfter

(* check_issuer: a CA, whose path length reaches below as many certificates *)
(* between it and the leaf, and whose key may sign certificates.            *)
MayIssue(issuer, below) ==
    /\ \E b \in issuer.constraints : b.ca /\ \A limit \in b.pathLen : below <= limit
    /\ \A bits \in issuer.usage : "keyCertSign" \in bits

VerifySignature(c, issuer) == <<c, issuer>> \in Verified

(* Profile::check_leaf.                                                     *)
RequiredKeyUsage(profile) ==
    CASE profile = "Contract" -> {"digitalSignature", "nonRepudiation"}
      [] profile \in {"Secc", "OemProvisioning"} -> {"digitalSignature"}
      [] OTHER -> {}

MeetsProfile(profile, leaf) ==
    /\ \A b \in leaf.constraints : ~b.ca
    /\ profile # "Unchecked" => \E bits \in leaf.usage : RequiredKeyUsage(profile) \subseteq bits
    /\ profile = "Secc" => leaf.domain = "CPO"

-----------------------------------------------------------------------------
(* What validate refuses before it walks, in this order.                    *)
TooLarge(chain, rules) ==
    {i \in DOMAIN chain : rules = "Iso20" /\ chain[i].len > Iso20MaxCertificateLen}

Unparsed(chain) == {i \in DOMAIN chain : ~chain[i].parses}

Expired(chain, now) == {i \in DOMAIN chain : ~IsValidAt(chain[i], now)}

Screen(chain, policy, now) ==
    IF Len(chain) > MaxPathLen THEN Err("TooLong", Len(chain))
    ELSE IF TooLarge(chain, policy.rules) # {}
         THEN Err("TooLarge", First(TooLarge(chain, policy.rules)))
    ELSE IF Unparsed(chain) # {} THEN Err("Certificate", First(Unparsed(chain)))
    ELSE IF chain = <<>> THEN Err("Empty", 0)
    ELSE IF ~MeetsProfile(policy.profile, chain[1]) THEN Err("Profile", 1)
    ELSE IF \E i \in DOMAIN chain : chain[i].curve # chain[1].curve THEN Err("MixedCurves", 0)
    ELSE IF Expired(chain, now) # {} THEN Err("Expired", First(Expired(chain, now)))
    ELSE Passed

-----------------------------------------------------------------------------
(* find_anchor: every condition is part of the selection, so that anchors   *)
(* that share a name do not hide each other.                                *)
Matches(anchor, c, below, now) ==
    /\ anchor.cert.parses
    /\ anchor.cert.subject = c.issuer
    /\ IsValidAt(anchor.cert, now)
    /\ MayIssue(anchor.cert, below)

Vouches(anchor, c, below, now, rules) ==
    /\ Matches(anchor, c, below, now)
    /\ Nests(rules, c, anchor.cert)
    /\ VerifySignature(c, anchor.cert)

Vouching(anchors, c, below, now, rules) ==
    {a \in DOMAIN anchors : Vouches(anchors[a], c, below, now, rules)}

(* Why there is none: a matching anchor that c outlives is the reason.      *)
NoAnchor(anchors, c, below, now, rules, index) ==
    IF \E a \in DOMAIN anchors : /\ Matches(anchors[a], c, below, now)
                                 /\ ~Nests(rules, c, anchors[a].cert)
    THEN Err("OutlivesIssuer", index) ELSE Err("NoTrustAnchor", 0)

(* What is wrong with the link from the i-th certificate to the next one.   *)
Link(chain, i, rules) ==
    LET c == chain[i]
        issuer == chain[i + 1]
    IN IF issuer.subject # c.issuer THEN Err("NoTrustAnchor", 0)
       ELSE IF ~MayIssue(issuer, i - 1) THEN Err("NotAnIssuer", i + 1)
       ELSE IF ~VerifySignature(c, issuer) THEN Err("BadSignature", i)
       ELSE IF ~Nests(rules, c, issuer) THEN Err("OutlivesIssuer", i)
       ELSE Passed

(* The walk: it ends where an anchor is found, the chain ends or a link is  *)
(* broken.                                                                  *)
Anchored(chain, i, anchors, now, rules) ==
    Vouching(anchors, chain[i], i - 1, now, rules) # {}

Ends(chain, anchors, now, rules) ==
    {i \in DOMAIN chain : \/ Anchored(chain, i, anchors, now, rules)
                          \/ i = Len(chain)
                          \/ Link(chain, i, rules) # Passed}

Walk(chain, anchors, now, rules) ==
    LET i == First(Ends(chain, anchors, now, rules))
        found == Vouching(anchors, chain[i], i - 1, now, rules)
    IN IF found # {} THEN [kind |-> "Ok", index |-> i, anchor |-> anchors[First(found)]]
       ELSE IF i = Len(chain) THEN NoAnchor(anchors, chain[i], i - 1, now, rules, i)
       ELSE Link(chain, i, rules)

Validate(chain, anchors, policy, now) ==
    LET refused == Screen(chain, policy, now)
    IN IF refused # Passed THEN refused ELSE Walk(chain, anchors, now, policy.rules)

-----------------------------------------------------------------------------
(* TrustAnchors::authorities and select_chain: the names a peer is told,    *)
(* and the first chain of its that reaches one of them.                     *)
Authorities(anchors) ==
    {anchors[a].cert.subject : a \in {a \in DOMAIN anchors : anchors[a].cert.parses}}

Reaches(chain, authorities) ==
    /\ \A i \in DOMAIN chain : chain[i].parses
    /\ \E i \in DOMAIN chain : {chain[i].issuer, chain[i].subject} \cap authorities # {}

SelectChain(candidates, authorities) ==
    LET reaching == {n \in DOMAIN candidates : Reaches(candidates[n], authorities)}
    IN IF reaching = {} THEN 0 ELSE First(reaching)
=============================================================================

-------------------------- MODULE CertChainProofs ---------------------------
(***************************************************************************)
(* What an accepted chain establishes.  The walk of CertChain stops at the *)
(* first certificate an anchor vouches for, or at the first fault; the     *)
(* theorems say what that amounts to without a walk: a chain is accepted   *)
(* if and only if it passes the screening and an unbroken path of checked  *)
(* links leads from its leaf to an anchor.                                 *)
(***************************************************************************)
EXTENDS CertChain, TLAPS, WellFoundedInduction

Linked(chain, i, rules) ==
    /\ chain[i + 1].subject = chain[i].issuer
    /\ MayIssue(chain[i + 1], i - 1)
    /\ VerifySignature(chain[i], chain[i + 1])
    /\ Nests(rules, chain[i], chain[i + 1])

(* The k-th certificate of the chain is vouched for by the anchor, and each *)
(* one before it by its successor.                                          *)
TrustedPath(chain, k, anchor, now, rules) ==
    /\ k \in DOMAIN chain
    /\ \A i \in 1 .. (k - 1) : Linked(chain, i, rules)
    /\ Vouches(anchor, chain[k], k - 1, now, rules)

(* Every set of naturals has a least element.                               *)
LEMMA LeastNatural ==
    ASSUME NEW T, T \subseteq Nat, T # {}
    PROVE  \E x \in T : \A y \in T : x <= y
<1>1. PICK x \in T : \A y \in T : ~ (<<y, x>> \in OpToRel(<, Nat))
  BY NatLessThanWellFounded, WFMin, Zenon
<1>2. \A a, b \in Nat : b < a => <<b, a>> \in OpToRel(<, Nat)
  BY Zenon DEF OpToRel
<1>3. \A y \in T : ~ (y < x)
  BY <1>1, <1>2, Zenon
<1>4. QED
  BY <1>3

(* First is the least.                                                      *)
LEMMA FirstIsLeast ==
    ASSUME NEW T, T \subseteq Nat, T # {}
    PROVE  First(T) \in T /\ \A y \in T : First(T) <= y
<1>1. \E x \in T : \A y \in T : x <= y
  BY LeastNatural
<1>2. QED
  BY <1>1 DEF First

(* A link is sound exactly when no check of it fails.                       *)
LEMMA LinkPassed ==
    ASSUME NEW chain, NEW i, NEW rules
    PROVE  /\ Link(chain, i, rules) = Passed <=> Linked(chain, i, rules)
           /\ Link(chain, i, rules).kind # "Ok"
BY DEF Link, Linked, Passed, Err

(* The screening only refuses: a chain is accepted by the walk.             *)
LEMMA ScreenIsNoVerdict ==
    ASSUME NEW chain, NEW policy, NEW now
    PROVE  Screen(chain, policy, now).kind # "Ok"
BY DEF Screen, Passed, Err

(* What the screening lets through.                                         *)
LEMMA ScreenPassed ==
    ASSUME NEW C, NEW chain \in Seq(C), NEW policy, NEW now,
           Screen(chain, policy, now) = Passed
    PROVE  /\ Len(chain) \in 1 .. MaxPathLen
           /\ DOMAIN chain = 1 .. Len(chain)
           /\ MeetsProfile(policy.profile, chain[1])
           /\ \A i \in DOMAIN chain : /\ chain[i].parses
                                      /\ chain[i].curve = chain[1].curve
                                      /\ IsValidAt(chain[i], now)
<1>0. \A kind, index : Err(kind, index) = Passed => kind = "none"
  BY DEF Err, Passed
<1>1. /\ ~(Len(chain) > MaxPathLen) /\ Unparsed(chain) = {} /\ chain # <<>>
      /\ MeetsProfile(policy.profile, chain[1])
      /\ \A i \in DOMAIN chain : chain[i].curve = chain[1].curve
      /\ Expired(chain, now) = {}
  BY <1>0 DEF Screen
<1>2. Len(chain) \in Nat /\ DOMAIN chain = 1 .. Len(chain) /\ Len(chain) # 0
  BY <1>1
<1>3. QED
  BY <1>1, <1>2 DEF Unparsed, Expired, MaxPathLen

(* Where the walk of a screened chain ends: it does end - the verdict after *)
(* the loop of validate is never reached - and every link before is sound.  *)
LEMMA WalkEnds ==
    ASSUME NEW C, NEW chain \in Seq(C), NEW anchors, NEW now, NEW rules, Len(chain) # 0
    PROVE  LET i == First(Ends(chain, anchors, now, rules)) IN
           /\ i \in Ends(chain, anchors, now, rules)
           /\ i \in 1 .. Len(chain)
           /\ \A j \in 1 .. (i - 1) : /\ Linked(chain, j, rules)
                                      /\ ~Anchored(chain, j, anchors, now, rules)
<1> DEFINE E == Ends(chain, anchors, now, rules)
<1>1. Len(chain) \in Nat /\ DOMAIN chain = 1 .. Len(chain)
  OBVIOUS
<1>2. E \subseteq 1 .. Len(chain) /\ Len(chain) \in E
  BY <1>1 DEF Ends
<1>3. E \subseteq Nat /\ E # {}
  BY <1>1, <1>2
<1>4. First(E) \in E /\ \A j \in E : First(E) <= j
  <2> HIDE DEF E
  <2>1. QED
    BY <1>3, FirstIsLeast
<1>5. ASSUME NEW j \in 1 .. (First(E) - 1)
      PROVE  Linked(chain, j, rules) /\ ~Anchored(chain, j, anchors, now, rules)
  <2>1. First(E) \in 1 .. Len(chain)
    BY <1>2, <1>4
  <2>2. j \in DOMAIN chain /\ j \notin E
    <3> HIDE DEF E
    <3>1. QED
      BY <1>1, <1>4, <2>1
  <2>3. QED
    BY <2>2, LinkPassed DEF Ends
<1>6. QED
  BY <1>2, <1>4, <1>5

(* An accepted chain has passed the screening, and the walk stopped on a    *)
(* certificate that some anchor vouches for.                                *)
LEMMA AcceptedWalk ==
    ASSUME NEW chain, NEW anchors, NEW policy, NEW now,
           Validate(chain, anchors, policy, now).kind = "Ok"
    PROVE  LET i == First(Ends(chain, anchors, now, policy.rules))
               found == Vouching(anchors, chain[i], i - 1, now, policy.rules)
           IN /\ Screen(chain, policy, now) = Passed
              /\ found # {}
              /\ Validate(chain, anchors, policy, now)
                    = [kind |-> "Ok", index |-> i, anchor |-> anchors[First(found)]]
<1>1. Screen(chain, policy, now) = Passed
  BY ScreenIsNoVerdict DEF Validate
<1>2. Validate(chain, anchors, policy, now) = Walk(chain, anchors, now, policy.rules)
  BY <1>1 DEF Validate
<1>3. QED
  BY <1>1, <1>2, LinkPassed DEF Walk, NoAnchor, Err

(* Soundness of validate: "Ok means the leaf's key is certified by an       *)
(* unbroken chain of checked signatures up to an anchor the caller trusts". *)
(* The anchor it reports is one of the anchors, and there is a trusted path *)
(* to it, on which no certificate is unparsed, expired or on another curve. *)
THEOREM AcceptedChainIsTrusted ==
    ASSUME NEW C, NEW chain \in Seq(C), NEW A, NEW anchors \in Seq(A), NEW policy, NEW now,
           Validate(chain, anchors, policy, now).kind = "Ok"
    PROVE  LET v == Validate(chain, anchors, policy, now) IN
           /\ Screen(chain, policy, now) = Passed
           /\ \E a \in DOMAIN anchors : v.anchor = anchors[a]
           /\ TrustedPath(chain, v.index, v.anchor, now, policy.rules)
<1> DEFINE i == First(Ends(chain, anchors, now, policy.rules))
           found == Vouching(anchors, chain[i], i - 1, now, policy.rules)
           v == Validate(chain, anchors, policy, now)
<1>1. /\ Screen(chain, policy, now) = Passed
      /\ found # {}
      /\ v = [kind |-> "Ok", index |-> i, anchor |-> anchors[First(found)]]
  BY AcceptedWalk
<1>2. Len(chain) # 0 /\ DOMAIN chain = 1 .. Len(chain)
  BY <1>1, ScreenPassed
<1>3. i \in 1 .. Len(chain) /\ \A j \in 1 .. (i - 1) : Linked(chain, j, policy.rules)
  BY <1>2, WalkEnds
<1>4. found \subseteq DOMAIN anchors /\ DOMAIN anchors \subseteq Nat
  BY DEF Vouching
<1>5. First(found) \in found
  <2> HIDE DEF found
  <2>1. found \subseteq Nat
    BY <1>4
  <2>2. QED
    BY <1>1, <2>1, FirstIsLeast
<1>6. /\ First(found) \in DOMAIN anchors
      /\ Vouches(anchors[First(found)], chain[i], i - 1, now, policy.rules)
  BY <1>5 DEF Vouching
<1>7. v.index = i /\ v.anchor = anchors[First(found)]
  BY <1>1
<1> HIDE DEF i, found, v
<1>8. QED
  BY <1>1, <1>2, <1>3, <1>6, <1>7 DEF TrustedPath, v

(* Completeness: a screened chain with a trusted path to any of the anchors *)
(* is accepted, whichever anchors share its name and wherever the path      *)
(* leaves the chain.  This is what find_anchor's selection is for: several  *)
(* anchors of one subject are valid across a rollover [V2G2-878].           *)
THEOREM TrustedChainIsAccepted ==
    ASSUME NEW C, NEW chain \in Seq(C), NEW anchors, NEW policy, NEW now,
           Screen(chain, policy, now) = Passed,
           NEW k, NEW a \in DOMAIN anchors,
           TrustedPath(chain, k, anchors[a], now, policy.rules)
    PROVE  Validate(chain, anchors, policy, now).kind = "Ok"
<1> DEFINE i == First(Ends(chain, anchors, now, policy.rules))
           found == Vouching(anchors, chain[i], i - 1, now, policy.rules)
<1>1. Len(chain) # 0 /\ DOMAIN chain = 1 .. Len(chain) /\ Len(chain) \in Nat
  BY ScreenPassed
<1>2. /\ i \in Ends(chain, anchors, now, policy.rules) /\ i \in 1 .. Len(chain)
      /\ \A j \in 1 .. (i - 1) : ~Anchored(chain, j, anchors, now, policy.rules)
  BY <1>1, WalkEnds
<1>3. /\ k \in 1 .. Len(chain) /\ Anchored(chain, k, anchors, now, policy.rules)
      /\ \A j \in 1 .. (k - 1) : Linked(chain, j, policy.rules)
  BY <1>1 DEF TrustedPath, Anchored, Vouching
<1>4. found # {}
  <2>1. Anchored(chain, i, anchors, now, policy.rules)
    <3>1. i <= k
      <4> HIDE DEF i
      <4>1. QED
        BY <1>2, <1>3
    <3>2. CASE i = k
      BY <3>2, <1>3
    <3>3. CASE i < k
      <4>1. i \in 1 .. (k - 1) /\ i # Len(chain)
        <5> HIDE DEF i
        <5>1. QED
          BY <1>2, <1>3, <3>3
      <4>2. Link(chain, i, policy.rules) = Passed
        BY <1>3, <4>1, LinkPassed
      <4>3. QED
        BY <1>2, <4>1, <4>2 DEF Ends
    <3>4. QED
      <4> HIDE DEF i
      <4>1. QED
        BY <1>2, <1>3, <3>1, <3>2, <3>3
  <2>2. QED
    BY <2>1 DEF Anchored
<1>5. Walk(chain, anchors, now, policy.rules).kind = "Ok"
  BY <1>4 DEF Walk
<1>6. QED
  BY <1>5 DEF Validate

(* The verdict does not depend on the order of the anchors, nor on how      *)
(* often one of them is listed.                                             *)
THEOREM AnchorOrderIsIrrelevant ==
    ASSUME NEW C, NEW chain \in Seq(C), NEW A, NEW anchors \in Seq(A), NEW others \in Seq(A),
           \A a \in DOMAIN anchors : \E b \in DOMAIN others : others[b] = anchors[a],
           NEW policy, NEW now,
           Validate(chain, anchors, policy, now).kind = "Ok"
    PROVE  Validate(chain, others, policy, now).kind = "Ok"
<1> DEFINE v == Validate(chain, anchors, policy, now)
<1>1. /\ Screen(chain, policy, now) = Passed
      /\ \E a \in DOMAIN anchors : v.anchor = anchors[a]
      /\ TrustedPath(chain, v.index, v.anchor, now, policy.rules)
  BY AcceptedChainIsTrusted
<1>2. PICK b \in DOMAIN others : v.anchor = others[b]
  BY <1>1
<1>3. TrustedPath(chain, v.index, others[b], now, policy.rules)
  BY <1>1, <1>2
<1>4. QED
  BY <1>1, <1>3, TrustedChainIsAccepted

(* Nesting carries over: what lives within a life that lives within         *)
(* another lives within that one.                                           *)
LEMMA NestsIsTransitive ==
    ASSUME NEW a, NEW b, NEW c,
           a.notBefore \in Int /\ a.notAfter \in Int,
           b.notBefore \in Int /\ b.notAfter \in Int,
           c.notBefore \in Int /\ c.notAfter \in Int,
           Nests("Iso20", a, b), Nests("Iso20", b, c)
    PROVE  Nests("Iso20", a, c)
BY DEF Nests

(* Under the rules of ISO 15118-20 the leaf lives within the life of the    *)
(* anchor: the nesting that is checked link by link carries over the whole  *)
(* path.                                                                    *)
THEOREM LeafLivesWithinItsAnchor ==
    ASSUME NEW C, \A c \in C : c.notBefore \in Int /\ c.notAfter \in Int,
           NEW chain \in Seq(C),
           NEW A, \A a \in A : a.cert \in C, NEW anchors \in Seq(A),
           NEW policy, policy.rules = "Iso20", NEW now,
           Validate(chain, anchors, policy, now).kind = "Ok"
    PROVE  LET anchor == Validate(chain, anchors, policy, now).anchor.cert IN
           anchor.notBefore <= chain[1].notBefore /\ chain[1].notAfter <= anchor.notAfter
<1> DEFINE v == Validate(chain, anchors, policy, now)
<1>1. /\ Screen(chain, policy, now) = Passed
      /\ \E a \in DOMAIN anchors : v.anchor = anchors[a]
      /\ TrustedPath(chain, v.index, v.anchor, now, "Iso20")
  BY AcceptedChainIsTrusted
<1>2. Len(chain) \in 1 .. 3 /\ DOMAIN chain = 1 .. Len(chain)
  BY <1>1, ScreenPassed DEF MaxPathLen
<1>3. v.anchor.cert.notBefore \in Int /\ v.anchor.cert.notAfter \in Int
  BY <1>1
<1>4. \A i \in 1 .. Len(chain) : chain[i].notBefore \in Int /\ chain[i].notAfter \in Int
  BY <1>2
<1>5. /\ v.index \in 1 .. Len(chain)
      /\ Nests("Iso20", chain[v.index], v.anchor.cert)
      /\ \A i \in 1 .. (v.index - 1) : Nests("Iso20", chain[i], chain[i + 1])
  BY <1>1, <1>2 DEF TrustedPath, Linked, Vouches
<1> HIDE DEF v
<1>6. v.index = 1 \/ v.index = 2 \/ v.index = 3
  BY <1>2, <1>5
<1>7. Nests("Iso20", chain[1], v.anchor.cert)
  <2>1. CASE v.index = 1
    BY <2>1, <1>5
  <2>2. CASE v.index = 2
    <3>1. Nests("Iso20", chain[1], chain[2]) /\ Nests("Iso20", chain[2], v.anchor.cert)
      BY <2>2, <1>5
    <3>2. 1 \in 1 .. Len(chain) /\ 2 \in 1 .. Len(chain)
      BY <2>2, <1>2, <1>5
    <3>3. QED
      BY <3>1, <3>2, <1>3, <1>4, NestsIsTransitive
  <2>3. CASE v.index = 3
    <3>1. /\ Nests("Iso20", chain[1], chain[2]) /\ Nests("Iso20", chain[2], chain[3])
          /\ Nests("Iso20", chain[3], v.anchor.cert)
      BY <2>3, <1>5
    <3>2. 1 \in 1 .. Len(chain) /\ 2 \in 1 .. Len(chain) /\ 3 \in 1 .. Len(chain)
      BY <2>3, <1>2, <1>5
    <3>3. Nests("Iso20", chain[1], chain[3])
      BY <3>1, <3>2, <1>4, NestsIsTransitive
    <3>4. QED
      BY <3>1, <3>2, <3>3, <1>3, <1>4, NestsIsTransitive
  <2>4. QED
    BY <1>6, <2>1, <2>2, <2>3
<1>8. QED
  BY <1>7 DEF v, Nests

(* The two halves of chain selection fit.  A holder that has a chain the    *)
(* validator would accept always finds one to send among those that reach   *)
(* the authorities the validator advertises.                                *)
THEOREM AcceptableChainIsSelectable ==
    ASSUME NEW C, NEW candidates \in Seq(Seq(C)), NEW A, NEW anchors \in Seq(A),
           NEW n \in DOMAIN candidates, NEW policy, NEW now,
           Validate(candidates[n], anchors, policy, now).kind = "Ok"
    PROVE  LET m == SelectChain(candidates, Authorities(anchors)) IN
           m \in DOMAIN candidates /\ m <= n
<1> DEFINE chain == candidates[n]
           v == Validate(chain, anchors, policy, now)
           reaching == {m \in DOMAIN candidates : Reaches(candidates[m], Authorities(anchors))}
<1>0. chain \in Seq(C)
  OBVIOUS
<1>10. /\ Screen(chain, policy, now) = Passed
      /\ \E a \in DOMAIN anchors : v.anchor = anchors[a]
      /\ TrustedPath(chain, v.index, v.anchor, now, policy.rules)
  <2> HIDE DEF chain
  <2>1. v.kind = "Ok"
    BY DEF chain
  <2>2. QED
    BY <1>0, <2>1, AcceptedChainIsTrusted
<1>1. PICK a \in DOMAIN anchors : /\ Screen(chain, policy, now) = Passed
                                  /\ TrustedPath(chain, v.index, anchors[a], now, policy.rules)
  BY <1>10
<1>2. /\ v.index \in DOMAIN chain /\ anchors[a].cert.parses
      /\ anchors[a].cert.subject = chain[v.index].issuer
  BY <1>1 DEF TrustedPath, Vouches, Matches
<1>3. chain[v.index].issuer \in Authorities(anchors)
  BY <1>2 DEF Authorities
<1>4. \A i \in DOMAIN chain : chain[i].parses
  BY <1>0, <1>1, ScreenPassed
<1>5. Reaches(chain, Authorities(anchors))
  <2> HIDE DEF chain, v
  <2>1. QED
    BY <1>2, <1>3, <1>4 DEF Reaches
<1>6. n \in reaching /\ reaching \subseteq DOMAIN candidates /\ DOMAIN candidates \subseteq Nat
  BY <1>5
<1>7. First(reaching) \in reaching /\ First(reaching) <= n
  <2> HIDE DEF reaching
  <2>1. reaching \subseteq Nat /\ reaching # {}
    BY <1>6
  <2>2. QED
    BY <1>6, <2>1, FirstIsLeast
<1>8. SelectChain(candidates, Authorities(anchors)) = First(reaching)
  BY <1>6 DEF SelectChain
<1>9. QED
  BY <1>6, <1>7, <1>8
=============================================================================

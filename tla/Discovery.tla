----------------------------- MODULE Discovery ------------------------------
(***************************************************************************)
(* SECC discovery (sdp.rs): the vehicle's run over an unacknowledged       *)
(* multicast, the answer a station owes it, and anything else that is on   *)
(* the segment.  Datagrams are lost, delayed and repeated freely.  An      *)
(* endpoint stands for an address and a port; an Option is a set of at     *)
(* most one element, the deadline the time that is left until it.          *)
(***************************************************************************)
EXTENDS Integers, SequencesExt, FiniteSetsExt

CONSTANTS
    Requests,      \* what the vehicle may ask for
    Policies,      \* the TlsPolicy each station may have, by its endpoint
    Strays,        \* what else may arrive, Malformed included
    Malformed,     \* a datagram that does not parse
    LinkLocal,     \* the endpoints that are on the link
    Interval,      \* the retry interval
    Attempts,      \* what max_attempts may be
    MaxLate        \* how late the caller may be for the deadline

ASSUME DiscoveryConfiguration ==
    /\ Interval \in Nat \ {0} /\ MaxLate \in Nat
    /\ Attempts \subseteq Nat /\ Attempts # {}

VARIABLES
    config,      \* the vehicle's configuration
    attempts, deadline, pending, outcome, notice, accepted, done,
    asked,       \* whether a request has gone out
    told,        \* history: the outcomes the caller has polled in this run
    rivals,      \* history: a rival was heard, and nobody was told yet
    age          \* history: ticks since the start of an unfinished run

engine == <<attempts, deadline, pending, outcome, notice, accepted, done>>
vars == <<config, engine, asked, told, rivals, age>>

None == {}
Some(x) == {x}

Request(security, transport) == [security |-> security, transport |-> transport]

Response(endpoint, security, transport) ==
    [endpoint |-> endpoint, security |-> security, transport |-> transport]

(* Response::answering, by the station's TLS policy.                        *)
Answering(request, endpoint, policy) ==
    LET tls == policy = "Required" \/ (policy = "Supported" /\ request.security = "Tls")
    IN Response(endpoint, IF tls THEN "Tls" ELSE "None", request.transport)

Answers == {Answering(config.request, e, config.policy[e]) : e \in DOMAIN config.policy}

(* refusal: why the vehicle must not act on an answer, None if it may.      *)
Refusal(r) ==
    IF r.transport # config.request.transport THEN Some("TransportMismatch")
    ELSE IF config.request.security = "Tls" /\ r.security = "None" THEN Some("SecurityDowngrade")
    ELSE IF ~config.allowOffLink /\ r.endpoint \notin LinkLocal THEN Some("OffLink")
    ELSE None

Usable(r) == Refusal(r) = None

Found(r) == [kind |-> "Found", response |-> r]
Refused(r) == [kind |-> "Refused", response |-> r, reason |-> Refusal(r)]
GaveUp(n) == [kind |-> "GaveUp", attempts |-> n]
Conflict(r, other) == [kind |-> "Conflict", response |-> r, other |-> other]

Init ==
    /\ config \in [request : Requests, allowOffLink : BOOLEAN, maxAttempts : Attempts,
                   policy : Policies]
    /\ attempts = 0 /\ deadline = None /\ pending = FALSE
    /\ outcome = None /\ notice = None /\ accepted = None /\ done = FALSE
    /\ asked = FALSE /\ told = <<>> /\ rivals = FALSE /\ age = 0

-----------------------------------------------------------------------------
(* start, which also restarts: the request goes out at once.                *)
Start ==
    /\ attempts' = 1 /\ deadline' = Some(Interval) /\ pending' = TRUE
    /\ outcome' = None /\ notice' = None /\ accepted' = None /\ done' = FALSE
    /\ told' = <<>> /\ rivals' = FALSE /\ age' = 0
    /\ UNCHANGED <<config, asked>>

HandleTimeout ==
    /\ ~done /\ \E d \in deadline : d <= 0
    /\ IF attempts >= config.maxAttempts
       THEN /\ done' = TRUE /\ outcome' = Some(GaveUp(attempts)) /\ deadline' = None
            /\ UNCHANGED <<attempts, pending>>
       ELSE /\ attempts' = attempts + 1 /\ deadline' = Some(Interval) /\ pending' = TRUE
            /\ UNCHANGED <<done, outcome>>
    /\ UNCHANGED <<config, notice, accepted, asked, told, rivals, age>>

(* handle_datagram, case by case.  Once there is an answer, all that is     *)
(* left to say of another one is that it disagrees.                         *)
ComparedAfterRefusal(r) ==
    /\ accepted # None
    /\ notice' = IF ~Usable(r) THEN Some(Refused(r))
                 ELSE IF Some(r) # accepted THEN {Conflict(a, r) : a \in accepted} ELSE notice
    /\ UNCHANGED <<attempts, deadline, pending, outcome, accepted, done>>

Compared(r) ==
    /\ accepted # None
    /\ notice' = IF Some(r) # accepted /\ Usable(r)
                 THEN {Conflict(a, r) : a \in accepted} ELSE notice
    /\ UNCHANGED <<attempts, deadline, pending, outcome, accepted, done>>

TooLate(r) == accepted = None /\ done /\ UNCHANGED engine

(* A refused answer leaves the run as it was.                               *)
RefuseRearming(r) ==
    /\ accepted = None /\ ~done /\ ~Usable(r)
    /\ notice' = Some(Refused(r))
    /\ deadline' = Some(Interval)
    /\ UNCHANGED <<attempts, pending, outcome, accepted, done>>

Refuse(r) ==
    /\ accepted = None /\ ~done /\ ~Usable(r)
    /\ notice' = Some(Refused(r))
    /\ UNCHANGED <<attempts, deadline, pending, outcome, accepted, done>>

AcceptLate(r) ==
    /\ accepted = None /\ Usable(r)
    /\ done' = TRUE /\ deadline' = None /\ pending' = FALSE
    /\ accepted' = Some(r) /\ outcome' = Some(Found(r))
    /\ UNCHANGED <<attempts, notice>>

Accept(r) ==
    /\ accepted = None /\ ~done /\ Usable(r)
    /\ done' = TRUE /\ deadline' = None /\ pending' = FALSE
    /\ accepted' = Some(r) /\ outcome' = Some(Found(r))
    /\ UNCHANGED <<attempts, notice>>

(* What does not parse is an error, and the run is untouched.               *)
HandleDatagram(r) ==
    IF r = Malformed THEN UNCHANGED engine
    ELSE Compared(r) \/ TooLate(r) \/ Refuse(r) \/ Accept(r)

IsRival(r) == r # Malformed /\ accepted # None /\ Some(r) # accepted /\ Usable(r)

(* An answer of a station that was asked, or a stray.                       *)
Arrives ==
    /\ \E r \in Strays \cup (IF asked THEN Answers ELSE {}) :
        /\ HandleDatagram(r)
        /\ rivals' = (rivals \/ IsRival(r))
    /\ UNCHANGED <<config, asked, told, age>>

-----------------------------------------------------------------------------
PollTransmit ==
    /\ pending
    /\ pending' = FALSE /\ asked' = TRUE
    /\ UNCHANGED <<config, attempts, deadline, outcome, notice, accepted, done, told, rivals, age>>

(* poll_event: a notice comes out before the outcome.                       *)
PollNotice ==
    /\ notice # None
    /\ notice' = None
    /\ rivals' = (rivals /\ \A n \in notice : n.kind # "Conflict")
    /\ UNCHANGED <<outcome, told>>

PollOutcome ==
    /\ notice = None /\ outcome # None
    /\ told' = told \o SetToSeq(outcome)
    /\ outcome' = None
    /\ UNCHANGED <<notice, rivals>>

PollEvent ==
    /\ PollNotice \/ PollOutcome
    /\ UNCHANGED <<config, attempts, deadline, pending, accepted, done, asked, age>>

Clock ==
    /\ deadline # None /\ \A d \in deadline : d > -MaxLate
    /\ deadline' = {d - 1 : d \in deadline}
    /\ age' = age + 1
    /\ UNCHANGED <<config, attempts, pending, outcome, notice, accepted, done, asked, told, rivals>>

Next == Start \/ HandleTimeout \/ Arrives \/ PollTransmit \/ PollEvent \/ Clock

Spec == Init /\ [][Next]_vars

-----------------------------------------------------------------------------
(* A run has one outcome: it is there as soon as the run is over, it is     *)
(* told once, and nothing that arrives later takes it back or adds another. *)
OneOutcome == Len(told) + Cardinality(outcome) = IF done THEN 1 ELSE 0

Reported(r) == Found(r) \in outcome \/ \E i \in DOMAIN told : told[i] = Found(r)

(* A usable answer that names another endpoint than the one taken does not  *)
(* go unnoticed, whatever else arrives before the caller looks; and it is   *)
(* compared with the very answer the caller was given.                      *)
RivalIsReported ==
    /\ rivals => \E n \in notice : n.kind = "Conflict"
    /\ \A n \in notice : n.kind = "Conflict" =>
            Reported(n.response) /\ n.other # n.response /\ Usable(n.other)

(* No number of answers that cannot be used prolongs a run: it is over when *)
(* the attempts are used up, of which there is always one.                  *)
EndsInTime == ~done => age <= Max({1, config.maxAttempts}) * (Interval + MaxLate)
=============================================================================

# A TLA+ verification of the iso15118 crate

The crate is a sans-I/O implementation of the vehicle-to-grid stack of
ISO 15118-2 and ISO 15118-20: it turns bytes and instants into messages, events
and deadlines, and leaves sockets and clocks to its caller. This directory holds
TLA+ models of its parts, TLC configurations that check them on small instances,
and TLAPS proofs of what matters most about them for every instance.

A path such as `secc.rs:742` is relative to `src/src/`. `PROJECT.json` maps every
definition that models code to the lines it models.

## The system

### Parts and interactions

A charging session goes through the parts in this order.

1. **SLAC matching** (`slac/`). Over the powerline a vehicle finds out which
   station its cable leads to. It broadcasts a parameter request, sends a burst
   of sounds, collects the attenuation each station measured, and asks the
   nearest for its network key. Two engines, `Evse` and `Ev`, each with a state,
   a run, one deadline and queues of frames and events.
2. **Discovery** (`sdp.rs`). The vehicle multicasts a request for the station's
   address, repeats it on a timer up to a limit, and takes the first usable answer.
3. **The handshake** (`app_protocol.rs`, `protocol.rs`). On the connection the
   vehicle offers protocols with ids and priorities, and the station answers with
   the id of the one it takes.
4. **The session** (`secc.rs`, `evcc.rs`). Each end has a driver on top of a
   connection (`session/conn.rs`: V2GTP frames in and out), a set of timers
   (`session/timers.rs`) and a flow (`session/mod.rs`), which is the sequencer of
   the agreed generation. Each end walks its own copy of the ordering graph:
   `session/iso2/mod.rs` or `session/iso20.rs`. The vehicle sends one request at a
   time and the station's application answers it.
5. **Checks the application calls** on what messages carry: a charging profile
   against the offered schedule (`session/iso2/schedule.rs`), certificate chains
   (`pnc/pki/`), signatures (`pnc/`).

Underneath are the EXI codec (`exi/`) and the generated message types.

### State and operations

| Part | State | Operations that change it |
|---|---|---|
| `-2` sequencer | phase, TLS, payment, transfer mode, `renegotiated`, certificate exchange, failure latch | `accept`, `failed` |
| `-20` sequencer | phase, energy transfer, `renegotiated`, `starting`, failure latch | `accept_processing`, `failed`, `resume` |
| Timers | the armed deadlines | `arm`, `disarm`, `disarm_all`, `expired` |
| Connection | frames received, protocol, count of ignored frames | receive, `next_message`, `send` |
| Station driver | flow, id, outstanding request, phase, overdue, closed | `opened`, `handle_input`, `respond`, `handle_timeout`, `join_session`, `resume` |
| Vehicle driver | flow, offer, id, outstanding request, phase, closed | `start`, `request`, `handle_input`, `handle_timeout`, `resume` |
| SLAC engines | state, run, measurement, best station, deadline, queues | `handle_frame`, `observe`, `start`, `reset`, `handle_timeout` |
| Discovery | attempts, deadline, pending request, outcome, notice, accepted answer | `start`, `handle_datagram`, `handle_timeout`, `poll_transmit`, `poll_event` |

### What is hard

Nothing here runs in threads; what is hard is order and time. Two ends walk
two copies of a graph of about fifteen phases, in which facts recorded early (how
the session is paid for, which service, that the cable was tested) decide much later
steps, and renegotiations go back in it while the contactors stay closed. Three
timers a side race messages, and a caller may be late with all of them. A peer
may send ahead, send nonsense, or fall silent. On the powerline segment everyone
hears everyone, frames are lost and late, and a retry re-opens a run. The list
of hazards in `PROJECT.json` names the lines.

## The modules

| Module | Models | How |
|---|---|---|
| `Iso2Flow`, `Iso20Flow` | the ordering graphs | A sequencer is a record with the fields of the Rust struct. `NextPhase` is the table of arms; `Permits` and `Accepted` are `permits` and `accept`. No variables. |
| `Iso2Sequencer`, `Iso20Sequencer` | one sequencer under any peer | Actions `Accept(r)`, `Fail` and, for -20, `Resume`. History variables record what the accepted requests did at the plug: isolation tested, pre-charged, power on and, for -20, a service given up with the power on (`unwound`). |
| `Flow` | `session/mod.rs` | The two generations behind one interface, and the loop budgets by role. |
| `Timers` | `session/timers.rs` | A function from the armed timers to the time each has left. The order of ties is the code's. |
| `AppProtocol`, `Handshake` | `app_protocol.rs` | Offers as sequences of entries; `NegotiateWith` and `AdvertisingWith` as the code has them; `Handshake` lets every pair of configurations meet. |
| `Messages` | `message.rs`, `v2gtp.rs` | What a frame is to a receiver: a request, a response, something to skip, something to fail on. |
| `Driver` | `session/conn.rs` and what the drivers share | Each step of a call takes a record to a record, so that one action is one whole call. |
| `Secc`, `Evcc` | `secc.rs`, `evcc.rs` | One action for each public operation; `handle_input` includes the whole of `pump` and `dispatch`. |
| `Station`, `Vehicle` | one driver with any peer | The driver, its application, its caller's clock, and a peer that sends anything. |
| `Session` | both drivers over a connection | Ordered and lossless until it breaks. One clock for both. |
| `Dialogue` | what a session promises | The abstract specification: one exchange, at one place. `Session` implements it (`OneExchangeAtATime`). |
| `Slac`, `SlacEvse`, `SlacEv` | `slac/matching.rs` | The engines as records, each handler an operator. |
| `Matching` | a powerline segment | Any number of both engines, a medium that loses and delays, modems that report when they like. |
| `Discovery` | `sdp.rs` | The engine, the answer a station owes by its TLS policy, and strays. |
| `Schedule` | `session/iso2/schedule.rs` | The two readers and the checks as operators, u32 offsets saturating as in the code. |
| `CertChain` | `pnc/pki/chain.rs` | `validate`, `find_anchor`, `select_chain` as operators. A signature is an abstract relation of two certificates. |
| `*Proofs` | | The theorems. |
| `MC_*` | | Constants for TLC. |

Conventions. An `Option` is a set of at most one element, or a value of its own
(`NoFlow`, `NoRequest`). Deadlines are countdowns: an instant `t` is `t - now`, so
that the clock needs no variable; this is exact as long as the saturating
additions do not saturate, which takes u64 milliseconds. A session id is a number
and 0 is the all-zero id. A caller drains `poll_event` and `take_transmit` after
every call of a driver; for `Discovery`, whose slots are overwritten, polling is an
action of its own.

## What the runs check

Passing runs. Every property has a mutant: a plausible slip in the code that
the run is confirmed to notice.

**`iso2_sequencer`, `iso20_sequencer`** (every request order; the graphs are finite
and nothing is bounded). A contract is selected only over TLS
(`PlugAndChargeNeedsTls`); no order of requests reaches charge parameters, a
service or power without an authorization (`PowerNeedsAuthorization`,
`ServiceNeedsAuthorization`); DC power is behind an isolation test and a
pre-charge (`DcPowerNeedsIsolation`: for -20 under the very service that delivers;
for -2 in a session that delivered no AC power, see the findings); a failure is
final (`FailureIsFinal`).

Two more are about the power that a renegotiation leaves on. Power goes off with
`PowerDeliveryReq(Stop)` or `Standby` and with nothing else. A pause accepted with
the power on leaves from the phases `LivePauseLeavesRenegotiation` names and no
others: in -2 the `ChargeParameters` of a renegotiated session; in -20 the
`ChargeParameters` and `ScheduleExchanged` of a schedule renegotiation and, after a
service renegotiation straight out of the charge loop (`session/iso20.rs:960`),
these two and the phases of choosing a service. Never from the cable check, the
pre-charge or the charge loop, also after a failure. That such pauses exist is the
subject of `iso2_pause` below. A renegotiation with the power on can go on
charging without another isolation test (`RenegotiationCanComplete`), unless it
gave up the service.

**`handshake`**. All pairs of configurations, and foreign offers of up to three
entries with repeated ids, tied priorities, other versions and unknown
namespaces. The station takes the best usable entry (`BestEntryWins`), both ends
read the answer alike (`SameReading`), and a protocol both speak is found
(`CommonProtocolIsFound`: the vehicle offers all it can speak).

**`station`**. A station against a vehicle that sends anything, in reads of one or
several frames, answered or not; among them a `ServiceSelectionReq` of an id that is
no energy transfer service, which the flow does not sequence and the session does
not survive (`secc.rs:586`). An open session always has a deadline
(`OpenUntilADeadline`); no frame stays unread behind a request that was answered
(`NoFrameLeftBehind`); a loop ends with its budget however often the vehicle
repeats (`LoopIsBounded`); after the budget nothing but the stop is let through, and
what is refused is reported as overdue in the phase that ran over, never as the
vehicle's sequence error (`OverdueEndsTheSession`); no request is checked against
the zero id (`AssignedBeforeChecked`); and a failed session ends, whatever is sent
(`FailureEndsTheSession`, liveness).

**`vehicle`**. The same for the vehicle, also against a handshake answer of
success that names no schema, which it takes as a refusal (`evcc.rs:492`):
`WaitsUntilADeadline`, `LoopIsBounded`, the station's id is adopted once
(`IdIsAdoptedOnce`), after a failure only the stop goes onto the wire
(`FailureLeavesTheStop`).

**`session`**. The two drivers together, over DC sessions of both generations with
renegotiation, pause and rejoining, and a connection that may break at any time.
With nothing in transit both are at the same place of the same graph under the
same id (`EndsAgree`); neither blames the other (`NobodyIsBlamed`); the station's
loop budget runs out first (`StationGivesUpFirst`); the drivers implement
`Dialogue` (`OneExchangeAtATime`, a refinement); a break ends the station's session
and that of a vehicle that waits (`BreakIsNoticed`, liveness).

**`slac`**. A key goes only along a choice (`KeyFollowsChoice`), with vehicles
that picked the same run id: a matched station was asked by the vehicle it gave
its key to, and a matched vehicle has the key of a station it asked, in this
attempt or an earlier one, and which it holds for the nearest; on a prompt
segment the nearest station wins (`NearestStationWins`); reports do not put the
choice off (`ResultsWindowIsBounded`); every run ends, whatever is lost
(`EveryRunEnds`, liveness).

**`discovery`**. A run has one outcome (`OneOutcome`), a second usable answer is
reported (`RivalIsReported`), and no answers prolong a run (`EndsInTime`).

### Runs that find a disagreement

Each of these states what a comment says, and TLC finds that the code does
otherwise.

- **`iso2_pause`**: a comment says a pause is never accepted with the cable live
  (`session/iso2/mod.rs:645`). After `PowerDeliveryReq(Renegotiate)` it is. The -20
  graph disagrees with its own comment (`session/iso20.rs:930-937`) in the same way:
  after `PowerDeliveryReq(ScheduleRenegotiation)` a pause is accepted with the power
  on, in `ChargeParameters` and in `ScheduleExchanged`. `MC_Iso20Pause.cfg` checks
  `Iso20Sequencer`'s `PausedMeansPowerOff` and TLC refutes it with that trace. That
  property leaves out sessions that gave up their service with the power on, where
  a comment takes the contactors to be open (`session/iso20.rs:764`), so that the
  trace rests on the schedule renegotiation alone.
- **`iso2_isolation`**: a comment says `renegotiated` records that the isolation
  test and the pre-charge are behind (`session/iso2/mod.rs:469`). An AC session that
  renegotiates and then names a DC mode has neither, and starts DC power.
- **`station_overdue`**: the docs say the budget is for a phase the station kept
  answering `Ongoing` (`secc.rs:59`). It also runs after the final answer.
- **`slac_late_report`**: a comment says the key is taken only from the station the
  vehicle picked (`slac/matching.rs:752`). A late report changes which station
  that is, and the key that was asked for is dropped.

### Observations without a run

- A -20 service renegotiation is accepted straight from `Charging`
  (`session/iso20.rs:960`), with no `PowerDeliveryReq(Stop)` before it, although
  `session/iso20.rs:764` takes the contactors to be open after one.
- `respond` on a station that has closed still queues its answer (`secc.rs:724`),
  although `secc.rs:256` says nothing further will be written.
- The station disarms the setup timer when the handshake request arrives
  (`secc.rs:478`); from there the sequence timer is what bounds it.
- `respond` marks the flow as failed before `send`, which may fail
  (`secc.rs:722-724`): the vehicle then never sees why.
- A second `CM_SLAC_MATCH.REQ` fails a station that is already matched
  (`slac/matching.rs:461`).
- A measurement survives into the station's next run (`slac/matching.rs:334`, `:409`).
- A late `CM_START_ATTEN_CHAR.IND` re-arms the timer of a station that has already
  measured (`slac/matching.rs:370`).
- `with_max_attempts(0)` still sends one discovery request (`sdp.rs:609`).
- A schedule whose last entry has duration zero is compared with a profile at
  offsets where it limits nothing (`session/iso2/schedule.rs:104`); it is the
  hypothesis of `RefusedProfileExceeds`.
- The open end of a schedule or profile is `u32::MAX`, exclusive: the offset
  `u32::MAX` itself is compared nowhere.
- The verdict after the loop of `validate` (`pnc/pki/chain.rs:252`) is never reached
  (lemma `WalkEnds`), and `Validated.intermediates` holds every certificate that
  arrived, also those past the one an anchor vouched for (`chain.rs:228`).

### Bounds, and why they are enough

The sequencers' runs have none. Elsewhere time is in ticks, and the durations are
the smallest that keep the order of the standard's figures and leave room for a
step before, at and after each deadline.

| Run | Bounds |
|---|---|
| `handshake` | message sets AC and DC, lists of up to 3 sets, 8 foreign entries in offers of up to 3: two to tie and one to differ |
| `station` | setup 2, sequence 4, budgets 1 (pre-charge), 2 (cable check), 3 (other loops), 2 frames waiting, a timeout up to 1 tick late, ids 0 and 1 and a paused session's 2, loop age counted to 5 (above every budget and delay) |
| `vehicle` | setup 3, message 2, the same budgets, lateness and age |
| `session` | station setup 2 and sequence 4, vehicle setup 3 and message 2, the vehicle's budgets 3 above the station's, callers on time, one tick of rest before a request |
| `slac` | two vehicles and two stations, in four segments (one vehicle between two stations, two vehicles at one, a retry, all of them prompt), 1 start and 2 sounds, 2 frames queued, 1 station remembered, so that both limits are met. A lossy segment of two stations with a retry is beyond the run: 21 million states show no violation and are not all of them |
| `discovery` | interval 2, 0 to 2 attempts, a timeout up to 1 tick late, every request, TLS policy and off-link setting |

The graphs inside the drivers are whole; what is cut down is which requests a
script sends (`MC_Station`, `MC_Vehicle`, `MC_Session`), and it keeps the handshake,
setup, a loop of each kind, a renegotiation, pause and stop.

### Fairness

`Station`: weak fairness of the clock and of `handle_timeout`. Time passes, and
`poll_timeout` is there for a caller to honour. Nothing is assumed of the vehicle or
the application. `Session` and `Matching` ask that time or a due timeout goes on;
in a prompt segment the clock waits for the medium, which is then part of it.
Frames may otherwise be lost or delayed for ever. The other specifications have no
fairness and only safety properties.

Deadlock is checked in the sequencers' runs. The other systems stop by design: a
session closes, a run is over.

## What is proved

TLAPS checks every proof. The theorems hold for every value of the constants and
every input; none rests on an assumption beyond those its statement lists.

**The sequencers** (`Iso2SequencerProofs`, `Iso20SequencerProofs`). Every
invariant and action property of the two runs is a theorem, together with three
that only the proofs state: at most one certificate exchange
(`CertificateOnce`), payment and end are final (`DecisionsFinal`), and a -20
sequencer names a service exactly while one is selected (`ServiceNamed`). None
of the invariants is inductive. A sequencer does not record that an isolation
test ran; it records a phase from which that follows. `SafetyInv` makes this
explicit: which safety step each phase stands behind, that `renegotiated`
implies the same for a DC session, that it is set only within the selected
service, and which phases have the power on, with which flag; the last is what
`LivePause` reads off when a pause is accepted. `Accept` preserves it arm by
arm, from lemmas that give each phase's predecessors; `Fail` and `Resume` change
little. The theorems then follow from `SafetyInv`.

**The schedule check** (`ScheduleProofs`). The code compares intervals; the
promise is about instants. `AcceptedProfileFits`: an accepted profile draws no
more than the schedule permits at any offset below `u32::MAX`.
`RefusedProfileExceeds`: a refused one does exceed it, and the offset in the
error is the first where it does, unless the schedule ends in an entry of no
duration. `CoverageIsTheEdge`: a schedule states a limit from its first entry up
to its coverage and none after. `PmaxAt` is `pmax_at` with its errors; the limit
of a schedule that reads without one is `LimitAt`. Induction over entries is
replaced by the least counterexample.

**Certificate chains** (`CertChainProofs`). The code walks; the theorems say
what the walk amounts to. `AcceptedChainIsTrusted` and `TrustedChainIsAccepted`
are soundness and completeness with respect to a path of sound links to an
anchor. From them: the anchors' order does not matter
(`AnchorOrderIsIrrelevant`), nesting carries over the path
(`LeafLivesWithinItsAnchor`), and a holder of an acceptable chain finds one to
send (`AcceptableChainIsSelectable`). The signature relation is unconstrained.

`Schedule` and `CertChain` have no run: they have no state, and the theorems say more
than a run over small inputs.

**Only model-checked**: all liveness, the refinement of `Dialogue`, the
handshake, both drivers, matching and discovery. Liveness under fairness and
`ENABLED` are out of the prover's reach, and so are induction over data (what a
recursive definition computes for every input) and `RECURSIVE` operators.

## What is not modelled

- **EXI codec and generated messages** (`exi/`, `generated/`): functions of one message,
  bit by bit. `Messages` takes their outcome, a message or an error.
- **Certificate parsing** (`pnc/pki/cert.rs`, `der.rs`): likewise; `CertChain` starts from
  the parsed record.
- **Signatures, envelope, crypto** (`pnc/`): the pairing of references and elements is
  planned; the computations are behind traits.
- **Bytes**: a frame split over several reads (`session/conn.rs:163`), V2GTP headers,
  the layout of SLAC and SDP messages. A frame arrives whole.
- **`is_local_fault`** and other classifications of errors for display; logging;
  the saturation of u64 milliseconds (`session/clock.rs`).
- **An application that answers a refused request with the response of another
  one**: `Secc` answers what was asked.

## Plan

The order was: graphs, sequencers and their proofs; handshake; drivers, each
alone; both together and their abstraction; matching; discovery; the pure checks.
All of that is here. What is left:

1. The byte level of the connection, as a module that `Driver`'s whole frames
   abstract, with the refinement checked.
2. The pairing of signature references and signed elements (`pnc/mod.rs`) and the
   order of the checks, as operators with theorems.
3. Proofs about `Timers` (the earliest deadline expires first), the handshake
   (`BestEntryWins`, `SameReading`) and `Discovery` (`OneOutcome`).
4. The safety part of the refinement of `Dialogue`.

## Running it

    tlc -config MC_Station.cfg MC_Station
    tlapm Iso2SequencerProofs.tla

`PROJECT.json` lists every run with its module and configuration.

------------------------------- MODULE Driver -------------------------------
(***************************************************************************)
(* What the two session drivers have in common.  The state of a driver is  *)
(* a record, and each step of a call is an operator that takes a record to *)
(* a record, so that one action of Secc or Evcc is one whole call: what it *)
(* reads, dispatches and closes on the way is part of it.  The fields      *)
(* events, tx and result hold what the latest call queued and returned;    *)
(* the caller drains the queues after every call.                          *)
(***************************************************************************)
EXTENDS AppProtocol, Flow, Messages, Timers

CONSTANTS
    Sets, Security,             \* the -20 sets and the transport it is configured with
    SetupTimeout,               \* config.setup_timeout
    Budget,                     \* its loop budgets, by kind of loop
    MaxPending,                 \* config.max_pending_frames
    MaxLate                     \* how late the caller may be for a deadline

(* The DC safety budgets are the tightest.                                  *)
ASSUME DriverConfiguration ==
    /\ MaxPending \in Nat \ {0}
    /\ MaxLate \in Nat
    /\ SetupTimeout \in Nat \ {0}
    /\ Budget \in [LoopKinds -> Nat \ {0}]
    /\ Budget["PreCharge"] < Budget["CableCheck"]
    /\ Budget["CableCheck"] < Budget["Ongoing"]

(* A driver before its handshake; protocols and id are its configuration's. *)
Fresh(protocols, id) ==
    [protocols |-> protocols, protocol |-> "none", flow |-> NoFlow, id |-> id, established |-> FALSE, phase |-> "none",
     closed |-> FALSE, timers |-> NoTimers, frames |-> <<>>, events |-> <<>>, tx |-> <<>>,
     result |-> "Ok"]

(* The caller has taken what the call before queued.                        *)
Drained(s) == [s EXCEPT !.events = <<>>, !.tx = <<>>, !.result = "Ok"]

Emit(s, event, detail) == [s EXCEPT !.events = Append(@, <<event, detail>>)]

Fault(s) == [s EXCEPT !.result = "Err"]

(* A session closes once.                                                   *)
Close(s, why) ==
    IF s.closed THEN s
    ELSE Emit([s EXCEPT !.closed = TRUE, !.timers = NoTimers], "Closed", why)

(* enter_phase: the budget of a loop runs from the first request of the     *)
(* phase; a repeat leaves it running.                                       *)
RestartBudget(s) ==
    [s EXCEPT !.phase = PhaseName(s.flow),
              !.timers = IF LoopKind(s.flow) \in LoopKinds
                         THEN Arm(@, "Ongoing", Budget[LoopKind(s.flow)])
                         ELSE Disarm(@, "Ongoing")]

EnterPhase(s) == IF s.phase = PhaseName(s.flow) THEN s ELSE RestartBudget(s)

(* Connection::receive on whole frames: bytes that are no frame, and more   *)
(* frames than may wait, end the stream.                                    *)
ReceiveUnbounded(s, fs) ==
    IF Malformed \in ToSet(fs) THEN Fault([s EXCEPT !.frames = <<>>])
    ELSE [s EXCEPT !.frames = @ \o fs]

Receive(s, fs) ==
    IF Malformed \in ToSet(fs) \/ Len(s.frames) + Len(fs) > MaxPending
    THEN Fault([s EXCEPT !.frames = <<>>])
    ELSE [s EXCEPT !.frames = @ \o fs]

(* Time passes; the caller is never later than MaxLate for a deadline.      *)
OnTime(s) == \A t \in DOMAIN s.timers : s.timers[t] > -MaxLate

Later(s) == [Drained(s) EXCEPT !.timers = Elapsed(@)]
=============================================================================

-------------------------------- MODULE Slac --------------------------------
(***************************************************************************)
(* What the two SLAC engines share (slac/mod.rs, slac/matching.rs): the    *)
(* timers and counts of ISO 15118-3 and the management messages.  The MAC  *)
(* and the identity of a node are one value, its name.  An Option is a set *)
(* of at most one element, a deadline the time that is left until it.      *)
(***************************************************************************)
EXTENDS Integers, Sequences

CONSTANTS
    Starts,             \* C_EV_start_atten_char_inds
    Sounds,             \* C_EV_match_MNBC
    Interval,           \* TP_EV_batch_msg_interval
    Window,             \* TT_EVSE_match_MNBC
    Response,           \* TT_match_response
    Results,            \* TT_EV_atten_results
    SessionTimeout,     \* TT_EVSE_match_session
    Join,               \* TT_match_join
    MaxPendingFrames,   \* MAX_PENDING_FRAMES
    MaxStations         \* MAX_STATIONS

(* The burst fits in the window a station listens for, the station reports  *)
(* before the vehicle has to choose, and the vehicle waits longer for the   *)
(* key than a station stays in a run.                                       *)
ASSUME SlacTimers ==
    /\ {Starts, Sounds, Interval, Response, MaxPendingFrames, MaxStations} \subseteq Nat \ {0}
    /\ {Window, Results, SessionTimeout, Join} \subseteq Nat
    /\ Interval * Sounds < Window
    /\ Window < Results + Interval * Sounds
    /\ Response < Results /\ Interval + Results < SessionTimeout /\ SessionTimeout < Join

None == {}
Some(x) == {x}

(* The messages, by their mmtype.  A profile is the mean over the reported  *)
(* carrier groups, and None when no group was reported.                     *)
ParmReq(ev, run) == [mmtype |-> "SlacParmReq", source |-> ev, run |-> run]
ParmCnf(evse, ev, run) == [mmtype |-> "SlacParmCnf", source |-> evse, forwarding |-> ev, run |-> run]
StartAttenInd(ev, run) == [mmtype |-> "StartAttenCharInd", source |-> ev, run |-> run, sounds |-> Sounds]
SoundInd(ev, run) == [mmtype |-> "MnbcSoundInd", source |-> ev, sender |-> ev, run |-> run]
AttenInd(evse, run, profile) ==
    [mmtype |-> "AttenCharInd", source |-> evse, run |-> run.id, about |-> run.pev,
     aboutId |-> run.pevId, profile |-> profile]
AttenRsp(ev, run, evse) ==
    [mmtype |-> "AttenCharRsp", source |-> ev, run |-> run, resp |-> evse, result |-> 0]
MatchReq(ev, run, evse) == [mmtype |-> "SlacMatchReq", source |-> ev, pev |-> ev, run |-> run, evse |-> evse]
MatchCnf(evse, req) ==
    [mmtype |-> "SlacMatchCnf", source |-> evse, evse |-> evse, pev |-> req.pev, run |-> req.run]

-----------------------------------------------------------------------------
(* Housekeeping, the same in both engines.                                  *)
Arm(n, after) == [n EXCEPT !.deadline = Some(after)]

Disarm(n) == [n EXCEPT !.deadline = None]

(* Frames beyond the bound are dropped.                                     *)
Queue(n, f) == IF Len(n.out) < MaxPendingFrames THEN [n EXCEPT !.out = Append(@, f)] ELSE n

(* A failure is reported once.                                              *)
Fail(n) == IF n.state = "Failed" THEN n ELSE Disarm([n EXCEPT !.state = "Failed"])

Due(n) == \E d \in n.deadline : d <= 0

Beyond(limit, mean) == \E l \in limit : mean > l
=============================================================================

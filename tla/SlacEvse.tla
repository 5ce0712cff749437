------------------------------ MODULE SlacEvse ------------------------------
(***************************************************************************)
(* The station's matching engine (slac/matching.rs, Evse).  An engine is a *)
(* record; each handler takes the engine and a frame to the engine after   *)
(* it.  Frames that are malformed or of another type leave it alone.       *)
(***************************************************************************)
EXTENDS Slac

(* EvseConfig.attenuation_limit, and the identity a run has before a sound. *)
CONSTANTS StationLimit, NoId

States == {"Idle", "Sounding", "Measured", "Matched", "Failed"}

(* The most a u8 holds; a profile without groups counts as that loud.       *)
MaxByte == 255

New(mac) ==
    [mac |-> mac, state |-> "Idle", run |-> None, measured |-> None,
     deadline |-> None, out |-> <<>>]

-----------------------------------------------------------------------------
(* The frame is of the run, and from the vehicle that opened it.            *)
Ours(s, f) == \E r \in s.run : r.id = f.run /\ r.pev = f.source

InAnotherRun(s, f) == s.state \in {"Sounding", "Measured"} /\ ~Ours(s, f)

OpenRun(s, f) ==
    Queue([s EXCEPT !.run = Some([id |-> f.run, pev |-> f.source, pevId |-> NoId,
                                  sounds |-> 0, expected |-> Sounds]),
                    !.state = "Sounding"],
          ParmCnf(s.mac, f.source, f.run))

OnParmReqUntimed(s, f) ==
    IF s.state = "Matched" \/ InAnotherRun(s, f) THEN s ELSE OpenRun(s, f)

OnParmReq(s, f) ==
    IF s.state = "Matched" \/ InAnotherRun(s, f) THEN s
    ELSE Arm(OpenRun(s, f), SessionTimeout)

OnStartAtten(s, f) ==
    IF Ours(s, f)
    THEN Arm([s EXCEPT !.run = {[r EXCEPT !.expected = f.sounds] : r \in @}], Window)
    ELSE s

-----------------------------------------------------------------------------
Mean(profile) == IF profile = None THEN MaxByte ELSE CHOOSE m \in profile : TRUE

(* The window closes: the profile is reported, or there is none to report.  *)
FinishSounding(s) ==
    IF s.state # "Sounding" THEN s
    ELSE IF \A p \in s.measured : Beyond(StationLimit, Mean(p)) THEN Fail(s)
    ELSE LET run == CHOOSE r \in s.run : TRUE
             profile == CHOOSE p \in s.measured : TRUE
         IN Arm(Queue([s EXCEPT !.state = "Measured"], AttenInd(s.mac, run, profile)),
                SessionTimeout)

Counted(s, f) ==
    [s EXCEPT !.run = {[r EXCEPT !.pevId = f.sender,
                                 !.sounds = IF @ < MaxByte THEN @ + 1 ELSE @] : r \in @}]

OnSound(s, f) ==
    IF ~Ours(s, f) THEN s
    ELSE IF \E r \in Counted(s, f).run : r.sounds >= r.expected
         THEN FinishSounding(Counted(s, f))
         ELSE Counted(s, f)

(* observe: what the modem heard, and the last one wins.                    *)
Observe(s, profile) == [s EXCEPT !.measured = Some(profile)]

-----------------------------------------------------------------------------
OnAttenRsp(s, f) ==
    IF Ours(s, f) /\ f.resp = s.mac /\ f.result # 0 THEN Fail(s) ELSE s

Handover(s, f) ==
    Disarm([Queue(s, MatchCnf(s.mac, f)) EXCEPT !.state = "Matched"])

(* A request that names another station is that station's.                  *)
OnMatchReq(s, f) ==
    IF ~Ours(s, f) \/ f.evse # s.mac THEN s
    ELSE IF s.state # "Measured" THEN Fail(s) ELSE Handover(s, f)

HandleFrame(s, f) ==
    CASE f.mmtype = "SlacParmReq" -> OnParmReq(s, f)
      [] f.mmtype = "StartAttenCharInd" -> OnStartAtten(s, f)
      [] f.mmtype = "MnbcSoundInd" -> OnSound(s, f)
      [] f.mmtype = "AttenCharRsp" -> OnAttenRsp(s, f)
      [] f.mmtype = "SlacMatchReq" -> OnMatchReq(s, f)
      [] OTHER -> s

-----------------------------------------------------------------------------
(* A deadline that is due: a window in which something was heard is closed. *)
HandleTimeout(s) ==
    CASE s.state = "Sounding" /\ (\E r \in s.run : r.sounds > 0) -> FinishSounding(Disarm(s))
      [] s.state = "Sounding" /\ (\A r \in s.run : r.sounds = 0) -> Fail(Disarm(s))
      [] s.state = "Measured" -> Fail(Disarm(s))
      [] s.state \in {"Idle", "Matched", "Failed"} -> Disarm(s)

Reset(s) == New(s.mac)
=============================================================================

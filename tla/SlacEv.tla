------------------------------- MODULE SlacEv -------------------------------
(***************************************************************************)
(* The vehicle's matching engine (slac/matching.rs, Ev), written like the  *)
(* station's.                                                              *)
(***************************************************************************)
EXTENDS Slac, FiniteSets

CONSTANT VehicleLimit   \* EvConfig.attenuation_limit

States ==
    {"Idle", "Probing", "Sounding", "AwaitingMeasurements", "AwaitingKey", "Matched", "Failed"}

New(mac, run) ==
    [mac |-> mac, runId |-> run, state |-> "Idle", best |-> None, answered |-> {},
     remainingSounds |-> 0, remainingStarts |-> 0,
     deadline |-> None, resultsDeadline |-> None, out |-> <<>>]

(* start, which is also the retry: nothing of the run before is kept.       *)
Start(e) ==
    Arm(Queue([New(e.mac, e.runId) EXCEPT !.state = "Probing"], ParmReq(e.mac, e.runId)), Response)

-----------------------------------------------------------------------------
(* The list of stations is bounded, and only its emptiness matters.         *)
OnParmCnf(e, f) ==
    IF f.run = e.runId /\ f.forwarding = e.mac /\ Cardinality(e.answered) < MaxStations
    THEN [e EXCEPT !.answered = @ \cup {f.source}]
    ELSE e

Nearer(e, mean) == \A b \in e.best : mean < b.mean

RememberedLast(e, f, mean) == [e EXCEPT !.best = Some([evse |-> f.source, mean |-> mean])]

Remembered(e, f, mean) ==
    IF Nearer(e, mean) THEN [e EXCEPT !.best = Some([evse |-> f.source, mean |-> mean])] ELSE e

(* A report shortens the wait for others and never prolongs it.             *)
WaitsUnclamped(e) == [e EXCEPT !.deadline = Some(Response)]

Waits(e) ==
    [e EXCEPT !.deadline =
        IF \E end \in e.resultsDeadline : end < Response THEN e.resultsDeadline ELSE Some(Response)]

OnMeasurement(e, f) ==
    LET mean == CHOOSE m \in f.profile : TRUE IN
    IF f.profile = None \/ Beyond(VehicleLimit, mean) THEN e
    ELSE IF e.state = "AwaitingMeasurements" THEN Waits(Remembered(e, f, mean))
    ELSE Remembered(e, f, mean)

(* The report is about this vehicle's own burst.                            *)
OnAttenInd(e, f) ==
    IF f.run = e.runId /\ f.about = e.mac /\ f.aboutId = e.mac THEN OnMeasurement(e, f) ELSE e

KeyFromAnyStation(e, f) ==
    IF e.state = "AwaitingKey" /\ f.run = e.runId /\ f.pev = e.mac
    THEN Disarm([e EXCEPT !.state = "Matched"])
    ELSE e

(* The key is taken from the station this vehicle knows to be the best, and *)
(* from no other.                                                           *)
OnMatchCnf(e, f) ==
    IF /\ e.state = "AwaitingKey" /\ f.run = e.runId
       /\ \E b \in e.best : f.source = b.evse /\ f.evse = b.evse
       /\ f.pev = e.mac
    THEN Disarm([e EXCEPT !.state = "Matched"])
    ELSE e

HandleFrame(e, f) ==
    CASE f.mmtype = "SlacParmCnf" -> OnParmCnf(e, f)
      [] f.mmtype = "AttenCharInd" -> OnAttenInd(e, f)
      [] f.mmtype = "SlacMatchCnf" -> OnMatchCnf(e, f)
      [] OTHER -> e

-----------------------------------------------------------------------------
(* send_next_sound: the starts, then the sounds, one at a time; after the   *)
(* last, the window for the reports opens.                                  *)
SendNextSound(e) ==
    CASE e.remainingStarts > 0 ->
            Arm(Queue([e EXCEPT !.remainingStarts = @ - 1], StartAttenInd(e.mac, e.runId)), Interval)
      [] e.remainingStarts = 0 /\ e.remainingSounds > 0 ->
            Arm(Queue([e EXCEPT !.remainingSounds = @ - 1], SoundInd(e.mac, e.runId)), Interval)
      [] e.remainingStarts = 0 /\ e.remainingSounds = 0 ->
            Arm([e EXCEPT !.state = "AwaitingMeasurements", !.resultsDeadline = Some(Results)], Results)

BeginSounding(e) ==
    SendNextSound([e EXCEPT !.remainingStarts = Starts, !.remainingSounds = Sounds, !.state = "Sounding"])

(* choose: the quietest station is answered and asked for its key.          *)
Choose(e) ==
    IF e.best = None THEN Fail(e)
    ELSE LET evse == (CHOOSE b \in e.best : TRUE).evse
             answered == Queue(e, AttenRsp(e.mac, e.runId, evse))
             asked == Queue(answered, MatchReq(e.mac, e.runId, evse))
         IN Arm([asked EXCEPT !.state = "AwaitingKey"], Join)

HandleTimeout(e) ==
    LET due == Disarm(e) IN
    CASE e.state = "Probing" -> IF e.answered = {} THEN Fail(due) ELSE BeginSounding(due)
      [] e.state = "Sounding" -> SendNextSound(due)
      [] e.state = "AwaitingMeasurements" -> Choose(due)
      [] e.state = "AwaitingKey" -> Fail(due)
      [] e.state \in {"Idle", "Matched", "Failed"} -> due
=============================================================================

------------------------------ MODULE Schedule ------------------------------
(***************************************************************************)
(* Does a vehicle's charging profile fit the schedule it was offered       *)
(* (session/iso2/schedule.rs)?  Both are step functions over the seconds   *)
(* since the schedule was issued.  An Option is a set of at most one       *)
(* element.  An entry of a schedule is [start, duration, relative, power], *)
(* one of a profile [start, power], and a power the PhysicalValue that     *)
(* arrived.                                                                *)
(***************************************************************************)
EXTENDS Integers, Sequences

CONSTANT MaxTime   \* u32::MAX

None == {}

-----------------------------------------------------------------------------
(* power_mw: only watts, only the multipliers of the schema, and exact.     *)
TenTo(e) == CASE e = 0 -> 1 [] e = 1 -> 10 [] e = 2 -> 100 [] e = 3 -> 1000
              [] e = 4 -> 10000 [] e = 5 -> 100000 [] OTHER -> 1000000

PowerFault(value) ==
    IF value.unit # "W" THEN {"NotWatts"}
    ELSE IF value.multiplier + 3 \notin 0..6 THEN {"MultiplierOutOfRange"} ELSE None

PowerMw(value) == value.value * TenTo(value.multiplier + 3)

-----------------------------------------------------------------------------
Step(start, end, power) == [start |-> start, end |-> end, power |-> power]

(* A step without an end never stops.                                       *)
ActiveAt(step, t) == step.start <= t /\ \A e \in step.end : t < e

(* overlaps reads a missing end as the largest offset there is.             *)
EndsAfter(step, t) == \A e \in (IF step.end = None THEN {MaxTime} ELSE step.end) : t < e

Overlaps(a, b) == EndsAfter(b, a.start) /\ EndsAfter(a, b.start)

OverlapStart(a, b) == IF a.start > b.start THEN a.start ELSE b.start

(* The start of an entry is the end of the one before it.                   *)
OutOfOrder(entries, i) == i > 1 /\ entries[i].start <= entries[i - 1].start

SaturatingAdd(a, b) == IF a + b > MaxTime THEN MaxTime ELSE a + b

-----------------------------------------------------------------------------
(* The two readers fail at the first entry that has a fault.                *)
FirstOf(faults) ==
    LET bad == {i \in DOMAIN faults : faults[i] # None}
    IN IF bad = {} THEN None ELSE faults[CHOOSE i \in bad : \A j \in bad : i <= j]

ScheduleFault(entries) ==
    FirstOf([i \in DOMAIN entries |->
        IF ~entries[i].relative THEN {"ScheduleNotRelative"}
        ELSE IF PowerFault(entries[i].power) # None THEN PowerFault(entries[i].power)
        ELSE IF OutOfOrder(entries, i) THEN {"ScheduleOutOfOrder"} ELSE None])

ProfileFault(entries) ==
    FirstOf([i \in DOMAIN entries |->
        IF PowerFault(entries[i].power) # None THEN PowerFault(entries[i].power)
        ELSE IF OutOfOrder(entries, i) THEN {"ProfileOutOfOrder"} ELSE None])

(* Only the duration of the last entry of a schedule counts.                *)
ScheduleSteps(entries) ==
    [i \in DOMAIN entries |->
        Step(entries[i].start,
             IF i < Len(entries) THEN {entries[i + 1].start}
             ELSE {SaturatingAdd(entries[i].start, d) : d \in entries[i].duration},
             PowerMw(entries[i].power))]

ProfileSteps(entries) ==
    [i \in DOMAIN entries |->
        Step(entries[i].start,
             IF i < Len(entries) THEN {entries[i + 1].start} ELSE None,
             PowerMw(entries[i].power))]

-----------------------------------------------------------------------------
Faulty(fault) == [error |-> CHOOSE f \in fault : TRUE]

(* pmax_at: the first step that is active, if one is; a schedule that       *)
(* cannot be read states no limit, it is an error.                          *)
LimitAt(schedule, t) ==
    LET steps == ScheduleSteps(schedule)
        active == {i \in DOMAIN steps : ActiveAt(steps[i], t)}
    IN {steps[i].power : i \in {k \in active : \A j \in active : k <= j}}

PmaxAt(schedule, t) ==
    IF ScheduleFault(schedule) # None THEN Faulty(ScheduleFault(schedule))
    ELSE [error |-> "none", limit |-> LimitAt(schedule, t)]

Coverage(schedule) ==
    IF ScheduleFault(schedule) # None \/ schedule = <<>> THEN None
    ELSE ScheduleSteps(schedule)[Len(schedule)].end

-----------------------------------------------------------------------------
Accepted == [error |-> "none"]

ExceedsPMax(want, limit) ==
    [error |-> "ExceedsPMax", at |-> OverlapStart(want, limit),
     requested |-> want.power, permitted |-> limit.power]

(* The pairs the two loops of check_profile object to, and the first of     *)
(* them in the order of the loops.                                          *)
Excesses(wanted, limits) ==
    {p \in (DOMAIN wanted) \X (DOMAIN limits) :
        Overlaps(wanted[p[1]], limits[p[2]]) /\ wanted[p[1]].power > limits[p[2]].power}

Earliest(pairs) ==
    CHOOSE p \in pairs : \A q \in pairs : p[1] < q[1] \/ (p[1] = q[1] /\ p[2] <= q[2])

Compare(wanted, limits) ==
    IF Excesses(wanted, limits) = {} THEN Accepted
    ELSE LET p == Earliest(Excesses(wanted, limits))
         IN ExceedsPMax(wanted[p[1]], limits[p[2]])

CheckProfile(schedule, profile) ==
    IF ScheduleFault(schedule) # None THEN Faulty(ScheduleFault(schedule))
    ELSE IF ProfileFault(profile) # None THEN Faulty(ProfileFault(profile))
    ELSE Compare(ProfileSteps(profile), ScheduleSteps(schedule))

(* check_power_delivery: the first tuple with the requested id; a request   *)
(* without a profile has nothing that could exceed a limit.                 *)
Named(offered, id) == {i \in DOMAIN offered : offered[i].id = id}

CheckPowerDelivery(offered, req) ==
    IF Named(offered, req.id) = {} THEN [error |-> "UnknownScheduleTuple"]
    ELSE LET first == CHOOSE i \in Named(offered, req.id) :
                        \A j \in Named(offered, req.id) : i <= j
         IN IF req.profile = None THEN Accepted
            ELSE CheckProfile(offered[first].schedule, CHOOSE p \in req.profile : TRUE)

ResponseCode(result) ==
    CASE result.error = "none" -> "OK"
      [] result.error = "UnknownScheduleTuple" -> "FAILED_TariffSelectionInvalid"
      [] OTHER -> "FAILED_ChargingProfileInvalid"
=============================================================================

--------------------------- MODULE ScheduleProofs ---------------------------
(***************************************************************************)
(* What the answer to a charging profile means, for every schedule, every  *)
(* profile and every range of the offsets.  Induction over the entries is  *)
(* replaced throughout by the least counterexample: a nonempty set of      *)
(* naturals has a least element.                                           *)
(***************************************************************************)
EXTENDS Schedule, TLAPS, WellFoundedInduction

(* What decodes: offsets of 32 bits, and powers of any unit and scale.      *)
Offsets == 0..MaxTime

PhysicalValues == [unit : STRING, multiplier : Int, value : Int]

Durations == {None} \cup {{d} : d \in Offsets}

ScheduleEntries ==
    [start : Offsets, duration : Durations, relative : BOOLEAN, power : PhysicalValues]

ProfileEntries == [start : Offsets, power : PhysicalValues]

Schedules == Seq(ScheduleEntries)

Profiles == Seq(ProfileEntries)

(* The power the profile draws at t, as a set of at most one.               *)
DrawnAt(profile, t) ==
    {ProfileSteps(profile)[i].power :
        i \in {k \in DOMAIN profile : ActiveAt(ProfileSteps(profile)[k], t)}}

ExceedsAt(schedule, profile, t) ==
    \E drawn \in DrawnAt(profile, t), limit \in LimitAt(schedule, t) : drawn > limit

-----------------------------------------------------------------------------
(* A nonempty set of naturals has a least element.                          *)
LEMMA LeastNatural ==
    ASSUME NEW T, T \subseteq Nat, T # {}
    PROVE  \E x \in T : \A y \in T : x <= y
<1>1. PICK x \in T : \A y \in T : ~ (<<y, x>> \in OpToRel(<, Nat))
  BY NatLessThanWellFounded, WFMin, Zenon
<1>2. \A a, b \in Nat : b < a => <<b, a>> \in OpToRel(<, Nat)
  BY Zenon DEF OpToRel
<1>3. \A y \in T : ~ (y < x)
  BY <1>1, <1>2, Zenon
<1>4. QED
  BY <1>3

(* Entries that are each later than the one before them are sorted.         *)
LEMMA Sorted ==
    ASSUME NEW n \in Nat, NEW entries,
           \A i \in 1..n : entries[i].start \in Nat /\ ~OutOfOrder(entries, i),
           NEW i \in 1..n, NEW j \in 1..n, i < j
    PROVE  entries[i].start < entries[j].start
<1> DEFINE Early == {k \in (i + 1)..n : ~ (entries[i].start < entries[k].start)}
<1>1. SUFFICES ASSUME Early # {} PROVE FALSE
  BY <1>1
<1>2. PICK k \in Early : \A m \in Early : k <= m
  <2>1. Early \subseteq Nat
    OBVIOUS
  <2>2. QED
    BY <1>1, <2>1, LeastNatural
<1>3. entries[k - 1].start < entries[k].start
  BY DEF OutOfOrder
<1>4. k - 1 = i \/ entries[i].start < entries[k - 1].start
  BY <1>2
<1>5. QED
  BY <1>3, <1>4

(* A reader fails exactly when an entry has a fault, and then with one.     *)
LEMMA FirstOfFaults ==
    ASSUME NEW n \in Nat, NEW faults, DOMAIN faults = 1..n
    PROVE  /\ FirstOf(faults) = None <=> \A i \in 1..n : faults[i] = None
           /\ FirstOf(faults) # None => \E i \in 1..n : FirstOf(faults) = faults[i]
<1> DEFINE bad == {i \in 1..n : faults[i] # None}
<1>1. CASE bad = {}
  BY <1>1 DEF FirstOf, None
<1>2. CASE bad # {}
  <2>1. \E i \in bad : \A j \in bad : i <= j
    <3>1. bad \subseteq Nat
      OBVIOUS
    <3>2. QED
      BY <1>2, <3>1, LeastNatural
  <2>2. (CHOOSE i \in bad : \A j \in bad : i <= j) \in bad
    BY <2>1
  <2>3. FirstOf(faults) = faults[CHOOSE i \in bad : \A j \in bad : i <= j]
    BY <1>2 DEF FirstOf
  <2>4. QED
    BY <2>2, <2>3
<1>3. QED
  BY <1>1, <1>2
-----------------------------------------------------------------------------
(* A power in milliwatts is an integer.                                     *)
LEMMA PowerType ==
    ASSUME NEW value \in PhysicalValues
    PROVE  PowerMw(value) \in Int
<1>1. TenTo(value.multiplier + 3) \in Int
  BY DEF TenTo
<1>2. \A a, b \in Int : a * b \in Int
  OBVIOUS
<1>3. value.value \in Int
  BY DEF PhysicalValues
<1>4. QED
  BY <1>1, <1>2, <1>3 DEF PowerMw

Faults == {"NotWatts", "MultiplierOutOfRange", "ScheduleNotRelative", "ScheduleOutOfOrder",
           "ProfileOutOfOrder"}

(* A schedule that was read is in order; one that was not is refused for a  *)
(* fault of its own.                                                        *)
LEMMA ScheduleRead ==
    ASSUME NEW schedule \in Schedules
    PROVE  /\ ScheduleFault(schedule) = None
                => \A i \in DOMAIN schedule : ~OutOfOrder(schedule, i)
           /\ ScheduleFault(schedule) # None => Faulty(ScheduleFault(schedule)).error \in Faults
<1> DEFINE n == Len(schedule)
           faults == [i \in DOMAIN schedule |->
                IF ~schedule[i].relative THEN {"ScheduleNotRelative"}
                ELSE IF PowerFault(schedule[i].power) # None THEN PowerFault(schedule[i].power)
                ELSE IF OutOfOrder(schedule, i) THEN {"ScheduleOutOfOrder"} ELSE None]
<1>1. n \in Nat /\ DOMAIN schedule = 1..n
  BY DEF Schedules
<1>2. DOMAIN faults = 1..n
  BY <1>1
<1>3. ScheduleFault(schedule) = FirstOf(faults)
  BY DEF ScheduleFault
<1>4. \A i \in 1..n : faults[i] = None => ~OutOfOrder(schedule, i)
  BY <1>1 DEF None
<1>5. \A i \in 1..n : faults[i] = None \/ \E f \in Faults : faults[i] = {f}
  BY <1>1 DEF PowerFault, Faults, None
<1>6. \A f : Faulty({f}).error = f
  BY DEF Faulty
<1> HIDE DEF faults, n
<1>7. /\ FirstOf(faults) = None <=> \A i \in 1..n : faults[i] = None
      /\ FirstOf(faults) # None => \E i \in 1..n : FirstOf(faults) = faults[i]
  BY <1>1, <1>2, FirstOfFaults
<1>8. ASSUME ScheduleFault(schedule) # None PROVE Faulty(ScheduleFault(schedule)).error \in Faults
  <2>1. PICK i \in 1..n : FirstOf(faults) = faults[i] /\ faults[i] # None
    BY <1>3, <1>7, <1>8
  <2>2. PICK f \in Faults : faults[i] = {f}
    BY <1>5, <2>1
  <2>3. QED
    BY <1>3, <1>6, <2>1, <2>2
<1>9. ScheduleFault(schedule) = None => \A i \in 1..n : ~OutOfOrder(schedule, i)
  BY <1>3, <1>4, <1>7
<1>10. QED
  BY <1>1, <1>8, <1>9

(* ... and so is a profile.                                                *)
LEMMA ProfileRead ==
    ASSUME NEW profile \in Profiles
    PROVE  /\ ProfileFault(profile) = None
                => \A i \in DOMAIN profile : ~OutOfOrder(profile, i)
           /\ ProfileFault(profile) # None => Faulty(ProfileFault(profile)).error \in Faults
<1> DEFINE n == Len(profile)
           faults == [i \in DOMAIN profile |->
                IF PowerFault(profile[i].power) # None THEN PowerFault(profile[i].power)
                ELSE IF OutOfOrder(profile, i) THEN {"ProfileOutOfOrder"} ELSE None]
<1>1. n \in Nat /\ DOMAIN profile = 1..n
  BY DEF Profiles
<1>2. DOMAIN faults = 1..n
  BY <1>1
<1>3. ProfileFault(profile) = FirstOf(faults)
  BY DEF ProfileFault
<1>4. \A i \in 1..n : faults[i] = None => ~OutOfOrder(profile, i)
  BY <1>1 DEF None
<1>5. \A i \in 1..n : faults[i] = None \/ \E f \in Faults : faults[i] = {f}
  BY <1>1 DEF PowerFault, Faults, None
<1>6. \A f : Faulty({f}).error = f
  BY DEF Faulty
<1> HIDE DEF faults, n
<1>7. /\ FirstOf(faults) = None <=> \A i \in 1..n : faults[i] = None
      /\ FirstOf(faults) # None => \E i \in 1..n : FirstOf(faults) = faults[i]
  BY <1>1, <1>2, FirstOfFaults
<1>8. ASSUME ProfileFault(profile) # None PROVE Faulty(ProfileFault(profile)).error \in Faults
  <2>1. PICK i \in 1..n : FirstOf(faults) = faults[i] /\ faults[i] # None
    BY <1>3, <1>7, <1>8
  <2>2. PICK f \in Faults : faults[i] = {f}
    BY <1>5, <2>1
  <2>3. QED
    BY <1>3, <1>6, <2>1, <2>2
<1>9. ProfileFault(profile) = None => \A i \in 1..n : ~OutOfOrder(profile, i)
  BY <1>3, <1>4, <1>7
<1>10. QED
  BY <1>1, <1>8, <1>9

-----------------------------------------------------------------------------
(* The entries of a schedule, one by one.                                   *)
LEMMA ScheduleEntry ==
    ASSUME NEW schedule \in Schedules
    PROVE  /\ Len(schedule) \in Nat /\ DOMAIN schedule = 1..Len(schedule)
           /\ \A i \in 1..Len(schedule) :
                /\ schedule[i].start \in Offsets /\ schedule[i].duration \in Durations
                /\ schedule[i].power \in PhysicalValues
<1>1. /\ Len(schedule) \in Nat /\ DOMAIN schedule = 1..Len(schedule)
      /\ \A i \in 1..Len(schedule) : schedule[i] \in ScheduleEntries
  BY DEF Schedules
<1>2. QED
  BY <1>1 DEF ScheduleEntries

(* The entries of a profile, one by one.                                    *)
LEMMA ProfileEntry ==
    ASSUME NEW profile \in Profiles
    PROVE  /\ Len(profile) \in Nat /\ DOMAIN profile = 1..Len(profile)
           /\ \A i \in 1..Len(profile) :
                profile[i].start \in Offsets /\ profile[i].power \in PhysicalValues
<1>1. /\ Len(profile) \in Nat /\ DOMAIN profile = 1..Len(profile)
      /\ \A i \in 1..Len(profile) : profile[i] \in ProfileEntries
  BY DEF Profiles
<1>2. QED
  BY <1>1 DEF ProfileEntries

Steps == [start : Offsets, end : {None} \cup {{e} : e \in Offsets}, power : Int]

(* The steps of a schedule, and when they end.                              *)
LEMMA ScheduleStepType ==
    ASSUME MaxTime \in Nat, NEW schedule \in Schedules, NEW i \in DOMAIN schedule
    PROVE  /\ ScheduleSteps(schedule)[i] \in Steps
           /\ ScheduleSteps(schedule)[i].start = schedule[i].start
           /\ i < Len(schedule) => ScheduleSteps(schedule)[i].end = {schedule[i + 1].start}
<1> DEFINE entry == schedule[i]
           end == IF i < Len(schedule) THEN {schedule[i + 1].start}
                  ELSE {SaturatingAdd(entry.start, d) : d \in entry.duration}
<1>1. /\ entry.start \in Offsets /\ entry.duration \in Durations
      /\ entry.power \in PhysicalValues
      /\ i < Len(schedule) => schedule[i + 1].start \in Offsets
  <2>1. i \in 1..Len(schedule) /\ (i < Len(schedule) => i + 1 \in 1..Len(schedule))
    BY ScheduleEntry
  <2>2. QED
    BY <2>1, ScheduleEntry
<1>2. \A d \in Offsets : SaturatingAdd(entry.start, d) \in Offsets
  BY <1>1 DEF SaturatingAdd, Offsets
<1>3. end \in {None} \cup {{e} : e \in Offsets}
  <2>1. CASE entry.duration = None
    BY <1>1, <2>1 DEF None
  <2>2. CASE entry.duration # None
    <3>1. PICK d \in Offsets : entry.duration = {d}
      BY <1>1, <2>2 DEF Durations
    <3>2. {SaturatingAdd(entry.start, e) : e \in entry.duration}
            = {SaturatingAdd(entry.start, d)}
      BY <3>1
    <3>3. QED
      BY <1>1, <1>2, <3>2
  <2>3. QED
    BY <2>1, <2>2
<1>4. ScheduleSteps(schedule)[i] = Step(entry.start, end, PowerMw(entry.power))
  BY DEF ScheduleSteps
<1>5. PowerMw(entry.power) \in Int
  BY <1>1, PowerType
<1>6. i < Len(schedule) => end = {schedule[i + 1].start}
  OBVIOUS
<1> HIDE DEF end, entry
<1>7. QED
  BY <1>1, <1>3, <1>4, <1>5, <1>6 DEF Step, Steps, entry

(* ... and the steps of a profile.                                          *)
LEMMA ProfileStepType ==
    ASSUME MaxTime \in Nat, NEW profile \in Profiles, NEW i \in DOMAIN profile
    PROVE  /\ ProfileSteps(profile)[i] \in Steps
           /\ ProfileSteps(profile)[i].start = profile[i].start
           /\ i < Len(profile) => ProfileSteps(profile)[i].end = {profile[i + 1].start}
           /\ i = Len(profile) => ProfileSteps(profile)[i].end = None
<1> DEFINE end == IF i < Len(profile) THEN {profile[i + 1].start} ELSE None
<1>1. /\ profile[i].start \in Offsets /\ profile[i].power \in PhysicalValues
      /\ i < Len(profile) => profile[i + 1].start \in Offsets
  <2>1. i \in 1..Len(profile) /\ (i < Len(profile) => i + 1 \in 1..Len(profile))
    BY ProfileEntry
  <2>2. QED
    BY <2>1, ProfileEntry
<1>2. end \in {None} \cup {{e} : e \in Offsets}
  BY <1>1
<1>3. ProfileSteps(profile)[i] = Step(profile[i].start, end, PowerMw(profile[i].power))
  BY DEF ProfileSteps
<1>4. PowerMw(profile[i].power) \in Int
  BY <1>1, PowerType
<1>5. i < Len(profile) => end = {profile[i + 1].start}
  OBVIOUS
<1>6. i = Len(profile) => end = None
  OBVIOUS
<1> HIDE DEF end
<1>7. QED
  BY <1>1, <1>2, <1>3, <1>4, <1>5, <1>6 DEF Step, Steps

(* Steps that are active together overlap, short of the last offset.        *)
LEMMA ActiveTogether ==
    ASSUME MaxTime \in Nat, NEW a \in Steps, NEW b \in Steps, NEW t \in 0..(MaxTime - 1),
           ActiveAt(a, t), ActiveAt(b, t)
    PROVE  Overlaps(a, b)
<1>1. a.start \in Nat /\ b.start \in Nat /\ a.start <= t /\ b.start <= t
  BY DEF Steps, Offsets, ActiveAt
<1>2. \A s \in {a, b} : \A e \in (IF s.end = None THEN {MaxTime} ELSE s.end) : e \in Nat /\ t < e
  BY DEF Steps, Offsets, ActiveAt, None
<1>3. QED
  BY <1>1, <1>2 DEF Overlaps, EndsAfter

(* A later step of a schedule that was read is active later.                *)
LEMMA ScheduleInOrder ==
    ASSUME MaxTime \in Nat, NEW schedule \in Schedules, ScheduleFault(schedule) = None,
           NEW t \in Nat, NEW u \in Nat, NEW i \in DOMAIN schedule, NEW j \in DOMAIN schedule, i < j,
           ActiveAt(ScheduleSteps(schedule)[i], t), ActiveAt(ScheduleSteps(schedule)[j], u)
    PROVE  t < u
<1>1. Len(schedule) \in Nat /\ DOMAIN schedule = 1..Len(schedule)
  BY ScheduleEntry
<1>2. \A k \in 1..Len(schedule) : schedule[k].start \in Nat /\ ~OutOfOrder(schedule, k)
  BY <1>1, ScheduleRead, ScheduleEntry DEF Offsets
<1>3. \A k, m \in 1..Len(schedule) : k < m => schedule[k].start < schedule[m].start
  BY <1>1, <1>2, Sorted
<1>4. i + 1 \in 1..Len(schedule) /\ (i + 1 = j \/ i + 1 < j)
  BY <1>1
<1>5. t < schedule[i + 1].start
  BY <1>1, <1>4, ScheduleStepType DEF ActiveAt
<1>6. schedule[i + 1].start <= schedule[j].start
  BY <1>1, <1>2, <1>3, <1>4
<1>7. schedule[j].start <= u
  BY ScheduleStepType DEF ActiveAt
<1>8. QED
  BY <1>1, <1>2, <1>4, <1>5, <1>6, <1>7

(* ... and so it is with a profile.                                         *)
LEMMA ProfileInOrder ==
    ASSUME MaxTime \in Nat, NEW profile \in Profiles, ProfileFault(profile) = None,
           NEW t \in Nat, NEW u \in Nat, NEW i \in DOMAIN profile, NEW j \in DOMAIN profile, i < j,
           ActiveAt(ProfileSteps(profile)[i], t), ActiveAt(ProfileSteps(profile)[j], u)
    PROVE  t < u
<1>1. Len(profile) \in Nat /\ DOMAIN profile = 1..Len(profile)
  BY ProfileEntry
<1>2. \A k \in 1..Len(profile) : profile[k].start \in Nat /\ ~OutOfOrder(profile, k)
  BY <1>1, ProfileRead, ProfileEntry DEF Offsets
<1>3. \A k, m \in 1..Len(profile) : k < m => profile[k].start < profile[m].start
  BY <1>1, <1>2, Sorted
<1>4. i + 1 \in 1..Len(profile) /\ (i + 1 = j \/ i + 1 < j)
  BY <1>1
<1>5. t < profile[i + 1].start
  BY <1>1, <1>4, ProfileStepType DEF ActiveAt
<1>6. profile[i + 1].start <= profile[j].start
  BY <1>1, <1>2, <1>3, <1>4
<1>7. profile[j].start <= u
  BY ProfileStepType DEF ActiveAt
<1>8. QED
  BY <1>1, <1>2, <1>4, <1>5, <1>6, <1>7

(* The pair the loops stop at comes before every other.                     *)
LEMMA EarliestPair ==
    ASSUME NEW m \in Nat, NEW n \in Nat, NEW pairs, pairs \subseteq (1..m) \X (1..n), pairs # {}
    PROVE  /\ Earliest(pairs) \in pairs
           /\ \A q \in pairs : \/ Earliest(pairs)[1] < q[1]
                               \/ Earliest(pairs)[1] = q[1] /\ Earliest(pairs)[2] <= q[2]
<1> DEFINE Rows == {a \in 1..m : \E b \in 1..n : <<a, b>> \in pairs}
<1>1. \A q \in pairs : q = <<q[1], q[2]>> /\ q[1] \in 1..m /\ q[2] \in 1..n
  OBVIOUS
<1>2. PICK a \in Rows : \A r \in Rows : a <= r
  <2>1. Rows \subseteq Nat /\ Rows # {}
    BY <1>1
  <2>2. QED
    BY <2>1, LeastNatural
<1> DEFINE Columns == {b \in 1..n : <<a, b>> \in pairs}
<1>3. PICK b \in Columns : \A c \in Columns : b <= c
  <2>1. Columns \subseteq Nat
    OBVIOUS
  <2>2. PICK c \in 1..n : <<a, c>> \in pairs
    OBVIOUS
  <2>3. c \in Columns
    BY <2>2
  <2>4. QED
    BY <2>1, <2>3, LeastNatural
<1>4. \A q \in pairs : a < q[1] \/ (a = q[1] /\ b <= q[2])
  <2>1. SUFFICES ASSUME NEW q \in pairs PROVE a < q[1] \/ (a = q[1] /\ b <= q[2])
    OBVIOUS
  <2>2. q[1] \in Rows
    BY <1>1
  <2>3. a <= q[1]
    BY <1>2, <2>2
  <2>4. ASSUME a = q[1] PROVE b <= q[2]
    <3>1. q[2] \in Columns
      BY <1>1, <2>4
    <3>2. QED
      BY <1>3, <3>1
  <2>5. QED
    BY <1>1, <2>3, <2>4
<1>5. \E p \in pairs : \A q \in pairs : p[1] < q[1] \/ (p[1] = q[1] /\ p[2] <= q[2])
  <2>1. <<a, b>> \in pairs
    BY <1>3
  <2>2. QED
    BY <1>4, <2>1
<1>6. QED
  BY <1>5 DEF Earliest

-----------------------------------------------------------------------------
(* A profile that passes check_profile never draws more than the schedule   *)
(* permits: at every offset below u32::MAX, what it draws there is within   *)
(* what pmax_at says.  An open end is read as u32::MAX by overlaps, so the  *)
(* last offset itself is not compared.                                      *)
THEOREM AcceptedProfileFits ==
    ASSUME MaxTime \in Nat, NEW schedule \in Schedules, NEW profile \in Profiles,
           CheckProfile(schedule, profile) = Accepted, NEW t \in 0..(MaxTime - 1)
    PROVE  ~ExceedsAt(schedule, profile, t)
<1> DEFINE wanted == ProfileSteps(profile)
           limits == ScheduleSteps(schedule)
<1>1. Accepted.error = "none" /\ "none" \notin Faults
  BY DEF Accepted, Faults
<1>2. ScheduleFault(schedule) = None /\ ProfileFault(profile) = None
  BY <1>1, ScheduleRead, ProfileRead DEF CheckProfile
<1>3. Excesses(wanted, limits) = {}
  <2>1. \A a, b : ExceedsPMax(a, b).error = "ExceedsPMax"
    BY DEF ExceedsPMax
  <2>2. Compare(wanted, limits) = Accepted
    BY <1>2 DEF CheckProfile
  <2>3. QED
    BY <1>1, <2>1, <2>2 DEF Compare
<1>4. SUFFICES ASSUME NEW i \in DOMAIN profile, ActiveAt(wanted[i], t),
                      NEW j \in DOMAIN schedule, ActiveAt(limits[j], t)
               PROVE  ~(wanted[i].power > limits[j].power)
  <2>1. DOMAIN limits = DOMAIN schedule
    BY DEF ScheduleSteps
  <2>2. \A limit \in LimitAt(schedule, t) :
            \E j \in DOMAIN schedule : ActiveAt(limits[j], t) /\ limit = limits[j].power
    BY <2>1 DEF LimitAt
  <2>3. \A drawn \in DrawnAt(profile, t) :
            \E i \in DOMAIN profile : ActiveAt(wanted[i], t) /\ drawn = wanted[i].power
    BY DEF DrawnAt
  <2>4. QED
    BY <1>4, <2>2, <2>3 DEF ExceedsAt
<1>5. wanted[i] \in Steps /\ limits[j] \in Steps
  BY ProfileStepType, ScheduleStepType
<1>6. Overlaps(wanted[i], limits[j])
  BY <1>4, <1>5, ActiveTogether
<1>7. <<i, j>> \in (DOMAIN wanted) \X (DOMAIN limits)
  BY DEF ProfileSteps, ScheduleSteps
<1> HIDE DEF wanted, limits
<1>8. QED
  BY <1>3, <1>6, <1>7 DEF Excesses

(* Steps that overlap start below the last offset.                          *)
LEMMA OverlapStartsEarly ==
    ASSUME MaxTime \in Nat, NEW a \in Steps, NEW b \in Steps, Overlaps(a, b)
    PROVE  a.start < MaxTime /\ b.start < MaxTime
<1>1. /\ a.start \in Offsets /\ b.start \in Offsets
      /\ \A e \in a.end \cup b.end : e \in Offsets
  BY DEF Steps, None
<1>2. \A s \in {a, b} :
            \E e \in (IF s.end = None THEN {MaxTime} ELSE s.end) : e <= MaxTime
  BY <1>1 DEF Steps, Offsets, None
<1>3. QED
  BY <1>1, <1>2 DEF Overlaps, EndsAfter, Offsets, None

(* Two nonempty steps that overlap are both active where the later starts.  *)
LEMMA OverlapIsActive ==
    ASSUME MaxTime \in Nat, NEW a \in Steps, NEW b \in Steps, Overlaps(a, b),
           \A e \in a.end : a.start < e, \A e \in b.end : b.start < e
    PROVE  /\ OverlapStart(a, b) \in 0..(MaxTime - 1)
           /\ ActiveAt(a, OverlapStart(a, b)) /\ ActiveAt(b, OverlapStart(a, b))
<1>1. a.start \in Offsets /\ b.start \in Offsets
  BY DEF Steps
<1>2. \A e \in a.end \cup b.end : e \in Offsets
  BY DEF Steps, None
<1>3. (\A e \in a.end : b.start < e) /\ (\A e \in b.end : a.start < e)
  BY DEF Overlaps, EndsAfter, None
<1>4. a.start < MaxTime /\ b.start < MaxTime
  BY OverlapStartsEarly
<1>5. QED
  BY <1>1, <1>2, <1>3, <1>4 DEF OverlapStart, ActiveAt, Offsets

(* No step of a profile is empty.                                           *)
LEMMA ProfileStepsLast ==
    ASSUME MaxTime \in Nat, NEW profile \in Profiles, ProfileFault(profile) = None,
           NEW i \in DOMAIN profile
    PROVE  \A e \in ProfileSteps(profile)[i].end : ProfileSteps(profile)[i].start < e
<1>1. Len(profile) \in Nat /\ DOMAIN profile = 1..Len(profile)
  BY ProfileEntry
<1>2. \A k \in 1..Len(profile) : profile[k].start \in Nat /\ ~OutOfOrder(profile, k)
  BY <1>1, ProfileRead, ProfileEntry DEF Offsets
<1>3. CASE i < Len(profile)
  <2>1. profile[i].start < profile[i + 1].start
    <3>1. i + 1 \in 1..Len(profile) /\ i + 1 > 1 /\ (i + 1) - 1 = i
      BY <1>1, <1>3
    <3>2. QED
      BY <1>1, <1>2, <3>1 DEF OutOfOrder
  <2>2. QED
    BY <1>3, <2>1, ProfileStepType
<1>4. CASE i = Len(profile)
  BY <1>4, ProfileStepType DEF None
<1>5. QED
  BY <1>1, <1>3, <1>4

(* Of a schedule only a last one whose duration is zero, or which starts at *)
(* the last offset, is empty.                                               *)
LEMMA ScheduleStepsLast ==
    ASSUME MaxTime \in Nat, NEW schedule \in Schedules, ScheduleFault(schedule) = None,
           NEW i \in DOMAIN schedule, schedule[Len(schedule)].duration # {0},
           schedule[i].start < MaxTime
    PROVE  \A e \in ScheduleSteps(schedule)[i].end : ScheduleSteps(schedule)[i].start < e
<1>1. Len(schedule) \in Nat /\ DOMAIN schedule = 1..Len(schedule)
  BY ScheduleEntry
<1>2. \A k \in 1..Len(schedule) : schedule[k].start \in Nat /\ ~OutOfOrder(schedule, k)
  BY <1>1, ScheduleRead, ScheduleEntry DEF Offsets
<1>3. CASE i < Len(schedule)
  <2>1. schedule[i].start < schedule[i + 1].start
    <3>1. i + 1 \in 1..Len(schedule) /\ i + 1 > 1 /\ (i + 1) - 1 = i
      BY <1>1, <1>3
    <3>2. QED
      BY <1>1, <1>2, <3>1 DEF OutOfOrder
  <2>2. QED
    BY <1>3, <2>1, ScheduleStepType
<1>4. CASE i = Len(schedule)
  <2>1. \A d \in schedule[i].duration : d \in Nat /\ d > 0
    BY <1>1, <1>4, ScheduleEntry DEF Durations, Offsets, None
  <2>2. ScheduleSteps(schedule)[i].end
            = {SaturatingAdd(schedule[i].start, d) : d \in schedule[i].duration}
    BY <1>4 DEF ScheduleSteps, Step
  <2>3. \A d \in schedule[i].duration : schedule[i].start < SaturatingAdd(schedule[i].start, d)
    BY <1>1, <1>2, <2>1 DEF SaturatingAdd
  <2>4. QED
    BY <2>2, <2>3, ScheduleStepType
<1>5. QED
  BY <1>1, <1>3, <1>4

(* A profile that check_profile refuses as exceeding PMax does exceed it,   *)
(* and `at` is the first offset where it does: what response_code answers   *)
(* with FAILED_ChargingProfileInvalid is never a conforming profile.  The   *)
(* hypothesis is needed: a last entry of duration zero is active nowhere,   *)
(* and overlaps still compares the profile with it.                         *)
THEOREM RefusedProfileExceeds ==
    ASSUME MaxTime \in Nat, NEW schedule \in Schedules, NEW profile \in Profiles,
           CheckProfile(schedule, profile).error = "ExceedsPMax",
           schedule[Len(schedule)].duration # {0}
    PROVE  LET at == CheckProfile(schedule, profile).at
           IN  /\ ExceedsAt(schedule, profile, at)
               /\ \A t \in 0..(at - 1) : ~ExceedsAt(schedule, profile, t)
<1> DEFINE wanted == ProfileSteps(profile)
           limits == ScheduleSteps(schedule)
           p == Earliest(Excesses(wanted, limits))
           at == OverlapStart(wanted[p[1]], limits[p[2]])
<1>1. /\ Len(profile) \in Nat /\ DOMAIN profile = 1..Len(profile)
      /\ Len(schedule) \in Nat /\ DOMAIN schedule = 1..Len(schedule)
      /\ DOMAIN wanted = DOMAIN profile /\ DOMAIN limits = DOMAIN schedule
  BY ProfileEntry, ScheduleEntry DEF ProfileSteps, ScheduleSteps
<1>2. ScheduleFault(schedule) = None /\ ProfileFault(profile) = None
  <2>1. "ExceedsPMax" \notin Faults
    BY DEF Faults
  <2>2. QED
    BY <2>1, ScheduleRead, ProfileRead DEF CheckProfile
<1>3. /\ Excesses(wanted, limits) # {}
      /\ CheckProfile(schedule, profile) = ExceedsPMax(wanted[p[1]], limits[p[2]])
  <2>1. CheckProfile(schedule, profile) = Compare(wanted, limits)
    BY <1>2 DEF CheckProfile
  <2>2. Accepted.error # "ExceedsPMax"
    BY DEF Accepted
  <2>3. QED
    BY <2>1, <2>2 DEF Compare
<1>4. CheckProfile(schedule, profile).at = at
  BY <1>3 DEF ExceedsPMax
<1>5. /\ p \in Excesses(wanted, limits)
      /\ \A q \in Excesses(wanted, limits) : p[1] < q[1] \/ (p[1] = q[1] /\ p[2] <= q[2])
  <2>1. Excesses(wanted, limits) \subseteq (1..Len(profile)) \X (1..Len(schedule))
    BY <1>1 DEF Excesses
  <2> HIDE DEF wanted, limits
  <2>2. QED
    BY <1>1, <1>3, <2>1, EarliestPair
<1> HIDE DEF p
<1> DEFINE i == p[1]
           j == p[2]
<1>6. /\ i \in DOMAIN profile /\ j \in DOMAIN schedule
      /\ Overlaps(wanted[i], limits[j]) /\ wanted[i].power > limits[j].power
  BY <1>1, <1>5 DEF Excesses
<1> HIDE DEF i, j
<1>7. wanted[i] \in Steps /\ limits[j] \in Steps
  BY <1>6, ProfileStepType, ScheduleStepType
<1>8. at \in 0..(MaxTime - 1) /\ ActiveAt(wanted[i], at) /\ ActiveAt(limits[j], at)
  <2>1. limits[j].start < MaxTime /\ limits[j].start = schedule[j].start
    BY <1>6, <1>7, OverlapStartsEarly, ScheduleStepType
  <2>2. \A e \in wanted[i].end : wanted[i].start < e
    BY <1>2, <1>6, ProfileStepsLast
  <2>3. \A e \in limits[j].end : limits[j].start < e
    BY <1>2, <1>6, <2>1, ScheduleStepsLast
  <2>4. at = OverlapStart(wanted[i], limits[j])
    BY DEF i, j
  <2> HIDE DEF wanted, limits, at
  <2>5. QED
    BY <1>6, <1>7, <2>2, <2>3, <2>4, OverlapIsActive
<1>9. ExceedsAt(schedule, profile, at)
  <2>1. \A k \in DOMAIN schedule : ActiveAt(limits[k], at) => k = j
    <3>1. SUFFICES ASSUME NEW k \in DOMAIN schedule, ActiveAt(limits[k], at), k # j
                   PROVE  FALSE
      OBVIOUS
    <3>2. at \in Nat /\ (k < j \/ j < k)
      BY <1>1, <1>6, <1>8, <3>1
    <3> HIDE DEF at
    <3>3. at < at
      BY <1>2, <1>6, <1>8, <3>1, <3>2, ScheduleInOrder
    <3>4. QED
      BY <3>2, <3>3
  <2>2. limits[j].power \in LimitAt(schedule, at)
    <3> DEFINE active == {k \in DOMAIN limits : ActiveAt(limits[k], at)}
    <3>1. j \in active /\ j \in Nat /\ \A k \in active : k = j
      BY <1>1, <1>6, <1>8, <2>1
    <3>2. j \in {k \in active : \A n \in active : k <= n}
      <4> HIDE DEF active
      <4>1. QED
        BY <3>1
    <3>3. LimitAt(schedule, at)
            = {limits[k].power : k \in {k \in active : \A n \in active : k <= n}}
      BY DEF LimitAt
    <3> HIDE DEF active, limits, at
    <3>4. QED
      BY <3>2, <3>3
  <2>3. wanted[i].power \in DrawnAt(profile, at)
    BY <1>6, <1>8 DEF DrawnAt
  <2>4. QED
    BY <1>6, <2>2, <2>3 DEF ExceedsAt
<1>10. ASSUME NEW t \in 0..(at - 1), ExceedsAt(schedule, profile, t) PROVE FALSE
  <2>1. PICK k \in DOMAIN profile, m \in DOMAIN schedule :
            /\ ActiveAt(wanted[k], t) /\ ActiveAt(limits[m], t)
            /\ wanted[k].power > limits[m].power
    BY <1>1, <1>10 DEF ExceedsAt, DrawnAt, LimitAt
  <2>2. wanted[k] \in Steps /\ limits[m] \in Steps
    BY ProfileStepType, ScheduleStepType
  <2>3. t \in 0..(MaxTime - 1) /\ t < at
    BY <1>8, <1>10
  <2>4. Overlaps(wanted[k], limits[m])
    BY <2>1, <2>2, <2>3, ActiveTogether
  <2>5. <<k, m>> \in Excesses(wanted, limits)
    BY <1>1, <2>1, <2>4 DEF Excesses
  <2>6. i < k \/ (i = k /\ j <= m)
    BY <1>5, <2>5 DEF i, j
  <2>7. CASE i < k
    <3> HIDE DEF at
    <3>1. at < t
      BY <1>2, <1>6, <1>8, <2>1, <2>3, <2>7, ProfileInOrder
    <3>2. QED
      BY <1>8, <2>3, <3>1
  <2>8. CASE i = k /\ j < m
    <3> HIDE DEF at
    <3>1. at < t
      BY <1>2, <1>6, <1>8, <2>1, <2>3, <2>8, ScheduleInOrder
    <3>2. QED
      BY <1>8, <2>3, <3>1
  <2>9. CASE i = k /\ j = m
    <3>1. at <= t
      BY <1>7, <2>1, <2>9 DEF OverlapStart, ActiveAt, i, j
    <3>2. QED
      BY <1>8, <2>3, <3>1
  <2>10. QED
    BY <1>1, <1>6, <2>6, <2>7, <2>8, <2>9
<1>11. QED
  BY <1>4, <1>9, <1>10

(* coverage is the edge of what pmax_at states: from the start of the first *)
(* entry up to it there is a limit at every offset, without a gap, and      *)
(* from it on there is none.                                                *)
THEOREM CoverageIsTheEdge ==
    ASSUME MaxTime \in Nat, NEW schedule \in Schedules, schedule # <<>>,
           ScheduleFault(schedule) = None, NEW t \in Offsets
    PROVE  /\ (schedule[1].start <= t /\ \A c \in Coverage(schedule) : t < c)
                => PmaxAt(schedule, t).limit # None
           /\ (\E c \in Coverage(schedule) : c <= t) => PmaxAt(schedule, t).limit = None
<1> DEFINE n == Len(schedule)
           limits == ScheduleSteps(schedule)
           active == {k \in DOMAIN limits : ActiveAt(limits[k], t)}
<1>1. n \in Nat /\ n > 0 /\ DOMAIN schedule = 1..n /\ DOMAIN limits = 1..n /\ t \in Nat
  <2>1. n # 0
    BY DEF Schedules
  <2>2. QED
    BY <2>1, ScheduleEntry DEF ScheduleSteps, Offsets
<1>2. \A k \in 1..n : /\ schedule[k].start \in Nat /\ ~OutOfOrder(schedule, k)
                      /\ limits[k].start = schedule[k].start
                      /\ k < n => limits[k].end = {schedule[k + 1].start}
  BY <1>1, ScheduleRead, ScheduleEntry, ScheduleStepType DEF Offsets
<1>3. Coverage(schedule) = limits[n].end
  BY DEF Coverage
<1>4. LimitAt(schedule, t) = {limits[k].power : k \in {k \in active : \A m \in active : k <= m}}
  BY DEF LimitAt
<1>5. ASSUME schedule[1].start <= t, \A c \in Coverage(schedule) : t < c
      PROVE  LimitAt(schedule, t) # None
  <2> DEFINE Later == {k \in 1..n : t < schedule[k].start}
  <2>1. \E k \in 1..n : ActiveAt(limits[k], t)
    <3>1. CASE Later = {}
      <4>1. n \in 1..n /\ schedule[n].start <= t
        BY <1>1, <1>2, <3>1
      <4>2. ActiveAt(limits[n], t)
        BY <1>2, <1>3, <1>5, <4>1 DEF ActiveAt
      <4>3. QED
        BY <4>1, <4>2
    <3>2. CASE Later # {}
      <4>1. Later \subseteq Nat
        BY <1>1
      <4>2. PICK k \in Later : \A m \in Later : k <= m
        BY <3>2, <4>1, LeastNatural
      <4>3. k # 1 /\ k - 1 \in 1..n /\ k - 1 \notin Later /\ k - 1 < n /\ (k - 1) + 1 = k
        BY <1>1, <1>2, <1>5, <4>2
      <4>4. limits[k - 1].end = {schedule[k].start}
        BY <1>2, <4>3
      <4>5. ActiveAt(limits[k - 1], t)
        BY <1>1, <1>2, <4>3, <4>4 DEF ActiveAt
      <4>6. QED
        BY <4>3, <4>5
    <3>3. QED
      BY <3>1, <3>2
  <2>2. active \subseteq Nat /\ active # {}
    BY <1>1, <2>1
  <2> HIDE DEF active, limits
  <2>3. PICK k \in active : \A m \in active : k <= m
    BY <2>2, LeastNatural
  <2>4. limits[k].power \in LimitAt(schedule, t)
    BY <1>4, <2>3
  <2>5. QED
    BY <2>4 DEF None
<1>6. ASSUME NEW c \in Coverage(schedule), c <= t PROVE LimitAt(schedule, t) = None
  <2>1. n \in 1..n /\ limits[n] \in Steps /\ c \in limits[n].end
    BY <1>1, <1>3, <1>6, ScheduleStepType
  <2>2. c \in Nat /\ ~ActiveAt(limits[n], t)
    BY <1>1, <1>6, <2>1 DEF ActiveAt, Steps, Offsets, None
  <2>3. schedule[n].start <= c
    <3>1. limits[n].end = {SaturatingAdd(schedule[n].start, d) : d \in schedule[n].duration}
      BY <1>1 DEF ScheduleSteps, Step
    <3>2. PICK d \in schedule[n].duration : c = SaturatingAdd(schedule[n].start, d)
      BY <2>1, <3>1
    <3>3. d \in Nat /\ schedule[n].start \in Offsets
      BY <2>1, <3>2, ScheduleEntry DEF Durations, Offsets, None
    <3>4. QED
      BY <3>2, <3>3 DEF SaturatingAdd, Offsets
  <2>4. ASSUME NEW k \in 1..n, k < n PROVE ~ActiveAt(limits[k], t)
    <3>1. \A a, b \in 1..n : a < b => schedule[a].start < schedule[b].start
      <4> HIDE DEF n, limits
      <4>1. QED
        BY <1>1, <1>2, Sorted
    <3> HIDE DEF n, limits
    <3>2. k + 1 \in 1..n /\ (k + 1 = n \/ k + 1 < n)
      BY <1>1, <2>4
    <3>3. schedule[k + 1].start <= schedule[n].start
      BY <1>2, <2>1, <3>1, <3>2
    <3>4. limits[k].end = {schedule[k + 1].start} /\ schedule[k + 1].start <= t
      BY <1>1, <1>2, <1>6, <2>1, <2>2, <2>3, <2>4, <3>2, <3>3
    <3>5. ~(t < schedule[k + 1].start)
      BY <1>1, <1>2, <3>2, <3>4
    <3>6. QED
      BY <3>4, <3>5 DEF ActiveAt
  <2>5. active = {}
    BY <1>1, <2>2, <2>4
  <2> HIDE DEF active
  <2>6. QED
    BY <1>4, <2>5 DEF None
<1>7. PmaxAt(schedule, t).limit = LimitAt(schedule, t)
  BY DEF PmaxAt
<1>8. QED
  BY <1>5, <1>6, <1>7
=============================================================================

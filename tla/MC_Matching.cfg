SPECIFICATION Spec
CONSTANTS
    car = car
    bike = bike
    near = near
    far = far
    Vehicles = {car, bike}
    Stations = {near, far}
    RunIds <- OneRunId
    Attenuation <- Cables
    StationLimit <- NoLimit
    VehicleLimit <- SomeLimit
    NoId = NoId
    Segments <- SegmentsToCheck
    Starts = 1
    Sounds = 2
    Interval = 1
    Window = 3
    Response = 1
    Results = 2
    SessionTimeout = 4
    Join = 5
    MaxPendingFrames = 2
    MaxStations = 1
INVARIANTS
    NearestStationWins
    ResultsWindowIsBounded
PROPERTIES
    KeyFollowsChoice
    EveryRunEnds
CHECK_DEADLOCK FALSE

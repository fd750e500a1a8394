SPECIFICATION MapPageSpec
CONSTANTS
    a = a
    b = b
    c = c
    Vehicles = {a, b}
    NoVehicle = NoVehicle
    Fleets <- MCFleets
    Days = {1, 2, 3}
    Today0 = 2
    MaxTrips = 2
    MaxPolls = 3
    Cars = {a, b}
    Places = {p1, p2}
    Nowhere = Nowhere
    NoCar = NoCar
    Queries = {{}, {a}}
    Marked = {a, b, c}
    NoMark = NoMark
    Given <- MCGiven
    ClusterIds = {1}
    MaxCoordinates = 3
    Moves <- MCMoves
    MaxPositions = 6
CHECK_DEADLOCK FALSE
INVARIANTS
    MapPageTypeOK
    ShowsSelection
    TripExists
    AddressIsOfVehicle
    MarkersMatchVehicles
    RouteIsSplitAndJoined
PROPERTIES
    PollsMoveForward
    MapLoadingEnds

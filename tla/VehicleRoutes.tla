------------------------------ MODULE VehicleRoutes ---------------------------
(***************************************************************************)
(* From the positions of a vehicle on a day to the trips that are drawn    *)
(* (frontend/lib/vehicle-routes.ts): the positions are split into trips at *)
(* the stops, a trip is sent to Map Matching in chunks that share a        *)
(* position, and the lines that come back are stitched together.           *)
(*                                                                         *)
(* A vehicle is a point on a line: a position is a number of metres and a  *)
(* number of seconds.  Map Matching is external; what it makes of a chunk  *)
(* is nothing, or a line through the positions of the chunk.               *)
(***************************************************************************)
EXTENDS Integers, SequencesExt, FiniteSetsExt

CONSTANTS
    MaxCoordinates,    \* MAX_COORDINATES_PER_REQUEST
    Moves,             \* from one position to the next: [metres, seconds]
    MaxPositions       \* bound on the positions of the day

ASSUME RoutesAssumption ==
    /\ MaxCoordinates \in Nat /\ MaxCoordinates > 1
    /\ Moves \subseteq [metres : Int, seconds : Nat]
    /\ MaxPositions \in Nat /\ MaxPositions > 0

StopRadius == 50         \* STOP_RADIUS_METERS
StopDuration == 300      \* STOP_MIN_DURATION_SECONDS
MinTripDistance == 100   \* MIN_TRIP_DISTANCE_METERS
StitchMaxGap == 30       \* STITCH_MAX_GAP_METERS

VARIABLES
    positions,    \* what getPositions answers, by time
    route         \* what fetchVehicleRoute returns, [status, trips]

routesVars == <<positions, route>>

NotFetched == [status |-> "none", trips |-> <<>>, lost |-> {}]

RoutesTypeOK ==
    /\ positions \in Seq([metres : Int, seconds : Nat])
    /\ Len(positions) <= MaxPositions
    /\ route.status \in {"none", "empty", "error", "loaded"}
    /\ (route.status = "loaded") = (route.trips # <<>>)

RoutesInit == positions = <<[metres |-> 0, seconds |-> 0]>> /\ route = NotFetched

\* The elements of s whose numbers are in K, in their order.
Nth(K, j) == CHOOSE i \in K : Cardinality({x \in K : x <= i}) = j
Picked(s, K) == [j \in 1..Cardinality(K) |-> s[Nth(K, j)]]

-------------------------------------------------------------------------------
(* splitIntoTrips *)

\* haversineMeters, on a line.
Distance(a, b) == IF a.metres > b.metres THEN a.metres - b.metres ELSE b.metres - a.metres

\* tripDistanceMeters
TripDistance(trip) ==
    SumFunction([i \in 1..(Len(trip) - 1) |-> Distance(trip[i], trip[i + 1])])

\* One turn of the loop: within the radius of the anchor the vehicle may come to
\* a stop, and the position is left out; outside it the trip goes on from a new
\* anchor, or a new trip starts from the last position of the stop.
NextPosition(s, position) ==
    LET near == Distance(s.anchor, position) <= StopRadius
        stopped == \/ s.stopped
                   \/ position.seconds - s.last.seconds >= StopDuration
                   \/ near /\ position.seconds - s.anchor.seconds >= StopDuration
    IN  IF near
          THEN [s EXCEPT !.last = position, !.lastNearAnchor = position, !.stopped = stopped]
          ELSE [trips |-> IF stopped THEN Append(s.trips, s.trip) ELSE s.trips,
                trip |-> Append(IF stopped THEN <<s.lastNearAnchor>> ELSE s.trip, position),
                anchor |-> position, lastNearAnchor |-> position, last |-> position,
                stopped |-> FALSE]

SplitIntoTrips(ps) ==
    LET after[i \in DOMAIN ps] ==
            IF i = 1
              THEN [trips |-> <<>>, trip |-> <<ps[1]>>, anchor |-> ps[1],
                    lastNearAnchor |-> ps[1], last |-> ps[1], stopped |-> FALSE]
              ELSE NextPosition(after[i - 1], ps[i])
    IN  Append(after[Len(ps)].trips, after[Len(ps)].trip)

\* The trips that are matched.
KeptTrips(ps) ==
    LET trips == SplitIntoTrips(ps)
    IN  Picked(trips, {k \in DOMAIN trips : TripDistance(trips[k]) >= MinTripDistance})

\* tripMovementStart: a stop before the first move is not part of the trip.
MovementStart(trip) ==
    IF Len(trip) >= 2 /\ trip[2].seconds - trip[1].seconds >= StopDuration
      THEN trip[2].seconds ELSE trip[1].seconds

-------------------------------------------------------------------------------
(* chunkPositions, matchTrip, stitchSegments *)

\* Mutant: the chunks do not share a position.
BuggyChunkPositions(trip) ==
    [k \in 1..((Len(trip) - 2) \div MaxCoordinates + 1) |->
        SubSeq(trip, (k - 1) * MaxCoordinates + 1, Min({k * MaxCoordinates, Len(trip)}))]

\* The end of a chunk is the start of the next; one position makes no chunk.
ChunkPositions(trip) ==
    LET step == MaxCoordinates - 1
    IN  [k \in 1..((Len(trip) - 2) \div step + 1) |->
            SubSeq(trip, (k - 1) * step + 1, Min({k * step + 1, Len(trip)}))]

\* A line that starts where the one before ends goes on with it.
Stitch(stitched, segment) ==
    IF stitched # <<>> /\ Distance(Last(Last(stitched)), segment[1]) <= StitchMaxGap
      THEN Append(Front(stitched), Last(stitched) \o segment)
      ELSE Append(stitched, segment)

\* The chunks in lost bring no line: they fail, or nothing matches.
MatchTrip(trip, lost) ==
    LET chunks == ChunkPositions(trip)
        lines == Picked(chunks, DOMAIN chunks \ lost)
        stitched[k \in 0..Len(lines)] ==
            IF k = 0 THEN <<>> ELSE Stitch(stitched[k - 1], lines[k])
    IN  [segments |-> stitched[Len(lines)], firstMovement |-> MovementStart(trip),
         lastMovement |-> Last(trip).seconds]

\* Mutant: that no trip has a line is not looked at.
BuggyFetchVehicleRoute(ps, lost, failed) ==
    LET trips == IF Len(ps) < 2 THEN <<>> ELSE KeptTrips(ps)
        matches == [k \in 1..Len(trips) |-> MatchTrip(trips[k], {x[2] : x \in {y \in lost : y[1] = k}})]
        drawn == Picked(matches, {k \in DOMAIN matches : matches[k].segments # <<>>})
    IN  [status |-> IF trips # <<>> THEN "loaded" ELSE "empty", trips |-> drawn, lost |-> lost]

\* fetchVehicleRoute: the trips with a line.  Without any, a request that failed
\* makes it an error.
FetchVehicleRoute(ps, lost, failed) ==
    LET trips == IF Len(ps) < 2 THEN <<>> ELSE KeptTrips(ps)
        matches == [k \in 1..Len(trips) |-> MatchTrip(trips[k], {x[2] : x \in {y \in lost : y[1] = k}})]
        drawn == Picked(matches, {k \in DOMAIN matches : matches[k].segments # <<>>})
    IN  [status |-> IF drawn # <<>> THEN "loaded" ELSE IF failed # {} THEN "error" ELSE "empty",
         trips |-> drawn, lost |-> lost]

-------------------------------------------------------------------------------

\* The vehicle reports; the positions of a day come in the order of their time.
Report(move) ==
    /\ route = NotFetched /\ Len(positions) < MaxPositions
    /\ positions' = Append(positions, [metres |-> Last(positions).metres + move.metres,
                                       seconds |-> Last(positions).seconds + move.seconds])
    /\ UNCHANGED route

\* Some of the requests to Map Matching bring no line, some of them fail.
Fetch ==
    /\ route = NotFetched
    /\ LET trips == IF Len(positions) < 2 THEN <<>> ELSE KeptTrips(positions)
           chunks == UNION {{k} \X DOMAIN ChunkPositions(trips[k]) : k \in DOMAIN trips}
       IN  \E lost \in SUBSET chunks : \E failed \in {{}, lost} :
               route' = FetchVehicleRoute(positions, lost, failed)
    /\ UNCHANGED positions

\* Another vehicle or day.
OtherDay ==
    /\ route # NotFetched
    /\ positions' = <<[metres |-> 0, seconds |-> 0]>> /\ route' = NotFetched

RoutesNext == (\E move \in Moves : Report(move)) \/ Fetch \/ OtherDay

RoutesSpec == RoutesInit /\ [][RoutesNext]_routesVars

-------------------------------------------------------------------------------
(* What the algorithm promises, position by position *)

\* The number of the last position up to i that moved the anchor: one farther
\* than the radius from the anchor before it.
AnchorAt(ps) ==
    LET anchorAt[i \in DOMAIN ps] ==
            IF i = 1 THEN 1
            ELSE LET before == anchorAt[i - 1]
                 IN  IF Distance(ps[before], ps[i]) > StopRadius THEN i ELSE before
    IN  anchorAt

Anchors(ps) == {i \in DOMAIN ps : AnchorAt(ps)[i] = i}

\* Between one anchor and the next, there was a gap in the positions, or the
\* vehicle stayed near the first for as long as a stop.
StopBetween(ps, a, b) ==
    \/ \E i \in (a + 1)..b : ps[i].seconds - ps[i - 1].seconds >= StopDuration
    \/ ps[b - 1].seconds - ps[a].seconds >= StopDuration

StartsAfterStop(ps) == {i \in Anchors(ps) \ {1} : StopBetween(ps, AnchorAt(ps)[i - 1], i)}

\* A trip is of the anchors from one stop to the next, after the last position
\* of the stop it starts from.
TripsAreSplitAtStops(ps) ==
    LET starts == StartsAfterStop(ps)
        count == Cardinality(starts) + 1
        from(k) == IF k = 1 THEN 1 ELSE Nth(starts, k - 1)
        to(k) == IF k = count THEN Len(ps) + 1 ELSE Nth(starts, k)
        visited(k) == {i \in Anchors(ps) : from(k) <= i /\ i < to(k)}
    IN  SplitIntoTrips(ps) =
          [k \in 1..count |-> Picked(ps, {i \in DOMAIN ps : i = from(k) - 1} \cup visited(k))]

\* Every move of a trip is in one chunk, and a chunk is of a size Map Matching
\* takes.
ChunksCover(trip) ==
    LET chunks == ChunkPositions(trip)
        Steps(s) == [i \in 1..(Len(s) - 1) |-> <<s[i], s[i + 1]>>]
    IN  /\ \A k \in DOMAIN chunks : Len(chunks[k]) \in 2..MaxCoordinates
        /\ FlattenSeq([k \in DOMAIN chunks |-> Steps(chunks[k])]) = Steps(trip)

\* The route shows every move of the day, once: trips are split where there was
\* a stop and nowhere else, no move is lost between two requests to Map
\* Matching, a trip that was matched whole is one line from its first position
\* to its last, the trips follow one another in time, and a route is called
\* empty or an error only if there is no line (vehicle-routes.ts:49-231).
RouteIsSplitAndJoined ==
    /\ Len(positions) >= 2 =>
          /\ TripsAreSplitAtStops(positions)
          /\ LET kept == KeptTrips(positions) IN \A k \in DOMAIN kept : ChunksCover(kept[k])
    /\ route.status = "loaded" =>
          /\ \A k \in 1..(Len(route.trips) - 1) :
                route.trips[k].lastMovement <= route.trips[k + 1].firstMovement
          /\ route.lost = {} =>
                LET kept == KeptTrips(positions)
                IN  /\ Len(route.trips) = Len(kept)
                    /\ \A k \in DOMAIN kept :
                          /\ Len(route.trips[k].segments) = 1
                          /\ LET line == route.trips[k].segments[1]
                             IN  line[1] = kept[k][1] /\ Last(line) = Last(kept[k])
    /\ route.status \in {"empty", "error"} =>
          route.lost # {} \/ Len(positions) < 2 \/ KeptTrips(positions) = <<>>
===============================================================================

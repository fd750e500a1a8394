------------------------------- MODULE MapMarkers -----------------------------
(***************************************************************************)
(* The markers of the vehicles on the map                                  *)
(* (frontend/components/map-markers.tsx, with the effect and the handler   *)
(* of map-view.tsx that call it).                                          *)
(*                                                                         *)
(* The page gives the vehicles to a source of the map; the map groups them *)
(* in its own time, anew for every zoom, and numbers the groups, the same  *)
(* numbers for other groups.  Each frame, markers kept in a cache are      *)
(* brought in line with what the map has.  The map is external; where a    *)
(* marker stands is abstracted to what it stands for.                      *)
(***************************************************************************)
EXTENDS Integers, FiniteSetsExt

CONSTANTS
    Marked,       \* vehicles
    NoMark,       \* no vehicle
    Given,        \* what displayedVehicles may be: the status of each
    ClusterIds    \* numbers of groups

ASSUME MarkersAssumption ==
    /\ IsFiniteSet(Marked) /\ NoMark \notin Marked
    /\ IsFiniteSet(ClusterIds) /\ NoMark \notin ClusterIds
    /\ Given \subseteq [Marked -> {"driving", "stationary", "none"}]

VARIABLES
    mapLoaded,    \* mapReady
    displayed,    \* displayedVehicles: the status of each, none if it is not
    traced,       \* the active vehicle, when a trip of it is selected
    source,       \* external: the data of the source
    sourceLoaded, \* external: isSourceLoaded
    tiles,        \* external: the vehicles and the groups the map shows
    cache,        \* liveMarkersRef
    fresh         \* nothing has changed since the last frame

mapbox == <<source, sourceLoaded, tiles>>
markersVars == <<mapLoaded, displayed, traced, mapbox, cache, fresh>>

Statuses == {"driving", "stationary"}
Fleet == [Marked -> Statuses \cup {"none"}]
NoneShown == [x \in Marked |-> "none"]
NoEntry == [status |-> "none", onScreen |-> FALSE]
NoGroup == [count |-> 0, driving |-> 0]
NoTiles == [single |-> NoneShown, group |-> [c \in ClusterIds |-> NoGroup], seen |-> {}]
NoMarkers == [vehicle |-> [x \in Marked |-> NoEntry], cluster |-> [c \in ClusterIds |-> NoGroup]]

Sizes == 0..Cardinality(Marked)
Groups == [ClusterIds -> [count : Sizes, driving : Sizes]]

MarkersTypeOK ==
    /\ mapLoaded \in BOOLEAN /\ sourceLoaded \in BOOLEAN /\ fresh \in BOOLEAN
    /\ displayed \in Fleet /\ source \in Fleet /\ traced \in Marked \cup {NoMark}
    /\ tiles \in [single : Fleet, group : Groups, seen : SUBSET Marked]
    /\ cache \in [vehicle : [Marked -> [status : Statuses \cup {"none"}, onScreen : BOOLEAN]],
                  cluster : Groups]

MarkersInit ==
    /\ mapLoaded = FALSE /\ displayed = NoneShown /\ traced = NoMark
    /\ source = NoneShown /\ sourceLoaded = TRUE /\ tiles = NoTiles
    /\ cache = NoMarkers /\ fresh = FALSE

-------------------------------------------------------------------------------

\* The vehicle whose trip is drawn is not shown where it is now.
VisibleVehicles(d, t) == [x \in Marked |-> IF x = t THEN "none" ELSE d[x]]

\* pruneLiveMarkers: the markers of vehicles that are not visible any more.
PruneLiveMarkers(visible) ==
    cache' = [cache EXCEPT !.vehicle =
                 [x \in Marked |-> IF visible[x] = "none" THEN NoEntry ELSE @[x]]]

\* The effect that hands the vehicles on.
LiveSourceEffect(d, t) ==
    /\ source' = VisibleVehicles(d, t) /\ sourceLoaded' = FALSE
    /\ PruneLiveMarkers(VisibleVehicles(d, t))
    /\ fresh' = FALSE
    /\ UNCHANGED tiles

\* The answer to a poll, another day, another selection or trip.
VehiclesGiven(d, t) ==
    /\ t # NoMark => d[t] # "none"
    /\ displayed' = d /\ traced' = t
    /\ IF mapLoaded THEN LiveSourceEffect(d, t) ELSE UNCHANGED <<mapbox, cache, fresh>>
    /\ UNCHANGED mapLoaded

MapboxLoads ==
    /\ ~mapLoaded /\ mapLoaded' = TRUE
    /\ LiveSourceEffect(displayed, traced)
    /\ UNCHANGED <<displayed, traced>>

\* The user, focusVehicle or expandCluster moves the camera.
CameraMoves ==
    /\ mapLoaded
    /\ sourceLoaded' = FALSE /\ fresh' = FALSE
    /\ UNCHANGED <<mapLoaded, displayed, traced, source, tiles, cache>>

\* External: the vehicles in view, in groups of two or more or on their own.
TilesReady ==
    /\ mapLoaded /\ ~sourceLoaded /\ sourceLoaded' = TRUE
    /\ \E seen \in SUBSET {x \in Marked : source[x] # "none"},
          member \in [Marked -> ClusterIds \cup {NoMark}] :
          LET In(c) == {x \in seen : member[x] = c}
              Driving(S) == Cardinality({x \in S : source[x] = "driving"})
          IN  /\ \A x \in Marked \ seen : member[x] = NoMark
              /\ \A c \in ClusterIds : Cardinality(In(c)) # 1
              /\ tiles' = [single |-> [x \in Marked |->
                                         IF x \in In(NoMark) THEN source[x] ELSE "none"],
                           group |-> [c \in ClusterIds |->
                                         [count |-> Cardinality(In(c)), driving |-> Driving(In(c))]],
                           seen |-> seen]
    /\ fresh' = FALSE
    /\ UNCHANGED <<mapLoaded, displayed, traced, source, cache>>

\* reconcileLiveMarkers: a marker for every vehicle and every group the map has,
\* with its status or counts; that of a vehicle the map has not is taken off the
\* map and kept, that of a group goes.
ReconcileLiveMarkers ==
    cache' = [vehicle |-> [x \in Marked |->
                              IF tiles.single[x] # "none"
                                THEN [status |-> tiles.single[x], onScreen |-> TRUE]
                                ELSE [status |-> cache.vehicle[x].status, onScreen |-> FALSE]],
              cluster |-> tiles.group]

\* Mutant: a frame does not wait for the source.
BuggyRenderFrame ==
    /\ mapLoaded
    /\ ReconcileLiveMarkers /\ fresh' = TRUE
    /\ UNCHANGED <<mapLoaded, displayed, traced, mapbox>>

\* The handler of a frame.
RenderFrame ==
    /\ mapLoaded /\ sourceLoaded
    /\ ReconcileLiveMarkers /\ fresh' = TRUE
    /\ UNCHANGED <<mapLoaded, displayed, traced, mapbox>>

\* The map goes, and clearLiveMarkers with it; another visit starts anew.
MapLeaves ==
    /\ mapLoaded /\ mapLoaded' = FALSE
    /\ displayed' = NoneShown /\ traced' = NoMark
    /\ source' = NoneShown /\ sourceLoaded' = TRUE /\ tiles' = NoTiles
    /\ cache' = NoMarkers /\ fresh' = FALSE

MarkersNext ==
    \/ \E d \in Given, t \in Marked \cup {NoMark} : VehiclesGiven(d, t)
    \/ MapboxLoads \/ CameraMoves \/ TilesReady \/ RenderFrame \/ MapLeaves

MarkersSpec == MarkersInit /\ [][MarkersNext]_markersVars

-------------------------------------------------------------------------------

Visible == VisibleVehicles(displayed, traced)
OnMap == {x \in Marked : cache.vehicle[x].onScreen}

\* No marker is kept for a vehicle that is not shown, so none comes back from
\* tiles made of the vehicles before; and a marker on the map after a frame is of
\* a vehicle in view and has its status (map-markers.tsx:207-266,
\* map-view.tsx:375-384,426-437).
MarkersAreOfVehicles ==
    /\ \A x \in Marked : cache.vehicle[x] # NoEntry => Visible[x] # "none"
    /\ fresh => \A x \in OnMap : x \in tiles.seen /\ cache.vehicle[x].status = Visible[x]

\* After a frame each vehicle in view is on the map once, as a marker or counted
\* in one group, also where the map has used the number of a group again
\* (map-markers.tsx:268-315).
EachIsOnMapOnce ==
    LET inView(s) == Cardinality({x \in tiles.seen : Visible[x] = s})
        single(s) == Cardinality({x \in OnMap : cache.vehicle[x].status = s})
        driving == [c \in ClusterIds |-> cache.cluster[c].driving]
        stationary == [c \in ClusterIds |-> cache.cluster[c].count - cache.cluster[c].driving]
    IN  fresh =>
          /\ single("driving") + SumFunction(driving) = inView("driving")
          /\ single("stationary") + SumFunction(stationary) = inView("stationary")

\* The markers on the map stand for the vehicles that are shown.
MarkersMatchVehicles == MarkersAreOfVehicles /\ EachIsOnMapOnce
===============================================================================

-------------------------------- MODULE MapView -------------------------------
(***************************************************************************)
(* The live map (frontend/components/map-view.tsx): the poll of the        *)
(* devices (hooks/use-devices.ts), the day that is shown, the vehicle that *)
(* is selected, its route and the trip of it that is drawn.                *)
(*                                                                         *)
(* Four asynchronous sources meet here: a poll that another one aborts,    *)
(* the positions of a past day, the route of the selected vehicle, and the *)
(* clock.  Each step is one event with the rendering it causes: React runs *)
(* the effects whose dependencies have changed before the next event, so   *)
(* DayEffect, RouteEffect and DrawEffect are applied, in that order, to    *)
(* the state the handler leaves.  What the page believes to be today is    *)
(* computed by a rendering, not by the clock.                              *)
(*                                                                         *)
(* The server's answers to the polls are the members of Fleets, in order;  *)
(* the position of a vehicle is abstracted to whether it has one and       *)
(* whether it is driving, its time of update to the number of the answer.  *)
(* Trips are counted from 1, and 0 is all of them.  The camera is left out.*)
(***************************************************************************)
EXTENDS Integers, Sequences, FiniteSets

CONSTANTS
    Vehicles,
    NoVehicle,      \* activeVehicleId null
    Fleets,         \* what the server answers, as time goes by
    Days, Today0,   \* the days that may be shown, and the first "today"
    MaxTrips,       \* bound on the trips of a route
    MaxPolls        \* bound on the polls

ASSUME MapAssumption ==
    /\ NoVehicle \notin Vehicles
    /\ Fleets \in Seq([Vehicles -> {"none", "driving", "stationary"}]) /\ Fleets # <<>>
    /\ Days \subseteq Int /\ Today0 \in Days
    /\ MaxTrips \in Nat /\ MaxPolls \in Nat

VARIABLES
    now,       \* which of Fleets the server would answer
    today,
    hidden,    \* document.hidden
    asked,     \* polls made
    polls,     \* polls in flight: their number, and the answer once there is one
    view       \* the state and the refs of MapView, see ViewOK

serverVars == <<now, today>>
pollVars == <<hidden, asked, polls>>
mapVars == <<serverVars, pollVars, view>>

Nothing == <<NoVehicle, Today0>>
Keys == (Vehicles \cup {NoVehicle}) \X Days

\* The vehicles of an answer; 0 is the time before the first one.
LiveAt(polled) == IF polled = 0 THEN [x \in Vehicles |-> "none"] ELSE Fleets[polled]
Located(polled) == {x \in Vehicles : LiveAt(polled)[x] # "none"}

\* isCurrentDay, as of the last rendering.
IsCurrentDay(v) == v.dayDeps[2]

\* displayedVehicles
Displayed(v) ==
    IF IsCurrentDay(v) THEN Located(v.polled)
    ELSE IF v.dayState.phase = "loaded" THEN v.dayState.found ELSE {}

\* activeImei: an id that is selected but not displayed selects nothing.
ActiveImei(v) == IF v.active \in Displayed(v) THEN v.active ELSE NoVehicle

\* routeRefreshKey: changes with every answer while the vehicle drives today.
RefreshKey(v) ==
    IF ActiveImei(v) = NoVehicle THEN -1
    ELSE IF IsCurrentDay(v) /\ LiveAt(v.polled)[v.active] = "driving" THEN v.polled ELSE 0

Key(v) == <<ActiveImei(v), v.day>>

-------------------------------------------------------------------------------
(* The effects *)

\* The positions of a past day are fetched for the vehicles of the last poll,
\* anew when the set of these changes; a fetch under way is aborted.
DayEffect(v) ==
    LET isToday == v.day = today
        deps == <<v.day, isToday, Located(v.polled)>>
    IN  IF deps = v.dayDeps THEN v
        ELSE [v EXCEPT !.dayDeps = deps,
                       !.dayState = [phase |-> IF isToday THEN "current" ELSE "loading",
                                     day |-> v.day, found |-> {}],
                       !.dayReqs = IF isToday THEN {} ELSE {<<v.day, Located(v.polled)>>}]

Cleared(v, phase) ==
    [v EXCEPT !.drawnKey = Nothing, !.drawn = [key |-> Nothing, trip |-> 0], !.trip = 0,
              !.route = [phase |-> phase, key |-> Nothing, trips |-> 0]]

\* Mutant: a fetch under way is not aborted.
BuggyRouteEffect(v) ==
    LET deps == <<ActiveImei(v), RefreshKey(v), v.day, v.ready>>
    IN  IF deps = v.routeDeps THEN v
        ELSE IF ~v.ready THEN [v EXCEPT !.routeDeps = deps]
        ELSE IF ActiveImei(v) = NoVehicle
             THEN [Cleared(v, "idle") EXCEPT !.routeDeps = deps]
        ELSE [(IF v.drawnKey = Key(v) THEN v ELSE Cleared(v, "loading"))
                EXCEPT !.routeDeps = deps, !.routeReqs = v.routeReqs \cup {Key(v)}]

\* The route of another vehicle or day goes at once; that of the same is kept
\* while it is fetched anew.  A fetch under way is aborted.
RouteEffect(v) ==
    LET deps == <<ActiveImei(v), RefreshKey(v), v.day, v.ready>>
    IN  IF deps = v.routeDeps THEN v
        ELSE IF ~v.ready THEN [v EXCEPT !.routeDeps = deps]
        ELSE IF ActiveImei(v) = NoVehicle
             THEN [Cleared(v, "idle") EXCEPT !.routeDeps = deps, !.routeReqs = {}]
        ELSE [(IF v.drawnKey = Key(v) THEN v ELSE Cleared(v, "loading"))
                EXCEPT !.routeDeps = deps, !.routeReqs = {Key(v)}]

DrawEffect(v) ==
    IF v.route.phase = "loaded"
    THEN [v EXCEPT !.drawn = [key |-> v.route.key, trip |-> v.trip]] ELSE v

\* The effects in their order, each on what the one before has left.
Render(handled) ==
    \E v \in {handled} : \E w \in {DayEffect(v)} : \E x \in {RouteEffect(w)} :
        view' = DrawEffect(x)

-------------------------------------------------------------------------------

ViewOK(v) ==
    /\ v.polled \in 0..Len(Fleets) /\ v.error \in BOOLEAN /\ v.loaded \in BOOLEAN
    /\ v.ready \in BOOLEAN
    /\ v.active \in Vehicles \cup {NoVehicle} /\ v.day \in Days
    /\ v.dayState \in [phase : {"current", "loading", "loaded", "error"}, day : Days,
                       found : SUBSET Vehicles]
    /\ v.dayReqs \subseteq Days \X SUBSET Vehicles
    /\ v.dayDeps \in Days \X BOOLEAN \X SUBSET Vehicles
    /\ v.route \in [phase : {"idle", "loading", "loaded", "empty", "error"}, key : Keys,
                    trips : 0..MaxTrips]
    /\ v.routeReqs \subseteq Vehicles \X Days
    /\ v.trip \in 0..MaxTrips
    /\ v.drawnKey \in Keys /\ v.drawn \in [key : Keys, trip : 0..MaxTrips]

MapTypeOK ==
    /\ now \in 1..Len(Fleets) /\ today \in Days /\ hidden \in BOOLEAN
    /\ asked \in 0..MaxPolls
    /\ polls \subseteq (0..MaxPolls) \X (0..Len(Fleets))
    /\ ViewOK(view)

\* Mounted: the first poll is under way, the map is not loaded.
MapInit ==
    /\ now = 1 /\ today = Today0 /\ hidden = FALSE
    /\ asked = 0 /\ polls = {<<0, 0>>}
    /\ view = [polled |-> 0, error |-> FALSE, loaded |-> FALSE, ready |-> FALSE,
               active |-> NoVehicle, day |-> Today0,
               dayState |-> [phase |-> "current", day |-> Today0, found |-> {}],
               dayReqs |-> {}, dayDeps |-> <<Today0, TRUE, {}>>,
               route |-> [phase |-> "idle", key |-> Nothing, trips |-> 0], routeReqs |-> {},
               routeDeps |-> <<NoVehicle, -1, Today0, FALSE>>,
               trip |-> 0, drawnKey |-> Nothing, drawn |-> [key |-> Nothing, trip |-> 0]]

-------------------------------------------------------------------------------
(* Time *)

FleetMoves ==
    /\ now < Len(Fleets)
    /\ now' = now + 1
    /\ UNCHANGED <<today, pollVars, view>>

\* Nothing is rendered at midnight.
Midnight ==
    /\ today + 1 \in Days
    /\ today' = today + 1
    /\ UNCHANGED <<now, pollVars, view>>

-------------------------------------------------------------------------------
(* hooks/use-devices.ts *)

\* Mutant: the poll before is not aborted.
BuggyFetchOnce ==
    /\ asked < MaxPolls
    /\ asked' = asked + 1
    /\ polls' = polls \cup {<<asked + 1, 0>>}

\* fetchOnce: the poll before is aborted, and an aborted poll changes nothing.
FetchOnce ==
    /\ asked < MaxPolls
    /\ asked' = asked + 1
    /\ polls' = {<<asked + 1, 0>>}

Interval ==
    /\ ~hidden
    /\ FetchOnce
    /\ UNCHANGED <<serverVars, hidden, view>>

Hide == ~hidden /\ hidden' = TRUE /\ UNCHANGED <<serverVars, asked, polls, view>>

Show ==
    /\ hidden /\ hidden' = FALSE
    /\ FetchOnce
    /\ UNCHANGED <<serverVars, view>>

PollServed ==
    \E r \in polls :
        /\ r[2] = 0
        /\ polls' = (polls \ {r}) \cup {<<r[1], now>>}
        /\ UNCHANGED <<serverVars, hidden, asked, view>>

PollArrives ==
    \E r \in polls :
        /\ r[2] # 0
        /\ polls' = polls \ {r}
        /\ Render([view EXCEPT !.polled = r[2], !.error = FALSE, !.loaded = TRUE])
        /\ UNCHANGED <<serverVars, hidden, asked>>

\* An error, or the timeout of 30 s; the vehicles stay.
PollFails ==
    \E r \in polls :
        /\ polls' = polls \ {r}
        /\ Render([view EXCEPT !.error = TRUE, !.loaded = TRUE])
        /\ UNCHANGED <<serverVars, hidden, asked>>

-------------------------------------------------------------------------------
(* The user *)

MapLoads ==
    /\ ~view.ready
    /\ Render([view EXCEPT !.ready = TRUE])
    /\ UNCHANGED <<serverVars, pollVars>>

\* focusVehicle: from a row of the panel or a marker.
FocusVehicle(x) ==
    /\ x \in Displayed(view) /\ x # view.active
    /\ Render([view EXCEPT !.active = x])
    /\ UNCHANGED <<serverVars, pollVars>>

ClearVehicle ==
    /\ ActiveImei(view) # NoVehicle
    /\ Render([view EXCEPT !.active = NoVehicle])
    /\ UNCHANGED <<serverVars, pollVars>>

\* handleDayChange, for the days map-day-picker.tsx offers: none after today.
HandleDayChange(d) ==
    /\ d # view.day /\ d <= today
    /\ Render([view EXCEPT !.day = d, !.active = NoVehicle])
    /\ UNCHANGED <<serverVars, pollVars>>

\* The trips are offered when there is more than one.
HandleTripChange(k) ==
    /\ view.route.phase = "loaded" /\ view.route.trips > 1
    /\ k \in 0..view.route.trips /\ k # view.trip
    /\ Render([view EXCEPT !.trip = k])
    /\ UNCHANGED <<serverVars, pollVars>>

-------------------------------------------------------------------------------
(* What the fetches bring *)

\* fetchDayVehicleLocations: some of the vehicles have positions on that day,
\* and the request of some may have failed.
DayArrives ==
    \E r \in view.dayReqs : \E found \in SUBSET r[2] :
        /\ Render([view EXCEPT !.dayReqs = @ \ {r},
                     !.dayState = [phase |-> "loaded", day |-> r[1], found |-> found]])
        /\ UNCHANGED <<serverVars, pollVars>>

\* It fails if a request has failed and no vehicle is found.
DayFails ==
    \E r \in view.dayReqs :
        /\ r[2] # {}
        /\ Render([view EXCEPT !.dayReqs = @ \ {r},
                     !.dayState = [phase |-> "error", day |-> r[1], found |-> {}]])
        /\ UNCHANGED <<serverVars, pollVars>>

\* Mutant: the selected trip is kept, whatever the new route has.
BuggyRouteArrives ==
    \E key \in view.routeReqs, n \in 1..MaxTrips :
        /\ Render([view EXCEPT !.routeReqs = @ \ {key}, !.drawnKey = key,
                     !.route = [phase |-> "loaded", key |-> key, trips |-> n]])
        /\ UNCHANGED <<serverVars, pollVars>>

\* A selected trip that the new route does not have is deselected.
RouteArrives ==
    \E key \in view.routeReqs, n \in 1..MaxTrips :
        /\ Render([view EXCEPT !.routeReqs = @ \ {key}, !.drawnKey = key,
                     !.trip = IF @ > n THEN 0 ELSE @,
                     !.route = [phase |-> "loaded", key |-> key, trips |-> n]])
        /\ UNCHANGED <<serverVars, pollVars>>

\* No trips: the map is cleared, and the selected trip stays selected.
RouteIsEmpty ==
    \E key \in view.routeReqs :
        /\ Render([view EXCEPT !.routeReqs = @ \ {key}, !.drawnKey = key,
                     !.drawn = [key |-> Nothing, trip |-> 0],
                     !.route = [phase |-> "empty", key |-> key, trips |-> 0]])
        /\ UNCHANGED <<serverVars, pollVars>>

\* Mutant: a route that could not be fetched goes on loading.
BuggyRouteFails ==
    \E key \in view.routeReqs :
        /\ Render([view EXCEPT !.routeReqs = @ \ {key}, !.drawnKey = Nothing])
        /\ UNCHANGED <<serverVars, pollVars>>

RouteFails ==
    \E key \in view.routeReqs :
        /\ Render([view EXCEPT !.routeReqs = @ \ {key}, !.drawnKey = Nothing,
                     !.drawn = [key |-> Nothing, trip |-> 0],
                     !.route = [phase |-> "error", key |-> key, trips |-> 0]])
        /\ UNCHANGED <<serverVars, pollVars>>

-------------------------------------------------------------------------------

MapNext ==
    \/ FleetMoves \/ Midnight
    \/ Interval \/ Hide \/ Show \/ PollServed \/ PollArrives \/ PollFails
    \/ MapLoads \/ ClearVehicle
    \/ \E x \in Vehicles : FocusVehicle(x)
    \/ \E d \in Days : HandleDayChange(d)
    \/ \E k \in 0..MaxTrips : HandleTripChange(k)
    \/ DayArrives \/ DayFails
    \/ RouteArrives \/ RouteIsEmpty \/ RouteFails

MapSpec == MapInit /\ [][MapNext]_mapVars

-------------------------------------------------------------------------------

\* The route and what is drawn of it are those of the vehicle and the day that
\* are selected now, whatever was asked for before and came late
\* (map-view.tsx:439-514).
RouteIsOfSelection ==
    /\ view.route.phase \in {"loaded", "empty", "error"} => view.route.key = Key(view)
    /\ view.drawn.key # Nothing =>
          view.route.phase = "loaded" /\ view.drawn = [key |-> Key(view), trip |-> view.trip]

\* So are the positions of a past day, and a day that is called past or today
\* was that when the map was last rendered (map-view.tsx:403-424).
DayIsOfSelection ==
    /\ view.dayState.phase # "current" => view.dayState.day = view.day
    /\ (view.dayState.phase = "current") = IsCurrentDay(view)

\* What the map shows is what is selected.
ShowsSelection == RouteIsOfSelection /\ DayIsOfSelection

\* The panel and the map never look for a trip the route does not have, also
\* after the route of a driving vehicle was fetched anew and has become shorter
\* (map-view.tsx:473-475, map-panel.tsx:449-450).
TripExists == view.route.phase = "loaded" => view.trip <= view.route.trips

\* A list of vehicles is never replaced by an older one (use-devices.ts:35-61).
PollsMoveForward == [][view'.polled >= view.polled]_mapVars

\* Loading ends: the first list of vehicles, the positions of a day and a route
\* are shown, or the page says that they could not be loaded.
LoadingEnds ==
    /\ ~view.loaded ~> view.loaded
    /\ view.dayState.phase = "loading" ~> view.dayState.phase # "loading"
    /\ view.route.phase = "loading" ~> view.route.phase # "loading"
===============================================================================

------------------------------- MODULE Map_proofs -----------------------------
(***************************************************************************)
(* Proofs about the map (MapView), for any vehicles, fleets, days, trips   *)
(* and number of polls, the panel beside it (MapPanel), and of these, the  *)
(* markers and the routes as MCMap puts them together.                     *)
(*                                                                         *)
(* A handler leaves the state for the effects to follow.  What holds all   *)
(* the time is said of the dependencies the effects ran with last; that    *)
(* these are the state of now is so after every rendering.                 *)
(***************************************************************************)
EXTENDS MCMap, MapMarkers_proofs, VehicleRoutes_proofs

ViewFields == {"polled", "error", "loaded", "ready", "active", "day", "dayState", "dayReqs",
               "dayDeps", "route", "routeReqs", "routeDeps", "trip", "drawnKey", "drawn"}
IsView(v) == DOMAIN v = ViewFields

\* The vehicle and the day the route effect ran with last.
KeyOfDeps(v) == <<v.routeDeps[1], v.routeDeps[3]>>

\* The positions of a day are those of the day the day effect ran with.
DayPart(v) ==
    /\ v.dayDeps[2] \in BOOLEAN
    /\ v.dayState.phase = "current" <=> v.dayDeps[2]
    /\ v.dayState.phase # "current" => v.dayState.day = v.dayDeps[1]
    /\ \A r \in v.dayReqs : r[1] = v.dayDeps[1] /\ ~v.dayDeps[2]

\* So is the route, and the fetch of one.
RoutePart(v) ==
    /\ \A key \in v.routeReqs : key = KeyOfDeps(v) /\ v.routeDeps[1] # NoVehicle
    /\ v.route.phase \in {"loaded", "empty", "error"} =>
          v.route.key = KeyOfDeps(v) /\ v.routeDeps[1] # NoVehicle
    /\ v.drawnKey = IF v.route.phase \in {"loaded", "empty"} THEN v.route.key ELSE Nothing
    /\ v.route.phase # "loaded" => v.drawn.key = Nothing
    /\ ~v.ready => v.routeReqs = {} /\ v.route.phase = "idle"

TripPart(v) ==
    /\ v.trip \in Nat
    /\ v.route.phase = "loaded" => v.route.trips \in Nat /\ v.trip <= v.route.trips

\* What a handler leaves to the effects.
Handled(v) == IsView(v) /\ DayPart(v) /\ RoutePart(v) /\ TripPart(v)

\* What the effects leave.
Rendered(v) ==
    /\ Handled(v)
    /\ v.dayDeps[1] = v.day
    /\ v.routeDeps = <<ActiveImei(v), RefreshKey(v), v.day, v.ready>>
    /\ v.route.phase = "loaded" => v.drawn = [key |-> v.route.key, trip |-> v.trip]

-------------------------------------------------------------------------------
(* The effects *)

\* The day effect makes the positions those of the day now selected.
LEMMA DayEffectKeeps ==
    ASSUME NEW v, Handled(v)
    PROVE  /\ Handled(DayEffect(v)) /\ DayEffect(v).dayDeps[1] = DayEffect(v).day
           /\ DayEffect(v).polled = v.polled
<1> DEFINE isToday == v.day = today
           deps == <<v.day, isToday, Located(v.polled)>>
           w == [v EXCEPT !.dayDeps = deps,
                       !.dayState = [phase |-> IF isToday THEN "current" ELSE "loading",
                                     day |-> v.day, found |-> {}],
                       !.dayReqs = IF isToday THEN {} ELSE {<<v.day, Located(v.polled)>>}]
<1>1. CASE deps = v.dayDeps
  <2>1. DayEffect(v) = v BY <1>1 DEF DayEffect
  <2>2. v.dayDeps[1] = v.day BY <1>1
  <2> QED BY <2>1, <2>2
<1>2. CASE deps # v.dayDeps
  <2>1. DayEffect(v) = w BY <1>2 DEF DayEffect
  <2>2. /\ IsView(w) /\ w.dayDeps = deps
        /\ w.dayState = [phase |-> IF isToday THEN "current" ELSE "loading",
                         day |-> v.day, found |-> {}]
        /\ w.dayReqs = IF isToday THEN {} ELSE {<<v.day, Located(v.polled)>>}
        /\ w.day = v.day /\ w.polled = v.polled /\ w.ready = v.ready
        /\ w.route = v.route /\ w.routeReqs = v.routeReqs /\ w.routeDeps = v.routeDeps
        /\ w.trip = v.trip /\ w.drawnKey = v.drawnKey /\ w.drawn = v.drawn
    BY DEF Handled, IsView, ViewFields
  <2> HIDE DEF w
  <2>3. DayPart(w)
    <3>1. w.dayDeps[1] = v.day /\ w.dayDeps[2] = isToday BY <2>2
    <3>2. CASE isToday
      <4>1. w.dayState.phase = "current" /\ w.dayReqs = {} BY <2>2, <3>2
      <4>2. w.dayDeps[2] = TRUE BY <3>1, <3>2
      <4> QED BY <4>1, <4>2 DEF DayPart
    <3>3. CASE ~isToday
      <4>1. w.dayState.phase = "loading" /\ w.dayState.day = v.day BY <2>2, <3>3
      <4>2. \A r \in w.dayReqs : r[1] = v.day BY <2>2, <3>3
      <4>3. w.dayDeps[2] = FALSE BY <3>1, <3>3
      <4> QED BY <3>1, <4>1, <4>2, <4>3 DEF DayPart
    <3> QED BY <3>2, <3>3
  <2>4. RoutePart(w) BY <2>2 DEF Handled, RoutePart, KeyOfDeps
  <2>5. TripPart(w) BY <2>2 DEF Handled, TripPart
  <2>6. w.dayDeps[1] = w.day BY <2>2
  <2> QED BY <2>1, <2>2, <2>3, <2>4, <2>5, <2>6 DEF Handled
<1> QED BY <1>1, <1>2

\* What the route effect computes with is not changed by it, nor by drawing.
SameView(v, w) ==
    /\ w.polled = v.polled /\ w.active = v.active /\ w.day = v.day /\ w.ready = v.ready
    /\ w.dayState = v.dayState /\ w.dayReqs = v.dayReqs /\ w.dayDeps = v.dayDeps

\* What does not change the selection does not change its key.
LEMMA SameKeys ==
    ASSUME NEW v, NEW w, SameView(v, w)
    PROVE  ActiveImei(w) = ActiveImei(v) /\ RefreshKey(w) = RefreshKey(v) /\ Key(w) = Key(v)
<1>1. Displayed(w) = Displayed(v) BY DEF SameView, Displayed, IsCurrentDay
<1>2. ActiveImei(w) = ActiveImei(v) BY <1>1 DEF SameView, ActiveImei
<1> QED BY <1>2 DEF SameView, RefreshKey, IsCurrentDay, Key

\* Clearing the map changes the route, the trip and the drawing only.
LEMMA ClearedView ==
    ASSUME NEW v, IsView(v), NEW phase
    PROVE  LET w == Cleared(v, phase)
           IN  /\ IsView(w) /\ SameView(v, w) /\ w.routeReqs = v.routeReqs /\ w.trip = 0
               /\ w.route = [phase |-> phase, key |-> Nothing, trips |-> 0]
               /\ w.drawnKey = Nothing /\ w.drawn = [key |-> Nothing, trip |-> 0]
BY DEF Cleared, IsView, ViewFields, SameView

\* The route effect makes the route that of the vehicle and day now selected.
LEMMA RouteEffectKeeps ==
    ASSUME NEW v, Handled(v)
    PROVE  LET w == RouteEffect(v)
           IN  /\ Handled(w) /\ SameView(v, w)
               /\ w.routeDeps = <<ActiveImei(w), RefreshKey(w), w.day, w.ready>>
<1> DEFINE deps == <<ActiveImei(v), RefreshKey(v), v.day, v.ready>>
           w == RouteEffect(v)
<1>1. IsView(v) BY DEF Handled
<1>2. ASSUME Handled(w), SameView(v, w), w.routeDeps = deps
      PROVE  w.routeDeps = <<ActiveImei(w), RefreshKey(w), w.day, w.ready>>
  <2> HIDE DEF w
  <2>1. ActiveImei(w) = ActiveImei(v) /\ RefreshKey(w) = RefreshKey(v) BY <1>2, SameKeys
  <2> QED BY <1>2, <2>1 DEF SameView
<1>3. CASE deps = v.routeDeps
  <2>1. w = v BY <1>3 DEF RouteEffect
  <2> QED BY <1>3, <2>1 DEF SameView
<1>4. CASE deps # v.routeDeps /\ ~v.ready
  <2>1. w = [v EXCEPT !.routeDeps = deps] BY <1>4 DEF RouteEffect
  <2>2. /\ IsView(w) /\ SameView(v, w) /\ w.routeDeps = deps /\ w.route = v.route
        /\ w.routeReqs = v.routeReqs /\ w.trip = v.trip /\ w.drawnKey = v.drawnKey
        /\ w.drawn = v.drawn
    BY <1>1, <2>1 DEF IsView, ViewFields, SameView
  <2> HIDE DEF w
  <2>3. DayPart(w) BY <2>2 DEF Handled, DayPart, SameView
  <2>4. RoutePart(w) BY <1>4, <2>2 DEF Handled, RoutePart, SameView
  <2>5. TripPart(w) BY <2>2 DEF Handled, TripPart
  <2> QED BY <1>2, <2>2, <2>3, <2>4, <2>5 DEF Handled, w
<1>5. CASE deps # v.routeDeps /\ v.ready /\ (ActiveImei(v) = NoVehicle \/ v.drawnKey # Key(v))
  <2> DEFINE none == ActiveImei(v) = NoVehicle
             phase == IF none THEN "idle" ELSE "loading"
             cleared == Cleared(v, phase)
             reqs == IF none THEN {} ELSE {Key(v)}
  <2>1. w = [cleared EXCEPT !.routeDeps = deps, !.routeReqs = reqs]
    BY <1>5 DEF RouteEffect
  <2>2. /\ IsView(cleared) /\ SameView(v, cleared) /\ cleared.trip = 0
        /\ cleared.route = [phase |-> phase, key |-> Nothing, trips |-> 0]
        /\ cleared.drawnKey = Nothing /\ cleared.drawn = [key |-> Nothing, trip |-> 0]
    BY <1>1, ClearedView
  <2> HIDE DEF cleared, w, reqs
  <2>3. /\ IsView(w) /\ SameView(v, w) /\ w.routeDeps = deps /\ w.routeReqs = reqs /\ w.trip = 0
        /\ w.route = [phase |-> phase, key |-> Nothing, trips |-> 0]
        /\ w.drawnKey = Nothing /\ w.drawn = [key |-> Nothing, trip |-> 0]
    BY <2>1, <2>2 DEF IsView, ViewFields, SameView
  <2>4. DayPart(w) BY <2>3 DEF Handled, DayPart, SameView
  <2>5. w.route.phase = phase /\ phase \in {"idle", "loading"} /\ KeyOfDeps(w) = Key(v)
    BY <2>3 DEF KeyOfDeps, Key
  <2>6. \A key \in w.routeReqs : key = Key(v) /\ w.routeDeps[1] # NoVehicle
    BY <2>3 DEF reqs
  <2>7. w.ready BY <1>5, <2>3 DEF SameView
  <2> HIDE DEF phase
  <2>8. RoutePart(w) BY <2>3, <2>5, <2>6, <2>7 DEF RoutePart
  <2>9. TripPart(w) BY <2>3, <2>5 DEF TripPart
  <2> QED BY <1>2, <2>3, <2>4, <2>8, <2>9 DEF Handled, w
<1>6. CASE deps # v.routeDeps /\ v.ready /\ ActiveImei(v) # NoVehicle /\ v.drawnKey = Key(v)
  <2>1. w = [v EXCEPT !.routeDeps = deps, !.routeReqs = {Key(v)}] BY <1>6 DEF RouteEffect
  <2>2. /\ IsView(w) /\ SameView(v, w) /\ w.routeDeps = deps /\ w.route = v.route
        /\ w.routeReqs = {Key(v)} /\ w.trip = v.trip /\ w.drawnKey = v.drawnKey
        /\ w.drawn = v.drawn
    BY <1>1, <2>1 DEF IsView, ViewFields, SameView
  <2> HIDE DEF w
  <2>3. DayPart(w) BY <2>2 DEF Handled, DayPart, SameView
  <2>4. KeyOfDeps(w) = Key(v) /\ w.routeDeps[1] # NoVehicle /\ w.ready
    BY <1>6, <2>2 DEF KeyOfDeps, Key, SameView
  <2>5. v.drawnKey # Nothing BY <1>6 DEF Key, Nothing
  <2>6. v.route.phase \in {"loaded", "empty"} /\ v.route.key = Key(v)
    BY <1>6, <2>5 DEF Handled, RoutePart
  <2>7. RoutePart(w) BY <1>6, <2>2, <2>4, <2>6 DEF Handled, RoutePart
  <2>8. TripPart(w) BY <2>2 DEF Handled, TripPart
  <2> QED BY <1>2, <2>2, <2>3, <2>7, <2>8 DEF Handled, w
<1> QED BY <1>3, <1>4, <1>5, <1>6

\* After the effects, what is shown belongs to what is selected.
LEMMA RenderKeeps ==
    ASSUME NEW h, Handled(h), Render(h)
    PROVE  Rendered(view)' /\ view'.polled = h.polled
<1> DEFINE w == DayEffect(h)
           x == RouteEffect(w)
           y == DrawEffect(x)
<1>1. view' = y BY DEF Render
<1>2. Handled(w) /\ w.dayDeps[1] = w.day /\ w.polled = h.polled BY DayEffectKeeps
<1> HIDE DEF w
<1>3. Handled(x) /\ SameView(w, x) /\ x.routeDeps = <<ActiveImei(x), RefreshKey(x), x.day, x.ready>>
  BY <1>2, RouteEffectKeeps
<1> HIDE DEF x
<1>4. /\ IsView(y) /\ SameView(x, y) /\ y.route = x.route /\ y.routeReqs = x.routeReqs
      /\ y.routeDeps = x.routeDeps /\ y.trip = x.trip /\ y.drawnKey = x.drawnKey
      /\ x.route.phase = "loaded" => y.drawn = [key |-> x.route.key, trip |-> x.trip]
      /\ x.route.phase # "loaded" => y.drawn = x.drawn
  BY <1>3 DEF DrawEffect, Handled, IsView, ViewFields, SameView
<1> HIDE DEF y
<1>5. DayPart(y) BY <1>3, <1>4 DEF Handled, DayPart, SameView
<1>6. RoutePart(y) BY <1>3, <1>4 DEF Handled, RoutePart, SameView, KeyOfDeps
<1>7. TripPart(y) BY <1>3, <1>4 DEF Handled, TripPart
<1>8. y.dayDeps[1] = y.day /\ y.polled = h.polled BY <1>2, <1>3, <1>4 DEF SameView
<1>9. ActiveImei(y) = ActiveImei(x) /\ RefreshKey(y) = RefreshKey(x) BY <1>4, SameKeys
<1>10. y.routeDeps = <<ActiveImei(y), RefreshKey(y), y.day, y.ready>>
  BY <1>3, <1>4, <1>9 DEF SameView
<1>11. Rendered(y) BY <1>4, <1>5, <1>6, <1>7, <1>8, <1>10 DEF Rendered, Handled
<1> QED BY <1>1, <1>8, <1>11

-------------------------------------------------------------------------------
(* The handlers *)

DayFields == {"dayState", "dayReqs", "dayDeps"}
RouteFields == {"route", "routeReqs", "routeDeps", "drawnKey", "drawn"}
Same(fields, v, h) == \A f \in fields : h[f] = v[f]

\* A handler that leaves the fields of a part alone keeps what is said of it.
LEMMA SameParts ==
    ASSUME NEW v, NEW h
    PROVE  /\ Same(DayFields, v, h) /\ DayPart(v) => DayPart(h)
           /\ Same(RouteFields, v, h) /\ (v.ready => h.ready) /\ RoutePart(v) => RoutePart(h)
           /\ Same({"route", "trip"}, v, h) /\ TripPart(v) => TripPart(h)
<1>1. ASSUME Same(DayFields, v, h), DayPart(v) PROVE DayPart(h)
  <2>1. h.dayState = v.dayState /\ h.dayReqs = v.dayReqs /\ h.dayDeps = v.dayDeps
    BY <1>1 DEF Same, DayFields
  <2> QED BY <1>1, <2>1 DEF DayPart
<1>2. ASSUME Same(RouteFields, v, h), v.ready => h.ready, RoutePart(v) PROVE RoutePart(h)
  <2>1. /\ h.route = v.route /\ h.routeReqs = v.routeReqs /\ h.routeDeps = v.routeDeps
        /\ h.drawnKey = v.drawnKey /\ h.drawn = v.drawn
    BY <1>2 DEF Same, RouteFields
  <2> QED BY <1>2, <2>1 DEF RoutePart, KeyOfDeps
<1>3. ASSUME Same({"route", "trip"}, v, h), TripPart(v) PROVE TripPart(h)
  <2>1. h.route = v.route /\ h.trip = v.trip BY <1>3 DEF Same
  <2> QED BY <1>3, <2>1 DEF TripPart
<1> QED BY <1>1, <1>2, <1>3

\* Polls, the map, the vehicle, the day and its positions leave the route alone.
LEMMA OtherHandled ==
    ASSUME NEW h, Rendered(view), IsView(h), view.ready => h.ready, DayPart(h),
           Same(RouteFields, view, h), h.trip = view.trip
    PROVE  Handled(h)
<1>1. Same({"route", "trip"}, view, h) BY DEF Same, RouteFields
<1> QED BY <1>1, SameParts DEF Rendered, Handled

\* A route that arrives is that of the last fetch.
LEMMA RouteHandled ==
    ASSUME NEW key \in view.routeReqs, NEW h, Rendered(view), IsView(h), h.ready = view.ready,
           Same(DayFields, view, h), h.routeReqs = view.routeReqs \ {key},
           h.routeDeps = view.routeDeps, h.route.key = key,
           \/ /\ h.route.phase = "loaded" /\ h.drawnKey = key
              /\ h.route.trips \in Nat /\ h.trip \in 0..h.route.trips
           \/ h.route.phase = "empty" /\ h.drawnKey = key /\ h.drawn.key = Nothing /\ h.trip = view.trip
           \/ h.route.phase = "error" /\ h.drawnKey = Nothing /\ h.drawn.key = Nothing
                /\ h.trip = view.trip
    PROVE  Handled(h)
<1>1. DayPart(h) BY SameParts DEF Rendered, Handled
<1>2. key = KeyOfDeps(view) /\ view.routeDeps[1] # NoVehicle /\ view.ready
  BY DEF Rendered, Handled, RoutePart
<1>3. KeyOfDeps(h) = KeyOfDeps(view) BY DEF KeyOfDeps
<1>4. RoutePart(h)
  <2>1. \A k \in h.routeReqs : k = KeyOfDeps(h) /\ h.routeDeps[1] # NoVehicle
    BY <1>2, <1>3 DEF Rendered, Handled, RoutePart
  <2> QED BY <1>2, <1>3, <2>1 DEF RoutePart
<1>5. TripPart(h) BY DEF Rendered, Handled, TripPart
<1> QED BY <1>1, <1>4, <1>5 DEF Handled

\* The first rendering shows today, without vehicle, route or trip.
LEMMA MapInitRendered == MapInit => Rendered(view)
<1> SUFFICES ASSUME MapInit PROVE Rendered(view)
  OBVIOUS
<1>1. /\ IsView(view) /\ view.polled = 0 /\ view.ready = FALSE /\ view.active = NoVehicle
      /\ view.day = Today0 /\ view.dayState.phase = "current" /\ view.dayReqs = {}
      /\ view.dayDeps = <<Today0, TRUE, {}>> /\ view.route.phase = "idle" /\ view.routeReqs = {}
      /\ view.routeDeps = <<NoVehicle, -1, Today0, FALSE>> /\ view.trip = 0
      /\ view.drawnKey = Nothing /\ view.drawn.key = Nothing
  BY DEF MapInit, IsView, ViewFields
<1>2. Displayed(view) = {} BY <1>1 DEF Displayed, IsCurrentDay, Located, LiveAt
<1>3. ActiveImei(view) = NoVehicle BY <1>2 DEF ActiveImei
<1>4. RefreshKey(view) = -1 BY <1>3 DEF RefreshKey
<1>5. DayPart(view) BY <1>1 DEF DayPart
<1>6. RoutePart(view) BY <1>1 DEF RoutePart
<1>7. TripPart(view) BY <1>1 DEF TripPart
<1>8. view.routeDeps = <<ActiveImei(view), RefreshKey(view), view.day, view.ready>>
  <2>1. view.routeDeps = <<NoVehicle, -1, Today0, FALSE>> /\ view.day = Today0 /\ view.ready = FALSE
    BY <1>1
  <2> QED BY <1>3, <1>4, <2>1, Zenon
<1>9. view.dayDeps[1] = view.day BY <1>1
<1>10. Handled(view) BY <1>1, <1>5, <1>6, <1>7 DEF Handled
<1>11. view.route.phase # "loaded" BY <1>1
<1> QED BY <1>8, <1>9, <1>10, <1>11 DEF Rendered

\* Every event leaves what its rendering makes consistent.
LEMMA MapStepRendered == Rendered(view) /\ [MapNext]_mapVars => Rendered(view)'
<1> SUFFICES ASSUME Rendered(view), [MapNext]_mapVars PROVE Rendered(view)'
  OBVIOUS
<1>1. CASE UNCHANGED view
  <2>1. Handled(view)' BY <1>1 DEF Rendered, Handled, IsView, DayPart, RoutePart, KeyOfDeps, TripPart
  <2>2. ActiveImei(view)' = ActiveImei(view)
    BY <1>1 DEF ActiveImei, Displayed, IsCurrentDay, Located, LiveAt
  <2>3. RefreshKey(view)' = RefreshKey(view)
    BY <1>1, <2>2 DEF RefreshKey, IsCurrentDay, LiveAt
  <2> QED BY <1>1, <2>1, <2>2, <2>3 DEF Rendered
<1>2. CASE FleetMoves \/ Midnight \/ Interval \/ Hide \/ Show \/ PollServed
  BY <1>1, <1>2 DEF FleetMoves, Midnight, Interval, Hide, Show, PollServed
<1>3. IsView(view) /\ DayPart(view) BY DEF Rendered, Handled
<1>4. ASSUME NEW h, Render(h), IsView(h), view.ready => h.ready, Same(RouteFields, view, h),
             Same(DayFields, view, h), h.trip = view.trip
      PROVE  Rendered(view)'
  <2>1. DayPart(h) BY <1>3, <1>4, SameParts
  <2> QED BY <1>4, <2>1, OtherHandled, RenderKeeps
<1>5. CASE PollArrives
  <2> PICK r \in polls : Render([view EXCEPT !.polled = r[2], !.error = FALSE, !.loaded = TRUE])
    BY <1>5 DEF PollArrives
  <2> DEFINE h == [view EXCEPT !.polled = r[2], !.error = FALSE, !.loaded = TRUE]
  <2>1. IsView(h) /\ h.ready = view.ready /\ h.trip = view.trip BY <1>3 DEF IsView, ViewFields
  <2>2. Same(RouteFields, view, h) /\ Same(DayFields, view, h)
    BY <1>3 DEF Same, RouteFields, DayFields, IsView, ViewFields
  <2>3. Render(h) OBVIOUS
  <2> HIDE DEF h
  <2> QED BY <1>4, <2>1, <2>2, <2>3
<1>6. CASE PollFails
  <2> DEFINE h == [view EXCEPT !.error = TRUE, !.loaded = TRUE]
  <2>1. IsView(h) /\ h.ready = view.ready /\ h.trip = view.trip BY <1>3 DEF IsView, ViewFields
  <2>2. Same(RouteFields, view, h) /\ Same(DayFields, view, h)
    BY <1>3 DEF Same, RouteFields, DayFields, IsView, ViewFields
  <2>3. Render(h) BY <1>6 DEF PollFails
  <2> HIDE DEF h
  <2> QED BY <1>4, <2>1, <2>2, <2>3
<1>7. CASE MapLoads
  <2> DEFINE h == [view EXCEPT !.ready = TRUE]
  <2>1. IsView(h) /\ h.ready /\ h.trip = view.trip BY <1>3 DEF IsView, ViewFields
  <2>2. Same(RouteFields, view, h) /\ Same(DayFields, view, h)
    BY <1>3 DEF Same, RouteFields, DayFields, IsView, ViewFields
  <2>3. Render(h) BY <1>7 DEF MapLoads
  <2> HIDE DEF h
  <2> QED BY <1>4, <2>1, <2>2, <2>3
<1>8. ASSUME NEW x, Render([view EXCEPT !.active = x]) PROVE Rendered(view)'
  <2> DEFINE h == [view EXCEPT !.active = x]
  <2>1. IsView(h) /\ h.ready = view.ready /\ h.trip = view.trip BY <1>3 DEF IsView, ViewFields
  <2>2. Same(RouteFields, view, h) /\ Same(DayFields, view, h)
    BY <1>3 DEF Same, RouteFields, DayFields, IsView, ViewFields
  <2>3. Render(h) BY <1>8
  <2> HIDE DEF h
  <2> QED BY <1>4, <2>1, <2>2, <2>3
<1>9. ASSUME NEW x \in Vehicles, FocusVehicle(x) PROVE Rendered(view)'
  BY <1>8, <1>9 DEF FocusVehicle
<1>10. CASE ClearVehicle
  BY <1>8, <1>10 DEF ClearVehicle
<1>11. ASSUME NEW d \in Days, HandleDayChange(d) PROVE Rendered(view)'
  <2> DEFINE h == [view EXCEPT !.day = d, !.active = NoVehicle]
  <2>1. IsView(h) /\ h.ready = view.ready /\ h.trip = view.trip BY <1>3 DEF IsView, ViewFields
  <2>2. Same(RouteFields, view, h) /\ Same(DayFields, view, h)
    BY <1>3 DEF Same, RouteFields, DayFields, IsView, ViewFields
  <2>3. Render(h) BY <1>11 DEF HandleDayChange
  <2> HIDE DEF h
  <2> QED BY <1>4, <2>1, <2>2, <2>3
<1>12. ASSUME NEW k \in 0..MaxTrips, HandleTripChange(k) PROVE Rendered(view)'
  <2> DEFINE h == [view EXCEPT !.trip = k]
  <2>1. /\ view.route.phase = "loaded" /\ k \in 0..view.route.trips /\ Render(h)
    BY <1>12 DEF HandleTripChange
  <2>2. IsView(h) /\ h.ready = view.ready /\ h.trip = k /\ h.route = view.route
    BY <1>3 DEF IsView, ViewFields
  <2>3. Same(RouteFields, view, h) /\ Same(DayFields, view, h)
    BY <1>3 DEF Same, RouteFields, DayFields, IsView, ViewFields
  <2> HIDE DEF h
  <2>4. DayPart(h) /\ RoutePart(h) BY <2>2, <2>3, SameParts DEF Rendered, Handled
  <2>5. TripPart(h) BY <2>1, <2>2 DEF Rendered, Handled, TripPart
  <2> QED BY <2>1, <2>2, <2>4, <2>5, RenderKeeps DEF Handled
<1>13. ASSUME NEW r \in view.dayReqs, NEW phase \in {"loaded", "error"}, NEW found,
              Render([view EXCEPT !.dayReqs = @ \ {r},
                         !.dayState = [phase |-> phase, day |-> r[1], found |-> found]])
       PROVE  Rendered(view)'
  <2> DEFINE h == [view EXCEPT !.dayReqs = @ \ {r},
                         !.dayState = [phase |-> phase, day |-> r[1], found |-> found]]
  <2>1. /\ IsView(h) /\ h.ready = view.ready /\ h.trip = view.trip /\ h.dayDeps = view.dayDeps
        /\ h.dayReqs = view.dayReqs \ {r}
        /\ h.dayState = [phase |-> phase, day |-> r[1], found |-> found]
    BY <1>3 DEF IsView, ViewFields
  <2>2. Same(RouteFields, view, h) BY <1>3 DEF Same, RouteFields, IsView, ViewFields
  <2>3. Render(h) BY <1>13
  <2> HIDE DEF h
  <2>4. r[1] = view.dayDeps[1] /\ ~view.dayDeps[2] BY <1>3 DEF DayPart
  <2>5. DayPart(h) BY <1>3, <2>1, <2>4 DEF DayPart
  <2> QED BY <2>1, <2>2, <2>3, <2>5, OtherHandled, RenderKeeps
<1>14. CASE DayArrives
  BY <1>13, <1>14 DEF DayArrives
<1>15. CASE DayFails
  BY <1>13, <1>15 DEF DayFails
<1>16. CASE RouteArrives
  <2> PICK key \in view.routeReqs, n \in 1..MaxTrips :
         Render([view EXCEPT !.routeReqs = @ \ {key}, !.drawnKey = key,
                     !.trip = IF @ > n THEN 0 ELSE @,
                     !.route = [phase |-> "loaded", key |-> key, trips |-> n]])
    BY <1>16 DEF RouteArrives
  <2> DEFINE t == IF view.trip > n THEN 0 ELSE view.trip
             h == [view EXCEPT !.routeReqs = @ \ {key}, !.drawnKey = key, !.trip = t,
                     !.route = [phase |-> "loaded", key |-> key, trips |-> n]]
  <2>1. /\ IsView(h) /\ h.ready = view.ready /\ h.trip = t /\ h.drawnKey = key
        /\ h.routeReqs = view.routeReqs \ {key} /\ h.routeDeps = view.routeDeps
        /\ h.route = [phase |-> "loaded", key |-> key, trips |-> n]
    BY <1>3 DEF IsView, ViewFields
  <2>2. Same(DayFields, view, h) BY <1>3 DEF Same, DayFields, IsView, ViewFields
  <2>3. Render(h) OBVIOUS
  <2>4. n \in Nat /\ t \in 0..n BY MapAssumption DEF Rendered, Handled, TripPart
  <2> HIDE DEF h, t
  <2>5. Handled(h) BY <2>1, <2>2, <2>4, RouteHandled
  <2> QED BY <2>3, <2>5, RenderKeeps
<1>17. CASE RouteIsEmpty
  <2> PICK key \in view.routeReqs :
         Render([view EXCEPT !.routeReqs = @ \ {key}, !.drawnKey = key,
                     !.drawn = [key |-> Nothing, trip |-> 0],
                     !.route = [phase |-> "empty", key |-> key, trips |-> 0]])
    BY <1>17 DEF RouteIsEmpty
  <2> DEFINE h == [view EXCEPT !.routeReqs = @ \ {key}, !.drawnKey = key,
                     !.drawn = [key |-> Nothing, trip |-> 0],
                     !.route = [phase |-> "empty", key |-> key, trips |-> 0]]
  <2>1. /\ IsView(h) /\ h.ready = view.ready /\ h.trip = view.trip /\ h.drawnKey = key
        /\ h.routeReqs = view.routeReqs \ {key} /\ h.routeDeps = view.routeDeps
        /\ h.route = [phase |-> "empty", key |-> key, trips |-> 0] /\ h.drawn.key = Nothing
    BY <1>3 DEF IsView, ViewFields
  <2>2. Same(DayFields, view, h) BY <1>3 DEF Same, DayFields, IsView, ViewFields
  <2>3. Render(h) OBVIOUS
  <2> HIDE DEF h
  <2>4. Handled(h) BY <2>1, <2>2, RouteHandled
  <2> QED BY <2>3, <2>4, RenderKeeps
<1>18. CASE RouteFails
  <2> PICK key \in view.routeReqs :
         Render([view EXCEPT !.routeReqs = @ \ {key}, !.drawnKey = Nothing,
                     !.drawn = [key |-> Nothing, trip |-> 0],
                     !.route = [phase |-> "error", key |-> key, trips |-> 0]])
    BY <1>18 DEF RouteFails
  <2> DEFINE h == [view EXCEPT !.routeReqs = @ \ {key}, !.drawnKey = Nothing,
                     !.drawn = [key |-> Nothing, trip |-> 0],
                     !.route = [phase |-> "error", key |-> key, trips |-> 0]]
  <2>1. /\ IsView(h) /\ h.ready = view.ready /\ h.trip = view.trip /\ h.drawnKey = Nothing
        /\ h.routeReqs = view.routeReqs \ {key} /\ h.routeDeps = view.routeDeps
        /\ h.route = [phase |-> "error", key |-> key, trips |-> 0] /\ h.drawn.key = Nothing
    BY <1>3 DEF IsView, ViewFields
  <2>2. Same(DayFields, view, h) BY <1>3 DEF Same, DayFields, IsView, ViewFields
  <2>3. Render(h) OBVIOUS
  <2> HIDE DEF h
  <2>4. Handled(h) BY <2>1, <2>2, RouteHandled
  <2> QED BY <2>3, <2>4, RenderKeeps
<1>19. CASE UNCHANGED mapVars
  BY <1>1, <1>19 DEF mapVars
<1> QED
  BY <1>2, <1>5, <1>6, <1>7, <1>9, <1>10, <1>11, <1>12, <1>14, <1>15, <1>16, <1>17, <1>18, <1>19
     DEF MapNext

\* The route, what is drawn of it and the positions of a past day are those of
\* the vehicle and the day that are selected, whatever was asked for before and
\* came late (map-view.tsx:403-514).
THEOREM SelectionIsShown == MapSpec => []ShowsSelection
<1>1. Rendered(view) => ShowsSelection
  <2> SUFFICES ASSUME Rendered(view) PROVE ShowsSelection
    OBVIOUS
  <2>1. DayPart(view) /\ RoutePart(view) BY DEF Rendered, Handled
  <2>2. KeyOfDeps(view) = Key(view) BY DEF Rendered, KeyOfDeps, Key
  <2>3. RouteIsOfSelection BY <2>1, <2>2 DEF RouteIsOfSelection, RoutePart, Rendered
  <2>4. DayIsOfSelection
    <3>1. view.dayState.phase # "current" => view.dayState.day = view.day
      BY <2>1 DEF DayPart, Rendered
    <3>2. (view.dayState.phase = "current") = view.dayDeps[2]
      BY <2>1 DEF DayPart
    <3> QED BY <3>1, <3>2 DEF DayIsOfSelection, IsCurrentDay
  <2> QED BY <2>3, <2>4 DEF ShowsSelection
<1> QED BY <1>1, MapInitRendered, MapStepRendered, PTL DEF MapSpec

\* The selected trip is one the route has, also after a shorter one has replaced
\* it (map-view.tsx:473-475).
THEOREM SelectedTripExists == MapSpec => []TripExists
<1>1. Rendered(view) => TripExists
  BY DEF Rendered, Handled, TripPart, TripExists
<1> QED BY <1>1, MapInitRendered, MapStepRendered, PTL DEF MapSpec

-------------------------------------------------------------------------------
(* The types of the view *)

\* Every key is of a vehicle or none, and of a day.
LEMMA KeyIsKey ==
    ASSUME NEW v, ViewOK(v)
    PROVE  /\ Key(v) \in Keys /\ Nothing \in Keys
           /\ ActiveImei(v) # NoVehicle => Key(v) \in Vehicles \X Days
BY MapAssumption DEF ViewOK, Key, Keys, Nothing, ActiveImei

\* Each effect keeps the types.
LEMMA RenderKeepsTypes ==
    ASSUME NEW h, IsView(h), ViewOK(h), today \in Days, Render(h)
    PROVE  ViewOK(view)'
<1> DEFINE w == DayEffect(h)
           x == RouteEffect(w)
           y == DrawEffect(x)
<1>1. view' = y BY DEF Render
<1>2. IsView(w) /\ ViewOK(w)
  <2> DEFINE state == [phase |-> IF h.day = today THEN "current" ELSE "loading",
                       day |-> h.day, found |-> {}]
             deps == <<h.day, h.day = today, Located(h.polled)>>
             reqs == IF h.day = today THEN {} ELSE {<<h.day, Located(h.polled)>>}
  <2>1. w = h \/ w = [h EXCEPT !.dayDeps = deps, !.dayState = state, !.dayReqs = reqs]
    BY DEF DayEffect
  <2>2. /\ state \in [phase : {"current", "loading", "loaded", "error"}, day : Days,
                      found : SUBSET Vehicles]
        /\ reqs \subseteq Days \X SUBSET Vehicles /\ deps \in Days \X BOOLEAN \X SUBSET Vehicles
    <3>1. h.day \in Days /\ Located(h.polled) \in SUBSET Vehicles BY DEF ViewOK, Located
    <3>2. state.phase \in {"current", "loading"} /\ state \in [phase : {"current", "loading"}, day : Days,
                      found : SUBSET Vehicles]
      BY <3>1
    <3>3. deps \in Days \X BOOLEAN \X SUBSET Vehicles BY <3>1
    <3>4. <<h.day, Located(h.polled)>> \in Days \X SUBSET Vehicles BY <3>1
    <3> QED BY <3>2, <3>3, <3>4
  <2> HIDE DEF w, state, deps, reqs
  <2>3. CASE w = h BY <2>3
  <2>4. CASE w = [h EXCEPT !.dayDeps = deps, !.dayState = state, !.dayReqs = reqs]
    <3>1. /\ IsView(w) /\ w.dayDeps = deps /\ w.dayState = state /\ w.dayReqs = reqs
          /\ Same(ViewFields \ DayFields, h, w)
      BY <2>4 DEF IsView, ViewFields, DayFields, Same
    <3>2. /\ w.polled = h.polled /\ w.error = h.error /\ w.loaded = h.loaded /\ w.ready = h.ready
          /\ w.active = h.active /\ w.day = h.day /\ w.route = h.route /\ w.routeReqs = h.routeReqs
          /\ w.trip = h.trip /\ w.drawnKey = h.drawnKey /\ w.drawn = h.drawn
      BY <3>1 DEF Same, ViewFields, DayFields
    <3> QED BY <2>2, <3>1, <3>2 DEF ViewOK
  <2> QED BY <2>1, <2>3, <2>4
<1> HIDE DEF w
<1>3. IsView(x) /\ ViewOK(x)
  <2> DEFINE deps == <<ActiveImei(w), RefreshKey(w), w.day, w.ready>>
  <2>0. Nothing \in Keys /\ (ActiveImei(w) # NoVehicle => Key(w) \in Vehicles \X Days)
    BY <1>2, KeyIsKey
  <2>1. ASSUME NEW phase \in {"idle", "loading"}, NEW reqs \in SUBSET (Vehicles \X Days),
               x = [Cleared(w, phase) EXCEPT !.routeDeps = deps, !.routeReqs = reqs]
        PROVE  IsView(x) /\ ViewOK(x)
    <3> DEFINE cleared == Cleared(w, phase)
    <3>1. IsView(cleared) /\ ViewOK(cleared)
      <4>1. [phase |-> phase, key |-> Nothing, trips |-> 0]
              \in [phase : {"idle", "loading", "loaded", "empty", "error"}, key : Keys, trips : 0..MaxTrips]
        BY <2>0, MapAssumption
      <4>2. [key |-> Nothing, trip |-> 0] \in [key : Keys, trip : 0..MaxTrips] /\ 0 \in 0..MaxTrips
        BY <2>0, MapAssumption
      <4> QED BY <1>2, <2>0, <4>1, <4>2 DEF Cleared, IsView, ViewFields, ViewOK
    <3> HIDE DEF cleared
    <3>2. x = [cleared EXCEPT !.routeDeps = deps, !.routeReqs = reqs] BY <2>1 DEF cleared
    <3> HIDE DEF x, deps
    <3> QED BY <3>1, <3>2 DEF IsView, ViewFields, ViewOK
  <2>2. ASSUME NEW reqs \in SUBSET (Vehicles \X Days),
               x = [w EXCEPT !.routeDeps = deps, !.routeReqs = reqs]
        PROVE  IsView(x) /\ ViewOK(x)
    <3> HIDE DEF x, deps
    <3> QED BY <1>2, <2>2 DEF IsView, ViewFields, ViewOK
  <2>3. ASSUME x = [w EXCEPT !.routeDeps = deps] PROVE IsView(x) /\ ViewOK(x)
    <3> HIDE DEF x, deps
    <3> QED BY <1>2, <2>3 DEF IsView, ViewFields, ViewOK
  <2>4. \/ x = w \/ x = [w EXCEPT !.routeDeps = deps]
        \/ x = [Cleared(w, "idle") EXCEPT !.routeDeps = deps, !.routeReqs = {}]
        \/ /\ ActiveImei(w) # NoVehicle
           /\ \/ x = [Cleared(w, "loading") EXCEPT !.routeDeps = deps, !.routeReqs = {Key(w)}]
              \/ x = [w EXCEPT !.routeDeps = deps, !.routeReqs = {Key(w)}]
    BY DEF RouteEffect
  <2> HIDE DEF x, deps
  <2>5. ActiveImei(w) # NoVehicle => {Key(w)} \in SUBSET (Vehicles \X Days) BY <2>0
  <2>6. {} \in SUBSET (Vehicles \X Days) OBVIOUS
  <2> QED BY <1>2, <2>1, <2>2, <2>3, <2>4, <2>5, <2>6
<1> HIDE DEF x
<1>4. ViewOK(y)
  <2> DEFINE drawn == [key |-> x.route.key, trip |-> x.trip]
  <2>1. y = x \/ y = [x EXCEPT !.drawn = drawn] BY DEF DrawEffect
  <2>2. drawn \in [key : Keys, trip : 0..MaxTrips] BY <1>3 DEF ViewOK
  <2> HIDE DEF y, drawn
  <2>3. ASSUME y = [x EXCEPT !.drawn = drawn] PROVE ViewOK(y)
    BY <1>3, <2>2, <2>3 DEF IsView, ViewFields, ViewOK
  <2> QED BY <1>3, <2>1, <2>3
<1> HIDE DEF y
<1> QED BY <1>1, <1>4 DEF ViewOK

\* What a handler leaves of the types of some fields holds of those it leaves alone.
LEMMA HandledTypes ==
    ASSUME NEW v, NEW h, ViewOK(v),
           Same(ViewFields \ {"polled", "error", "loaded", "ready", "active", "day", "trip"}, v, h),
           h.polled \in 0..Len(Fleets), h.error \in BOOLEAN, h.loaded \in BOOLEAN, h.ready \in BOOLEAN,
           h.active \in Vehicles \cup {NoVehicle}, h.day \in Days, h.trip \in 0..MaxTrips
    PROVE  ViewOK(h)
<1>1. /\ h.dayState = v.dayState /\ h.dayReqs = v.dayReqs /\ h.dayDeps = v.dayDeps
      /\ h.route = v.route /\ h.routeReqs = v.routeReqs
      /\ h.drawnKey = v.drawnKey /\ h.drawn = v.drawn
  BY DEF Same, ViewFields
<1> QED BY <1>1 DEF ViewOK

\* Every event keeps the types.
LEMMA MapTypeStep == Rendered(view) /\ MapTypeOK /\ [MapNext]_mapVars => MapTypeOK'
<1> SUFFICES ASSUME Rendered(view), MapTypeOK, [MapNext]_mapVars PROVE MapTypeOK'
  OBVIOUS
<1> USE MapAssumption
<1>1. IsView(view) /\ ViewOK(view) BY DEF Rendered, Handled, MapTypeOK
<1>2. ASSUME ViewOK(view)', now' \in 1..Len(Fleets), today' \in Days, hidden' \in BOOLEAN,
             asked' \in 0..MaxPolls, polls' \subseteq (0..MaxPolls) \X (0..Len(Fleets))
      PROVE  MapTypeOK'
  BY <1>2 DEF MapTypeOK, ViewOK
<1>3. ASSUME UNCHANGED view, UNCHANGED <<now, today>>, hidden' \in BOOLEAN,
             asked' \in 0..MaxPolls, polls' \subseteq (0..MaxPolls) \X (0..Len(Fleets))
      PROVE  MapTypeOK'
  BY <1>1, <1>3 DEF MapTypeOK, ViewOK
<1>4. ASSUME NEW h, IsView(h), ViewOK(h), Render(h), UNCHANGED <<now, today, hidden, asked>>,
             polls' \subseteq polls
      PROVE  MapTypeOK'
  <2>1. ViewOK(view)' BY <1>4, RenderKeepsTypes DEF MapTypeOK
  <2> QED BY <1>2, <1>4, <2>1 DEF MapTypeOK
<1>5. CASE FleetMoves \/ Midnight
  <2>1. now' \in 1..Len(Fleets) /\ today' \in Days
    BY <1>5 DEF FleetMoves, Midnight, MapTypeOK
  <2>2. UNCHANGED <<hidden, asked, polls, view>> BY <1>5 DEF FleetMoves, Midnight, pollVars
  <2>3. ViewOK(view)' BY <1>1, <2>2 DEF ViewOK
  <2> QED BY <1>2, <2>1, <2>2, <2>3 DEF MapTypeOK
<1>6. CASE Interval \/ Show
  <2>1. /\ asked < MaxPolls /\ asked' = asked + 1 /\ polls' = {<<asked + 1, 0>>}
        /\ UNCHANGED <<now, today, view>> /\ hidden' \in BOOLEAN
    BY <1>6 DEF Interval, Show, FetchOnce, serverVars, MapTypeOK
  <2>2. asked + 1 \in 0..MaxPolls /\ 0 \in 0..Len(Fleets) BY <2>1 DEF MapTypeOK
  <2>3. polls' \subseteq (0..MaxPolls) \X (0..Len(Fleets)) BY <2>1, <2>2
  <2> QED BY <1>3, <2>1, <2>2, <2>3
<1>7. CASE Hide \/ UNCHANGED mapVars
  BY <1>3, <1>7 DEF Hide, mapVars, serverVars, pollVars, MapTypeOK
<1>8. CASE PollServed
  <2> PICK r \in polls : polls' = (polls \ {r}) \cup {<<r[1], now>>}
                         /\ UNCHANGED <<serverVars, hidden, asked, view>>
    BY <1>8 DEF PollServed
  <2>1. r[1] \in 0..MaxPolls /\ now \in 0..Len(Fleets) BY DEF MapTypeOK
  <2>2. polls' \subseteq (0..MaxPolls) \X (0..Len(Fleets)) BY <2>1 DEF MapTypeOK
  <2> QED BY <1>3, <2>2 DEF serverVars, MapTypeOK
<1>9. CASE PollArrives \/ PollFails
  <2>1. PICK h : /\ \E r \in polls : polls' = polls \ {r} /\ h.polled \in {view.polled, r[2]}
                 /\ IsView(h) /\ h.error \in BOOLEAN /\ h.loaded \in BOOLEAN
                 /\ Same(ViewFields \ {"polled", "error", "loaded"}, view, h)
                 /\ Render(h) /\ UNCHANGED <<now, today, hidden, asked>>
    <3>1. CASE PollArrives
      <4> PICK r \in polls :
             /\ polls' = polls \ {r} /\ UNCHANGED <<now, today, hidden, asked>>
             /\ Render([view EXCEPT !.polled = r[2], !.error = FALSE, !.loaded = TRUE])
        BY <3>1 DEF PollArrives, serverVars
      <4> DEFINE h == [view EXCEPT !.polled = r[2], !.error = FALSE, !.loaded = TRUE]
      <4>1. /\ IsView(h) /\ h.polled = r[2] /\ h.error = FALSE /\ h.loaded = TRUE
            /\ Same(ViewFields \ {"polled", "error", "loaded"}, view, h) /\ Render(h)
        BY <1>1 DEF IsView, ViewFields, Same
      <4> HIDE DEF h
      <4> QED BY <4>1
    <3>2. CASE PollFails
      <4> PICK r \in polls :
             /\ polls' = polls \ {r} /\ UNCHANGED <<now, today, hidden, asked>>
             /\ Render([view EXCEPT !.error = TRUE, !.loaded = TRUE])
        BY <3>2 DEF PollFails, serverVars
      <4> DEFINE h == [view EXCEPT !.error = TRUE, !.loaded = TRUE]
      <4>1. /\ IsView(h) /\ h.polled = view.polled /\ h.error = TRUE /\ h.loaded = TRUE
            /\ Same(ViewFields \ {"polled", "error", "loaded"}, view, h) /\ Render(h)
        BY <1>1 DEF IsView, ViewFields, Same
      <4> HIDE DEF h
      <4> QED BY <4>1
    <3> QED BY <1>9, <3>1, <3>2
  <2>2. h.polled \in 0..Len(Fleets) BY <1>1, <2>1 DEF MapTypeOK, ViewOK
  <2>3. ViewOK(h)
    BY <1>1, <2>1, <2>2, HandledTypes DEF Same, ViewFields, ViewOK
  <2> QED BY <1>4, <2>1, <2>3
<1>10. ASSUME NEW h, IsView(h), Same(ViewFields \ {"ready", "active", "day", "trip"}, view, h),
              h.ready \in BOOLEAN, h.active \in Vehicles \cup {NoVehicle}, h.day \in Days,
              h.trip \in 0..MaxTrips, Render(h), UNCHANGED <<serverVars, pollVars>>
       PROVE  MapTypeOK'
  <2>1. ViewOK(h) BY <1>1, <1>10, HandledTypes DEF Same, ViewFields, ViewOK
  <2> QED BY <1>4, <1>10, <2>1 DEF serverVars, pollVars
<1>11. CASE MapLoads
  <2> DEFINE h == [view EXCEPT !.ready = TRUE]
  <2>1. /\ IsView(h) /\ Same(ViewFields \ {"ready", "active", "day", "trip"}, view, h)
        /\ h.ready = TRUE /\ h.active = view.active /\ h.day = view.day /\ h.trip = view.trip
    BY <1>1 DEF IsView, ViewFields, Same
  <2>2. Render(h) /\ UNCHANGED <<serverVars, pollVars>> BY <1>11 DEF MapLoads
  <2> HIDE DEF h
  <2> QED BY <1>1, <1>10, <2>1, <2>2 DEF ViewOK
<1>12. ASSUME NEW vehicle \in Vehicles \cup {NoVehicle}, Render([view EXCEPT !.active = vehicle]),
              UNCHANGED <<serverVars, pollVars>>
       PROVE  MapTypeOK'
  <2> DEFINE h == [view EXCEPT !.active = vehicle]
  <2>1. /\ IsView(h) /\ Same(ViewFields \ {"ready", "active", "day", "trip"}, view, h)
        /\ h.ready = view.ready /\ h.active = vehicle /\ h.day = view.day /\ h.trip = view.trip
    BY <1>1 DEF IsView, ViewFields, Same
  <2>2. Render(h) BY <1>12
  <2> HIDE DEF h
  <2> QED BY <1>1, <1>10, <1>12, <2>1, <2>2 DEF ViewOK
<1>13. ASSUME NEW d \in Days, HandleDayChange(d) PROVE MapTypeOK'
  <2> DEFINE h == [view EXCEPT !.day = d, !.active = NoVehicle]
  <2>1. /\ IsView(h) /\ Same(ViewFields \ {"ready", "active", "day", "trip"}, view, h)
        /\ h.ready = view.ready /\ h.active = NoVehicle /\ h.day = d /\ h.trip = view.trip
    BY <1>1 DEF IsView, ViewFields, Same
  <2>2. Render(h) /\ UNCHANGED <<serverVars, pollVars>> BY <1>13 DEF HandleDayChange
  <2> HIDE DEF h
  <2> QED BY <1>1, <1>10, <2>1, <2>2 DEF ViewOK
<1>14. ASSUME NEW k \in 0..MaxTrips, HandleTripChange(k) PROVE MapTypeOK'
  <2> DEFINE h == [view EXCEPT !.trip = k]
  <2>1. /\ IsView(h) /\ Same(ViewFields \ {"ready", "active", "day", "trip"}, view, h)
        /\ h.ready = view.ready /\ h.active = view.active /\ h.day = view.day /\ h.trip = k
    BY <1>1 DEF IsView, ViewFields, Same
  <2>2. Render(h) /\ UNCHANGED <<serverVars, pollVars>> BY <1>14 DEF HandleTripChange
  <2> HIDE DEF h
  <2> QED BY <1>1, <1>10, <2>1, <2>2 DEF ViewOK
<1>15. CASE DayArrives \/ DayFails
  <2> DEFINE h(r, state) == [view EXCEPT !.dayReqs = @ \ {r}, !.dayState = state]
  <2>1. PICK r \in view.dayReqs, phase \in {"loaded", "error"}, found \in SUBSET Vehicles : Render(h(r, [phase |-> phase, day |-> r[1], found |-> found]))
    <3>1. \A r \in view.dayReqs : SUBSET r[2] \subseteq SUBSET Vehicles BY <1>1 DEF ViewOK
    <3> QED BY <1>15, <3>1 DEF DayArrives, DayFails
  <2> DEFINE state == [phase |-> phase, day |-> r[1], found |-> found]
  <2>2. state \in [phase : {"current", "loading", "loaded", "error"}, day : Days, found : SUBSET Vehicles]
    BY <1>1 DEF ViewOK
  <2>3. UNCHANGED <<now, today, hidden, asked, polls>>
    BY <1>15 DEF DayArrives, DayFails, serverVars, pollVars
  <2>4. Render(h(r, state)) BY <2>1
  <2> HIDE DEF state
  <2>5. IsView(h(r, state)) /\ ViewOK(h(r, state))
    BY <1>1, <2>2 DEF IsView, ViewFields, ViewOK
  <2> HIDE DEF h
  <2> QED BY <1>4, <2>3, <2>4, <2>5
<1>16. CASE RouteArrives
  <2>1. PICK key \in view.routeReqs, n \in 1..MaxTrips :
            Render([view EXCEPT !.routeReqs = @ \ {key}, !.drawnKey = key,
                     !.trip = IF @ > n THEN 0 ELSE @,
                     !.route = [phase |-> "loaded", key |-> key, trips |-> n]])
    BY <1>16 DEF RouteArrives
  <2> DEFINE loaded == [phase |-> "loaded", key |-> key, trips |-> n]
             trip == IF view.trip > n THEN 0 ELSE view.trip
             h == [view EXCEPT !.routeReqs = @ \ {key}, !.drawnKey = key, !.trip = trip, !.route = loaded]
  <2>2. key \in Keys /\ trip \in 0..MaxTrips /\ n \in 0..MaxTrips BY <1>1 DEF ViewOK, Keys
  <2>3. loaded \in [phase : {"idle", "loading", "loaded", "empty", "error"}, key : Keys, trips : 0..MaxTrips]
    BY <2>2
  <2>4. UNCHANGED <<now, today, hidden, asked, polls>>
    BY <1>16 DEF RouteArrives, serverVars, pollVars
  <2>5. Render(h) BY <2>1
  <2> HIDE DEF loaded, trip
  <2>6. IsView(h) /\ ViewOK(h) BY <1>1, <2>2, <2>3 DEF IsView, ViewFields, ViewOK
  <2> HIDE DEF h
  <2> QED BY <1>4, <2>4, <2>5, <2>6
<1>17. CASE RouteIsEmpty \/ RouteFails
  <2> DEFINE none == [key |-> Nothing, trip |-> 0]
             h(key, drawnKey, phase) ==
               [view EXCEPT !.routeReqs = @ \ {key}, !.drawnKey = drawnKey, !.drawn = none,
                            !.route = [phase |-> phase, key |-> key, trips |-> 0]]
  <2>1. PICK key \in view.routeReqs, drawnKey \in Keys, phase \in {"empty", "error"} :
            Render(h(key, drawnKey, phase))
    <3>1. Nothing \in Keys /\ \A key \in view.routeReqs : key \in Keys
      BY <1>1, KeyIsKey DEF ViewOK, Keys
    <3>2. CASE RouteIsEmpty
      <4> PICK key \in view.routeReqs : Render(h(key, key, "empty")) BY <3>2 DEF RouteIsEmpty
      <4> HIDE DEF h
      <4> QED BY <3>1
    <3>3. CASE RouteFails
      <4> PICK key \in view.routeReqs : Render(h(key, Nothing, "error")) BY <3>3 DEF RouteFails
      <4> HIDE DEF h
      <4> QED BY <3>1
    <3> QED BY <1>17, <3>2, <3>3
  <2> DEFINE gone == [phase |-> phase, key |-> key, trips |-> 0]
  <2>2. Nothing \in Keys BY <1>1, KeyIsKey
  <2>3. key \in Keys BY <1>1 DEF ViewOK, Keys
  <2>4. gone \in [phase : {"idle", "loading", "loaded", "empty", "error"}, key : Keys, trips : 0..MaxTrips]
    BY <2>3
  <2>5. none \in [key : Keys, trip : 0..MaxTrips] BY <2>2
  <2>6. UNCHANGED <<now, today, hidden, asked, polls>>
    BY <1>17 DEF RouteIsEmpty, RouteFails, serverVars, pollVars
  <2> DEFINE g == [view EXCEPT !.routeReqs = @ \ {key}, !.drawnKey = drawnKey, !.drawn = none,
                               !.route = gone]
  <2>7. Render(g) BY <2>1
  <2> HIDE DEF gone, none
  <2>8. IsView(g) /\ ViewOK(g) BY <1>1, <2>3, <2>4, <2>5 DEF IsView, ViewFields, ViewOK
  <2> HIDE DEF g
  <2> QED BY <1>4, <2>6, <2>7, <2>8
<1>18. CASE ClearVehicle BY <1>12, <1>18 DEF ClearVehicle
<1>19. ASSUME NEW vehicle \in Vehicles, FocusVehicle(vehicle) PROVE MapTypeOK'
  BY <1>12, <1>19 DEF FocusVehicle
<1> QED
  BY <1>5, <1>6, <1>7, <1>8, <1>9, <1>11, <1>13, <1>14, <1>15, <1>16, <1>17, <1>18, <1>19 DEF MapNext

\* The variables of the map keep their types.
THEOREM MapTypes == MapSpec => []MapTypeOK
<1>1. MapInit => MapTypeOK
  <2> SUFFICES ASSUME MapInit PROVE MapTypeOK
    OBVIOUS
  <2> USE MapAssumption
  <2>1. Nothing \in Keys /\ 0 \in 0..MaxTrips /\ 0 \in 0..Len(Fleets) /\ 1 \in 1..Len(Fleets)
        /\ 0 \in 0..MaxPolls
    BY DEF Nothing, Keys
  <2>2. <<Today0, TRUE, {}>> \in Days \X BOOLEAN \X SUBSET Vehicles OBVIOUS
  <2>3. polls \subseteq (0..MaxPolls) \X (0..Len(Fleets)) BY <2>1 DEF MapInit
  <2>4. /\ view.polled = 0 /\ view.error = FALSE /\ view.loaded = FALSE /\ view.ready = FALSE
        /\ view.active = NoVehicle /\ view.day = Today0
        /\ view.dayState = [phase |-> "current", day |-> Today0, found |-> {}]
        /\ view.dayReqs = {} /\ view.dayDeps = <<Today0, TRUE, {}>>
        /\ view.route = [phase |-> "idle", key |-> Nothing, trips |-> 0] /\ view.routeReqs = {}
        /\ view.trip = 0 /\ view.drawnKey = Nothing /\ view.drawn = [key |-> Nothing, trip |-> 0]
    BY DEF MapInit
  <2>5. view.dayState \in [phase : {"current", "loading", "loaded", "error"}, day : Days,
                           found : SUBSET Vehicles]
    BY <2>4
  <2>6. /\ view.route \in [phase : {"idle", "loading", "loaded", "empty", "error"}, key : Keys,
                           trips : 0..MaxTrips]
        /\ view.drawn \in [key : Keys, trip : 0..MaxTrips]
    BY <2>1, <2>4
  <2>7. ViewOK(view) BY <2>1, <2>2, <2>4, <2>5, <2>6 DEF ViewOK
  <2> QED BY <2>1, <2>3, <2>7 DEF MapInit, MapTypeOK
<1> QED BY <1>1, MapTypeStep, MapInitRendered, MapStepRendered, PTL DEF MapSpec

-------------------------------------------------------------------------------
(* The polls *)

\* One poll at most is under way, and its answer is not older than the vehicles
\* that are shown.
PollInv ==
    /\ now \in Nat /\ view.polled \in Nat /\ view.polled <= now
    /\ \A r \in polls : r[2] \in Nat /\ r[2] <= now /\ (r[2] = 0 \/ r[2] >= view.polled)
    /\ \A q, r \in polls : q = r

\* Rendering changes nothing of the list of vehicles.
LEMMA RenderKeepsPolled ==
    ASSUME NEW h, IsView(h), Render(h) PROVE view'.polled = h.polled
<1> DEFINE w == DayEffect(h)
           x == RouteEffect(w)
           y == DrawEffect(x)
<1>1. view' = y BY DEF Render
<1>2. IsView(w) /\ w.polled = h.polled BY DEF DayEffect, IsView, ViewFields
<1> HIDE DEF w
<1>3. IsView(x) /\ x.polled = w.polled
  <2> DEFINE deps == <<ActiveImei(w), RefreshKey(w), w.day, w.ready>>
  <2>1. ASSUME NEW phase, NEW reqs, x = [Cleared(w, phase) EXCEPT !.routeDeps = deps, !.routeReqs = reqs]
        PROVE  IsView(x) /\ x.polled = w.polled
    BY <1>2, <2>1 DEF Cleared, IsView, ViewFields
  <2>2. ASSUME NEW reqs, x = [w EXCEPT !.routeDeps = deps, !.routeReqs = reqs]
        PROVE  IsView(x) /\ x.polled = w.polled
    BY <1>2, <2>2 DEF IsView, ViewFields
  <2>3. ASSUME x = [w EXCEPT !.routeDeps = deps] PROVE IsView(x) /\ x.polled = w.polled
    BY <1>2, <2>3 DEF IsView, ViewFields
  <2>4. \/ x = w \/ x = [w EXCEPT !.routeDeps = deps]
        \/ x = [Cleared(w, "idle") EXCEPT !.routeDeps = deps, !.routeReqs = {}]
        \/ x = [Cleared(w, "loading") EXCEPT !.routeDeps = deps, !.routeReqs = {Key(w)}]
        \/ x = [w EXCEPT !.routeDeps = deps, !.routeReqs = {Key(w)}]
    BY DEF RouteEffect
  <2> HIDE DEF x, deps
  <2> QED BY <1>2, <2>1, <2>2, <2>3, <2>4
<1> HIDE DEF x
<1>4. y.polled = x.polled BY <1>3 DEF DrawEffect, IsView, ViewFields
<1> QED BY <1>1, <1>2, <1>3, <1>4

\* Each step keeps the polls in order and moves the list forward or not at all.
LEMMA PollStep ==
    Rendered(view) /\ PollInv /\ [MapNext]_mapVars => PollInv' /\ view'.polled >= view.polled
<1> SUFFICES ASSUME Rendered(view), PollInv, [MapNext]_mapVars
             PROVE  PollInv' /\ view'.polled >= view.polled
  OBVIOUS
<1> USE DEF PollInv, serverVars, pollVars
<1>1. IsView(view) BY DEF Rendered, Handled
<1>2. ASSUME view'.polled = view.polled, UNCHANGED <<now, polls>>
      PROVE  PollInv' /\ view'.polled >= view.polled
  BY <1>2
<1>3. ASSUME NEW h, IsView(h), Render(h), h.polled = view.polled, UNCHANGED <<now, polls>>
      PROVE  PollInv' /\ view'.polled >= view.polled
  BY <1>2, <1>3, RenderKeepsPolled
<1>4. CASE FleetMoves
  BY <1>4 DEF FleetMoves
<1>5. CASE Midnight \/ Hide \/ UNCHANGED mapVars
  BY <1>2, <1>5 DEF Midnight, Hide, mapVars
<1>6. CASE Interval \/ Show
  <2>1. polls' = {<<asked + 1, 0>>} /\ UNCHANGED <<now, view>>
    BY <1>6 DEF Interval, Show, FetchOnce
  <2> QED BY <2>1
<1>7. CASE PollServed
  <2> PICK r \in polls : polls' = (polls \ {r}) \cup {<<r[1], now>>} /\ UNCHANGED <<now, view>>
    BY <1>7 DEF PollServed
  <2> QED OBVIOUS
<1>8. CASE PollArrives
  <2> PICK r \in polls :
         /\ r[2] # 0 /\ polls' = polls \ {r} /\ UNCHANGED now
         /\ Render([view EXCEPT !.polled = r[2], !.error = FALSE, !.loaded = TRUE])
    BY <1>8 DEF PollArrives
  <2> DEFINE h == [view EXCEPT !.polled = r[2], !.error = FALSE, !.loaded = TRUE]
  <2>1. IsView(h) /\ h.polled = r[2] /\ Render(h) BY <1>1 DEF IsView, ViewFields
  <2> HIDE DEF h
  <2>2. view'.polled = r[2] BY <2>1, RenderKeepsPolled
  <2>3. r[2] \in Nat /\ r[2] >= view.polled /\ r[2] <= now OBVIOUS
  <2>4. polls' = {} OBVIOUS
  <2> QED BY <2>2, <2>3, <2>4
<1>9. CASE PollFails
  <2> PICK r \in polls :
         polls' = polls \ {r} /\ UNCHANGED now /\ Render([view EXCEPT !.error = TRUE, !.loaded = TRUE])
    BY <1>9 DEF PollFails
  <2> DEFINE h == [view EXCEPT !.error = TRUE, !.loaded = TRUE]
  <2>1. IsView(h) /\ h.polled = view.polled /\ Render(h) BY <1>1 DEF IsView, ViewFields
  <2> HIDE DEF h
  <2>2. view'.polled = view.polled BY <2>1, RenderKeepsPolled
  <2> QED BY <2>2
<1>10. CASE MapLoads
  <2>1. UNCHANGED <<now, polls>> /\ Render([view EXCEPT !.ready = TRUE]) BY <1>10 DEF MapLoads
  <2> QED BY <1>1, <1>3, <2>1 DEF IsView, ViewFields
<1>11. ASSUME NEW x, Render([view EXCEPT !.active = x]), UNCHANGED <<now, polls>>
       PROVE  PollInv' /\ view'.polled >= view.polled
  BY <1>1, <1>3, <1>11 DEF IsView, ViewFields
<1>12. CASE ClearVehicle
  BY <1>11, <1>12 DEF ClearVehicle
<1>13. ASSUME NEW x \in Vehicles, FocusVehicle(x) PROVE PollInv' /\ view'.polled >= view.polled
  BY <1>11, <1>13 DEF FocusVehicle
<1>14. ASSUME NEW d \in Days, HandleDayChange(d) PROVE PollInv' /\ view'.polled >= view.polled
  <2>1. UNCHANGED <<now, polls>> /\ Render([view EXCEPT !.day = d, !.active = NoVehicle])
    BY <1>14 DEF HandleDayChange
  <2> QED BY <1>1, <1>3, <2>1 DEF IsView, ViewFields
<1>15. ASSUME NEW k \in 0..MaxTrips, HandleTripChange(k) PROVE PollInv' /\ view'.polled >= view.polled
  <2>1. UNCHANGED <<now, polls>> /\ Render([view EXCEPT !.trip = k]) BY <1>15 DEF HandleTripChange
  <2> QED BY <1>1, <1>3, <2>1 DEF IsView, ViewFields
<1>16. CASE DayArrives \/ DayFails
  <2>1. /\ UNCHANGED <<now, polls>>
        /\ \E r, state : Render([view EXCEPT !.dayReqs = @ \ {r}, !.dayState = state])
    BY <1>16 DEF DayArrives, DayFails
  <2> PICK r, state : Render([view EXCEPT !.dayReqs = @ \ {r}, !.dayState = state])
    BY <2>1
  <2> QED BY <1>1, <1>3, <2>1 DEF IsView, ViewFields
<1>17. CASE RouteArrives
  <2> PICK key \in view.routeReqs, n \in 1..MaxTrips :
         /\ UNCHANGED <<now, polls>>
         /\ Render([view EXCEPT !.routeReqs = @ \ {key}, !.drawnKey = key,
                       !.trip = IF @ > n THEN 0 ELSE @,
                       !.route = [phase |-> "loaded", key |-> key, trips |-> n]])
    BY <1>17 DEF RouteArrives
  <2> QED BY <1>1, <1>3 DEF IsView, ViewFields
<1>18. CASE RouteIsEmpty \/ RouteFails
  <2>1. /\ UNCHANGED <<now, polls>>
        /\ \E key, k, new : Render([view EXCEPT !.routeReqs = @ \ {key}, !.drawnKey = k,
                                       !.drawn = [key |-> Nothing, trip |-> 0], !.route = new])
    BY <1>18 DEF RouteIsEmpty, RouteFails
  <2> PICK key, k, new : Render([view EXCEPT !.routeReqs = @ \ {key}, !.drawnKey = k,
                                       !.drawn = [key |-> Nothing, trip |-> 0], !.route = new])
    BY <2>1
  <2> QED BY <1>1, <1>3, <2>1 DEF IsView, ViewFields
<1> QED
  BY <1>4, <1>5, <1>6, <1>7, <1>8, <1>9, <1>10, <1>12, <1>13, <1>14, <1>15, <1>16, <1>17, <1>18
     DEF MapNext

\* A list of vehicles is not replaced by an older one, however the interval, a
\* hidden page and late answers interleave (use-devices.ts:35-61).
THEOREM PollsNeverGoBack == MapSpec => PollsMoveForward
<1>1. MapInit => PollInv
  <2> SUFFICES ASSUME MapInit PROVE PollInv
    OBVIOUS
  <2>1. now = 1 /\ polls = {<<0, 0>>} /\ view.polled = 0 BY DEF MapInit
  <2> QED BY <2>1 DEF PollInv
<1>2. Rendered(view) /\ PollInv /\ [MapNext]_mapVars => [view'.polled >= view.polled]_mapVars
  BY PollStep
<1> QED BY <1>1, <1>2, PollStep, MapInitRendered, MapStepRendered, PTL DEF MapSpec, PollsMoveForward

-------------------------------------------------------------------------------
(* The panel *)

LookupsMatch == lookups \subseteq {DetailsAt(place, selected, query)}

PanelInv == LookupsMatch /\ AddressIsOfVehicle

\* The effect aborts the lookup of a place the details do not show any more.
LEMMA AddressEffectKeeps ==
    ASSUME PanelInv, NEW p, NEW sel, NEW q, AddressEffect(p, sel, q),
           place' = p, selected' = sel, query' = q
    PROVE  PanelInv'
<1>1. DetailsAt(place, selected, query)' = DetailsAt(p, sel, q) BY DEF DetailsAt
<1>2. CASE DetailsAt(p, sel, q) = DetailsAt(place, selected, query)
  <2>1. UNCHANGED <<address, lookups>> BY <1>2 DEF AddressEffect
  <2> QED BY <1>1, <1>2, <2>1 DEF PanelInv, LookupsMatch, AddressIsOfVehicle
<1>3. CASE DetailsAt(p, sel, q) # DetailsAt(place, selected, query)
  <2>1. address' = Nowhere /\ lookups' = {DetailsAt(p, sel, q)} \ {Nowhere}
    BY <1>3 DEF AddressEffect
  <2> QED BY <1>1, <2>1 DEF PanelInv, LookupsMatch, AddressIsOfVehicle
<1> QED BY <1>2, <1>3

\* Every event keeps the lookup and the address to the place in the details.
LEMMA PanelStep == PanelInv /\ [PanelNext]_panelVars => PanelInv'
<1> SUFFICES ASSUME PanelInv, [PanelNext]_panelVars PROVE PanelInv'
  OBVIOUS
<1>1. ASSUME NEW p, NEW d, VehiclesChange(p, d) PROVE PanelInv'
  BY <1>1, AddressEffectKeeps DEF VehiclesChange
<1>2. ASSUME NEW x \in Cars, SelectMarker(x) \/ SelectRow(x) PROVE PanelInv'
  <2>1. Select(x) BY <1>2 DEF SelectMarker, SelectRow
  <2> QED BY <2>1, AddressEffectKeeps DEF Select
<1>3. CASE Deselect
  BY <1>3, AddressEffectKeeps DEF Deselect
<1>4. ASSUME NEW q, Search(q) PROVE PanelInv'
  BY <1>4, AddressEffectKeeps DEF Search
<1>5. ASSUME UNCHANGED <<place, selected, query>>, lookups' \subseteq lookups,
             address' = address \/ address' = Nowhere \/ address' \in lookups
      PROVE  PanelInv'
  <2>1. DetailsAt(place, selected, query)' = DetailsAt(place, selected, query)
    BY <1>5 DEF DetailsAt
  <2> QED BY <1>5, <2>1 DEF PanelInv, LookupsMatch, AddressIsOfVehicle
<1>6. ASSUME NEW f, ChooseFilter(f) PROVE PanelInv'
  BY <1>5, <1>6 DEF ChooseFilter
<1>7. CASE ToggleMore \/ AddressFails \/ UNCHANGED panelVars
  BY <1>5, <1>7 DEF ToggleMore, AddressFails, panelVars
<1>8. CASE AddressArrives
  BY <1>5, <1>8 DEF AddressArrives
<1> QED BY <1>1, <1>2, <1>3, <1>4, <1>6, <1>7, <1>8 DEF PanelNext

\* The address is that of the position the details show, whatever lookups of
\* earlier positions, selections and searches bring (map-panel.tsx:331-342).
THEOREM AddressIsRight == PanelSpec => []AddressIsOfVehicle
<1>1. PanelInit => PanelInv
  BY DEF PanelInit, PanelInv, LookupsMatch, AddressIsOfVehicle
<1>2. PanelInv => AddressIsOfVehicle BY DEF PanelInv
<1> QED BY <1>1, <1>2, PanelStep, PTL DEF PanelSpec

\* The place in the details is a place.
LEMMA DetailsArePlace ==
    ASSUME NEW p \in [Cars -> Places \cup {Nowhere}], NEW sel \in Cars \cup {NoCar}, NEW q
    PROVE  DetailsAt(p, sel, q) \in Places \cup {Nowhere}
BY DEF DetailsAt

\* The effect keeps the types of what it sets.
LEMMA AddressEffectTypes ==
    ASSUME NEW p \in [Cars -> Places \cup {Nowhere}], NEW sel \in Cars \cup {NoCar}, NEW q,
           PanelTypeOK, AddressEffect(p, sel, q)
    PROVE  address' \in Places \cup {Nowhere} /\ lookups' \subseteq Places /\ expanded' \in BOOLEAN
<1>1. DetailsAt(p, sel, q) \in Places \cup {Nowhere} BY DetailsArePlace
<1> QED BY <1>1, Zenon DEF AddressEffect, PanelTypeOK

\* The variables of the panel keep their types: an address is only ever asked for
\* where a vehicle is.
THEOREM PanelTypes == PanelSpec => []PanelTypeOK
<1>1. PanelInit => PanelTypeOK BY DEF PanelInit, PanelTypeOK
<1>2. PanelTypeOK /\ [PanelNext]_panelVars => PanelTypeOK'
  <2> SUFFICES ASSUME PanelTypeOK, [PanelNext]_panelVars PROVE PanelTypeOK'
    OBVIOUS
  <2>1. ASSUME NEW p \in [Cars -> Places \cup {Nowhere}], NEW d \in SUBSET Cars, VehiclesChange(p, d)
        PROVE  PanelTypeOK'
    BY <2>1, AddressEffectTypes DEF VehiclesChange, PanelTypeOK
  <2>2. ASSUME NEW x \in Cars, SelectMarker(x) \/ SelectRow(x) PROVE PanelTypeOK'
    <3>1. Select(x) BY <2>2 DEF SelectMarker, SelectRow
    <3> QED BY <3>1, AddressEffectTypes DEF Select, PanelTypeOK
  <2>3. CASE Deselect BY <2>3, AddressEffectTypes DEF Deselect, PanelTypeOK
  <2>4. ASSUME NEW q \in Queries \cup {NoQuery}, Search(q) PROVE PanelTypeOK'
    BY <2>4, AddressEffectTypes DEF Search, PanelTypeOK
  <2>5. ASSUME NEW f \in {"all", "driving", "stationary"}, ChooseFilter(f) PROVE PanelTypeOK'
    BY <2>5 DEF ChooseFilter, PanelTypeOK
  <2>6. CASE ToggleMore \/ AddressArrives \/ AddressFails \/ UNCHANGED panelVars
    BY <2>6 DEF ToggleMore, AddressArrives, AddressFails, panelVars, PanelTypeOK
  <2> QED BY <2>1, <2>2, <2>3, <2>4, <2>5, <2>6 DEF PanelNext
<1> QED BY <1>1, <1>2, PTL DEF PanelSpec

-------------------------------------------------------------------------------
(* Together *)

\* What MCMap runs is each of the four parts, and what they show of one of them
\* they show of its own specification.
LEMMA MapPageRunsEach == MapPageSpec => MapSpec /\ PanelSpec /\ MarkersSpec /\ RoutesSpec
<1>1. MapPageInit => MapInit /\ PanelInit /\ MarkersInit /\ RoutesInit
  BY DEF MapPageInit
<1>2. [MapPageNext]_allVars => /\ [MapNext]_mapVars /\ [PanelNext]_panelVars
                               /\ [MarkersNext]_markersVars /\ [RoutesNext]_routesVars
  BY DEF MapPageNext, allVars
<1> QED BY <1>1, <1>2, PTL DEF MapPageSpec, MapSpec, PanelSpec, MarkersSpec, RoutesSpec

\* The variables of every part keep their types, for any vehicles, days, groups,
\* places and positions (vehicle-routes.ts:49-102).
THEOREM MapPageTypes == MapPageSpec => []MapPageTypeOK
<1>1. MapTypeOK /\ PanelTypeOK /\ MarkersTypeOK /\ RoutesTypeOK => MapPageTypeOK
  BY DEF MapPageTypeOK
<1> QED BY <1>1, MapPageRunsEach, MapTypes, PanelTypes, MarkersTypes, RoutesTypes, PTL
===============================================================================

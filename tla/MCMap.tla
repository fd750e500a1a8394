--------------------------------- MODULE MCMap --------------------------------
(***************************************************************************)
(* Finite instances of the map: what it shows (MapView), the panel beside  *)
(* it, its markers, and the trips of a route.  Each part takes what the    *)
(* others hand it (vehicles, a selection, positions) as inputs that change *)
(* at any moment, so a behaviour is one of one part, chosen at the start.  *)
(***************************************************************************)
EXTENDS MapView, MapPanel, MapMarkers, VehicleRoutes

CONSTANTS a, b, c

VARIABLE mapPart

allVars == <<mapVars, panelVars, markersVars, routesVars, mapPart>>

\* A vehicle that drives all the time, one that is lost and found, and both
\* changing between driving and standing.
Two(p, q) == [x \in Vehicles |-> IF x = a THEN p ELSE q]
MCFleets == <<Two("driving", "stationary"), Two("driving", "none"), Two("stationary", "driving")>>

\* One that comes, goes and changes, beside two that are sometimes there.
Three(p, q, r) == [x \in Marked |-> IF x = a THEN p ELSE IF x = b THEN q ELSE r]
MCGiven == {Three("none", "none", "none"), Three("driving", "none", "stationary"),
            Three("driving", "driving", "stationary"),
            Three("stationary", "driving", "none"),
            Three("stationary", "stationary", "driving")}

\* Standing, creeping, moving, the way back, a jump after a gap.
Move(metres, seconds) == [metres |-> metres, seconds |-> seconds]
MCMoves == {Move(0, 150), Move(40, 150), Move(60, 60), Move(-60, 60), Move(120, 300)}

MapPageInit ==
    /\ mapPart \in {"view", "panel", "markers", "routes"}
    /\ MapInit /\ PanelInit /\ MarkersInit /\ RoutesInit

MapPageNext ==
    /\ UNCHANGED mapPart
    /\ \/ mapPart = "view" /\ MapNext /\ UNCHANGED <<panelVars, markersVars, routesVars>>
       \/ mapPart = "panel" /\ PanelNext /\ UNCHANGED <<mapVars, markersVars, routesVars>>
       \/ mapPart = "markers" /\ MarkersNext /\ UNCHANGED <<mapVars, panelVars, routesVars>>
       \/ mapPart = "routes" /\ RoutesNext /\ UNCHANGED <<mapVars, panelVars, markersVars>>

InView(A) == mapPart = "view" /\ A /\ UNCHANGED <<panelVars, markersVars, routesVars, mapPart>>

\* A browser ends every fetch with an answer or a failure: the polls after 30
\* seconds (use-devices.ts:46).
MapPageSpec ==
    /\ MapPageInit /\ [][MapPageNext]_allVars
    /\ WF_allVars(InView(PollArrives \/ PollFails))
    /\ WF_allVars(InView(DayArrives \/ DayFails))
    /\ WF_allVars(InView(RouteArrives \/ RouteIsEmpty \/ RouteFails))

\* The variables of every part keep their types, and a route has trips exactly
\* when it is called loaded (vehicle-routes.ts:49-102).
MapPageTypeOK == MapTypeOK /\ PanelTypeOK /\ MarkersTypeOK /\ RoutesTypeOK

\* Loading ends on a map that is open.
MapLoadingEnds == mapPart = "view" => LoadingEnds
===============================================================================

-------------------------------- MODULE MapPanel ------------------------------
(***************************************************************************)
(* The panel beside the map (frontend/components/map-panel.tsx): the list  *)
(* of the vehicles, searched and filtered, or the details of the selected  *)
(* one, with the address that belongs to its position.                     *)
(*                                                                         *)
(* The vehicles and the selection are given by the map and change at any   *)
(* moment.  A query is a set of vehicles that match it.                    *)
(***************************************************************************)
EXTENDS FiniteSets

CONSTANTS
    Cars, Places,
    Nowhere,      \* in place of a position: the vehicle is not displayed
    NoCar,        \* nothing is selected
    Queries       \* what can be searched for: sets of vehicles

ASSUME PanelAssumption == Nowhere \notin Places /\ NoCar \notin Cars

NoQuery == Cars \cup {NoCar}    \* the empty field

VARIABLES
    place,         \* props: where each vehicle is
    driving,       \*   the vehicles that drive
    selected,      \*   activeVehicleId
    query, filter, \* state of MapPanel
    expanded,      \* state of VehicleDetails
    address,       \*   the place the address shown belongs to
    lookups        \*   addresses under way

panelVars == <<place, driving, selected, query, filter, expanded, address, lookups>>

PanelTypeOK ==
    /\ place \in [Cars -> Places \cup {Nowhere}] /\ driving \subseteq Cars
    /\ selected \in Cars \cup {NoCar}
    /\ query \in Queries \cup {NoQuery} /\ filter \in {"all", "driving", "stationary"}
    /\ expanded \in BOOLEAN
    /\ address \in Places \cup {Nowhere} /\ lookups \subseteq Places

PanelInit ==
    /\ place = [x \in Cars |-> Nowhere] /\ driving = {}
    /\ selected = NoCar /\ query = NoQuery /\ filter = "all"
    /\ expanded = FALSE /\ address = Nowhere /\ lookups = {}

\* Where the vehicle is whose details are shown; Nowhere when the list is: a
\* search hides the details, the selection stays.
DetailsAt(p, sel, q) == IF sel # NoCar /\ q = NoQuery THEN p[sel] ELSE Nowhere

ShowsDetails == DetailsAt(place, selected, query) # Nowhere

VisibleRows ==
    {x \in query \cap Cars :
        /\ place[x] # Nowhere
        /\ filter = "driving" => x \in driving
        /\ filter = "stationary" => x \notin driving}

\* Mutant: the lookup under way is not aborted.
BuggyAddressEffect(p, sel, q) ==
    LET at == DetailsAt(p, sel, q)
    IN  IF at = DetailsAt(place, selected, query) THEN UNCHANGED <<address, lookups, expanded>>
        ELSE /\ address' = Nowhere
             /\ lookups' = lookups \cup ({at} \ {Nowhere})
             /\ expanded' = (expanded /\ at # Nowhere)

\* The effect on coordKey: a new position has no address yet, and the lookup of
\* the old one is aborted.  The details that go take their state with them; the
\* details of one vehicle become those of another without that.
AddressEffect(p, sel, q) ==
    LET at == DetailsAt(p, sel, q)
    IN  IF at = DetailsAt(place, selected, query) THEN UNCHANGED <<address, lookups, expanded>>
        ELSE /\ address' = Nowhere
             /\ lookups' = {at} \ {Nowhere}
             /\ expanded' = (expanded /\ at # Nowhere)

-------------------------------------------------------------------------------

\* The map passes new vehicles on.
VehiclesChange(p, d) ==
    /\ place' = p /\ driving' = d
    /\ AddressEffect(p, selected, query)
    /\ UNCHANGED <<selected, query, filter>>

\* A selection clears the search, from a marker as from a row.
Select(x) ==
    /\ place[x] # Nowhere
    /\ selected' = x /\ query' = NoQuery
    /\ AddressEffect(place, x, NoQuery)
    /\ UNCHANGED <<place, driving, filter>>

SelectMarker(x) == x # selected /\ Select(x)

SelectRow(x) == ~ShowsDetails /\ x \in VisibleRows /\ Select(x)

\* "All vehicles", and the map when another day is chosen.
Deselect ==
    /\ selected # NoCar
    /\ selected' = NoCar
    /\ AddressEffect(place, NoCar, query)
    /\ UNCHANGED <<place, driving, query, filter>>

Search(q) ==
    /\ query' = q
    /\ AddressEffect(place, selected, q)
    /\ UNCHANGED <<place, driving, selected, filter>>

ChooseFilter(f) ==
    /\ ~ShowsDetails
    /\ filter' = f
    /\ UNCHANGED <<place, driving, selected, query, expanded, address, lookups>>

ToggleMore ==
    /\ ShowsDetails
    /\ expanded' = ~expanded
    /\ UNCHANGED <<place, driving, selected, query, filter, address, lookups>>

\* fetchAddress: an address, or none for that place.
AddressArrives ==
    \E at \in lookups :
        /\ lookups' = lookups \ {at}
        /\ address' \in {at, Nowhere}
        /\ UNCHANGED <<place, driving, selected, query, filter, expanded>>

AddressFails ==
    /\ lookups # {}
    /\ \E at \in lookups : lookups' = lookups \ {at}
    /\ UNCHANGED <<place, driving, selected, query, filter, expanded, address>>

PanelNext ==
    \/ \E p \in [Cars -> Places \cup {Nowhere}], d \in SUBSET Cars : VehiclesChange(p, d)
    \/ \E x \in Cars : SelectMarker(x) \/ SelectRow(x)
    \/ Deselect
    \/ \E q \in Queries \cup {NoQuery} : Search(q)
    \/ \E f \in {"all", "driving", "stationary"} : ChooseFilter(f)
    \/ ToggleMore \/ AddressArrives \/ AddressFails

PanelSpec == PanelInit /\ [][PanelNext]_panelVars

\* The address that is shown is that of the position the details show, of the
\* vehicle that is selected, whatever lookups of earlier positions or vehicles
\* bring (map-panel.tsx:331-342).
AddressIsOfVehicle ==
    address # Nowhere => address = DetailsAt(place, selected, query)
===============================================================================

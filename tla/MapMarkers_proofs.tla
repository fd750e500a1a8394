---------------------------- MODULE MapMarkers_proofs --------------------------
(***************************************************************************)
(* Proofs about the markers of the map (MapMarkers), for any vehicles,     *)
(* groups and ways to group them.                                          *)
(***************************************************************************)
EXTENDS MapMarkers, FiniteSetTheorems, TLAPS

CacheShape ==
    /\ DOMAIN cache = {"vehicle", "cluster"}
    /\ cache.vehicle \in [Marked -> [status : Statuses \cup {"none"}, onScreen : BOOLEAN]]

\* What the source, the tiles and the cache hold, while nothing has changed since
\* they were made of each other.
SourceIsVisible == mapLoaded => source = Visible

TilesAreOfSource ==
    /\ \A x \in Marked : tiles.single[x] \in Statuses \cup {"none"}
    /\ mapLoaded /\ sourceLoaded =>
          \A x \in Marked : tiles.single[x] # "none" =>
              x \in tiles.seen /\ tiles.single[x] = source[x]

CacheIsOfTiles ==
    /\ fresh => mapLoaded /\ sourceLoaded
    /\ fresh => \A x \in OnMap :
                    tiles.single[x] # "none" /\ cache.vehicle[x].status = tiles.single[x]
    /\ ~mapLoaded => \A x \in Marked : cache.vehicle[x] = NoEntry

VisibleOnly == \A x \in Marked : cache.vehicle[x] # NoEntry => Visible[x] # "none"

ShownOk == displayed \in Fleet

MarkersInv ==
    CacheShape /\ ShownOk /\ SourceIsVisible /\ TilesAreOfSource /\ CacheIsOfTiles /\ VisibleOnly

\* Leaving the traced vehicle out leaves a fleet.
LEMMA VisibleInFleet ==
    ASSUME NEW d \in Fleet, NEW t PROVE VisibleVehicles(d, t) \in Fleet
BY DEF VisibleVehicles, Fleet

\* No marker has the shape of a marker.
LEMMA NoEntryShape == NoEntry \in [status : Statuses \cup {"none"}, onScreen : BOOLEAN]
BY DEF NoEntry

\* There is no map and no marker.
LEMMA MarkersInitInv == MarkersInit => MarkersInv
<1> SUFFICES ASSUME MarkersInit PROVE MarkersInv
  OBVIOUS
<1>1. cache.vehicle = [x \in Marked |-> NoEntry] /\ DOMAIN cache = {"vehicle", "cluster"}
  BY DEF MarkersInit, NoMarkers
<1>2. CacheShape /\ VisibleOnly BY <1>1, NoEntryShape DEF CacheShape, VisibleOnly
<1>3. ShownOk BY DEF MarkersInit, ShownOk, NoneShown, Fleet
<1>4. ~mapLoaded /\ ~fresh BY DEF MarkersInit
<1>5. \A x \in Marked : tiles.single[x] = "none" BY DEF MarkersInit, NoTiles, NoneShown
<1>6. SourceIsVisible /\ TilesAreOfSource /\ CacheIsOfTiles
  BY <1>1, <1>4, <1>5 DEF SourceIsVisible, TilesAreOfSource, CacheIsOfTiles
<1> QED BY <1>2, <1>3, <1>6 DEF MarkersInv

\* The effect that hands the vehicles on also removes the markers of the others.
LEMMA SourceEffectKeeps ==
    ASSUME MarkersInv, NEW d \in Fleet, NEW t, LiveSourceEffect(d, t),
           mapLoaded', displayed' = d, traced' = t
    PROVE  MarkersInv'
<1> DEFINE vis == VisibleVehicles(d, t)
<1>1. /\ source' = vis /\ sourceLoaded' = FALSE /\ fresh' = FALSE /\ tiles' = tiles
      /\ cache' = [cache EXCEPT !.vehicle =
                     [x \in Marked |-> IF vis[x] = "none" THEN NoEntry ELSE @[x]]]
  BY DEF LiveSourceEffect, PruneLiveMarkers
<1>2. Visible' = vis BY DEF Visible, VisibleVehicles
<1> HIDE DEF vis
<1>3. /\ DOMAIN cache' = {"vehicle", "cluster"}
      /\ cache'.vehicle = [x \in Marked |-> IF vis[x] = "none" THEN NoEntry ELSE cache.vehicle[x]]
  BY <1>1 DEF MarkersInv, CacheShape
<1>4. CacheShape' BY <1>3, NoEntryShape DEF MarkersInv, CacheShape
<1>5. VisibleOnly' BY <1>2, <1>3 DEF VisibleOnly
<1>6. SourceIsVisible' BY <1>1, <1>2 DEF SourceIsVisible
<1>7. TilesAreOfSource' BY <1>1 DEF MarkersInv, TilesAreOfSource
<1>8. CacheIsOfTiles' BY <1>1 DEF CacheIsOfTiles
<1> QED BY <1>4, <1>5, <1>6, <1>7, <1>8 DEF MarkersInv, ShownOk

\* The chain from the vehicles through source and tiles to the markers holds.
LEMMA MarkersStep == MarkersInv /\ [MarkersNext]_markersVars => MarkersInv'
<1> SUFFICES ASSUME MarkersInv, [MarkersNext]_markersVars PROVE MarkersInv'
  OBVIOUS
<1> USE DEF mapbox
<1>1. ASSUME NEW d \in Given, NEW t \in Marked \cup {NoMark}, VehiclesGiven(d, t) PROVE MarkersInv'
  <2>1. d \in Fleet BY MarkersAssumption DEF Fleet, Statuses
  <2>2. displayed' = d /\ traced' = t /\ mapLoaded' = mapLoaded BY <1>1 DEF VehiclesGiven
  <2>3. CASE mapLoaded
    <3>1. LiveSourceEffect(d, t) BY <1>1, <2>3 DEF VehiclesGiven
    <3> QED BY <2>1, <2>2, <2>3, <3>1, SourceEffectKeeps
  <2>4. CASE ~mapLoaded
    <3>1. UNCHANGED <<source, sourceLoaded, tiles, cache, fresh>>
      BY <1>1, <2>4 DEF VehiclesGiven
    <3>2. CacheShape' /\ ShownOk' BY <2>1, <2>2, <3>1 DEF MarkersInv, CacheShape, ShownOk
    <3>3. SourceIsVisible' BY <2>2, <2>4 DEF SourceIsVisible
    <3>4. TilesAreOfSource' BY <2>2, <2>4, <3>1 DEF MarkersInv, TilesAreOfSource
    <3>5. CacheIsOfTiles' /\ VisibleOnly'
      BY <2>2, <2>4, <3>1 DEF MarkersInv, CacheIsOfTiles, VisibleOnly
    <3> QED BY <3>2, <3>3, <3>4, <3>5 DEF MarkersInv
  <2> QED BY <2>3, <2>4
<1>2. CASE MapboxLoads
  BY <1>2, SourceEffectKeeps DEF MapboxLoads, MarkersInv, ShownOk
<1>3. CASE CameraMoves
  <2> USE <1>3 DEF CameraMoves, MarkersInv
  <2>1. Visible' = Visible BY DEF Visible, VisibleVehicles
  <2>2. CacheShape' /\ ShownOk' BY DEF CacheShape, ShownOk
  <2>3. SourceIsVisible' BY <2>1 DEF SourceIsVisible
  <2>4. TilesAreOfSource' BY DEF TilesAreOfSource
  <2>5. CacheIsOfTiles' BY DEF CacheIsOfTiles
  <2>6. VisibleOnly' BY <2>1 DEF VisibleOnly
  <2> QED BY <2>2, <2>3, <2>4, <2>5, <2>6
<1>4. CASE TilesReady
  <2>1. /\ mapLoaded /\ ~sourceLoaded /\ fresh' = FALSE
        /\ UNCHANGED <<mapLoaded, displayed, traced, source, cache>>
    BY <1>4 DEF TilesReady
  <2>2. PICK seen, member, group :
           tiles' = [single |-> [x \in Marked |->
                                   IF x \in {y \in seen : member[y] = NoMark} THEN source[x] ELSE "none"],
                     group |-> group, seen |-> seen]
    BY <1>4 DEF TilesReady
  <2>3. /\ tiles'.seen = seen
        /\ tiles'.single = [x \in Marked |->
                              IF x \in {y \in seen : member[y] = NoMark} THEN source[x] ELSE "none"]
    BY <2>2
  <2>4. source \in Fleet
    BY <2>1, VisibleInFleet DEF MarkersInv, SourceIsVisible, Visible, ShownOk
  <2>5. TilesAreOfSource' BY <2>1, <2>3, <2>4 DEF TilesAreOfSource, Fleet
  <2>6. Visible' = Visible BY <2>1 DEF Visible, VisibleVehicles
  <2>7. CacheShape' /\ ShownOk' BY <2>1 DEF MarkersInv, CacheShape, ShownOk
  <2>8. SourceIsVisible' /\ VisibleOnly'
    BY <2>1, <2>6 DEF MarkersInv, SourceIsVisible, VisibleOnly
  <2>9. CacheIsOfTiles' BY <2>1 DEF CacheIsOfTiles
  <2> QED BY <2>5, <2>7, <2>8, <2>9 DEF MarkersInv
<1>5. CASE RenderFrame
  <2>1. /\ mapLoaded /\ sourceLoaded /\ UNCHANGED <<mapLoaded, displayed, traced, source, sourceLoaded, tiles>>
    BY <1>5 DEF RenderFrame
  <2> DEFINE vehicle == [x \in Marked |->
                           IF tiles.single[x] # "none"
                             THEN [status |-> tiles.single[x], onScreen |-> TRUE]
                             ELSE [status |-> cache.vehicle[x].status, onScreen |-> FALSE]]
  <2>2. cache' = [vehicle |-> vehicle, cluster |-> tiles.group]
    BY <1>5 DEF RenderFrame, ReconcileLiveMarkers
  <2>3. cache'.vehicle = vehicle /\ DOMAIN cache' = {"vehicle", "cluster"} BY <2>2
  <2>4. ASSUME NEW x \in Marked
        PROVE  /\ vehicle[x] \in [status : Statuses \cup {"none"}, onScreen : BOOLEAN]
               /\ vehicle[x].onScreen => tiles.single[x] # "none" /\ vehicle[x].status = tiles.single[x]
               /\ vehicle[x] # NoEntry => Visible[x] # "none"
    <3>1. CASE tiles.single[x] # "none"
      <4>1. vehicle[x] = [status |-> tiles.single[x], onScreen |-> TRUE] BY <3>1
      <4>2. tiles.single[x] \in Statuses /\ Visible[x] = tiles.single[x]
        BY <2>1, <3>1 DEF MarkersInv, TilesAreOfSource, SourceIsVisible
      <4> HIDE DEF vehicle
      <4> QED BY <3>1, <4>1, <4>2
    <3>2. CASE tiles.single[x] = "none"
      <4>1. vehicle[x] = [status |-> cache.vehicle[x].status, onScreen |-> FALSE] BY <3>2
      <4>2. cache.vehicle[x] \in [status : Statuses \cup {"none"}, onScreen : BOOLEAN]
        BY DEF MarkersInv, CacheShape
      <4>3. vehicle[x] \in [status : Statuses \cup {"none"}, onScreen : BOOLEAN]
            /\ vehicle[x].onScreen = FALSE
        BY <4>1, <4>2
      <4>4. ASSUME cache.vehicle[x] = NoEntry PROVE vehicle[x] = NoEntry
        <5>1. cache.vehicle[x].status = "none" BY <4>4 DEF NoEntry
        <5> QED BY <4>1, <5>1 DEF NoEntry
      <4> HIDE DEF vehicle
      <4> QED BY <4>3, <4>4 DEF MarkersInv, VisibleOnly
    <3> QED BY <3>1, <3>2
  <2>5. DOMAIN vehicle = Marked /\ vehicle = [x \in Marked |-> vehicle[x]] OBVIOUS
  <2> HIDE DEF vehicle
  <2>6. Visible' = Visible BY <2>1 DEF Visible, VisibleVehicles
  <2>7. CacheShape' BY <2>3, <2>4, <2>5 DEF CacheShape
  <2>8. ShownOk' BY <2>1 DEF MarkersInv, ShownOk
  <2>9. SourceIsVisible' BY <2>1, <2>6 DEF MarkersInv, SourceIsVisible
  <2>10. TilesAreOfSource' BY <2>1 DEF MarkersInv, TilesAreOfSource
  <2>11. CacheIsOfTiles' BY <2>1, <2>3, <2>4 DEF CacheIsOfTiles, OnMap
  <2>12. VisibleOnly' BY <2>3, <2>4, <2>6 DEF VisibleOnly
  <2> QED BY <2>7, <2>8, <2>9, <2>10, <2>11, <2>12 DEF MarkersInv
<1>6. CASE MapLeaves
  <2>1. /\ mapLoaded' = FALSE /\ fresh' = FALSE /\ displayed' = NoneShown
        /\ cache' = NoMarkers /\ tiles' = NoTiles
    BY <1>6 DEF MapLeaves
  <2>2. cache'.vehicle = [x \in Marked |-> NoEntry] /\ DOMAIN cache' = {"vehicle", "cluster"}
    BY <2>1 DEF NoMarkers
  <2>3. CacheShape' /\ VisibleOnly' BY <2>2, NoEntryShape DEF CacheShape, VisibleOnly
  <2>4. ShownOk' BY <2>1 DEF ShownOk, NoneShown, Fleet
  <2>5. \A x \in Marked : tiles'.single[x] = "none" BY <2>1 DEF NoTiles, NoneShown
  <2>6. SourceIsVisible' /\ TilesAreOfSource' /\ CacheIsOfTiles'
    BY <2>1, <2>2, <2>5 DEF SourceIsVisible, TilesAreOfSource, CacheIsOfTiles
  <2> QED BY <2>3, <2>4, <2>6 DEF MarkersInv
<1>7. CASE UNCHANGED markersVars
  <2> USE <1>7 DEF markersVars, MarkersInv
  <2>1. Visible' = Visible BY DEF Visible, VisibleVehicles
  <2>2. CacheShape' /\ ShownOk' BY DEF CacheShape, ShownOk
  <2>3. SourceIsVisible' BY <2>1 DEF SourceIsVisible
  <2>4. TilesAreOfSource' BY DEF TilesAreOfSource
  <2>5. CacheIsOfTiles' BY DEF CacheIsOfTiles, OnMap
  <2>6. VisibleOnly' BY <2>1 DEF VisibleOnly
  <2> QED BY <2>2, <2>3, <2>4, <2>5, <2>6
<1> QED BY <1>1, <1>2, <1>3, <1>4, <1>5, <1>6, <1>7 DEF MarkersNext

\* No marker is of a vehicle that is not shown or of another status, for any
\* number of vehicles and groups (map-markers.tsx:207-266, map-view.tsx:375-437).
THEOREM MarkersStayOfVehicles == MarkersSpec => []MarkersAreOfVehicles
<1>1. MarkersInv => MarkersAreOfVehicles
  BY DEF MarkersInv, SourceIsVisible, TilesAreOfSource, CacheIsOfTiles, VisibleOnly, OnMap,
         MarkersAreOfVehicles
<1> QED BY <1>1, MarkersInitInv, MarkersStep, PTL DEF MarkersSpec

-------------------------------------------------------------------------------
(* The types of the markers *)

\* As many of the vehicles as there are have any property.
LEMMA CountIsSize ==
    ASSUME NEW S \in SUBSET Marked PROVE IsFiniteSet(S) /\ Cardinality(S) \in Sizes
<1>1. IsFiniteSet(S) /\ Cardinality(S) \in Nat /\ Cardinality(S) <= Cardinality(Marked)
  BY FS_Subset, FS_CardinalityType, MarkersAssumption
<1>2. Cardinality(Marked) \in Nat BY FS_CardinalityType, MarkersAssumption
<1> QED BY <1>1, <1>2 DEF Sizes

\* Nothing has the shape of tiles and of markers.
LEMMA NothingTypes ==
    /\ NoneShown \in Fleet /\ NoTiles \in [single : Fleet, group : Groups, seen : SUBSET Marked]
    /\ NoMarkers \in [vehicle : [Marked -> [status : Statuses \cup {"none"}, onScreen : BOOLEAN]],
                      cluster : Groups]
<1>1. 0 \in Sizes BY CountIsSize, FS_EmptySet
<1>2. NoGroup \in [count : Sizes, driving : Sizes] BY <1>1 DEF NoGroup
<1>3. [g \in ClusterIds |-> NoGroup] \in Groups BY <1>2 DEF Groups
<1>4. NoneShown \in Fleet BY DEF NoneShown, Fleet
<1>5. [x \in Marked |-> NoEntry] \in [Marked -> [status : Statuses \cup {"none"}, onScreen : BOOLEAN]]
  BY NoEntryShape
<1> QED BY <1>3, <1>4, <1>5 DEF NoTiles, NoMarkers

\* The effect that hands the vehicles on keeps the types.
LEMMA SourceEffectTypes ==
    ASSUME MarkersTypeOK, NEW d \in Fleet, NEW t \in Marked \cup {NoMark}, LiveSourceEffect(d, t),
           mapLoaded' \in BOOLEAN, displayed' = d, traced' = t
    PROVE  MarkersTypeOK'
<1> DEFINE vis == VisibleVehicles(d, t)
           vehicle == [x \in Marked |-> IF vis[x] = "none" THEN NoEntry ELSE cache.vehicle[x]]
<1>1. vis \in Fleet BY VisibleInFleet
<1>2. /\ source' = vis /\ sourceLoaded' = FALSE /\ fresh' = FALSE /\ tiles' = tiles
      /\ cache' = [cache EXCEPT !.vehicle = vehicle]
  BY DEF LiveSourceEffect, PruneLiveMarkers
<1>3. vehicle \in [Marked -> [status : Statuses \cup {"none"}, onScreen : BOOLEAN]]
  BY NoEntryShape DEF MarkersTypeOK
<1> HIDE DEF vehicle, vis
<1>4. cache' \in [vehicle : [Marked -> [status : Statuses \cup {"none"}, onScreen : BOOLEAN]],
                  cluster : Groups]
  BY <1>2, <1>3 DEF MarkersTypeOK
<1> QED BY <1>1, <1>2, <1>4 DEF MarkersTypeOK

\* Every step keeps the types; no group counts more vehicles than there are.
LEMMA MarkersTypeStep == MarkersTypeOK /\ [MarkersNext]_markersVars => MarkersTypeOK'
<1> SUFFICES ASSUME MarkersTypeOK, [MarkersNext]_markersVars PROVE MarkersTypeOK'
  OBVIOUS
<1> USE DEF mapbox
<1>1. ASSUME NEW d \in Given, NEW t \in Marked \cup {NoMark}, VehiclesGiven(d, t)
      PROVE  MarkersTypeOK'
  <2>1. d \in Fleet BY MarkersAssumption DEF Fleet, Statuses
  <2>2. CASE mapLoaded
    <3>1. LiveSourceEffect(d, t) /\ displayed' = d /\ traced' = t /\ mapLoaded' \in BOOLEAN
      BY <1>1, <2>2 DEF VehiclesGiven, MarkersTypeOK
    <3> QED BY <2>1, <3>1, SourceEffectTypes
  <2>3. CASE ~mapLoaded
    BY <1>1, <2>1, <2>3 DEF VehiclesGiven, MarkersTypeOK
  <2> QED BY <2>2, <2>3
<1>2. CASE MapboxLoads BY <1>2, SourceEffectTypes DEF MapboxLoads, MarkersTypeOK
<1>3. CASE CameraMoves BY <1>3 DEF CameraMoves, MarkersTypeOK
<1>4. CASE TilesReady
  <2>1. PICK seen \in SUBSET {x \in Marked : source[x] # "none"},
             member \in [Marked -> ClusterIds \cup {NoMark}] :
           tiles' = [single |-> [x \in Marked |->
                                   IF x \in {y \in seen : member[y] = NoMark} THEN source[x] ELSE "none"],
                     group |-> [g \in ClusterIds |->
                                  [count |-> Cardinality({x \in seen : member[x] = g}),
                                   driving |-> Cardinality({x \in {y \in seen : member[y] = g} :
                                                              source[x] = "driving"})]],
                     seen |-> seen]
    BY <1>4 DEF TilesReady
  <2> DEFINE single == [x \in Marked |->
                          IF x \in {y \in seen : member[y] = NoMark} THEN source[x] ELSE "none"]
             group == [g \in ClusterIds |->
                         [count |-> Cardinality({x \in seen : member[x] = g}),
                          driving |-> Cardinality({x \in {y \in seen : member[y] = g} :
                                                     source[x] = "driving"})]]
  <2>2. single \in Fleet BY DEF MarkersTypeOK, Fleet
  <2>3. ASSUME NEW g \in ClusterIds PROVE group[g] \in [count : Sizes, driving : Sizes]
    <3>1. Cardinality({x \in seen : member[x] = g}) \in Sizes BY CountIsSize
    <3>2. Cardinality({x \in {y \in seen : member[y] = g} : source[x] = "driving"}) \in Sizes
      BY CountIsSize
    <3> QED BY <3>1, <3>2
  <2>4. group \in Groups BY <2>3 DEF Groups
  <2> HIDE DEF single, group
  <2>5. tiles' = [single |-> single, group |-> group, seen |-> seen] BY <2>1 DEF single, group
  <2>6. tiles' \in [single : Fleet, group : Groups, seen : SUBSET Marked] BY <2>2, <2>4, <2>5
  <2> QED BY <1>4, <2>6 DEF TilesReady, MarkersTypeOK
<1>5. CASE RenderFrame
  <2> DEFINE vehicle == [x \in Marked |->
                           IF tiles.single[x] # "none"
                             THEN [status |-> tiles.single[x], onScreen |-> TRUE]
                             ELSE [status |-> cache.vehicle[x].status, onScreen |-> FALSE]]
  <2>1. vehicle \in [Marked -> [status : Statuses \cup {"none"}, onScreen : BOOLEAN]]
    BY DEF MarkersTypeOK, Fleet
  <2>2. cache' = [vehicle |-> vehicle, cluster |-> tiles.group]
    BY <1>5 DEF RenderFrame, ReconcileLiveMarkers
  <2> HIDE DEF vehicle
  <2> QED BY <1>5, <2>1, <2>2 DEF RenderFrame, MarkersTypeOK
<1>6. CASE MapLeaves BY <1>6, NothingTypes DEF MapLeaves, MarkersTypeOK
<1>7. CASE UNCHANGED markersVars BY <1>7 DEF markersVars, MarkersTypeOK
<1> QED BY <1>1, <1>2, <1>3, <1>4, <1>5, <1>6, <1>7 DEF MarkersNext

\* What the markers are made of keeps its type.
THEOREM MarkersTypes == MarkersSpec => []MarkersTypeOK
<1>1. MarkersInit => MarkersTypeOK BY NothingTypes DEF MarkersInit, MarkersTypeOK
<1> QED BY <1>1, MarkersTypeStep, PTL DEF MarkersSpec

-------------------------------------------------------------------------------
(* The counts of the groups *)

\* What h gives for a set of S grows by f of each element.
AddsUp(h, f, S) ==
    /\ h \in [SUBSET S -> Int] /\ h[{}] = 0
    /\ \A s \in SUBSET S : \A x \in s : h[s] = f[x] + h[s \ {x}]

\* The sum of a function on a finite set is any that adds up as sums do: a set of
\* least size where the two differ has an element the sum takes first.
LEMMA SumIsAnyThatAdds ==
    ASSUME NEW S, IsFiniteSet(S), NEW f, DOMAIN f = S, NEW h, AddsUp(h, f, S)
    PROVE  SumFunction(f) = h[S]
<1> USE DEF AddsUp
<1> DEFINE First(s) == CHOOSE x \in s : TRUE
           Rec(g) == g = [s \in SUBSET S |->
                            IF s = {} THEN 0
                            ELSE f[CHOOSE x \in s : TRUE] + g[s \ {CHOOSE x \in s : TRUE}]]
<1>1. SumFunction(f) = (CHOOSE g : Rec(g))[S]
  BY Zenon DEF SumFunction, SumFunctionOnSet, FoldFunctionOnSet, MapThenFoldSet
<1>2. ASSUME NEW s \in SUBSET S PROVE s = {} \/ First(s) \in s OBVIOUS
<1>3. ASSUME NEW s \in SUBSET S
      PROVE  h[s] = IF s = {} THEN 0 ELSE f[First(s)] + h[s \ {First(s)}]
  BY <1>2, <1>3
<1>4. Rec(h) BY <1>3
<1>5. PICK g : g = (CHOOSE j : Rec(j)) /\ Rec(g)
  <2> HIDE DEF Rec
  <2> QED BY <1>4
<1> DEFINE Differ == {s \in SUBSET S : g[s] # h[s]}
<1>6. SUFFICES ASSUME Differ # {} PROVE FALSE
  <2>1. S \in SUBSET S OBVIOUS
  <2>2. Differ = {} => g[S] = h[S] BY <2>1
  <2> HIDE DEF Rec, Differ
  <2> QED BY <1>1, <1>5, <2>2
<1>7. \A s \in Differ : s \in FiniteSubsetsOf(S) BY FS_Subset DEF FiniteSubsetsOf
<1>8. PICK s \in Differ : \A r \in Differ : <<r, s>> \notin StrictSubsetOrdering(S)
  <2> HIDE DEF Differ, Rec
  <2> QED BY <1>6, <1>7, FS_StrictSubsetOrderingWellFounded, WFMin
<1>9. s # {} BY <1>5, <1>4
<1>10. First(s) \in s /\ s \ {First(s)} \in SUBSET S BY <1>2, <1>9
<1>11. <<s \ {First(s)}, s>> \in StrictSubsetOrdering(S)
  BY <1>10 DEF StrictSubsetOrdering
<1>12. g[s \ {First(s)}] = h[s \ {First(s)}] BY <1>8, <1>10, <1>11
<1>13. g[s] = f[First(s)] + g[s \ {First(s)}]
  <2>1. g = [r \in SUBSET S |-> IF r = {} THEN 0
                                ELSE f[CHOOSE x \in r : TRUE] + g[r \ {CHOOSE x \in r : TRUE}]]
    BY <1>5
  <2>2. s \in SUBSET S OBVIOUS
  <2> QED BY <2>1, <2>2, <1>9
<1>14. h[s] = f[First(s)] + h[s \ {First(s)}] BY <1>3, <1>9
<1> QED BY <1>12, <1>13, <1>14

\* Two parts without a common element count as much as both together.
LEMMA PartsAddUp ==
    ASSUME NEW S \in SUBSET Marked, NEW T \in SUBSET Marked, S \cap T = {}
    PROVE  Cardinality(S \cup T) = Cardinality(S) + Cardinality(T)
<1>1. IsFiniteSet(S) /\ IsFiniteSet(T) BY FS_Subset, MarkersAssumption
<1>2. Cardinality(S) \in Nat /\ Cardinality(T) \in Nat BY <1>1, FS_CardinalityType
<1>3. Cardinality(S \cap T) = 0 BY FS_EmptySet
<1>4. Cardinality(S \cup T) = Cardinality(S) + Cardinality(T) - Cardinality(S \cap T)
  BY <1>1, FS_Union
<1> QED BY <1>2, <1>3, <1>4

\* Those on their own and those of every group are all there are.
LEMMA OwnAndGroupedAreAll ==
    ASSUME NEW T \in SUBSET Marked, NEW member \in [Marked -> ClusterIds \cup {NoMark}],
           NEW counted, DOMAIN counted = ClusterIds,
           \A g \in ClusterIds : counted[g] = Cardinality({x \in T : member[x] = g})
    PROVE  Cardinality({x \in T : member[x] = NoMark}) + SumFunction(counted) = Cardinality(T)
<1> DEFINE within == [s \in SUBSET ClusterIds |-> Cardinality({x \in T : member[x] \in s})]
<1>1. within[{}] = 0
  <2>1. {x \in T : member[x] \in {}} = {} OBVIOUS
  <2> QED BY <2>1, FS_EmptySet
<1>2. ASSUME NEW s \in SUBSET ClusterIds, NEW g \in s
      PROVE  within[s] = counted[g] + within[s \ {g}]
  <2> DEFINE these == {x \in T : member[x] = g}
             others == {x \in T : member[x] \in s \ {g}}
  <2>1. {x \in T : member[x] \in s} = these \cup others /\ these \cap others = {} OBVIOUS
  <2>2. Cardinality(these \cup others) = Cardinality(these) + Cardinality(others)
    BY <2>1, PartsAddUp
  <2>3. within[s] = Cardinality(these \cup others) /\ within[s \ {g}] = Cardinality(others)
    BY <2>1
  <2>4. counted[g] = Cardinality(these) OBVIOUS
  <2> QED BY <2>2, <2>3, <2>4
<1>3. SumFunction(counted) = within[ClusterIds]
  <2>1. within \in [SUBSET ClusterIds -> Int]
    <3>1. \A s \in SUBSET ClusterIds : Cardinality({x \in T : member[x] \in s}) \in Nat
      BY CountIsSize, FS_CardinalityType
    <3> QED BY <3>1
  <2> HIDE DEF within
  <2>2. \A s \in SUBSET ClusterIds : \A g \in s : within[s] = counted[g] + within[s \ {g}] BY <1>2
  <2>3. AddsUp(within, counted, ClusterIds) BY <1>1, <2>1, <2>2 DEF AddsUp
  <2> QED BY <2>3, SumIsAnyThatAdds, MarkersAssumption
<1> DEFINE own == {x \in T : member[x] = NoMark}
           grouped == {x \in T : member[x] \in ClusterIds}
<1>4. own \cup grouped = T /\ own \cap grouped = {} BY MarkersAssumption
<1>5. Cardinality(T) = Cardinality(own) + Cardinality(grouped) BY <1>4, PartsAddUp
<1>6. within[ClusterIds] = Cardinality(grouped) OBVIOUS
<1> QED BY <1>3, <1>5, <1>6

\* How the map has grouped the vehicles of the source that are in view.
GroupedBy(member) ==
    /\ tiles.seen \subseteq {x \in Marked : source[x] # "none"}
    /\ \A x \in Marked : tiles.single[x] =
          IF x \in tiles.seen /\ member[x] = NoMark THEN source[x] ELSE "none"
    /\ \A g \in ClusterIds :
          /\ tiles.group[g].count = Cardinality({x \in tiles.seen : member[x] = g})
          /\ tiles.group[g].driving =
               Cardinality({x \in tiles.seen : member[x] = g /\ source[x] = "driving"})

TilesAreGrouped ==
    mapLoaded /\ sourceLoaded => \E member \in [Marked -> ClusterIds \cup {NoMark}] : GroupedBy(member)

CacheHasGroups ==
    fresh => /\ cache.cluster = tiles.group
             /\ \A x \in Marked : cache.vehicle[x].onScreen <=> tiles.single[x] # "none"

GroupsInv == TilesAreGrouped /\ CacheHasGroups

\* The markers are those of the map's groups until the source or the tiles change.
LEMMA GroupsStep == GroupsInv /\ [MarkersNext]_markersVars => GroupsInv'
<1> SUFFICES ASSUME GroupsInv, [MarkersNext]_markersVars PROVE GroupsInv'
  OBVIOUS
<1> USE DEF mapbox
<1>1. ASSUME NEW d \in Given, NEW t \in Marked \cup {NoMark}, VehiclesGiven(d, t) PROVE GroupsInv'
  <2>1. CASE mapLoaded
    <3>1. sourceLoaded' = FALSE /\ fresh' = FALSE
      BY <1>1, <2>1 DEF VehiclesGiven, LiveSourceEffect
    <3> QED BY <3>1 DEF GroupsInv, TilesAreGrouped, CacheHasGroups
  <2>2. CASE ~mapLoaded
    <3>1. UNCHANGED <<mapLoaded, cache, fresh, tiles>> BY <1>1, <2>2 DEF VehiclesGiven
    <3> QED BY <2>2, <3>1 DEF GroupsInv, TilesAreGrouped, CacheHasGroups
  <2> QED BY <2>1, <2>2
<1>2. CASE MapboxLoads \/ CameraMoves
  <2>1. sourceLoaded' = FALSE /\ fresh' = FALSE
    BY <1>2 DEF MapboxLoads, CameraMoves, LiveSourceEffect
  <2> QED BY <2>1 DEF GroupsInv, TilesAreGrouped, CacheHasGroups
<1>3. CASE TilesReady
  <2>1. fresh' = FALSE /\ source' = source BY <1>3 DEF TilesReady
  <2>2. PICK seen \in SUBSET {x \in Marked : source[x] # "none"},
             member \in [Marked -> ClusterIds \cup {NoMark}] :
           tiles' = [single |-> [x \in Marked |->
                                   IF x \in {y \in seen : member[y] = NoMark} THEN source[x] ELSE "none"],
                     group |-> [g \in ClusterIds |->
                                  [count |-> Cardinality({x \in seen : member[x] = g}),
                                   driving |-> Cardinality({x \in {y \in seen : member[y] = g} :
                                                              source[x] = "driving"})]],
                     seen |-> seen]
    BY <1>3 DEF TilesReady
  <2>3. ASSUME NEW g \in ClusterIds
        PROVE  /\ tiles'.group[g].count = Cardinality({x \in seen : member[x] = g})
               /\ tiles'.group[g].driving =
                    Cardinality({x \in seen : member[x] = g /\ source[x] = "driving"})
    <3>1. {x \in {y \in seen : member[y] = g} : source[x] = "driving"}
            = {x \in seen : member[x] = g /\ source[x] = "driving"}
      OBVIOUS
    <3>2. tiles'.group[g] = [count |-> Cardinality({x \in seen : member[x] = g}),
                            driving |-> Cardinality({x \in {y \in seen : member[y] = g} :
                                                       source[x] = "driving"})]
      BY <2>2
    <3> QED BY <3>1, <3>2
  <2>4. tiles'.seen = seen /\ \A x \in Marked : tiles'.single[x] =
           IF x \in seen /\ member[x] = NoMark THEN source[x] ELSE "none"
    BY <2>2
  <2>5. GroupedBy(member)' BY <2>1, <2>3, <2>4 DEF GroupedBy
  <2> QED BY <2>1, <2>5 DEF GroupsInv, TilesAreGrouped, CacheHasGroups
<1>4. CASE RenderFrame
  <2>1. UNCHANGED <<mapLoaded, sourceLoaded, source, tiles>> BY <1>4 DEF RenderFrame
  <2>2. TilesAreGrouped' BY <2>1 DEF GroupsInv, TilesAreGrouped, GroupedBy
  <2> DEFINE vehicle == [x \in Marked |->
                           IF tiles.single[x] # "none"
                             THEN [status |-> tiles.single[x], onScreen |-> TRUE]
                             ELSE [status |-> cache.vehicle[x].status, onScreen |-> FALSE]]
  <2>3. cache' = [vehicle |-> vehicle, cluster |-> tiles.group]
    BY <1>4 DEF RenderFrame, ReconcileLiveMarkers
  <2>4. \A x \in Marked : vehicle[x].onScreen <=> tiles.single[x] # "none" OBVIOUS
  <2> HIDE DEF vehicle
  <2>5. cache'.vehicle = vehicle /\ cache'.cluster = tiles.group BY <2>3
  <2>6. CacheHasGroups' BY <2>1, <2>4, <2>5 DEF CacheHasGroups
  <2> QED BY <2>2, <2>6 DEF GroupsInv
<1>5. CASE MapLeaves
  BY <1>5 DEF MapLeaves, GroupsInv, TilesAreGrouped, CacheHasGroups
<1>6. CASE UNCHANGED markersVars
  <2> USE <1>6 DEF markersVars
  <2>1. TilesAreGrouped' BY DEF GroupsInv, TilesAreGrouped, GroupedBy
  <2>2. CacheHasGroups' BY DEF GroupsInv, CacheHasGroups
  <2> QED BY <2>1, <2>2 DEF GroupsInv
<1> QED BY <1>1, <1>2, <1>3, <1>4, <1>5, <1>6 DEF MarkersNext

\* After a frame every vehicle in view is on the map once, with any number of
\* vehicles and groups: the groups' counts add up to what is not a marker.
LEMMA FrameShowsEachOnce == MarkersTypeOK /\ MarkersInv /\ GroupsInv => EachIsOnMapOnce
<1> SUFFICES ASSUME MarkersTypeOK, MarkersInv, GroupsInv, fresh PROVE EachIsOnMapOnce
  BY DEF EachIsOnMapOnce
<1>1. mapLoaded /\ sourceLoaded /\ source = Visible
  BY DEF MarkersInv, CacheIsOfTiles, SourceIsVisible
<1>2. PICK member \in [Marked -> ClusterIds \cup {NoMark}] : GroupedBy(member)
  BY <1>1 DEF GroupsInv, TilesAreGrouped
<1>3. /\ cache.cluster = tiles.group
      /\ \A x \in Marked : cache.vehicle[x].onScreen <=> tiles.single[x] # "none"
  BY DEF GroupsInv, CacheHasGroups
<1> DEFINE moving == {x \in tiles.seen : source[x] = "driving"}
           parked == {x \in tiles.seen : source[x] = "stationary"}
           driving == [g \in ClusterIds |-> cache.cluster[g].driving]
           stationary == [g \in ClusterIds |-> cache.cluster[g].count - cache.cluster[g].driving]
<1>4. tiles.seen \in SUBSET Marked /\ moving \in SUBSET Marked /\ parked \in SUBSET Marked
  BY DEF MarkersTypeOK
<1>5. \A x \in tiles.seen : source[x] \in {"driving", "stationary"}
  BY <1>2, <1>4 DEF GroupedBy, MarkersTypeOK, Fleet, Statuses
<1>6. ASSUME NEW g \in ClusterIds
      PROVE  /\ driving[g] = Cardinality({x \in moving : member[x] = g})
             /\ stationary[g] = Cardinality({x \in parked : member[x] = g})
  <2> DEFINE movingHere == {x \in moving : member[x] = g}
             parkedHere == {x \in parked : member[x] = g}
  <2>1. {x \in tiles.seen : member[x] = g /\ source[x] = "driving"} = movingHere OBVIOUS
  <2>2. {x \in tiles.seen : member[x] = g} = movingHere \cup parkedHere
        /\ movingHere \cap parkedHere = {}
    BY <1>5
  <2>3. movingHere \in SUBSET Marked /\ parkedHere \in SUBSET Marked BY <1>4
  <2>4. tiles.group[g].driving = Cardinality(movingHere) BY <1>2, <2>1 DEF GroupedBy
  <2>5. tiles.group[g].count = Cardinality(movingHere \cup parkedHere)
    BY <1>2, <2>2 DEF GroupedBy
  <2>6. Cardinality(movingHere) \in Nat /\ Cardinality(parkedHere) \in Nat
    BY <2>3, CountIsSize, FS_CardinalityType
  <2> HIDE DEF movingHere, parkedHere
  <2>7. Cardinality(movingHere \cup parkedHere) = Cardinality(movingHere) + Cardinality(parkedHere)
    BY <2>2, <2>3, PartsAddUp
  <2>8. driving[g] = Cardinality(movingHere) /\ stationary[g] = Cardinality(parkedHere)
    BY <1>3, <2>4, <2>5, <2>6, <2>7
  <2> QED BY <2>8 DEF movingHere, parkedHere
<1>7. DOMAIN driving = ClusterIds /\ DOMAIN stationary = ClusterIds OBVIOUS
<1> HIDE DEF driving, stationary
<1>8. /\ Cardinality({x \in moving : member[x] = NoMark}) + SumFunction(driving) = Cardinality(moving)
      /\ Cardinality({x \in parked : member[x] = NoMark}) + SumFunction(stationary) = Cardinality(parked)
  <2> HIDE DEF moving, parked
  <2>1. \A g \in ClusterIds : driving[g] = Cardinality({x \in moving : member[x] = g}) BY <1>6
  <2>2. \A g \in ClusterIds : stationary[g] = Cardinality({x \in parked : member[x] = g}) BY <1>6
  <2>3. Cardinality({x \in moving : member[x] = NoMark}) + SumFunction(driving) = Cardinality(moving)
    BY <1>4, <1>7, <2>1, OwnAndGroupedAreAll
  <2>4. Cardinality({x \in parked : member[x] = NoMark}) + SumFunction(stationary) = Cardinality(parked)
    BY <1>4, <1>7, <2>2, OwnAndGroupedAreAll
  <2> QED BY <2>3, <2>4
<1>9. /\ {x \in OnMap : cache.vehicle[x].status = "driving"} = {x \in moving : member[x] = NoMark}
      /\ {x \in OnMap : cache.vehicle[x].status = "stationary"} = {x \in parked : member[x] = NoMark}
  <2>1. \A x \in OnMap : cache.vehicle[x].status = tiles.single[x] BY DEF MarkersInv, CacheIsOfTiles
  <2>2. OnMap = {x \in tiles.seen : member[x] = NoMark}
    BY <1>2, <1>3, <1>4, <1>5 DEF GroupedBy, OnMap
  <2>3. \A x \in OnMap : tiles.single[x] = source[x] BY <1>2, <1>4, <2>2 DEF GroupedBy
  <2> QED BY <2>1, <2>2, <2>3
<1> QED BY <1>1, <1>8, <1>9 DEF EachIsOnMapOnce, driving, stationary

\* The markers on the map stand for the vehicles that are shown, each once, for
\* any number of vehicles, groups and ways to group (map-markers.tsx:207-315,
\* map-view.tsx:375-437).
THEOREM MarkersAlwaysMatch == MarkersSpec => []MarkersMatchVehicles
<1>1. MarkersInit => GroupsInv BY DEF MarkersInit, GroupsInv, TilesAreGrouped, CacheHasGroups
<1>2. MarkersSpec => []GroupsInv BY <1>1, GroupsStep, PTL DEF MarkersSpec
<1>3. MarkersSpec => []MarkersInv BY MarkersInitInv, MarkersStep, PTL DEF MarkersSpec
<1>4. MarkersTypeOK /\ MarkersInv /\ GroupsInv /\ MarkersAreOfVehicles => MarkersMatchVehicles
  BY FrameShowsEachOnce DEF MarkersMatchVehicles
<1> QED BY <1>2, <1>3, <1>4, MarkersTypes, MarkersStayOfVehicles, PTL
===============================================================================

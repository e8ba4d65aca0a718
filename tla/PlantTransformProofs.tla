------------------------ MODULE PlantTransformProofs ------------------------
(* Theorems about a graph build: about the spreading of planes by itself,   *)
(* for every graph and every seeding, and about PlantTransform, for every   *)
(* plant.                                                                   *)
EXTENDS PlantTransform, SequenceTheorems, TLAPS

\* The units of the walk that is under way, and those of walks that are over.
Current == IF stage = "walk" THEN component \cup queue ELSE {}
Processed == seen \ Current

Alike(u, v) == \A S \in SUBSET Units : Closed(S) => (u \in S <=> v \in S)
Exact(u, p) ==
    members[u, p] = IF p \in seeded[u] THEN "native"
                    ELSE IF \E v \in Units : p \in seeded[v] /\ ConnectedIn(ClosedSets, u, v)
                         THEN "transit" ELSE "none"
Untouched(u, p) == members[u, p] = IF p \in seeded[u] THEN "native" ELSE "none"

CurrentSeen == Current \subseteq seen
CurrentAlike == \A u, v \in Current : Alike(u, v)
ComponentLeads == stage = "walk" => \A u \in component : Neighbors(u) \subseteq Current
ProcessedClosed == Closed(Processed)
ProcessedExact == \A u \in Processed, p \in Planes : Exact(u, p)
OthersUntouched == \A u \in Units \ Processed, p \in Planes : Untouched(u, p)
Finished == stage = "propagated" => Starts \subseteq seen

IInv ==
    /\ PropagationTypeOK
    /\ CurrentSeen
    /\ CurrentAlike
    /\ ComponentLeads
    /\ ProcessedClosed
    /\ ProcessedExact
    /\ OthersUntouched
    /\ Finished

LEMMA Symmetric == \A u, v \in Units : v \in Neighbors(u) <=> u \in Neighbors(v)
BY DEF Neighbors

LEMMA NeighborsAlike ==
  ASSUME NEW u \in Units, NEW v \in Neighbors(u)
  PROVE  v \in Units /\ Alike(u, v)
BY Symmetric DEF Alike, Closed, Neighbors

\* A set of units is closed if it has the neighbours of its units.
LEMMA ClosedIfNeighborsIn ==
  ASSUME links \subseteq Units \X Units, NEW S \in SUBSET Units, \A u \in S : Neighbors(u) \subseteq S
  PROVE  Closed(S)
<1> SUFFICES ASSUME NEW l \in links PROVE l[1] \in S <=> l[2] \in S
  BY DEF Closed
<1>1. l[1] \in Units /\ l[2] \in Units /\ <<l[1], l[2]>> \in links
  OBVIOUS
<1>2. l[2] \in Neighbors(l[1]) /\ l[1] \in Neighbors(l[2])
  BY <1>1 DEF Neighbors
<1> QED BY <1>2

\* A closed set whose units are alike is what each of them is connected with.
LEMMA ClosedAlikeConnected ==
  ASSUME links \subseteq Units \X Units, NEW C \in SUBSET Units, Closed(C), \A a, b \in C : Alike(a, b),
         NEW u \in C, NEW v \in Units
  PROVE  ConnectedIn(ClosedSets, u, v) <=> v \in C
<1>1. ASSUME v \in C PROVE ConnectedIn(ClosedSets, u, v)
  <2>1. Alike(u, v)
    BY <1>1
  <2>2. CASE u \in Linked
    BY <2>1, <2>2 DEF ConnectedIn, ClosedSets, Alike, Linked
  <2>3. CASE u \notin Linked
    <3>1. Closed({u})
      <4>1. Neighbors(u) = {}
        BY <2>3 DEF Linked
      <4> QED BY <4>1, ClosedIfNeighborsIn
    <3>2. v = u
      BY <3>1, <2>1 DEF Alike
    <3> QED BY <3>2 DEF ConnectedIn
  <2> QED BY <2>2, <2>3
<1>2. ASSUME ConnectedIn(ClosedSets, u, v) PROVE v \in C
  <2>1. CASE u = v
    BY <2>1
  <2>2. CASE u # v
    <3>1. u \in Linked /\ \A S \in ClosedSets : u \in S => v \in S
      BY <1>2, <2>2 DEF ConnectedIn, Linked
    <3>2. Closed(C \cap Linked)
      <4>1. \A a \in C : Neighbors(a) \subseteq C
        BY DEF Closed, Neighbors
      <4>2. \A a \in C : Neighbors(a) \subseteq Linked
        BY Symmetric DEF Linked, Neighbors
      <4> QED BY <4>1, <4>2, ClosedIfNeighborsIn
    <3>3. C \cap Linked \in ClosedSets
      BY <3>2 DEF ClosedSets
    <3> QED BY <3>1, <3>3
  <2> QED BY <2>1, <2>2
<1> QED BY <1>1, <1>2

LEMMA InitIInv == PropagationInit => IInv
<1> SUFFICES ASSUME PropagationInit PROVE IInv
  OBVIOUS
<1>1. PropagationTypeOK
  BY DEF PropagationInit, PropagationTypeOK, Roles
<1>2. Current = {} /\ Processed = {}
  BY DEF PropagationInit, Current, Processed
<1>3. CurrentSeen /\ CurrentAlike /\ ComponentLeads /\ ProcessedClosed /\ ProcessedExact /\ Finished
  BY <1>2 DEF PropagationInit, CurrentSeen, CurrentAlike, ComponentLeads, ProcessedClosed, Closed,
              ProcessedExact, Finished
<1>4. OthersUntouched
  BY DEF PropagationInit, OthersUntouched, Untouched
<1> QED BY <1>1, <1>3, <1>4 DEF IInv

\* What does not change when links and seeds do not.
LEMMA SameGraph ==
  ASSUME links' = links
  PROVE  /\ \A u : Neighbors(u)' = Neighbors(u)
         /\ Linked' = Linked
         /\ \A S : Closed(S)' = Closed(S)
         /\ ClosedSets' = ClosedSets
         /\ \A u, v : Alike(u, v)' = Alike(u, v)
         /\ \A sets, u, v : ConnectedIn(sets, u, v)' = ConnectedIn(sets, u, v)
BY DEF Neighbors, Linked, Closed, ClosedSets, Alike, ConnectedIn

LEMMA SameExact ==
  ASSUME links' = links, members' = members, seeded' = seeded
  PROVE  /\ \A u, p : Exact(u, p)' <=> Exact(u, p)
         /\ \A u, p : Untouched(u, p)' <=> Untouched(u, p)
BY SameGraph DEF Exact, Untouched

LEMMA SameProcessed ==
  ASSUME links' = links, members' = members, seeded' = seeded, Processed' = Processed,
         ProcessedClosed, ProcessedExact, OthersUntouched
  PROVE  ProcessedClosed' /\ ProcessedExact' /\ OthersUntouched'
<1>1. ProcessedClosed'
  BY SameGraph DEF ProcessedClosed
<1>2. ProcessedExact'
  BY SameExact DEF ProcessedExact
<1>3. OthersUntouched'
  BY SameExact DEF OthersUntouched
<1> QED BY <1>1, <1>2, <1>3

LEMMA StartKeeps ==
  ASSUME IInv, NEW u \in Units, StartComponent(u)
  PROVE  IInv'
<1> USE DEF IInv
<1>1. /\ stage = "idle" /\ u \in Starts \ seen
      /\ component' = {} /\ queue' = {u} /\ seen' = seen \cup {u} /\ stage' = "walk"
      /\ links' = links /\ members' = members /\ seeded' = seeded
  BY DEF StartComponent
<1>2. PropagationTypeOK'
  BY <1>1 DEF PropagationTypeOK
<1>3. Current' = {u} /\ Processed' = Processed /\ Processed = seen
  BY <1>1 DEF Current, Processed
<1>4. CurrentSeen' /\ ComponentLeads' /\ Finished'
  BY <1>1, <1>3 DEF CurrentSeen, ComponentLeads, Finished
<1>5. CurrentAlike'
  BY <1>3 DEF CurrentAlike, Alike
<1>6. ProcessedClosed' /\ ProcessedExact' /\ OthersUntouched'
  BY <1>1, <1>3, SameProcessed
<1> QED BY <1>2, <1>4, <1>5, <1>6

LEMMA VisitKeeps ==
  ASSUME IInv, NEW u \in Units, Visit(u)
  PROVE  IInv'
<1> USE DEF IInv
<1>1. /\ stage = "walk" /\ stage' = "walk" /\ u \in queue
      /\ component' = component \cup {u}
      /\ queue' = (queue \ {u}) \cup (Neighbors(u) \ seen)
      /\ seen' = seen \cup Neighbors(u)
      /\ links' = links /\ members' = members /\ seeded' = seeded
  BY DEF Visit
<1>2. PropagationTypeOK'
  BY <1>1 DEF PropagationTypeOK, Neighbors
<1>3. Current = component \cup queue /\ Current' = Current \cup (Neighbors(u) \ seen)
  BY <1>1 DEF Current
<1>4. Processed' = Processed
  BY <1>1, <1>3 DEF Processed, CurrentSeen
\* A unit of the walk has no neighbour among those of earlier walks.
<1>5. Neighbors(u) \subseteq Current'
  <2> SUFFICES ASSUME NEW v \in Neighbors(u), v \in seen, v \notin Current PROVE FALSE
    BY <1>3
  <2>1. v \in Processed
    BY DEF Processed
  <2>2. u \in Processed
    BY <2>1, Symmetric DEF ProcessedClosed, Closed, Neighbors
  <2> QED BY <2>2, <1>1, <1>3 DEF Processed
<1>6. CurrentSeen' /\ Finished'
  BY <1>1, <1>3 DEF CurrentSeen, Finished
<1>7. ComponentLeads'
  BY <1>1, <1>3, <1>5, SameGraph DEF ComponentLeads
<1>8. CurrentAlike'
  <2>1. \A v \in Current' : Alike(u, v)
    BY <1>1, <1>3, NeighborsAlike DEF CurrentAlike
  <2>2. \A v, w \in Current' : Alike(v, w)
    BY <2>1 DEF Alike
  <2> QED BY <2>2, <1>1, SameGraph DEF CurrentAlike
<1>9. ProcessedClosed' /\ ProcessedExact' /\ OthersUntouched'
  BY <1>1, <1>4, SameProcessed
<1> QED BY <1>2, <1>6, <1>7, <1>8, <1>9

LEMMA SpreadKeeps ==
  ASSUME IInv, SpreadPlanes
  PROVE  IInv'
<1> USE DEF IInv
<1>1. /\ stage = "walk" /\ queue = {} /\ stage' = "idle"
      /\ members' = [m \in Units \X Planes |-> SpreadOver(ComponentPlanes, m[1], m[2])]
      /\ links' = links /\ seeded' = seeded /\ seen' = seen /\ component' = component /\ queue' = queue
  BY DEF SpreadPlanes
<1>2. \A v \in Units, p \in Planes : members'[v, p] = SpreadOver(ComponentPlanes, v, p)
  BY <1>1
<1>3. PropagationTypeOK'
  BY <1>1 DEF PropagationTypeOK, SpreadOver, Roles
<1>4. /\ Current = component /\ Current' = {}
      /\ component \in SUBSET Units /\ component \subseteq seen
      /\ Processed = seen \ component /\ Processed' = seen
  BY <1>1 DEF Current, Processed, CurrentSeen, PropagationTypeOK
<1>5. Closed(component) /\ \A a, b \in component : Alike(a, b)
  BY <1>1, <1>4, ClosedIfNeighborsIn DEF ComponentLeads, CurrentAlike, PropagationTypeOK
<1>6. CurrentSeen' /\ CurrentAlike' /\ ComponentLeads' /\ Finished'
  BY <1>1, <1>4 DEF CurrentSeen, CurrentAlike, ComponentLeads, Finished
<1>7. ProcessedClosed'
  <2>1. Closed(seen)
    BY <1>4, <1>5 DEF ProcessedClosed, Closed
  <2> QED BY <2>1, <1>1, <1>4, SameGraph DEF ProcessedClosed
<1>8. ASSUME NEW v \in component, NEW p \in Planes PROVE Exact(v, p)'
  <2>1. v \in Units /\ v \notin Processed
    BY <1>4
  <2>2. Untouched(v, p)
    BY <2>1 DEF OthersUntouched
  <2>3. p \in ComponentPlanes <=> \E w \in Units : p \in seeded[w] /\ ConnectedIn(ClosedSets, v, w)
    BY <1>4, <1>5, <2>1, ClosedAlikeConnected DEF ComponentPlanes, PropagationTypeOK
  <2>4. members'[v, p] = IF p \in seeded[v] THEN "native"
                         ELSE IF p \in ComponentPlanes THEN "transit" ELSE "none"
    BY <1>2, <2>1, <2>2 DEF Untouched, SpreadOver
  <2> QED BY <2>3, <2>4, <1>1, SameGraph DEF Exact
<1>9. ASSUME NEW v \in Units \ component, NEW p \in Planes PROVE members'[v, p] = members[v, p]
  BY <1>2, <1>9 DEF SpreadOver
<1>10. ProcessedExact'
  <2> SUFFICES ASSUME NEW v \in seen, NEW p \in Planes PROVE Exact(v, p)'
    BY <1>4 DEF ProcessedExact
  <2>1. CASE v \in component
    BY <2>1, <1>8
  <2>2. CASE v \notin component
    <3>1. v \in Units /\ v \in Processed
      BY <2>2, <1>4 DEF PropagationTypeOK
    <3>2. Exact(v, p)
      BY <3>1 DEF ProcessedExact
    <3>3. members'[v, p] = members[v, p]
      BY <3>1, <2>2, <1>9
    <3>4. (\E w \in Units : p \in seeded[w] /\ ConnectedIn(ClosedSets, v, w))'
            <=> \E w \in Units : p \in seeded[w] /\ ConnectedIn(ClosedSets, v, w)
      BY <1>1, SameGraph
    <3> QED BY <3>2, <3>3, <3>4, <1>1 DEF Exact
  <2> QED BY <2>1, <2>2
<1>11. OthersUntouched'
  <2> SUFFICES ASSUME NEW v \in Units \ seen, NEW p \in Planes PROVE Untouched(v, p)'
    BY <1>4 DEF OthersUntouched
  <2>1. v \in Units \ component /\ v \in Units \ Processed
    BY <1>4
  <2>2. Untouched(v, p)
    BY <2>1 DEF OthersUntouched
  <2> QED BY <2>1, <2>2, <1>1, <1>9 DEF Untouched
<1> QED BY <1>3, <1>6, <1>7, <1>10, <1>11

LEMMA FinishKeeps ==
  ASSUME IInv, FinishPropagation
  PROVE  IInv'
<1> USE DEF IInv
<1>1. /\ stage = "idle" /\ stage' = "propagated" /\ Starts \subseteq seen
      /\ links' = links /\ members' = members /\ seeded' = seeded
      /\ seen' = seen /\ component' = component /\ queue' = queue
  BY DEF FinishPropagation
<1>2. Current' = Current /\ Processed' = Processed /\ Current = {}
  BY <1>1 DEF Current, Processed
<1>3. PropagationTypeOK' /\ CurrentSeen' /\ CurrentAlike' /\ ComponentLeads'
  BY <1>1, <1>2 DEF PropagationTypeOK, CurrentSeen, CurrentAlike, ComponentLeads
<1>4. Finished'
  BY <1>1, SameGraph DEF Finished, Starts
<1>5. ProcessedClosed' /\ ProcessedExact' /\ OthersUntouched'
  BY <1>1, <1>2, SameProcessed
<1> QED BY <1>3, <1>4, <1>5

LEMMA StutterKeeps == IInv /\ UNCHANGED propagation => IInv'
<1> SUFFICES ASSUME IInv, UNCHANGED propagation PROVE IInv'
  OBVIOUS
<1>1. /\ links' = links /\ members' = members /\ seeded' = seeded /\ seen' = seen
      /\ component' = component /\ queue' = queue /\ stage' = stage
  BY DEF propagation
<1>2. Current' = Current /\ Processed' = Processed
  BY <1>1 DEF Current, Processed
<1>3. PropagationTypeOK' /\ CurrentSeen' /\ Finished'
  BY <1>1, <1>2, SameGraph DEF IInv, PropagationTypeOK, CurrentSeen, Finished, Starts
<1>4. CurrentAlike' /\ ComponentLeads'
  BY <1>1, <1>2, SameGraph DEF IInv, CurrentAlike, ComponentLeads
<1> QED BY <1>1, <1>2, <1>3, <1>4, SameProcessed DEF IInv

LEMMA NextKeeps == IInv /\ [PropagationNext]_propagation => IInv'
BY StartKeeps, VisitKeeps, SpreadKeeps, FinishKeeps, StutterKeeps DEF PropagationNext

LEMMA IInvImpliesExact == IInv => PropagationExact
<1> SUFFICES ASSUME IInv, stage = "propagated", NEW u \in Units, NEW p \in Planes PROVE Exact(u, p)
  BY DEF PropagationExact, Exact
<1>1. CASE u \in seen
  BY <1>1 DEF IInv, Processed, Current, ProcessedExact
<1>2. CASE u \notin seen
  <2>1. Untouched(u, p)
    BY <1>2 DEF IInv, OthersUntouched, Processed
  <2>2. u \notin Linked /\ seeded[u] = {}
    BY <1>2 DEF IInv, Finished, Starts
  <2> QED BY <2>1, <2>2 DEF Untouched, Exact, ConnectedIn, Linked
<1> QED BY <1>1, <1>2

\* The walk over the components keeps its variables in their types.
THEOREM PropagationTypeCorrect == PropagationSpec => []PropagationTypeOK
<1>1. IInv => PropagationTypeOK
  BY DEF IInv
<1> QED BY <1>1, InitIInv, NextKeeps, PTL DEF PropagationSpec

\* Whatever the graph, the seeds and the order of the walk: when it is over,
\* planes have spread over exactly the connected units
\* (_propagate_plane_memberships).
THEOREM PlanesSpreadExactly == PropagationSpec => []PropagationExact
BY InitIInv, NextKeeps, IInvImpliesExact, PTL DEF PropagationSpec


-----------------------------------------------------------------------------
(* What a plant says of its units and edges *)

\* The positions of a termination are those IsPlant gives it.
LEMMA PositionsFound ==
  ASSUME IsPlant(plant), NEW t \in plant.terms
  PROVE  /\ \A n \in Positions(t) : OwnUnit(t, n) \in Units
         /\ Min(Positions(t)) \in Positions(t)
<1>1. plant.positions[t] \in Nat \ {0}
  BY DEF IsPlant
<1>2. Max({plant.positions[t], 1}) = plant.positions[t]
  BY <1>1 DEF Max
<1>3. CASE t.kind = "interface"
  <2>1. Positions(t) = {0}
    BY <1>3 DEF Positions
  <2>2. Min({0}) = 0
    BY DEF Min
  <2> QED BY <1>3, <2>1, <2>2 DEF IsPlant, OwnUnit
<1>4. CASE t.kind = "front_port"
  <2>1. Positions(t) = {1}
    BY <1>4 DEF Positions
  <2>2. Min({1}) = 1
    BY DEF Min
  <2> QED BY <1>4, <2>1, <2>2 DEF IsPlant, OwnUnit
<1>5. CASE t.kind # "interface" /\ t.kind # "front_port"
  <2>1. Positions(t) = 1..plant.positions[t]
    BY <1>5, <1>2 DEF Positions
  <2>2. Min(1..plant.positions[t]) \in 1..plant.positions[t]
    <3>1. 1 \in 1..plant.positions[t] /\ \A y \in 1..plant.positions[t] : 1 <= y
      BY <1>1
    <3> QED BY <3>1 DEF Min
  <2>3. \A n \in 1..plant.positions[t] : OwnUnit(t, n) \in Units
    BY <1>5 DEF IsPlant, OwnUnit
  <2> QED BY <2>1, <2>2, <2>3
<1> QED BY <1>3, <1>4, <1>5

\* What is found for a termination and a position is one of its units; only
\* for interfaces, and beyond the scope, nothing may be found.
LEMMA UnitFound ==
  ASSUME IsPlant(plant), NEW t \in plant.terms \cup plant.outer, NEW n
  PROVE  /\ UnitAt(t, n) \in Units \cup {NoUnit}
         /\ t \in plant.terms /\ t.kind # "interface" => UnitAt(t, n) \in Units
<1> DEFINE children == {c \in ChildrenOf(t) : n # 0 /\ ChildOrdinal(c) = n}
<1>1. CASE t \in plant.outer
  BY <1>1 DEF UnitAt, IsPlant
<1>2. CASE t \in plant.terms /\ children # {}
  <2>1. UnitAt(t, n) = ChildUnit(t, CHOOSE c \in children : TRUE)
    BY <1>2 DEF UnitAt, IsPlant
  <2>2. PICK c \in children : UnitAt(t, n) = ChildUnit(t, c)
    BY <1>2, <2>1
  <2>3. c \in plant.children /\ c.parent = t.pk
    BY DEF ChildrenOf
  <2> QED BY <1>2, <2>2, <2>3 DEF IsPlant, ChildUnit
<1>3. CASE t \in plant.terms /\ children = {} /\ n \in Positions(t)
  <2>1. UnitAt(t, n) = OwnUnit(t, n)
    BY <1>3 DEF UnitAt, IsPlant
  <2> QED BY <1>3, <2>1, PositionsFound
<1>4. CASE t \in plant.terms /\ children = {} /\ n \notin Positions(t)
  <2>1. UnitAt(t, n) = IF n = 0 \/ t.kind # "interface" THEN OwnUnit(t, Min(Positions(t))) ELSE NoUnit
    BY <1>4 DEF UnitAt, IsPlant
  <2> QED BY <1>4, <2>1, PositionsFound
<1> QED BY <1>1, <1>2, <1>3, <1>4

\* The edge of a cable between two units, and the edge of a port mapping.
Segment(e) == \E u, v \in Units : \E c : \E d \in BOOLEAN : e = Edge(u, v, c, "derived_cable_segment", d)
Passage(e) == \E m \in plant.mappings : e = PassthroughEdge(m) /\ TransferMap(m) \in transfers

LEMMA SegmentsJoinUnits ==
  ASSUME IsPlant(plant), NEW pairs, NEW c, NEW e,
         e \in Segments(pairs, c, TRUE) \/ e \in Segments(pairs, c, FALSE),
         \A q \in pairs : q[1] \in plant.terms \cup plant.outer /\ q[3] \in plant.terms \cup plant.outer
  PROVE  Segment(e) /\ e.via = c
<1>1. PICK q \in pairs : /\ \/ e = Edge(UnitAt(q[1], q[2]), UnitAt(q[3], q[4]), c, "derived_cable_segment", TRUE)
                            \/ e = Edge(UnitAt(q[1], q[2]), UnitAt(q[3], q[4]), c, "derived_cable_segment", FALSE)
                         /\ NoUnit \notin {UnitAt(q[1], q[2]), UnitAt(q[3], q[4])}
  BY DEF Segments
<1>2. UnitAt(q[1], q[2]) \in Units /\ UnitAt(q[3], q[4]) \in Units
  BY <1>1, UnitFound
<1>3. TRUE \in BOOLEAN /\ FALSE \in BOOLEAN
  OBVIOUS
<1>4. Segment(e)
  BY <1>1, <1>2, <1>3, Zenon DEF Segment
<1>5. e.via = c
  BY <1>1 DEF Edge
<1> QED BY <1>4, <1>5

LEMMA PlaceOf ==
  ASSUME NEW T, NEW p \in PlacesOf(T)
  PROVE  \E t \in T : \E n : p = <<t, n>>
BY DEF PlacesOf

LEMMA MappedPairsJoinSides ==
  ASSUME NEW map, NEW L, NEW R, NEW q \in MappedPairs(map, L, R)
  PROVE  q[1] \in L /\ q[3] \in R
<1>1. PICK l \in PlacesOf(L), r \in PlacesOf(R) : q = l \o r
  BY DEF MappedPairs
<1>2. PICK t \in L : \E n : l = <<t, n>>
  BY PlaceOf
<1>3. PICK n : l = <<t, n>>
  BY <1>2
<1>7. PICK s \in R : \E m : r = <<s, m>>
  BY PlaceOf
<1>8. PICK m : r = <<s, m>>
  BY <1>7
<1>4. l \in Seq({t, n, s, m}) /\ r \in Seq({t, n, s, m}) /\ l[1] = t /\ r[1] = s
  BY <1>3, <1>8
<1>6. Len(l) = 2 /\ Len(r) = 2
  BY <1>3, <1>8
<1>5. q[1] = l[1] /\ q[3] = r[1]
  <2>1. \A i \in 1..(Len(l) + Len(r)) : (l \o r)[i] = IF i <= Len(l) THEN l[i] ELSE r[i - Len(l)]
    BY <1>4, ConcatProperties
  <2>2. (l \o r)[1] = l[1]
    BY <2>1, <1>6
  <2>3. (l \o r)[3] = r[1]
    <3>1. 3 \in 1..(Len(l) + Len(r)) /\ ~(3 <= Len(l)) /\ 3 - Len(l) = 1
      BY <1>6
    <3>2. (l \o r)[3] = r[3 - Len(l)]
      BY <2>1, <3>1
    <3> QED BY <3>1, <3>2
  <2> QED BY <2>2, <2>3, <1>1
<1> QED BY <1>4, <1>5

LEMMA BreakoutPairsJoinSides ==
  ASSUME NEW b, NEW L, NEW R, NEW q \in BreakoutPairs(b, L, R)
  PROVE  q[1] \in L /\ q[3] \in R
<1> DEFINE from == UNION {{<<l, n>> : n \in {m \in RawPositions(b, l) : Mapped(b, m)}} : l \in L}
<1>1. PICK f \in from, r \in R : q[1] = f[1] /\ q[3] = r
  <2>1. CASE Cardinality(R) = 1
    BY <2>1 DEF BreakoutPairs
  <2>2. CASE Cardinality(R) # 1
    BY <2>2 DEF BreakoutPairs
  <2> QED BY <2>1, <2>2
<1>2. PICK l \in L : \E n : f = <<l, n>>
  OBVIOUS
<1> QED BY <1>1, <1>2

\* Every edge of a cable is such a segment, over that cable.
LEMMA CableEdgesJoinUnits ==
  ASSUME IsPlant(plant), NEW L \in SUBSET (plant.terms \cup plant.outer), NEW c,
         NEW R \in SUBSET (plant.terms \cup plant.outer), NEW e \in CableEdges(L, c, R)
  PROVE  Segment(e) /\ e.via = c
<1> DEFINE profile == MappedPairs(plant.cables[c].profile, L, R)
           assembly == MappedPairs(plant.cables[c].assembly, L, R)
           breakout == BreakoutPairs(plant.cables[c].breakout, L, R)
           identity == IdentityPairs(L, R)
<1> DEFINE Known(q) == q[1] \in plant.terms \cup plant.outer /\ q[3] \in plant.terms \cup plant.outer
<1>1. /\ \A q \in profile : Known(q)
      /\ \A q \in assembly : Known(q)
      /\ \A q \in breakout : Known(q)
  BY MappedPairsJoinSides, BreakoutPairsJoinSides
<1>2. \A q \in identity : Known(q)
  BY DEF IdentityPairs
<1>3. \/ e \in Segments(profile, c, TRUE) \/ e \in Segments(assembly, c, TRUE)
      \/ e \in Segments(breakout, c, TRUE) \/ e \in Segments(identity, c, FALSE)
  <2>1. CASE profile # {}
    BY <2>1 DEF CableEdges
  <2>2. CASE profile = {} /\ assembly # {}
    BY <2>2 DEF CableEdges
  <2>3. CASE profile \cup assembly = {} /\ breakout # {}
    BY <2>3 DEF CableEdges
  <2>4. CASE profile \cup assembly \cup breakout = {}
    BY <2>4 DEF CableEdges
  <2> QED BY <2>1, <2>2, <2>3, <2>4
<1> HIDE DEF profile, assembly, breakout, identity
<1>4. CASE e \in Segments(profile, c, TRUE)
  BY <1>1, <1>4, SegmentsJoinUnits
<1>5. CASE e \in Segments(assembly, c, TRUE)
  BY <1>1, <1>5, SegmentsJoinUnits
<1>6. CASE e \in Segments(breakout, c, TRUE)
  BY <1>1, <1>6, SegmentsJoinUnits
<1>7. CASE e \in Segments(identity, c, FALSE)
  BY <1>2, <1>7, SegmentsJoinUnits
<1> QED BY <1>3, <1>4, <1>5, <1>6, <1>7

\* Every edge of a path is a segment or a passage, whose transfer map the
\* path has too.
LEMMA PathEdgesJoinUnits ==
  ASSUME IsPlant(plant), NEW path \in plant.paths, NEW e \in PathEdges(path)
  PROVE  \/ Segment(e)
         \/ \E m \in plant.mappings : e = PassthroughEdge(m) /\ TransferMap(m) \in PathTransfers(path)
<1>1. path \in Seq([cable : DOMAIN plant.cables \cup {NoCable}, ends : SUBSET (plant.terms \cup plant.outer)])
  BY DEF IsPlant
<1> DEFINE Step == [cable : DOMAIN plant.cables \cup {NoCable}, ends : SUBSET (plant.terms \cup plant.outer)]
<1>a. path \in Seq(Step)
  BY <1>1
<1>b. \A x \in Step : x.ends \in SUBSET (plant.terms \cup plant.outer)
  OBVIOUS
<1>c. Len(path) \in Nat /\ \A i \in 1..Len(path) : path[i] \in Step
  <2> HIDE DEF Step
  <2> QED BY <1>a, ElementOfSeq, LenProperties
<1>2. Len(path) \in Nat /\ \A i \in 1..Len(path) : path[i].ends \in SUBSET (plant.terms \cup plant.outer)
  BY <1>b, <1>c
<1>3. ASSUME NEW i \in {j \in 2..(Len(path) - 1) : IsCable(path[j])},
             e \in CableEdges(path[i - 1].ends, path[i].cable, path[i + 1].ends)
      PROVE  Segment(e)
  <2>1. i - 1 \in 1..Len(path) /\ i + 1 \in 1..Len(path)
    BY <1>2
  <2> QED BY <2>1, <1>2, <1>3, CableEdgesJoinUnits
<1>4. ASSUME NEW i \in 1..(Len(path) - 1), NEW m \in Crossed(path[i].ends, path[i + 1].ends), e = PassthroughEdge(m)
      PROVE  m \in plant.mappings /\ e = PassthroughEdge(m) /\ TransferMap(m) \in PathTransfers(path)
  BY <1>4 DEF Crossed, PathTransfers
<1> DEFINE cabled == {j \in 2..(Len(path) - 1) : IsCable(path[j])}
           crossed == UNION {Crossed(path[i].ends, path[i + 1].ends) : i \in 1..(Len(path) - 1)}
           ofCables == UNION {CableEdges(path[i - 1].ends, path[i].cable, path[i + 1].ends) : i \in cabled}
           ofMappings == {PassthroughEdge(m) : m \in crossed}
<1>5. e \in ofCables \/ e \in ofMappings
  <2>1. PathEdges(path) = ofCables \cup ofMappings
    BY Zenon DEF PathEdges
  <2> HIDE DEF ofCables, ofMappings
  <2> QED BY <2>1
<1>6. CASE e \in ofCables
  <2>1. PICK i \in cabled : e \in CableEdges(path[i - 1].ends, path[i].cable, path[i + 1].ends)
    <3> HIDE DEF cabled
    <3> QED BY <1>6
  <2> QED BY <2>1, <1>3
<1>7. CASE e \in ofMappings
  <2>1. PICK m \in crossed : e = PassthroughEdge(m)
    <3> HIDE DEF crossed
    <3> QED BY <1>7
  <2>2. PICK i \in 1..(Len(path) - 1) : m \in Crossed(path[i].ends, path[i + 1].ends)
    BY <2>1
  <2> QED BY <2>1, <2>2, <1>4
<1> QED BY <1>5, <1>6, <1>7

-----------------------------------------------------------------------------
(* The transformation: what holds between its steps *)

Gathering == stage \in {"extracted", "paths"}
Spreading == stage \in {"idle", "walk", "propagated"}

PlantExtracted == plant \in Plants
NothingSpread ==
    Gathering => /\ members \in [Units \X Planes -> {"none", "native"}]
                 /\ seen = {} /\ component = {} /\ queue = {}
SpreadExactly == Spreading => IInv
EdgesJoinUnits == \A e \in edges : Segment(e) \/ Passage(e)
TransfersMapped == \A t \in transfers : \E m \in plant.mappings : t = TransferMap(m)
PathsWalked ==
    /\ todo \subseteq plant.paths
    /\ ~Gathering => todo = {}
    /\ \A e \in edges : \E path \in plant.paths \ todo : e \in PathEdges(path)
    /\ \A path \in plant.paths \ todo : \A e \in PathEdges(path) : \E f \in edges : SameKey(e, f)
LinksAdjacent == ~Gathering => links = Adjacency
LanesEqual == \A l \in links : lanes[l[1]] = lanes[l[2]]
JoinedEnds == {e.ends : e \in {f \in edges : f.kind = "derived_cable_segment"}} \cup {{t.src, t.dst} : t \in transfers}
LanesMaterialized ==
    stage \in {"lanes", "built"} => LanesEqual /\ laneLinks = UNION {LanesJoined(ends, lanes) : ends \in JoinedEnds}
KeysResolved == stage = "built" => Named \subseteq AttachmentUnits

TInv ==
    /\ PlantExtracted
    /\ NothingSpread
    /\ SpreadExactly
    /\ EdgesJoinUnits
    /\ TransfersMapped
    /\ PathsWalked
    /\ LinksAdjacent
    /\ LanesMaterialized
    /\ KeysResolved

\* What is read of the plant does not change while the plant does not.
LEMMA SamePlant ==
  ASSUME plant' = plant
  PROVE  /\ \A t, n : UnitAt(t, n)' = UnitAt(t, n)
         /\ \A m : PassthroughEdge(m)' = PassthroughEdge(m)
         /\ AttachmentUnits' = AttachmentUnits
<1>1. \A t : ChildrenOf(t)' = ChildrenOf(t)
  BY DEF ChildrenOf
<1>2. \A t : Positions(t)' = Positions(t)
  BY DEF Positions
<1>3. \A c : ChildOrdinal(c)' = ChildOrdinal(c)
  BY DEF ChildOrdinal
<1>4. \A t, n : UnitAt(t, n)' = UnitAt(t, n)
  BY <1>1, <1>2, <1>3 DEF UnitAt
<1>5. \A m : PassthroughEdge(m)' = PassthroughEdge(m)
  BY <1>4 DEF PassthroughEdge
<1>6. OwnUnits' = OwnUnits
  BY <1>2 DEF OwnUnits
<1>7. ChildUnits' = ChildUnits
  BY <1>1 DEF ChildUnits
<1> QED BY <1>4, <1>5, <1>6, <1>7 DEF AttachmentUnits

LEMMA SamePathEdges ==
  ASSUME plant' = plant
  PROVE  \A path : PathEdges(path)' = PathEdges(path)
<1>1. \A t : PathPositions(t)' = PathPositions(t)
  BY DEF PathPositions, Positions
<1>2. \A T : PlacesOf(T)' = PlacesOf(T)
  BY <1>1 DEF PlacesOf
<1>3. \A map, L, R : MappedPairs(map, L, R)' = MappedPairs(map, L, R)
  BY <1>2 DEF MappedPairs
<1>4. \A b, t : RawPositions(b, t)' = RawPositions(b, t)
  BY <1>1 DEF RawPositions
<1>5. \A b, L, R : BreakoutPairs(b, L, R)' = BreakoutPairs(b, L, R)
  <2> TAKE b, L, R
  <2> DEFINE from == UNION {{<<l, n>> : n \in {m \in RawPositions(b, l) : Mapped(b, m)}} : l \in L}
             single == {q \in {<<f[1], f[2], r, OrdinalOf(b, f[2]) + 1>> : f \in from, r \in R} :
                          /\ NoUnit \notin {UnitAt(q[1], q[2]), UnitAt(q[3], q[4])}
                          /\ UnitAt(q[1], q[2]) # UnitAt(q[3], q[4])}
  <2>1. from' = from
    BY <1>4
  <2>2. single' = single
    <3> HIDE DEF from
    <3> QED BY <2>1, SamePlant
  <2>3. CASE b.count = 0
    BY <2>3 DEF BreakoutPairs
  <2>4. CASE b.count # 0 /\ Cardinality(R) = 1
    <3>1. BreakoutPairs(b, L, R) = single
      BY <2>4 DEF BreakoutPairs
    <3>2. BreakoutPairs(b, L, R)' = single'
      BY <2>4 DEF BreakoutPairs
    <3> QED BY <2>2, <3>1, <3>2
  <2>5. CASE b.count # 0 /\ Cardinality(R) # 1
    BY <2>1, <2>5 DEF BreakoutPairs
  <2> QED BY <2>3, <2>4, <2>5
<1>6. \A L, R : IdentityPairs(L, R)' = IdentityPairs(L, R)
  BY <1>2 DEF IdentityPairs, CanIdentityMap
<1>7. \A pairs, c : /\ Segments(pairs, c, TRUE)' = Segments(pairs, c, TRUE)
                    /\ Segments(pairs, c, FALSE)' = Segments(pairs, c, FALSE)
  BY SamePlant DEF Segments
<1>8. \A L, c, R : CableEdges(L, c, R)' = CableEdges(L, c, R)
  <2> TAKE L, c, R
  <2> DEFINE profile == MappedPairs(plant.cables[c].profile, L, R)
             assembly == MappedPairs(plant.cables[c].assembly, L, R)
             breakout == BreakoutPairs(plant.cables[c].breakout, L, R)
             identity == IdentityPairs(L, R)
  <2>1. profile' = profile /\ assembly' = assembly /\ breakout' = breakout /\ identity' = identity
    BY <1>3, <1>5, <1>6
  <2>2. PICK P, A, B, Id : P = profile /\ A = assembly /\ B = breakout /\ Id = identity
    OBVIOUS
  <2>3. CableEdges(L, c, R) = CASE P # {} -> Segments(P, c, TRUE)
                                [] P = {} /\ A # {} -> Segments(A, c, TRUE)
                                [] P \cup A = {} /\ B # {} -> Segments(B, c, TRUE)
                                [] OTHER -> Segments(Id, c, FALSE)
    BY <2>2 DEF CableEdges
  <2>4. CableEdges(L, c, R)' = CASE P # {} -> Segments(P, c, TRUE)'
                                 [] P = {} /\ A # {} -> Segments(A, c, TRUE)'
                                 [] P \cup A = {} /\ B # {} -> Segments(B, c, TRUE)'
                                 [] OTHER -> Segments(Id, c, FALSE)'
    BY <2>1, <2>2 DEF CableEdges
  <2> QED BY <2>3, <2>4, <1>7
<1>9. \A L, R : Crossed(L, R)' = Crossed(L, R)
  BY <1>1 DEF Crossed
<1> QED BY <1>8, <1>9, SamePlant DEF PathEdges

LEMMA TransformInitTInv == TransformInit => TInv
<1> SUFFICES ASSUME TransformInit PROVE TInv
  OBVIOUS
<1>1. /\ plant \in Plants /\ todo = plant.paths /\ edges = {} /\ transfers = {} /\ stage = "extracted"
      /\ members = [m \in Units \X Planes |-> "none"] /\ seen = {} /\ component = {} /\ queue = {}
  BY DEF TransformInit
<1>2. PlantExtracted /\ NothingSpread /\ SpreadExactly /\ EdgesJoinUnits /\ TransfersMapped
  BY <1>1 DEF PlantExtracted, NothingSpread, SpreadExactly, Spreading, EdgesJoinUnits, TransfersMapped
<1>3. PathsWalked
  BY <1>1 DEF PathsWalked, Gathering
<1>4. LinksAdjacent /\ LanesMaterialized /\ KeysResolved
  BY <1>1 DEF LinksAdjacent, LanesMaterialized, KeysResolved, Gathering
<1> QED BY <1>2, <1>3, <1>4 DEF TInv

\* What the gathered edges and transfer maps say stays so.
LEMMA GatheredStays ==
  ASSUME TInv, plant' = plant, edges' = edges, transfers' = transfers, todo' = todo
  PROVE  /\ PlantExtracted' /\ EdgesJoinUnits' /\ TransfersMapped'
         /\ Adjacency' = Adjacency /\ JoinedEnds' = JoinedEnds
         /\ (Gathering /\ ~Gathering' => todo = {}) => PathsWalked'
<1>1. PlantExtracted'
  BY DEF TInv, PlantExtracted
<1>2. EdgesJoinUnits'
  BY SamePlant DEF TInv, EdgesJoinUnits, Segment, Passage, TransferMap
<1>3. TransfersMapped'
  BY DEF TInv, TransfersMapped
<1>4. Adjacency' = Adjacency
  BY DEF Adjacency
<1>5. JoinedEnds' = JoinedEnds
  BY DEF JoinedEnds
<1>6. ASSUME Gathering /\ ~Gathering' => todo = {} PROVE PathsWalked'
  BY <1>6, SamePathEdges DEF TInv, PathsWalked, SameKey, FineKey
<1> QED BY <1>1, <1>2, <1>3, <1>4, <1>5, <1>6

LEMMA RecordKeeps == TInv /\ RecordMemberships => TInv'
<1> SUFFICES ASSUME TInv, RecordMemberships PROVE TInv'
  OBVIOUS
<1>1. /\ stage = "extracted" /\ stage' = "paths"
      /\ members' = [m \in Units \X Planes |-> IF m[1] \in AttachmentUnits /\ m[2] \in SeedPlanes(m[1]) THEN "native" ELSE "none"]
      /\ seen' = seen /\ component' = component /\ queue' = queue
      /\ plant' = plant /\ edges' = edges /\ transfers' = transfers /\ todo' = todo
  BY DEF RecordMemberships, transform
<1>2. PlantExtracted' /\ EdgesJoinUnits' /\ TransfersMapped' /\ PathsWalked'
  BY <1>1, GatheredStays DEF Gathering
<1>3. NothingSpread'
  BY <1>1 DEF TInv, NothingSpread, Gathering
<1>4. SpreadExactly' /\ LinksAdjacent' /\ LanesMaterialized' /\ KeysResolved'
  BY <1>1 DEF SpreadExactly, Spreading, LinksAdjacent, LanesMaterialized, KeysResolved, Gathering
<1> QED BY <1>2, <1>3, <1>4 DEF TInv

LEMMA WalkKeeps == ASSUME TInv, NEW path, WalkPath(path) PROVE TInv'
<1>1. /\ stage = "paths" /\ stage' = "paths" /\ path \in todo /\ todo' = todo \ {path}
      /\ edges' = edges \cup {e \in PathEdges(path) : \A f \in edges : ~SameKey(e, f)}
      /\ transfers' = transfers \cup PathTransfers(path)
      /\ plant' = plant /\ members' = members /\ seen' = seen /\ component' = component /\ queue' = queue
  BY DEF WalkPath, propagation, Adding
<1>2. IsPlant(plant) /\ path \in plant.paths
  BY <1>1, PlantsAreExtracted DEF TInv, PlantExtracted, PathsWalked
<1>3. PlantExtracted'
  BY <1>1 DEF TInv, PlantExtracted
<1>4. EdgesJoinUnits'
  <2> SUFFICES ASSUME NEW e \in edges' PROVE Segment(e) \/ Passage(e)'
    BY DEF EdgesJoinUnits, Segment
  <2>1. CASE e \in edges
    <3>1. Segment(e) \/ Passage(e)
      BY <2>1 DEF TInv, EdgesJoinUnits
    <3>2. Passage(e) => Passage(e)'
      BY <1>1, SamePlant DEF Passage, TransferMap
    <3> QED BY <3>1, <3>2
  <2>2. CASE e \in PathEdges(path)
    <3>1. \/ Segment(e)
          \/ \E m \in plant.mappings : e = PassthroughEdge(m) /\ TransferMap(m) \in PathTransfers(path)
      BY <2>2, <1>2, PathEdgesJoinUnits
    <3>2. ASSUME NEW m \in plant.mappings, e = PassthroughEdge(m), TransferMap(m) \in PathTransfers(path)
          PROVE  Passage(e)'
      BY <3>2, <1>1, SamePlant DEF Passage, TransferMap
    <3> QED BY <3>1, <3>2
  <2> QED BY <2>1, <2>2, <1>1
<1>5. TransfersMapped'
  <2> SUFFICES ASSUME NEW t \in PathTransfers(path) PROVE \E m \in plant.mappings : t = TransferMap(m)
    BY <1>1 DEF TInv, TransfersMapped, TransferMap
  <2> QED BY DEF PathTransfers, Crossed
<1>6. PathsWalked'
  <2>1. plant'.paths \ todo' = (plant.paths \ todo) \cup {path}
    BY <1>1, <1>2
  <2>2. todo' \subseteq plant'.paths /\ Gathering'
    BY <1>1 DEF TInv, PathsWalked, Gathering
  <2>3. ASSUME NEW e \in edges' PROVE \E p \in plant'.paths \ todo' : e \in PathEdges(p)'
    BY <1>1, <2>1, <2>3, SamePathEdges DEF TInv, PathsWalked
  <2>4. ASSUME NEW p \in plant'.paths \ todo', NEW e \in PathEdges(p)' PROVE \E f \in edges' : SameKey(e, f)
    <3>1. e \in PathEdges(p)
      BY <1>1, <2>4, SamePathEdges
    <3>2. CASE p = path
      BY <1>1, <3>1, <3>2 DEF SameKey
    <3>3. CASE p # path
      BY <1>1, <2>1, <3>1, <3>3 DEF TInv, PathsWalked
    <3> QED BY <3>2, <3>3
  <2> QED BY <2>2, <2>3, <2>4 DEF PathsWalked, SameKey, FineKey
<1>7. NothingSpread'
  BY <1>1 DEF TInv, NothingSpread, Gathering
<1>8. SpreadExactly' /\ LinksAdjacent' /\ LanesMaterialized' /\ KeysResolved'
  BY <1>1 DEF SpreadExactly, Spreading, LinksAdjacent, LanesMaterialized, KeysResolved, Gathering
<1> QED BY <1>3, <1>4, <1>5, <1>6, <1>7, <1>8 DEF TInv

\* When the paths are walked, the graph of links is one of units, and the
\* walk over its components begins as PlanePropagation has it begin.
Fresh ==
    /\ links \subseteq Units \X Units
    /\ seeded \in [Units -> SUBSET Planes]
    /\ members \in [Units \X Planes -> Roles]
    /\ \A u \in Units, p \in Planes : Untouched(u, p)
    /\ seen = {} /\ component = {} /\ queue = {}
    /\ stage = "idle"

LEMMA FreshIInv == Fresh => IInv
<1> SUFFICES ASSUME Fresh PROVE IInv
  OBVIOUS
<1>1. PropagationTypeOK
  BY DEF Fresh, PropagationTypeOK
<1>2. Current = {} /\ Processed = {}
  BY DEF Fresh, Current, Processed
<1>3. CurrentSeen /\ CurrentAlike /\ ComponentLeads /\ ProcessedClosed /\ ProcessedExact /\ Finished
  BY <1>2 DEF Fresh, CurrentSeen, CurrentAlike, ComponentLeads, ProcessedClosed, Closed, ProcessedExact, Finished
<1>4. OthersUntouched
  BY DEF Fresh, OthersUntouched
<1> QED BY <1>1, <1>3, <1>4 DEF IInv

LEMMA FreshIInvNext == Fresh' => IInv'
BY FreshIInv, PTL

LEMMA AdjacencyJoinsUnits ==
  ASSUME TInv
  PROVE  Adjacency \subseteq Units \X Units
<1>1. IsPlant(plant)
  BY PlantsAreExtracted DEF TInv, PlantExtracted
<1>2. ASSUME NEW e \in edges PROVE e.ends \subseteq Units
  <2>1. CASE Segment(e)
    BY <2>1 DEF Segment, Edge
  <2>2. CASE Passage(e)
    <3>1. PICK m \in plant.mappings : e = PassthroughEdge(m)
      BY <2>2 DEF Passage
    <3>2. /\ m.front \in plant.terms /\ m.front.kind = "front_port"
          /\ m.rear \in plant.terms /\ m.rear.kind = "rear_port"
      BY <1>1 DEF IsPlant
    <3>3. UnitAt(m.front, m.fpos) \in Units /\ UnitAt(m.rear, m.rpos) \in Units
      BY <1>1, <3>2, UnitFound
    <3> QED BY <3>1, <3>3 DEF PassthroughEdge, Edge
  <2> QED BY <2>1, <2>2 DEF TInv, EdgesJoinUnits
<1>3. ASSUME NEW t \in transfers PROVE t.src \in Units /\ t.dst \in Units
  BY <1>1 DEF TInv, TransfersMapped, TransferMap, OwnUnit, IsPlant
<1> QED BY <1>2, <1>3 DEF Adjacency

LEMMA BeginKeeps == TInv /\ BeginPropagation => TInv'
<1> SUFFICES ASSUME TInv, BeginPropagation PROVE TInv'
  OBVIOUS
<1>1. /\ stage = "paths" /\ stage' = "idle" /\ todo = {} /\ links' = Adjacency
      /\ seeded' = [u \in Units |-> {p \in Planes : members[u, p] # "none"}]
      /\ members' = members /\ seen' = seen /\ component' = component /\ queue' = queue
      /\ plant' = plant /\ edges' = edges /\ transfers' = transfers /\ todo' = todo
  BY DEF BeginPropagation, transform
<1>2. PlantExtracted' /\ EdgesJoinUnits' /\ TransfersMapped' /\ PathsWalked' /\ Adjacency' = Adjacency
  BY <1>1, GatheredStays
<1>4. SpreadExactly'
  <2>1. /\ members \in [Units \X Planes -> {"none", "native"}]
        /\ seen = {} /\ component = {} /\ queue = {}
    BY <1>1 DEF TInv, NothingSpread, Gathering
  <2>2. seeded' \in [Units -> SUBSET Planes] /\ members' \in [Units \X Planes -> Roles]
    BY <1>1, <2>1 DEF Roles
  <2>3. \A u \in Units, p \in Planes : Untouched(u, p)'
    BY <1>1, <2>1 DEF Untouched
  <2>4. Fresh'
    BY <1>1, <2>1, <2>2, <2>3, AdjacencyJoinsUnits DEF Fresh
  <2> QED BY <2>4, FreshIInvNext DEF SpreadExactly
<1>5. NothingSpread' /\ LinksAdjacent' /\ LanesMaterialized' /\ KeysResolved'
  BY <1>1, <1>2 DEF NothingSpread, LinksAdjacent, LanesMaterialized, KeysResolved, Gathering
<1> QED BY <1>2, <1>4, <1>5 DEF TInv

LEMMA PropagateKeeps == TInv /\ Propagate => TInv'
<1> SUFFICES ASSUME TInv, Propagate PROVE TInv'
  OBVIOUS
<1>1. /\ PropagationNext
      /\ plant' = plant /\ edges' = edges /\ transfers' = transfers /\ todo' = todo
  BY DEF Propagate, transform
<1>2. Spreading /\ Spreading' /\ links' = links
  BY <1>1 DEF PropagationNext, StartComponent, Visit, SpreadPlanes, FinishPropagation, Spreading
<1>3. ~Gathering /\ ~Gathering' /\ stage' \notin {"lanes", "built"}
  BY <1>2 DEF Spreading, Gathering
<1>4. IInv'
  BY <1>1, <1>2, NextKeeps DEF TInv, SpreadExactly
<1>5. PlantExtracted' /\ EdgesJoinUnits' /\ TransfersMapped' /\ PathsWalked' /\ Adjacency' = Adjacency
  BY <1>1, <1>3, GatheredStays
<1>6. LinksAdjacent'
  BY <1>2, <1>3, <1>5 DEF TInv, LinksAdjacent
<1>7. NothingSpread' /\ SpreadExactly' /\ LanesMaterialized' /\ KeysResolved'
  BY <1>3, <1>4 DEF NothingSpread, SpreadExactly, LanesMaterialized, KeysResolved
<1> QED BY <1>5, <1>6, <1>7 DEF TInv

\* Linked units are connected with the same units.
LEMMA LinkedConnectedAlike ==
  ASSUME links \subseteq Units \X Units, NEW l \in links, NEW w
  PROVE  ConnectedIn(ClosedSets, l[1], w) <=> ConnectedIn(ClosedSets, l[2], w)
<1>1. l[1] \in Units /\ l[2] \in Units /\ <<l[1], l[2]>> \in links
  OBVIOUS
<1>2. l[2] \in Neighbors(l[1]) /\ l[1] \in Neighbors(l[2])
  BY <1>1 DEF Neighbors
<1>3. \A S \in ClosedSets : l[1] \in S <=> l[2] \in S
  BY DEF ClosedSets, Closed
<1> QED BY <1>2, <1>3 DEF ConnectedIn

LEMMA MaterializeKeeps == TInv /\ MaterializeLanes => TInv'
<1> SUFFICES ASSUME TInv, MaterializeLanes PROVE TInv'
  OBVIOUS
<1>1. /\ stage = "propagated" /\ stage' \in {"lanes", "refused"}
      /\ lanes' = [u \in Units |-> IF plant.lanesOn THEN LaneCount(ClosedSets, u) ELSE 0]
      /\ stage' = "lanes" => laneLinks' = UNION {LanesJoined(ends, lanes') : ends \in JoinedEnds}
      /\ links' = links /\ members' = members /\ seen' = seen /\ component' = component /\ queue' = queue
      /\ plant' = plant /\ edges' = edges /\ transfers' = transfers /\ todo' = todo
  BY DEF MaterializeLanes, JoinedEnds
<1>2. ~Gathering /\ ~Gathering' /\ ~Spreading' /\ stage' # "built"
  BY <1>1 DEF Gathering, Spreading
<1>3. /\ PlantExtracted' /\ EdgesJoinUnits' /\ TransfersMapped' /\ PathsWalked'
      /\ Adjacency' = Adjacency /\ JoinedEnds' = JoinedEnds
  BY <1>1, <1>2, GatheredStays
<1>4. links \subseteq Units \X Units
  BY <1>2, AdjacencyJoinsUnits DEF TInv, LinksAdjacent
<1>5. LanesEqual'
  <2> SUFFICES ASSUME NEW l \in links PROVE lanes'[l[1]] = lanes'[l[2]]
    BY <1>1 DEF LanesEqual
  <2>1. l[1] \in Units /\ l[2] \in Units
    BY <1>4
  <2>2. {w \in ChildUnits : ConnectedIn(ClosedSets, l[1], w)} = {w \in ChildUnits : ConnectedIn(ClosedSets, l[2], w)}
    BY <1>4, LinkedConnectedAlike
  <2>3. LaneCount(ClosedSets, l[1]) = LaneCount(ClosedSets, l[2])
    BY <2>2 DEF LaneCount
  <2> QED BY <1>1, <2>1, <2>3
<1>6. LanesMaterialized'
  <2>1. stage' = "lanes" => laneLinks' = UNION {LanesJoined(ends, lanes') : ends \in JoinedEnds'}
    BY <1>1, <1>3
  <2>2. \A ends : LanesJoined(ends, lanes)' = LanesJoined(ends, lanes')
    BY DEF LanesJoined
  <2> QED BY <1>1, <1>2, <1>5, <2>1, <2>2 DEF LanesMaterialized
<1>7. NothingSpread' /\ SpreadExactly' /\ LinksAdjacent' /\ KeysResolved'
  BY <1>1, <1>2, <1>3 DEF TInv, NothingSpread, SpreadExactly, LinksAdjacent, KeysResolved
<1> QED BY <1>3, <1>6, <1>7 DEF TInv

\* The lanes that were materialized stay so.
LEMMA LanesStay ==
  ASSUME LanesEqual, laneLinks = UNION {LanesJoined(ends, lanes) : ends \in JoinedEnds},
         JoinedEnds' = JoinedEnds, links' = links, lanes' = lanes, laneLinks' = laneLinks
  PROVE  LanesEqual' /\ (laneLinks = UNION {LanesJoined(ends, lanes) : ends \in JoinedEnds})'
BY DEF LanesEqual, LanesJoined

LEMMA BuildKeeps == TInv /\ BuildGraph => TInv'
<1> SUFFICES ASSUME TInv, BuildGraph PROVE TInv'
  OBVIOUS
<1>1. /\ stage = "lanes" /\ stage' \in {"built", "refused"}
      /\ stage' = "built" => Named \subseteq AttachmentUnits
      /\ links' = links /\ members' = members /\ seen' = seen /\ component' = component /\ queue' = queue
      /\ plant' = plant /\ edges' = edges /\ transfers' = transfers /\ todo' = todo
      /\ lanes' = lanes /\ laneLinks' = laneLinks
  BY DEF BuildGraph
<1>2. ~Gathering /\ ~Gathering' /\ ~Spreading'
  BY <1>1 DEF Gathering, Spreading
<1>3. /\ PlantExtracted' /\ EdgesJoinUnits' /\ TransfersMapped' /\ PathsWalked'
      /\ Adjacency' = Adjacency /\ JoinedEnds' = JoinedEnds
  BY <1>1, <1>2, GatheredStays
<1>4. LanesMaterialized'
  BY <1>1, <1>3, LanesStay DEF TInv, LanesMaterialized
<1>5. KeysResolved'
  BY <1>1, SamePlant DEF KeysResolved, Named
<1>6. NothingSpread' /\ SpreadExactly' /\ LinksAdjacent'
  BY <1>1, <1>2, <1>3 DEF TInv, NothingSpread, SpreadExactly, LinksAdjacent
<1> QED BY <1>3, <1>4, <1>5, <1>6 DEF TInv

LEMMA TransformStutterKeeps == TInv /\ UNCHANGED vars => TInv'
<1> SUFFICES ASSUME TInv, UNCHANGED vars PROVE TInv'
  OBVIOUS
<1>1. /\ UNCHANGED propagation /\ stage' = stage
      /\ links' = links /\ members' = members /\ seen' = seen /\ component' = component /\ queue' = queue
      /\ plant' = plant /\ edges' = edges /\ transfers' = transfers /\ todo' = todo
      /\ lanes' = lanes /\ laneLinks' = laneLinks
  BY DEF vars, propagation, transform
<1>2. Gathering' = Gathering /\ Spreading' = Spreading
  BY <1>1 DEF Gathering, Spreading
<1>3. /\ PlantExtracted' /\ EdgesJoinUnits' /\ TransfersMapped' /\ PathsWalked'
      /\ Adjacency' = Adjacency /\ JoinedEnds' = JoinedEnds
  BY <1>1, <1>2, GatheredStays
<1>4. LanesMaterialized'
  BY <1>1, <1>3, LanesStay DEF TInv, LanesMaterialized
<1>5. KeysResolved'
  BY <1>1, SamePlant DEF TInv, KeysResolved, Named
<1>6. SpreadExactly'
  BY <1>1, <1>2, StutterKeeps DEF TInv, SpreadExactly
<1>7. NothingSpread' /\ LinksAdjacent'
  BY <1>1, <1>2, <1>3 DEF TInv, NothingSpread, LinksAdjacent
<1> QED BY <1>3, <1>4, <1>5, <1>6, <1>7 DEF TInv

LEMMA TransformInvariance == TransformSpec => []TInv
<1>1. TInv /\ [TransformNext]_vars => TInv'
  BY RecordKeeps, WalkKeeps, BeginKeeps, PropagateKeeps, MaterializeKeeps, BuildKeeps, TransformStutterKeeps
     DEF TransformNext
<1> QED BY <1>1, TransformInitTInv, PTL DEF TransformSpec

-----------------------------------------------------------------------------
(* What follows *)

\* In the whole transformation too, where the links are what the cable paths
\* of a plant make them, planes spread over exactly the connected units
\* (transform_source_bundle, _propagate_plane_memberships).
THEOREM TransformPlanesExact == TransformSpec => []PropagationExact
<1>1. TInv => PropagationExact
  <2>1. stage = "propagated" => Spreading
    BY DEF Spreading
  <2> QED BY <2>1, IInvImpliesExact DEF TInv, SpreadExactly, PropagationExact
<1> QED BY <1>1, TransformInvariance, PTL

\* Two crossings of one cable that make an edge between the same units agree
\* about whether a profile made it.
FlagsAgree ==
    \A e, f \in AllEdges : Segment(e) /\ Segment(f) /\ SameKey(e, f) => e.derived = f.derived

LEMMA EdgesOfPaths ==
  ASSUME TInv, ~Gathering
  PROVE  /\ edges \subseteq AllEdges
         /\ \A e \in AllEdges : \E f \in edges : SameKey(e, f)
<1>1. todo = {} /\ plant.paths \ todo = plant.paths
  BY DEF TInv, PathsWalked
<1> QED BY <1>1 DEF TInv, PathsWalked, AllEdges

\* Edges with the same key are one edge where the flags agree.
LEMMA KeyDetermines ==
  ASSUME IsPlant(plant), FlagsAgree, NEW e \in AllEdges, NEW f \in AllEdges, SameKey(e, f)
  PROVE  e = f
<1>1. e.ends = f.ends /\ e.via = f.via /\ e.kind = f.kind
  BY DEF SameKey, FineKey
<1>2. ASSUME NEW x \in AllEdges PROVE Segment(x) \/ \E m \in plant.mappings : x = PassthroughEdge(m)
  BY PathEdgesJoinUnits DEF AllEdges
<1>3. \A x : Segment(x) => /\ x.kind = "derived_cable_segment"
                          /\ x = [ends |-> x.ends, via |-> x.via, kind |-> x.kind, derived |-> x.derived]
  BY DEF Segment, Edge
<1>4. \A m : /\ PassthroughEdge(m).kind = "passthrough_map"
             /\ PassthroughEdge(m) = [ends |-> PassthroughEdge(m).ends, via |-> PassthroughEdge(m).via,
                                      kind |-> PassthroughEdge(m).kind, derived |-> FALSE]
  BY DEF PassthroughEdge, Edge
<1>5. CASE Segment(e)
  <2>1. Segment(f)
    BY <1>1, <1>2, <1>3, <1>4, <1>5
  <2>2. e.derived = f.derived
    BY <1>5, <2>1 DEF FlagsAgree
  <2> QED BY <1>1, <1>3, <1>5, <2>1, <2>2
<1>6. CASE ~Segment(e)
  <2>1. PICK m \in plant.mappings : e = PassthroughEdge(m)
    BY <1>2, <1>6
  <2>2. PICK n \in plant.mappings : f = PassthroughEdge(n)
    BY <1>1, <1>2, <1>3, <1>4, <2>1
  <2> QED BY <1>1, <1>4, <2>1, <2>2
<1> QED BY <1>5, <1>6

\* For every plant, the units that the edges join, over what and how, do not
\* depend on the order in which the cable paths come (transform_source_bundle).
THEOREM TopologyOrderFree == TransformSpec => [](Transformed => KeysOf(edges) = KeysOf(AllEdges))
<1>1. TInv => (Transformed => KeysOf(edges) = KeysOf(AllEdges))
  <2> SUFFICES ASSUME TInv, Transformed PROVE KeysOf(edges) = KeysOf(AllEdges)
    OBVIOUS
  <2>1. ~Gathering
    BY DEF Transformed, Gathering
  <2>2. edges \subseteq AllEdges /\ \A e \in AllEdges : \E f \in edges : FineKey(e) = FineKey(f)
    BY <2>1, EdgesOfPaths DEF SameKey
  <2> QED BY <2>2 DEF KeysOf
<1> QED BY <1>1, TransformInvariance, PTL

\* Nor do the edges themselves, unless a profile maps a cable from one of its
\* ends and identity maps the same units from the other
\* (transform_source_bundle, add_cable_segment).
THEOREM EdgesOrderFreeIfFlagsAgree == TransformSpec => [](FlagsAgree => EdgesOrderFree)
<1>1. TInv => (FlagsAgree => EdgesOrderFree)
  <2> SUFFICES ASSUME TInv, FlagsAgree, Transformed
               PROVE  KeysOf(edges) = KeysOf(AllEdges) /\ edges = AllEdges /\ \A e, f \in edges : SameKey(e, f) => e = f
    BY DEF EdgesOrderFree
  <2>1. ~Gathering /\ IsPlant(plant)
    BY PlantsAreExtracted DEF Transformed, Gathering, TInv, PlantExtracted
  <2>2. edges = AllEdges
    BY <2>1, EdgesOfPaths, KeyDetermines
  <2>3. \A e, f \in edges : SameKey(e, f) => e = f
    BY <2>1, <2>2, KeyDetermines
  <2> QED BY <2>2, <2>3
<1> QED BY <1>1, TransformInvariance, PTL

\* A lane of one unit is joined with the lane of equal index of the other.
LEMMA EndsLaned ==
  ASSUME NEW u, NEW v, lanes[u] = lanes[v], NEW i \in 0..(lanes[u] - 1)
  PROVE  {<<u, i>>, <<v, i>>} \in LanesJoined({u, v}, lanes)
<1>1. {lanes[w] : w \in {u, v}} = {lanes[u]}
  OBVIOUS
<1>2. Min({lanes[u]}) = lanes[u]
  BY DEF Min
<1>3. {<<w, i>> : w \in {u, v}} = {<<u, i>>, <<v, i>>}
  OBVIOUS
<1> QED BY <1>1, <1>2, <1>3 DEF LanesJoined

\* In a graph that is built the edge of a port mapping joins the units that
\* its transfer map names, if no port has children.
LEMMA PassageIsTransfer ==
  ASSUME TInv, stage = "built", ~PortWithChildren, NEW e \in edges, Passage(e)
  PROVE  \E t \in transfers : e.ends = {t.src, t.dst}
<1>1. IsPlant(plant)
  BY PlantsAreExtracted DEF TInv, PlantExtracted
<1>2. PICK m \in plant.mappings : e = PassthroughEdge(m) /\ TransferMap(m) \in transfers
  BY DEF Passage
<1>3. OwnUnit(m.front, m.fpos) \in AttachmentUnits /\ OwnUnit(m.rear, m.rpos) \in AttachmentUnits
  BY <1>2 DEF TInv, KeysResolved, Named, TransferMap
<1>4. ASSUME NEW t \in plant.terms, NEW n, t.kind # "interface", OwnUnit(t, n) \in AttachmentUnits
      PROVE  UnitAt(t, n) = OwnUnit(t, n)
  <2>1. ChildrenOf(t) = {}
    BY <1>4 DEF PortWithChildren
  <2>2. n \in Positions(t)
    <3> DEFINE u == OwnUnit(t, n)
    <3>0. u.of = t /\ u.at = n
      BY DEF OwnUnit
    <3>1. CASE u \in OwnUnits
      <4>1. PICK s \in plant.terms : \E k \in Positions(s) : u = OwnUnit(s, k)
        BY <3>1 DEF OwnUnits
      <4>2. PICK k \in Positions(s) : u.of = s /\ u.at = k
        BY <4>1 DEF OwnUnit
      <4> QED BY <3>0, <4>2
    <3>2. CASE u \in ChildUnits
      <4>1. PICK s \in plant.terms : \E c \in ChildrenOf(s) : u = ChildUnit(s, c)
        BY <3>2 DEF ChildUnits
      <4>2. u.of = s /\ ChildrenOf(s) # {}
        BY <4>1 DEF ChildUnit
      <4> QED BY <3>0, <4>2, <2>1
    <3> QED BY <1>4, <3>1, <3>2 DEF AttachmentUnits
  <2>3. t \notin plant.outer
    BY <1>1 DEF IsPlant
  <2>4. {c \in ChildrenOf(t) : n # 0 /\ ChildOrdinal(c) = n} = {}
    BY <2>1
  <2> QED BY <2>2, <2>3, <2>4 DEF UnitAt
<1>5. /\ m.front \in plant.terms /\ m.front.kind # "interface"
      /\ m.rear \in plant.terms /\ m.rear.kind # "interface"
  BY <1>1 DEF IsPlant
<1>6. UnitAt(m.front, m.fpos) = TransferMap(m).src /\ UnitAt(m.rear, m.rpos) = TransferMap(m).dst
  BY <1>3, <1>4, <1>5 DEF TransferMap
<1>7. e.ends = {TransferMap(m).src, TransferMap(m).dst}
  BY <1>2, <1>6 DEF PassthroughEdge, Edge
<1> QED BY <1>2, <1>7

\* For every plant that can be built and has no port with children: connected
\* units have equally many lanes, and each segment and each transfer map
\* joins all of them, index by index (_materialize_signal_lane_inputs).
THEOREM LanesOfBuiltGraphs == TransformSpec => []LanesRunThrough
<1>1. TInv => LanesRunThrough
  <2> SUFFICES ASSUME TInv, stage = "built", ~PortWithChildren
               PROVE  /\ LanesEqual
                      /\ \A e \in edges : \A u, v \in e.ends : \A i \in 0..(lanes[u] - 1) :
                              u # v => {<<u, i>>, <<v, i>>} \in laneLinks
                      /\ \A k \in laneLinks : \A x, y \in k : x[2] = y[2]
    BY DEF LanesRunThrough, LanesEqual
  <2>1. LanesEqual /\ laneLinks = UNION {LanesJoined(ends, lanes) : ends \in JoinedEnds}
    BY DEF TInv, LanesMaterialized
  <2>2. ASSUME NEW e \in edges, NEW u \in e.ends, NEW v \in e.ends, NEW i \in 0..(lanes[u] - 1), u # v
        PROVE  {<<u, i>>, <<v, i>>} \in laneLinks
    <3>1. PICK x, y : e.ends = {x, y}
      <4>1. Segment(e) \/ Passage(e)
        BY DEF TInv, EdgesJoinUnits
      <4>2. CASE Segment(e)
        <5>1. PICK a, b \in Units : \E c : \E d \in BOOLEAN : e = Edge(a, b, c, "derived_cable_segment", d)
          BY <4>2 DEF Segment
        <5>2. e.ends = {a, b}
          BY <5>1 DEF Edge
        <5> QED BY <5>2
      <4>3. CASE Passage(e)
        BY <4>3 DEF Passage, PassthroughEdge, Edge
      <4> QED BY <4>1, <4>2, <4>3
    <3>2. e.ends = {u, v}
      BY <2>2, <3>1
    <3>3. lanes[u] = lanes[v]
      <4>1. <<u, v>> \in Adjacency
        BY <2>2 DEF Adjacency
      <4>2. <<u, v>> \in links
        BY <4>1 DEF TInv, LinksAdjacent, Gathering
      <4> QED BY <2>1, <4>2 DEF LanesEqual
    <3>4. {u, v} \in JoinedEnds
      <4>1. CASE Segment(e)
        <5>1. e.kind = "derived_cable_segment"
          BY <4>1 DEF Segment, Edge
        <5> QED BY <3>2, <5>1 DEF JoinedEnds
      <4>2. CASE Passage(e)
        BY <3>2, <4>2, PassageIsTransfer DEF JoinedEnds
      <4> QED BY <4>1, <4>2 DEF TInv, EdgesJoinUnits
    <3>5. {<<u, i>>, <<v, i>>} \in LanesJoined({u, v}, lanes)
      BY <3>3, EndsLaned
    <3> QED BY <2>1, <3>4, <3>5
  <2>3. ASSUME NEW k \in laneLinks, NEW x \in k, NEW y \in k PROVE x[2] = y[2]
    <3>1. PICK ends \in JoinedEnds : k \in LanesJoined(ends, lanes)
      BY <2>1
    <3>2. PICK i : k = {<<u, i>> : u \in ends}
      BY <3>1 DEF LanesJoined
    <3> QED BY <3>2
  <2> QED BY <2>1, <2>2, <2>3
<1> QED BY <1>1, TransformInvariance, PTL
=============================================================================

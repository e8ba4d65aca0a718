----------------------------- MODULE LaneViews -----------------------------
(***************************************************************************)
(* What the lane pages say of a graph that was built: lane sets of a unit, *)
(* an interface, a cable or a plane (services/graph/lane_sets.py), their   *)
(* summary (lane_allocation.py) and the comparison of two of them          *)
(* (compare.py).  Lane sets take a lane of an interface as mapped where    *)
(* the cable's profile, read again, has a place for it at the other end,   *)
(* whatever the build made of it.  Names and links of objects, the lane    *)
(* sets of whole devices and contamination domains are left out.           *)
(***************************************************************************)
EXTENDS PlantDiagnostics

\* A graph has finitely many units.
ASSUME UnitsAreFinite == IsFiniteSet(Units)

\* The position in the metadata of a unit, 0 without one.
Position(u) == IF u \in ChildUnits THEN Ordinal(u) ELSE u.at
ExpectedLanes(u) == Max({SeedLanes(u), lanes[u]})
JoinedLanes(u) == {i \in 0..(lanes[u] - 1) : \E k \in laneLinks : <<u, i>> \in k}

\* A member of a lane set.  Units at the matched positions count as mapped.
Member(u, matched) ==
    [unit |-> u, at |-> Position(u), planes |-> PlanesOf(u),
     expected |-> ExpectedLanes(u), present |-> lanes[u],
     mapped |-> Max({Cardinality(JoinedLanes(u))} \cup {ExpectedLanes(u) : n \in matched \cap {Position(u)}})]
LaneSet(units, matched, unmatched) ==
    [members |-> {Member(u, matched) : u \in units}, unmatched |-> unmatched]

Total(s, field) == MapThenSumSet(LAMBDA m : m[field], s.members)
LaneStatus(m) ==
    IF m.present = 0 THEN IF m.expected > 0 THEN "missing" ELSE "empty"
    ELSE IF m.mapped = m.present /\ m.expected = m.present THEN "complete" ELSE "partial"
LaneConsistency(s) ==
    IF Total(s, "present") = 0 THEN "empty"
    ELSE IF Total(s, "mapped") = Total(s, "present") /\ s.unmatched = {} THEN "consistent"
    ELSE IF Total(s, "mapped") = 0 THEN "missing" ELSE "partial"
PlaneConsistency(s) ==
    IF \A m \in s.members : m.planes = {} THEN "unassigned"
    ELSE IF \E m \in s.members : Cardinality(m.planes) > 1 THEN "mixed" ELSE "consistent"

-----------------------------------------------------------------------------
(* The lane set of an interface *)

ParentUnits(t) ==
    LET own == {u \in graph.units : u.of = t}
    IN  IF own \cap ChildUnits # {} THEN own \cap ChildUnits ELSE own
LeftPositions(t) ==
    IF plant.wired[t] # {} THEN plant.wired[t] ELSE {Position(u) : u \in ParentUnits(t)} \ {0}

\* Peers of the plugin's profile are counted, their positions are not.
SideVerdict(t, n) ==
    LET c == plant.on[t]  b == plant.cables[c].breakout
    IN  IF HasNativeProfile(c) THEN NativeVerdict(t, n)
        ELSE IF ~Mapped(b, n) THEN "profile_returned_none"
        ELSE IF OrdinalOf(b, n) < Cardinality(Peers(t)) THEN "matched" ELSE "missing_peer_position"
PositionsThat(t, verdict) ==
    IF plant.on[t] = NoCable THEN {}
    ELSE IF ~HasProfile(plant.on[t]) THEN {}
    ELSE {n \in LeftPositions(t) : SideVerdict(t, n) = verdict}

\* Where the profile misses nothing, the segments of the build are asked.
\* Also a mutant: they never are.
MissedByProfile(t) == PositionsThat(t, "missing_peer_position")
Segmented(u) == \E e \in edges : e.kind = "derived_cable_segment" /\ u \in e.ends
UnmatchedPositions(t) ==
    IF MissedByProfile(t) # {} THEN MissedByProfile(t)
    ELSE {Position(u) : u \in {v \in ParentUnits(t) : Position(v) # 0 /\ ~Segmented(v)}}

InterfaceLaneSet(t) == LaneSet(ParentUnits(t), PositionsThat(t, "matched"), UnmatchedPositions(t))
UnitLaneSet(u) == LaneSet({u}, {}, {})
CableLaneSet(c) ==
    LaneSet(UNION {e.ends : e \in {f \in edges : f.kind = "derived_cable_segment" /\ f.via = c}}, {}, {})
PlaneLaneSet(p) == LaneSet({u \in graph.units : p \in PlanesOf(u)}, {}, {})

Parents == {t \in plant.terms : t.kind = "interface"}
LaneSets ==
    {InterfaceLaneSet(t) : t \in Parents} \cup {UnitLaneSet(u) : u \in graph.units}
    \cup {CableLaneSet(c) : c \in DOMAIN plant.cables} \cup {PlaneLaneSet(p) : p \in graph.planes}

-----------------------------------------------------------------------------
(* Comparing two lane sets *)

\* Members are matched by position, and by unit where they have none.
Key(m) == [at |-> m.at, unit |-> IF m.at # 0 THEN NoUnit ELSE m.unit]
Keys(s) == {Key(m) : m \in s.members}
MemberAt(s, k) == CHOOSE m \in s.members : Key(m) = k

\* Mutant: planes are not compared.
ChangedLanes(a, b, k) ==
    IF k \notin Keys(a) \cap Keys(b) THEN {"attachment_presence"}
    ELSE {f \in {"present", "mapped", "expected"} : MemberAt(a, k)[f] # MemberAt(b, k)[f]}
ChangedFields(a, b, k) ==
    IF k \notin Keys(a) \cap Keys(b) THEN {"attachment_presence"}
    ELSE {f \in {"planes", "present", "mapped", "expected"} : MemberAt(a, k)[f] # MemberAt(b, k)[f]}
            \cup {f \in {"status"} : LaneStatus(MemberAt(a, k)) # LaneStatus(MemberAt(b, k))}

\* The attachments a comparison puts before the reader, and its metrics.
Reviews(a, b) == {k \in Keys(a) \cup Keys(b) : ChangedFields(a, b, k) # {}}
PlaneIds(s) == UNION {m.planes : m \in s.members}
MissingLanes(s) == Max({Total(s, "expected") - Total(s, "present"), 0})
Incomplete(s) == {m \in s.members : LaneStatus(m) \notin {"complete", "empty"}}
\* The metrics of which more, and of which less, is better.
Gains(s) == <<Total(s, "present"), Total(s, "mapped")>>
Losses(s) == <<MissingLanes(s), Cardinality(Incomplete(s)), Cardinality(s.unmatched)>>
RegressedMetrics(a, b) == {i \in 1..2 : Gains(b)[i] < Gains(a)[i]} \cup {i + 2 : i \in {j \in 1..3 : Losses(b)[j] > Losses(a)[j]}}
Worse(ranks, x, y) == \E i, j \in DOMAIN ranks : i < j /\ ranks[i] = y /\ ranks[j] = x
Regressions(a, b) ==
    {r \in {"completeness", "mapping", "lanes", "planes", "unresolved", "assignment"} :
        CASE r = "completeness" -> MissingLanes(b) > MissingLanes(a)
          [] r = "mapping" -> Total(b, "mapped") < Total(a, "mapped")
          [] r = "lanes" -> Worse(<<"empty", "missing", "partial", "consistent">>, LaneConsistency(a), LaneConsistency(b))
          [] r = "planes" -> Worse(<<"unassigned", "mixed", "consistent">>, PlaneConsistency(a), PlaneConsistency(b))
          [] r = "unresolved" -> Cardinality(b.unmatched) > Cardinality(a.unmatched)
          [] r = "assignment" -> PlaneIds(b) \ PlaneIds(a) # {} /\ PlaneIds(a) \ PlaneIds(b) # {}}

-----------------------------------------------------------------------------
\* A lane set that is called consistent is: every lane of every unit in it is
\* joined with another lane in the graph, though the profile of the cable and
\* not the graph was asked about the lanes of an interface
\* (lane_sets.py:49-64, 318-344).
ConsistentMeansMapped ==
    stage = "built" =>
        \A s \in LaneSets : LaneConsistency(s) = "consistent" =>
            \A m \in s.members : JoinedLanes(m.unit) = 0..(lanes[m.unit] - 1)

\* A comparison of two interfaces names no regression that the rest of it
\* leaves unexplained: something changed at an attachment, or more positions
\* are unmatched; and where the lanes have become less consistent, a metric
\* has got worse, whatever the totals cover up (compare.py:250-345).
RegressionsHaveRows ==
    stage = "built" =>
        LET sets == {InterfaceLaneSet(t) : t \in Parents}
        IN  \A a, b \in sets :
                /\ Regressions(a, b) # {} => Reviews(a, b) # {} \/ Cardinality(b.unmatched) > Cardinality(a.unmatched)
                /\ "lanes" \in Regressions(a, b) => RegressedMetrics(a, b) # {}
=============================================================================

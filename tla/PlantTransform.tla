--------------------------- MODULE PlantTransform ---------------------------
(***************************************************************************)
(* What a graph build makes of the cabling in NetBox: extract_source_bundle *)
(* and transform_source_bundle (services/sync), and which of its results   *)
(* build_graph can write.  One execution, on one plant; the database does  *)
(* not say in which order it returns cable paths.                          *)
(*                                                                         *)
(* A termination is [kind, pk]: the tables of interfaces, front ports and  *)
(* rear ports count their primary keys separately.  A unit is [of, at]: a  *)
(* termination and 0 (its base), a position, or the primary key of a child *)
(* interface.  Names, types, roles and the metadata of objects are left    *)
(* out; sorting by name is sorting by the number that stands for the name. *)
(* plant.terms are the terminations of devices in scope, plant.outer those *)
(* beyond, which cables and paths may lead to.                             *)
(* The second walk over the components, for signal lanes, is one step: it  *)
(* is the loop of the first.                                               *)
(***************************************************************************)
EXTENDS PlanePropagation, Sequences, FiniteSetsExt, Functions

CONSTANTS Plants,           \* the plants to transform
          ExpectedPlanes,   \* expected_plane_count of the fabric
          NoCable           \* the cable of a step that is not one

\* What NetBox guarantees of what is extracted.  Child interfaces are rows.
ChildrenFit(p) ==
    /\ IsFiniteSet(p.children)
    /\ \A c, d \in p.children : c.pk = d.pk => c = d
    /\ \A c \in p.children : c.pk \in Nat /\ c.name \in Nat /\ c.speed \in Nat

\* A cable with a profile gives each of its ends positions, and the profile
\* leads back where it came from.  A path comes to a cable at terminations of
\* one end and leaves it at those of the other: all of them, or some on a
\* cable with a profile.
CablesFit(p) ==
    LET All == p.terms \cup p.outer
        Far(t) == {s \in All : p.on[s] = p.on[t] /\ p.plug[s][1] # p.plug[t][1]}
        HasProfile(c) == DOMAIN p.cables[c].profile # {}
    IN  /\ IsFiniteSet(All) /\ All \subseteq [kind : {"interface", "front_port", "rear_port"}, pk : Nat]
        /\ NoCable \notin DOMAIN p.cables /\ \A t \in All : p.on[t] \in DOMAIN p.cables \cup {NoCable}
        /\ \A t \in {s \in All : p.on[s] # NoCable} :
              /\ p.plug[t] = <<p.plug[t][1], p.plug[t][2]>> /\ p.plug[t][1] \in {"A", "B"}
              /\ HasProfile(p.on[t]) => p.wired[t] # {}
        /\ \A c \in DOMAIN p.cables :
              /\ p.cables[c].breakout.count \in Nat
              /\ \A x, y \in DOMAIN p.cables[c].profile :
                    x[1] # y[1] /\ p.cables[c].profile[x] = <<y[2], y[3]>> => p.cables[c].profile[y] = <<x[2], x[3]>>
        /\ \A path \in p.paths : \A i \in {j \in 2..(Len(path) - 1) : path[j].cable # NoCable} :
              /\ \A s, t \in path[i + 1].ends : s.kind = t.kind
              /\ \A t \in path[i - 1].ends : /\ p.on[t] = path[i].cable
                                             /\ path[i + 1].ends \subseteq Far(t)
                                             /\ path[i + 1].ends = Far(t) \/ HasProfile(path[i].cable)

\* The ports of a mapping are on a device in scope, paths lead over
\* terminations that were extracted, the positions of a plug are counted from
\* 1, and every key is one of a unit.
IsPlant(p) ==
    LET Own(t) == CASE t.kind = "interface" -> {0} [] t.kind = "front_port" -> {1} [] OTHER -> 1..p.positions[t]
        Below(t) == {c.pk : c \in {d \in p.children : d.parent = t.pk}}
    IN  /\ ChildrenFit(p) /\ CablesFit(p)
        /\ p.terms \cap p.outer = {}
        /\ \A t \in p.terms : /\ p.positions[t] \in Nat \ {0}
                              /\ IsFiniteSet(p.wired[t]) /\ p.wired[t] = 1..Cardinality(p.wired[t])
                              /\ \A n \in Own(t) \cup Below(t) : [of |-> t, at |-> n] \in Units
        /\ \A m \in p.mappings : /\ {m.front, m.rear} \subseteq p.terms
                                 /\ m.front.kind = "front_port" /\ m.rear.kind = "rear_port"
                                 /\ {[of |-> m.front, at |-> m.fpos], [of |-> m.rear, at |-> m.rpos]} \subseteq Units
        /\ p.paths \subseteq Seq([cable : DOMAIN p.cables \cup {NoCable}, ends : SUBSET (p.terms \cup p.outer)])
ASSUME PlantsAreExtracted == \A p \in Plants : IsPlant(p)

VARIABLES
    plant,      \* what was extracted
    todo,       \* cable paths that are not yet walked
    edges,      \* the fine edges between attachment units
    transfers,  \* the transfer maps, one per port mapping that was walked
    lanes,      \* the number of signal lanes of each unit
    laneLinks,  \* lane segments and lane maps: pairs of lanes <<unit, index>>
    graph       \* what build_graph commits

transform == <<plant, todo, edges, transfers, lanes, laneLinks, graph>>
vars == <<propagation, transform>>

NoGraph == [units |-> {}, planes |-> {}]
NoUnit == [of |-> [kind |-> "none", pk |-> 0], at |-> 0]

-----------------------------------------------------------------------------
(* Attachment units *)

\* _iter_attachment_positions: an interface has its base, a front port one
\* position whatever NetBox says, a rear port as many as it has.
Positions(t) ==
    CASE t.kind = "interface" -> {0}
      [] t.kind = "front_port" -> {1}
      [] OTHER -> 1..Max({plant.positions[t], 1})

\* _iter_path_positions: the positions a cable profile gave, else the above.
PathPositions(t) == IF plant.wired[t] # {} THEN plant.wired[t] ELSE Positions(t)

\* The child interfaces a termination gets are looked up by the primary key
\* of the termination alone.
ChildrenOf(t) == {c \in plant.children : c.parent = t.pk}
Before(c, d) == c.name < d.name \/ (c.name = d.name /\ c.pk < d.pk)
ChildOrdinal(c) == 1 + Cardinality({d \in plant.children : d.parent = c.parent /\ Before(d, c)})

OwnUnit(t, n) == [of |-> t, at |-> n]
ChildUnit(t, c) == [of |-> t, at |-> c.pk]
OwnUnits == UNION {{OwnUnit(t, n) : n \in Positions(t)} : t \in plant.terms}
ChildUnits == UNION {{ChildUnit(t, c) : c \in ChildrenOf(t)} : t \in plant.terms}
AttachmentUnits == OwnUnits \cup ChildUnits

\* Where two units have the same key, the child interface is written last.
ChildAt(u) == {c \in ChildrenOf(u.of) : c.pk = u.at}
SeedLanes(u) ==
    LET RoundedBy50(n) == LET q == n \div 50  r == n % 50
                          IN  IF r > 25 \/ (r = 25 /\ q % 2 = 1) THEN q + 1 ELSE q
    IN  IF u \notin ChildUnits THEN 0
        ELSE LET c == CHOOSE c \in ChildAt(u) : TRUE
             IN  IF c.speed = 0 THEN 0 ELSE Max({1, RoundedBy50(c.speed)})
Ordinal(u) ==
    IF u \in ChildUnits THEN ChildOrdinal(CHOOSE c \in ChildAt(u) : TRUE)
    ELSE IF u.at = 0 THEN 0 ELSE u.at - 1
SeedPlanes(u) == (IF u \in OwnUnits THEN plant.planes[u.of] ELSE {})
                    \cup UNION {c.planes : c \in ChildAt(u)}

\* _first_attachment_key: children are found by their ordinal and hide the
\* positions of the termination itself; only interfaces have no fallback.
UnitAt(t, n) ==
    LET children == {c \in ChildrenOf(t) : n # 0 /\ ChildOrdinal(c) = n}
    IN  CASE t \in plant.outer -> NoUnit
          [] t \in plant.terms /\ children # {} -> ChildUnit(t, CHOOSE c \in children : TRUE)
          [] t \in plant.terms /\ children = {} /\ n \in Positions(t) -> OwnUnit(t, n)
          [] t \in plant.terms /\ children = {} /\ n \notin Positions(t) ->
                IF n = 0 \/ t.kind # "interface" THEN OwnUnit(t, Min(Positions(t))) ELSE NoUnit

-----------------------------------------------------------------------------
(* Edges between units, from the cable paths *)

Edge(u, v, via, kind, derived) == [ends |-> {u, v}, via |-> via, kind |-> kind, derived |-> derived]
\* add_cable_segment, for pairs <<left, position, right, position>>.
Segments(pairs, c, derived) ==
    {Edge(UnitAt(q[1], q[2]), UnitAt(q[3], q[4]), c, "derived_cable_segment", derived) :
        q \in {r \in pairs : /\ NoUnit \notin {UnitAt(r[1], r[2]), UnitAt(r[3], r[4])}
                             /\ UnitAt(r[1], r[2]) # UnitAt(r[3], r[4])}}

PlacesOf(T) == UNION {{<<t, n>> : n \in PathPositions(t)} : t \in T}
\* Pairs that a map from <<end, connector, position>> to <<connector,
\* position>> yields: the profile of the cable, or its assembly template.
MappedPairs(map, L, R) ==
    {q \in {l \o r : l \in PlacesOf(L), r \in PlacesOf(R)} :
        LET from == plant.plug[q[1]] \o <<q[2]>>
        IN  from \in DOMAIN map /\ map[from] = <<plant.plug[q[3]][2], q[4]>>}

\* The breakout profile of the plugin: its children are numbered in sequence,
\* or by the map that was entered.
BreakoutProfile(mode, count, map) ==
    [count |-> count, map |-> IF mode = "sequential" THEN [i \in 1..count |-> i - 1] ELSE map]
OrdinalOf(b, n) == b.map[IF n = 0 THEN 1 ELSE n]
Mapped(b, n) == (IF n = 0 THEN 1 ELSE n) \in DOMAIN b.map
\* Positions of the left side go to the positions of a single peer, or to the
\* peers in the order of their names.
RawPositions(b, t) == IF PathPositions(t) = {0} /\ b.count > 1 THEN 1..b.count ELSE PathPositions(t)
BreakoutPairs(b, L, R) ==
    LET from == UNION {{<<l, n>> : n \in {m \in RawPositions(b, l) : Mapped(b, m)}} : l \in L}
        Rank(r) == Cardinality({s \in R : s.pk < r.pk})
    IN  IF b.count = 0 THEN {}
        ELSE IF Cardinality(R) = 1
        THEN {q \in {<<f[1], f[2], r, OrdinalOf(b, f[2]) + 1>> : f \in from, r \in R} :
                /\ NoUnit \notin {UnitAt(q[1], q[2]), UnitAt(q[3], q[4])}
                /\ UnitAt(q[1], q[2]) # UnitAt(q[3], q[4])}
        ELSE {q \in {<<f[1], f[2], r, 0>> : f \in from, r \in R} : Rank(q[3]) = OrdinalOf(b, q[2])}

\* One end each, one position each: nothing to map.
CanIdentityMap(L, R) == Cardinality(PlacesOf(L)) = 1 /\ Cardinality(PlacesOf(R)) = 1
IdentityPairs(L, R) == {<<q[1], 0, q[2], 0>> : q \in {p \in L \X R : CanIdentityMap(L, R)}}

CableEdges(L, c, R) ==
    LET cable == plant.cables[c]
        profile == MappedPairs(cable.profile, L, R)
        assembly == MappedPairs(cable.assembly, L, R)
        breakout == BreakoutPairs(cable.breakout, L, R)
    IN  CASE profile # {} -> Segments(profile, c, TRUE)
          [] profile = {} /\ assembly # {} -> Segments(assembly, c, TRUE)
          [] profile \cup assembly = {} /\ breakout # {} -> Segments(breakout, c, TRUE)
          [] OTHER -> Segments(IdentityPairs(L, R), c, FALSE)

\* The port mappings a step from one side of a passive device to the other
\* uses.  The edge joins the units that are found, the transfer map those
\* the mapping names.
Crossed(L, R) ==
    {m \in plant.mappings :
        \/ m.front \in L /\ m.rear \in R /\ \E n \in PathPositions(m.front) : m.fpos = Max({n, 1})
        \/ m.rear \in L /\ m.front \in R /\ m.rpos \in PathPositions(m.rear)}
PassthroughEdge(m) == Edge(UnitAt(m.front, m.fpos), UnitAt(m.rear, m.rpos), m.pk, "passthrough_map", FALSE)
TransferMap(m) == [key |-> m.pk, src |-> OwnUnit(m.front, m.fpos), dst |-> OwnUnit(m.rear, m.rpos)]

IsCable(step) == step.cable # NoCable
PathEdges(path) ==
    (UNION {CableEdges(path[i - 1].ends, path[i].cable, path[i + 1].ends) :
             i \in {j \in 2..(Len(path) - 1) : IsCable(path[j])}})
    \cup {PassthroughEdge(m) : m \in UNION {Crossed(path[i].ends, path[i + 1].ends) : i \in 1..(Len(path) - 1)}}
PathTransfers(path) ==
    {TransferMap(m) : m \in UNION {Crossed(path[i].ends, path[i + 1].ends) : i \in 1..(Len(path) - 1)}}

FineKey(e) == <<e.ends, e.via, e.kind>>
\* Mutant: one edge for each cable.
SameKeyByCable(e, f) == e.via = f.via
\* setdefault: the first of two edges with the same key stays.
SameKey(e, f) == FineKey(e) = FineKey(f)
Adding(old, new) == old \cup {e \in new : \A f \in old : ~SameKey(e, f)}

-----------------------------------------------------------------------------
TransformInit ==
    /\ plant \in Plants
    /\ todo = plant.paths
    /\ edges = {} /\ transfers = {} /\ laneLinks = {}
    /\ lanes = [u \in Units |-> 0]
    /\ graph = NoGraph
    /\ links = {} /\ seen = {} /\ component = {} /\ queue = {}
    /\ members = [m \in Units \X Planes |-> "none"]
    /\ seeded = [u \in Units |-> {}]
    /\ stage = "extracted"

\* The loop over terminations; plane numbers of the custom field.
RecordMemberships ==
    /\ stage = "extracted"
    /\ members' = [m \in Units \X Planes |->
                    IF m[1] \in AttachmentUnits /\ m[2] \in SeedPlanes(m[1]) THEN "native" ELSE "none"]
    /\ stage' = "paths"
    /\ UNCHANGED <<links, seeded, seen, component, queue, transform>>

WalkPath(path) ==
    /\ stage = "paths"
    /\ path \in todo
    /\ todo' = todo \ {path}
    /\ edges' = Adding(edges, PathEdges(path))
    /\ transfers' = transfers \cup PathTransfers(path)
    /\ UNCHANGED <<propagation, plant, lanes, laneLinks, graph>>

\* The first lines of _propagate_plane_memberships.
Adjacency == (UNION {{<<u, v>> : u \in e.ends, v \in e.ends} \ {<<u, u>> : u \in e.ends} : e \in edges})
                \cup {<<t.src, t.dst>> : t \in transfers}
BeginPropagation ==
    /\ stage = "paths"
    /\ todo = {}
    /\ links' = Adjacency
    /\ seeded' = [u \in Units |-> {p \in Planes : members[u, p] # "none"}]
    /\ stage' = "idle"
    /\ UNCHANGED <<members, seen, component, queue, transform>>

\* The number of lanes of a unit is the largest of the units connected with
\* it; every cable segment and every transfer map then joins lanes of equal
\* index.
\* Mutant: a unit has the lanes of its own speed only.
OwnLaneCount(sets, u) == SeedLanes(u)
LaneCount(sets, u) == Max({0} \cup {SeedLanes(v) : v \in {w \in ChildUnits : ConnectedIn(sets, u, w)}})
LanesJoined(ends, count) == {{<<u, i>> : u \in ends} : i \in 0..(Min({count[u] : u \in ends}) - 1)}
MaterializeLanes ==
    /\ stage = "propagated"
    /\ LET sets == ClosedSets
       IN  lanes' = [u \in Units |-> IF plant.lanesOn THEN LaneCount(sets, u) ELSE 0]
    /\ IF {u \in Units : lanes'[u] > 0} \subseteq AttachmentUnits
       THEN /\ stage' = "lanes"
            /\ laneLinks' = UNION {LanesJoined(ends, lanes') :
                    ends \in {e.ends : e \in {f \in edges : f.kind = "derived_cable_segment"}}
                                \cup {{t.src, t.dst} : t \in transfers}}
       ELSE stage' = "refused" /\ UNCHANGED laneLinks
    /\ UNCHANGED <<links, members, seeded, seen, component, queue, plant, todo, edges, transfers, graph>>

\* Every key must name a unit, and a termination cannot have two units with
\* the same ordinal.
Named == {t.src : t \in transfers} \cup {t.dst : t \in transfers}
            \cup {m[1] : m \in {n \in Units \X Planes : members[n] # "none"}}
BuildGraph ==
    /\ stage = "lanes"
    /\ LET keysResolve == Named \subseteq AttachmentUnits
           ordinalsUnique == IsInjective([u \in AttachmentUnits |-> <<u.of, Ordinal(u)>>])
       IN  IF keysResolve /\ ordinalsUnique
           THEN /\ stage' = "built"
                /\ graph' = [units |-> AttachmentUnits,
                             planes |-> {m[2] : m \in {n \in Units \X Planes : members[n] # "none"}}
                                            \cup 1..ExpectedPlanes]
           ELSE stage' = "refused" /\ UNCHANGED graph
    /\ UNCHANGED <<links, members, seeded, seen, component, queue, plant, todo, edges, transfers, lanes, laneLinks>>

Propagate == PropagationNext /\ UNCHANGED transform

TransformNext ==
    \/ RecordMemberships
    \/ \E path \in todo : WalkPath(path)
    \/ BeginPropagation
    \/ Propagate
    \/ MaterializeLanes
    \/ BuildGraph

TransformSpec == TransformInit /\ [][TransformNext]_vars

-----------------------------------------------------------------------------
Transformed == stage \in {"propagated", "lanes", "built"}

AllEdges == UNION {PathEdges(path) : path \in plant.paths}
KeysOf(E) == {FineKey(e) : e \in E}
OneChildProfile == \E c \in DOMAIN plant.cables : plant.cables[c].breakout.count = 1

\* The edges do not depend on the order in which the database returns the
\* cable paths, although the first edge with a key wins.  Whether a profile
\* made an edge does not either, unless the breakout profile of the plugin
\* has one child: that maps the base of an interface to a port, but not the
\* port to the base of the interface, which is mapped by identity.
EdgesOrderFree ==
    Transformed => /\ KeysOf(edges) = KeysOf(AllEdges)
                   /\ OneChildProfile \/ (edges = AllEdges /\ \A e, f \in edges : SameKey(e, f) => e = f)

\* A port has the primary key of an interface with child interfaces.
PortWithChildren == \E t \in plant.terms : t.kind # "interface" /\ ChildrenOf(t) # {}

\* Lanes run through: in a graph that is built, connected units have equally
\* many lanes, each cable segment and each passive mapping joins all of them,
\* and no lane continues in a lane of another index.
LanesRunThrough ==
    stage = "built" /\ ~PortWithChildren =>
        /\ \A l \in links : lanes[l[1]] = lanes[l[2]]
        /\ \A e \in edges : \A u, v \in e.ends : \A i \in 0..(lanes[u] - 1) :
                u # v => {<<u, i>>, <<v, i>>} \in laneLinks
        /\ \A k \in laneLinks : \A x, y \in k : x[2] = y[2]

\* docs/data_model.md:470-476 has a transfer map for every position that a
\* passive device passes through.  Only a front port has no unit for its
\* positions but the first, and the build stops: RefusedPassage.cfg.
PassagesAreBuilt == stage = "refused" => PortWithChildren
=============================================================================

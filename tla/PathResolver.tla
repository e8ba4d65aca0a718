---------------------------- MODULE PathResolver ----------------------------
(***************************************************************************)
(* One request for a path, for what can be reached, for a blast radius or  *)
(* for a representative lane path (services/graph/resolver.py and          *)
(* blast_radius.py), from the load of its objects to its answer, query by  *)
(* query; each query sees what is committed, and a rebuild may commit      *)
(* between two of them.  A rebuild replaces every graph object by a new    *)
(* one: an object is [build, unit, lane], lane 0 for the attachment unit   *)
(* itself.  Objects of NetBox keep their identity.  Serialised references  *)
(* are left out, and so is a signal lane chosen by its own primary key.    *)
(***************************************************************************)
EXTENDS PathSearch, FiniteSetsExt, SequencesExt

CONSTANTS Units, MaxLanes,  \* attachment units, numbered in the order of their keys
          Graphs,           \* the graphs a rebuild may make
          MaxBuilds,        \* bound on the number of builds
          Requests,         \* the requests
          NoTarget, NoPlane \* no destination, no plane filter

\* A graph joins two of its own units per row; only a path has a destination,
\* and representative paths are paths of lanes.
IsGraph(g) ==
    /\ g.units \subseteq Units
    /\ g.lanes \in [Units -> 0..MaxLanes]
    /\ \A e \in g.edges \cup g.maps : \E u, v \in g.units : e = {u, v}
IsTarget(t) == t = NoTarget \/ t.units \subseteq Units
IsRequest(r) ==
    /\ r.kind \in {"path", "reach", "blast", "farthest"}
    /\ IsTarget(r.source) /\ IsTarget(r.destination)
    /\ r.kind # "path" => r.destination = NoTarget
    /\ r.kind = "farthest" => r.resolution = "signal_lane"
    /\ r.depth \in Depths

ASSUME NodesAreObjects ==
    /\ Units \subseteq Nat /\ IsFiniteSet(Units)
    /\ MaxLanes \in Nat /\ MaxBuilds \in Nat \ {0}
    /\ Nodes = [build : 1..MaxBuilds, unit : Units, lane : 0..MaxLanes]
ASSUME GraphsAreGraphs == \A g \in Graphs : IsGraph(g)
ASSUME RequestsAreRequests == \A r \in Requests : IsRequest(r)

VARIABLES
    graphs,     \* what each build made; the last one is in the database
    asked,      \* how many builds there were when the request came
    request,
    step,       \* the next query
    plane,      \* the plane the request was given
    fabrics,    \* the fabrics of its ends
    allowed,    \* the units of that plane
    answer

resolver == <<graphs, asked, request, step, plane, fabrics, allowed, answer>>
vars == <<search, resolver>>

Now == Len(graphs)
Units0 == {[build |-> b, unit |-> u, lane |-> 0] : b \in 1..MaxBuilds, u \in Units}
Answer(is, nodes) == [is |-> is, nodes |-> nodes, planes |-> {}]
Signal == request.resolution = "signal_lane"

-----------------------------------------------------------------------------
(* What one build holds *)

Node(b, u, l) == [build |-> b, unit |-> u, lane |-> l]
NodesIn(b) == {Node(b, u, l) : u \in graphs[b].units, l \in 0..MaxLanes}
Lanes(b, u) == {Node(b, u, l) : l \in 1..graphs[b].lanes[u]}

\* An interface or port of NetBox leads to the units it is the source of;
\* a graph object that was deleted leads nowhere, unless it is the unit.
UnitsOf(b, target) ==
    CASE target.kind = "netbox" -> {Node(b, u, 0) : u \in target.units \cap graphs[b].units}
      [] target.kind = "owner" /\ target.build = b -> {Node(b, u, 0) : u \in target.units}
      [] target.kind = "unit" -> {Node(target.build, u, 0) : u \in target.units}
      [] OTHER -> {}

\* The lanes of the first unit that has any, or the one with the index asked for.
LanesOf(b, target) ==
    LET lit == {n.unit : n \in {m \in UnitsOf(b, target) : m.build = b /\ graphs[b].lanes[m.unit] > 0}}
    IN  IF lit = {} THEN {}
        ELSE {n \in Lanes(b, Min(lit)) : target.lane # 0 => n.lane = target.lane}

EndsOf(b, target) ==
    IF target = NoTarget THEN {}
    ELSE IF Signal THEN LanesOf(b, target) ELSE UnitsOf(b, target)

FabricsOf(S) == {graphs[n.build].fabric[n.unit] : n \in S}
MembersOf(b, p) ==
    IF p = NoPlane THEN Units0
    ELSE IF p.build = b THEN {Node(b, u, 0) : u \in {w \in graphs[b].units : p.number \in graphs[b].planes[w]}}
    ELSE {}

\* Mutant: rows with one end in scope.
RowsHalfIn(b, pairs, F, A) ==
    LET Scoped(u) == graphs[b].fabric[u] \in F /\ Node(b, u, 0) \in A
        scoped == {e \in pairs : \E u \in e : Scoped(u)}
    IN  IF ~Signal THEN {{Node(b, u, 0) : u \in e} : e \in scoped}
        ELSE UNION {{{Node(b, u, l) : u \in e} : l \in 1..Min({graphs[b].lanes[u] : u \in e})} : e \in scoped}

\* Rows of fine edges, transfer maps and lane maps with both ends in scope.
Rows(b, pairs, F, A) ==
    LET Scoped(u) == graphs[b].fabric[u] \in F /\ Node(b, u, 0) \in A
        scoped == {e \in pairs : \A u \in e : Scoped(u)}
    IN  IF ~Signal THEN {{Node(b, u, 0) : u \in e} : e \in scoped}
        ELSE UNION {{{Node(b, u, l) : u \in e} : l \in 1..Min({graphs[b].lanes[u] : u \in e})} : e \in scoped}
Joining(rows) == [n \in Nodes |-> UNION {e \ {n} : e \in {f \in rows : n \in f}}]

-----------------------------------------------------------------------------
ResolverInit ==
    /\ graphs \in {<<g>> : g \in Graphs}
    /\ asked = 0
    /\ request \in Requests
    /\ step = "idle"
    /\ plane = NoPlane
    /\ fabrics = {} /\ allowed = {}
    /\ answer = Answer("pending", <<>>)
    /\ adjacency = [n \in Nodes |-> {}]
    /\ sources = {} /\ destinations = {}
    /\ limit = request.depth
    /\ queue = <<>>
    /\ distance = [n \in {} |-> 0] /\ parent = [n \in {} |-> n]
    /\ mode = "off"

\* build_graph commits.
Rebuild(g) ==
    /\ Now < MaxBuilds
    /\ step # "done"
    /\ graphs' = Append(graphs, g)
    /\ UNCHANGED <<search, asked, request, step, plane, fabrics, allowed, answer>>

Reply(a) ==
    /\ answer' = a
    /\ step' = "done"
    /\ UNCHANGED <<search, graphs, asked, request, plane, fabrics, allowed>>
GoTo(s) == step' = s /\ UNCHANGED <<graphs, asked, request, answer>>

\* The registry finds the objects by primary key.  A page refuses a plane
\* that does not exist; a query of the GraphQL schema goes on without one.
Exists(target) == target = NoTarget \/ target.kind = "netbox" \/ target.build = Now
PlaneExists(p) == p # NoPlane /\ p.build = Now
Ask ==
    /\ step = "idle"
    /\ asked' = Now
    /\ IF /\ Exists(request.source) /\ Exists(request.destination)
          /\ request.entry = "page" /\ request.plane # NoPlane => PlaneExists(request.plane)
       THEN /\ step' = "source"
            /\ plane' = IF PlaneExists(request.plane) THEN request.plane ELSE NoPlane
            /\ UNCHANGED <<search, graphs, request, fabrics, allowed, answer>>
       ELSE /\ step' = "done"
            /\ answer' = Answer("refused", <<>>)
            /\ UNCHANGED <<search, graphs, request, plane, fabrics, allowed>>

FindSources ==
    /\ step = "source"
    /\ IF EndsOf(Now, request.source) = {} /\ request.kind # "blast"
       THEN Reply(Answer("none", <<>>))
       ELSE /\ sources' = EndsOf(Now, request.source)
            /\ GoTo("destination")
            /\ UNCHANGED <<adjacency, destinations, limit, queue, distance, parent, mode, plane, fabrics, allowed>>

\* Only lane paths are refused when the fabrics differ.
FindDestinations ==
    /\ step = "destination"
    /\ LET ends == EndsOf(Now, request.destination)
       IN  IF /\ request.kind = "path"
              /\ ends = {} \/ (Signal /\ FabricsOf(sources) \cap FabricsOf(ends) = {})
           THEN Reply(Answer("none", <<>>))
           ELSE /\ destinations' = ends
                /\ GoTo("scope")
                /\ UNCHANGED <<adjacency, sources, limit, queue, distance, parent, mode, plane, fabrics, allowed>>

\* The fabric of a unit is read from the database, that of a lane was loaded
\* with it; only the lane found by the first of two searches is read again.
ReadScope ==
    /\ step = "scope"
    /\ IF \E n \in (IF Signal THEN destinations \cap Reached ELSE sources \cup destinations) : n.build # Now
       THEN Reply(Answer("error", <<>>))
       ELSE /\ fabrics' = IF sources = {} THEN FabricsOf(NodesIn(Now)) ELSE FabricsOf(sources \cup destinations)
            /\ GoTo("plane")
            /\ UNCHANGED <<search, plane, allowed>>

ReadPlane ==
    /\ step = "plane"
    /\ allowed' = MembersOf(Now, plane)
    /\ GoTo("edges")
    /\ UNCHANGED <<search, plane, fabrics>>

ReadEdges ==
    /\ step = "edges"
    /\ adjacency' = Joining(Rows(Now, graphs[Now].edges, fabrics, allowed))
    /\ GoTo("maps")
    /\ UNCHANGED <<sources, destinations, limit, queue, distance, parent, mode, plane, fabrics, allowed>>

ReadMaps ==
    /\ step = "maps"
    /\ LET joined == Joining(Rows(Now, graphs[Now].maps, fabrics, allowed))
       IN  adjacency' = [n \in Nodes |-> adjacency[n] \cup joined[n]]
    /\ GoTo("search")
    /\ UNCHANGED <<sources, destinations, limit, queue, distance, parent, mode, plane, fabrics, allowed>>

Walk ==
    /\ step = "search"
    /\ (\E q \in SetToSeqs(sources) : Enqueue(q)) \/ SearchNext
    /\ UNCHANGED resolver

\* Mutant: the lanes with the largest distance that max_depth allows.
PickAtLimit ==
    /\ step = "search" /\ mode = "exhausted" /\ request.kind = "farthest" /\ destinations = {}
    /\ destinations' = {n \in Reached : distance[n] = limit} \cup sources
    /\ mode' = "off"
    /\ GoTo("scope")
    /\ UNCHANGED <<adjacency, sources, limit, queue, distance, parent, plane, fabrics, allowed>>

\* The lane with the least primary key of those that are farthest, or the
\* lane itself when a rebuild has deleted it; then a path to it.
Farthest ==
    LET far == {n \in Reached : distance[n] = Max({distance[m] : m \in Reached})}
        first == CHOOSE n \in far : \A m \in far : n.unit < m.unit \/ (n.unit = m.unit /\ n.lane <= m.lane)
    IN  IF first.build = Now THEN {first} ELSE sources
PickFarthest ==
    /\ step = "search" /\ mode = "exhausted" /\ request.kind = "farthest" /\ destinations = {}
    /\ destinations' = Farthest
    /\ mode' = "off"
    /\ GoTo("scope")
    /\ UNCHANGED <<adjacency, sources, limit, queue, distance, parent, plane, fabrics, allowed>>

TrailTo(found) ==
    LET trail[d \in 0..distance[found]] == IF d = 0 THEN <<found>> ELSE <<parent[trail[d - 1][1]]>> \o trail[d - 1]
    IN  trail[distance[found]]

\* Mutant: what was reached is not looked up again.
AsReached(S) == S
StillThere(S) == {n \in S : n.build = Now}

\* The rows of the nodes that were reached are loaded; a node of the path
\* that is no longer there is a key error.
LoadNodes ==
    /\ step = "search"
    /\ \/ /\ mode = "found"
          /\ \E n \in Elements(TrailTo(Head(queue))) : n.build # Now
          /\ Reply(Answer("error", <<>>))
       \/ /\ mode = "found"
          /\ \A n \in Elements(TrailTo(Head(queue))) : n.build = Now
          /\ answer' = Answer("path", TrailTo(Head(queue)))
          /\ step' = "planes"
          /\ UNCHANGED <<search, graphs, asked, request, plane, fabrics, allowed>>
       \/ /\ mode = "exhausted" /\ destinations = {} /\ request.kind # "farthest"
          /\ LET rows == StillThere(Reached)
             IN  Reply(IF rows = {} /\ request.kind = "reach" THEN Answer("none", <<>>)
                       ELSE Answer(request.kind, {<<n, IF request.kind = "blast" THEN distance[n] ELSE 0>> : n \in rows}))
       \/ /\ mode = "exhausted" /\ destinations # {}
          /\ Reply(Answer("none", <<>>))

\* planes_touched
PlanesOf(S) == UNION {graphs[n.build].planes[n.unit] : n \in {m \in S : m.build = Now}}
ReadPlanes ==
    /\ step = "planes"
    /\ Reply([answer EXCEPT !.planes = PlanesOf(Elements(answer.nodes))])

ResolverNext ==
    \/ \E g \in Graphs : Rebuild(g)
    \/ Ask \/ FindSources \/ FindDestinations
    \/ ReadScope \/ ReadPlane \/ ReadEdges \/ ReadMaps
    \/ Walk \/ PickFarthest \/ LoadNodes \/ ReadPlanes

ResolverSpec == ResolverInit /\ [][ResolverNext]_vars

-----------------------------------------------------------------------------
(* What one build says of the request, by the sets of nodes within k steps. *)

AllRows(b) ==
    Rows(b, graphs[b].edges \cup graphs[b].maps,
         FabricsOf(EndsOf(b, request.source) \cup EndsOf(b, request.destination)), MembersOf(b, plane))
Around(rows, S) == S \cup UNION {e \in rows : e \cap S # {}}
BallsOf(rows, S, radius) ==
    LET ball[k \in 0..radius] == IF k = 0 THEN S ELSE Around(rows, ball[k - 1])
    IN  ball
DistanceIn(balls, radius, n) == Min({k \in 0..radius : n \in balls[k]})
EccentricityIn(balls, radius) == Max({0} \cup {DistanceIn(balls, radius, n) : n \in balls[radius]})
Balls(b) == BallsOf(AllRows(b), EndsOf(b, request.source), limit)

IsPathIn(b, path) ==
    LET balls == Balls(b)
        reachable == EndsOf(b, request.destination) \cap balls[limit]
    IN  /\ path[1] \in EndsOf(b, request.source)
        /\ \A i \in 2..Len(path) : {path[i - 1], path[i]} \in AllRows(b)
        /\ request.kind = "path" =>
              /\ path[Len(path)] \in reachable
              /\ Len(path) - 1 = Min({DistanceIn(balls, limit, n) : n \in reachable})
        /\ request.kind = "farthest" => Len(path) - 1 = EccentricityIn(balls, limit)
NoPathIn(b) ==
    LET S == EndsOf(b, request.source)
        D == EndsOf(b, request.destination)
    IN  \/ S = {}
        \/ /\ request.kind = "path"
           /\ D \cap Balls(b)[limit] = {} \/ (Signal /\ FabricsOf(S) \cap FabricsOf(D) = {})

IsAnswerOf(b, a) ==
    /\ a.is \in {"path", "none", "reach", "blast"}
    /\ a.is = "path" => IsPathIn(b, a.nodes)
    /\ a.is = "none" => NoPathIn(b)
    /\ a.is = "reach" => a.nodes = {<<n, 0>> : n \in Balls(b)[limit]}
    /\ a.is = "blast" => a.nodes = {<<n, DistanceIn(Balls(b), limit, n)>> : n \in Balls(b)[limit]}

\* However a rebuild falls between the queries, an answer that names objects
\* is the right answer of one of the builds of that time, never a mixture
\* (resolver.py:325-490, blast_radius.py:23-61).
AnswersOneGraph ==
    step = "done" /\ (answer.is = "path" \/ (answer.is \in {"reach", "blast"} /\ answer.nodes # {})) =>
        \E b \in asked..Now : IsAnswerOf(b, answer)

\* Without a rebuild each request is answered, and rightly: a path if and
\* only if one is within max_depth, and a shortest; a representative path
\* leads to a lane that is farthest.
AloneIsRight == step = "done" /\ asked = Now /\ answer.is # "refused" => IsAnswerOf(Now, answer)

\* A path that a page was asked for in a plane stays in it, and touches it.
PlaneKept ==
    step = "done" /\ request.plane # NoPlane /\ request.entry = "page" /\ answer.is = "path" /\ Len(answer.nodes) > 1 =>
        /\ \A n \in Elements(answer.nodes) : request.plane.number \in graphs[n.build].planes[n.unit]
        /\ asked = Now => request.plane.number \in answer.planes
=============================================================================

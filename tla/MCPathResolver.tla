--------------------------- MODULE MCPathResolver ---------------------------
(* Two hosts behind a shuffle module, a graph with a loop and a branch, and *)
(* two fabrics; requests with and without a plane, from pages and from      *)
(* GraphQL, of objects of the first or the second build and of NetBox.      *)
EXTENDS PathResolver

MCUnits == 1..5
MCMaxBuilds == 3
MCMaxLanes == 2
MCNodes == [build : 1..MCMaxBuilds, unit : MCUnits, lane : 0..MCMaxLanes]

Graph(units, edges, maps, lanes, planes, far) ==
    [units |-> units, edges |-> edges, maps |-> maps,
     lanes |-> [u \in MCUnits |-> IF u \in units THEN lanes[u] ELSE 0],
     planes |-> [u \in MCUnits |-> IF u \in units THEN planes[u] ELSE {}],
     fabric |-> [u \in MCUnits |-> IF u \in far THEN "F2" ELSE "F1"]]
Line == Graph(1..4, {{1, 2}, {3, 4}}, {{2, 3}}, <<2, 2, 2, 2, 0>>, <<{1}, {1}, {1}, {1}, {}>>, {})
Loop == Graph(1..5, {{1, 2}, {2, 3}, {1, 4}}, {{3, 4}, {4, 5}}, <<1, 1, 1, 1, 1>>, <<{1, 2}, {1}, {1}, {2}, {2}>>, {})
Twin == Graph(1..5, {{1, 2}, {4, 5}}, {{2, 3}}, <<0, 0, 0, 2, 2>>, <<{1}, {1}, {1}, {2}, {2}>>, {4, 5})
MCGraphs == {g : g \in {Line, Loop, Twin}}

Target(kind, b, U, l) == [kind |-> kind, build |-> b, units |-> U, lane |-> l]
Port(u) == Target("netbox", 0, {u}, 0)
Request(kind, res, from, to, p, depth, entry) ==
    [kind |-> kind, resolution |-> res, source |-> from, destination |-> to, plane |-> p, depth |-> depth, entry |-> entry]
Plane(b, n) == [build |-> b, number |-> n]
AU == "attachment_unit"
SL == "signal_lane"
MCDepths == {1, 2, 4}

Paths == {Request("path", AU, from, to, p, d, e) :
            from \in {Port(1), Target("owner", 1, {1, 2}, 0), Target("unit", 1, {1}, 0)},
            to \in {Port(5), Port(3), Target("unit", 1, {3}, 0)},
            p \in {NoPlane, Plane(1, 1), Plane(1, 2)}, d \in {2, 4}, e \in {"page", "graphql"}}
LanePaths == {Request("path", SL, from, to, p, 4, "page") :
                from \in {Port(1), Target("netbox", 0, {1}, 2), Target("owner", 1, {3, 4}, 1)},
                to \in {Port(4), Target("netbox", 0, {3, 4}, 1), Port(1)}, p \in {NoPlane, Plane(1, 1)}}
Reaches == {Request("reach", r, Port(1), NoTarget, p, d, "graphql") :
                r \in {AU, SL}, p \in {NoPlane, Plane(1, 2), Plane(2, 2)}, d \in {1, 4}}
Blasts == {Request("blast", r, from, NoTarget, NoPlane, 4, "page") :
                r \in {AU, SL}, from \in {Port(2), Port(5), Target("owner", 1, {2, 3}, 0)}}
Farthests == {Request("farthest", SL, from, NoTarget, NoPlane, d, "page") :
                from \in {Target("netbox", 0, {1}, 1), Target("unit", 1, {2}, 2)}, d \in {1, 2, 4}}
MCRequests == {r : r \in Paths \cup LanePaths \cup Reaches \cup Blasts \cup Farthests}
=============================================================================

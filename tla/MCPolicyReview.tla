--------------------------- MODULE MCPolicyReview ---------------------------
(* Two shuffle modules whose units carry both planes, edges between them    *)
(* that bridge the planes, and an active switch; rebuilds of that plant and *)
(* of one without bridges, and memberships that are edited by hand.         *)
EXTENDS PolicyReview

MCNodeOf == <<1, 1, 2, 2, 3>>
Edge(id, a, b, parent) == [id |-> id, a |-> a, b |-> b, parent |-> parent]
Graph(units, edges, planes) == [units |-> units, edges |-> edges, planes |-> planes]
Bridged == Graph(1..5, {Edge(1, 1, 3, 1), Edge(2, 2, 5, 2)}, <<{1}, {2}, {2}, {1}, {1}>>)
Clean == Graph(1..4, {Edge(1, 1, 3, 1)}, <<{1}, {1}, {1}, {2}>>)
MCGraphs == {g : g \in {Bridged, Clean}}
\* All planes, and one more.
MCEdits == {<<3, {1, 2, 3}>>, <<1, {1, 3}>>}

Job(kind, S) == [kind |-> kind, scope |-> S]
All == {1, 2, 3}
MCScenarios ==
    {[requests |-> <<Job("dashboard", All), Job("dashboard", All)>>, exceptions |-> {}],
     [requests |-> <<Job("review", All)>>, exceptions |-> {"x1"}],
     [requests |-> <<Job("audit", All), Job("audit", {1, 2})>>, exceptions |-> {}]}

Wish(via, type, model, id, pair, expires) ==
    [via |-> via, type |-> type, model |-> model, id |-> id, pair |-> pair, expires |-> expires]
MCWishes == {Wish("api", "shared_passive_artifact", "plantnode", 1, {1, 2}, "soon"),
             Wish("form", "shared_passive_artifact", "plantnode", 1, {1, 2}, "never"),
             Wish("api", "cross_plane_fine_edge", "fineedge", 1, {1, 2}, "never"),
             Wish("api", "contamination_domain", "attachmentunit", 1, {1, 2}, "never"),
             Wish("api", "contamination_domain", "plantnode", 2, {1, 3}, "never")}
=============================================================================

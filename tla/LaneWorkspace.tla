--------------------------- MODULE LaneWorkspace ---------------------------
(***************************************************************************)
(* The lane workspace (services/graph/lane_workspace.py): the members of a *)
(* lane set as rows, filtered by a plane, gathered into groups of which    *)
(* one is selected, with the lanes of one index in lane mode.  A workspace *)
(* is shown for a query, and its links lead to other queries.  Left out:   *)
(* groups by node and by representative path, the findings and the         *)
(* comparison beside the rows, and what only words a page.                 *)
(***************************************************************************)
EXTENDS LaneViews

CONSTANT NoLane

NoPlane == 0
\* Lanes and planes are told from none of them.
ASSUME NoneIsNone == NoLane \notin Int /\ NoPlane \notin Planes
GroupKey(by, u, p) == [by |-> by, unit |-> u, plane |-> p]
NoGroup == GroupKey("none", NoUnit, NoPlane)
\* group_by, group_key, mode, lane_index and plane_id.
Query(by, group, mode, lane, plane) ==
    [by |-> by, group |-> group, mode |-> mode, lane |-> lane, plane |-> plane]

\* A query that names a lane is for lane mode, whatever mode it names.
Normalized(q) == [q EXCEPT !.mode = IF q.lane # NoLane THEN "lane" ELSE @]

LanesOf(rows) == UNION {0..(m.present - 1) : m \in rows}
FilteredRows(s, p) == {m \in s.members : p # NoPlane => p \in m.planes}

\* A row counts in every plane it is in; the key of the rows in none is 0.
PlaneKeys(m) == IF m.planes = {} THEN {NoPlane} ELSE m.planes
RowKeys(by, m) ==
    IF by = "attachment" THEN {GroupKey(by, m.unit, NoPlane)} ELSE {GroupKey(by, NoUnit, p) : p \in PlaneKeys(m)}
GroupKeys(by, rows) == UNION {RowKeys(by, m) : m \in rows}

\* The rows that a group was made of, whose lanes it counts.
CountedRows(key, rows) == {m \in rows : key \in RowKeys(key.by, m)}

SelectedRows(by, key, rows) ==
    IF key.by # by THEN rows
    ELSE IF by = "attachment" THEN {m \in rows : m.unit = key.unit}
    ELSE IF key.plane = NoPlane THEN {m \in rows : m.planes = {}}
    ELSE {m \in rows : key.plane \in m.planes}

\* The lanes of one index, by the unit that has them.
LaneView(rows, lane) == {m.unit : m \in {r \in rows : lane \in LanesOf({r})}}

\* build_lane_workspace: a group that is not there gives way to another, the
\* first in the code, and lane mode to grouped coverage.
Workspace(s, query) ==
    LET q == Normalized(query)
        rows == FilteredRows(s, q.plane)
        keys == GroupKeys(q.by, rows)
        valid == q.group \in keys
        group == IF valid \/ keys = {} THEN q.group ELSE CHOOSE k \in keys : TRUE
        selected == IF keys = {} THEN rows ELSE SelectedRows(q.by, group, rows)
        scope == IF selected # {} THEN selected ELSE rows
        inLane == q.mode = "lane" /\ q.lane # NoLane /\ q.lane \in LanesOf(scope)
    IN  [query |-> [q EXCEPT !.group = group, !.mode = IF inLane THEN "lane" ELSE "grouped"],
         rows |-> rows, selected |-> selected, valid |-> valid,
         view |-> IF inLane THEN LaneView(scope, q.lane) ELSE {}]

-----------------------------------------------------------------------------
(* Links *)

\* The link of a group.  The plane of a group replaces the plane filter.
\* Mutant: the plane filter stays.
GroupLinkKeepsPlane(q, key) == [q EXCEPT !.by = key.by, !.group = key, !.mode = "grouped"]
GroupLink(q, key) ==
    [q EXCEPT !.by = key.by, !.group = key, !.mode = "grouped",
              !.plane = IF key.by = "plane" THEN key.plane ELSE @]

\* The chips that clear a filter; the first is also an action of its own.
WithoutLane(q) == [q EXCEPT !.mode = "grouped", !.lane = NoLane]
WithoutPlane(q) == [q EXCEPT !.plane = NoPlane, !.group = NoGroup]
WithoutGroup(q) == [q EXCEPT !.group = NoGroup]

\* The groups by attachment and by plane are shown whatever the query asks.
ShownGroups(w) == GroupKeys("attachment", w.rows) \cup GroupKeys("plane", w.rows)

\* Queries one starts from, with and without a lane and a plane.
FirstQueries(s) ==
    {Query(by, NoGroup, "grouped", lane, plane) :
        by \in {"attachment", "plane"}, lane \in {NoLane} \cup LanesOf(s.members), plane \in {NoPlane} \cup PlaneIds(s)}

-----------------------------------------------------------------------------
\* A link leads where it says.  Behind the link of any group that a workspace
\* shows, under whatever filters, is a workspace with that group selected, on
\* exactly the unit, or on all units of the lane set in the plane, among them
\* those the group had counted; lane mode survives the link where a unit has
\* that lane, and its view has those units and no other.  Clearing a filter
\* hides no row (lane_workspace.py:256-378, 502-625, 914-1030).
LinksLeadToTheirGroup ==
    stage = "built" =>
        \A s \in LaneSets : \A first \in FirstQueries(s) :
            LET w == Workspace(s, first)
            IN  /\ \A key \in ShownGroups(w) :
                    LET v == Workspace(s, GroupLink(w.query, key))
                    IN  /\ v.valid /\ v.query.group = key
                        /\ CountedRows(key, w.rows) \subseteq v.selected
                        /\ v.selected = {m \in s.members : key \in RowKeys(key.by, m)}
                        /\ v.view = {m.unit : m \in {r \in v.selected : first.lane \in LanesOf({r})}}
                        /\ v.query.mode = "lane" <=> v.view # {}
                /\ \A q \in {WithoutLane(w.query), WithoutPlane(w.query), WithoutGroup(w.query)} :
                    w.rows \subseteq Workspace(s, q).rows
                /\ Workspace(s, WithoutLane(w.query)).query.mode = "grouped"
=============================================================================

-------------------------- MODULE PlantViewsProofs --------------------------
(* Theorems about what the lane pages (LaneViews, LaneWorkspace) and the     *)
(* audit (PlantDiagnostics) say of a graph that was built, for every plant.  *)
EXTENDS PlantTransformProofs, LaneWorkspace, FiniteSetTheorems

-----------------------------------------------------------------------------
(* Links between lane workspaces *)

\* What is needed of a lane set: no unit is in it twice, no member is in the
\* plane that stands for none, no lane is the one that stands for none.
IsNavigable(s) ==
    /\ \A m, n \in s.members : m.unit = n.unit => m = n
    /\ \A m \in s.members : NoPlane \notin m.planes
    /\ NoLane \notin LanesOf(s.members)

Scope(by, group, rows) ==
    LET selected == SelectedRows(by, group, rows) IN IF selected # {} THEN selected ELSE rows

Settled(q, g, m) == [q EXCEPT !.group = g, !.mode = m]
LEMMA QuerySettled ==
  ASSUME NEW by, NEW group, NEW mode, NEW lane, NEW plane, NEW g, NEW m
  PROVE  Settled(Query(by, group, mode, lane, plane), g, m) = Query(by, g, m, lane, plane)
<1> DEFINE Fields == [by : {by}, group : {group, g}, mode : {mode, m}, lane : {lane}, plane : {plane}]
           q == Query(by, group, mode, lane, plane)
           r == Settled(q, g, m)
           x == Query(by, g, m, lane, plane)
<1>1. q \in Fields /\ x \in Fields
  BY DEF Query
<1>2. q.by = by /\ q.lane = lane /\ q.plane = plane
  BY DEF Query
<1>3. x.by = by /\ x.lane = lane /\ x.plane = plane /\ x.group = g /\ x.mode = m
  BY DEF Query
<1> HIDE DEF q, x
<1>4. r \in Fields /\ r.by = by /\ r.lane = lane /\ r.plane = plane /\ r.group = g /\ r.mode = m
  BY <1>1, <1>2 DEF Settled
<1>5. r = x
  BY <1>1, <1>3, <1>4
<1> QED BY <1>5 DEF q, x

LaneShown(s, by, group, lane, plane) ==
    lane # NoLane /\ lane \in LanesOf(Scope(by, group, FilteredRows(s, plane)))

\* The workspace of a query whose group exists.
LEMMA WorkspaceOfGroup ==
  ASSUME NEW s, NEW by, NEW group, NEW mode, NEW lane, NEW plane,
         group \in GroupKeys(by, FilteredRows(s, plane))
  PROVE  LET v == Workspace(s, Query(by, group, mode, lane, plane))
             inLane == LaneShown(s, by, group, lane, plane)
         IN  /\ v.query = Query(by, group, IF inLane THEN "lane" ELSE "grouped", lane, plane)
             /\ v.rows = FilteredRows(s, plane) /\ v.selected = SelectedRows(by, group, FilteredRows(s, plane)) /\ v.valid
             /\ v.view = IF inLane THEN LaneView(Scope(by, group, FilteredRows(s, plane)), lane) ELSE {}
<1> DEFINE rows == FilteredRows(s, plane)
           scope == Scope(by, group, rows)
           inLane == lane # NoLane /\ lane \in LanesOf(scope)
           q == Query(by, group, IF lane # NoLane THEN "lane" ELSE mode, lane, plane)
           v == Workspace(s, Query(by, group, mode, lane, plane))
<1>1. Normalized(Query(by, group, mode, lane, plane)) = q
  BY DEF Normalized, Query
<1>2. q.by = by /\ q.group = group /\ q.lane = lane /\ q.plane = plane /\ (lane # NoLane => q.mode = "lane")
  BY DEF Query
<1>3. GroupKeys(by, rows) # {}
  OBVIOUS
<1>4. /\ v.query = [q EXCEPT !.group = group, !.mode = IF inLane THEN "lane" ELSE "grouped"]
      /\ v.rows = rows /\ v.selected = SelectedRows(by, group, rows) /\ v.valid
      /\ v.view = IF inLane THEN LaneView(scope, lane) ELSE {}
  <2> HIDE DEF q, rows
  <2>1. /\ v.query = [q EXCEPT !.group = group,
                               !.mode = IF q.mode = "lane" /\ q.lane # NoLane /\ q.lane \in LanesOf(scope) THEN "lane" ELSE "grouped"]
        /\ v.rows = FilteredRows(s, q.plane) /\ v.selected = SelectedRows(by, group, rows) /\ v.valid
        /\ v.view = IF q.mode = "lane" /\ q.lane # NoLane /\ q.lane \in LanesOf(scope) THEN LaneView(scope, q.lane) ELSE {}
    BY <1>1, <1>2, <1>3 DEF Workspace, Scope, rows
  <2>2. FilteredRows(s, q.plane) = rows
    BY <1>2 DEF rows
  <2>3. (q.mode = "lane" /\ q.lane # NoLane /\ q.lane \in LanesOf(scope)) <=> inLane
    BY <1>2
  <2> QED BY <1>2, <2>1, <2>2, <2>3
<1>5. [q EXCEPT !.group = group, !.mode = IF inLane THEN "lane" ELSE "grouped"]
        = Query(by, group, IF inLane THEN "lane" ELSE "grouped", lane, plane)
  <2> DEFINE m == IF inLane THEN "lane" ELSE "grouped"
             old == IF lane # NoLane THEN "lane" ELSE mode
  <2>1. Settled(Query(by, group, old, lane, plane), group, m) = Query(by, group, m, lane, plane)
    <3> HIDE DEF m, old
    <3> QED BY QuerySettled
  <2> QED BY <2>1 DEF Settled
<1> QED BY <1>4, <1>5 DEF LaneShown

\* The workspace of any query keeps its lane and plane, shows the rows of its
\* plane, and is in lane mode only where a lane is asked for.
LEMMA WorkspaceOfQuery ==
  ASSUME NEW s, NEW by, NEW group, NEW mode, NEW lane, NEW plane
  PROVE  LET v == Workspace(s, Query(by, group, mode, lane, plane))
         IN  /\ \E g, m : v.query = Query(by, g, m, lane, plane)
             /\ v.rows = FilteredRows(s, plane)
             /\ v.query.mode = "lane" \/ v.query.mode = "grouped"
             /\ v.query.mode = "lane" => lane # NoLane
<1> DEFINE v == Workspace(s, Query(by, group, mode, lane, plane))
           q == Query(by, group, IF lane # NoLane THEN "lane" ELSE mode, lane, plane)
<1>1. Normalized(Query(by, group, mode, lane, plane)) = q
  BY DEF Normalized, Query
<1>2. q.lane = lane /\ q.plane = plane
  BY DEF Query
<1>3. PICK g : \E b \in BOOLEAN : /\ v.query = [q EXCEPT !.group = g, !.mode = IF b THEN "lane" ELSE "grouped"]
                                   /\ v.rows = FilteredRows(s, q.plane) /\ (b => q.lane # NoLane)
  <2> HIDE DEF q
  <2> QED BY <1>1 DEF Workspace
<1>4. PICK b \in BOOLEAN : /\ v.query = [q EXCEPT !.group = g, !.mode = IF b THEN "lane" ELSE "grouped"]
                           /\ v.rows = FilteredRows(s, q.plane) /\ (b => q.lane # NoLane)
  BY <1>3
<1>5. v.query = Query(by, g, IF b THEN "lane" ELSE "grouped", lane, plane)
  <2> DEFINE m == IF b THEN "lane" ELSE "grouped"
             old == IF lane # NoLane THEN "lane" ELSE mode
  <2>1. Settled(Query(by, group, old, lane, plane), g, m) = Query(by, g, m, lane, plane)
    <3> HIDE DEF m, old
    <3> QED BY QuerySettled
  <2> QED BY <1>4, <2>1 DEF Settled
<1>6. v.query.mode = IF b THEN "lane" ELSE "grouped"
  BY <1>5 DEF Query
<1> QED BY <1>2, <1>4, <1>5, <1>6

\* The link of a group, and the chips that clear a filter, as queries.
LEMMA LinksAreQueries ==
  ASSUME NEW by, NEW group, NEW mode, NEW lane, NEW plane, NEW key
  PROVE  LET q == Query(by, group, mode, lane, plane)
         IN  /\ GroupLink(q, key) = Query(key.by, key, "grouped", lane, IF key.by = "plane" THEN key.plane ELSE plane)
             /\ WithoutLane(q) = Query(by, group, "grouped", NoLane, plane)
             /\ WithoutPlane(q) = Query(by, NoGroup, mode, lane, NoPlane)
             /\ WithoutGroup(q) = Query(by, NoGroup, mode, lane, plane)
<1> DEFINE q == Query(by, group, mode, lane, plane)
           p == IF key.by = "plane" THEN key.plane ELSE plane
           Fields == [by : {by, key.by}, group : {group, key, NoGroup}, mode : {mode, "grouped"}, lane : {lane, NoLane},
                      plane : {plane, p, NoPlane}]
<1>1. q \in Fields /\ q.by = by /\ q.group = group /\ q.mode = mode /\ q.lane = lane /\ q.plane = plane
  BY DEF Query
<1>2. ASSUME NEW x \in Fields, NEW y \in Fields, x.by = y.by, x.group = y.group, x.mode = y.mode, x.lane = y.lane,
             x.plane = y.plane
      PROVE  x = y
  BY <1>2
<1>3. GroupLink(q, key) = Query(key.by, key, "grouped", lane, p)
  <2> DEFINE x == GroupLink(q, key)
             y == Query(key.by, key, "grouped", lane, p)
  <2>1. y \in Fields /\ y.by = key.by /\ y.group = key /\ y.mode = "grouped" /\ y.lane = lane /\ y.plane = p
    BY DEF Query
  <2>2. x \in Fields /\ x.by = key.by /\ x.group = key /\ x.mode = "grouped" /\ x.lane = lane /\ x.plane = p
    <3> HIDE DEF q
    <3> QED BY <1>1 DEF GroupLink
  <2> HIDE DEF x, y
  <2>3. x = y
    BY <1>2, <2>1, <2>2
  <2> QED BY <2>3 DEF x, y
<1>4. WithoutLane(q) = Query(by, group, "grouped", NoLane, plane)
  <2> DEFINE x == WithoutLane(q)
             y == Query(by, group, "grouped", NoLane, plane)
  <2>1. y \in Fields /\ y.by = by /\ y.group = group /\ y.mode = "grouped" /\ y.lane = NoLane /\ y.plane = plane
    BY DEF Query
  <2>2. x \in Fields /\ x.by = by /\ x.group = group /\ x.mode = "grouped" /\ x.lane = NoLane /\ x.plane = plane
    <3> HIDE DEF q
    <3> QED BY <1>1 DEF WithoutLane
  <2> HIDE DEF x, y
  <2>3. x = y
    BY <1>2, <2>1, <2>2
  <2> QED BY <2>3 DEF x, y
<1>5. WithoutPlane(q) = Query(by, NoGroup, mode, lane, NoPlane)
  <2> DEFINE x == WithoutPlane(q)
             y == Query(by, NoGroup, mode, lane, NoPlane)
  <2>1. y \in Fields /\ y.by = by /\ y.group = NoGroup /\ y.mode = mode /\ y.lane = lane /\ y.plane = NoPlane
    BY DEF Query
  <2>2. x \in Fields /\ x.by = by /\ x.group = NoGroup /\ x.mode = mode /\ x.lane = lane /\ x.plane = NoPlane
    <3> HIDE DEF q
    <3> QED BY <1>1 DEF WithoutPlane
  <2> HIDE DEF x, y
  <2>3. x = y
    BY <1>2, <2>1, <2>2
  <2> QED BY <2>3 DEF x, y
<1>6. WithoutGroup(q) = Query(by, NoGroup, mode, lane, plane)
  <2> DEFINE x == WithoutGroup(q)
             y == Query(by, NoGroup, mode, lane, plane)
  <2>1. y \in Fields /\ y.by = by /\ y.group = NoGroup /\ y.mode = mode /\ y.lane = lane /\ y.plane = plane
    BY DEF Query
  <2>2. x \in Fields /\ x.by = by /\ x.group = NoGroup /\ x.mode = mode /\ x.lane = lane /\ x.plane = plane
    <3> HIDE DEF q
    <3> QED BY <1>1 DEF WithoutGroup
  <2> HIDE DEF x, y
  <2>3. x = y
    BY <1>2, <2>1, <2>2
  <2> QED BY <2>3 DEF x, y
<1> QED BY <1>3, <1>4, <1>5, <1>6

\* The keys of groups, and the rows that a key selects.
LEMMA RowsOfKey ==
  ASSUME NEW s, IsNavigable(s), NEW plane, NEW by \in {"attachment", "plane"},
         NEW key \in GroupKeys(by, FilteredRows(s, plane))
  PROVE  LET p == IF key.by = "plane" THEN key.plane ELSE plane
         IN  /\ key.by = by
             /\ key \in GroupKeys(by, FilteredRows(s, p))
             /\ SelectedRows(by, key, FilteredRows(s, p)) = {m \in s.members : key \in RowKeys(by, m)}
             /\ \E m \in s.members : key \in RowKeys(by, m)
<1>1. PICK row \in FilteredRows(s, plane) : key \in RowKeys(by, row)
  BY DEF GroupKeys
<1>2. row \in s.members /\ (plane # NoPlane => plane \in row.planes)
  BY DEF FilteredRows
<1>3. CASE by = "attachment"
  <2>1. \A m : RowKeys(by, m) = {GroupKey("attachment", m.unit, NoPlane)}
    BY <1>3 DEF RowKeys
  <2>2. \A u, v : GroupKey("attachment", u, NoPlane).unit = u /\ GroupKey("attachment", u, NoPlane).by = "attachment"
    BY DEF GroupKey
  <2>3. key = GroupKey("attachment", row.unit, NoPlane) /\ key.by = by /\ key.unit = row.unit
    BY <1>1, <1>3, <2>1, <2>2
  <2>4. \A m : key \in RowKeys(by, m) <=> m.unit = key.unit
    BY <2>1, <2>2, <2>3
  <2>5. SelectedRows(by, key, FilteredRows(s, plane)) = {m \in FilteredRows(s, plane) : m.unit = key.unit}
    BY <1>3, <2>3 DEF SelectedRows
  <2>6. {m \in FilteredRows(s, plane) : m.unit = key.unit} = {m \in s.members : m.unit = key.unit}
    <3>1. \A m \in s.members : m.unit = key.unit => m = row
      BY <1>2, <2>3 DEF IsNavigable
    <3> QED BY <1>1, <3>1, <2>3 DEF FilteredRows
  <2> QED BY <1>1, <1>2, <1>3, <2>3, <2>4, <2>5, <2>6
<1>4. CASE by = "plane"
  <2>1. \A m : RowKeys(by, m) = {GroupKey("plane", NoUnit, p) : p \in PlaneKeys(m)}
    BY <1>4 DEF RowKeys
  <2>2. \A p : GroupKey("plane", NoUnit, p).plane = p /\ GroupKey("plane", NoUnit, p).by = "plane"
    BY DEF GroupKey
  <2>3. PICK p \in PlaneKeys(row) : key = GroupKey("plane", NoUnit, p)
    BY <1>1, <2>1
  <2>4. key.plane = p /\ key.by = "plane"
    BY <2>2, <2>3
  <2>5. \A m : key \in RowKeys(by, m) <=> p \in PlaneKeys(m)
    BY <2>1, <2>2, <2>3
  <2>6. CASE p = NoPlane
    <3>1. \A m \in s.members : p \in PlaneKeys(m) <=> m.planes = {}
      BY <2>6 DEF PlaneKeys, IsNavigable
    <3>2. FilteredRows(s, p) = s.members
      BY <2>6 DEF FilteredRows
    <3>3. SelectedRows(by, key, s.members) = {m \in s.members : m.planes = {}}
      BY <1>4, <2>4, <2>6 DEF SelectedRows
    <3>4. key \in GroupKeys(by, s.members)
      BY <1>1, <1>2 DEF GroupKeys
    <3> QED BY <1>1, <1>2, <1>4, <2>4, <2>5, <3>1, <3>2, <3>3, <3>4
  <2>7. CASE p # NoPlane
    <3>1. \A m : p \in PlaneKeys(m) <=> p \in m.planes
      BY <2>7 DEF PlaneKeys
    <3>2. FilteredRows(s, p) = {m \in s.members : p \in m.planes}
      BY <2>7 DEF FilteredRows
    <3>3. SelectedRows(by, key, FilteredRows(s, p)) = {m \in FilteredRows(s, p) : p \in m.planes}
      BY <1>4, <2>4, <2>7 DEF SelectedRows
    <3>4. key \in GroupKeys(by, FilteredRows(s, p))
      BY <1>1, <1>2, <2>5, <3>1, <3>2 DEF GroupKeys
    <3> QED BY <1>1, <1>2, <1>4, <2>4, <2>5, <3>1, <3>2, <3>3, <3>4
  <2> QED BY <2>6, <2>7
<1> QED BY <1>3, <1>4

LEMMA LanesOfRows ==
  ASSUME NEW rows, NEW lane
  PROVE  /\ lane \in LanesOf(rows) <=> \E r \in rows : lane \in LanesOf({r})
         /\ LaneView(rows, lane) = {m.unit : m \in {r \in rows : lane \in LanesOf({r})}}
BY DEF LanesOf, LaneView

\* Links lead to their group, and clearing a filter hides no row, in any lane
\* set in which no unit is twice.
LEMMA LinksOfALaneSet ==
  ASSUME NEW s, IsNavigable(s), NEW first \in FirstQueries(s)
  PROVE  LET w == Workspace(s, first)
         IN  /\ \A key \in ShownGroups(w) :
                 LET v == Workspace(s, GroupLink(w.query, key))
                 IN  /\ v.valid /\ v.query.group = key
                     /\ CountedRows(key, w.rows) \subseteq v.selected
                     /\ v.selected = {m \in s.members : key \in RowKeys(key.by, m)}
                     /\ v.view = {m.unit : m \in {r \in v.selected : first.lane \in LanesOf({r})}}
                     /\ v.query.mode = "lane" <=> v.view # {}
             /\ \A q \in {WithoutLane(w.query), WithoutPlane(w.query), WithoutGroup(w.query)} :
                 w.rows \subseteq Workspace(s, q).rows
             /\ Workspace(s, WithoutLane(w.query)).query.mode = "grouped"
<1> DEFINE w == Workspace(s, first)
<1>1. PICK by, lane, plane : first = Query(by, NoGroup, "grouped", lane, plane)
  BY DEF FirstQueries
<1>2. first.lane = lane
  BY <1>1 DEF Query
<1>3. w.rows = FilteredRows(s, plane) /\ \E g, m : w.query = Query(by, g, m, lane, plane)
  BY <1>1, WorkspaceOfQuery
<1>4. PICK g, m : w.query = Query(by, g, m, lane, plane)
  BY <1>3
<1>5. ASSUME NEW key \in ShownGroups(w)
      PROVE  LET v == Workspace(s, GroupLink(w.query, key))
             IN  /\ v.valid /\ v.query.group = key
                 /\ CountedRows(key, w.rows) \subseteq v.selected
                 /\ v.selected = {x \in s.members : key \in RowKeys(key.by, x)}
                 /\ v.view = {x.unit : x \in {r \in v.selected : first.lane \in LanesOf({r})}}
                 /\ v.query.mode = "lane" <=> v.view # {}
  <2> DEFINE v == Workspace(s, GroupLink(w.query, key))
             p == IF key.by = "plane" THEN key.plane ELSE plane
             rows == FilteredRows(s, p)
             inLane == LaneShown(s, key.by, key, lane, p)
  <2>1. PICK kind \in {"attachment", "plane"} : key \in GroupKeys(kind, FilteredRows(s, plane))
    BY <1>3 DEF ShownGroups
  <2>2. /\ key.by = kind
        /\ key \in GroupKeys(kind, rows)
        /\ SelectedRows(kind, key, rows) = {x \in s.members : key \in RowKeys(kind, x)}
        /\ \E x \in s.members : key \in RowKeys(kind, x)
    BY <2>1, RowsOfKey
  <2>3. GroupLink(w.query, key) = Query(key.by, key, "grouped", lane, p)
    BY <1>4, LinksAreQueries
  <2>4. Scope(key.by, key, rows) = SelectedRows(key.by, key, rows)
    BY <2>2 DEF Scope
  <2>5. /\ v.query = Query(key.by, key, IF inLane THEN "lane" ELSE "grouped", lane, p)
        /\ v.selected = SelectedRows(key.by, key, rows) /\ v.valid
        /\ v.view = IF inLane THEN LaneView(SelectedRows(key.by, key, rows), lane) ELSE {}
    <3>1. key \in GroupKeys(key.by, FilteredRows(s, p))
      BY <2>2
    <3> HIDE DEF p
    <3>2. LET x == Workspace(s, Query(key.by, key, "grouped", lane, p))
          IN  /\ x.query = Query(key.by, key, IF inLane THEN "lane" ELSE "grouped", lane, p)
              /\ x.selected = SelectedRows(key.by, key, rows) /\ x.valid
              /\ x.view = IF inLane THEN LaneView(Scope(key.by, key, rows), lane) ELSE {}
      BY <3>1, WorkspaceOfGroup
    <3> QED BY <2>3, <2>4, <3>2
  <2>6. v.query.group = key /\ v.query.mode = IF inLane THEN "lane" ELSE "grouped"
    BY <2>5 DEF Query
  <2>7. v.selected = {x \in s.members : key \in RowKeys(key.by, x)}
    BY <2>2, <2>5
  <2>8. inLane <=> lane \in LanesOf(v.selected)
    <3>1. lane \in LanesOf(v.selected) => lane \in LanesOf(s.members)
      BY <2>7 DEF LanesOf
    <3> QED BY <2>4, <2>5, <3>1 DEF IsNavigable, LaneShown
  <2>9. v.view = {x.unit : x \in {r \in v.selected : lane \in LanesOf({r})}}
    <3>1. CASE inLane
      <4>1. v.view = LaneView(v.selected, lane)
        BY <3>1, <2>5
      <4> HIDE DEF v
      <4> QED BY <4>1, LanesOfRows
    <3>2. CASE ~inLane
      <4>1. {r \in v.selected : lane \in LanesOf({r})} = {}
        BY <3>2, <2>8, LanesOfRows
      <4> QED BY <3>2, <4>1, <2>5
    <3> QED BY <3>1, <3>2
  <2>10. inLane <=> v.view # {}
    <3>1. lane \in LanesOf(v.selected) <=> \E r \in v.selected : lane \in LanesOf({r})
      BY LanesOfRows
    <3> HIDE DEF v, inLane
    <3> QED BY <2>8, <2>9, <3>1
  <2>11. CountedRows(key, w.rows) \subseteq v.selected
    BY <1>3, <2>7 DEF CountedRows, FilteredRows
  <2>12. v.view = {x.unit : x \in {r \in v.selected : first.lane \in LanesOf({r})}}
    BY <1>2, <2>9
  <2>13. v.query.mode = "lane" <=> v.view # {}
    <3> HIDE DEF v, inLane
    <3> QED BY <2>6, <2>10
  <2>14. v.valid
    BY <2>5
  <2>15. v.query.group = key
    BY <2>6
  <2> HIDE DEF v
  <2>16. v = Workspace(s, GroupLink(w.query, key))
    BY DEF v
  <2> QED BY <2>7, <2>11, <2>12, <2>13, <2>14, <2>15, <2>16
<1>6. /\ w.rows \subseteq Workspace(s, WithoutLane(w.query)).rows
      /\ w.rows \subseteq Workspace(s, WithoutPlane(w.query)).rows
      /\ w.rows \subseteq Workspace(s, WithoutGroup(w.query)).rows
  <2>1. /\ Workspace(s, WithoutLane(w.query)).rows = FilteredRows(s, plane)
        /\ Workspace(s, WithoutPlane(w.query)).rows = FilteredRows(s, NoPlane)
        /\ Workspace(s, WithoutGroup(w.query)).rows = FilteredRows(s, plane)
    BY <1>4, LinksAreQueries, WorkspaceOfQuery
  <2> QED BY <1>3, <2>1 DEF FilteredRows
<1>7. Workspace(s, WithoutLane(w.query)).query.mode = "grouped"
  <2> DEFINE v == Workspace(s, Query(by, g, "grouped", NoLane, plane))
  <2>1. v.query.mode = "lane" \/ v.query.mode = "grouped"
    BY WorkspaceOfQuery
  <2>2. v.query.mode # "lane"
    BY WorkspaceOfQuery
  <2>3. WithoutLane(w.query) = Query(by, g, "grouped", NoLane, plane)
    BY <1>4, LinksAreQueries
  <2> QED BY <2>1, <2>2, <2>3
<1> HIDE DEF w
<1>8. w = Workspace(s, first)
  BY DEF w
<1> QED BY <1>5, <1>6, <1>7, <1>8

-----------------------------------------------------------------------------
(* Totals *)

\* What a total adds up, as a set of pairs, of which it is the number.
Marks(S, field) == UNION {{<<m, i>> : i \in 1..m[field]} : m \in S}

\* Induction over the subsets of a finite set: from all that have an element
\* less.
LEMMA SubsetInduction ==
  ASSUME NEW S, IsFiniteSet(S), NEW T,
         \A t \in SUBSET S : (\A x \in t : t \ {x} \in T) => t \in T
  PROVE  \A t \in SUBSET S : t \in T
<1> SUFFICES ASSUME NEW t0 \in SUBSET S, t0 \notin T PROVE FALSE
  OBVIOUS
<1> DEFINE bad == {t \in SUBSET S : t \notin T}
<1>1. IsWellFoundedOn(StrictSubsetOrdering(S), SUBSET S)
  <2>1. FiniteSubsetsOf(S) = SUBSET S
    BY FS_FiniteSubsetsOfFinite
  <2>2. IsWellFoundedOn(StrictSubsetOrdering(S), FiniteSubsetsOf(S))
    BY FS_StrictSubsetOrderingWellFounded
  <2> QED BY <2>1, <2>2, Zenon
<1>2. bad \in SUBSET (SUBSET S) /\ bad # {}
  OBVIOUS
<1>3. PICK t \in bad : \A u \in bad : <<u, t>> \notin StrictSubsetOrdering(S)
  <2> HIDE DEF bad
  <2> QED BY <1>1, <1>2, WFMin
<1>4. PICK x \in t : t \ {x} \notin T
  BY <1>3
<1>5. t \ {x} \in bad
  BY <1>3, <1>4
<1>6. <<t \ {x}, t>> \in StrictSubsetOrdering(S)
  BY <1>4, <1>3 DEF StrictSubsetOrdering
<1> QED BY <1>3, <1>5, <1>6

LEMMA MarksAdded ==
  ASSUME NEW S, NEW field, NEW x, x \notin S, x[field] \in Nat, IsFiniteSet(Marks(S, field))
  PROVE  /\ IsFiniteSet(Marks(S \cup {x}, field))
         /\ Cardinality(Marks(S \cup {x}, field)) = x[field] + Cardinality(Marks(S, field))
<1> DEFINE N == 1..x[field]
           X == {<<x, i>> : i \in N}
           f == [i \in N |-> <<x, i>>]
<1>1. IsFiniteSet(N) /\ Cardinality(N) = x[field]
  BY FS_Interval
<1>2. f \in Bijection(N, X)
  BY DEF Bijection, Injection, Surjection, IsInjective
<1>3. IsFiniteSet(X) /\ Cardinality(X) = x[field]
  <2> HIDE DEF N, X, f
  <2> QED BY <1>1, <1>2, FS_Bijection DEF ExistsBijection
<1>4. Marks(S \cup {x}, field) = X \cup Marks(S, field)
  BY DEF Marks
<1>5. X \cap Marks(S, field) = {}
  BY DEF Marks
<1>6. Cardinality(X \cap Marks(S, field)) = 0
  BY <1>5, FS_EmptySet
<1> HIDE DEF X
<1>7. Cardinality(X) \in Nat /\ Cardinality(Marks(S, field)) \in Nat
  BY <1>3, FS_CardinalityType
<1>8. /\ IsFiniteSet(X \cup Marks(S, field))
      /\ Cardinality(X \cup Marks(S, field)) = Cardinality(X) + Cardinality(Marks(S, field)) - Cardinality(X \cap Marks(S, field))
  BY <1>3, FS_Union
<1>9. Cardinality(X \cup Marks(S, field)) = x[field] + Cardinality(Marks(S, field))
  BY <1>3, <1>6, <1>7, <1>8
<1> QED BY <1>4, <1>8, <1>9

LEMMA TotalCounts ==
  ASSUME NEW s, NEW field, IsFiniteSet(s.members), \A m \in s.members : m[field] \in Nat
  PROVE  /\ IsFiniteSet(Marks(s.members, field))
         /\ Total(s, field) = Cardinality(Marks(s.members, field))
<1> DEFINE S == s.members
           Fold(iter) == iter = [t \in SUBSET S |-> IF t = {} THEN 0
                                                    ELSE LET x == CHOOSE x \in t : TRUE IN x[field] + iter[t \ {x}]]
           counts == [t \in SUBSET S |-> Cardinality(Marks(t, field))]
<1>1. Total(s, field) = (CHOOSE iter : Fold(iter))[S]
  BY DEF Total, MapThenSumSet, MapThenFoldSet
<1>2. IsFiniteSet(Marks({}, field)) /\ Cardinality(Marks({}, field)) = 0
  <2>1. Marks({}, field) = {}
    BY DEF Marks
  <2> QED BY <2>1, FS_EmptySet
<1> DEFINE T == {t \in SUBSET S : IsFiniteSet(Marks(t, field))}
<1>3. \A t \in SUBSET S : t \in T
  <2>1. ASSUME NEW t \in SUBSET S, \A x \in t : t \ {x} \in T PROVE t \in T
    <3>1. CASE t = {}
      BY <1>2, <3>1
    <3>2. CASE t # {}
      <4>1. PICK x \in t : t \ {x} \in T
        BY <2>1, <3>2
      <4>2. (t \ {x}) \cup {x} = t /\ x \notin t \ {x}
        OBVIOUS
      <4> QED BY <4>1, <4>2, MarksAdded
    <3> QED BY <3>1, <3>2
  <2> HIDE DEF T
  <2> QED BY <2>1, SubsetInduction
<1>4. ASSUME NEW t \in SUBSET S, NEW x \in t
      PROVE  Cardinality(Marks(t, field)) = x[field] + Cardinality(Marks(t \ {x}, field))
  <2>1. t \ {x} \in SUBSET S /\ x \notin t \ {x} /\ (t \ {x}) \cup {x} = t
    OBVIOUS
  <2> QED BY <2>1, <1>3, MarksAdded
<1>5. Fold(counts)
  <2> SUFFICES ASSUME NEW t \in SUBSET S
               PROVE  counts[t] = IF t = {} THEN 0 ELSE LET x == CHOOSE x \in t : TRUE IN x[field] + counts[t \ {x}]
    OBVIOUS
  <2>1. CASE t = {}
    BY <1>2, <2>1
  <2>2. CASE t # {}
    <3>1. PICK x \in t : x = CHOOSE y \in t : TRUE
      BY <2>2
    <3>2. t \ {x} \in SUBSET S
      OBVIOUS
    <3> QED BY <1>4, <2>2, <3>1, <3>2
  <2> QED BY <2>1, <2>2
<1> DEFINE iter == CHOOSE it : Fold(it)
<1>6. Fold(iter)
  <2> HIDE DEF Fold, counts
  <2> QED BY <1>5
<1> DEFINE R == {t \in SUBSET S : iter[t] = Cardinality(Marks(t, field))}
<1>7. \A t \in SUBSET S : t \in R
  <2>1. ASSUME NEW t \in SUBSET S, \A x \in t : t \ {x} \in R PROVE t \in R
    <3>1. iter[t] = IF t = {} THEN 0 ELSE LET x == CHOOSE x \in t : TRUE IN x[field] + iter[t \ {x}]
      <4> HIDE DEF iter
      <4> QED BY <1>6
    <3>2. CASE t = {}
      BY <1>2, <3>1, <3>2
    <3>3. CASE t # {}
      <4>1. PICK x \in t : x = CHOOSE y \in t : TRUE
        BY <3>3
      <4> HIDE DEF iter
      <4>2. iter[t] = x[field] + iter[t \ {x}]
        BY <3>1, <3>3, <4>1
      <4> QED BY <1>4, <2>1, <4>2
    <3> QED BY <3>2, <3>3
  <2> HIDE DEF R
  <2> QED BY <2>1, SubsetInduction
<1> QED BY <1>1, <1>3, <1>7

\* A lane set that can be added up.
HasTotals(s) ==
    IsFiniteSet(s.members) /\ \A m \in s.members : m.present \in Nat /\ m.mapped \in Nat /\ m.expected \in Nat

LEMMA TotalsAreNumbers ==
  ASSUME NEW s, HasTotals(s)
  PROVE  \A field \in {"present", "mapped", "expected"} :
            /\ IsFiniteSet(Marks(s.members, field))
            /\ Total(s, field) = Cardinality(Marks(s.members, field)) /\ Total(s, field) \in Nat
<1>1. ASSUME NEW field \in {"present", "mapped", "expected"}
      PROVE  /\ IsFiniteSet(Marks(s.members, field))
             /\ Total(s, field) = Cardinality(Marks(s.members, field)) /\ Total(s, field) \in Nat
  <2>1. \A m \in s.members : m[field] \in Nat
    BY DEF HasTotals
  <2> QED BY <2>1, TotalCounts, FS_CardinalityType DEF HasTotals
<1> QED BY <1>1

\* Where nothing has more of one than of the other, equal totals mean that
\* everything has as much of both.
LEMMA TotalsCompare ==
  ASSUME NEW s, HasTotals(s), \A m \in s.members : m.mapped <= m.present
  PROVE  /\ Total(s, "mapped") <= Total(s, "present")
         /\ Total(s, "mapped") = Total(s, "present") => \A m \in s.members : m.mapped = m.present
<1>1. Marks(s.members, "mapped") \subseteq Marks(s.members, "present")
  BY DEF Marks, HasTotals
<1>2. /\ Total(s, "mapped") <= Total(s, "present")
      /\ Total(s, "mapped") = Total(s, "present") => Marks(s.members, "mapped") = Marks(s.members, "present")
  BY <1>1, TotalsAreNumbers, FS_Subset
<1>3. ASSUME Marks(s.members, "mapped") = Marks(s.members, "present"), NEW m \in s.members
      PROVE  m.mapped = m.present
  <2>1. m.mapped \in Nat /\ m.present \in Nat /\ m.mapped <= m.present
    BY DEF HasTotals
  <2>2. SUFFICES ASSUME m.mapped < m.present PROVE FALSE
    BY <2>1
  <2>3. m.present \in 1..m.present /\ m.present \notin 1..m.mapped
    BY <2>1, <2>2
  <2>4. <<m, m.present>> \in Marks(s.members, "present")
    BY <2>3 DEF Marks
  <2>5. <<m, m.present>> \in Marks(s.members, "mapped")
    BY <1>3, <2>4
  <2>6. PICK n \in s.members : <<m, m.present>> \in {<<n, i>> : i \in 1..n["mapped"]}
    BY <2>5 DEF Marks
  <2> QED BY <2>3, <2>6
<1> QED BY <1>2, <1>3

LEMMA TotalZero ==
  ASSUME NEW s, HasTotals(s), NEW field \in {"present", "mapped"}
  PROVE  Total(s, field) = 0 <=> \A m \in s.members : m[field] = 0
<1>1. Total(s, field) = 0 <=> Marks(s.members, field) = {}
  BY TotalsAreNumbers, FS_EmptySet
<1>2. \A m \in s.members : m[field] \in Nat
  BY DEF HasTotals
<1>3. Marks(s.members, field) = {} <=> \A m \in s.members : 1..m[field] = {}
  <2>1. \A m \in s.members : \A i \in 1..m[field] : <<m, i>> \in Marks(s.members, field)
    BY DEF Marks
  <2>2. \A x \in Marks(s.members, field) : \E m \in s.members : \E i \in 1..m[field] : x = <<m, i>>
    BY DEF Marks
  <2> QED BY <2>1, <2>2
<1>4. \A n \in Nat : 1..n = {} <=> n = 0
  <2>1. \A n \in Nat : n # 0 => 1 \in 1..n
    OBVIOUS
  <2> QED BY <2>1
<1> QED BY <1>1, <1>2, <1>3, <1>4

\* The same pairs, by the keys of members.
KeyMarks(s, field) == UNION {{<<k, i>> : i \in 1..MemberAt(s, k)[field]} : k \in Keys(s)}
Keyed(s) == \A m, n \in s.members : Key(m) = Key(n) => m = n

LEMMA MemberOfKey ==
  ASSUME NEW s, Keyed(s)
  PROVE  /\ \A m \in s.members : Key(m) \in Keys(s) /\ MemberAt(s, Key(m)) = m
         /\ \A k \in Keys(s) : MemberAt(s, k) \in s.members /\ Key(MemberAt(s, k)) = k
<1>1. \A k \in Keys(s) : MemberAt(s, k) \in s.members /\ Key(MemberAt(s, k)) = k
  BY DEF MemberAt, Keys
<1>2. \A m \in s.members : Key(m) \in Keys(s)
  BY DEF Keys
<1> QED BY <1>1, <1>2 DEF Keyed

LEMMA TotalByKey ==
  ASSUME NEW s, HasTotals(s), Keyed(s), NEW field \in {"present", "mapped", "expected"}
  PROVE  Total(s, field) = Cardinality(KeyMarks(s, field))
<1> DEFINE M == Marks(s.members, field)
           K == KeyMarks(s, field)
           f == [p \in M |-> <<Key(p[1]), p[2]>>]
<1>1. \A p \in M : p[1] \in s.members /\ p[2] \in 1..p[1][field] /\ p = <<p[1], p[2]>>
  BY DEF Marks
<1>2. \A m \in s.members : \A i \in 1..m[field] : <<m, i>> \in M
  BY DEF Marks
<1>3. ASSUME NEW p \in M PROVE f[p] \in K
  BY <1>1, MemberOfKey DEF KeyMarks
<1>4. ASSUME NEW p \in M, NEW q \in M, f[p] = f[q] PROVE p = q
  <2>1. Key(p[1]) = Key(q[1]) /\ p[2] = q[2]
    BY <1>4
  <2> QED BY <1>1, <2>1 DEF Keyed
<1>5. ASSUME NEW x \in K PROVE \E p \in M : f[p] = x
  <2>0. PICK k \in Keys(s) : \E i \in 1..MemberAt(s, k)[field] : x = <<k, i>>
    BY DEF KeyMarks
  <2>1. PICK i \in 1..MemberAt(s, k)[field] : x = <<k, i>>
    BY <2>0
  <2>2. <<MemberAt(s, k), i>> \in M
    BY <2>1, <1>2, MemberOfKey
  <2>3. f[<<MemberAt(s, k), i>>] = x
    BY <2>1, <2>2, MemberOfKey
  <2> QED BY <2>2, <2>3
<1>6. f \in Bijection(M, K)
  <2> HIDE DEF M, K
  <2>1. f \in [M -> K]
    BY <1>3
  <2> HIDE DEF f
  <2>2. DOMAIN f = M
    BY <2>1
  <2> QED BY <2>1, <2>2, <1>4, <1>5 DEF Bijection, Injection, Surjection, IsInjective
<1>7. IsFiniteSet(M) /\ Total(s, field) = Cardinality(M)
  BY TotalsAreNumbers
<1> HIDE DEF M, K, f
<1>8. Cardinality(K) = Cardinality(M)
  BY <1>6, <1>7, FS_Bijection DEF ExistsBijection
<1> QED BY <1>7, <1>8 DEF K

-----------------------------------------------------------------------------
(* A graph that was built *)

LanesCounted ==
    stage \in {"lanes", "built"} =>
        lanes = [u \in Units |-> IF plant.lanesOn THEN LaneCount(ClosedSets, u) ELSE 0]
UnitsBuilt ==
    stage = "built" => /\ graph.units = AttachmentUnits
                       /\ \A u, v \in AttachmentUnits : u.of = v.of /\ Ordinal(u) = Ordinal(v) => u = v
BuiltInv == LanesCounted /\ UnitsBuilt

LEMMA LaneCountStays ==
  ASSUME plant' = plant, links' = links
  PROVE  \A u : LaneCount(ClosedSets, u)' = LaneCount(ClosedSets, u)
<1>1. ClosedSets' = ClosedSets
  BY DEF ClosedSets, Linked, Neighbors, Closed
<1>2. ChildUnits' = ChildUnits /\ \A u : SeedLanes(u)' = SeedLanes(u)
  BY DEF ChildUnits, ChildUnit, ChildrenOf, SeedLanes, ChildAt
<1>3. \A u, w : ConnectedIn(ClosedSets, u, w)' = ConnectedIn(ClosedSets, u, w)
  BY <1>1 DEF ConnectedIn, Neighbors
<1> QED BY <1>1, <1>2, <1>3 DEF LaneCount

LEMMA OrdinalStays ==
  ASSUME plant' = plant
  PROVE  AttachmentUnits' = AttachmentUnits /\ \A u : Ordinal(u)' = Ordinal(u)
<1>1. ChildUnits' = ChildUnits /\ AttachmentUnits' = AttachmentUnits
  BY SamePlant DEF ChildUnits, ChildUnit, ChildrenOf
<1>2. \A u : Ordinal(u)' = Ordinal(u)
  BY <1>1 DEF Ordinal, ChildOrdinal, ChildAt, ChildrenOf
<1> QED BY <1>1, <1>2

LEMMA BuiltInvHolds == TransformSpec => []BuiltInv
<1>1. TransformInit => BuiltInv
  BY DEF TransformInit, BuiltInv, LanesCounted, UnitsBuilt
<1>2. BuiltInv /\ [TransformNext]_vars => BuiltInv'
  <2> SUFFICES ASSUME BuiltInv, [TransformNext]_vars PROVE BuiltInv'
    OBVIOUS
  <2>1. ASSUME stage' \notin {"lanes", "built"} PROVE BuiltInv'
    BY <2>1 DEF BuiltInv, LanesCounted, UnitsBuilt
  <2>2. CASE RecordMemberships
    BY <2>1, <2>2 DEF RecordMemberships
  <2>3. CASE \E path \in todo : WalkPath(path)
    BY <2>1, <2>3 DEF WalkPath, propagation
  <2>4. CASE BeginPropagation
    BY <2>1, <2>4 DEF BeginPropagation
  <2>5. CASE Propagate
    <3>1. stage' \in {"idle", "walk", "propagated"}
      BY <2>5 DEF Propagate, PropagationNext, StartComponent, Visit, SpreadPlanes, FinishPropagation
    <3> QED BY <2>1, <3>1
  <2>6. CASE MaterializeLanes
    <3>1. /\ lanes' = [u \in Units |-> IF plant.lanesOn THEN LaneCount(ClosedSets, u) ELSE 0]
          /\ plant' = plant /\ links' = links /\ stage' # "built"
      BY <2>6 DEF MaterializeLanes
    <3> QED BY <3>1, LaneCountStays DEF BuiltInv, LanesCounted, UnitsBuilt
  <2>7. CASE BuildGraph
    <3>1. /\ stage = "lanes" /\ lanes' = lanes /\ plant' = plant /\ links' = links
          /\ stage' = "built" => /\ graph'.units = AttachmentUnits
                                 /\ IsInjective([u \in AttachmentUnits |-> <<u.of, Ordinal(u)>>])
      BY <2>7 DEF BuildGraph
    <3>2. LanesCounted'
      BY <3>1, LaneCountStays DEF BuiltInv, LanesCounted
    <3>3. UnitsBuilt'
      BY <3>1, OrdinalStays DEF UnitsBuilt, IsInjective
    <3> QED BY <3>2, <3>3 DEF BuiltInv
  <2>8. CASE UNCHANGED vars
    <3>1. stage' = stage /\ lanes' = lanes /\ plant' = plant /\ links' = links /\ graph' = graph
      BY <2>8 DEF vars, propagation, transform
    <3> QED BY <3>1, LaneCountStays, OrdinalStays DEF BuiltInv, LanesCounted, UnitsBuilt
  <2> QED BY <2>2, <2>3, <2>4, <2>5, <2>6, <2>7, <2>8 DEF TransformNext
<1> QED BY <1>1, <1>2, PTL DEF TransformSpec

Built == TInv /\ BuiltInv /\ stage = "built"

LEMMA PlantBuilt == Built => IsPlant(plant)
BY PlantsAreExtracted DEF Built, TInv, PlantExtracted

\* The positions of a plug are counted from 1.
LEMMA PositionsCounted ==
  ASSUME IsPlant(plant), NEW t \in plant.terms
  PROVE  /\ Cardinality(plant.wired[t]) \in Nat
         /\ plant.wired[t] = 1..Cardinality(plant.wired[t])
         /\ 0 \notin plant.wired[t]
<1>1. IsFiniteSet(plant.wired[t]) /\ plant.wired[t] = 1..Cardinality(plant.wired[t])
  BY DEF IsPlant
<1> DEFINE W == plant.wired[t]
<1>2. Cardinality(W) \in Nat
  <2> HIDE DEF W
  <2>1. IsFiniteSet(W)
    BY <1>1 DEF W
  <2> QED BY <2>1, FS_CardinalityType
<1> QED BY <1>1, <1>2

LEMMA GraphUnits == Built => AttachmentUnits \subseteq Units /\ graph.units = AttachmentUnits
<1> SUFFICES ASSUME Built PROVE AttachmentUnits \subseteq Units
  BY DEF Built, BuiltInv, UnitsBuilt
<1>1. IsPlant(plant)
  BY PlantBuilt
<1>2. ASSUME NEW t \in plant.terms, NEW n \in Positions(t) PROVE OwnUnit(t, n) \in Units
  BY <1>1, <1>2, PositionsFound
<1>3. ASSUME NEW t \in plant.terms, NEW c \in ChildrenOf(t) PROVE ChildUnit(t, c) \in Units
  <2>1. c \in plant.children /\ c.parent = t.pk
    BY DEF ChildrenOf
  <2> QED BY <1>1, <2>1 DEF IsPlant, ChildUnit
<1> QED BY <1>2, <1>3 DEF AttachmentUnits, OwnUnits, ChildUnits

LEMMA MaxOfTwo ==
  ASSUME NEW a \in Nat, NEW b \in Nat
  PROVE  Max({a, b}) = IF a >= b THEN a ELSE b
<1>1. CASE a >= b
  BY <1>1 DEF Max
<1>2. CASE ~(a >= b)
  BY <1>2 DEF Max
<1> QED BY <1>1, <1>2

LEMMA MaxOfOne == \A a \in Nat : Max({a}) = a
BY DEF Max

\* The set of a finite, nonempty set of numbers has a greatest element.
LEMMA MaxOfFinite ==
  ASSUME NEW S \in SUBSET Nat, IsFiniteSet(S), S # {}
  PROVE  Max(S) \in S /\ \A n \in S : Max(S) >= n
<1> DEFINE T == {t \in SUBSET S : t # {} => \E m \in t : \A n \in t : m >= n}
<1>1. ASSUME NEW t \in SUBSET S, \A x \in t : t \ {x} \in T PROVE t \in T
  <2> SUFFICES ASSUME t # {} PROVE \E m \in t : \A n \in t : m >= n
    OBVIOUS
  <2>1. PICK x \in t : TRUE
    OBVIOUS
  <2>2. CASE t \ {x} = {}
    BY <2>1, <2>2
  <2>3. CASE t \ {x} # {}
    <3>1. PICK m \in t \ {x} : \A n \in t \ {x} : m >= n
      BY <1>1, <2>1, <2>3
    <3>2. m \in Nat /\ x \in Nat /\ \A n \in t : n \in Nat
      BY <2>1, <3>1
    <3>3. CASE m >= x
      BY <3>1, <3>3
    <3>4. CASE x >= m
      BY <2>1, <3>1, <3>2, <3>4
    <3> QED BY <3>2, <3>3, <3>4
  <2> QED BY <2>2, <2>3
<1>2. \A t \in SUBSET S : t \in T
  <2> HIDE DEF T
  <2> QED BY <1>1, SubsetInduction
<1>3. PICK m \in S : \A n \in S : m >= n
  BY <1>2
<1> QED BY <1>3 DEF Max

LEMMA SeedLanesAreNumbers ==
  ASSUME IsPlant(plant), NEW u
  PROVE  SeedLanes(u) \in Nat
<1>1. CASE u \notin ChildUnits
  BY <1>1 DEF SeedLanes
<1>2. CASE u \in ChildUnits
  <2>1. PICK t \in plant.terms : \E c \in ChildrenOf(t) : u = ChildUnit(t, c)
    BY <1>2 DEF ChildUnits
  <2>2. PICK c \in ChildrenOf(t) : u = ChildUnit(t, c)
    BY <2>1
  <2>3. c \in ChildAt(u)
    BY <2>2 DEF ChildUnit, ChildAt, ChildrenOf
  <2>4. PICK d \in ChildAt(u) : d = CHOOSE x \in ChildAt(u) : TRUE
    BY <2>3
  <2>5. d \in plant.children /\ d.speed \in Nat
    BY DEF ChildAt, ChildrenOf, IsPlant, ChildrenFit
  <2> DEFINE q == d.speed \div 50
             r == d.speed % 50
             n == IF r > 25 \/ (r = 25 /\ q % 2 = 1) THEN q + 1 ELSE q
  <2>6. q \in Nat
    BY <2>5
  <2>7. n \in Nat
    <3> HIDE DEF q, r
    <3> QED BY <2>6
  <2>8. SeedLanes(u) = IF d.speed = 0 THEN 0 ELSE Max({1, n})
    BY <1>2, <2>4 DEF SeedLanes
  <2> HIDE DEF n
  <2> QED BY <2>7, <2>8, MaxOfTwo
<1> QED BY <1>1, <1>2

LEMMA LanesAreNumbers ==
  ASSUME Built, NEW u \in Units
  PROVE  /\ lanes[u] \in Nat
         /\ ~plant.lanesOn => lanes[u] = 0
         /\ plant.lanesOn => lanes[u] >= SeedLanes(u)
<1>1. lanes[u] = IF plant.lanesOn THEN LaneCount(ClosedSets, u) ELSE 0
  BY DEF Built, BuiltInv, LanesCounted
<1>2. IsPlant(plant) /\ ChildUnits \subseteq Units
  BY PlantBuilt, GraphUnits DEF AttachmentUnits
<1> DEFINE W == {w \in ChildUnits : ConnectedIn(ClosedSets, u, w)}
           S == {0} \cup {SeedLanes(v) : v \in W}
           f == [w \in W |-> SeedLanes(w)]
           V == {SeedLanes(v) : v \in W}
<1>3. S \in SUBSET Nat /\ S # {}
  BY <1>2, SeedLanesAreNumbers
<1>4. IsFiniteSet(S)
  <2>1. IsFiniteSet(W)
    BY <1>2, UnitsAreFinite, FS_Subset
  <2>2. f \in Surjection(W, V)
    BY DEF Surjection
  <2>3. IsFiniteSet(V)
    <3> HIDE DEF W, V, f
    <3> QED BY <2>1, <2>2, FS_Surjection
  <2>4. S = V \cup {0}
    OBVIOUS
  <2> HIDE DEF S, V
  <2> QED BY <2>3, <2>4, FS_AddElement
<1>5. LaneCount(ClosedSets, u) = Max(S)
  BY DEF LaneCount
<1>6. Max(S) \in Nat /\ \A n \in S : Max(S) >= n
  <2> HIDE DEF S
  <2> QED BY <1>3, <1>4, MaxOfFinite
<1>7. SeedLanes(u) \in S
  <2>1. CASE u \in ChildUnits
    <3>1. u \in W
      BY <2>1 DEF ConnectedIn
    <3> QED BY <3>1
  <2>2. CASE u \notin ChildUnits
    BY <2>2 DEF SeedLanes
  <2> QED BY <2>1, <2>2
<1> HIDE DEF S
<1> QED BY <1>1, <1>5, <1>6, <1>7

\* The lanes of the ends of a segment are joined, all of them.
LEMMA SegmentsJoinLanes ==
  ASSUME Built, NEW u \in Units, Segmented(u)
  PROVE  JoinedLanes(u) = 0..(lanes[u] - 1)
<1>1. PICK e \in edges : e.kind = "derived_cable_segment" /\ u \in e.ends
  BY DEF Segmented
<1>2. Segment(e)
  BY <1>1 DEF Built, TInv, EdgesJoinUnits, Passage, PassthroughEdge, Edge
<1>3. PICK v : e.ends = {u, v}
  BY <1>1, <1>2 DEF Segment, Edge
<1>4. /\ LanesEqual /\ laneLinks = UNION {LanesJoined(ends, lanes) : ends \in JoinedEnds}
      /\ links = Adjacency
  BY DEF Built, TInv, LanesMaterialized, LinksAdjacent, Gathering
<1>5. lanes[u] = lanes[v]
  <2>1. CASE u = v
    BY <2>1
  <2>2. CASE u # v
    <3>1. <<u, v>> \in Adjacency
      BY <1>1, <1>3, <2>2 DEF Adjacency
    <3> QED BY <1>4, <3>1 DEF LanesEqual
  <2> QED BY <2>1, <2>2
<1>6. e.ends \in JoinedEnds
  BY <1>1 DEF JoinedEnds
<1>7. ASSUME NEW i \in 0..(lanes[u] - 1) PROVE i \in JoinedLanes(u)
  <2>1. {<<u, i>>, <<v, i>>} \in LanesJoined({u, v}, lanes)
    BY <1>5, EndsLaned
  <2>2. {<<u, i>>, <<v, i>>} \in laneLinks
    BY <1>3, <1>4, <1>6, <2>1
  <2> QED BY <2>2 DEF JoinedLanes
<1> QED BY <1>7 DEF JoinedLanes

\* What a member says of its unit.
LEMMA MemberSays ==
  ASSUME Built, NEW u \in Units, NEW matched
  PROVE  LET m == Member(u, matched)
         IN  /\ m.unit = u /\ m.at = Position(u) /\ m.planes \subseteq Planes
             /\ m.present = lanes[u]
             /\ m.present \in Nat /\ m.mapped \in Nat /\ m.expected \in Nat
             /\ ~plant.lanesOn => m.present = 0
             /\ plant.lanesOn => m.expected = m.present /\ m.mapped <= m.present
             /\ Position(u) \notin matched => m.mapped = Cardinality(JoinedLanes(u))
<1> DEFINE m == Member(u, matched)
           card == Cardinality(JoinedLanes(u))
           expected == ExpectedLanes(u)
<1>1. /\ m.unit = u /\ m.at = Position(u) /\ m.planes = PlanesOf(u) /\ m.present = lanes[u] /\ m.expected = expected
      /\ m.mapped = Max({card} \cup {expected : n \in matched \cap {Position(u)}})
  BY DEF Member
<1>2. lanes[u] \in Nat /\ SeedLanes(u) \in Nat
  BY LanesAreNumbers, PlantBuilt, SeedLanesAreNumbers
<1>3. expected \in Nat /\ (plant.lanesOn => expected = lanes[u])
  <2>1. Max({SeedLanes(u), lanes[u]}) = IF SeedLanes(u) >= lanes[u] THEN SeedLanes(u) ELSE lanes[u]
    BY <1>2, MaxOfTwo
  <2> QED BY <1>2, <2>1, LanesAreNumbers DEF ExpectedLanes
<1>4. card \in Nat /\ card <= lanes[u]
  <2>1. JoinedLanes(u) \in SUBSET (0..(lanes[u] - 1))
    BY DEF JoinedLanes
  <2>2. IsFiniteSet(0..(lanes[u] - 1)) /\ Cardinality(0..(lanes[u] - 1)) = lanes[u]
    <3>1. 0 \in Int /\ lanes[u] - 1 \in Int
      BY <1>2
    <3>2. /\ IsFiniteSet(0..(lanes[u] - 1))
          /\ Cardinality(0..(lanes[u] - 1)) = IF 0 > lanes[u] - 1 THEN 0 ELSE (lanes[u] - 1) - 0 + 1
      BY <3>1, FS_Interval
    <3> QED BY <1>2, <3>2
  <2> QED BY <2>1, <2>2, FS_Subset, FS_CardinalityType
<1>0. /\ ~plant.lanesOn => lanes[u] = 0
      /\ PlanesOf(u) \subseteq Planes
      /\ card = Cardinality(JoinedLanes(u))
  BY LanesAreNumbers DEF PlanesOf
<1> HIDE DEF card, expected
<1>5. CASE Position(u) \notin matched
  <2>1. {card} \cup {expected : n \in matched \cap {Position(u)}} = {card}
    BY <1>5
  <2>2. m.mapped = card
    BY <1>1, <1>4, <2>1, MaxOfOne
  <2>3. m.mapped \in Nat /\ m.mapped <= lanes[u]
    BY <1>4, <2>2
  <2> HIDE DEF m
  <2>4. m = Member(u, matched)
    BY DEF m
  <2> QED BY <1>0, <1>1, <1>2, <1>3, <2>2, <2>3, <2>4
<1>6. CASE Position(u) \in matched
  <2>1. {card} \cup {expected : n \in matched \cap {Position(u)}} = {card, expected}
    BY <1>6
  <2>2. m.mapped = IF card >= expected THEN card ELSE expected
    BY <1>1, <1>3, <1>4, <2>1, MaxOfTwo
  <2>3. m.mapped \in Nat /\ (plant.lanesOn => m.mapped <= lanes[u])
    BY <1>2, <1>3, <1>4, <2>2
  <2> HIDE DEF m
  <2>4. m = Member(u, matched)
    BY DEF m
  <2> QED BY <1>0, <1>1, <1>2, <1>3, <1>6, <2>3, <2>4
<1> QED BY <1>5, <1>6

\* Every lane set is one of units of the graph; only that of an interface has
\* positions that its profile matched.
LEMMA LaneSetsAreOfUnits ==
  ASSUME Built, NEW s \in LaneSets
  PROVE  \/ \E t \in Parents : s = InterfaceLaneSet(t) /\ ParentUnits(t) \subseteq graph.units
         \/ \E U \in SUBSET Units : s = LaneSet(U, {}, {})
<1>1. ASSUME NEW t PROVE ParentUnits(t) \subseteq graph.units
  BY DEF ParentUnits
<1>2. ASSUME NEW u \in graph.units PROVE \E U \in SUBSET Units : UnitLaneSet(u) = LaneSet(U, {}, {})
  <2>1. {u} \in SUBSET Units
    BY GraphUnits
  <2> QED BY <2>1 DEF UnitLaneSet
<1>3. ASSUME NEW c PROVE \E U \in SUBSET Units : CableLaneSet(c) = LaneSet(U, {}, {})
  <2> DEFINE U == UNION {e.ends : e \in {f \in edges : f.kind = "derived_cable_segment" /\ f.via = c}}
  <2>1. ASSUME NEW e \in edges, e.kind = "derived_cable_segment" PROVE e.ends \subseteq Units
    <3>1. Segment(e)
      BY <2>1 DEF Built, TInv, EdgesJoinUnits, Passage, PassthroughEdge, Edge
    <3> QED BY <3>1 DEF Segment, Edge
  <2>2. U \in SUBSET Units
    BY <2>1
  <2>3. CableLaneSet(c) = LaneSet(U, {}, {})
    BY DEF CableLaneSet
  <2> QED BY <2>2, <2>3
<1>4. ASSUME NEW p PROVE \E U \in SUBSET Units : PlaneLaneSet(p) = LaneSet(U, {}, {})
  <2>1. {u \in graph.units : p \in PlanesOf(u)} \in SUBSET Units
    BY GraphUnits
  <2> QED BY <2>1 DEF PlaneLaneSet
<1> QED BY <1>1, <1>2, <1>3, <1>4 DEF LaneSets

LEMMA LaneSetSound ==
  ASSUME Built, NEW s \in LaneSets
  PROVE  /\ HasTotals(s)
         /\ IsNavigable(s)
         /\ ~plant.lanesOn => \A m \in s.members : m.present = 0
         /\ plant.lanesOn => \A m \in s.members : m.expected = m.present /\ m.mapped <= m.present
<1>1. PICK U \in SUBSET Units : \E matched, unmatched : s = LaneSet(U, matched, unmatched)
  BY LaneSetsAreOfUnits, GraphUnits DEF InterfaceLaneSet
<1>2. PICK matched, unmatched : s = LaneSet(U, matched, unmatched)
  BY <1>1
<1>3. s.members = {Member(u, matched) : u \in U}
  BY <1>2 DEF LaneSet
<1>4. IsFiniteSet(s.members)
  <2> DEFINE f == [u \in U |-> Member(u, matched)]
             M == {Member(u, matched) : u \in U}
  <2>1. IsFiniteSet(U)
    BY UnitsAreFinite, FS_Subset
  <2>2. f \in Surjection(U, M)
    BY DEF Surjection
  <2>3. IsFiniteSet(M)
    <3> HIDE DEF f, M
    <3> QED BY <2>1, <2>2, FS_Surjection
  <2> QED BY <1>3, <2>3
<1>5. ASSUME NEW m \in s.members
      PROVE  \E u \in U : /\ m = Member(u, matched) /\ m.unit = u /\ m.planes \subseteq Planes
                          /\ m.present \in Nat /\ m.mapped \in Nat /\ m.expected \in Nat
                          /\ ~plant.lanesOn => m.present = 0
                          /\ plant.lanesOn => m.expected = m.present /\ m.mapped <= m.present
  BY <1>3, MemberSays
<1>6. HasTotals(s)
  BY <1>4, <1>5 DEF HasTotals
<1>7. IsNavigable(s)
  <2>1. \A m, n \in s.members : m.unit = n.unit => m = n
    BY <1>5
  <2>2. \A m \in s.members : NoPlane \notin m.planes
    BY <1>5, NoneIsNone
  <2>3. NoLane \notin LanesOf(s.members)
    <3>1. \A m \in s.members : 0..(m.present - 1) \subseteq Int
      OBVIOUS
    <3> QED BY <3>1, NoneIsNone DEF LanesOf
  <2> QED BY <2>1, <2>2, <2>3 DEF IsNavigable
<1> QED BY <1>5, <1>6, <1>7

\* For every plant, a link between lane workspaces leads to the group that it
\* names, with all and only the units of that group, in lane mode where one of
\* them has the lane; clearing a filter hides no row (build_lane_workspace).
THEOREM LinksLeadThere == TransformSpec => []LinksLeadToTheirGroup
<1>1. TInv /\ BuiltInv => LinksLeadToTheirGroup
  <2> SUFFICES ASSUME TInv, BuiltInv, stage = "built" PROVE LinksLeadToTheirGroup
    BY DEF LinksLeadToTheirGroup
  <2>1. \A s \in LaneSets : IsNavigable(s)
    BY LaneSetSound DEF Built
  <2> QED BY <2>1, LinksOfALaneSet DEF LinksLeadToTheirGroup
<1> QED BY <1>1, TransformInvariance, BuiltInvHolds, PTL

-----------------------------------------------------------------------------
(* Lane sets that are called consistent *)

\* As many joined lanes as there are, are all of them.
LEMMA AllLanesJoined ==
  ASSUME Built, NEW u \in Units, Cardinality(JoinedLanes(u)) = lanes[u]
  PROVE  JoinedLanes(u) = 0..(lanes[u] - 1)
<1>1. lanes[u] \in Nat
  BY LanesAreNumbers
<1>2. JoinedLanes(u) \in SUBSET (0..(lanes[u] - 1))
  BY DEF JoinedLanes
<1>3. /\ IsFiniteSet(0..(lanes[u] - 1))
      /\ Cardinality(0..(lanes[u] - 1)) = IF 0 > lanes[u] - 1 THEN 0 ELSE (lanes[u] - 1) - 0 + 1
  BY <1>1, FS_Interval
<1>4. Cardinality(0..(lanes[u] - 1)) = lanes[u]
  BY <1>1, <1>3
<1> QED BY <1>2, <1>3, <1>4, FS_Subset

\* For every plant, in a lane set that is called consistent each lane of each
\* unit is joined with another, whether the graph or the profile was asked
\* (InterfaceLaneSet, lane_sets.py).
THEOREM ConsistentSetsAreMapped == TransformSpec => []ConsistentMeansMapped
<1>1. TInv /\ BuiltInv => ConsistentMeansMapped
  <2> SUFFICES ASSUME Built, NEW s \in LaneSets, LaneConsistency(s) = "consistent", NEW m \in s.members
               PROVE  JoinedLanes(m.unit) = 0..(lanes[m.unit] - 1)
    BY DEF ConsistentMeansMapped, Built
  <2>1. Total(s, "present") # 0 /\ Total(s, "mapped") = Total(s, "present") /\ s.unmatched = {}
    BY DEF LaneConsistency
  <2>2. HasTotals(s)
    BY LaneSetSound
  <2>3. plant.lanesOn
    BY <2>1, <2>2, LaneSetSound, TotalZero
  <2>4. m.mapped = m.present
    BY <2>1, <2>2, <2>3, LaneSetSound, TotalsCompare
  <2>5. ASSUME NEW U \in SUBSET Units, NEW matched, NEW unmatched, s = LaneSet(U, matched, unmatched)
        PROVE  \E u \in U : /\ m.unit = u /\ u \in Units /\ (Position(u) \notin matched => JoinedLanes(u) = 0..(lanes[u] - 1))
    <3>1. PICK u \in U : m = Member(u, matched)
      BY <2>5 DEF LaneSet
    <3>2. /\ m.unit = u /\ m.present = lanes[u]
          /\ Position(u) \notin matched => m.mapped = Cardinality(JoinedLanes(u))
      BY <3>1, MemberSays
    <3> QED BY <2>4, <3>2, AllLanesJoined
  <2>6. CASE \E U \in SUBSET Units : s = LaneSet(U, {}, {})
    BY <2>5, <2>6
  <2>7. CASE \E t \in Parents : s = InterfaceLaneSet(t) /\ ParentUnits(t) \subseteq graph.units
    <3>1. PICK t \in Parents : s = InterfaceLaneSet(t) /\ ParentUnits(t) \subseteq graph.units
      BY <2>7
    <3> DEFINE matched == PositionsThat(t, "matched")
    <3>2. s = LaneSet(ParentUnits(t), matched, UnmatchedPositions(t)) /\ ParentUnits(t) \in SUBSET Units
      BY <3>1, GraphUnits DEF InterfaceLaneSet
    <3>3. PICK u \in ParentUnits(t) :
              m.unit = u /\ u \in Units /\ (Position(u) \notin matched => JoinedLanes(u) = 0..(lanes[u] - 1))
      <4> HIDE DEF matched
      <4> QED BY <2>5, <3>2
    <3>4. UnmatchedPositions(t) = {}
      BY <2>1, <3>2 DEF LaneSet
    <3>5. ASSUME Position(u) \in matched PROVE Segmented(u)
      <4>1. Position(u) \in LeftPositions(t)
        BY <3>5 DEF PositionsThat
      <4>2. 0 \notin plant.wired[t]
        <5>1. t \in plant.terms
          BY DEF Parents
        <5> QED BY <5>1, PlantBuilt, PositionsCounted
      <4>3. Position(u) # 0
        BY <4>1, <4>2 DEF LeftPositions
      <4>4. {Position(v) : v \in {w \in ParentUnits(t) : Position(w) # 0 /\ ~Segmented(w)}} = {}
        BY <3>4 DEF UnmatchedPositions
      <4> QED BY <4>3, <4>4
    <3> QED BY <3>3, <3>5, SegmentsJoinLanes
  <2> QED BY <2>6, <2>7, LaneSetsAreOfUnits
<1> QED BY <1>1, TransformInvariance, BuiltInvHolds, PTL

-----------------------------------------------------------------------------
(* Comparing lane sets of interfaces *)

LEMMA InterfaceSetKeyed ==
  ASSUME Built, NEW t
  PROVE  Keyed(InterfaceLaneSet(t))
<1> DEFINE s == InterfaceLaneSet(t)
           matched == PositionsThat(t, "matched")
           own == {u \in graph.units : u.of = t}
<1>1. s.members = {Member(u, matched) : u \in ParentUnits(t)}
  BY DEF InterfaceLaneSet, LaneSet
<1>2. ParentUnits(t) = IF own \cap ChildUnits # {} THEN own \cap ChildUnits ELSE own
  BY DEF ParentUnits
<1>3. graph.units = AttachmentUnits /\ graph.units \subseteq Units
  BY GraphUnits
<1>4. ASSUME NEW u \in ParentUnits(t), NEW v \in ParentUnits(t), Position(u) = Position(v) PROVE u = v
  <2>1. u \in AttachmentUnits /\ v \in AttachmentUnits /\ u.of = t /\ v.of = t
    BY <1>2, <1>3
  <2>2. CASE own \cap ChildUnits # {}
    <3>1. u \in ChildUnits /\ v \in ChildUnits
      BY <1>2, <2>2
    <3>2. Ordinal(u) = Ordinal(v)
      BY <1>4, <3>1 DEF Position
    <3> QED BY <2>1, <3>2 DEF Built, BuiltInv, UnitsBuilt
  <2>3. CASE own \cap ChildUnits = {}
    <3>1. u \in OwnUnits /\ v \in OwnUnits /\ u \notin ChildUnits /\ v \notin ChildUnits
      BY <1>2, <1>3, <2>1, <2>3 DEF AttachmentUnits
    <3>2. u.at = v.at
      BY <1>4, <3>1 DEF Position
    <3>3. ASSUME NEW w \in OwnUnits PROVE w = [of |-> w.of, at |-> w.at]
      BY <3>3 DEF OwnUnits, OwnUnit
    <3> QED BY <2>1, <3>1, <3>2, <3>3
  <2> QED BY <2>2, <2>3
<1>5. ASSUME NEW m \in s.members, NEW n \in s.members, Key(m) = Key(n) PROVE m = n
  <2>1. PICK u \in ParentUnits(t) : m = Member(u, matched)
    BY <1>1
  <2>2. PICK v \in ParentUnits(t) : n = Member(v, matched)
    BY <1>1
  <2>3. m.at = Position(u) /\ n.at = Position(v)
    BY <2>1, <2>2 DEF Member
  <2>4. m.at = n.at
    BY <1>5 DEF Key
  <2> QED BY <1>4, <2>1, <2>2, <2>3, <2>4
<1> QED BY <1>5 DEF Keyed

LEMMA InterfaceSetSound ==
  ASSUME Built, NEW t \in Parents
  PROVE  /\ InterfaceLaneSet(t) \in LaneSets
         /\ IsFiniteSet(InterfaceLaneSet(t).unmatched)
<1>1. InterfaceLaneSet(t) \in LaneSets
  BY DEF LaneSets
<1>2. IsFiniteSet(ParentUnits(t))
  <2>1. ParentUnits(t) \in SUBSET Units
    BY GraphUnits DEF ParentUnits
  <2> QED BY <2>1, UnitsAreFinite, FS_Subset
<1>3. ASSUME NEW U \in SUBSET ParentUnits(t) PROVE IsFiniteSet({Position(u) : u \in U})
  <2> DEFINE f == [u \in U |-> Position(u)]
             P == {Position(u) : u \in U}
  <2>1. IsFiniteSet(U)
    BY <1>2, FS_Subset
  <2>2. f \in Surjection(U, P)
    BY DEF Surjection
  <2> HIDE DEF f, P
  <2>3. IsFiniteSet(P)
    BY <2>1, <2>2, FS_Surjection
  <2> QED BY <2>3 DEF P
<1>4. IsFiniteSet(LeftPositions(t))
  <2>1. IsFiniteSet(plant.wired[t])
    BY PlantBuilt DEF IsPlant, Parents
  <2>2. IsFiniteSet({Position(u) : u \in ParentUnits(t)})
    BY <1>3
  <2>3. IsFiniteSet({Position(u) : u \in ParentUnits(t)} \ {0})
    BY <2>2, FS_RemoveElement
  <2> QED BY <2>1, <2>3 DEF LeftPositions
<1>5. IsFiniteSet(MissedByProfile(t))
  <2>1. MissedByProfile(t) \in SUBSET LeftPositions(t)
    BY DEF MissedByProfile, PositionsThat
  <2> QED BY <1>4, <2>1, FS_Subset
<1>6. IsFiniteSet(UnmatchedPositions(t))
  <2>1. {v \in ParentUnits(t) : Position(v) # 0 /\ ~Segmented(v)} \in SUBSET ParentUnits(t)
    OBVIOUS
  <2>2. IsFiniteSet({Position(u) : u \in {v \in ParentUnits(t) : Position(v) # 0 /\ ~Segmented(v)}})
    BY <1>3, <2>1
  <2> QED BY <1>5, <2>2 DEF UnmatchedPositions
<1> QED BY <1>1, <1>6 DEF InterfaceLaneSet, LaneSet

\* Where a comparison has nothing to review, the two sides have the same keys
\* with the same planes and lanes, and add up to the same.
LEMMA NothingToReview ==
  ASSUME NEW a, NEW b, HasTotals(a), HasTotals(b), Keyed(a), Keyed(b), Reviews(a, b) = {}
  PROVE  /\ Keys(a) = Keys(b)
         /\ \A k \in Keys(a) : MemberAt(a, k).planes = MemberAt(b, k).planes
         /\ \A field \in {"present", "mapped", "expected"} : Total(a, field) = Total(b, field)
<1>1. \A k \in Keys(a) \cup Keys(b) : ChangedFields(a, b, k) = {}
  BY DEF Reviews
<1>2. ASSUME NEW k \in Keys(a) \cup Keys(b) PROVE k \in Keys(a) \cap Keys(b)
  <2>1. CASE k \notin Keys(a) \cap Keys(b)
    <3>1. ChangedFields(a, b, k) = {"attachment_presence"}
      BY <2>1 DEF ChangedFields
    <3> QED BY <1>1, <3>1
  <2> QED BY <2>1
<1>3. Keys(a) = Keys(b)
  BY <1>2
<1>4. ASSUME NEW k \in Keys(a), NEW f \in {"planes", "present", "mapped", "expected"}
      PROVE  MemberAt(a, k)[f] = MemberAt(b, k)[f]
  <2>1. {g \in {"planes", "present", "mapped", "expected"} : MemberAt(a, k)[g] # MemberAt(b, k)[g]} \subseteq ChangedFields(a, b, k)
    BY <1>2 DEF ChangedFields
  <2> QED BY <1>1, <2>1
<1>5. ASSUME NEW f \in {"present", "mapped", "expected"} PROVE Total(a, f) = Total(b, f)
  <2>1. KeyMarks(a, f) = KeyMarks(b, f)
    <3>1. \A k \in Keys(a) : MemberAt(a, k)[f] = MemberAt(b, k)[f]
      BY <1>4
    <3> QED BY <1>3, <3>1 DEF KeyMarks
  <2> QED BY <2>1, TotalByKey
<1> QED BY <1>3, <1>4, <1>5

\* Then the planes of the sides compare alike.
LEMMA SamePlanes ==
  ASSUME NEW a, NEW b, Keyed(a), Keyed(b), Keys(a) = Keys(b),
         \A k \in Keys(a) : MemberAt(a, k).planes = MemberAt(b, k).planes
  PROVE  PlaneIds(a) = PlaneIds(b) /\ PlaneConsistency(a) = PlaneConsistency(b)
<1>1. /\ \A m \in a.members : \E n \in b.members : m.planes = n.planes
      /\ \A n \in b.members : \E m \in a.members : m.planes = n.planes
  BY MemberOfKey
<1>2. PlaneIds(a) = PlaneIds(b)
  BY <1>1 DEF PlaneIds
<1>3. (\A m \in a.members : m.planes = {}) <=> (\A m \in b.members : m.planes = {})
  BY <1>1
<1>4. (\E m \in a.members : Cardinality(m.planes) > 1) <=> (\E m \in b.members : Cardinality(m.planes) > 1)
  BY <1>1
<1> QED BY <1>2, <1>3, <1>4 DEF PlaneConsistency

\* How much worse the lanes of one side are than those of the other.
LEMMA WorseLanes ==
  ASSUME NEW x, NEW y, Worse(<<"empty", "missing", "partial", "consistent">>, x, y)
  PROVE  \/ y = "empty" /\ x \in {"missing", "partial", "consistent"}
         \/ y = "missing" /\ x \in {"partial", "consistent"}
         \/ y = "partial" /\ x = "consistent"
<1>1. PICK i, j \in 1..4 : /\ i < j /\ <<"empty", "missing", "partial", "consistent">>[i] = y
                           /\ <<"empty", "missing", "partial", "consistent">>[j] = x
  BY DEF Worse
<1>2. <<i, j>> \in {<<1, 2>>, <<1, 3>>, <<1, 4>>, <<2, 3>>, <<2, 4>>, <<3, 4>>}
  BY <1>1
<1> QED BY <1>1, <1>2

LEMMA RegressionIsSomewhere ==
  ASSUME NEW a, NEW b, HasTotals(a), HasTotals(b), Keyed(a), Keyed(b),
         IsFiniteSet(a.unmatched), IsFiniteSet(b.unmatched),
         Reviews(a, b) = {}, ~(Cardinality(b.unmatched) > Cardinality(a.unmatched))
  PROVE  Regressions(a, b) = {}
<1>1. /\ Keys(a) = Keys(b)
      /\ \A k \in Keys(a) : MemberAt(a, k).planes = MemberAt(b, k).planes
      /\ Total(a, "present") = Total(b, "present") /\ Total(a, "mapped") = Total(b, "mapped")
      /\ Total(a, "expected") = Total(b, "expected")
  BY NothingToReview
<1>2. PlaneIds(a) = PlaneIds(b) /\ PlaneConsistency(a) = PlaneConsistency(b)
  BY <1>1, SamePlanes
<1>3. a.unmatched = {} => b.unmatched = {}
  <2>1. Cardinality(b.unmatched) \in Nat /\ (Cardinality(b.unmatched) = 0 <=> b.unmatched = {})
    BY FS_CardinalityType, FS_EmptySet
  <2>2. a.unmatched = {} => Cardinality(a.unmatched) = 0
    BY FS_EmptySet
  <2> QED BY <2>1, <2>2
<1>4. MissingLanes(a) \in Nat /\ MissingLanes(b) = MissingLanes(a)
  <2>1. MissingLanes(b) = MissingLanes(a)
    BY <1>1 DEF MissingLanes
  <2>2. Total(a, "expected") \in Nat /\ Total(a, "present") \in Nat
    BY TotalsAreNumbers
  <2>3. \A n \in Int : Max({n, 0}) \in Nat
    <3>1. ASSUME NEW n \in Int, n >= 0 PROVE Max({n, 0}) = n
      BY <3>1 DEF Max
    <3>2. ASSUME NEW n \in Int, n < 0 PROVE Max({n, 0}) = 0
      BY <3>2 DEF Max
    <3> QED BY <3>1, <3>2
  <2> QED BY <2>1, <2>2, <2>3 DEF MissingLanes
<1>5. Total(a, "mapped") \in Nat
  BY TotalsAreNumbers
<1>6. ~Worse(<<"empty", "missing", "partial", "consistent">>, LaneConsistency(a), LaneConsistency(b))
  BY <1>1, <1>3, WorseLanes DEF LaneConsistency
<1>7. ~Worse(<<"unassigned", "mixed", "consistent">>, PlaneConsistency(a), PlaneConsistency(b))
  <2> DEFINE x == PlaneConsistency(a)
  <2>1. SUFFICES ASSUME Worse(<<"unassigned", "mixed", "consistent">>, x, x) PROVE FALSE
    BY <1>2
  <2> HIDE DEF x
  <2>2. PICK i, j \in 1..3 : i < j /\ <<"unassigned", "mixed", "consistent">>[i] = x /\ <<"unassigned", "mixed", "consistent">>[j] = x
    BY <2>1 DEF Worse
  <2>3. <<i, j>> \in {<<1, 2>>, <<1, 3>>, <<2, 3>>}
    BY <2>2
  <2> QED BY <2>2, <2>3
<1>9. ~(MissingLanes(b) > MissingLanes(a)) /\ ~(Total(b, "mapped") < Total(a, "mapped"))
  BY <1>1, <1>4, <1>5
<1>8. ASSUME NEW r \in Regressions(a, b) PROVE FALSE
  <2>1. r \in {"completeness", "mapping", "lanes", "planes", "unresolved", "assignment"}
    BY DEF Regressions
  <2>2. r # "completeness"
    BY <1>9 DEF Regressions
  <2>3. r # "mapping"
    BY <1>9 DEF Regressions
  <2>4. r # "lanes"
    BY <1>6 DEF Regressions
  <2>5. r # "planes"
    BY <1>7 DEF Regressions
  <2>6. r # "unresolved"
    BY DEF Regressions
  <2>7. r # "assignment"
    BY <1>2 DEF Regressions
  <2> QED BY <2>1, <2>2, <2>3, <2>4, <2>5, <2>6, <2>7
<1> QED BY <1>8

\* Where the lanes of one interface are less consistent than those of another,
\* a metric is worse.
LEMMA WorseHasMetric ==
  ASSUME Built, NEW s \in Parents, NEW t \in Parents,
         "lanes" \in Regressions(InterfaceLaneSet(s), InterfaceLaneSet(t))
  PROVE  RegressedMetrics(InterfaceLaneSet(s), InterfaceLaneSet(t)) # {}
<1> DEFINE a == InterfaceLaneSet(s)
           b == InterfaceLaneSet(t)
<1>1. /\ a \in LaneSets /\ b \in LaneSets /\ IsFiniteSet(a.unmatched) /\ IsFiniteSet(b.unmatched)
      /\ HasTotals(a) /\ HasTotals(b)
  BY InterfaceSetSound, LaneSetSound
<1>2. /\ ~plant.lanesOn => \A m \in a.members : m.present = 0
      /\ plant.lanesOn => \A m \in a.members : m.expected = m.present /\ m.mapped <= m.present
      /\ plant.lanesOn => \A m \in b.members : m.expected = m.present /\ m.mapped <= m.present
  BY <1>1, LaneSetSound
<1>3. Worse(<<"empty", "missing", "partial", "consistent">>, LaneConsistency(a), LaneConsistency(b))
  BY DEF Regressions
<1> HIDE DEF a, b
<1>4. SUFFICES ASSUME RegressedMetrics(a, b) = {} PROVE FALSE
  BY DEF a, b
<1>5. /\ Total(a, "present") \in Nat /\ Total(b, "present") \in Nat /\ Total(a, "mapped") \in Nat
      /\ Total(b, "mapped") \in Nat
  BY <1>1, TotalsAreNumbers
<1>6. /\ ~(Gains(b)[1] < Gains(a)[1]) /\ ~(Gains(b)[2] < Gains(a)[2])
      /\ ~(Losses(b)[2] > Losses(a)[2]) /\ ~(Losses(b)[3] > Losses(a)[3])
  <2>1. {i \in 1..2 : Gains(b)[i] < Gains(a)[i]} = {} /\ {j \in 1..3 : Losses(b)[j] > Losses(a)[j]} = {}
    BY <1>4 DEF RegressedMetrics
  <2> QED BY <2>1
<1>7. /\ Total(b, "present") >= Total(a, "present") /\ Total(b, "mapped") >= Total(a, "mapped")
      /\ ~(Cardinality(Incomplete(b)) > Cardinality(Incomplete(a)))
      /\ ~(Cardinality(b.unmatched) > Cardinality(a.unmatched))
  BY <1>5, <1>6 DEF Gains, Losses
<1>8. Total(a, "present") # 0 /\ Total(b, "present") # 0
  <2>1. LaneConsistency(a) # "empty"
    BY <1>3, WorseLanes
  <2>2. Total(a, "present") # 0
    BY <2>1 DEF LaneConsistency
  <2> QED BY <1>5, <1>7, <2>2
<1>9. LaneConsistency(b) = "partial" /\ LaneConsistency(a) = "consistent"
  <2>1. LaneConsistency(b) # "empty"
    BY <1>8 DEF LaneConsistency
  <2>2. LaneConsistency(b) = "missing" => Total(b, "mapped") = 0
    BY <1>8 DEF LaneConsistency
  <2>3. Total(a, "mapped") = 0 => LaneConsistency(a) = "missing"
    BY <1>8 DEF LaneConsistency
  <2>4. LaneConsistency(b) # "missing"
    <3>1. SUFFICES ASSUME LaneConsistency(b) = "missing" PROVE FALSE
      OBVIOUS
    <3>2. Total(a, "mapped") = 0
      BY <3>1, <2>2, <1>5, <1>7
    <3> QED BY <3>1, <3>2, <2>3, <1>3, WorseLanes
  <2> QED BY <2>1, <2>4, <1>3, WorseLanes
<1>10. plant.lanesOn
  BY <1>1, <1>2, <1>8, TotalZero
<1>11. Total(a, "mapped") = Total(a, "present") /\ a.unmatched = {}
  BY <1>8, <1>9 DEF LaneConsistency
<1>12. Incomplete(a) = {}
  <2>1. \A m \in a.members : m.mapped = m.present /\ m.expected = m.present /\ m.present \in Nat
    BY <1>1, <1>2, <1>10, <1>11, TotalsCompare DEF HasTotals
  <2>2. \A m \in a.members : LaneStatus(m) \in {"complete", "empty"}
    BY <2>1 DEF LaneStatus
  <2> QED BY <2>2 DEF Incomplete
<1>13. b.unmatched = {}
  <2>1. Cardinality(a.unmatched) = 0
    BY <1>11, FS_EmptySet
  <2>2. Cardinality(b.unmatched) \in Nat /\ (Cardinality(b.unmatched) = 0 <=> b.unmatched = {})
    BY <1>1, FS_CardinalityType, FS_EmptySet
  <2> QED BY <1>7, <2>1, <2>2
<1>14. Total(b, "mapped") # Total(b, "present")
  BY <1>8, <1>9, <1>13 DEF LaneConsistency
<1>15. PICK m \in b.members : m.mapped # m.present
  <2>1. SUFFICES ASSUME \A m \in b.members : m.mapped = m.present PROVE FALSE
    OBVIOUS
  <2>2. Marks(b.members, "mapped") = Marks(b.members, "present")
    BY <2>1 DEF Marks
  <2> QED BY <1>1, <1>14, <2>2, TotalsAreNumbers
<1>16. m \in Incomplete(b)
  <2>1. m.mapped <= m.present /\ m.mapped \in Nat /\ m.present \in Nat
    BY <1>1, <1>2, <1>10 DEF HasTotals
  <2>2. m.present # 0
    BY <1>15, <2>1
  <2>3. LaneStatus(m) = "partial"
    BY <1>15, <2>2 DEF LaneStatus
  <2> QED BY <2>3 DEF Incomplete
<1>17. IsFiniteSet(Incomplete(b))
  <2>1. IsFiniteSet(b.members) /\ Incomplete(b) \in SUBSET b.members
    BY <1>1 DEF HasTotals, Incomplete
  <2> QED BY <2>1, FS_Subset
<1>18. Cardinality(Incomplete(b)) \in Nat /\ Cardinality(Incomplete(b)) # 0 /\ Cardinality(Incomplete(a)) = 0
  BY <1>12, <1>16, <1>17, FS_CardinalityType, FS_EmptySet
<1> QED BY <1>7, <1>18

\* For every plant, a comparison of two interfaces names no regression without
\* an attachment to review or more unmatched positions, and none in the
\* consistency of lanes without a metric that got worse (compare.py).
THEOREM RegressionsAreExplained == TransformSpec => []RegressionsHaveRows
<1>1. TInv /\ BuiltInv => RegressionsHaveRows
  <2> SUFFICES ASSUME TInv, BuiltInv, stage = "built"
               PROVE  \A s, t \in Parents :
                         LET a == InterfaceLaneSet(s)
                             b == InterfaceLaneSet(t)
                         IN  /\ Regressions(a, b) # {} => Reviews(a, b) # {} \/ Cardinality(b.unmatched) > Cardinality(a.unmatched)
                             /\ "lanes" \in Regressions(a, b) => RegressedMetrics(a, b) # {}
    BY DEF RegressionsHaveRows
  <2>1. Built
    BY DEF Built
  <2> SUFFICES ASSUME NEW s \in Parents, NEW t \in Parents
               PROVE  LET a == InterfaceLaneSet(s)
                          b == InterfaceLaneSet(t)
                      IN  /\ Regressions(a, b) # {} => Reviews(a, b) # {} \/ Cardinality(b.unmatched) > Cardinality(a.unmatched)
                          /\ "lanes" \in Regressions(a, b) => RegressedMetrics(a, b) # {}
    OBVIOUS
  <2> DEFINE a == InterfaceLaneSet(s)
             b == InterfaceLaneSet(t)
  <2>2. "lanes" \in Regressions(a, b) => RegressedMetrics(a, b) # {}
    BY <2>1, WorseHasMetric
  <2>3. /\ HasTotals(a) /\ HasTotals(b) /\ Keyed(a) /\ Keyed(b)
        /\ IsFiniteSet(a.unmatched) /\ IsFiniteSet(b.unmatched)
    BY <2>1, InterfaceSetSound, LaneSetSound, InterfaceSetKeyed
  <2> HIDE DEF a, b
  <2>4. Regressions(a, b) # {} => Reviews(a, b) # {} \/ Cardinality(b.unmatched) > Cardinality(a.unmatched)
    BY <2>3, RegressionIsSomewhere
  <2> QED BY <2>2, <2>4 DEF a, b
<1> QED BY <1>1, TransformInvariance, BuiltInvHolds, PTL

-----------------------------------------------------------------------------
(* Positions that are not lost silently *)

\* Under a strict total order on a finite set, every rank is that of some
\* element.
LEMMA RankReached ==
  ASSUME NEW S, IsFiniteSet(S), NEW B,
         \A x \in S : <<x, x>> \notin B,
         \A x, y \in S : x # y => <<x, y>> \in B \/ <<y, x>> \in B,
         \A x, y, z \in S : <<x, y>> \in B /\ <<y, z>> \in B => <<x, z>> \in B,
         NEW k \in Nat, k < Cardinality(S)
  PROVE  \E r \in S : Cardinality({s \in S : <<s, r>> \in B}) = k
<1> DEFINE n == Cardinality(S)
           Below(r) == {s \in S : <<s, r>> \in B}
           f == [r \in S |-> Cardinality(Below(r))]
           T == 0..(n - 1)
<1>1. n \in Nat
  BY FS_CardinalityType
<1>2. ASSUME NEW r \in S
      PROVE  IsFiniteSet(Below(r)) /\ Cardinality(Below(r)) \in Nat /\ Cardinality(Below(r)) < n
  <2>1. Below(r) \in SUBSET S /\ Below(r) # S
    OBVIOUS
  <2> HIDE DEF Below
  <2>2. IsFiniteSet(Below(r)) /\ Cardinality(Below(r)) <= n /\ (n = Cardinality(Below(r)) => S = Below(r))
    BY <2>1, FS_Subset
  <2>3. Cardinality(Below(r)) \in Nat
    BY <2>2, FS_CardinalityType
  <2> QED BY <1>1, <2>1, <2>2, <2>3
<1>3. ASSUME NEW r \in S, NEW q \in S, <<r, q>> \in B
      PROVE  f[r] < f[q]
  <2>1. Below(r) \in SUBSET Below(q) /\ Below(r) # Below(q)
    <3>1. r \in Below(q) /\ r \notin Below(r)
      BY <1>3
    <3>2. \A s \in Below(r) : s \in Below(q)
      BY <1>3
    <3> QED BY <3>1, <3>2
  <2>2. IsFiniteSet(Below(q)) /\ Cardinality(Below(q)) \in Nat /\ Cardinality(Below(r)) \in Nat
    BY <1>2
  <2>3. f[r] = Cardinality(Below(r)) /\ f[q] = Cardinality(Below(q))
    OBVIOUS
  <2> HIDE DEF Below, f
  <2>4. Cardinality(Below(r)) <= Cardinality(Below(q)) /\ (Cardinality(Below(q)) = Cardinality(Below(r)) => Below(q) = Below(r))
    BY <2>1, <2>2, FS_Subset
  <2> QED BY <2>1, <2>2, <2>3, <2>4
<1>4. \A r \in S : f[r] \in T
  <2> HIDE DEF Below
  <2> QED BY <1>1, <1>2
<1>5. \A r, q \in S : f[r] = f[q] => r = q
  <2>1. \A r \in S : f[r] \in Int
    BY <1>1, <1>4
  <2> SUFFICES ASSUME NEW r \in S, NEW q \in S, r # q PROVE f[r] # f[q]
    OBVIOUS
  <2>2. f[r] < f[q] \/ f[q] < f[r]
    BY <1>3
  <2> HIDE DEF f
  <2> QED BY <2>1, <2>2
<1>6. f \in Injection(S, T)
  <2>1. f \in [S -> T]
    BY <1>4
  <2> HIDE DEF T
  <2>2. \A r, q \in S : f[r] = f[q] => r = q
    BY <1>5
  <2> HIDE DEF f
  <2> QED BY <2>1, <2>2 DEF Injection, IsInjective
<1>7. IsFiniteSet(T) /\ Cardinality(T) = n
  <2> HIDE DEF n
  <2>1. 0 \in Int /\ n - 1 \in Int
    BY <1>1
  <2>2. IsFiniteSet(T) /\ Cardinality(T) = IF 0 > n - 1 THEN 0 ELSE n - 1 - 0 + 1
    BY <2>1, FS_Interval
  <2> QED BY <1>1, <2>2
<1>8. f \in Surjection(S, T)
  <2> HIDE DEF T, f, n
  <2>1. Cardinality(S) = Cardinality(T)
    BY <1>7 DEF n
  <2> QED BY <1>6, <1>7, <2>1, FS_Injection
<1>9. k \in T
  BY <1>1
<1>10. PICK r \in S : f[r] = k
  <2> HIDE DEF f, T
  <2> QED BY <1>8, <1>9 DEF Surjection
<1> QED BY <1>10

\* As many ordinals as there are child interfaces are taken (_child_ordinal).
LEMMA OrdinalReached ==
  ASSUME IsPlant(plant), NEW t \in plant.terms, NEW n \in Nat \ {0}, n <= Cardinality(ChildrenOf(t))
  PROVE  \E c \in ChildrenOf(t) : ChildOrdinal(c) = n
<1> DEFINE S == ChildrenOf(t)
           B == {p \in S \X S : Before(p[1], p[2])}
<1>1. IsFiniteSet(S)
  <2>1. S \in SUBSET plant.children /\ IsFiniteSet(plant.children)
    BY DEF ChildrenOf, IsPlant, ChildrenFit
  <2> HIDE DEF S
  <2> QED BY <2>1, FS_Subset
<1>2. \A c \in S : c \in plant.children /\ c.parent = t.pk /\ c.pk \in Nat /\ c.name \in Nat
  BY DEF ChildrenOf, IsPlant, ChildrenFit
<1>3. \A c, d \in S : c.pk = d.pk => c = d
  BY <1>2 DEF IsPlant, ChildrenFit
<1>4. \A x, y \in S : <<x, y>> \in B <=> x.name < y.name \/ (x.name = y.name /\ x.pk < y.pk)
  BY DEF Before
<1>a. \A c \in S : c.pk \in Nat /\ c.name \in Nat
  BY <1>2
<1>5. PICK c \in S : Cardinality({s \in S : <<s, c>> \in B}) = n - 1
  <2>1. \A x \in S : <<x, x>> \notin B
    BY <1>a, <1>4
  <2>2. \A x, y \in S : x # y => <<x, y>> \in B \/ <<y, x>> \in B
    <3> SUFFICES ASSUME NEW x \in S, NEW y \in S, x # y PROVE <<x, y>> \in B \/ <<y, x>> \in B
      OBVIOUS
    <3>1. x.pk \in Nat /\ x.name \in Nat /\ y.pk \in Nat /\ y.name \in Nat /\ x.pk # y.pk
      BY <1>a, <1>3
    <3> HIDE DEF S, B
    <3> QED BY <3>1, <1>4
  <2>3. \A x, y, z \in S : <<x, y>> \in B /\ <<y, z>> \in B => <<x, z>> \in B
    <3> HIDE DEF S, B
    <3> QED BY <1>a, <1>4
  <2>4. n - 1 \in Nat /\ n - 1 < Cardinality(S)
    BY <1>1, FS_CardinalityType
  <2> HIDE DEF S, B
  <2> QED BY <1>1, <2>1, <2>2, <2>3, <2>4, RankReached
<1>6. {s \in S : <<s, c>> \in B} = {d \in plant.children : d.parent = c.parent /\ Before(d, c)}
  <2>1. c.parent = t.pk /\ c \in S
    BY <1>2
  <2> QED BY <2>1 DEF ChildrenOf
<1>7. ChildOrdinal(c) = n
  <2> DEFINE k == Cardinality({d \in plant.children : d.parent = c.parent /\ Before(d, c)})
  <2>1. k = n - 1
    BY <1>5, <1>6
  <2>2. ChildOrdinal(c) = 1 + k
    BY DEF ChildOrdinal
  <2> HIDE DEF k
  <2> QED BY <2>1, <2>2
<1> QED BY <1>7

\* What the audit finds wrong with a cable, the candidates name as well: a
\* cable that is not named by both has nothing wrong with it.
LEMMA UnnamedIsFine ==
  ASSUME Built, NEW c \in RelevantCables, ~IsNamed(c)
  PROVE  /\ Unresolved(c) = {}
         /\ ~RequiresExplicitProfile(c)
         /\ \A s \in Channelized(c) : ~(Cardinality(ChildrenOf(s)) < Cardinality(ExpectedPositions(s)))
         /\ \A u \in Orphaned : u.of \notin OnCable(c)
<1>1. \A f \in CableFindings(c) : f \in DerivationFindings
  BY DEF DerivationFindings
<1>2. \A k \in CableCandidates(c) : k \in Candidates
  BY DEF Candidates
<1>3. \A x \in Concerns(c) : ~((\E f \in DerivationFindings : f.about = x) /\ (\E k \in Candidates : k.scope = x))
  BY DEF IsNamed
<1>4. CableRef(c) \in Concerns(c) /\ \A s \in OnCable(c) : s \in Concerns(c)
  BY DEF Concerns
<1>5. ASSUME Unresolved(c) # {} PROVE FALSE
  <2>1. PICK v \in Unresolved(c) : TRUE
    BY <1>5
  <2>2. \E f \in ProfileFindings(c) : f.about = CableRef(c)
    BY <1>5 DEF ProfileFindings, Finding
  <2>3. \E k \in ProfileCandidates(c) : k.scope = CableRef(c)
    <3>1. \E P : Candidate(v.verdict, CableRef(c), P) \in ProfileCandidates(c)
      BY <2>1 DEF ProfileCandidates
    <3> QED BY <3>1 DEF Candidate
  <2> QED BY <1>1, <1>2, <1>3, <1>4, <2>2, <2>3 DEF CableFindings, CableCandidates
<1>6. ASSUME RequiresExplicitProfile(c) PROVE FALSE
  <2>1. Finding("missing_cable_profile", CableRef(c), 0) \in CableFindings(c)
    BY <1>6 DEF CableFindings
  <2>2. Candidate("missing_cable_profile", CableRef(c), {}) \in CableCandidates(c)
    BY <1>6 DEF CableCandidates
  <2>3. /\ Finding("missing_cable_profile", CableRef(c), 0).about = CableRef(c)
        /\ Candidate("missing_cable_profile", CableRef(c), {}).scope = CableRef(c)
    BY DEF Finding, Candidate
  <2> QED BY <1>1, <1>2, <1>3, <1>4, <2>1, <2>2, <2>3
<1>7. ASSUME NEW s \in Channelized(c), Cardinality(ChildrenOf(s)) < Cardinality(ExpectedPositions(s)) PROVE FALSE
  <2> DEFINE type == IF ChildrenOf(s) = {} THEN "missing_child_interface" ELSE "incomplete_child_interface_set"
             f == Finding(type, s, 0)
             k == Candidate(type, s, {<<s, n>> : n \in MissingPositions(s)})
  <2>1. f \in ChildFindings(c)
    BY <1>7 DEF ChildFindings
  <2>2. k \in ChildCandidates(c)
    BY <1>7 DEF ChildCandidates
  <2>3. f.about = s /\ k.scope = s /\ s \in OnCable(c)
    BY DEF Finding, Candidate, Channelized
  <2> HIDE DEF f, k
  <2>4. f \in CableFindings(c)
    BY <1>6, <2>1 DEF CableFindings
  <2>5. k \in CableCandidates(c)
    BY <1>6, <2>2 DEF CableCandidates
  <2> QED BY <1>1, <1>2, <1>3, <1>4, <2>3, <2>4, <2>5
<1>8. ASSUME NEW u \in Orphaned, u.of \in OnCable(c) PROVE FALSE
  <2>1. u \in Concerns(c)
    BY <1>8 DEF Orphaned, Concerns
  <2>2. Finding("orphaned_attachment_unit", u, 0) \in DerivationFindings
    BY DEF DerivationFindings, OrphanFindings
  <2>3. Candidate("orphaned_attachment_unit", u, {}) \in Candidates
    BY DEF Candidates, OrphanCandidates
  <2>4. /\ Finding("orphaned_attachment_unit", u, 0).about = u
        /\ Candidate("orphaned_attachment_unit", u, {}).scope = u
    BY DEF Finding, Candidate
  <2> QED BY <1>3, <2>1, <2>2, <2>3, <2>4
<1> QED BY <1>5, <1>6, <1>7, <1>8

\* A step of a path between two others that lead to terminations.
LEMMA StepOfPath ==
  ASSUME IsPlant(plant), NEW path \in plant.paths
  PROVE  /\ Len(path) \in Nat
         /\ \A i \in 1..Len(path) : path[i].ends \in SUBSET (plant.terms \cup plant.outer)
<1> DEFINE Step == [cable : DOMAIN plant.cables \cup {NoCable}, ends : SUBSET (plant.terms \cup plant.outer)]
<1>1. path \in Seq(Step)
  BY DEF IsPlant
<1>2. \A x \in Step : x.ends \in SUBSET (plant.terms \cup plant.outer)
  OBVIOUS
<1>3. Len(path) \in Nat /\ \A i \in 1..Len(path) : path[i] \in Step
  <2> HIDE DEF Step
  <2> QED BY <1>1, ElementOfSeq, LenProperties
<1> QED BY <1>2, <1>3

\* A path comes to a cable at terminations of one end of it and leaves it at
\* those of the other.
LEMMA CableStep ==
  ASSUME IsPlant(plant), NEW path \in plant.paths, NEW i \in 2..(Len(path) - 1), path[i].cable # NoCable
  PROVE  /\ path[i - 1].ends \in SUBSET (plant.terms \cup plant.outer)
         /\ path[i + 1].ends \in SUBSET (plant.terms \cup plant.outer)
         /\ \A t \in path[i - 1].ends : plant.on[t] = path[i].cable
         /\ \A t \in path[i - 1].ends, s \in path[i + 1].ends : s \in Peers(t)
         /\ \A t \in path[i - 1].ends : ~HasNativeProfile(path[i].cable) => path[i + 1].ends = Peers(t)
         /\ \A s, t \in path[i + 1].ends : s.kind = t.kind
<1> DEFINE All == plant.terms \cup plant.outer
           Far(t) == {s \in All : plant.on[s] = plant.on[t] /\ plant.plug[s][1] # plant.plug[t][1]}
<1>1. Len(path) \in Nat /\ \A j \in 1..Len(path) : path[j].ends \in SUBSET All
  BY StepOfPath
<1>2. i - 1 \in 1..Len(path) /\ i + 1 \in 1..Len(path)
  BY <1>1
<1>3. i \in {j \in 2..(Len(path) - 1) : path[j].cable # NoCable}
  OBVIOUS
<1>4. /\ \A s, t \in path[i + 1].ends : s.kind = t.kind
      /\ \A t \in path[i - 1].ends : /\ plant.on[t] = path[i].cable
                                     /\ path[i + 1].ends \subseteq Far(t)
                                     /\ path[i + 1].ends = Far(t) \/ DOMAIN plant.cables[path[i].cable].profile # {}
  BY <1>3 DEF IsPlant, CablesFit
<1>5. \A t : Far(t) = Peers(t)
  BY DEF Peers, OnCable
<1> HIDE DEF Far
<1> QED BY <1>1, <1>2, <1>4, <1>5 DEF HasNativeProfile

\* What an edge of a path is, as far as its key goes.
LEMMA EdgeOfCable ==
  ASSUME Built, NEW path \in plant.paths, NEW i \in 2..(Len(path) - 1), path[i].cable # NoCable,
         NEW e \in CableEdges(path[i - 1].ends, path[i].cable, path[i + 1].ends)
  PROVE  \E f \in edges : f.kind = "derived_cable_segment" /\ f.via = path[i].cable /\ f.ends = e.ends
<1>1. IsPlant(plant)
  BY PlantBuilt
<1>2. Segment(e) /\ e.via = path[i].cable
  BY <1>1, CableStep, CableEdgesJoinUnits
<1>3. e.kind = "derived_cable_segment"
  BY <1>2 DEF Segment, Edge
<1> DEFINE cabled == {j \in 2..(Len(path) - 1) : IsCable(path[j])}
           crossed == UNION {Crossed(path[j].ends, path[j + 1].ends) : j \in 1..(Len(path) - 1)}
           ofCables == UNION {CableEdges(path[j - 1].ends, path[j].cable, path[j + 1].ends) : j \in cabled}
           ofMappings == {PassthroughEdge(m) : m \in crossed}
<1>4. e \in ofCables
  <2>1. i \in cabled
    BY DEF IsCable
  <2> HIDE DEF cabled
  <2> QED BY <2>1
<1>5. e \in PathEdges(path)
  <2>1. PathEdges(path) = ofCables \cup ofMappings
    BY Zenon DEF PathEdges
  <2> HIDE DEF ofCables, ofMappings
  <2> QED BY <2>1, <1>4
<1>6. e \in AllEdges
  BY <1>5 DEF AllEdges
<1>7. TInv /\ ~Gathering
  BY DEF Built, Gathering
<1>8. PICK f \in edges : SameKey(e, f)
  BY <1>6, <1>7, EdgesOfPaths
<1> QED BY <1>2, <1>3, <1>8 DEF SameKey, FineKey

\* A unit that is found is one of the termination it was looked for at; one
\* is found for the base of every termination and for all positions of a port.
LEMMA UnitOfTermination ==
  ASSUME IsPlant(plant), NEW t \in plant.terms, NEW n
  PROVE  /\ UnitAt(t, n) # NoUnit => UnitAt(t, n).of = t
         /\ n = 0 \/ t.kind # "interface" => UnitAt(t, n) # NoUnit
<1> DEFINE children == {c \in ChildrenOf(t) : n # 0 /\ ChildOrdinal(c) = n}
<1>0. t \notin plant.outer
  BY DEF IsPlant
<1>a. NoUnit.of # t
  <2>1. NoUnit.of = [kind |-> "none", pk |-> 0] /\ NoUnit.of.kind = "none"
    BY DEF NoUnit
  <2>2. t.kind \in {"interface", "front_port", "rear_port"}
    BY DEF IsPlant, CablesFit
  <2> QED BY <2>1, <2>2
<1>1. CASE children # {}
  <2>1. UnitAt(t, n) = ChildUnit(t, CHOOSE c \in children : TRUE)
    BY <1>0, <1>1 DEF UnitAt
  <2>2. UnitAt(t, n).of = t
    BY <2>1 DEF ChildUnit
  <2> QED BY <1>a, <2>2
<1>2. CASE children = {} /\ n \in Positions(t)
  <2>1. UnitAt(t, n) = OwnUnit(t, n)
    BY <1>0, <1>2 DEF UnitAt
  <2>2. UnitAt(t, n).of = t
    BY <2>1 DEF OwnUnit
  <2> QED BY <1>a, <2>2
<1>3. CASE children = {} /\ n \notin Positions(t)
  <2>1. UnitAt(t, n) = IF n = 0 \/ t.kind # "interface" THEN OwnUnit(t, Min(Positions(t))) ELSE NoUnit
    BY <1>0, <1>3 DEF UnitAt
  <2>2. OwnUnit(t, Min(Positions(t))).of = t
    BY DEF OwnUnit
  <2> QED BY <1>a, <2>1, <2>2
<1> QED BY <1>1, <1>2, <1>3

\* The ends of an edge over a cable are units of the terminations before and
\* after it.
LEMMA CableEdgeEnds ==
  ASSUME IsPlant(plant), NEW L, NEW c, NEW R, NEW e \in CableEdges(L, c, R)
  PROVE  \E t \in L, s \in R : \E n, m : /\ e.ends = {UnitAt(t, n), UnitAt(s, m)}
                                           /\ NoUnit \notin e.ends /\ UnitAt(t, n) # UnitAt(s, m)
<1> DEFINE Joins(q) == q[1] \in L /\ q[3] \in R
           profile == MappedPairs(plant.cables[c].profile, L, R)
           assembly == MappedPairs(plant.cables[c].assembly, L, R)
           breakout == BreakoutPairs(plant.cables[c].breakout, L, R)
           identity == IdentityPairs(L, R)
<1>1. /\ \A q \in profile : Joins(q)
      /\ \A q \in assembly : Joins(q)
      /\ \A q \in breakout : Joins(q)
  BY MappedPairsJoinSides, BreakoutPairsJoinSides
<1>2. \A q \in identity : Joins(q)
  BY DEF IdentityPairs
<1>3. \/ e \in Segments(profile, c, TRUE) \/ e \in Segments(assembly, c, TRUE)
      \/ e \in Segments(breakout, c, TRUE) \/ e \in Segments(identity, c, FALSE)
  <2>1. CASE profile # {}
    BY <2>1 DEF CableEdges
  <2>2. CASE profile = {} /\ assembly # {}
    BY <2>2 DEF CableEdges
  <2>3. CASE profile \cup assembly = {} /\ breakout # {}
    BY <2>3 DEF CableEdges
  <2>4. CASE profile \cup assembly \cup breakout = {}
    BY <2>4 DEF CableEdges
  <2> QED BY <2>1, <2>2, <2>3, <2>4
<1> HIDE DEF profile, assembly, breakout, identity
<1>4. \E q \in profile \cup assembly \cup breakout \cup identity :
         /\ e.ends = {UnitAt(q[1], q[2]), UnitAt(q[3], q[4])} /\ NoUnit \notin e.ends
         /\ UnitAt(q[1], q[2]) # UnitAt(q[3], q[4])
  BY <1>3 DEF Segments, Edge
<1>5. PICK q \in profile \cup assembly \cup breakout \cup identity :
         /\ e.ends = {UnitAt(q[1], q[2]), UnitAt(q[3], q[4])} /\ NoUnit \notin e.ends
         /\ UnitAt(q[1], q[2]) # UnitAt(q[3], q[4])
  BY <1>4
<1>6. Joins(q)
  BY <1>1, <1>2
<1> QED BY <1>5, <1>6

\* An edge is one over a cable of a path, or one of a port mapping.
LEMMA EdgeOfPath ==
  ASSUME Built, NEW e \in edges
  PROVE  \/ \E path \in plant.paths : \E i \in 2..(Len(path) - 1) :
               path[i].cable # NoCable /\ e \in CableEdges(path[i - 1].ends, path[i].cable, path[i + 1].ends)
         \/ \E m \in plant.mappings : e = PassthroughEdge(m)
<1>1. ~Gathering /\ TInv
  BY DEF Built, Gathering
<1>2. PICK path \in plant.paths : e \in PathEdges(path)
  BY <1>1, EdgesOfPaths DEF AllEdges
<1> DEFINE cabled == {j \in 2..(Len(path) - 1) : IsCable(path[j])}
           crossed == UNION {Crossed(path[j].ends, path[j + 1].ends) : j \in 1..(Len(path) - 1)}
           ofCables == UNION {CableEdges(path[j - 1].ends, path[j].cable, path[j + 1].ends) : j \in cabled}
           ofMappings == {PassthroughEdge(m) : m \in crossed}
<1>3. e \in ofCables \/ e \in ofMappings
  <2>1. PathEdges(path) = ofCables \cup ofMappings
    BY Zenon DEF PathEdges
  <2> HIDE DEF ofCables, ofMappings
  <2> QED BY <1>2, <2>1
<1>4. CASE e \in ofMappings
  <2>1. PICK m \in crossed : e = PassthroughEdge(m)
    <3> HIDE DEF crossed
    <3> QED BY <1>4
  <2>2. m \in plant.mappings
    BY <2>1 DEF Crossed
  <2> QED BY <2>1, <2>2
<1>5. CASE e \in ofCables
  <2>1. PICK i \in cabled : e \in CableEdges(path[i - 1].ends, path[i].cable, path[i + 1].ends)
    <3> HIDE DEF cabled
    <3> QED BY <1>5
  <2> QED BY <2>1 DEF IsCable
<1> QED BY <1>3, <1>4, <1>5

\* An interface, or a child of it, is connected over its own cable only.
LEMMA ConnectedOverCable ==
  ASSUME Built, NEW u \in Connected, u.of \in plant.terms, u.of.kind = "interface"
  PROVE  \E e \in edges : e.kind = "derived_cable_segment" /\ e.via = plant.on[u.of] /\ u \in e.ends
<1>1. IsPlant(plant)
  BY PlantBuilt
<1>2. ASSUME NEW m \in plant.mappings
      PROVE  /\ m.front \in plant.terms /\ m.front.kind = "front_port"
             /\ m.rear \in plant.terms /\ m.rear.kind = "rear_port"
  BY <1>1 DEF IsPlant
<1>3. ASSUME NEW t \in transfers, u \in {t.src, t.dst} PROVE FALSE
  <2>1. PICK m \in plant.mappings : t = TransferMap(m)
    BY DEF Built, TInv, TransfersMapped
  <2>2. t.src.of = m.front /\ t.dst.of = m.rear
    BY <2>1 DEF TransferMap, OwnUnit
  <2> QED BY <1>2, <1>3, <2>2
<1>4. PICK e \in edges : u \in e.ends
  <2> DEFINE joined == UNION {e.ends : e \in edges}
             mapped == UNION {{t.src, t.dst} : t \in transfers}
  <2>1. u \in joined \/ u \in mapped
    <3>1. Connected = joined \cup mapped
      BY Zenon DEF Connected
    <3> HIDE DEF joined, mapped
    <3> QED BY <3>1
  <2>2. u \notin mapped
    BY <1>3
  <2>3. u \in joined
    BY <2>1, <2>2
  <2> QED BY <2>3
<1>8. CASE \E m \in plant.mappings : e = PassthroughEdge(m)
  <2>2. PICK m \in plant.mappings : e = PassthroughEdge(m)
    BY <1>8
  <2>3. e.ends = {UnitAt(m.front, m.fpos), UnitAt(m.rear, m.rpos)}
    BY <2>2 DEF PassthroughEdge, Edge
  <2>4. u.of = m.front \/ u.of = m.rear
    BY <1>1, <1>2, <1>4, <2>2, <2>3, UnitOfTermination
  <2> QED BY <1>2, <2>2, <2>4
<1>9. CASE \E path \in plant.paths : \E i \in 2..(Len(path) - 1) :
              path[i].cable # NoCable /\ e \in CableEdges(path[i - 1].ends, path[i].cable, path[i + 1].ends)
  <2>0. PICK path \in plant.paths : \E i \in 2..(Len(path) - 1) :
            path[i].cable # NoCable /\ e \in CableEdges(path[i - 1].ends, path[i].cable, path[i + 1].ends)
    BY <1>9
  <2>1. PICK i \in 2..(Len(path) - 1) :
            path[i].cable # NoCable /\ e \in CableEdges(path[i - 1].ends, path[i].cable, path[i + 1].ends)
    BY <2>0
  <2>3. /\ path[i - 1].ends \in SUBSET (plant.terms \cup plant.outer)
        /\ path[i + 1].ends \in SUBSET (plant.terms \cup plant.outer)
        /\ \A t \in path[i - 1].ends : plant.on[t] = path[i].cable
        /\ \A t \in path[i - 1].ends, s \in path[i + 1].ends : s \in Peers(t)
    BY <1>1, <2>1, CableStep
  <2>4. Segment(e) /\ e.via = path[i].cable
    BY <1>1, <2>1, <2>3, CableEdgesJoinUnits
  <2>5. PICK t \in path[i - 1].ends, s \in path[i + 1].ends :
            \E n, m : e.ends = {UnitAt(t, n), UnitAt(s, m)} /\ NoUnit \notin e.ends
    BY <1>1, <2>1, CableEdgeEnds
  <2>6. plant.on[t] = path[i].cable /\ plant.on[s] = path[i].cable
    BY <2>3 DEF Peers, OnCable
  <2>7. ASSUME NEW r \in plant.terms \cup plant.outer, NEW n, UnitAt(r, n) # NoUnit PROVE UnitAt(r, n).of = r
    <3>1. r \in plant.terms
      BY <2>7 DEF UnitAt
    <3> QED BY <1>1, <2>7, <3>1, UnitOfTermination
  <2>8. u.of = t \/ u.of = s
    <3>1. PICK n, m : e.ends = {UnitAt(t, n), UnitAt(s, m)} /\ NoUnit \notin e.ends
      BY <2>5
    <3> QED BY <1>4, <2>3, <2>7, <3>1
  <2>9. e.kind = "derived_cable_segment"
    BY <2>4 DEF Segment, Edge
  <2> QED BY <1>4, <2>4, <2>6, <2>8, <2>9
<1> QED BY <1>8, <1>9, EdgeOfPath

\* What is connected is linked: no edge joins a unit with itself.
LEMMA ConnectedIsLinked ==
  ASSUME Built, NEW u \in Connected
  PROVE  \E l \in links : u \in {l[1], l[2]}
<1>1. IsPlant(plant)
  BY PlantBuilt
<1>2. links = Adjacency
  BY DEF Built, TInv, LinksAdjacent, Gathering
<1>3. ASSUME NEW t \in transfers, u \in {t.src, t.dst} PROVE \E l \in links : u \in {l[1], l[2]}
  <2> DEFINE l == <<t.src, t.dst>>
  <2>1. l \in Adjacency
    BY DEF Adjacency
  <2>2. l[1] = t.src /\ l[2] = t.dst
    OBVIOUS
  <2> HIDE DEF l
  <2> QED BY <1>2, <1>3, <2>1, <2>2
<1>4. ASSUME NEW e \in edges, u \in e.ends PROVE \E l \in links : u \in {l[1], l[2]}
  <2>1. \E v, w : e.ends = {v, w} /\ v # w
    <3>1. CASE \E m \in plant.mappings : e = PassthroughEdge(m)
      <4>1. PICK m \in plant.mappings : e = PassthroughEdge(m)
        BY <3>1
      <4>2. /\ m.front \in plant.terms /\ m.front.kind = "front_port"
            /\ m.rear \in plant.terms /\ m.rear.kind = "rear_port"
        BY <1>1 DEF IsPlant
      <4>3. e.ends = {UnitAt(m.front, m.fpos), UnitAt(m.rear, m.rpos)}
        BY <4>1 DEF PassthroughEdge, Edge
      <4>4. UnitAt(m.front, m.fpos).of = m.front /\ UnitAt(m.rear, m.rpos).of = m.rear
        BY <1>1, <4>2, UnitOfTermination
      <4>5. UnitAt(m.front, m.fpos) # UnitAt(m.rear, m.rpos)
        BY <4>2, <4>4
      <4> QED BY <4>3, <4>5
    <3>2. CASE \E path \in plant.paths : \E i \in 2..(Len(path) - 1) :
                   path[i].cable # NoCable /\ e \in CableEdges(path[i - 1].ends, path[i].cable, path[i + 1].ends)
      <4>1. PICK path \in plant.paths : \E i \in 2..(Len(path) - 1) :
                path[i].cable # NoCable /\ e \in CableEdges(path[i - 1].ends, path[i].cable, path[i + 1].ends)
        BY <3>2
      <4>2. PICK i \in 2..(Len(path) - 1) : e \in CableEdges(path[i - 1].ends, path[i].cable, path[i + 1].ends)
        BY <4>1
      <4>3. \E t \in path[i - 1].ends, s \in path[i + 1].ends :
               \E n, m : e.ends = {UnitAt(t, n), UnitAt(s, m)} /\ NoUnit \notin e.ends /\ UnitAt(t, n) # UnitAt(s, m)
        BY <1>1, <4>2, CableEdgeEnds
      <4> QED BY <4>3
    <3> QED BY <3>1, <3>2, EdgeOfPath
  <2>2. PICK v \in e.ends : v # u
    BY <1>4, <2>1
  <2> DEFINE l == <<u, v>>
  <2>3. l \in Adjacency
    BY <1>4, <2>2 DEF Adjacency
  <2>4. l[1] = u
    OBVIOUS
  <2> HIDE DEF l
  <2> QED BY <1>2, <2>3, <2>4
<1> DEFINE joined == UNION {e.ends : e \in edges}
           mapped == UNION {{t.src, t.dst} : t \in transfers}
<1>5. u \in joined \/ u \in mapped
  <2>1. Connected = joined \cup mapped
    BY Zenon DEF Connected
  <2> HIDE DEF joined, mapped
  <2> QED BY <2>1
<1> QED BY <1>3, <1>4, <1>5

\* The positions of a termination: an interface without a plug that has
\* positions stands at its base, any other is counted from 1.
LEMMA PathPositionsOf ==
  ASSUME IsPlant(plant), NEW t \in plant.terms
  PROVE  \/ PathPositions(t) = {0} /\ t.kind = "interface" /\ plant.wired[t] = {}
         \/ \E k \in Nat \ {0} : PathPositions(t) = 1..k /\ (t.kind = "interface" => plant.wired[t] = 1..k)
<1>1. PICK w \in Nat : plant.wired[t] = 1..w
  BY PositionsCounted
<1>2. CASE plant.wired[t] # {}
  <2>1. w \in Nat \ {0} /\ PathPositions(t) = 1..w
    BY <1>1, <1>2 DEF PathPositions
  <2> QED BY <1>1, <2>1
<1>3. CASE plant.wired[t] = {}
  <2>1. PathPositions(t) = Positions(t)
    BY <1>3 DEF PathPositions
  <2>2. plant.positions[t] \in Nat \ {0}
    BY DEF IsPlant
  <2>3. Max({plant.positions[t], 1}) = plant.positions[t]
    BY <2>2, MaxOfTwo
  <2>4. CASE t.kind = "interface"
    BY <1>3, <2>1, <2>4 DEF Positions
  <2>5. CASE t.kind = "front_port"
    <3>1. PathPositions(t) = 1..1
      BY <2>1, <2>5 DEF Positions
    <3> QED BY <2>5, <3>1
  <2>6. CASE t.kind # "interface" /\ t.kind # "front_port"
    <3>1. PathPositions(t) = 1..plant.positions[t]
      BY <2>1, <2>3, <2>6 DEF Positions
    <3> QED BY <2>2, <2>6, <3>1
  <2> QED BY <2>4, <2>5, <2>6
<1> QED BY <1>2, <1>3

\* A port has a unit for its first position, and that is its base.
LEMMA FirstIsBase ==
  ASSUME IsPlant(plant), NEW t \in plant.terms, t.kind # "interface", ChildrenOf(t) = {}
  PROVE  UnitAt(t, 0) = UnitAt(t, 1)
<1>1. plant.positions[t] \in Nat \ {0} /\ t \notin plant.outer
  BY DEF IsPlant
<1>2. Max({plant.positions[t], 1}) = plant.positions[t]
  BY <1>1, MaxOfTwo
<1>3. PICK k \in Nat \ {0} : Positions(t) = 1..k
  <2>1. CASE t.kind = "front_port"
    <3>1. Positions(t) = 1..1
      BY <2>1 DEF Positions
    <3> QED BY <3>1
  <2>2. CASE t.kind # "front_port"
    BY <1>1, <1>2, <2>2 DEF Positions
  <2> QED BY <2>1, <2>2
<1>4. Min(1..k) = 1
  <2>1. 1 \in 1..k /\ \A y \in 1..k : 1 <= y
    OBVIOUS
  <2>2. \A y \in 1..k : (\A z \in 1..k : y <= z) => y = 1
    OBVIOUS
  <2> QED BY <2>1, <2>2 DEF Min
<1>5. \A n : {c \in ChildrenOf(t) : n # 0 /\ ChildOrdinal(c) = n} = {}
  OBVIOUS
<1>6. UnitAt(t, 1) = OwnUnit(t, 1)
  <2>1. 1 \in Positions(t)
    BY <1>3
  <2> QED BY <1>1, <1>5, <2>1 DEF UnitAt
<1>7. UnitAt(t, 0) = OwnUnit(t, Min(Positions(t)))
  <2>1. 0 \notin Positions(t)
    BY <1>3
  <2> QED BY <1>1, <1>5, <2>1 DEF UnitAt
<1> QED BY <1>3, <1>4, <1>6, <1>7

LEMMA ChildFound ==
  ASSUME IsPlant(plant), NEW t \in plant.terms, NEW n \in Nat \ {0}, n <= Cardinality(ChildrenOf(t))
  PROVE  UnitAt(t, n) \in ChildUnits /\ UnitAt(t, n).of = t
<1> DEFINE children == {c \in ChildrenOf(t) : n # 0 /\ ChildOrdinal(c) = n}
<1>1. children # {}
  BY OrdinalReached
<1>2. UnitAt(t, n) = ChildUnit(t, CHOOSE c \in children : TRUE)
  BY <1>1 DEF UnitAt, IsPlant
<1>3. PICK c \in children : UnitAt(t, n) = ChildUnit(t, c)
  BY <1>1, <1>2
<1>4. c \in ChildrenOf(t)
  OBVIOUS
<1> QED BY <1>3, <1>4 DEF ChildUnits, ChildUnit

\* A cable with which nothing is wrong and nothing is overlooked.
Fine(c) ==
    /\ c \in DOMAIN plant.cables /\ OnCable(c) \subseteq plant.terms
    /\ Unresolved(c) = {} /\ ~RequiresExplicitProfile(c)
    /\ \A s \in Channelized(c) : ~(Cardinality(ChildrenOf(s)) < Cardinality(ExpectedPositions(s)))
    /\ \A u \in Orphaned : u.of \notin OnCable(c)
    /\ ~MayOverlook(c)

\* The children of an interface on such a cable are derived, however the
\* paths over it go: they would be orphaned, were they not.
LEMMA ChildDerived ==
  ASSUME Built, NEW t \in plant.terms, t.kind = "interface", Fine(plant.on[t]),
         NEW n \in Nat \ {0}, n <= Cardinality(ChildrenOf(t))
  PROVE  Derived(t, n)
<1>1. IsPlant(plant)
  BY PlantBuilt
<1>2. UnitAt(t, n) \in ChildUnits /\ UnitAt(t, n).of = t
  BY <1>1, ChildFound
<1>3. UnitAt(t, n) \in graph.units
  BY <1>2, GraphUnits DEF AttachmentUnits
<1>4. t \in OnCable(plant.on[t])
  BY DEF OnCable
<1>5. UnitAt(t, n) \in Connected
  <2>1. UnitAt(t, n) \notin Orphaned
    BY <1>2, <1>4 DEF Fine
  <2> QED BY <1>2, <1>3, <2>1 DEF Orphaned
<1>6. \E e \in edges : e.kind = "derived_cable_segment" /\ e.via = plant.on[t] /\ UnitAt(t, n) \in e.ends
  BY <1>2, <1>5, ConnectedOverCable
<1> QED BY <1>6 DEF Derived

\* Every position that such a cable gives a termination has a unit; if it is
\* one of an interface that is not its base, one of a child.
LEMMA ExpectedFound ==
  ASSUME Built, NEW t \in plant.terms, Fine(plant.on[t]), NEW n \in ExpectedPositions(t)
  PROVE  /\ UnitAt(t, n) # NoUnit
         /\ t.kind = "interface" /\ n # 0 => n \in Nat \ {0} /\ n <= Cardinality(ChildrenOf(t))
<1> DEFINE c == plant.on[t]
           count == plant.cables[c].breakout.count
<1>1. IsPlant(plant)
  BY PlantBuilt
<1>2. t \in OnCable(c)
  BY DEF OnCable
<1>3. count \in Nat
  BY <1>1 DEF Fine, IsPlant, CablesFit
<1>4. IsFiniteSet(ChildrenOf(t)) /\ Cardinality(ChildrenOf(t)) \in Nat
  <2>1. ChildrenOf(t) \in SUBSET plant.children /\ IsFiniteSet(plant.children)
    BY <1>1 DEF ChildrenOf, IsPlant, ChildrenFit
  <2> QED BY <2>1, FS_Subset, FS_CardinalityType
<1>5. ASSUME t.kind = "interface", n # 0 PROVE n \in Nat \ {0} /\ n <= Cardinality(ChildrenOf(t))
  <2>1. PICK k \in Nat \ {0} : ExpectedPositions(t) = 1..k /\ (k = 1 => plant.wired[t] = 1..1)
    <3>1. CASE PathPositions(t) = {0}
      <4>1. count > 1 /\ ExpectedPositions(t) = 1..count
        BY <1>5, <3>1 DEF ExpectedPositions, RawPositions
      <4> QED BY <1>3, <4>1
    <3>2. CASE PathPositions(t) # {0}
      <4>1. ExpectedPositions(t) = PathPositions(t)
        BY <3>2 DEF ExpectedPositions, RawPositions
      <4> QED BY <1>1, <1>5, <3>2, <4>1, PathPositionsOf
    <3> QED BY <3>1, <3>2
  <2>2. Cardinality(ExpectedPositions(t)) = k
    BY <2>1, FS_Interval
  <2>3. n \in Nat \ {0} /\ n <= k
    BY <2>1
  <2>4. CASE k > 1
    <3>1. t \in Channelized(c)
      BY <1>2, <1>5, <2>2, <2>4 DEF Channelized
    <3>2. ~(Cardinality(ChildrenOf(t)) < k)
      BY <2>2, <3>1 DEF Fine
    <3> QED BY <1>4, <2>3, <3>2
  <2>5. CASE ~(k > 1)
    <3>1. k = 1 /\ n = 1
      BY <2>3, <2>5
    <3>2. Cardinality(plant.wired[t]) = 1
      <4>1. plant.wired[t] = ExpectedPositions(t)
        BY <2>1, <3>1
      <4> QED BY <2>2, <3>1, <4>1
    <3>3. ChildrenOf(t) # {}
      BY <1>2, <1>5, <3>2 DEF Fine, MayOverlook, LonePosition
    <3>4. Cardinality(ChildrenOf(t)) # 0
      BY <1>4, <3>3, FS_EmptySet
    <3> QED BY <1>4, <3>1, <3>4
  <2> QED BY <2>4, <2>5
<1>6. UnitAt(t, n) # NoUnit
  <2>1. CASE t.kind = "interface" /\ n # 0
    <3>1. UnitAt(t, n).of = t /\ UnitAt(t, n) \in ChildUnits
      BY <1>1, <1>5, <2>1, ChildFound
    <3>2. t.kind # "none" /\ NoUnit.of.kind = "none"
      BY <2>1 DEF NoUnit
    <3> QED BY <3>1, <3>2
  <2>2. CASE ~(t.kind = "interface" /\ n # 0)
    BY <1>1, <2>2, UnitOfTermination
  <2> QED BY <2>1, <2>2
<1> QED BY <1>5, <1>6

\* What an edge derives.
LEMMA EdgeDerives ==
  ASSUME Built, NEW path \in plant.paths, NEW i \in 2..(Len(path) - 1), path[i].cable # NoCable,
         NEW e \in CableEdges(path[i - 1].ends, path[i].cable, path[i + 1].ends),
         NEW t, plant.on[t] = path[i].cable, NEW n, UnitAt(t, n) \in e.ends
  PROVE  Derived(t, n)
<1>1. PICK f \in edges : f.kind = "derived_cable_segment" /\ f.via = path[i].cable /\ f.ends = e.ends
  BY EdgeOfCable
<1> QED BY <1>1 DEF Derived

\* A pair of places is an edge between their units.
LEMMA SegmentOfPair ==
  ASSUME NEW pairs, NEW q \in pairs, NEW c, NEW u, NEW v,
         UnitAt(q[1], q[2]) = u, UnitAt(q[3], q[4]) = v, u # NoUnit, v # NoUnit, u # v
  PROVE  /\ \E e \in Segments(pairs, c, TRUE) : u \in e.ends /\ v \in e.ends
         /\ \E e \in Segments(pairs, c, FALSE) : u \in e.ends /\ v \in e.ends
<1> DEFINE e(derived) == Edge(UnitAt(q[1], q[2]), UnitAt(q[3], q[4]), c, "derived_cable_segment", derived)
<1>1. e(TRUE) \in Segments(pairs, c, TRUE) /\ e(FALSE) \in Segments(pairs, c, FALSE)
  BY DEF Segments
<1>2. /\ u \in e(TRUE).ends /\ v \in e(TRUE).ends
      /\ u \in e(FALSE).ends /\ v \in e(FALSE).ends
  BY DEF Edge
<1> HIDE DEF e
<1> QED BY <1>1, <1>2

LEMMA PlacesOfPair ==
  ASSUME NEW map, NEW L, NEW R, NEW q \in MappedPairs(map, L, R)
  PROVE  \E l \in PlacesOf(L), r \in PlacesOf(R) : q = l \o r
BY DEF MappedPairs

LEMMA PairOfPlaces ==
  ASSUME NEW t, NEW n, NEW s, NEW m, NEW q, q = <<t, n>> \o <<s, m>>
  PROVE  q[1] = t /\ q[2] = n /\ q[3] = s /\ q[4] = m
<1> DEFINE l == <<t, n>>
           r == <<s, m>>
<1>1. l \in Seq({t, n, s, m}) /\ r \in Seq({t, n, s, m}) /\ Len(l) = 2 /\ Len(r) = 2
  OBVIOUS
<1>2. l[1] = t /\ l[2] = n /\ r[1] = s /\ r[2] = m /\ q = l \o r
  OBVIOUS
<1> HIDE DEF l, r
<1>3. \A i \in 1..(Len(l) + Len(r)) : (l \o r)[i] = IF i <= Len(l) THEN l[i] ELSE r[i - Len(l)]
  BY <1>1, ConcatProperties
<1>4. /\ 1 \in 1..(Len(l) + Len(r)) /\ 1 <= Len(l)
      /\ 2 \in 1..(Len(l) + Len(r)) /\ 2 <= Len(l)
      /\ 3 \in 1..(Len(l) + Len(r)) /\ ~(3 <= Len(l)) /\ 3 - Len(l) = 1
      /\ 4 \in 1..(Len(l) + Len(r)) /\ ~(4 <= Len(l)) /\ 4 - Len(l) = 2
  BY <1>1
<1>5. (l \o r)[1] = l[1] /\ (l \o r)[2] = l[2] /\ (l \o r)[3] = r[1] /\ (l \o r)[4] = r[2]
  BY <1>3, <1>4
<1> QED BY <1>2, <1>5

\* A path that crosses a cable without a profile, between the two
\* terminations it has, each with one position.
LEMMA PlainCrossing ==
  ASSUME Built, NEW l \in plant.terms, NEW r \in plant.terms, NEW c, c = plant.on[l], c # NoCable,
         ~HasProfile(c), LeadsTo(l, r), Peers(l) = {r}, Peers(r) = {l},
         NEW a, NEW b, PathPositions(l) = {a}, PathPositions(r) = {b},
         UnitAt(l, a) # NoUnit, UnitAt(r, b) # NoUnit
  PROVE  \E e \in edges : /\ e.kind = "derived_cable_segment" /\ e.via = c
                          /\ {UnitAt(l, a), UnitAt(r, b)} \subseteq e.ends \/ {UnitAt(l, 0), UnitAt(r, 0)} \subseteq e.ends
<1>1. IsPlant(plant)
  BY PlantBuilt
<1>2. PICK path \in plant.paths : \E i \in 2..(Len(path) - 1) :
          path[i].cable = plant.on[l] /\ l \in path[i - 1].ends /\ r \in path[i + 1].ends
  BY DEF LeadsTo
<1>3. PICK i \in 2..(Len(path) - 1) : path[i].cable = plant.on[l] /\ l \in path[i - 1].ends /\ r \in path[i + 1].ends
  BY <1>2
<1> DEFINE L == path[i - 1].ends
           R == path[i + 1].ends
<1>4. path[i].cable = c /\ path[i].cable # NoCable
  BY <1>3
<1>5. /\ L \in SUBSET (plant.terms \cup plant.outer)
      /\ \A x \in L : plant.on[x] = c
      /\ \A x \in L, y \in R : y \in Peers(x)
  BY <1>1, <1>4, CableStep
<1>6. R = {r}
  BY <1>3, <1>5
<1>7. L = {l}
  <2>1. ASSUME NEW x \in L PROVE x \in Peers(r)
    <3>1. r \in Peers(x) /\ plant.on[x] = c /\ x \in plant.terms \cup plant.outer
      BY <1>3, <1>5
    <3>2. plant.on[r] = c /\ plant.plug[r][1] # plant.plug[x][1]
      BY <3>1 DEF Peers, OnCable
    <3> QED BY <3>1, <3>2 DEF Peers, OnCable
  <2> QED BY <1>3, <2>1
<1>8. l # r
  <2>1. plant.plug[r][1] # plant.plug[l][1]
    BY <1>3, <1>5 DEF Peers
  <2> QED BY <2>1
<1>9. PlacesOf({l}) = {<<l, a>>} /\ PlacesOf({r}) = {<<r, b>>}
  BY DEF PlacesOf
<1> DEFINE profile == MappedPairs(plant.cables[c].profile, {l}, {r})
           assembly == MappedPairs(plant.cables[c].assembly, {l}, {r})
           breakout == BreakoutPairs(plant.cables[c].breakout, {l}, {r})
           identity == IdentityPairs({l}, {r})
<1>10. profile = {} /\ breakout = {}
  <2>1. DOMAIN plant.cables[c].profile = {} /\ plant.cables[c].breakout.count = 0
    BY DEF HasProfile, HasNativeProfile
  <2>2. breakout = {}
    BY <2>1 DEF BreakoutPairs
  <2>3. profile = {}
    BY <2>1 DEF MappedPairs
  <2> QED BY <2>2, <2>3
<1>11. UnitAt(l, a).of = l /\ UnitAt(r, b).of = r /\ UnitAt(l, 0).of = l /\ UnitAt(r, 0).of = r
       /\ UnitAt(l, 0) # NoUnit /\ UnitAt(r, 0) # NoUnit
  BY <1>1, UnitOfTermination
<1>12. \E e \in CableEdges({l}, c, {r}) :
          {UnitAt(l, a), UnitAt(r, b)} \subseteq e.ends \/ {UnitAt(l, 0), UnitAt(r, 0)} \subseteq e.ends
  <2>1. CASE assembly # {}
    <3>1. PICK q \in assembly : TRUE
      BY <2>1
    <3>2. q = <<l, a>> \o <<r, b>>
      <4> DEFINE map == plant.cables[c].assembly
                 A == {l}
                 B == {r}
      <4>0. q \in MappedPairs(map, A, B)
        OBVIOUS
      <4> HIDE DEF map, A, B
      <4>2. \A p \in MappedPairs(map, A, B) : \E x \in PlacesOf(A), y \in PlacesOf(B) : p = x \o y
        BY PlacesOfPair
      <4>1. PICK x \in PlacesOf(A), y \in PlacesOf(B) : q = x \o y
        BY <4>0, <4>2
      <4> USE DEF A, B
      <4> QED BY <1>9, <4>1
    <3>3. q[1] = l /\ q[2] = a /\ q[3] = r /\ q[4] = b
      BY <3>2, PairOfPlaces
    <3>4. CableEdges({l}, c, {r}) = Segments(assembly, c, TRUE)
      BY <1>10, <2>1 DEF CableEdges
    <3> HIDE DEF assembly
    <3>5. \E e \in Segments(assembly, c, TRUE) : UnitAt(l, a) \in e.ends /\ UnitAt(r, b) \in e.ends
      BY <1>8, <1>11, <3>3, SegmentOfPair
    <3> QED BY <3>4, <3>5
  <2>2. CASE assembly = {}
    <3>1. CableEdges({l}, c, {r}) = Segments(identity, c, FALSE)
      BY <1>10, <2>2 DEF CableEdges
    <3>2. CanIdentityMap({l}, {r})
      <4>1. Cardinality({<<l, a>>}) = 1 /\ Cardinality({<<r, b>>}) = 1
        BY FS_Singleton
      <4> QED BY <1>9, <4>1 DEF CanIdentityMap
    <3>3. identity = {<<x[1], 0, x[2], 0>> : x \in {l} \X {r}}
      BY <3>2 DEF IdentityPairs
    <3>6. <<l, r>> \in {l} \X {r} /\ <<l, r>>[1] = l /\ <<l, r>>[2] = r
      OBVIOUS
    <3> DEFINE q == <<l, 0, r, 0>>
    <3>4. q \in identity /\ q[1] = l /\ q[2] = 0 /\ q[3] = r /\ q[4] = 0
      BY <3>3, <3>6
    <3> HIDE DEF identity, q
    <3>5. \E e \in Segments(identity, c, FALSE) : UnitAt(l, 0) \in e.ends /\ UnitAt(r, 0) \in e.ends
      BY <1>8, <1>11, <3>4, SegmentOfPair
    <3> QED BY <3>1, <3>5
  <2> QED BY <2>1, <2>2
<1>13. PICK e \in CableEdges(L, path[i].cable, R) :
          {UnitAt(l, a), UnitAt(r, b)} \subseteq e.ends \/ {UnitAt(l, 0), UnitAt(r, 0)} \subseteq e.ends
  BY <1>4, <1>6, <1>7, <1>12
<1>14. \E f \in edges : f.kind = "derived_cable_segment" /\ f.via = path[i].cable /\ f.ends = e.ends
  BY <1>4, EdgeOfCable
<1> QED BY <1>4, <1>13, <1>14

\* A cable without a profile that needs none has two terminations with one
\* position each.
LEMMA PlainCable ==
  ASSUME Built, NEW c \in DOMAIN plant.cables, Fine(c), ~HasProfile(c), NEW t \in OnCable(c)
  PROVE  \E s \in OnCable(c) : /\ Peers(t) = {s} /\ Peers(s) = {t}
                               /\ \E n : PathPositions(t) = {n} /\ \E m : PathPositions(s) = {m}
<1>1. IsPlant(plant)
  BY PlantBuilt
<1>2. \A x \in OnCable(c) : Cardinality(Peers(x)) = 1 /\ Cardinality(ExpectedPositions(x)) = 1 /\ plant.on[x] = c
  BY DEF Fine, RequiresExplicitProfile, OnCable
<1>3. ASSUME NEW x \in OnCable(c) PROVE \E s : Peers(x) = {s}
  <2>1. Peers(x) \in SUBSET (plant.terms \cup plant.outer)
    BY DEF Peers, OnCable
  <2>2. IsFiniteSet(plant.terms \cup plant.outer)
    BY <1>1 DEF IsPlant, CablesFit
  <2>3. IsFiniteSet(Peers(x))
    BY <2>1, <2>2, FS_Subset
  <2> QED BY <1>2, <2>3, FS_Singleton
<1>4. ASSUME NEW x \in OnCable(c) PROVE \E n : PathPositions(x) = {n}
  <2>1. plant.cables[plant.on[x]].breakout.count = 0
    BY <1>2 DEF HasProfile
  <2>2. ExpectedPositions(x) = PathPositions(x)
    BY <2>1 DEF ExpectedPositions, RawPositions
  <2>3. x \in plant.terms
    BY DEF Fine
  <2>4. CASE PathPositions(x) # {0}
    <3>1. PICK k \in Nat \ {0} : PathPositions(x) = 1..k
      BY <1>1, <2>3, <2>4, PathPositionsOf
    <3>2. Cardinality(1..k) = k
      BY FS_Interval
    <3>3. k = 1
      BY <1>2, <2>2, <3>1, <3>2
    <3>4. PathPositions(x) = {1}
      BY <3>1, <3>3
    <3> QED BY <3>4
  <2> QED BY <2>4
<1>5. PICK s : Peers(t) = {s}
  BY <1>3
<1>6. s \in OnCable(c) /\ plant.plug[s][1] # plant.plug[t][1]
  BY <1>2, <1>5 DEF Peers
<1>7. t \in Peers(s)
  BY <1>2, <1>6 DEF Peers
<1>8. Peers(s) = {t}
  BY <1>3, <1>6, <1>7
<1> QED BY <1>4, <1>5, <1>6, <1>8

LEMMA PlainDerived ==
  ASSUME Built, NEW t \in plant.terms, plant.on[t] # NoCable, Fine(plant.on[t]), ~HasProfile(plant.on[t]), Walked(t),
         NEW n \in ExpectedPositions(t), n = 0 \/ t.kind # "interface"
  PROVE  Derived(t, n)
<1> DEFINE c == plant.on[t]
<1>1. IsPlant(plant) /\ c \in DOMAIN plant.cables /\ t \in OnCable(c)
  BY PlantBuilt DEF Fine, OnCable
<1>2. PICK s \in OnCable(c) : /\ Peers(t) = {s} /\ Peers(s) = {t}
                              /\ \E k : PathPositions(t) = {k} /\ \E m : PathPositions(s) = {m}
  BY <1>1, PlainCable
<1>3. ExpectedPositions(t) = PathPositions(t) /\ ExpectedPositions(s) = PathPositions(s) /\ plant.on[s] = c
  <2>1. plant.on[s] = c /\ plant.cables[c].breakout.count = 0
    BY DEF OnCable, HasProfile
  <2> QED BY <2>1 DEF ExpectedPositions, RawPositions
<1>4. PathPositions(t) = {n}
  BY <1>2, <1>3
<1>5. PICK m : PathPositions(s) = {m}
  BY <1>2
<1>6. s \in plant.terms
  BY DEF Fine
<1>7. UnitAt(t, n) # NoUnit /\ UnitAt(s, m) # NoUnit
  BY <1>3, <1>4, <1>5, <1>6, ExpectedFound
<1>8. UnitAt(t, 0) = UnitAt(t, n)
  <2>1. CASE n # 0
    <3>1. t.kind # "interface"
      BY <2>1
    <3>2. ChildrenOf(t) = {}
      BY <1>1, <3>1 DEF Fine, MayOverlook
    <3>3. PICK k \in Nat \ {0} : PathPositions(t) = 1..k
      BY <1>1, <3>1, PathPositionsOf
    <3>4. n = 1
      <4>1. 1 \in 1..k
        OBVIOUS
      <4> QED BY <1>4, <3>3, <4>1
    <3> QED BY <1>1, <3>1, <3>2, <3>4, FirstIsBase
  <2> QED BY <2>1
<1>9. LeadsTo(t, s) \/ LeadsTo(s, t)
  BY <1>2 DEF Walked
<1>10. \E e \in edges : /\ e.kind = "derived_cable_segment" /\ e.via = c
                        /\ {UnitAt(t, n), UnitAt(s, m)} \subseteq e.ends \/ {UnitAt(t, 0), UnitAt(s, 0)} \subseteq e.ends
  <2>1. CASE LeadsTo(t, s)
    BY <1>2, <1>4, <1>5, <1>6, <1>7, <2>1, PlainCrossing
  <2>2. CASE LeadsTo(s, t)
    <3>1. \E e \in edges : /\ e.kind = "derived_cable_segment" /\ e.via = c
                           /\ {UnitAt(s, m), UnitAt(t, n)} \subseteq e.ends \/ {UnitAt(s, 0), UnitAt(t, 0)} \subseteq e.ends
      BY <1>2, <1>3, <1>4, <1>5, <1>6, <1>7, <2>2, PlainCrossing
    <3> QED BY <3>1
  <2> QED BY <1>9, <2>1, <2>2
<1> QED BY <1>8, <1>10 DEF Derived

LEMMA PlugOf ==
  ASSUME IsPlant(plant), NEW t \in plant.terms \cup plant.outer, plant.on[t] # NoCable
  PROVE  /\ plant.plug[t] = <<plant.plug[t][1], plant.plug[t][2]>> /\ plant.plug[t][1] \in {"A", "B"}
         /\ HasNativeProfile(plant.on[t]) => plant.wired[t] # {}
BY DEF IsPlant, CablesFit, HasNativeProfile

\* A cable that a termination with a peer is on has two sides.
LEMMA TwoSides ==
  ASSUME IsPlant(plant), NEW t \in plant.terms, plant.on[t] # NoCable, Peers(t) # {}
  PROVE  Cardinality(Sides(plant.on[t])) = 2
<1>1. PICK s \in OnCable(plant.on[t]) : plant.plug[s][1] # plant.plug[t][1]
  BY DEF Peers
<1>2. \A x \in OnCable(plant.on[t]) : plant.plug[x][1] \in {"A", "B"}
  BY PlugOf DEF OnCable
<1>3. t \in OnCable(plant.on[t])
  BY DEF OnCable
<1>4. Sides(plant.on[t]) = {"A", "B"}
  BY <1>1, <1>2, <1>3 DEF Sides
<1>5. Cardinality({"A", "B"}) = 2
  <2> DEFINE one == {"A"}
             other == "B"
  <2>1. IsFiniteSet(one) /\ Cardinality(one) = 1
    BY FS_Singleton
  <2>2. one \cup {other} = {"A", "B"} /\ other \notin one
    OBVIOUS
  <2> HIDE DEF one, other
  <2>3. Cardinality(one \cup {other}) = 2
    BY <2>1, <2>2, FS_AddElement
  <2> QED BY <2>2, <2>3
<1> QED BY <1>4, <1>5

\* A place at a plug: end, connector and position.
LEMMA PlaceAtPlug ==
  ASSUME NEW plug, NEW end, NEW connector, plug = <<end, connector>>, NEW n
  PROVE  (plug \o <<n>>)[1] = end /\ (plug \o <<n>>)[2] = connector /\ (plug \o <<n>>)[3] = n
<1> DEFINE l == <<end, connector>>
           r == <<n>>
<1>1. l \in Seq({end, connector, n}) /\ r \in Seq({end, connector, n}) /\ Len(l) = 2 /\ Len(r) = 1
  OBVIOUS
<1>2. l[1] = end /\ l[2] = connector /\ r[1] = n /\ plug = l
  OBVIOUS
<1> HIDE DEF l, r
<1>3. \A i \in 1..(Len(l) + Len(r)) : (l \o r)[i] = IF i <= Len(l) THEN l[i] ELSE r[i - Len(l)]
  BY <1>1, ConcatProperties
<1>4. /\ 1 \in 1..(Len(l) + Len(r)) /\ 1 <= Len(l)
      /\ 2 \in 1..(Len(l) + Len(r)) /\ 2 <= Len(l)
      /\ 3 \in 1..(Len(l) + Len(r)) /\ ~(3 <= Len(l)) /\ 3 - Len(l) = 1
  BY <1>1
<1>5. (l \o r)[1] = l[1] /\ (l \o r)[2] = l[2] /\ (l \o r)[3] = r[1]
  BY <1>3, <1>4
<1>6. (plug \o r) = (l \o r)
  BY <1>2
<1>7. (plug \o r)[1] = end /\ (plug \o r)[2] = connector /\ (plug \o r)[3] = n
  BY <1>2, <1>5, <1>6
<1> QED BY <1>7 DEF r

\* A pair of places that a map joins.
LEMMA MappedPair ==
  ASSUME NEW map, NEW L, NEW R, NEW t \in L, NEW n \in PathPositions(t), NEW s \in R, NEW m \in PathPositions(s),
         plant.plug[t] \o <<n>> \in DOMAIN map, map[plant.plug[t] \o <<n>>] = <<plant.plug[s][2], m>>
  PROVE  \E q \in MappedPairs(map, L, R) : q[1] = t /\ q[2] = n /\ q[3] = s /\ q[4] = m
<1> DEFINE l == <<t, n>>
           r == <<s, m>>
           q == l \o r
<1>1. l \in PlacesOf(L) /\ r \in PlacesOf(R)
  BY DEF PlacesOf
<1>2. q[1] = t /\ q[2] = n /\ q[3] = s /\ q[4] = m
  BY PairOfPlaces
<1> HIDE DEF l, r
<1>3. q \in {x \o y : x \in PlacesOf(L), y \in PlacesOf(R)}
  BY <1>1
<1> HIDE DEF q
<1>4. q \in MappedPairs(map, L, R)
  BY <1>2, <1>3 DEF MappedPairs
<1> QED BY <1>2, <1>4

\* What the audit finds of a position on a cable with a native profile.
LEMMA NativeMatch ==
  ASSUME Built, NEW t \in plant.terms, plant.on[t] # NoCable, Fine(plant.on[t]), HasNativeProfile(plant.on[t]),
         Peers(t) # {}, NEW n \in PathPositions(t)
  PROVE  /\ plant.plug[t] \o <<n>> \in DOMAIN plant.cables[plant.on[t]].profile
         /\ \E s \in Peers(t) : \E m \in PathPositions(s) : NativeTarget(t, n) = <<plant.plug[s][2], m>>
<1> DEFINE c == plant.on[t]
           v == [term |-> t, at |-> n, verdict |-> NativeVerdict(t, n)]
<1>1. Cardinality(Sides(c)) = 2 /\ HasProfile(c) /\ t \in OnCable(c)
  BY PlantBuilt, TwoSides DEF HasProfile, OnCable
<1>2. v \in Verdicts(c)
  <2>1. Verdicts(c) = UNION {{[term |-> x, at |-> k, verdict |-> NativeVerdict(x, k)] : k \in PathPositions(x)} : x \in OnCable(c)}
    BY <1>1 DEF Verdicts
  <2>2. v \in {[term |-> t, at |-> k, verdict |-> NativeVerdict(t, k)] : k \in PathPositions(t)}
    OBVIOUS
  <2> HIDE DEF v
  <2> QED BY <1>1, <2>1, <2>2
<1>3. v.verdict = NativeVerdict(t, n)
  OBVIOUS
<1>4. NativeVerdict(t, n) \notin Reasons
  <2> HIDE DEF v
  <2> QED BY <1>2, <1>3 DEF Fine, Unresolved
<1> QED BY <1>4 DEF NativeVerdict, Reasons

LEMMA NativeDerived ==
  ASSUME Built, NEW t \in plant.terms, plant.on[t] # NoCable, Fine(plant.on[t]), HasNativeProfile(plant.on[t]),
         Walked(t), NEW n \in PathPositions(t)
  PROVE  Derived(t, n)
<1> DEFINE c == plant.on[t]
           profile == plant.cables[c].profile
<1>1. IsPlant(plant) /\ c \in DOMAIN plant.cables /\ t \in OnCable(c)
  BY PlantBuilt DEF Fine, OnCable
<1>2. PICK s \in Peers(t) : \E m \in PathPositions(s) : NativeTarget(t, n) = <<plant.plug[s][2], m>>
  BY NativeMatch DEF Walked
<1>3. PICK m \in PathPositions(s) : NativeTarget(t, n) = <<plant.plug[s][2], m>>
  BY <1>2
<1>4. s \in plant.terms /\ plant.on[s] = c /\ plant.plug[s][1] # plant.plug[t][1]
  BY DEF Peers, OnCable, Fine
<1>5. t \in Peers(s)
  BY <1>1, <1>4 DEF Peers
<1>6. /\ plant.plug[t] \o <<n>> \in DOMAIN profile
      /\ profile[plant.plug[t] \o <<n>>] = <<plant.plug[s][2], m>>
  BY <1>3, NativeMatch DEF Walked, NativeTarget
<1>7. /\ plant.plug[s] \o <<m>> \in DOMAIN profile
      /\ profile[plant.plug[s] \o <<m>>] = <<plant.plug[t][2], n>>
  <2>1. plant.plug[s] \o <<m>> \in DOMAIN profile
    BY <1>4, <1>5, NativeMatch
  <2>2. /\ plant.plug[t] = <<plant.plug[t][1], plant.plug[t][2]>>
        /\ plant.plug[s] = <<plant.plug[s][1], plant.plug[s][2]>>
    BY <1>1, <1>4, PlugOf
  <2> DEFINE x == plant.plug[t] \o <<n>>
             y == plant.plug[s] \o <<m>>
  <2>3. /\ x[1] = plant.plug[t][1] /\ x[2] = plant.plug[t][2] /\ x[3] = n
        /\ y[1] = plant.plug[s][1] /\ y[2] = plant.plug[s][2] /\ y[3] = m
    BY <2>2, PlaceAtPlug
  <2>4. \A a, b \in DOMAIN profile : a[1] # b[1] /\ profile[a] = <<b[2], b[3]>> => profile[b] = <<a[2], a[3]>>
    BY <1>1 DEF IsPlant, CablesFit
  <2>5. x \in DOMAIN profile /\ y \in DOMAIN profile /\ profile[x] = <<plant.plug[s][2], m>>
    BY <1>6, <2>1
  <2> HIDE DEF x, y, profile
  <2>6. profile[y] = <<plant.plug[t][2], n>>
    BY <1>4, <2>3, <2>4, <2>5
  <2> QED BY <2>5, <2>6 DEF y
<1>8. /\ PathPositions(t) = ExpectedPositions(t)
      /\ PathPositions(s) = ExpectedPositions(s)
  <2>1. ASSUME NEW r \in plant.terms, plant.on[r] = c PROVE PathPositions(r) = ExpectedPositions(r)
    <3>1. plant.wired[r] # {}
      BY <2>1, <1>1, PlugOf
    <3>2. PathPositions(r) = plant.wired[r] /\ 0 \notin plant.wired[r]
      BY <1>1, <3>1, PositionsCounted DEF PathPositions
    <3> QED BY <3>2 DEF ExpectedPositions, RawPositions
  <2> QED BY <1>4, <2>1
<1>9. /\ UnitAt(t, n) # NoUnit /\ UnitAt(t, n).of = t
      /\ UnitAt(s, m) # NoUnit /\ UnitAt(s, m).of = s
  <2>1. UnitAt(t, n) # NoUnit /\ UnitAt(s, m) # NoUnit
    BY <1>4, <1>8, ExpectedFound
  <2> QED BY <1>1, <1>4, <2>1, UnitOfTermination
<1>10. UnitAt(t, n) # UnitAt(s, m)
  BY <1>4, <1>9
<1>11. ASSUME NEW l, NEW r, NEW L, NEW R, NEW a, NEW b, l \in L, r \in R, a \in PathPositions(l), b \in PathPositions(r),
              plant.plug[l] \o <<a>> \in DOMAIN profile, profile[plant.plug[l] \o <<a>>] = <<plant.plug[r][2], b>>,
              UnitAt(l, a) # NoUnit, UnitAt(r, b) # NoUnit, UnitAt(l, a) # UnitAt(r, b)
       PROVE  \E e \in CableEdges(L, c, R) : UnitAt(l, a) \in e.ends /\ UnitAt(r, b) \in e.ends
  <2> DEFINE pairs == MappedPairs(profile, L, R)
  <2>1. PICK q \in pairs : q[1] = l /\ q[2] = a /\ q[3] = r /\ q[4] = b
    <3> HIDE DEF profile
    <3> QED BY <1>11, MappedPair
  <2>2. CableEdges(L, c, R) = Segments(pairs, c, TRUE)
    BY <2>1 DEF CableEdges
  <2> HIDE DEF pairs
  <2>3. \E e \in Segments(pairs, c, TRUE) : UnitAt(l, a) \in e.ends /\ UnitAt(r, b) \in e.ends
    BY <1>11, <2>1, SegmentOfPair
  <2> QED BY <2>2, <2>3
<1>12. LeadsTo(t, s) \/ LeadsTo(s, t)
  BY DEF Walked, PlacedByBreakout
<1>13. CASE LeadsTo(t, s)
  <2>1. PICK path \in plant.paths : \E i \in 2..(Len(path) - 1) :
            path[i].cable = plant.on[t] /\ t \in path[i - 1].ends /\ s \in path[i + 1].ends
    BY <1>13 DEF LeadsTo
  <2>2. PICK i \in 2..(Len(path) - 1) : path[i].cable = plant.on[t] /\ t \in path[i - 1].ends /\ s \in path[i + 1].ends
    BY <2>1
  <2> DEFINE L == path[i - 1].ends
             R == path[i + 1].ends
  <2>4. t \in L /\ s \in R
    BY <2>2
  <2> HIDE DEF L, R, c, profile
  <2>3. PICK e \in CableEdges(L, c, R) : UnitAt(t, n) \in e.ends
    BY <1>3, <1>6, <1>9, <1>10, <1>11, <2>4
  <2> USE DEF L, R, c
  <2> QED BY <2>2, <2>3, EdgeDerives
<1>14. CASE LeadsTo(s, t)
  <2>1. PICK path \in plant.paths : \E i \in 2..(Len(path) - 1) :
            path[i].cable = plant.on[s] /\ s \in path[i - 1].ends /\ t \in path[i + 1].ends
    BY <1>14 DEF LeadsTo
  <2>2. PICK i \in 2..(Len(path) - 1) : path[i].cable = plant.on[s] /\ s \in path[i - 1].ends /\ t \in path[i + 1].ends
    BY <2>1
  <2> DEFINE L == path[i - 1].ends
             R == path[i + 1].ends
  <2>4. s \in L /\ t \in R
    BY <2>2
  <2> HIDE DEF L, R, c, profile
  <2>3. PICK e \in CableEdges(L, c, R) : UnitAt(t, n) \in e.ends
    BY <1>3, <1>7, <1>9, <1>10, <1>11, <2>4
  <2> USE DEF L, R, c
  <2> QED BY <1>4, <2>2, <2>3, EdgeDerives
<1> QED BY <1>12, <1>13, <1>14

\* What the audit finds of a position on a cable with a breakout profile.
LEMMA BreakoutMatch ==
  ASSUME Built, NEW t \in plant.terms, plant.on[t] # NoCable, Fine(plant.on[t]), PlacedByBreakout(plant.on[t]),
         Peers(t) # {}, NEW n \in RawPositions(plant.cables[plant.on[t]].breakout, t)
  PROVE  LET b == plant.cables[plant.on[t]].breakout
         IN  /\ Mapped(b, n)
             /\ \/ /\ Cardinality(Peers(t)) = 1
                   /\ \A s \in Peers(t) : PathPositions(s) = {0} \/ OrdinalOf(b, n) + 1 \in PathPositions(s)
                \/ Cardinality(Peers(t)) # 1 /\ OrdinalOf(b, n) < Cardinality(Peers(t))
<1> DEFINE c == plant.on[t]
           b == plant.cables[c].breakout
           v == [term |-> t, at |-> n, verdict |-> BreakoutVerdict(b, t, n)]
<1>1. Cardinality(Sides(c)) = 2 /\ HasProfile(c) /\ ~HasNativeProfile(c) /\ t \in OnCable(c)
  BY PlantBuilt, TwoSides DEF HasProfile, PlacedByBreakout, OnCable
<1>2. v \in Verdicts(c)
  <2>1. Verdicts(c) = UNION {{[term |-> x, at |-> k, verdict |-> BreakoutVerdict(b, x, k)] : k \in RawPositions(b, x)} : x \in OnCable(c)}
    BY <1>1 DEF Verdicts
  <2>2. v \in {[term |-> t, at |-> k, verdict |-> BreakoutVerdict(b, t, k)] : k \in RawPositions(b, t)}
    OBVIOUS
  <2> HIDE DEF v
  <2> QED BY <1>1, <2>1, <2>2
<1>3. v.verdict = BreakoutVerdict(b, t, n)
  OBVIOUS
<1>4. BreakoutVerdict(b, t, n) \notin Reasons
  <2> HIDE DEF v
  <2> QED BY <1>2, <1>3 DEF Fine, Unresolved
<1> QED BY <1>4 DEF BreakoutVerdict, Reasons

\* The peers of a termination are ranked by their names.
LEMMA PeerOfRank ==
  ASSUME NEW R, IsFiniteSet(R), \A r \in R : r.pk \in Nat, \A r, s \in R : r.pk = s.pk => r = s,
         NEW k \in Nat, k < Cardinality(R)
  PROVE  \E r \in R : Cardinality({s \in R : s.pk < r.pk}) = k
<1> DEFINE B == {p \in R \X R : p[1].pk < p[2].pk}
<1>1. \A x, y \in R : <<x, y>> \in B <=> x.pk < y.pk
  OBVIOUS
<1>2. PICK r \in R : Cardinality({s \in R : <<s, r>> \in B}) = k
  <2>1. \A x \in R : <<x, x>> \notin B
    BY <1>1
  <2>2. \A x, y \in R : x # y => <<x, y>> \in B \/ <<y, x>> \in B
    <3> SUFFICES ASSUME NEW x \in R, NEW y \in R, x # y PROVE <<x, y>> \in B \/ <<y, x>> \in B
      OBVIOUS
    <3>1. x.pk \in Nat /\ y.pk \in Nat /\ x.pk # y.pk
      OBVIOUS
    <3> HIDE DEF B
    <3> QED BY <3>1, <1>1
  <2>3. \A x, y, z \in R : <<x, y>> \in B /\ <<y, z>> \in B => <<x, z>> \in B
    <3> HIDE DEF B
    <3> QED BY <1>1
  <2> HIDE DEF B
  <2> QED BY <2>1, <2>2, <2>3, RankReached
<1>3. {s \in R : <<s, r>> \in B} = {s \in R : s.pk < r.pk}
  OBVIOUS
<1> QED BY <1>2, <1>3

LEMMA BreakoutDerived ==
  ASSUME Built, NEW t \in plant.terms, t.kind # "interface", plant.on[t] # NoCable, Fine(plant.on[t]),
         PlacedByBreakout(plant.on[t]), Walked(t), NEW n \in PathPositions(t)
  PROVE  Derived(t, n)
<1> DEFINE c == plant.on[t]
           b == plant.cables[c].breakout
           k == OrdinalOf(b, n)
<1>1. IsPlant(plant) /\ c \in DOMAIN plant.cables /\ t \in OnCable(c)
  BY PlantBuilt DEF Fine, OnCable
<1>2. /\ b.count \in Nat /\ b.count > 1 /\ DOMAIN plant.cables[c].profile = {} /\ DOMAIN plant.cables[c].assembly = {}
      /\ \A x \in DOMAIN b.map : b.map[x] \in 0..(b.count - 1)
  <2>1. b.count \in Nat
    BY <1>1 DEF IsPlant, CablesFit
  <2>2. b.count # 0 /\ b.count # 1
    BY DEF PlacedByBreakout, Fine, MayOverlook
  <2>3. b.count > 1
    BY <2>1, <2>2
  <2>4. DOMAIN plant.cables[c].profile = {}
    BY DEF PlacedByBreakout, HasNativeProfile
  <2>5. DOMAIN plant.cables[c].assembly = {} /\ \A x \in DOMAIN b.map : b.map[x] \in 0..(b.count - 1)
    BY DEF PlacedByBreakout, Fine, MayOverlook
  <2> QED BY <2>1, <2>3, <2>4, <2>5
<1>3. RawPositions(b, t) = PathPositions(t) /\ ExpectedPositions(t) = PathPositions(t)
  <2>1. PathPositions(t) # {0}
    BY <1>1, PathPositionsOf
  <2> QED BY <2>1 DEF RawPositions, ExpectedPositions
<1>4. PICK s \in Peers(t) : LeadsTo(t, s)
  BY DEF Walked
<1>5. /\ Mapped(b, n)
      /\ \/ /\ Cardinality(Peers(t)) = 1
            /\ \A x \in Peers(t) : PathPositions(x) = {0} \/ k + 1 \in PathPositions(x)
         \/ Cardinality(Peers(t)) # 1 /\ k < Cardinality(Peers(t))
  BY <1>3, <1>4, BreakoutMatch
<1>6. k \in 0..(b.count - 1)
  BY <1>2, <1>5 DEF Mapped, OrdinalOf
<1>7. PICK path \in plant.paths : \E i \in 2..(Len(path) - 1) :
          path[i].cable = plant.on[t] /\ t \in path[i - 1].ends /\ s \in path[i + 1].ends
  BY <1>4 DEF LeadsTo
<1>8. PICK i \in 2..(Len(path) - 1) : path[i].cable = c /\ t \in path[i - 1].ends /\ s \in path[i + 1].ends
  BY <1>7
<1> DEFINE L == path[i - 1].ends
           R == path[i + 1].ends
<1>9. t \in L /\ R = Peers(t) /\ \A x, y \in R : x.kind = y.kind
  BY <1>1, <1>8, CableStep DEF PlacedByBreakout
<1>10. IsFiniteSet(R) /\ \A r \in R : r \in plant.terms /\ plant.on[r] = c /\ r # t
  <2>1. R \in SUBSET (plant.terms \cup plant.outer)
    BY <1>9 DEF Peers, OnCable
  <2>2. IsFiniteSet(plant.terms \cup plant.outer)
    BY <1>1 DEF IsPlant, CablesFit
  <2>3. IsFiniteSet(R)
    BY <2>1, <2>2, FS_Subset
  <2>4. \A r \in R : r \in plant.terms /\ plant.on[r] = c /\ r # t
    BY <1>9 DEF Peers, OnCable, Fine
  <2> QED BY <2>3, <2>4
<1>11. UnitAt(t, n) # NoUnit /\ UnitAt(t, n).of = t
  BY <1>1, UnitOfTermination
<1> DEFINE from == UNION {{<<l, x>> : x \in {m \in RawPositions(b, l) : Mapped(b, m)}} : l \in L}
<1>12. <<t, n>> \in from
  BY <1>3, <1>5, <1>9
<1> DEFINE Joined(r, m) == /\ UnitAt(r, m) # NoUnit
                           /\ \E q \in BreakoutPairs(b, L, R) : q[1] = t /\ q[2] = n /\ q[3] = r /\ q[4] = m
<1>a. PICK r \in R : \E m : Joined(r, m)
  <2>1. CASE Cardinality(R) = 1
    <3>1. PathPositions(s) = {0} \/ k + 1 \in PathPositions(s)
      BY <1>4, <1>5, <1>9, <2>1
    <3>2. k + 1 \in ExpectedPositions(s)
      <4>1. plant.on[s] = c
        BY <1>8, <1>10
      <4>2. CASE PathPositions(s) = {0}
        <5>1. ExpectedPositions(s) = 1..b.count
          BY <1>2, <4>1, <4>2 DEF ExpectedPositions, RawPositions
        <5> QED BY <1>2, <1>6, <5>1
      <4>3. CASE PathPositions(s) # {0}
        BY <3>1, <4>3 DEF ExpectedPositions, RawPositions
      <4> QED BY <4>2, <4>3
    <3>3. UnitAt(s, k + 1) # NoUnit /\ UnitAt(s, k + 1).of = s /\ s # t /\ s \in R
      <4>1. s \in plant.terms /\ plant.on[s] = c /\ s # t /\ s \in R
        BY <1>8, <1>10
      <4>2. UnitAt(s, k + 1) # NoUnit
        BY <3>2, <4>1, ExpectedFound
      <4> QED BY <1>1, <4>1, <4>2, UnitOfTermination
    <3> DEFINE q == <<t, n, s, k + 1>>
               all == {<<f[1], f[2], r, OrdinalOf(b, f[2]) + 1>> : f \in from, r \in R}
    <3>4. q \in all
      <4>1. <<t, n>> \in from /\ <<t, n>>[1] = t /\ <<t, n>>[2] = n /\ s \in R
        BY <1>12, <3>3
      <4> HIDE DEF from, R
      <4> QED BY <4>1
    <3>5. q[1] = t /\ q[2] = n /\ q[3] = s /\ q[4] = k + 1
      OBVIOUS
    <3>6. BreakoutPairs(b, L, R) = {p \in all : /\ NoUnit \notin {UnitAt(p[1], p[2]), UnitAt(p[3], p[4])}
                                               /\ UnitAt(p[1], p[2]) # UnitAt(p[3], p[4])}
      BY <1>2, <2>1 DEF BreakoutPairs
    <3>7. q \in BreakoutPairs(b, L, R)
      <4> HIDE DEF q, all, k
      <4> QED BY <1>11, <3>3, <3>4, <3>5, <3>6
    <3> QED BY <3>3, <3>5, <3>7
  <2>2. CASE Cardinality(R) # 1
    <3>1. PICK r \in R : Cardinality({x \in R : x.pk < r.pk}) = k
      <4>1. k < Cardinality(R) /\ k \in Nat
        BY <1>2, <1>5, <1>6, <1>9, <2>2
      <4>2. \A x \in R : x \in [kind : {"interface", "front_port", "rear_port"}, pk : Nat]
        BY <1>1, <1>10 DEF IsPlant, CablesFit
      <4>3. \A x \in R : x.pk \in Nat
        BY <4>2
      <4>4. \A x, y \in R : x.pk = y.pk => x = y
        <5>1. \A x, y \in R : x.kind = y.kind
          BY <1>9
        <5> HIDE DEF R
        <5> QED BY <4>2, <5>1
      <4> HIDE DEF R, k
      <4> QED BY <1>10, <4>1, <4>3, <4>4, PeerOfRank
    <3>2. UnitAt(r, 0) # NoUnit
      BY <1>1, <1>10, UnitOfTermination
    <3> DEFINE q == <<t, n, r, 0>>
               all == {<<f[1], f[2], x, 0>> : f \in from, x \in R}
    <3>3. q \in all
      <4>1. <<t, n>> \in from /\ <<t, n>>[1] = t /\ <<t, n>>[2] = n
        BY <1>12
      <4> HIDE DEF from, R
      <4> QED BY <4>1
    <3>4. q[1] = t /\ q[2] = n /\ q[3] = r /\ q[4] = 0
      OBVIOUS
    <3>5. BreakoutPairs(b, L, R) = {p \in all : Cardinality({x \in R : x.pk < p[3].pk}) = OrdinalOf(b, p[2])}
      BY <1>2, <2>2 DEF BreakoutPairs
    <3>6. q \in BreakoutPairs(b, L, R)
      <4> HIDE DEF q, all
      <4> QED BY <3>1, <3>3, <3>4, <3>5
    <3> QED BY <3>2, <3>4, <3>6
  <2> QED BY <2>1, <2>2
<1>13. PICK m : Joined(r, m)
  BY <1>a
<1>14. PICK q \in BreakoutPairs(b, L, R) : q[1] = t /\ q[2] = n /\ q[3] = r /\ q[4] = m
  BY <1>13
<1>15. CableEdges(L, c, R) = Segments(BreakoutPairs(b, L, R), c, TRUE)
  <2>1. MappedPairs(plant.cables[c].profile, L, R) = {} /\ MappedPairs(plant.cables[c].assembly, L, R) = {}
    <3>1. \A map : DOMAIN map = {} => MappedPairs(map, L, R) = {}
      BY DEF MappedPairs
    <3> QED BY <1>2, <3>1
  <2> QED BY <1>14, <2>1 DEF CableEdges
<1>16. UnitAt(r, m).of = r /\ r # t
  BY <1>1, <1>10, <1>13, UnitOfTermination
<1>17. \E e \in Segments(BreakoutPairs(b, L, R), c, TRUE) : UnitAt(t, n) \in e.ends /\ UnitAt(r, m) \in e.ends
  <2> DEFINE pairs == BreakoutPairs(b, L, R)
  <2>1. q \in pairs
    OBVIOUS
  <2> HIDE DEF pairs
  <2>2. \E e \in Segments(pairs, c, TRUE) : UnitAt(t, n) \in e.ends /\ UnitAt(r, m) \in e.ends
    BY <1>11, <1>13, <1>14, <1>16, <2>1, SegmentOfPair
  <2> QED BY <2>2 DEF pairs
<1> QED BY <1>8, <1>15, <1>17, EdgeDerives

\* A termination that paths lead from, on a cable that is neither named nor
\* among those where positions are overlooked, is derived at every position.
LEMMA WalkedDerived ==
  ASSUME Built, NEW t \in plant.terms, plant.on[t] # NoCable, Walked(t),
         ~IsNamed(plant.on[t]), ~MayOverlook(plant.on[t]), NEW n \in ExpectedPositions(t)
  PROVE  Derived(t, n)
<1> DEFINE c == plant.on[t]
           count == plant.cables[c].breakout.count
<1>1. IsPlant(plant) /\ t \in OnCable(c)
  BY PlantBuilt DEF OnCable
<1>2. c \in DOMAIN plant.cables /\ count \in Nat
  <2>1. c \in DOMAIN plant.cables
    BY <1>1 DEF IsPlant, CablesFit
  <2> QED BY <1>1, <2>1 DEF IsPlant, CablesFit
<1>3. Fine(c)
  <2>1. c \in RelevantCables
    BY <1>1, <1>2 DEF RelevantCables
  <2> QED BY <1>2, <2>1, UnnamedIsFine DEF Fine, Walked
<1>4. CASE t.kind = "interface" /\ n # 0
  BY <1>3, <1>4, ExpectedFound, ChildDerived
<1>5. CASE t.kind = "interface" /\ n = 0
  <2>1. PathPositions(t) = {0} /\ plant.wired[t] = {} /\ ~(count > 1)
    <3>1. CASE PathPositions(t) = {0} /\ count > 1
      <4>1. ExpectedPositions(t) = 1..count
        BY <3>1 DEF ExpectedPositions, RawPositions
      <4> QED BY <1>2, <1>5, <4>1
    <3>2. CASE ~(PathPositions(t) = {0} /\ count > 1)
      <4>1. 0 \in PathPositions(t)
        BY <1>5, <3>2 DEF ExpectedPositions, RawPositions
      <4> QED BY <1>1, <3>2, <4>1, PathPositionsOf
    <3> QED BY <3>1, <3>2
  <2>2. ~HasNativeProfile(c)
    BY <1>1, <2>1, PlugOf
  <2>3. count # 1
    <3> SUFFICES ASSUME count = 1 PROVE FALSE
      OBVIOUS
    <3>1. PlacedByBreakout(c)
      BY <2>2 DEF PlacedByBreakout
    <3> QED BY <3>1 DEF MayOverlook
  <2>4. ~HasProfile(c)
    BY <1>2, <2>1, <2>2, <2>3 DEF HasProfile
  <2> QED BY <1>3, <1>5, <2>4, PlainDerived
<1>6. CASE t.kind # "interface"
  <2>1. n \in PathPositions(t)
    <3>1. PathPositions(t) # {0}
      BY <1>1, <1>6, PathPositionsOf
    <3> QED BY <3>1 DEF ExpectedPositions, RawPositions
  <2>2. CASE HasNativeProfile(c)
    BY <1>3, <2>1, <2>2, NativeDerived
  <2>3. CASE PlacedByBreakout(c)
    BY <1>3, <1>6, <2>1, <2>3, BreakoutDerived
  <2>4. CASE ~HasProfile(c)
    BY <1>3, <1>6, <2>4, PlainDerived
  <2> QED BY <2>2, <2>3, <2>4 DEF HasProfile, PlacedByBreakout
<1> QED BY <1>4, <1>5, <1>6

\* For every plant that can be built: every position that the cable of a
\* walked termination gives it has its segment, or both the audit and the
\* candidates for the summaries name the cable or one of its ends, but for the
\* cables MayOverlook lists (audits.py, unresolved_candidates.py).
THEOREM NoPositionLostSilently == TransformSpec => []NothingLostSilently
<1>1. TInv /\ BuiltInv => NothingLostSilently
  BY WalkedDerived DEF NothingLostSilently, Built
<1> QED BY <1>1, TransformInvariance, BuiltInvHolds, PTL

\* A healthy fabric has no findings.
LEMMA HealthyHasNoFindings == FabricHealth = "healthy" => Findings = {}
BY DEF FabricHealth, StatusOf

\* For every plant whose fabric the audit reports healthy (compute_fabric_
\* health): units, planes and children are as they should be, and every
\* position that is not overlooked has its segment.
THEOREM HealthyFabricsAreComplete == TransformSpec => []HealthyIsComplete
<1>1. TInv /\ BuiltInv => HealthyIsComplete
  <2> SUFFICES ASSUME Built, FabricHealth = "healthy"
               PROVE  /\ \A u \in graph.units : Cardinality(PlanesOf(u)) = 1
                      /\ \A p \in graph.planes : PlaneHealth(p) = "healthy" /\ \E u \in graph.units : p \in PlanesOf(u)
                      /\ \A u \in graph.units \cap ChildUnits : \E l \in links : u \in {l[1], l[2]}
                      /\ \A t \in {s \in plant.terms : plant.on[s] # NoCable} :
                            Walked(t) /\ ~MayOverlook(plant.on[t]) => \A n \in ExpectedPositions(t) : Derived(t, n)
    BY DEF HealthyIsComplete, Built
  <2>1. Findings = {}
    BY HealthyHasNoFindings
  <2>2. UnitFindings = {} /\ PlaneFindings = {} /\ DerivationFindings = {}
    BY <2>1 DEF Findings
  <2>3. ASSUME NEW u \in graph.units PROVE Cardinality(PlanesOf(u)) = 1
    <3>1. PlanesOf(u) # {} /\ ~(Cardinality(PlanesOf(u)) > 1)
      BY <2>2 DEF UnitFindings
    <3>2. IsFiniteSet(PlanesOf(u))
      <4>1. PlanesOf(u) \in SUBSET Planes
        BY DEF PlanesOf
      <4> QED BY <4>1, PlanesAreFinite, FS_Subset
    <3>3. Cardinality(PlanesOf(u)) \in Nat /\ Cardinality(PlanesOf(u)) # 0
      BY <3>1, <3>2, FS_CardinalityType, FS_EmptySet
    <3> QED BY <3>1, <3>3
  <2>4. ASSUME NEW p \in graph.planes PROVE PlaneHealth(p) = "healthy" /\ \E u \in graph.units : p \in PlanesOf(u)
    <3>1. \E u \in graph.units : p \in PlanesOf(u)
      BY <2>2 DEF PlaneFindings
    <3>2. PlaneHealth(p) = "healthy"
      BY <2>1 DEF PlaneHealth, StatusOf
    <3> QED BY <3>1, <3>2
  <2>5. ASSUME NEW u \in graph.units \cap ChildUnits PROVE \E l \in links : u \in {l[1], l[2]}
    <3>1. Orphaned = {}
      BY <2>2 DEF DerivationFindings, OrphanFindings
    <3>2. u \in Connected
      BY <3>1 DEF Orphaned
    <3> QED BY <3>2, ConnectedIsLinked
  <2>6. ASSUME NEW t \in plant.terms, plant.on[t] # NoCable, Walked(t), ~MayOverlook(plant.on[t]),
               NEW n \in ExpectedPositions(t)
        PROVE  Derived(t, n)
    <3>1. ~IsNamed(plant.on[t])
      BY <2>2 DEF IsNamed
    <3> QED BY <2>6, <3>1, WalkedDerived
  <2> QED BY <2>3, <2>4, <2>5, <2>6
<1> QED BY <1>1, TransformInvariance, BuiltInvHolds, PTL
=============================================================================

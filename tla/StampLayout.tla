---------------------------- MODULE StampLayout ----------------------------
(***************************************************************************)
(* Stamps, the floorplans their racks are drawn on and the child           *)
(* interfaces of their devices: wizards and API calls                      *)
(* (services/spatial_stamp.py, services/floorplan_bridge.py), the bulk     *)
(* breakout command, and the canvas editor of the floorplan plugin, which  *)
(* is another program.  Each user runs one operation at a time; a stamp is *)
(* one transaction, everything else commits statement by statement, and    *)
(* any operation can end early.  A canvas is one document: it is read,     *)
(* changed in memory and saved whole.  The racks of a stamp are drawn      *)
(* after its transaction, from the placements still in memory.  Stamps     *)
(* inside a deployment plan are in DeploymentPlan.                         *)
(***************************************************************************)
EXTENDS StampTemplates, CanvasCoordinates

CONSTANTS Users,
          Worlds,         \* sites before the first operation, with their floorplans
          StampRequests,  \* [template, scope, variables, sync, force]
          BreakoutRuns,   \* [devices, specs]: a template and the devices in order
          Edits,          \* what the editor may do to a canvas
          MaxOperations   \* bound on the operations begun

PlaceRows == [name : Names, parent : Nat]
RackRows == [name : Names, place : Nat, placed : BOOLEAN, at : Int, unit : Units, frame : Nat, origin : Seq(Int)]
DeviceRows == [name : Names, rack : Nat, u : Int, face : {"front", "rear"}, ports : Seq(Ports)]
Ends == Nat \X Names
WorldRows == [places : Seq(PlaceRows), racks : Seq(RackRows), devices : Seq(DeviceRows), cables : SUBSET [a : Ends, b : Ends]]

\* An object may name a rack that was deleted, whose number is 0.
Flags == {"layout_manual_override", "manual_override"}
Objects == [rack : Nat, id : {"number", "text"}, at : Int, manager : {"plant graph", "editor", "another tool"}, pins : SUBSET Flags]
Canvases == [exists : BOOLEAN, objects : Seq(Objects)]
NamesRacks(objects, n) == \A i \in DOMAIN objects : objects[i].rack \in 0..n

ASSUME RequestsAssumption ==
    /\ \A r \in StampRequests : /\ IsTemplate(r.template)
                                /\ r.scope \in Nat /\ {r.sync, r.force} \subseteq BOOLEAN
                                /\ \A v \in DOMAIN r.variables : r.variables[v] \in Int \cup {NotANumber}
    /\ \A r \in BreakoutRuns : IsBreakout(r.specs) /\ r.devices \in Seq(Nat)
    /\ \A e \in Edits : (e.kind = "move" /\ e.at \in Int) \/ (e.kind = "pin" /\ e.flag \in Flags)
ASSUME BoundsAssumption == Letters \in Nat /\ MaxOperations \in Nat
\* A floorplan can be asked for wherever there is a request.
ASSUME WorldsAssumption == \A w \in Worlds :
    /\ w.world \in WorldRows
    /\ w.canvas \in [DOMAIN w.canvas -> Canvases]
    /\ DOMAIN w.canvas \subseteq Nat /\ \A r \in StampRequests : r.scope \in DOMAIN w.canvas
    /\ \A s \in DOMAIN w.canvas : NamesRacks(w.canvas[s].objects, Len(w.world.racks))

VARIABLES world,    \* locations, racks with their placements, devices, cables
          canvas,   \* by scope: a floorplan or none, and its objects
          job,      \* by user: the operation under way
          begun

layout == <<world, canvas, job, begun>>

Idle == [op |-> "idle"]
MayBegin(u) == job[u] = Idle /\ begun < MaxOperations
Begin(u, j) == /\ MayBegin(u)
               /\ begun' = begun + 1
               /\ job' = [job EXCEPT ![u] = j]
Continue(u, j) == /\ job' = [job EXCEPT ![u] = j]
                  /\ UNCHANGED begun

LayoutInit == /\ \E w \in Worlds : world = w.world /\ canvas = w.canvas
              /\ job = [u \in Users |-> Idle]
              /\ begun = 0

-----------------------------------------------------------------------------
(* The canvas *)

\* The object of a rack, its id a number or, from the editor, text.
ObjectsOf(objects, rack) == {i \in DOMAIN objects : objects[i].rack = rack}
\* Mutant: the ids compared as they are stored.
SpelledObjectIndex(objects, rack) ==
    LET S == {i \in ObjectsOf(objects, rack) : objects[i].id = "number"}
    IN  IF S = {} THEN 0 ELSE CHOOSE i \in S : \A k \in S : i <= k
RackObjectIndex(objects, rack) ==
    LET S == ObjectsOf(objects, rack)
    IN  IF S = {} THEN 0 ELSE CHOOSE i \in S : \A k \in S : i <= k

ManualOverride(object) == object.pins # {} \/ object.manager = "another tool"

Serialize(rack, at) == [rack |-> rack, id |-> "number", at |-> at, manager |-> "plant graph", pins |-> {}]

\* The new object names layout_manual_override, so only the older flag stays.
Merge(existing, new) == [new EXCEPT !.pins = existing.pins \cap {"manual_override"}]

DrawRack(objects, rack, at, force) ==
    LET i == RackObjectIndex(objects, rack)
    IN  IF i = 0 THEN Append(objects, Serialize(rack, at))
        ELSE IF ~force /\ ManualOverride(objects[i]) THEN objects
        ELSE [objects EXCEPT ![i] = Merge(@, Serialize(rack, at))]
DrawRacks(objects, drawn, force) ==
    LET drawing[k \in 0..Len(drawn)] ==
            IF k = 0 THEN objects ELSE DrawRack(drawing[k - 1], drawn[k].rack, drawn[k].at, force)
    IN  drawing[Len(drawn)]

-----------------------------------------------------------------------------
(* A spatial stamp *)

World(tx) == [places |-> tx.places, racks |-> tx.racks, devices |-> tx.devices, cables |-> tx.cables]

Stamp(u) == \E r \in StampRequests :
    /\ MayBegin(u)
    /\ r.scope \in 0..Len(world.places)
    /\ LET tx == StampSpatialTemplate(world, r.template, r.scope, r.variables)
           first == Len(world.racks) + 1
           new == [k \in 1..(Len(tx.racks) - Len(world.racks)) |-> first + k - 1]
       IN  /\ world' = IF tx.failed THEN world ELSE World(tx)
           /\ Begin(u, IF tx.failed \/ ~r.sync \/ new = <<>> THEN Idle
                       ELSE [op |-> "draw", scope |-> r.scope, force |-> r.force,
                             racks |-> [k \in DOMAIN new |-> [rack |-> new[k], from |-> tx.racks[new[k]].at]]])
    /\ UNCHANGED canvas

\* get_or_create of the floorplan, and the new canvas in memory.
DrawStamped(u) ==
    /\ job[u].op = "draw"
    /\ LET s == job[u].scope
           read == canvas[s].objects
           drawn == [k \in DOMAIN job[u].racks |->
                        [rack |-> job[u].racks[k].rack,
                         at |-> CHOOSE c \in CanvasCoordinates(job[u].racks[k].from, "meters") : TRUE]]
           new == DrawRacks(read, drawn, job[u].force)
       IN  /\ canvas' = [canvas EXCEPT ![s].exists = TRUE]
           /\ Continue(u, IF new = read THEN Idle
                          ELSE [op |-> "save", scope |-> s, force |-> job[u].force, drawn |-> drawn, read |-> read, new |-> new])
    /\ UNCHANGED world

SaveDrawing(u) ==
    /\ job[u].op = "save"
    /\ canvas' = [canvas EXCEPT ![job[u].scope].objects = job[u].new]
    /\ Continue(u, Idle)
    /\ UNCHANGED world

-----------------------------------------------------------------------------
(* From the canvas back to the placements *)

Locations(p) ==
    LET Above[q \in 0..Len(world.places)] == IF q = 0 THEN {0} ELSE {q} \cup Above[world.places[q].parent]
    IN  Above[p]
InScope(scope, rack) == rack \in DOMAIN world.racks /\ scope \in Locations(world.racks[rack].place)

Reconcile(u) == \E s \in DOMAIN canvas, create \in BOOLEAN :
    /\ canvas[s].exists
    /\ Begin(u, [op |-> "reconcile", scope |-> s, create |-> create, objects |-> canvas[s].objects])
    /\ UNCHANGED <<world, canvas>>

\* The whole row of a placement is read and saved at once; a new one takes the
\* scope for its frame and meters for its unit.
ReconcileObject(u) ==
    /\ job[u].op = "reconcile"
    /\ job[u].objects # <<>>
    /\ LET o == Head(job[u].objects)
           ours == o.manager = "plant graph" /\ InScope(job[u].scope, o.rack)
           Placed(r, x) == IF r.placed THEN [r EXCEPT !.at = x]
                           ELSE [r EXCEPT !.at = x, !.placed = TRUE, !.unit = "meters", !.frame = job[u].scope]
       IN  \/ /\ ours
              /\ world.racks[o.rack].placed \/ job[u].create
              /\ LET r == world.racks[o.rack]
                 IN  \E x \in PlacementCoordinates(o.at, IF r.placed THEN r.unit ELSE "meters") :
                        world' = [world EXCEPT !.racks[o.rack] = Placed(r, x)]
           \/ /\ ours => ~world.racks[o.rack].placed /\ ~job[u].create
              /\ UNCHANGED world
    /\ Continue(u, [job[u] EXCEPT !.objects = Tail(@)])
    /\ UNCHANGED canvas

ReconcileDone(u) ==
    /\ job[u].op = "reconcile"
    /\ job[u].objects = <<>>
    /\ Continue(u, Idle)
    /\ UNCHANGED <<world, canvas>>

-----------------------------------------------------------------------------
(* Child interfaces for devices that are there: the wizard and the command *)

BreakOut(u) == \E r \in BreakoutRuns :
    /\ ToSet(r.devices) \subseteq DOMAIN world.devices
    /\ Begin(u, [op |-> "breakout", devices |-> r.devices, left |-> r.devices, specs |-> r.specs, children |-> <<>>])
    /\ UNCHANGED <<world, canvas>>

\* The interfaces of the next device are read once, before the first child.
ReadDevice(u) ==
    /\ job[u].op = "breakout"
    /\ job[u].left # <<>>
    /\ LET made == MissingChildren(job[u].specs, world.devices[Head(job[u].left)].ports)
       IN  Continue(u, [job[u] EXCEPT !.op = IF made = <<>> THEN "breakout" ELSE "children", !.children = made,
                                      !.left = IF made = <<>> THEN Tail(@) ELSE @])
    /\ UNCHANGED <<world, canvas>>

\* Each child is saved by itself; a name that is taken ends the whole run.
CreateChild(u) ==
    /\ job[u].op = "children"
    /\ LET d == Head(job[u].left)
           children == job[u].children
           taken == Head(children).name \in NamesOf(world.devices[d].ports)
           last == Len(children) = 1
       IN  /\ world' = IF taken THEN world ELSE [world EXCEPT !.devices[d].ports = Append(@, Head(children))]
           /\ Continue(u, IF taken THEN Idle
                          ELSE [job[u] EXCEPT !.op = IF last THEN "breakout" ELSE "children", !.children = Tail(@),
                                              !.left = IF last THEN Tail(@) ELSE @])
    /\ UNCHANGED canvas

BreakoutDone(u) ==
    /\ job[u].op = "breakout"
    /\ job[u].left = <<>>
    /\ Continue(u, Idle)
    /\ UNCHANGED <<world, canvas>>

-----------------------------------------------------------------------------
(* The canvas editor, and operations that end early *)

OpenEditor(u) == \E s \in DOMAIN canvas :
    /\ canvas[s].exists
    /\ Begin(u, [op |-> "edit", scope |-> s, objects |-> canvas[s].objects])
    /\ UNCHANGED <<world, canvas>>

\* The editor moves, pins or draws a rack and stores its id as text.
Edited(objects, e, rack) ==
    LET S == ObjectsOf(objects, rack)
        i == IF S = {} THEN 0 ELSE CHOOSE k \in S : \A l \in S : k <= l
        drawn == [rack |-> rack, id |-> "text", at |-> e.at, manager |-> "editor", pins |-> {}]
    IN  IF i = 0 THEN IF e.kind = "move" THEN Append(objects, drawn) ELSE objects
        ELSE IF e.kind = "move" THEN [objects EXCEPT ![i].at = e.at, ![i].id = "text"]
        ELSE [objects EXCEPT ![i].pins = @ \cup {e.flag}, ![i].id = "text"]

SaveEdit(u) == \E e \in Edits, r \in DOMAIN world.racks :
    /\ job[u].op = "edit"
    /\ InScope(job[u].scope, r)
    /\ canvas' = [canvas EXCEPT ![job[u].scope].objects = Edited(job[u].objects, e, r)]
    /\ Continue(u, Idle)
    /\ UNCHANGED world

\* A crash, or the exception of a floorplan that cannot be written.
Abandon(u) ==
    /\ job[u] # Idle
    /\ Continue(u, Idle)
    /\ UNCHANGED <<world, canvas>>

LayoutNext == \E u \in Users :
    \/ Stamp(u) \/ DrawStamped(u) \/ SaveDrawing(u)
    \/ Reconcile(u) \/ ReconcileObject(u) \/ ReconcileDone(u)
    \/ BreakOut(u) \/ ReadDevice(u) \/ CreateChild(u) \/ BreakoutDone(u)
    \/ OpenEditor(u) \/ SaveEdit(u) \/ Abandon(u)
LayoutSpec == LayoutInit /\ [][LayoutNext]_layout

-----------------------------------------------------------------------------
(* Properties *)

Scopes == DOMAIN canvas
Jobs == {Idle}
    \cup [op : {"draw"}, scope : Scopes, force : BOOLEAN, racks : Seq([rack : Nat, from : Int])]
    \cup [op : {"save"}, scope : Scopes, force : BOOLEAN, drawn : Seq([rack : Nat, at : Int]),
          read : Seq(Objects), new : Seq(Objects)]
    \cup [op : {"reconcile"}, scope : Scopes, create : BOOLEAN, objects : Seq(Objects)]
    \cup [op : {"breakout", "children"}, devices : Seq(Nat), left : Seq(Nat), specs : {r.specs : r \in BreakoutRuns},
          children : Seq(Ports)]
    \cup [op : {"edit"}, scope : Scopes, objects : Seq(Objects)]
LayoutTypeOK ==
    /\ world \in WorldRows
    /\ canvas \in [Scopes -> Canvases] /\ Scopes \subseteq Nat
    /\ job \in [Users -> Jobs]
    /\ begun \in 0..MaxOperations

\* A stamp that saves a canvas nobody wrote since it was read leaves the
\* objects of other racks alone, draws each of its racks in one object, where
\* the placement is, and moves what an operator pinned only when forced
\* (sync_rack_placements_to_floorplan).
SyncKeepsCanvas ==
    [][\A u \in Users : SaveDrawing(u) /\ canvas[job[u].scope].objects = job[u].read =>
        LET before == job[u].read
            after == canvas'[job[u].scope].objects
            racks == {d.rack : d \in ToSet(job[u].drawn)}
        IN  /\ \A i \in DOMAIN before : before[i].rack \notin racks => after[i] = before[i]
            /\ \A d \in ToSet(job[u].drawn) :
                /\ Cardinality(ObjectsOf(after, d.rack)) = 1
                /\ \A i \in ObjectsOf(after, d.rack) :
                    \/ after[i].at = d.at
                    \/ i \in DOMAIN before /\ after[i] = before[i] /\ ManualOverride(before[i]) /\ ~job[u].force]_layout

\* A reconciliation leaves a placement as it is when its object lies on the
\* canvas where the placement is drawn: rounding never creeps, in any unit
\* (reconcile_floorplan_to_placements).
UnmovedStaysPut ==
    [][\A u \in Users : ReconcileObject(u) =>
        LET o == Head(job[u].objects)
        IN  (/\ o.rack \in DOMAIN world.racks
             /\ world.racks[o.rack].placed
             /\ o.at \in CanvasCoordinates(world.racks[o.rack].at, world.racks[o.rack].unit))
            => UNCHANGED world]_layout

\* A breakout that comes to its end without an error has given every device
\* all the children of its specs, unless an interface that is no child lacks
\* for a parent, whatever other runs did meanwhile and however often it was cut
\* short before (create_child_interfaces_from_breakout_spec, bulk_apply_breakout).
HasParent(ports, spec) == \E i \in DOMAIN ports : ports[i].name = spec.parent /\ ~IsChild(ports[i])
HasChild(ports, name) == \E i \in DOMAIN ports : ports[i].name = name /\ IsChild(ports[i])
BreakoutIsComplete ==
    [][\A u \in Users : BreakoutDone(u) =>
        \A d \in ToSet(job[u].devices), k \in DOMAIN job[u].specs :
            LET spec == job[u].specs[k]
                ports == world.devices[d].ports
            IN  HasParent(ports, spec) => \A c \in 0..(spec.count - 1) : HasChild(ports, ChildName(spec, c))]_layout

\* Connections that can pair rack by rack: nodes under the scope itself, in
\* equal numbers, with equal populations.
InStep(t, c) ==
    LET s == t.nodes[c.source]
        d == t.nodes[c.dest]
    IN  /\ c.mode = "one_to_one" /\ c.connectors = <<1, 1>>
        /\ s.parent = 0 /\ d.parent = 0 /\ s.quantity = d.quantity /\ s.expr = d.expr /\ PlaneMultiplier(s) = PlaneMultiplier(d)
DevicesIn(w, rack) == {d \in DOMAIN w.devices : w.devices[d].rack = rack}
Joined(w, d, e) == \E cable \in w.cables : cable.a[1] = d /\ cable.b[1] = e

\* What a stamp committed, and with which request.
Stamped(r) == /\ Len(world'.racks) > Len(world.racks)
              /\ world' = World(StampSpatialTemplate(world, r.template, r.scope, r.variables))

\* A one-to-one connection cables each rack to the rack of the same instance
\* and the same plane, and leaves none out (_stamp_connection_template).
PlanesStayApart ==
    [][\A r \in StampRequests : Stamped(r) =>
        \A k \in DOMAIN r.template.connections :
            LET c == r.template.connections[k]
                New(n) == {x \in DOMAIN world'.racks : x > Len(world.racks) /\ world'.racks[x].origin[1] = n}
                Same(x, y) == Tail(world'.racks[x].origin) = Tail(world'.racks[y].origin)
            IN  InStep(r.template, c) =>
                    \A x \in New(c.source), y \in New(c.dest) :
                        \A d \in DevicesIn(world', x), e \in DevicesIn(world', y) : Joined(world', d, e) <=> Same(x, y)]_layout
=============================================================================

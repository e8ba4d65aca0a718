--------------------------- MODULE StampTemplates ---------------------------
(***************************************************************************)
(* What stamping a template makes (services/spatial_stamp.py,              *)
(* rack_population_stamp.py, assembly_stamp.py): locations and racks from  *)
(* the tree of nodes, devices from the slots of a rack, child interfaces   *)
(* from breakout specs, cables from connection templates.  A stamp is one  *)
(* transaction: the operators take the database as it was and return it    *)
(* with `failed' set when a statement violated one of NetBox's             *)
(* constraints.  Positions are given by one coordinate; names are          *)
(* sequences of numbers, one for each token that the pattern uses.         *)
(* Templates are not edited, nor racks and devices deleted, meanwhile.     *)
(***************************************************************************)
EXTENDS Integers, FiniteSets, SequencesExt

CONSTANTS Letters,     \* how many values {letter} takes: 26
          NotANumber   \* the value of a variable that int() refuses

Chain(Op(_, _), tx, s) ==
    LET run[k \in 0..Len(s)] ==
            IF k = 0 THEN tx
            ELSE LET before == run[k - 1] IN IF before.failed THEN before ELSE Op(before, s[k])
    IN  run[Len(s)]
Upto(n) == [i \in 1..n |-> i]
Fail(tx) == [tx EXCEPT !.failed = TRUE]

-----------------------------------------------------------------------------
(* Templates that the database accepts *)

Names == Seq(Int)
Ports == [name : Names, parent : Names, plane : Int]

IsBreakout(specs) ==
    /\ specs \in Seq([parent : Names \ {<<>>}, count : Nat, start : Nat, tokens : SUBSET {"parent", "n", "plane"}])
    /\ \A i, j \in DOMAIN specs : specs[i].parent = specs[j].parent => i = j

IsSlot(slot) ==
    /\ slot.face \in {"front", "rear"} /\ slot.u \in Int
    /\ slot.pattern.tag \in Int
    /\ slot.ports \in Seq(Ports) /\ IsBreakout(slot.specs)
\* 0 stands for no plane multiplier and for no fabric.
IsPopulation(p) ==
    /\ {p.multiplier, p.fabricPlanes} \subseteq Nat
    /\ p.slots \in Seq(Range(p.slots)) /\ \A slot \in Range(p.slots) : IsSlot(slot)
    /\ \A i, j \in DOMAIN p.slots : <<p.slots[i].u, p.slots[i].face>> = <<p.slots[j].u, p.slots[j].face>> => i = j

NodeTypes == {"site", "building", "hall", "floor", "room", "pod", "row", "rack_group", "rack_position"}
IsNode(nodes, n) ==
    /\ nodes[n].parent \in 0..(n - 1)
    /\ nodes[n].kind \in NodeTypes
    /\ {nodes[n].position, nodes[n].stride, nodes[n].pattern.tag} \subseteq Int
    /\ nodes[n].quantity \in Nat
    /\ nodes[n].populated => IsPopulation(nodes[n].population)

IsConnection(nodes, c) ==
    /\ {c.source, c.dest} \subseteq DOMAIN nodes
    /\ {c.sourceSlot, c.destSlot} \subseteq Nat
    /\ c.mode \in {"one_to_one", "fan_out", "fan_in"}

IsTemplate(t) == /\ t.nodes \in Seq(Range(t.nodes)) /\ t.connections \in Seq(Range(t.connections))
                 /\ \A v \in DOMAIN t.defaults : t.defaults[v] \in Int \cup {NotANumber}
                 /\ \A n \in DOMAIN t.nodes : IsNode(t.nodes, n)
                 /\ \A k \in DOMAIN t.connections : IsConnection(t.nodes, t.connections[k])

-----------------------------------------------------------------------------
(* Names *)

Render(pattern, index, parent, plane) ==
    LET Token(t, v) == IF t \in pattern.tokens THEN v ELSE 0
    IN  <<pattern.tag, Token("index", index), Token("letter", IF index < Letters THEN index ELSE Letters), Token("plane", plane)>>
        \o (IF "parent" \in pattern.tokens THEN parent ELSE <<>>)

Less(a, b) == \E i \in DOMAIN b :
    /\ \A j \in 1..(i - 1) : j \in DOMAIN a /\ a[j] = b[j]
    /\ i \in DOMAIN a => a[i] < b[i]

-----------------------------------------------------------------------------
(* Child interfaces *)

ChildName(spec, c) ==
    LET Token(t, v) == IF t \in spec.tokens THEN v ELSE 0
    IN  <<Token("parent", spec.parent[1]), Token("n", c + 1), Token("plane", spec.start + c)>>
Child(spec, c) == [name |-> ChildName(spec, c), parent |-> spec.parent, plane |-> spec.start + c]
NamesOf(ports) == {ports[i].name : i \in DOMAIN ports}
IsChild(port) == port.parent # <<>>

\* The children that an application of the specs to these interfaces makes,
\* in order: those of a parent that is there, unless a child has the name.
Unnamed(children, known) ==
    LET made[k \in 0..Len(children)] ==
            IF k = 0 THEN <<>>
            ELSE LET before == made[k - 1]
                 IN  IF children[k].name \in known \cup NamesOf(before) THEN before ELSE Append(before, children[k])
    IN  made[Len(children)]
Specified(specs, ports) ==
    FlattenSeq([k \in DOMAIN specs |-> IF specs[k].parent \in NamesOf(ports)
                                      THEN [c \in 1..specs[k].count |-> Child(specs[k], c - 1)] ELSE <<>>])
\* Mutant: any interface of that name is taken for the child.
AnyInterface(specs, ports) == Unnamed(Specified(specs, ports), NamesOf(ports))
MissingChildren(specs, ports) ==
    Unnamed(Specified(specs, ports), {p.name : p \in {q \in Range(ports) : IsChild(q)}})

-----------------------------------------------------------------------------
(* Devices of a rack *)

\* One device for a slot, with the interfaces of its type and their children: a
\* bare device, or a passive one, which needs a device type.  No two devices of
\* a site share a name, none share a rack, unit and face, and no two interfaces
\* of a device share a name.
AddDevice(tx, slot, index, rack, plane) ==
    LET children == MissingChildren(slot.specs, slot.ports)
        device == [name |-> Render(slot.pattern, index, tx.racks[rack].name, plane), rack |-> rack,
                   u |-> slot.u, face |-> slot.face, ports |-> slot.ports \o children]
        Clash(d) == d.name = device.name \/ <<d.rack, d.u, d.face>> = <<rack, device.u, device.face>>
    IN  IF \/ slot.kind = "passive without type"
           \/ \E i \in DOMAIN tx.devices : Clash(tx.devices[i])
           \/ NamesOf(children) \cap NamesOf(slot.ports) # {}
        THEN Fail(tx)
        ELSE [tx EXCEPT !.devices = Append(@, device)]

AddDevices(tx, population, rack, plane) ==
    Chain(LAMBDA s, k : AddDevice(s, population.slots[k], k, rack, plane), tx, Upto(Len(population.slots)))
StampRackPopulation(tx, population, rack, plane) ==
    Chain(LAMBDA s, p : AddDevices(s, population, rack, IF population.multiplier > 1 THEN p ELSE plane),
          tx, Upto(IF population.multiplier = 0 THEN 1 ELSE population.multiplier))

-----------------------------------------------------------------------------
(* The tree of a spatial template *)

\* Caller's values over the declared defaults.
Quantity(node, variables) ==
    IF node.expr \in DOMAIN variables /\ variables[node.expr] # NotANumber THEN variables[node.expr] ELSE node.quantity

PlaneMultiplier(node) ==
    LET p == node.population
    IN  IF ~node.populated THEN 1 ELSE IF p.multiplier > 1 THEN p.multiplier
        ELSE IF p.fabricPlanes > 1 THEN p.fabricPlanes ELSE 1

Position(node, i) == node.position + (i - 1) * node.stride

\* The instances of nodes in the order they are stamped, each by the path of
\* <<node, instance>> to it: a location comes before what is in it, and a
\* rack has nothing in it.
Visits(t, variables) ==
    LET Under[n \in 0..Len(t.nodes)] ==
            LET InstancesOf(c) ==
                    LET below == Under[c]
                    IN  FlattenSeq([i \in 1..Quantity(t.nodes[c], variables) |->
                            <<<<<<c, i>>>>>> \o [k \in DOMAIN below |-> <<<<c, i>>>> \o below[k]]])
            IN  FlattenSeq([c \in DOMAIN t.nodes |->
                    IF t.nodes[c].parent = n /\ (n = 0 \/ t.nodes[n].kind # "rack_position") THEN InstancesOf(c) ELSE <<>>])
    IN  Under[0]

\* Devices by node, instance and plane; a second instance of the parent node
\* takes the place of the first.
\* Mutant: one entry for an instance, whatever the plane.
RegisterByInstance(tx, key, devices) ==
    [tx EXCEPT !.registry = {e \in @ : <<e.key[1], e.key[2]>> # <<key[1], key[2]>>} \cup {[key |-> key, devices |-> devices]}]
Register(tx, key, devices) ==
    [tx EXCEPT !.registry = {e \in @ : e.key # key} \cup {[key |-> key, devices |-> devices]}]

\* A rack and its placement, relative to the location or the site, in meters.
\* Rack names are unique within a location, not within a site.
AddRack(tx, name, place, at, origin) ==
    IF place # 0 /\ \E r \in DOMAIN tx.racks : tx.racks[r].place = place /\ tx.racks[r].name = name THEN Fail(tx)
    ELSE [tx EXCEPT !.racks = Append(@, [name |-> name, place |-> place, placed |-> TRUE, at |-> at,
                                         unit |-> "meters", frame |-> place, origin |-> origin])]

StampRack(tx, t, n, place, parent, i, plane) ==
    LET node == t.nodes[n]
        many == PlaneMultiplier(node) > 1
        suffix == IF many /\ "plane" \notin node.pattern.tokens THEN <<plane>> ELSE <<>>
        shown == IF many THEN plane ELSE 0
        racked == AddRack(tx, Render(node.pattern, i, parent, shown) \o suffix, place, Position(node, i), <<n, i, plane>>)
        full == StampRackPopulation(racked, node.population, Len(racked.racks), shown)
        old == Len(tx.devices)
    IN  IF racked.failed \/ ~node.populated THEN racked
        ELSE Register(full, <<n, i, plane>>, [d \in 1..(Len(full.devices) - old) |-> old + d])

\* A location; names are unique under their parent.
AddLocation(tx, name, place, path) ==
    LET new == Len(tx.places) + 1
    IN  IF \E p \in DOMAIN tx.places : tx.places[p].parent = place /\ tx.places[p].name = name THEN Fail(tx)
        ELSE [tx EXCEPT !.places = Append(@, [name |-> name, parent |-> place]),
                        !.under = [q \in DOMAIN @ \cup {path} |-> IF q = path THEN new ELSE @[q]]]

\* The location above an instance: the scope, if its node is a root.
LocationAbove(tx, scope, path) == IF Front(path) \in DOMAIN tx.under THEN tx.under[Front(path)] ELSE scope
StampInstance(tx, t, scope, path) ==
    LET n == Last(path)[1]
        i == Last(path)[2]
        place == LocationAbove(tx, scope, path)
        parent == IF place = 0 THEN <<>> ELSE tx.places[place].name
    IN  IF t.nodes[n].kind = "rack_position"
        THEN Chain(LAMBDA a, p : StampRack(a, t, n, place, parent, i, p), tx, Upto(PlaneMultiplier(t.nodes[n])))
        ELSE AddLocation(tx, Render(t.nodes[n].pattern, i, parent, 0), place, path)

-----------------------------------------------------------------------------
(* Connections *)

Sooner(k, l) == k[2] < l[2] \/ (k[2] = l[2] /\ k[3] < l[3])
DevicesOf(tx, n) ==
    LET ofNode == {e \in tx.registry : e.key[1] = n}
        Place(e) == Cardinality({d \in ofNode : Sooner(d.key, e.key)}) + 1
        sorted == [k \in 1..Cardinality(ofNode) |-> CHOOSE e \in ofNode : Place(e) = k]
    IN  FlattenSeq([k \in DOMAIN sorted |-> sorted[k].devices])

\* A node connected to itself has no destination devices.
Pairs(tx, c) ==
    LET S == DevicesOf(tx, c.source)
        D == IF c.dest = c.source THEN <<>> ELSE DevicesOf(tx, c.dest)
    IN  IF S = <<>> \/ D = <<>> THEN <<>>
        ELSE CASE c.mode = "one_to_one" -> IF Len(S) # Len(D) THEN <<>> ELSE [k \in DOMAIN S |-> <<S[k], D[k]>>]
               [] c.mode = "fan_out" -> [k \in DOMAIN D |-> <<S[1], D[k]>>]
               [] OTHER -> [k \in DOMAIN S |-> <<S[k], D[1]>>]

\* The interface of a device by its place in the order of names, from 0.
Termination(tx, d, slot) ==
    LET names == NamesOf(tx.devices[d].ports)
    IN  {<<d, name>> : name \in {n \in names : Cardinality({m \in names : Less(m, n)}) = slot}}

\* One cable between one termination at each end; an interface has one cable.
\* What does not fit is passed over, and the stamp goes on.
StampCable(tx, c, pair) ==
    LET ends == Termination(tx, pair[1], c.sourceSlot) \X Termination(tx, pair[2], c.destSlot)
        Free(e) == \A cable \in tx.cables : {e[1], e[2]} \cap {cable.a, cable.b} = {}
    IN  [tx EXCEPT !.cables = @ \cup IF c.connectors = <<1, 1>> THEN {[a |-> e[1], b |-> e[2]] : e \in {x \in ends : Free(x)}} ELSE {}]

StampConnection(tx, c) == Chain(LAMBDA s, pair : StampCable(s, c, pair), tx, Pairs(tx, c))

-----------------------------------------------------------------------------
(* One stamp under a scope: 0 is the site, any other number a location *)

StampSpatialTemplate(world, t, scope, variables) ==
    LET tx == [places |-> world.places, racks |-> world.racks, devices |-> world.devices, cables |-> world.cables,
               under |-> <<>>, registry |-> {}, failed |-> FALSE]
        chosen == [v \in DOMAIN variables \cup DOMAIN t.defaults |->
                      IF v \in DOMAIN variables THEN variables[v] ELSE t.defaults[v]]
        tree == Chain(LAMBDA s, path : StampInstance(s, t, scope, path), tx, Visits(t, chosen))
    IN  Chain(StampConnection, tree, t.connections)
=============================================================================

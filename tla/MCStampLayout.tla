--------------------------- MODULE MCStampLayout ---------------------------
(* A site with a hall and two racks, one of them with a placement in feet   *)
(* and pinned on the site's canvas; a device with an interface that has the *)
(* name of a child; templates with planes, parents, and names that clash.   *)
EXTENDS StampLayout

UserSymmetry == Permutations(Users)

MCLetters == 2
MCMaxOperations == 3

Pattern(tag, tokens) == [tag |-> tag, tokens |-> tokens]
Port(p) == [name |-> <<p, 0, 0>>, parent |-> <<>>, plane |-> 0]
Spec(p, count, start, tokens) == [parent |-> <<p, 0, 0>>, count |-> count, start |-> start, tokens |-> tokens]
Slot(u, kind, tokens, ports, specs) ==
    [u |-> u, face |-> "front", kind |-> kind, pattern |-> Pattern(u, tokens), ports |-> ports, specs |-> specs]
Population(multiplier, planes, slots) == [multiplier |-> multiplier, fabricPlanes |-> planes, slots |-> slots]
Empty == Population(0, 0, <<>>)
Node(parent, kind, quantity, expr, pattern, position, population) ==
    [parent |-> parent, kind |-> kind, quantity |-> quantity, expr |-> expr, pattern |-> pattern, position |-> position,
     stride |-> 600, population |-> population, populated |-> population # Empty]
Connection(s, d, sslot, dslot, mode) ==
    [source |-> s, dest |-> d, sourceSlot |-> sslot, destSlot |-> dslot, mode |-> mode, connectors |-> <<1, 1>>]
Template(nodes, connections) == [nodes |-> nodes, connections |-> connections, defaults |-> [v \in {"n"} |-> 1]]

Server == Population(0, 2, <<Slot(1, "bare", {"parent"}, <<Port(1), Port(2)>>, <<Spec(1, 2, 1, {"parent", "plane"})>>)>>)
Leaf == Population(1, 2, <<Slot(2, "bare", {"parent"}, <<Port(1)>>, <<>>)>>)
Shuffle == Population(2, 0, <<Slot(3, "passive without type", {"index"}, <<>>, <<>>)>>)

Planes == Template(<<Node(0, "rack_position", 2, "", Pattern(21, {"index", "plane"}), 1001, Server),
                     Node(0, "rack_position", 2, "", Pattern(22, {"index"}), 3003, Leaf)>>,
                   <<Connection(1, 2, 1, 0, "one_to_one"), Connection(2, 1, 0, 0, "fan_in")>>)
Pods == Template(<<Node(0, "pod", 2, "n", Pattern(31, {"letter"}), 0, Empty),
                   Node(1, "rack_position", 1, "", Pattern(32, {"index"}), 1524, Empty)>>, <<>>)
Untyped == Template(<<Node(0, "rack_position", 1, "", Pattern(51, {}), 0, Shuffle)>>, <<>>)

Request(t, scope, n, sync, force) ==
    [template |-> t, scope |-> scope, variables |-> IF n = 0 THEN <<>> ELSE [v \in {"n"} |-> n], sync |-> sync, force |-> force]
MCStampRequests == {Request(Planes, 1, 0, TRUE, FALSE), Request(Pods, 0, 0, TRUE, FALSE),
                    Request(Pods, 0, 3, TRUE, FALSE), Request(Pods, 0, NotANumber, TRUE, TRUE),
                    Request(Untyped, 0, 0, TRUE, FALSE), Request(Planes, 0, 0, FALSE, FALSE)}

MCBreakoutRuns == {[devices |-> <<1, 2>>, specs |-> <<Spec(1, 2, 1, {"parent", "plane"}), Spec(2, 2, 1, {"parent", "n"})>>],
                   [devices |-> <<2, 1>>, specs |-> <<Spec(1, 2, 1, {"parent", "plane"}), Spec(2, 1, 5, {"parent", "n"})>>],
                   [devices |-> <<2>>, specs |-> <<Spec(1, 2, 3, {"parent", "plane"})>>]}
MCEdits == {[kind |-> "move", at |-> 4321], [kind |-> "pin", flag |-> "layout_manual_override"],
            [kind |-> "pin", flag |-> "manual_override"]}

Object(rack, at, manager, pins) == [rack |-> rack, id |-> "number", at |-> at, manager |-> manager, pins |-> pins]
Device(tag, rack, u, ports) == [name |-> <<tag, 0, 0, 0>>, rack |-> rack, u |-> u, face |-> "front", ports |-> ports]
Rack(tag, place, placed, at, unit) ==
    [name |-> <<tag, 0, 0, 0>>, place |-> place, placed |-> placed, at |-> at, unit |-> unit, frame |-> place, origin |-> <<0, 0, 0>>]
Site == [places |-> <<[name |-> <<1, 0, 0, 0>>, parent |-> 0]>>,
         racks |-> <<Rack(11, 1, TRUE, 1999, "feet"), Rack(12, 0, FALSE, 0, "meters")>>,
         devices |-> <<Device(13, 1, 1, <<Port(1), Port(2)>>),
                       Device(14, 1, 2, <<Port(1), [Port(1) EXCEPT !.name = <<2, 2, 0>>], Port(2)>>)>>,
         cables |-> {}]
Drawn == [s \in 0..1 |-> IF s = 0 THEN [exists |-> TRUE, objects |-> <<Object(1, 6093, "plant graph", {"manual_override"}),
                                                                        Object(2, 55, "plant graph", {}),
                                                                        Object(0, 0, "plant graph", {})>>]
                         ELSE [exists |-> FALSE, objects |-> <<>>]]
MCWorlds == {[world |-> Site, canvas |-> Drawn]}
=============================================================================

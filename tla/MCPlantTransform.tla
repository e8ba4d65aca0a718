-------------------------- MODULE MCPlantTransform --------------------------
(* Small plants: a host and a leaf, channelized or not, joined directly,    *)
(* through a shuffle module, or through two panels; each termination is on  *)
(* at most one cable, and has connector and positions on a cable that has   *)
(* them in NetBox.                                                          *)
EXTENDS LaneWorkspace, AssemblyTemplates

I(n) == [kind |-> "interface", pk |-> n]
F(n) == [kind |-> "front_port", pk |-> n]
R(n) == [kind |-> "rear_port", pk |-> n]
Child(n, parent, planes, speed) == [pk |-> n, name |-> n, parent |-> parent, planes |-> planes, speed |-> speed]
Ends(T) == [cable |-> NoCable, ends |-> T]
Via(c) == [cable |-> c, ends |-> {}]
NoMap == [x \in {} |-> x]
NoBreakout == BreakoutProfile("explicit", 0, NoMap)
\* The last field, for the plants below: the positions of its plugs.
Cable(profile, template, breakout) ==
    [profile |-> profile, assembly |-> AssemblyLookup(template), breakout |-> breakout,
     plugs |-> DOMAIN profile \cup StampedPositions(template)]
NoTemplate == Assembly({}, {})
Plain == Cable(NoMap, NoTemplate, NoBreakout)
Sequential(n) == BreakoutProfile("sequential", n, NoMap)

\* One plug with two positions on end A, two plugs with one on end B, and
\* one with two on end B.
Fan == [x \in {<<"A", 1, 1>>, <<"A", 1, 2>>, <<"B", 1, 1>>, <<"B", 2, 1>>} |->
          CASE x = <<"A", 1, 1>> -> <<1, 1>> [] x = <<"A", 1, 2>> -> <<2, 1>>
            [] x = <<"B", 1, 1>> -> <<1, 1>> [] x = <<"B", 2, 1>> -> <<1, 2>>]
Cross == [x \in {"A", "B"} \X {1} \X {1, 2} |-> <<1, 3 - x[3]>>]

PositionsOf(cable, end) == {x[3] : x \in {y \in cable.plugs : <<y[1], y[2]>> = <<end[2], end[3]>>}}
IsWired(cable) == cable.plugs # {}

\* A module or cable with one connector for n positions on side A and two on
\* side B, of which the second maps its position m; and the same connectors
\* mapped by a preset.
A1 == Connector("A", 1, 2)
B1 == Connector("B", 1, 1)
B2(m) == Connector("B", 2, m)
Module(m) == Assembly({A1, B1, B2(m)}, {AssemblyMapping(A1, 1, B1, 1), AssemblyMapping(A1, 2, B2(m), m)})
Trunk == Module(1)
Presets == {ApplyPreset(Trunk, preset) : preset \in {"straight", "reversed", "cross"}}
\* A panel that passes both positions of a connector through.
Passage == LET B == Connector("B", 1, 2)
           IN  Assembly({A1, B}, {AssemblyMapping(A1, n, B, n) : n \in 1..2})
ASSUME TemplatesAreValid == \A T \in Presets \cup {Module(1), Module(2), Passage} : IsAssembly(T)

\* What five edits of an empty template on the builder page make of it.
Connectors == {A1, B1, B2(1), Connector("B", 2, 2)}
EditsOf(T) ==
    {AddConnector(T, c) : c \in Connectors} \cup {RemoveConnector(T, c) : c \in T.connectors}
    \cup {ToggleMapping(T, p[1], p[2]) : p \in ConnectorsOn(T, "A") \X ConnectorsOn(T, "B")}
    \cup {ApplyPreset(T, preset) : preset \in {"straight", "reversed", "cross"}}
EditedTemplates ==
    LET after[n \in 0..5] == IF n = 0 THEN {Assembly({}, {})} ELSE UNION {EditsOf(T) : T \in after[n - 1]}
    IN  after[5]
ASSUME EditsKeepTemplatesValid == \A T \in EditedTemplates : IsAssembly(T)

\* The plant with these ends: a function from terminations to cable, end and
\* connector; terminations that are not in it have no cable.
Plant(terms, outer, cables, ends, positions, planes, kids, mappings, paths, lanesOn) ==
    [terms |-> terms, outer |-> outer,
     positions |-> [t \in terms \cup outer |-> IF t.kind = "rear_port" THEN positions ELSE 1],
     on |-> [t \in terms \cup outer |-> IF t \in DOMAIN ends THEN ends[t][1] ELSE NoCable],
     plug |-> [t \in DOMAIN ends |-> <<ends[t][2], ends[t][3]>>],
     wired |-> [t \in terms \cup outer |-> IF t \in DOMAIN ends THEN PositionsOf(cables[ends[t][1]], ends[t]) ELSE {}],
     planes |-> [t \in terms |-> IF t \in DOMAIN planes THEN planes[t] ELSE {}],
     children |-> kids, mappings |-> mappings, cables |-> cables, paths |-> paths, lanesOn |-> lanesOn]

NoPlanes == [t \in {} |-> {}]

\* I1 with children 101, 102 -- cable 1 -- F11, F12 | R21 -- cable 2 -- I2
\* with children 103, 104.  A cable with positions leads the path of I2
\* through the shuffle module, any other leaves it at R21.
Shuffle(cable1, cable2, kids, f11, fpos, lanesOn) ==
    LET F11 == F(f11)
        forth == <<Ends({I(1)}), Via(1), Ends({F11, F(12)}), Ends({R(21)}), Via(2), Ends({I(2)})>>
        back == <<Ends({I(2)}), Via(2), Ends({R(21)}), Ends({F11, F(12)}), Via(1), Ends({I(1)})>>
        terms == {I(1), I(2), F11, F(12), R(21)}
    IN  Plant(terms, {}, [c \in {1, 2} |-> IF c = 1 THEN cable1 ELSE cable2],
              [t \in terms |-> CASE t = I(1) -> <<1, "A", 1>> [] t = F11 -> <<1, "B", 1>> [] t = F(12) -> <<1, "B", 2>>
                                 [] t = R(21) -> <<2, "A", 1>> [] t = I(2) -> <<2, "B", 1>>],
              2, NoPlanes, kids, StampedMappings(Module(fpos), [c \in Module(fpos).connectors |-> IF c = A1 THEN R(21) ELSE IF c = B1 THEN F11 ELSE F(12)]),
              {forth, IF IsWired(cable2) THEN back ELSE SubSeq(back, 1, 3)}, lanesOn)

HostKids == {Child(101, 1, {1}, 100), Child(102, 1, {2}, 75)}
LeafKids == {Child(103, 2, {}, 125), Child(104, 2, {2}, 0)}
Single == Cable([x \in {"A", "B"} \X {1} \X {1} |-> <<1, 1>>], NoTemplate, NoBreakout)
Native == Cable(Fan, NoTemplate, NoBreakout)
Swapped == Cable(Cross, NoTemplate, NoBreakout)
Stamped == Cable(NoMap, Trunk, NoBreakout)
Plugin == Cable(NoMap, NoTemplate, Sequential(2))
Explicit == Cable(NoMap, NoTemplate, BreakoutProfile("explicit", 2, [i \in 1..2 |-> 2 - i]))
Short == Cable(NoMap, NoTemplate, BreakoutProfile("explicit", 3, [i \in {1, 3} |-> i - 1]))

Shuffles ==
    {Shuffle(c, Swapped, HostKids \cup LeafKids, 11, 1, TRUE) : c \in {Native, Stamped, Plain, Plugin}}
    \cup {Shuffle(c, c, HostKids \cup k, 11, 1, TRUE) :
            c \in {Plugin, Explicit, Plain}, k \in {{}, LeafKids, {Child(103, 2, {3}, 25)}}}
    \cup {Shuffle(Native, Swapped, HostKids, 11, 2, lanesOn) : lanesOn \in BOOLEAN}
    \cup {Shuffle(Native, Swapped, LeafKids, 11, 1, FALSE)}
Clashes ==
    {Shuffle(Native, Swapped, HostKids, 1, 1, TRUE),
     Shuffle(Plugin, Plugin, LeafKids \cup {Child(105, 21, {1}, 50)}, 11, 1, TRUE),
     Shuffle(Plugin, Plugin, {Child(105, 12, {3}, 50)}, 11, 1, TRUE)}

Panel(n, f, r) == [pk |-> n, front |-> f, fpos |-> 1, rear |-> r, rpos |-> 1]
\* I1 -- cable 1 -- F11 | R21 -- cable 2 -- R22 | F12 -- cable 3 -- I2, the
\* last cable only if it is patched.
Panels(n, patched, planes1, planes2) ==
    LET terms == {I(1), I(2), F(11), F(12), R(21), R(22)}
        forth == <<Ends({I(1)}), Via(1), Ends({F(11)}), Ends({R(21)}), Via(2), Ends({R(22)}), Ends({F(12)}),
                   Via(3), Ends({I(2)})>>
        back == <<Ends({I(2)}), Via(3), Ends({F(12)}), Ends({R(22)}), Via(2), Ends({R(21)}), Ends({F(11)}),
                  Via(1), Ends({I(1)})>>
    IN  Plant(terms, {}, [c \in 1..3 |-> Plain],
              [t \in terms \ (IF patched THEN {} ELSE {F(12), I(2)}) |->
                CASE t = I(1) -> <<1, "A", 1>> [] t = F(11) -> <<1, "B", 1>> [] t = R(21) -> <<2, "A", 1>>
                  [] t = R(22) -> <<2, "B", 1>> [] t = F(12) -> <<3, "A", 1>> [] t = I(2) -> <<3, "B", 1>>],
              n, [t \in {I(1), F(12)} |-> IF t = I(1) THEN planes1 ELSE planes2],
              {Child(101, 1, {3}, 50)}, {Panel(1, F(11), R(21)), Panel(2, F(12), R(22))},
              IF patched THEN {forth, back} ELSE {SubSeq(forth, 1, 7)}, TRUE)
Panelled == {Panels(1, p, a, b) : p \in BOOLEAN, a \in {{}, {1}}, b \in {{2}, {1, 2}}} \cup {Panels(2, TRUE, {1}, {})}

\* A cable from I1 to I2 and I3, of which some are out of scope.  A path
\* begins at a connector, or at all ends without one.
Direct(cable, outer, kids) ==
    LET all == {I(1), I(2), I(3)}
        Back(T) == <<Ends(T), Via(1), Ends({I(1)})>>
    IN  Plant(all \ outer, outer, [c \in {1} |-> cable],
              [t \in all |-> <<1, IF t.pk = 1 THEN "A" ELSE "B", IF t.pk = 3 THEN 2 ELSE 1>>],
              1, [t \in {I(3)} |-> {3}], kids, {},
              {<<Ends({I(1)}), Via(1), Ends({I(2), I(3)})>>}
                \cup {Back(T) : T \in IF IsWired(cable) THEN {{t} : t \in {I(2), I(3)} \ outer}
                                     ELSE {{I(2), I(3)}} \ (IF outer # {} THEN {{I(2), I(3)}} ELSE {})},
              TRUE)
OneKidEach == {Child(103, 2, {1}, 50), Child(105, 3, {}, 50)}
Directs == {Direct(c, {}, k) : c \in {Plugin, Explicit, Short, Plain}, k \in {HostKids, {}}}
            \cup {Direct(c, outer, HostKids \cup k) : c \in {Native, Stamped}, outer \in {{}, {I(3)}}, k \in {{}, OneKidEach}}
            \cup {Direct(Cable(NoMap, T, NoBreakout), {}, HostKids) : T \in Presets}
            \cup {Direct(Plugin, {I(2), I(3)}, HostKids)}

\* One cable between two interfaces.
Pair(cable, outer, kids) ==
    LET all == {I(1), I(2)}
        forth == <<Ends({I(1)}), Via(1), Ends({I(2)})>>
        back == <<Ends({I(2)}), Via(1), Ends({I(1)})>>
    IN  Plant(all \ outer, outer, [c \in {1} |-> cable],
              [t \in all |-> <<1, IF t.pk = 1 THEN "A" ELSE "B", 1>>], 1, NoPlanes, kids, {},
              IF outer = {} THEN {forth, back} ELSE {forth}, TRUE)
Pairs == {Pair(c, {}, HostKids \cup k) : c \in {Plain, Plugin, Swapped, Explicit}, k \in {{}, LeafKids, {Child(103, 2, {3}, 25)}}}
            \cup {Pair(c, {I(2)}, HostKids) : c \in {Plain, Plugin, Swapped}}
            \cup {Pair(Plain, {}, HostKids \cup {Child(103, 2, {3}, 100), Child(104, 2, {2}, 75)})}
            \cup {Pair(Single, {}, k) : k \in {{}, OneKidEach}}
            \cup {Pair(Swapped, {}, HostKids \cup LeafKids \cup {Child(106, 1, {}, 50)})}

\* Two cables, each in a plane, and perhaps a child interface nobody wired.
Twin(cable, planes2, kids) ==
    LET all == {I(n) : n \in 1..4}
        Side(n) == IF n % 2 = 1 THEN "A" ELSE "B"
    IN  Plant(all, {}, [c \in {1, 2} |-> cable], [t \in all |-> <<(t.pk + 1) \div 2, Side(t.pk), 1>>], 1,
              [t \in all |-> IF t.pk = 1 THEN {1} ELSE IF t.pk = 4 THEN planes2 ELSE {}], kids, {},
              {<<Ends({I(n)}), Via((n + 1) \div 2), Ends({I(IF n % 2 = 1 THEN n + 1 ELSE n - 1)})>> : n \in 1..4}, FALSE)
Twins == {Twin(c, {2}, {}) : c \in {Plain, Single}} \cup {Twin(Plain, {2}, {Child(101, 1, {1}, 100)})}

\* I1 -- cable 1 -- F11 | R21 -- cable 2 -- I2: a panel that passes its n
\* positions through.
Through(cable, n, kids, mappings, lanesOn) ==
    LET terms == {I(1), I(2), F(11), R(21)}
        forth == <<Ends({I(1)}), Via(1), Ends({F(11)}), Ends({R(21)}), Via(2), Ends({I(2)})>>
        back == <<Ends({I(2)}), Via(2), Ends({R(21)}), Ends({F(11)}), Via(1), Ends({I(1)})>>
    IN  Plant(terms, {}, [c \in {1, 2} |-> cable],
              [t \in terms |-> CASE t = I(1) -> <<1, "A", 1>> [] t = F(11) -> <<1, "B", 1>>
                                 [] t = R(21) -> <<2, "A", 1>> [] t = I(2) -> <<2, "B", 1>>],
              n, NoPlanes, kids, mappings, {forth, back}, lanesOn)
PassageOnly ==
    {Through(Swapped, 2, HostKids \cup LeafKids,
             StampedMappings(Passage, [c \in Passage.connectors |-> IF c = A1 THEN R(21) ELSE F(11)]), lanesOn) : lanesOn \in BOOLEAN}
\* A breakout profile with one child on both cables.
OneChild == {Through(Cable(NoMap, NoTemplate, Sequential(1)), 1, k, {Panel(1, F(11), R(21))}, TRUE) : k \in {{}, {Child(101, 1, {1}, 50)}}}

\* A cable with one end plugged in, a profile with one child over two
\* interfaces, and a port with the primary key of an interface with children.
Dangling(cable) ==
    Plant({I(1)}, {}, [c \in {1} |-> cable], [t \in {I(1)} |-> <<1, "A", 1>>], 1, NoPlanes, HostKids, {},
          {<<Ends({I(1)}), Via(1), Ends({})>>}, TRUE)
Overlooked == {Dangling(c) : c \in {Plain, Plugin, Swapped}}
                \cup {Direct(Cable(NoMap, NoTemplate, Sequential(1)), {}, HostKids), Shuffle(Plain, Plain, HostKids, 1, 1, TRUE)}

\* I1 -- cable 1 -- R21 | F11, F12: each position of the rear port is mapped.
Rear(cable, kids) ==
    LET terms == {I(1), R(21), F(11), F(12)}
    IN  Plant(terms, {}, [c \in {1} |-> cable],
              [t \in {I(1), R(21)} |-> IF t = I(1) THEN <<1, "A", 1>> ELSE <<1, "B", 1>>], 2, NoPlanes, kids,
              {[pk |-> n, front |-> F(10 + n), fpos |-> 1, rear |-> R(21), rpos |-> n] : n \in 1..2},
              {<<Ends({I(1)}), Via(1), Ends({R(21)}), Ends({F(11), F(12)})>>}
                \cup {<<Ends({F(10 + n)}), Ends({R(21)}), Via(1), Ends({I(1)})>> : n \in 1..2}, TRUE)
Rears == {Rear(c, HostKids) : c \in {Plain, Plugin, Explicit, Swapped}}

MCPlants == {p : p \in Shuffles \cup Clashes \cup Panelled \cup Directs \cup Pairs \cup Twins \cup PassageOnly \cup OneChild \cup Overlooked \cup Rears}
MCPlanes == 1..3
OwnPositions(t) == IF t.kind = "interface" THEN {0} ELSE {1, 2}
UnitsOf(t, children) == {[of |-> t, at |-> n] : n \in OwnPositions(t) \cup {c.pk : c \in {d \in children : d.parent = t.pk}}}
MCUnits == {u : u \in UNION {UNION {UnitsOf(t, p.children) : t \in p.terms} : p \in MCPlants}}
=============================================================================

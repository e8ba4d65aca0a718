-------------------------- MODULE AssemblyTemplates --------------------------
(***************************************************************************)
(* Templates of cable assemblies and passive modules: what the models      *)
(* accept, what the template builder page makes of a template, and what a  *)
(* cable or a module stamped from it hands to a graph build                *)
(* (models.py, views.py, services/assembly_stamp.py, and the lookup of     *)
(* services/sync/transformer.py).  A template has connectors [side,        *)
(* number, count] and mappings [a, apos, b, bpos] between positions of     *)
(* connectors.  Labels, types and part numbers are left out; a port of the *)
(* device type belongs to the connector whose label is its name.           *)
(***************************************************************************)
EXTENDS Naturals, FiniteSets

Connector(side, number, count) == [side |-> side, number |-> number, count |-> count]
AssemblyMapping(a, i, b, j) == [a |-> a, apos |-> i, b |-> b, bpos |-> j]
Assembly(connectors, mappings) == [connectors |-> connectors, mappings |-> mappings]

ConnectorsOn(T, side) == {c \in T.connectors : c.side = side}
IsAssembly(T) ==
    /\ \A c, d \in T.connectors : c.side = d.side /\ c.number = d.number => c = d
    /\ \A c \in T.connectors : c.count >= 1
    /\ \A m \in T.mappings : /\ m.a \in ConnectorsOn(T, "A") /\ m.apos <= m.a.count
                             /\ m.b \in ConnectorsOn(T, "B") /\ m.bpos <= m.b.count
    /\ \A m, n \in T.mappings : \/ m = n
                                \/ /\ <<m.a, m.apos>> # <<n.a, n.apos>>
                                   /\ <<m.b, m.bpos>> # <<n.b, n.bpos>>

-----------------------------------------------------------------------------
(* The builder page.  It maps first positions only, and a request that the  *)
(* database refuses leaves the template as it was.                          *)

AddConnector(T, c) ==
    IF \E d \in T.connectors : d.side = c.side /\ d.number = c.number THEN T
    ELSE [T EXCEPT !.connectors = @ \cup {c}]
RemoveConnector(T, c) ==
    Assembly(T.connectors \ {c}, {m \in T.mappings : c \notin {m.a, m.b}})
ToggleMapping(T, a, b) ==
    LET existing == {m \in T.mappings : m.a = a /\ m.b = b}
        taken == \E m \in T.mappings : <<m.a, m.apos>> = <<a, 1>> \/ <<m.b, m.bpos>> = <<b, 1>>
    IN  IF existing # {} THEN [T EXCEPT !.mappings = @ \ existing]
        ELSE IF taken THEN T ELSE [T EXCEPT !.mappings = @ \cup {AssemblyMapping(a, 1, b, 1)}]

\* The index of a connector on its side, from 0, and the connector that a
\* preset gives it: the cross takes every second one, from the last.
IndexOf(T, c) == Cardinality({d \in ConnectorsOn(T, c.side) : d.number < c.number})
IsPaired(T, preset, a, b) ==
    LET i == IndexOf(T, a)  j == IndexOf(T, b)  last == Cardinality(ConnectorsOn(T, "B")) - 1
    IN  CASE preset = "straight" -> j = i
          [] preset = "reversed" -> j + i = last
          [] preset = "cross" -> j + 2 * i = last
ApplyPreset(T, preset) ==
    [T EXCEPT !.mappings =
        {AssemblyMapping(a, 1, b, 1) : <<a, b>> \in
            {p \in ConnectorsOn(T, "A") \X ConnectorsOn(T, "B") : IsPaired(T, preset, p[1], p[2])}}]

-----------------------------------------------------------------------------
(* Stamped objects *)

\* The positions of the terminations of a stamped cable, mapped or not.
StampedPositions(T) == UNION {{<<c.side, c.number, n>> : n \in 1..c.count} : c \in T.connectors}

\* _build_assembly_mapping_lookup, for a cable stamped from the template.
AssemblyLookup(T) ==
    LET pairs == {<<<<"A", m.a.number, m.apos>>, <<m.b.number, m.bpos>>>> : m \in T.mappings}
                    \cup {<<<<"B", m.b.number, m.bpos>>, <<m.a.number, m.apos>>>> : m \in T.mappings}
    IN  [x \in {p[1] : p \in pairs} |-> (CHOOSE p \in pairs : p[1] = x)[2]]

\* The port mappings of a stamped module, whose ports are given for those
\* connectors that have one; they are created by connector and position.
StampedMappings(T, port) ==
    LET Before(m, n) == m.a.number < n.a.number \/ (m.a.number = n.a.number /\ m.apos <= n.apos)
    IN  {[pk |-> Cardinality({n \in T.mappings : Before(n, m)}),
          front |-> port[m.b], fpos |-> m.bpos, rear |-> port[m.a], rpos |-> m.apos] :
            m \in {n \in T.mappings : {n.a, n.b} \subseteq DOMAIN port}}
=============================================================================

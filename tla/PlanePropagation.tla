-------------------------- MODULE PlanePropagation --------------------------
(***************************************************************************)
(* How a graph build spreads fabric planes over attachment units           *)
(* (_propagate_plane_memberships, services/sync/transformer.py): walk each *)
(* connected component of cables and passive mappings once, collect the    *)
(* planes its units were given in NetBox, and give every unit all of them. *)
(* The order of the walk is that of Python sets and dictionaries: any.     *)
(***************************************************************************)
EXTENDS Naturals, FiniteSets

CONSTANTS Units,    \* the keys of attachment units
          Planes    \* the plane numbers

VARIABLES
    links,      \* the adjacency: pairs of units that an edge or a transfer map joins
    members,    \* the role in which a unit is a member of a plane
    seeded,     \* the planes each unit was given before the walk
    seen,       \* units that were put into the queue
    component,  \* units of the current component that left the queue
    queue,      \* units to visit
    stage       \* where the function is

propagation == <<links, members, seeded, seen, component, queue, stage>>

Roles == {"none", "native", "transit"}

Neighbors(u) == {v \in Units : <<u, v>> \in links \/ <<v, u>> \in links}
Linked == {u \in Units : Neighbors(u) # {}}
Starts == Linked \cup {u \in Units : seeded[u] # {}}

PropagationTypeOK ==
    /\ links \subseteq Units \X Units
    /\ members \in [Units \X Planes -> Roles]
    /\ seeded \in [Units -> SUBSET Planes]
    /\ seen \subseteq Units
    /\ component \subseteq Units
    /\ queue \subseteq Units
    /\ stage \in {"idle", "walk", "propagated"}

PropagationInit ==
    /\ links \in SUBSET (Units \X Units)
    /\ seeded \in [Units -> SUBSET Planes]
    /\ members = [m \in Units \X Planes |-> IF m[2] \in seeded[m[1]] THEN "native" ELSE "none"]
    /\ seen = {}
    /\ component = {}
    /\ queue = {}
    /\ stage = "idle"

StartComponent(u) ==
    /\ stage = "idle"
    /\ u \in Starts \ seen
    /\ component' = {}
    /\ queue' = {u}
    /\ seen' = seen \cup {u}
    /\ stage' = "walk"
    /\ UNCHANGED <<links, members, seeded>>

Visit(u) ==
    /\ stage = "walk"
    /\ u \in queue
    /\ component' = component \cup {u}
    /\ queue' = (queue \ {u}) \cup (Neighbors(u) \ seen)
    /\ seen' = seen \cup Neighbors(u)
    /\ UNCHANGED <<links, members, seeded, stage>>

\* The planes of a component, and what is written for one of its units:
\* setdefault, which leaves a native membership as it is.
ComponentPlanes == UNION {seeded[u] : u \in component}
\* Mutant: assignment in place of setdefault.
SpreadOverwriting(planes, u, p) ==
    IF u \in component /\ p \in planes THEN "transit" ELSE members[u, p]
SpreadOver(planes, u, p) ==
    IF u \in component /\ p \in planes /\ members[u, p] = "none"
    THEN "transit" ELSE members[u, p]

SpreadPlanes ==
    /\ stage = "walk"
    /\ queue = {}
    /\ LET planes == ComponentPlanes
       IN  members' = [m \in Units \X Planes |-> SpreadOver(planes, m[1], m[2])]
    /\ stage' = "idle"
    /\ UNCHANGED <<links, seeded, seen, component, queue>>

FinishPropagation ==
    /\ stage = "idle"
    /\ Starts \subseteq seen
    /\ stage' = "propagated"
    /\ UNCHANGED <<links, members, seeded, seen, component, queue>>

PropagationNext ==
    \/ \E u \in Units : StartComponent(u) \/ Visit(u)
    \/ SpreadPlanes
    \/ FinishPropagation

PropagationSpec == PropagationInit /\ [][PropagationNext]_propagation

-----------------------------------------------------------------------------
(* Connected: in every set of units that contains one and is closed under   *)
(* links.                                                                    *)
Closed(S) == \A l \in links : l[1] \in S <=> l[2] \in S
ClosedSets == {S \in SUBSET Linked : Closed(S)}
ConnectedIn(sets, u, v) == u = v \/ (Neighbors(u) # {} /\ \A S \in sets : u \in S => v \in S)

(* When the walk is over, a unit is a member of exactly the planes that     *)
(* some unit connected with it was given in NetBox, natively of its own and *)
(* in transit of the others, whatever order the walk took                   *)
(* (transformer.py:199-247).                                                *)
PropagationExact ==
    stage = "propagated" =>
        LET sets == ClosedSets
        IN  \A u \in Units, p \in Planes :
                members[u, p] = IF p \in seeded[u] THEN "native"
                                ELSE IF \E v \in Units : p \in seeded[v] /\ ConnectedIn(sets, u, v)
                                     THEN "transit" ELSE "none"

=============================================================================

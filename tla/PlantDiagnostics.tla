-------------------------- MODULE PlantDiagnostics --------------------------
(***************************************************************************)
(* What is said of a plant that could not be derived in full: the findings *)
(* of run_plane_audit (services/graph/audits.py) but for those of the      *)
(* disjointness policy, which PolicyReview has, and the candidates of      *)
(* unresolved summaries (unresolved_candidates.py).  Both look at the      *)
(* cables in NetBox a second time, after the build, by rules of their own. *)
(* A finding is about a reference [kind, pk] or about a unit; "at" is a    *)
(* position, or 0.                                                         *)
(***************************************************************************)
EXTENDS PlantTransform

ASSUME PlanesAreFinite == IsFiniteSet(Planes)

CableRef(c) == [kind |-> "cable", pk |-> c]
PlaneRef(p) == [kind |-> "plane", pk |-> p]
Finding(type, about, n) == [type |-> type, about |-> about, at |-> n]

OnCable(c) == {t \in plant.terms \cup plant.outer : plant.on[t] = c}
Sides(c) == {plant.plug[t][1] : t \in OnCable(c)}
Peers(t) == {s \in OnCable(plant.on[t]) : plant.plug[s][1] # plant.plug[t][1]}
RelevantCables == {c \in DOMAIN plant.cables : OnCable(c) \cap plant.terms # {}}

HasNativeProfile(c) == DOMAIN plant.cables[c].profile # {}
HasProfile(c) == HasNativeProfile(c) \/ plant.cables[c].breakout.count # 0

\* What the profile of the cable of a termination lets one expect of it.
ExpectedPositions(t) == RawPositions(plant.cables[plant.on[t]].breakout, t)

\* Mutant: only positions are counted, not terminations.
RequiresByPositions(c) ==
    ~HasProfile(c) /\ \E t \in OnCable(c) : Cardinality(ExpectedPositions(t)) # 1
\* Neither the assembly template of the cable nor what was derived counts.
RequiresExplicitProfile(c) ==
    /\ ~HasProfile(c)
    /\ \/ Cardinality(Sides(c)) # 2
       \/ \E t \in OnCable(c) : Cardinality(Peers(t)) # 1
       \/ \E t \in OnCable(c) : Cardinality(ExpectedPositions(t)) # 1

-----------------------------------------------------------------------------
(* Profile mappings *)

Reasons == {"profile_returned_none", "missing_peer_position"}

NativeTarget(t, n) == plant.cables[plant.on[t]].profile[plant.plug[t] \o <<n>>]
NativeVerdict(t, n) ==
    IF plant.plug[t] \o <<n>> \notin DOMAIN plant.cables[plant.on[t]].profile THEN "profile_returned_none"
    ELSE IF \E s \in Peers(t) : \E m \in PathPositions(s) : NativeTarget(t, n) = <<plant.plug[s][2], m>>
         THEN "matched" ELSE "missing_peer_position"

\* One peer is asked for its positions if it has any, several are counted.
BreakoutVerdict(b, t, n) ==
    IF ~Mapped(b, n) THEN "profile_returned_none"
    ELSE IF \/ /\ Cardinality(Peers(t)) = 1
               /\ \A s \in Peers(t) : PathPositions(s) = {0} \/ OrdinalOf(b, n) + 1 \in PathPositions(s)
            \/ Cardinality(Peers(t)) # 1 /\ OrdinalOf(b, n) < Cardinality(Peers(t))
         THEN "matched" ELSE "missing_peer_position"

\* _profile_mapping_diagnostics: a verdict on every position at both ends.
Verdicts(c) ==
    LET b == plant.cables[c].breakout
    IN  IF ~HasProfile(c) \/ Cardinality(Sides(c)) # 2 THEN {}
        ELSE IF HasNativeProfile(c)
        THEN UNION {{[term |-> t, at |-> n, verdict |-> NativeVerdict(t, n)] : n \in PathPositions(t)} : t \in OnCable(c)}
        ELSE UNION {{[term |-> t, at |-> n, verdict |-> BreakoutVerdict(b, t, n)] : n \in RawPositions(b, t)} : t \in OnCable(c)}
Unresolved(c) == {v \in Verdicts(c) : v.verdict \in Reasons}
Matched(c) == Verdicts(c) \ Unresolved(c)

-----------------------------------------------------------------------------
(* The findings of an audit *)

PlanesOf(u) == {p \in Planes : members[u, p] # "none"}
UnitFindings ==
    {Finding("missing_plane_membership", u, 0) : u \in {v \in graph.units : PlanesOf(v) = {}}}
    \cup {Finding("multi_plane_attachment", u, 0) : u \in {v \in graph.units : Cardinality(PlanesOf(v)) > 1}}
PlaneFindings ==
    {Finding("plane_underpopulated", PlaneRef(p), 0) : p \in {q \in graph.planes : \A u \in graph.units : q \notin PlanesOf(u)}}

Connected == (UNION {e.ends : e \in edges}) \cup UNION {{t.src, t.dst} : t \in transfers}
\* Mutant: a unit counts as connected with the termination it is a part of.
OrphanedTerminations == {u \in graph.units \cap ChildUnits : \A v \in Connected : v.of # u.of}
Orphaned == (graph.units \cap ChildUnits) \ Connected
OrphanFindings == {Finding("orphaned_attachment_unit", u, 0) : u \in Orphaned}

ProfileFindings(c) ==
    IF Unresolved(c) = {} THEN {}
    ELSE {Finding(IF Matched(c) # {} THEN "partial_profile_mapping" ELSE "unresolved_profile_mapping", CableRef(c), 0)}

\* Cabled positions of a port without a mapping.
UnmappedPositions(c) ==
    {q \in PlacesOf(OnCable(c)) :
        \/ q[1].kind = "front_port" /\ \A m \in plant.mappings : <<m.front, m.fpos>> # q
        \/ q[1].kind = "rear_port" /\ \A m \in plant.mappings : <<m.rear, m.rpos>> # q}
PortFindings(c) == {Finding("missing_port_mapping", q[1], q[2]) : q \in UnmappedPositions(c)}

\* Interfaces whose cable gives them several positions but which have fewer
\* child interfaces; those beyond the scope have none here.
Channelized(c) == {t \in OnCable(c) : t.kind = "interface" /\ Cardinality(ExpectedPositions(t)) > 1}
ChildFindings(c) ==
    {Finding(IF ChildrenOf(t) = {} THEN "missing_child_interface" ELSE "incomplete_child_interface_set", t, 0) :
        t \in {s \in Channelized(c) : Cardinality(ChildrenOf(s)) < Cardinality(ExpectedPositions(s))}}

CableFindings(c) ==
    ProfileFindings(c) \cup PortFindings(c)
    \cup IF RequiresExplicitProfile(c) THEN {Finding("missing_cable_profile", CableRef(c), 0)} ELSE ChildFindings(c)

DerivationFindings == OrphanFindings \cup UNION {CableFindings(c) : c \in RelevantCables}
Findings == UnitFindings \cup PlaneFindings \cup DerivationFindings

-----------------------------------------------------------------------------
(* compute_fabric_health *)

Errors == {"multi_plane_attachment", "unresolved_profile_mapping", "missing_port_mapping", "missing_child_interface",
           "incomplete_child_interface_set", "missing_cable_profile"}
StatusOf(found) == IF \E f \in found : f.type \in Errors THEN "error" ELSE IF found # {} THEN "warning" ELSE "healthy"
\* Only findings about the plane itself count for it: the planes of a unit
\* in several of them are recorded under another name.
PlaneHealth(p) == StatusOf({f \in Findings : f.about = PlaneRef(p)})
FabricHealth == StatusOf(Findings)

-----------------------------------------------------------------------------
(* Candidates of unresolved summaries *)

Candidate(cause, scope, positions) == [cause |-> cause, scope |-> scope, positions |-> positions]

\* A child interface in one plane is taken to be at the position of that
\* number, any other at its ordinal.
ChildPosition(c) == IF Cardinality(c.planes) = 1 THEN CHOOSE p \in c.planes : TRUE ELSE ChildOrdinal(c)
KnownPositions(t) == {ChildPosition(c) : c \in ChildrenOf(t)}
MissingPositions(t) == (1..Cardinality(ExpectedPositions(t))) \ KnownPositions(t)

ProfileTarget(c, v) ==
    IF v.verdict # "missing_peer_position" THEN <<>>
    ELSE IF HasNativeProfile(c) THEN NativeTarget(v.term, v.at)
    ELSE <<OrdinalOf(plant.cables[c].breakout, v.at) + 1>>
ProfileCandidates(c) ==
    LET Alike(v, w) == /\ plant.plug[v.term][1] = plant.plug[w.term][1]
                       /\ v.verdict = w.verdict
                       /\ ProfileTarget(c, v) = ProfileTarget(c, w)
    IN  {Candidate(v.verdict, CableRef(c), {<<w.term, w.at>> : w \in {x \in Unresolved(c) : Alike(v, x)}}) :
            v \in Unresolved(c)}
PortCandidates(c) == {Candidate("missing_port_mapping", q[1], {q}) : q \in UnmappedPositions(c)}
ChildCandidates(c) ==
    {Candidate(IF ChildrenOf(t) = {} THEN "missing_child_interface" ELSE "incomplete_child_interface_set", t,
               {<<t, n>> : n \in MissingPositions(t)}) :
        t \in {s \in Channelized(c) : Cardinality(ChildrenOf(s)) < Cardinality(ExpectedPositions(s))}}
CableCandidates(c) ==
    ProfileCandidates(c) \cup PortCandidates(c)
    \cup IF RequiresExplicitProfile(c) THEN {Candidate("missing_cable_profile", CableRef(c), {})} ELSE ChildCandidates(c)
OrphanCandidates == {Candidate("orphaned_attachment_unit", u, {}) : u \in Orphaned}
Candidates == OrphanCandidates \cup UNION {CableCandidates(c) : c \in RelevantCables}

-----------------------------------------------------------------------------
\* A path leads from one termination over its cable to the other.
LeadsTo(t, s) == \E path \in plant.paths : \E i \in 2..(Len(path) - 1) :
                    path[i].cable = plant.on[t] /\ t \in path[i - 1].ends /\ s \in path[i + 1].ends
\* The breakout profile of the plugin decides what positions lead to.
PlacedByBreakout(c) == ~HasNativeProfile(c) /\ plant.cables[c].breakout.count # 0
\* The cable stays within the scope, and paths lead over it from the
\* termination to each of its peers; or back, but a breakout profile is read
\* from one side only.
Walked(t) == /\ OnCable(plant.on[t]) \subseteq plant.terms /\ Peers(t) # {}
             /\ \A s \in Peers(t) : LeadsTo(t, s) \/ (~PlacedByBreakout(plant.on[t]) /\ LeadsTo(s, t))
\* A position is derived when a segment over the cable ends at its unit.
Derived(t, n) == \E e \in edges : /\ e.kind = "derived_cable_segment" /\ e.via = plant.on[t]
                                  /\ UnitAt(t, n) \in e.ends
Concerns(c) == {CableRef(c)} \cup OnCable(c) \cup {u \in graph.units : u.of \in OnCable(c)}
IsNamed(c) == /\ \E f \in DerivationFindings : f.about \in Concerns(c)
              /\ \E k \in Candidates : k.scope \in Concerns(c)

\* An interface without child interfaces at a plug with one position.
LonePosition(t) == t.kind = "interface" /\ Cardinality(plant.wired[t]) = 1 /\ ChildrenOf(t) = {}
\* Where the code does overlook positions: at a lone position, at a port that
\* is taken for the parent of child interfaces, and on a cable with a breakout
\* profile that has one child, or leads beyond its children, or competes with
\* an assembly template.
MayOverlook(c) ==
    LET b == plant.cables[c].breakout
    IN  \/ \E t \in OnCable(c) : LonePosition(t) \/ (t.kind # "interface" /\ ChildrenOf(t) # {})
        \/ /\ PlacedByBreakout(c)
           /\ \/ b.count = 1
              \/ \E n \in DOMAIN b.map : b.map[n] \notin 0..(b.count - 1)
              \/ DOMAIN plant.cables[c].assembly # {}

\* netbox_plant_graph_plugin_design.md:1553, "No silent ambiguity": the graph
\* has a segment from every position that the cable of a walked termination
\* gives it, or the audit and the candidates for the summaries, which look
\* for themselves, both name the cable or one of its ends.
NothingLostSilently ==
    stage = "built" =>
        \A t \in {s \in plant.terms : plant.on[s] # NoCable} :
            Walked(t) => \/ \A n \in ExpectedPositions(t) : Derived(t, n)
                         \/ IsNamed(plant.on[t])
                         \/ MayOverlook(plant.on[t])

\* A fabric that is reported healthy (leaving its disjointness policy aside)
\* is complete: every unit is in one plane, every plane has members and is
\* reported healthy, every child interface leads somewhere, and every cable
\* position that is not overlooked has its segment.
HealthyIsComplete ==
    stage = "built" /\ FabricHealth = "healthy" =>
        /\ \A u \in graph.units : Cardinality(PlanesOf(u)) = 1
        /\ \A p \in graph.planes : PlaneHealth(p) = "healthy" /\ \E u \in graph.units : p \in PlanesOf(u)
        /\ \A u \in graph.units \cap ChildUnits : \E l \in links : u \in {l[1], l[2]}
        /\ \A t \in {s \in plant.terms : plant.on[s] # NoCable} :
              Walked(t) /\ ~MayOverlook(plant.on[t]) => \A n \in ExpectedPositions(t) : Derived(t, n)
=============================================================================

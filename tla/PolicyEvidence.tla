--------------------------- MODULE PolicyEvidence ---------------------------
(***************************************************************************)
(* What a graph says against the separation of its planes, and which       *)
(* exceptions cover it: services/graph/policy_rules.py, contamination.py   *)
(* and the matching of policy_exceptions.py.  Graph objects are references *)
(* [model, build, id]: each rebuild of the graph makes new ones, and new   *)
(* planes [build, number].  Everything follows from three reads: the       *)
(* attachment units U, the planes P of each and the fine edges E, records  *)
(* [edge, a, b, parent] of references.                                     *)
(***************************************************************************)
EXTENDS Naturals, FiniteSetsExt, SequencesExt

CONSTANTS
    NodeOf,     \* number of the plant node of each unit
    Passive,    \* numbers of the plant nodes of a passive type
    MaxTargets, \* representative targets of a domain, 6 in the code
    NoTarget    \* an exception without a target

Ref(model, b, i) == [model |-> model, build |-> b, id |-> i]
Models == <<"attachmentunit", "coarseedge", "fineedge", "plantnode">>
Rank(r) == CHOOSE i \in DOMAIN Models : Models[i] = r.model
Before(r, s) ==
    \/ Rank(r) < Rank(s)
    \/ Rank(r) = Rank(s) /\ (r.build < s.build \/ (r.build = s.build /\ r.id < s.id))
FirstOf(S, n) == {r \in S : Cardinality({q \in S : Before(q, r)}) < n}

PlanesOf(P, u) == IF u \in DOMAIN P THEN P[u] ELSE {}
PairsOf(S) == {pair \in SUBSET S : Cardinality(pair) = 2}
NodeRef(u) == Ref("plantnode", u.build, NodeOf[u.id])

-----------------------------------------------------------------------------
(* The two rules.  A passive node whose units carry several planes is       *)
(* shared by them; an edge whose ends have planes, but none in common,      *)
(* bridges all of these planes.                                             *)

Share(node, U, P) ==
    LET units == {u \in U : NodeRef(u) = node}
    IN  [rule |-> "shared_passive_artifact", object |-> node,
         pairs |-> PairsOf(UNION {PlanesOf(P, u) : u \in units}),
         units |-> units, artifacts |-> {node}, targets |-> {node} \cup FirstOf(units, 2)]
Shares(U, P) ==
    {s \in {Share(NodeRef(u), U, P) : u \in {v \in U : NodeOf[v.id] \in Passive}} : s.pairs # {}}

Bridge(e, P) ==
    [rule |-> "cross_plane_fine_edge", object |-> e.edge,
     pairs |-> PairsOf(PlanesOf(P, e.a) \cup PlanesOf(P, e.b)),
     units |-> {e.a, e.b}, artifacts |-> {e.parent}, targets |-> {e.edge, e.a, e.b, e.parent}]
Bridges(E, P) ==
    {Bridge(e, P) : e \in {f \in E : /\ PlanesOf(P, f.a) # {} /\ PlanesOf(P, f.b) # {}
                                     /\ PlanesOf(P, f.a) \cap PlanesOf(P, f.b) = {}}}

-----------------------------------------------------------------------------
(* Contamination domains: evidence that shares a pair of planes and a unit  *)
(* or an artifact is joined by union-find, shares first and bridges last.   *)

Connected(l, r) ==
    /\ l.pairs \cap r.pairs # {}
    /\ l.units \cap r.units # {} \/ l.artifacts \cap r.artifacts # {}

InOrder(S) == [i \in 1..Cardinality(S) |-> CHOOSE e \in S : Cardinality({d \in S : Before(d.object, e.object)}) = i - 1]
Sorted(evidence) ==
    LET Of(rule) == InOrder({e \in evidence : e.rule = rule})
    IN  Of("shared_passive_artifact") \o Of("cross_plane_fine_edge")

Root(parents, i) ==
    LET up[k \in 0..Len(parents)] == IF k = 0 THEN i ELSE parents[up[k - 1]]
    IN  up[Len(parents)]
\* Mutant: the item is put under the other's root, not its root.
JoinItem(parents, l, r) == [parents EXCEPT ![r] = Root(parents, l)]
Join(parents, l, r) ==
    IF Root(parents, l) = Root(parents, r) THEN parents
    ELSE [parents EXCEPT ![Root(parents, r)] = Root(parents, l)]

JoinRow(items, before, l) ==
    LET row[r \in 0..Len(items)] ==
            IF r = 0 THEN before
            ELSE IF l < r /\ Connected(items[l], items[r]) THEN Join(row[r - 1], l, r) ELSE row[r - 1]
    IN  row[Len(items)]
JoinAll(items) ==
    LET rows[l \in 0..Len(items)] ==
            IF l = 0 THEN [i \in DOMAIN items |-> i] ELSE JoinRow(items, rows[l - 1], l)
    IN  rows[Len(items)]

Domains(evidence) ==
    LET items == Sorted(evidence)
        parents == JoinAll(items)
        roots == [i \in DOMAIN items |-> Root(parents, i)]
    IN  {{items[i] : i \in {j \in DOMAIN items : roots[j] = root}} : root \in Range(roots)}

PairsIn(d) == UNION {e.pairs : e \in d}
ArtifactsIn(d) == UNION {e.artifacts : e \in d}
BridgesIn(d) == {e.object : e \in {f \in d : f.rule = "cross_plane_fine_edge"}}
Representatives(d) == FirstOf(UNION {e.targets : e \in d}, MaxTargets)

-----------------------------------------------------------------------------
(* Exceptions: [type, pair, target] and what PolicyReview adds to it *)

\* Mutant: an edge is looked for among the artifacts.
MatchesArtifact(x, d) ==
    x.pair # {} /\ x.pair \in PairsIn(d) /\ x.target # NoTarget /\ x.target \in ArtifactsIn(d)
MatchesDomain(x, d) ==
    /\ x.pair # {} /\ x.pair \in PairsIn(d)
    /\ x.target # NoTarget
    /\ \/ x.type = "shared_passive_artifact" /\ x.target \in ArtifactsIn(d)
       \/ x.type = "cross_plane_fine_edge" /\ x.target \in BridgesIn(d)
       \/ /\ x.type = "contamination_domain"
          /\ x.target \in ArtifactsIn(d) \cup BridgesIn(d) \cup Representatives(d)

Covers(x, e, d) ==
    /\ x.pair # {} /\ x.pair \in e.pairs
    /\ x.target # NoTarget
    /\ \/ x.type = e.rule /\ x.target = e.object
       \/ x.type = "contamination_domain" /\ MatchesDomain(x, d)

\* No domain of the evaluation accounts for the exception.
Drifted(X, domains) == {x \in X : \A d \in domains : ~MatchesDomain(x, d)}
=============================================================================

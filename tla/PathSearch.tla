----------------------------- MODULE PathSearch -----------------------------
(***************************************************************************)
(* The breadth-first searches of services/graph: resolve_path stops at the *)
(* first destination it meets and goes no further than max_depth;          *)
(* compute_blast_radius has neither, build_representative_typed_lane_path  *)
(* has no destination, and traversal.breadth_first_walk is the same loop   *)
(* over a function.  Neighbours come in the order of rows: any.            *)
(***************************************************************************)
EXTENDS Naturals, Sequences

CONSTANTS Nodes,    \* attachment units or signal lanes, by primary key
          Depths    \* the values of max_depth; no walk is as long as the largest

ASSUME DepthsAreNatural == Depths \subseteq Nat

VARIABLES
    adjacency,      \* the neighbours of each node
    sources, destinations, limit,
    queue,          \* nodes to visit, first in, first out
    distance,       \* the depth at which each node was reached
    parent,         \* the node it was reached from
    mode            \* "off", "searching", "found" or "exhausted"

search == <<adjacency, sources, destinations, limit, queue, distance, parent, mode>>

Reached == DOMAIN distance
Elements(q) == {q[i] : i \in DOMAIN q}
Put(f, v, x) == [u \in DOMAIN f \cup {v} |-> IF u = v THEN x ELSE f[u]]

SearchTypeOK ==
    /\ adjacency \in [Nodes -> SUBSET Nodes]
    /\ sources \subseteq Nodes
    /\ destinations \subseteq Nodes
    /\ limit \in Depths
    /\ queue \in Seq(Nodes)
    /\ Reached \subseteq Nodes
    /\ \A u \in Reached : distance[u] \in Nat
    /\ DOMAIN parent = Reached \ sources
    /\ \A u \in DOMAIN parent : parent[u] \in Nodes
    /\ mode \in {"off", "searching", "found", "exhausted"}

SearchInit ==
    /\ adjacency \in [Nodes -> SUBSET Nodes]
    /\ sources \in SUBSET Nodes
    /\ destinations \in SUBSET Nodes
    /\ limit \in Depths
    /\ queue = <<>>
    /\ distance = [u \in {} |-> 0]
    /\ parent = [u \in {} |-> u]
    /\ mode = "off"

Enqueue(q) ==
    /\ mode = "off"
    /\ sources \subseteq Elements(q)
    /\ Elements(q) \subseteq sources
    /\ queue' = q
    /\ distance' = [u \in sources |-> 0]
    /\ parent' = [u \in {} |-> u]
    /\ mode' = "searching"
    /\ UNCHANGED <<adjacency, sources, destinations, limit>>

Unseen(u) == adjacency[u] \ Reached

\* The head of the queue is a destination.
Arrive ==
    /\ mode = "searching"
    /\ queue # <<>>
    /\ Head(queue) \in destinations
    /\ mode' = "found"
    /\ UNCHANGED <<adjacency, sources, destinations, limit, queue, distance, parent>>

\* Mutant: the queue is a stack.
ExpandFirst(v) ==
    /\ mode = "searching"
    /\ queue # <<>>
    /\ Head(queue) \notin destinations
    /\ distance[Head(queue)] < limit
    /\ v \in Unseen(Head(queue))
    /\ queue' = <<v>> \o queue
    /\ distance' = Put(distance, v, distance[Head(queue)] + 1)
    /\ parent' = Put(parent, v, Head(queue))
    /\ UNCHANGED <<adjacency, sources, destinations, limit, mode>>

\* Its neighbours are put into the queue, those that were not seen before.
Expand(v) ==
    /\ mode = "searching"
    /\ queue # <<>>
    /\ Head(queue) \notin destinations
    /\ distance[Head(queue)] < limit
    /\ v \in Unseen(Head(queue))
    /\ queue' = Append(queue, v)
    /\ distance' = Put(distance, v, distance[Head(queue)] + 1)
    /\ parent' = Put(parent, v, Head(queue))
    /\ UNCHANGED <<adjacency, sources, destinations, limit, mode>>

Leave ==
    /\ mode = "searching"
    /\ queue # <<>>
    /\ Head(queue) \notin destinations
    /\ distance[Head(queue)] < limit => Unseen(Head(queue)) = {}
    /\ queue' = Tail(queue)
    /\ UNCHANGED <<adjacency, sources, destinations, limit, distance, parent, mode>>

Exhaust ==
    /\ mode = "searching"
    /\ queue = <<>>
    /\ mode' = "exhausted"
    /\ UNCHANGED <<adjacency, sources, destinations, limit, queue, distance, parent>>

SearchNext == Arrive \/ (\E v \in Nodes : Expand(v)) \/ Leave \/ Exhaust
SearchStep == (\E q \in Seq(Nodes) : Enqueue(q)) \/ SearchNext
SearchSpec == SearchInit /\ [][SearchStep]_search

-----------------------------------------------------------------------------
\* The distances of the nodes at D are those of shortest walks: a source has
\* 0, every other node one more than a neighbour it was reached from, and no
\* neighbour of a node that was left is further than one more.
Labelled ==
    /\ \A u \in sources : u \in Reached /\ distance[u] = 0
    /\ \A u \in Reached \ sources : /\ parent[u] \in Reached
                                    /\ u \in adjacency[parent[u]]
                                    /\ distance[u] = distance[parent[u]] + 1
    /\ \A u \in Reached : distance[u] <= limit
ClosedBelow(d) ==
    \A u \in Reached : distance[u] < d /\ distance[u] < limit =>
        \A v \in adjacency[u] : v \in Reached /\ distance[v] <= distance[u] + 1

\* A search that ends without a destination has reached exactly what lies
\* within max_depth, at its distance; one that ends at a destination has seen
\* all that is nearer, and no destination among it: the path that the parents
\* make is a shortest one (resolver.py:384-401, blast_radius.py:34-45).
SearchExact ==
    /\ mode = "exhausted" => Labelled /\ ClosedBelow(limit) /\ Reached \cap destinations = {}
    /\ mode = "found" => LET found == Head(queue) IN
            /\ found \in destinations \cap Reached
            /\ Labelled
            /\ ClosedBelow(distance[found])
            /\ \A u \in Reached \cap destinations : distance[u] >= distance[found]
=============================================================================

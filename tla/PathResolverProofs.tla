-------------------------- MODULE PathResolverProofs ------------------------
(***************************************************************************)
(* Theorems about PathSearch and PathResolver, for every set of graphs,    *)
(* any number of rebuilds, every depth and any order of neighbours.  The   *)
(* searches are exact (SInv); balls and trails, which recursion defines,   *)
(* are what the searches computed, by the least elements of sets; then the *)
(* invariant of a request (RInv), which holds at every query.              *)
(***************************************************************************)
EXTENDS PathResolver, SequenceTheorems, FiniteSetTheorems, TLAPS

\* Nodes that left the queue.
Left == Reached \ Elements(queue)

\* The queue is in the order of distance, and spans at most two distances.
QueueOrdered ==
    /\ Elements(queue) \subseteq Reached
    /\ \A i, j \in 1..Len(queue) : i <= j => distance[queue[i]] <= distance[queue[j]]
    /\ queue # <<>> => \A u \in Reached : distance[u] <= distance[queue[1]] + 1
LeftIsDone ==
    \A u \in Left :
        /\ u \notin destinations
        /\ queue # <<>> => distance[u] <= distance[queue[1]]
        /\ distance[u] < limit => \A v \in adjacency[u] : v \in Reached /\ distance[v] <= distance[u] + 1

SInv ==
    /\ SearchTypeOK
    /\ mode # "off" => Labelled /\ QueueOrdered /\ LeftIsDone
    /\ mode = "found" => queue # <<>> /\ Head(queue) \in destinations
    /\ mode = "exhausted" => queue = <<>>

LEMMA HeadIsFirst ==
  ASSUME NEW q \in Seq(Nodes), q # <<>>
  PROVE  Head(q) = q[1] /\ q[1] \in Nodes /\ 1 \in 1..Len(q) /\ Len(q) \in Nat \ {0} /\ DOMAIN q = 1..Len(q)
OBVIOUS

LEMMA ElementsOfTail ==
  ASSUME NEW q \in Seq(Nodes), q # <<>>
  PROVE  /\ Elements(Tail(q)) \subseteq Elements(q)
         /\ Elements(q) = Elements(Tail(q)) \cup {q[1]}
<1>1. /\ Tail(q) \in Seq(Nodes)
      /\ Len(Tail(q)) = Len(q) - 1
      /\ \A i \in 1..Len(Tail(q)) : Tail(q)[i] = q[i + 1]
  BY HeadTailProperties
<1>2. DOMAIN q = 1..Len(q) /\ DOMAIN Tail(q) = 1..Len(Tail(q)) /\ Len(q) \in Nat \ {0}
  BY <1>1, HeadIsFirst
<1>3. ASSUME NEW i \in 1..Len(q), i # 1 PROVE q[i] \in Elements(Tail(q))
  <2>1. i - 1 \in 1..Len(Tail(q)) /\ q[(i - 1) + 1] = q[i]
    BY <1>1, <1>2, <1>3
  <2> QED BY <2>1, <1>1, <1>2 DEF Elements
<1>4. \A i \in 1..Len(Tail(q)) : q[i + 1] \in Elements(q)
  BY <1>1, <1>2 DEF Elements
<1> QED BY <1>1, <1>2, <1>3, <1>4 DEF Elements

LEMMA ElementsOfAppend ==
  ASSUME NEW q \in Seq(Nodes), NEW v \in Nodes
  PROVE  Elements(Append(q, v)) = Elements(q) \cup {v}
<1>1. /\ Append(q, v) \in Seq(Nodes)
      /\ Len(Append(q, v)) = Len(q) + 1
      /\ \A i \in 1..Len(q) : Append(q, v)[i] = q[i]
      /\ Append(q, v)[Len(q) + 1] = v
  BY AppendProperties
<1>2. DOMAIN q = 1..Len(q) /\ DOMAIN Append(q, v) = 1..(Len(q) + 1) /\ Len(q) \in Nat
  BY <1>1, LenProperties
<1>3. 1..(Len(q) + 1) = (1..Len(q)) \cup {Len(q) + 1}
  BY <1>2
<1> QED BY <1>1, <1>2, <1>3 DEF Elements

LEMMA InitEstablishes == SearchInit => SInv
BY DepthsAreNatural DEF SearchInit, SInv, SearchTypeOK, Reached

LEMMA EnqueueKeeps ==
  ASSUME SInv, NEW q \in Seq(Nodes), Enqueue(q)
  PROVE  SInv'
<1> USE DEF Enqueue
<1>1. SearchTypeOK'
  BY DEF SInv, SearchTypeOK, Reached
<1>2. Labelled'
  BY DepthsAreNatural DEF SInv, SearchTypeOK, Labelled, Reached
<1>3. \A i \in 1..Len(q) : q[i] \in sources
  BY LenProperties DEF Elements
<1>4. QueueOrdered'
  <2>1. (Elements(queue) \subseteq Reached)'
    BY DEF Reached, Elements
  <2>2. (\A i, j \in 1..Len(queue) : i <= j => distance[queue[i]] <= distance[queue[j]])'
    BY <1>3
  <2>3. (queue # <<>> => \A u \in Reached : distance[u] <= distance[queue[1]] + 1)'
    BY <1>3, HeadIsFirst DEF Reached
  <2> QED BY <2>1, <2>2, <2>3 DEF QueueOrdered
<1>5. LeftIsDone'
  BY DEF LeftIsDone, Left, Reached, Elements
<1> QED BY <1>1, <1>2, <1>4, <1>5 DEF SInv

LEMMA ExpandKeeps ==
  ASSUME SInv, NEW v \in Nodes, Expand(v)
  PROVE  SInv'
<1> DEFINE u == Head(queue)
<1>1. /\ SearchTypeOK /\ Labelled /\ QueueOrdered /\ LeftIsDone
      /\ mode = "searching" /\ mode' = "searching" /\ queue # <<>>
      /\ u \notin destinations /\ distance[u] < limit /\ v \in adjacency[u] /\ v \notin Reached
      /\ queue' = Append(queue, v)
      /\ UNCHANGED <<adjacency, sources, destinations, limit>>
  BY DEF SInv, Expand, Unseen
<1>2. /\ queue \in Seq(Nodes) /\ Len(queue) \in Nat \ {0} /\ u = queue[1] /\ u \in Nodes
      /\ 1 \in 1..Len(queue)
  BY <1>1, HeadIsFirst DEF SearchTypeOK
<1>3. u \in Elements(queue) /\ u \in Reached /\ distance[u] \in Nat
  BY <1>1, <1>2, LenProperties DEF Elements, QueueOrdered, SearchTypeOK
<1>4. /\ Reached' = Reached \cup {v}
      /\ \A w \in Reached : distance'[w] = distance[w]
      /\ distance'[v] = distance[u] + 1
  BY <1>1 DEF Expand, Put, Reached
<1>5. /\ DOMAIN parent' = DOMAIN parent \cup {v}
      /\ \A w \in DOMAIN parent : w # v => parent'[w] = parent[w]
      /\ parent'[v] = u
  BY <1>1 DEF Expand, Put
<1>6. v \notin sources
  BY <1>1 DEF Labelled
<1>7. /\ Append(queue, v) \in Seq(Nodes)
      /\ Len(queue') = Len(queue) + 1
      /\ \A i \in 1..Len(queue) : queue'[i] = queue[i]
      /\ queue'[Len(queue) + 1] = v
      /\ queue'[1] = u
      /\ queue' # <<>>
  BY <1>1, <1>2, AppendProperties
<1>8. Elements(queue)' = Elements(queue) \cup {v}
  BY <1>1, <1>2, ElementsOfAppend DEF Elements
<1>9. limit \in Nat /\ \A w \in Reached : distance[w] \in Nat
  BY <1>1, DepthsAreNatural DEF SearchTypeOK
<1>10. SearchTypeOK'
  <2>1. DOMAIN parent' = Reached' \ sources'
    BY <1>1, <1>4, <1>5, <1>6 DEF SearchTypeOK
  <2>2. \A w \in DOMAIN parent' : parent'[w] \in Nodes
    BY <1>1, <1>2, <1>5 DEF SearchTypeOK
  <2>3. \A w \in Reached' : distance'[w] \in Nat
    BY <1>3, <1>4, <1>9
  <2>4. Reached' \subseteq Nodes
    BY <1>1, <1>4 DEF SearchTypeOK
  <2> QED BY <1>1, <1>7, <2>1, <2>2, <2>3, <2>4 DEF SearchTypeOK
<1>11. Labelled'
  <2>1. \A w \in sources' : w \in Reached' /\ distance'[w] = 0
    BY <1>1, <1>4 DEF Labelled
  <2>2. ASSUME NEW w \in Reached' \ sources'
        PROVE  parent'[w] \in Reached' /\ w \in adjacency'[parent'[w]] /\ distance'[w] = distance'[parent'[w]] + 1
    <3>1. CASE w = v
      BY <3>1, <1>1, <1>3, <1>4, <1>5
    <3>2. CASE w # v
      <4>1. w \in Reached \ sources /\ w \in DOMAIN parent
        BY <3>2, <2>2, <1>1, <1>4 DEF SearchTypeOK
      <4> QED BY <3>2, <4>1, <1>1, <1>4, <1>5 DEF Labelled
    <3> QED BY <3>1, <3>2
  <2>3. \A w \in Reached' : distance'[w] <= limit'
    BY <1>1, <1>3, <1>4, <1>9 DEF Labelled
  <2> QED BY <2>1, <2>2, <2>3 DEF Labelled
<1>12. QueueOrdered'
  <2>1. Elements(queue)' \subseteq Reached'
    BY <1>1, <1>4, <1>8 DEF QueueOrdered
  <2>2. \A w \in Reached' : distance'[w] <= distance'[queue'[1]] + 1
    BY <1>1, <1>2, <1>3, <1>4, <1>7, <1>9 DEF QueueOrdered
  <2>3. \A i \in 1..Len(queue) : queue[i] \in Reached
    BY <1>1, <1>2, LenProperties DEF QueueOrdered, Elements
  <2>4. ASSUME NEW i \in 1..Len(queue'), NEW j \in 1..Len(queue'), i <= j
        PROVE  distance'[queue'[i]] <= distance'[queue'[j]]
    <3>1. CASE j \in 1..Len(queue)
      <4>1. i \in 1..Len(queue)
        BY <2>4, <3>1, <1>2
      <4> QED BY <2>3, <2>4, <3>1, <4>1, <1>1, <1>4, <1>7 DEF QueueOrdered
    <3>2. CASE j = Len(queue) + 1
      <4>1. distance'[queue'[j]] = distance[u] + 1
        BY <3>2, <1>4, <1>7
      <4>2. i = Len(queue) + 1 \/ i \in 1..Len(queue)
        BY <2>4, <1>2, <1>7
      <4>3. i \in 1..Len(queue) => distance[queue[i]] <= distance[u] + 1
        BY <2>3, <1>1, <1>2 DEF QueueOrdered
      <4> QED BY <3>2, <4>1, <4>2, <4>3, <2>3, <1>3, <1>4, <1>7, <1>9
    <3> QED BY <3>1, <3>2, <2>4, <1>2, <1>7
  <2> QED BY <2>1, <2>2, <2>4, <1>7 DEF QueueOrdered
<1>13. LeftIsDone'
  <2>1. Left' = Left
    BY <1>1, <1>4, <1>8 DEF Left
  <2>2. ASSUME NEW w \in Left
        PROVE  /\ w \notin destinations'
               /\ distance'[w] <= distance'[queue'[1]]
               /\ distance'[w] < limit' => \A x \in adjacency'[w] : x \in Reached' /\ distance'[x] <= distance'[w] + 1
    BY <2>2, <1>1, <1>2, <1>3, <1>4, <1>7 DEF LeftIsDone, Left
  <2> QED BY <2>1, <2>2 DEF LeftIsDone
<1> QED BY <1>1, <1>10, <1>11, <1>12, <1>13 DEF SInv

LEMMA LeaveKeeps ==
  ASSUME SInv, Leave
  PROVE  SInv'
<1> DEFINE u == Head(queue)
<1>1. /\ SearchTypeOK /\ Labelled /\ QueueOrdered /\ LeftIsDone
      /\ mode = "searching" /\ mode' = "searching" /\ queue # <<>>
      /\ u \notin destinations /\ (distance[u] < limit => adjacency[u] \subseteq Reached)
      /\ queue' = Tail(queue)
      /\ UNCHANGED <<adjacency, sources, destinations, limit, distance, parent>>
      /\ Reached' = Reached
  BY DEF SInv, Leave, Unseen, Reached
<1>2. /\ queue \in Seq(Nodes) /\ Len(queue) \in Nat \ {0} /\ u = queue[1] /\ u \in Nodes
      /\ 1 \in 1..Len(queue)
  BY <1>1, HeadIsFirst DEF SearchTypeOK
<1>3. u \in Elements(queue) /\ u \in Reached
  BY <1>1, <1>2, LenProperties DEF Elements, QueueOrdered
<1>4. limit \in Nat /\ \A w \in Reached : distance[w] \in Nat
  BY <1>1, DepthsAreNatural DEF SearchTypeOK
<1>5. /\ Tail(queue) \in Seq(Nodes)
      /\ Len(queue') = Len(queue) - 1
      /\ \A i \in 1..Len(queue') : queue'[i] = queue[i + 1]
  BY <1>1, <1>2, HeadTailProperties
<1>6. Elements(queue)' \subseteq Elements(queue) /\ Elements(queue) = Elements(queue)' \cup {u}
  BY <1>1, <1>2, ElementsOfTail DEF Elements
<1>7. SearchTypeOK'
  BY <1>1, <1>5 DEF SearchTypeOK
<1>8. Labelled'
  BY <1>1 DEF Labelled
<1>9. \A i \in 1..Len(queue') : i + 1 \in 1..Len(queue)
  BY <1>2, <1>5
<1>10. queue' # <<>> => 1 \in 1..Len(queue') /\ queue'[1] = queue[2] /\ distance[u] <= distance[queue[2]]
                        /\ queue[2] \in Reached
  <2> HAVE queue' # <<>>
  <2>1. 1 \in 1..Len(queue')
    BY <1>1, <1>5, HeadIsFirst
  <2>2. 2 \in 1..Len(queue)
    BY <2>1, <1>2, <1>5
  <2> QED BY <2>1, <2>2, <1>1, <1>2, <1>5, LenProperties DEF QueueOrdered, Elements
<1>11. QueueOrdered'
  <2>1. Elements(queue)' \subseteq Reached'
    BY <1>1, <1>6 DEF QueueOrdered
  <2>2. ASSUME NEW i \in 1..Len(queue'), NEW j \in 1..Len(queue'), i <= j
        PROVE  distance'[queue'[i]] <= distance'[queue'[j]]
    <3>1. i + 1 \in 1..Len(queue) /\ j + 1 \in 1..Len(queue) /\ i + 1 <= j + 1
      BY <1>9, <2>2, <1>2, <1>5
    <3> QED BY <3>1, <2>2, <1>1, <1>5 DEF QueueOrdered
  <2>3. queue' # <<>> => \A w \in Reached' : distance'[w] <= distance'[queue'[1]] + 1
    BY <1>1, <1>2, <1>3, <1>4, <1>10 DEF QueueOrdered
  <2> QED BY <2>1, <2>2, <2>3 DEF QueueOrdered
<1>12. LeftIsDone'
  <2>1. Left' \subseteq Left \cup {u}
    BY <1>1, <1>6 DEF Left
  <2>2. ASSUME NEW w \in Left'
        PROVE  /\ w \notin destinations'
               /\ queue' # <<>> => distance'[w] <= distance'[queue'[1]]
               /\ distance'[w] < limit' => \A x \in adjacency'[w] : x \in Reached' /\ distance'[x] <= distance'[w] + 1
    <3>1. w \in Reached
      BY <2>2, <1>1 DEF Left
    <3>2. CASE w = u
      BY <3>2, <1>1, <1>2, <1>10 DEF QueueOrdered
    <3>3. CASE w \in Left
      <4>1. w \notin destinations'
        BY <3>3, <1>1 DEF LeftIsDone
      <4>2. queue' # <<>> => distance'[w] <= distance'[queue'[1]]
        BY <3>1, <3>3, <1>1, <1>2, <1>3, <1>4, <1>10 DEF LeftIsDone
      <4>3. distance'[w] < limit' => \A x \in adjacency'[w] : x \in Reached' /\ distance'[x] <= distance'[w] + 1
        BY <3>3, <1>1 DEF LeftIsDone
      <4> QED BY <4>1, <4>2, <4>3
    <3> QED BY <2>1, <2>2, <3>2, <3>3
  <2> QED BY <2>2 DEF LeftIsDone
<1> QED BY <1>1, <1>7, <1>8, <1>11, <1>12 DEF SInv

LEMMA StepKeeps == SInv /\ [SearchStep]_search => SInv'
<1> SUFFICES ASSUME SInv, [SearchStep]_search PROVE SInv'
  OBVIOUS
<1>1. CASE UNCHANGED search
  BY <1>1 DEF search, SInv, SearchTypeOK, Labelled, QueueOrdered, LeftIsDone, Left, Reached, Elements
<1>2. ASSUME NEW q \in Seq(Nodes), Enqueue(q) PROVE SInv'
  BY <1>2, EnqueueKeeps
<1>3. CASE Arrive
  <2>1. Labelled' = Labelled /\ QueueOrdered' = QueueOrdered /\ LeftIsDone' = LeftIsDone
    BY <1>3 DEF Arrive, Labelled, QueueOrdered, LeftIsDone, Left, Reached, Elements
  <2>2. SearchTypeOK'
    BY <1>3 DEF Arrive, SInv, SearchTypeOK, Reached
  <2> QED BY <2>1, <2>2, <1>3 DEF Arrive, SInv
<1>4. ASSUME NEW v \in Nodes, Expand(v) PROVE SInv'
  BY <1>4, ExpandKeeps
<1>5. CASE Leave
  BY <1>5, LeaveKeeps
<1>6. CASE Exhaust
  <2>1. Labelled' = Labelled /\ QueueOrdered' = QueueOrdered /\ LeftIsDone' = LeftIsDone
    BY <1>6 DEF Exhaust, Labelled, QueueOrdered, LeftIsDone, Left, Reached, Elements
  <2>2. SearchTypeOK'
    BY <1>6 DEF Exhaust, SInv, SearchTypeOK, Reached
  <2> QED BY <2>1, <2>2, <1>6 DEF Exhaust, SInv
<1> QED BY <1>1, <1>2, <1>3, <1>4, <1>5, <1>6 DEF SearchStep, SearchNext

LEMMA SInvExact == SInv => SearchExact
<1> SUFFICES ASSUME SInv PROVE SearchExact
  OBVIOUS
<1>1. limit \in Nat /\ \A w \in Reached : distance[w] \in Nat
  BY DepthsAreNatural DEF SInv, SearchTypeOK
<1>2. ASSUME mode = "exhausted" PROVE Labelled /\ ClosedBelow(limit) /\ Reached \cap destinations = {}
  <2>1. Labelled /\ LeftIsDone /\ queue = <<>>
    BY <1>2 DEF SInv
  <2>2. Left = Reached
    BY <2>1 DEF Left, Elements
  <2> QED BY <2>1, <2>2 DEF LeftIsDone, ClosedBelow
<1>3. ASSUME mode = "found"
      PROVE  /\ Head(queue) \in destinations \cap Reached
             /\ Labelled
             /\ ClosedBelow(distance[Head(queue)])
             /\ \A w \in Reached \cap destinations : distance[w] >= distance[Head(queue)]
  <2>1. /\ Labelled /\ QueueOrdered /\ LeftIsDone /\ queue # <<>> /\ Head(queue) \in destinations
        /\ queue \in Seq(Nodes)
    BY <1>3 DEF SInv, SearchTypeOK
  <2>2. /\ Head(queue) = queue[1] /\ Len(queue) \in Nat \ {0} /\ DOMAIN queue = 1..Len(queue)
    BY <2>1, HeadIsFirst
  <2>3. queue[1] \in Reached
    BY <2>1, <2>2 DEF QueueOrdered, Elements
  <2>4. \A w \in Elements(queue) : w \in Reached /\ distance[queue[1]] <= distance[w]
    BY <2>1, <2>2 DEF QueueOrdered, Elements
  <2>5. \A w \in Reached : distance[w] < distance[queue[1]] => w \in Left
    BY <1>1, <2>3, <2>4 DEF Left
  <2>6. ClosedBelow(distance[queue[1]])
    BY <2>1, <2>5 DEF ClosedBelow, LeftIsDone
  <2>7. \A w \in Reached \cap destinations : distance[w] >= distance[queue[1]]
    BY <1>1, <2>1, <2>3, <2>4 DEF LeftIsDone, Left
  <2> QED BY <2>1, <2>2, <2>3, <2>6, <2>7
<1> QED BY <1>2, <1>3 DEF SearchExact

\* Every step of a search keeps the types (resolver.py:380-403).
THEOREM SearchTypeCorrect == SearchSpec => []SearchTypeOK
<1>1. SInv => SearchTypeOK
  BY DEF SInv
<1> QED BY InitEstablishes, StepKeeps, <1>1, PTL DEF SearchSpec

\* Whatever the graph and the order of neighbours, a search ends with the
\* distances of shortest walks, for all that lies within max_depth and no
\* further than the first destination (resolver.py:384-403).
THEOREM SearchIsExact == SearchSpec => []SearchExact
BY InitEstablishes, StepKeeps, SInvExact, PTL DEF SearchSpec

-----------------------------------------------------------------------------
(* Numbers, and functions defined from one number to the next.  The         *)
(* library's induction theorems take an operator; the least element of a    *)
(* set of counterexamples does the same for a set.                          *)

LEMMA HasLeast ==
  ASSUME NEW S \in SUBSET Nat, S # {}
  PROVE  \E m \in S : \A n \in S : m <= n
<1> DEFINE R == {p \in Nat \X Nat : p[1] < p[2]}
<1>1. IsWellFoundedOn(R, Nat)
  BY NatLessThanWellFounded DEF OpToRel
<1>2. PICK m \in S : \A n \in S : <<n, m>> \notin R
  BY <1>1, WFMin
<1>3. ASSUME NEW n \in S PROVE m <= n
  <2>1. n \in Nat /\ m \in Nat /\ <<n, m>> \notin R
    BY <1>2
  <2> QED BY <2>1
<1> QED BY <1>3

LEMMA Induction ==
  ASSUME NEW N \in Nat, NEW T, 0 \in T, \A k \in 1..N : k - 1 \in T => k \in T
  PROVE  \A k \in 0..N : k \in T
<1> SUFFICES ASSUME NEW k \in 0..N, k \notin T PROVE FALSE
  OBVIOUS
<1> DEFINE S == {n \in 0..N : n \notin T}
<1>0. S \in SUBSET Nat /\ k \in S
  OBVIOUS
<1>1. PICK m \in S : \A n \in S : m <= n
  <2> HIDE DEF S
  <2> QED BY <1>0, HasLeast
<1>2. m \in 1..N /\ m - 1 \in 0..N /\ ~ (m <= m - 1)
  BY <1>1
<1> QED BY <1>1, <1>2

LEMMA MinIsLeast ==
  ASSUME NEW S \in SUBSET Nat, S # {}
  PROVE  Min(S) \in S /\ \A n \in S : Min(S) <= n
<1>1. PICK m \in S : \A n \in S : m <= n
  BY HasLeast
<1> QED BY <1>1 DEF Min

LEMMA MaxIsGreatest ==
  ASSUME NEW S \in SUBSET Nat, S # {}, NEW N \in Nat, \A n \in S : n <= N
  PROVE  Max(S) \in S /\ \A n \in S : Max(S) >= n
<1> DEFINE T == {N - n : n \in S}
<1>1. PICK t \in T : \A u \in T : t <= u
  <2>1. \A n \in S : n \in Nat /\ n <= N /\ N - n \in Nat
    OBVIOUS
  <2>2. T \in SUBSET Nat /\ T # {}
    BY <2>1
  <2> HIDE DEF T
  <2> QED BY <2>2, HasLeast
<1>2. PICK m \in S : t = N - m
  BY <1>1
<1>3. ASSUME NEW n \in S PROVE m >= n
  <2>1. t <= N - n
    BY <1>1
  <2> QED BY <2>1, <1>2
<1> QED BY <1>2, <1>3 DEF Max

Iterates(f, N, X, x, h) == f \in [0..N -> X] /\ f[0] = x /\ \A k \in 1..N : f[k] = h[f[k - 1]]

LEMMA Recursion ==
  ASSUME NEW N \in Nat, NEW X, NEW x \in X, NEW h, \A y \in X : h[y] \in X
  PROVE  \E f : Iterates(f, N, X, x, h)
<1> DEFINE Good(n, f) == /\ f[0] = x
                         /\ \A k \in 1..n : f[k] = h[f[k - 1]]
                         /\ \A k \in 0..n : f[k] \in X
           T == {n \in 0..N : \E f : Good(n, f)}
<1>1. 0 \in T
  <2> DEFINE g == [k \in 0..0 |-> x]
  <2>1. Good(0, g)
    OBVIOUS
  <2> HIDE DEF g
  <2> QED BY <2>1
<1>2. ASSUME NEW n \in 1..N, n - 1 \in T PROVE n \in T
  <2>1. PICK f : Good(n - 1, f)
    BY <1>2
  <2> DEFINE g == [k \in 0..n |-> IF k = n THEN h[f[n - 1]] ELSE f[k]]
  <2>2. f[n - 1] \in X
    BY <2>1
  <2>3. g[0] = x
    BY <2>1
  <2>4. ASSUME NEW k \in 1..n PROVE g[k] = h[g[k - 1]]
    <3>1. g[k - 1] = f[k - 1]
      OBVIOUS
    <3>2. k # n => f[k] = h[f[k - 1]]
      BY <2>1
    <3> QED BY <3>1, <3>2
  <2>5. ASSUME NEW k \in 0..n PROVE g[k] \in X
    <3>1. k # n => f[k] \in X
      BY <2>1
    <3> QED BY <2>2, <3>1
  <2> HIDE DEF g
  <2>6. Good(n, g)
    BY <2>3, <2>4, <2>5
  <2> QED BY <2>6
<1>3. N \in T
  <2> HIDE DEF T
  <2> QED BY <1>1, <1>2, Induction
<1>4. PICK f : Good(N, f)
  BY <1>3
<1> DEFINE g == [k \in 0..N |-> f[k]]
<1>5. g[0] = x /\ g \in [0..N -> X]
  BY <1>4
<1>6. ASSUME NEW k \in 1..N PROVE g[k] = h[g[k - 1]]
  <2>1. g[k] = f[k] /\ g[k - 1] = f[k - 1]
    OBVIOUS
  <2> QED BY <1>4, <2>1
<1> HIDE DEF g
<1> QED BY <1>5, <1>6 DEF Iterates

-----------------------------------------------------------------------------
(* The graphs *)

Built == graphs \in Seq(Graphs) /\ Now \in 1..MaxBuilds
Known(t) == IsTarget(t) /\ (t = NoTarget \/ t.kind = "netbox" \/ t.build \in 1..Now)

LEMMA GraphIs ==
  ASSUME Built, NEW b \in 1..Now
  PROVE  IsGraph(graphs[b]) /\ b \in 1..MaxBuilds
BY GraphsAreGraphs, NodesAreObjects DEF Built, Now

LEMMA NodeIs ==
  ASSUME NEW b \in 1..MaxBuilds, NEW u \in Units, NEW l \in 0..MaxLanes
  PROVE  /\ Node(b, u, l) \in Nodes
         /\ Node(b, u, l).build = b /\ Node(b, u, l).unit = u /\ Node(b, u, l).lane = l
BY NodesAreObjects DEF Node

LEMMA UnitsAreNodes ==
  ASSUME Built, NEW b \in 1..Now, NEW t, t # NoTarget, Known(t)
  PROVE  /\ UnitsOf(b, t) \subseteq Nodes
         /\ \E c \in 1..Now : /\ \A n \in UnitsOf(b, t) : n.build = c
                              /\ c = b \/ (t.kind # "netbox" /\ c = t.build)
<1>1. IsGraph(graphs[b]) /\ b \in 1..MaxBuilds /\ 0 \in 0..MaxLanes /\ t.units \subseteq Units
  BY GraphIs, NodesAreObjects DEF Known, IsTarget
<1>2. CASE t.kind = "netbox"
  <2>1. UnitsOf(b, t) = {Node(b, u, 0) : u \in t.units \cap graphs[b].units}
    BY <1>2 DEF UnitsOf
  <2>2. \A u \in t.units : Node(b, u, 0) \in Nodes /\ Node(b, u, 0).build = b
    BY <1>1, NodeIs
  <2> QED BY <2>1, <2>2
<1>3. CASE t.kind # "netbox"
  <2>1. t.build \in 1..Now /\ t.build \in 1..MaxBuilds
    BY <1>3, NodesAreObjects DEF Known, Built
  <2>2. UnitsOf(b, t) \in {{Node(b, u, 0) : u \in t.units}, {Node(t.build, u, 0) : u \in t.units}, {}}
    BY <1>3 DEF UnitsOf
  <2>3. \A u \in t.units : /\ Node(b, u, 0) \in Nodes /\ Node(b, u, 0).build = b
                           /\ Node(t.build, u, 0) \in Nodes /\ Node(t.build, u, 0).build = t.build
    BY <1>1, <2>1, NodeIs
  <2>4. CASE UnitsOf(b, t) = {Node(b, u, 0) : u \in t.units}
    BY <2>3, <2>4
  <2>5. CASE UnitsOf(b, t) = {Node(t.build, u, 0) : u \in t.units}
    BY <1>3, <2>1, <2>3, <2>5
  <2>6. CASE UnitsOf(b, t) = {}
    BY <2>6
  <2> QED BY <2>2, <2>4, <2>5, <2>6
<1> QED BY <1>2, <1>3

LEMMA EndsAreNodes ==
  ASSUME Built, NEW b \in 1..Now, NEW t, Known(t)
  PROVE  /\ EndsOf(b, t) \subseteq Nodes
         /\ \E c \in 1..Now : /\ \A n \in EndsOf(b, t) : n.build = c
                              /\ c = b \/ (t # NoTarget /\ t.kind # "netbox" /\ c = t.build)
<1>1. CASE t = NoTarget
  BY <1>1 DEF EndsOf
<1>2. CASE t # NoTarget /\ ~ Signal
  BY <1>2, UnitsAreNodes DEF EndsOf
<1>3. CASE t # NoTarget /\ Signal
  <2> DEFINE lit == {n.unit : n \in {m \in UnitsOf(b, t) : m.build = b /\ graphs[b].lanes[m.unit] > 0}}
  <2>1. EndsOf(b, t) = IF lit = {} THEN {} ELSE {n \in Lanes(b, Min(lit)) : t.lane # 0 => n.lane = t.lane}
    BY <1>3 DEF EndsOf, LanesOf
  <2>2. lit \subseteq Units
    BY <1>3, UnitsAreNodes, NodesAreObjects
  <2>3. CASE lit # {}
    <3> DEFINE u == Min(lit)
    <3>1. u \in Units
      <4> HIDE DEF lit
      <4> QED BY <2>2, <2>3, MinIsLeast, NodesAreObjects
    <3> HIDE DEF u
    <3>2. graphs[b].lanes[u] \in 0..MaxLanes /\ b \in 1..MaxBuilds
      BY <3>1, GraphIs DEF IsGraph
    <3>3. ASSUME NEW l \in 1..graphs[b].lanes[u] PROVE Node(b, u, l) \in Nodes /\ Node(b, u, l).build = b
      <4>1. l \in 0..MaxLanes
        BY <3>2, NodesAreObjects
      <4> QED BY <3>1, <3>2, <4>1, NodeIs
    <3>4. EndsOf(b, t) \subseteq Lanes(b, u)
      BY <2>1, <2>3 DEF u
    <3>5. \A n \in EndsOf(b, t) : n \in Nodes /\ n.build = b
      BY <3>3, <3>4 DEF Lanes
    <3> QED BY <3>5
  <2>4. CASE lit = {}
    BY <2>1, <2>4
  <2> QED BY <2>3, <2>4
<1> QED BY <1>1, <1>2, <1>3

\* A row joins two nodes of its build, in the fabrics and the units asked for.
LEMMA RowIs ==
  ASSUME Built, NEW b \in 1..Now, NEW pairs \in SUBSET (graphs[b].edges \cup graphs[b].maps), NEW F, NEW A,
         NEW e \in Rows(b, pairs, F, A)
  PROVE  \E n, m \in Nodes :
            /\ e = {n, m} /\ n.build = b /\ m.build = b
            /\ \A x \in {n, m} : graphs[b].fabric[x.unit] \in F /\ Node(b, x.unit, 0) \in A
<1>1. IsGraph(graphs[b]) /\ b \in 1..MaxBuilds /\ 0 \in 0..MaxLanes
  BY GraphIs, NodesAreObjects
<1> DEFINE Scoped(u) == graphs[b].fabric[u] \in F /\ Node(b, u, 0) \in A
           scoped == {p \in pairs : \A u \in p : Scoped(u)}
<1>2. ASSUME NEW p \in scoped
      PROVE  \E u, v \in Units : p = {u, v} /\ Scoped(u) /\ Scoped(v)
  BY <1>1, <1>2 DEF IsGraph
<1>3. CASE ~ Signal
  <2>1. PICK p \in scoped : e = {Node(b, u, 0) : u \in p}
    BY <1>3 DEF Rows
  <2>2. PICK u \in Units, v \in Units : p = {u, v} /\ Scoped(u) /\ Scoped(v)
    BY <1>2
  <2>3. e = {Node(b, u, 0), Node(b, v, 0)}
    BY <2>1, <2>2
  <2> QED BY <1>1, <2>2, <2>3, NodeIs
<1>4. CASE Signal
  <2>1. PICK p \in scoped : e \in {{Node(b, u, l) : u \in p} : l \in 1..Min({graphs[b].lanes[u] : u \in p})}
    BY <1>4 DEF Rows
  <2>2. PICK u \in Units, v \in Units : p = {u, v} /\ Scoped(u) /\ Scoped(v)
    BY <1>2
  <2>3. Min({graphs[b].lanes[w] : w \in p}) \in 0..MaxLanes
    <3>1. {graphs[b].lanes[w] : w \in p} = {graphs[b].lanes[u], graphs[b].lanes[v]}
      BY <2>2
    <3>2. graphs[b].lanes[u] \in 0..MaxLanes /\ graphs[b].lanes[v] \in 0..MaxLanes
      BY <1>1 DEF IsGraph
    <3> DEFINE S == {graphs[b].lanes[w] : w \in p}
    <3>3. S \in SUBSET Nat /\ S # {} /\ S \subseteq 0..MaxLanes
      BY <3>1, <3>2, NodesAreObjects
    <3> HIDE DEF S
    <3>4. Min(S) \in 0..MaxLanes
      BY <3>3, MinIsLeast
    <3> QED BY <3>4 DEF S
  <2>4. PICK l \in 0..MaxLanes : e = {Node(b, w, l) : w \in p}
    BY <2>1, <2>3, NodesAreObjects
  <2>5. e = {Node(b, u, l), Node(b, v, l)}
    BY <2>2, <2>4
  <2> QED BY <1>1, <2>2, <2>5, NodeIs
<1> QED BY <1>3, <1>4

LEMMA RowsOfBoth ==
  ASSUME NEW b, NEW P, NEW Q, NEW F, NEW A
  PROVE  Rows(b, P \cup Q, F, A) = Rows(b, P, F, A) \cup Rows(b, Q, F, A)
<1> DEFINE Scoped(u) == graphs[b].fabric[u] \in F /\ Node(b, u, 0) \in A
           In(pairs) == {p \in pairs : \A u \in p : Scoped(u)}
           RowsAt(p) == {{Node(b, u, l) : u \in p} : l \in 1..Min({graphs[b].lanes[u] : u \in p})}
<1>1. In(P \cup Q) = In(P) \cup In(Q)
  OBVIOUS
<1>2. CASE ~ Signal
  <2>1. \A pairs : Rows(b, pairs, F, A) = {{Node(b, u, 0) : u \in p} : p \in In(pairs)}
    BY <1>2 DEF Rows
  <2> QED BY <1>1, <2>1
<1>3. CASE Signal
  <2>1. \A pairs : Rows(b, pairs, F, A) = UNION {RowsAt(p) : p \in In(pairs)}
    BY <1>3 DEF Rows
  <2> HIDE DEF RowsAt, In
  <2>2. UNION {RowsAt(p) : p \in In(P) \cup In(Q)} = (UNION {RowsAt(p) : p \in In(P)}) \cup (UNION {RowsAt(p) : p \in In(Q)})
    OBVIOUS
  <2> QED BY <1>1, <2>1, <2>2
<1> QED BY <1>2, <1>3

\* The neighbours of a node are the other ends of its rows.
LEMMA NeighboursAre ==
  ASSUME NEW rows, \A e \in rows : \E n, m \in Nodes : e = {n, m}
  PROVE  /\ Joining(rows) \in [Nodes -> SUBSET Nodes]
         /\ \A n \in Nodes : \A m : m \in Joining(rows)[n] <=> m # n /\ {n, m} \in rows
<1>1. ASSUME NEW n \in Nodes, NEW m
      PROVE  /\ m \in Joining(rows)[n] <=> m # n /\ {n, m} \in rows
             /\ m \in Joining(rows)[n] => m \in Nodes
  <2>1. Joining(rows)[n] = UNION {e \ {n} : e \in {f \in rows : n \in f}}
    BY DEF Joining
  <2>2. m \in Joining(rows)[n] <=> \E e \in rows : n \in e /\ m \in e /\ m # n
    BY <2>1
  <2>3. ASSUME NEW e \in rows, n \in e, m \in e, m # n PROVE e = {n, m} /\ m \in Nodes
    BY <2>3
  <2> QED BY <2>2, <2>3
<1>2. Joining(rows) = [n \in Nodes |-> Joining(rows)[n]]
  BY DEF Joining
<1> QED BY <1>1, <1>2

-----------------------------------------------------------------------------
(* Balls, distances and trails *)

LEMMA BallsAre ==
  ASSUME NEW N \in Nat, NEW S \in SUBSET Nodes, NEW rows, \A e \in rows : e \subseteq Nodes
  PROVE  /\ BallsOf(rows, S, N)[0] = S
         /\ \A k \in 1..N : BallsOf(rows, S, N)[k] = Around(rows, BallsOf(rows, S, N)[k - 1])
         /\ \A k \in 0..N : BallsOf(rows, S, N)[k] \subseteq Nodes
<1> DEFINE h == [B \in SUBSET Nodes |-> Around(rows, B)]
           Next1(f) == [k \in 0..N |-> IF k = 0 THEN S ELSE Around(rows, f[k - 1])]
<1>2. h \in [SUBSET Nodes -> SUBSET Nodes]
  BY DEF Around
<1>3. PICK f \in [0..N -> SUBSET Nodes] : f[0] = S /\ \A k \in 1..N : f[k] = h[f[k - 1]]
  <2> DEFINE X == SUBSET Nodes
  <2>1. S \in X /\ \A B \in X : h[B] \in X
    BY <1>2
  <2> HIDE DEF h, X
  <2>2. PICK f : Iterates(f, N, X, S, h)
    BY <2>1, Recursion
  <2>3. f \in [0..N -> X] /\ f[0] = S /\ \A k \in 1..N : f[k] = h[f[k - 1]]
    BY <2>2 DEF Iterates
  <2> QED BY <2>3 DEF X
<1>4. f = Next1(f)
  <2>1. ASSUME NEW k \in 1..N PROVE f[k] = Around(rows, f[k - 1])
    <3>1. k - 1 \in 0..N
      OBVIOUS
    <3>2. f[k - 1] \in SUBSET Nodes
      BY <1>3, <3>1
    <3> QED BY <1>3, <3>2
  <2>2. ASSUME NEW k \in 0..N PROVE f[k] = IF k = 0 THEN S ELSE Around(rows, f[k - 1])
    <3>1. k = 0 \/ k \in 1..N
      OBVIOUS
    <3> QED BY <1>3, <2>1, <3>1
  <2>3. f = [k \in 0..N |-> f[k]]
    BY <1>3
  <2> QED BY <2>2, <2>3
<1>5. BallsOf(rows, S, N) = CHOOSE g : g = Next1(g)
  BY DEF BallsOf
<1>6. BallsOf(rows, S, N) = Next1(BallsOf(rows, S, N))
  BY <1>4, <1>5
<1> DEFINE balls == BallsOf(rows, S, N)
<1> HIDE DEF balls
<1>7. balls[0] = S /\ \A k \in 1..N : balls[k] = Around(rows, balls[k - 1])
  BY <1>6 DEF balls
<1> DEFINE T == {k \in 0..N : balls[k] \subseteq Nodes}
<1>8. 0 \in T
  BY <1>7
<1>9. ASSUME NEW k \in 1..N, k - 1 \in T PROVE k \in T
  BY <1>7, <1>9 DEF Around
<1>10. \A k \in 0..N : k \in T
  <2> HIDE DEF T
  <2> QED BY <1>8, <1>9, Induction
<1> QED BY <1>7, <1>10 DEF balls

LEMMA BallsGrow ==
  ASSUME NEW N \in Nat, NEW balls, NEW rows, \A k \in 1..N : balls[k] = Around(rows, balls[k - 1]),
         NEW k \in 0..N
  PROVE  balls[k] \subseteq balls[N]
<1> SUFFICES ASSUME NEW n \in balls[k] PROVE n \in balls[N]
  OBVIOUS
<1> DEFINE T == {j \in 0..(N - k) : n \in balls[k + j]}
<1>1. 0 \in T
  OBVIOUS
<1>2. ASSUME NEW j \in 1..(N - k), j - 1 \in T PROVE j \in T
  <2>1. k + j \in 1..N /\ (k + j) - 1 = k + (j - 1)
    OBVIOUS
  <2>2. balls[k + j] = Around(rows, balls[k + (j - 1)])
    BY <2>1
  <2> QED BY <1>2, <2>2 DEF Around
<1>3. N - k \in T
  <2> HIDE DEF T
  <2> QED BY <1>1, <1>2, Induction
<1> QED BY <1>3

\* Up to a depth below which the search is closed, the ball of a radius is what was
\* reached within it.
LEMMA BallsAreReached ==
  ASSUME SearchTypeOK, Labelled, NEW d \in Nat, d <= limit, ClosedBelow(d),
         NEW balls, NEW rows, \A e \in rows : \E n, m \in Nodes : e = {n, m},
         balls[0] = sources, \A k \in 1..d : balls[k] = Around(rows, balls[k - 1]),
         adjacency = Joining(rows)
  PROVE  \A k \in 0..d : balls[k] = {n \in Reached : distance[n] <= k}
<1> DEFINE T == {k \in 0..d : balls[k] = {n \in Reached : distance[n] <= k}}
<1>1. /\ limit \in Nat /\ Reached \subseteq Nodes
      /\ \A n \in Reached : distance[n] \in Nat
      /\ \A n \in Nodes : \A m : m \in adjacency[n] <=> m # n /\ {n, m} \in rows
  BY NeighboursAre, DepthsAreNatural DEF SearchTypeOK
<1>2. 0 \in T
  <2>1. \A n \in Reached : distance[n] <= 0 => n \in sources
    BY <1>1 DEF Labelled
  <2> QED BY <1>1, <2>1 DEF Labelled
<1>3. ASSUME NEW k \in 1..d, k - 1 \in T PROVE k \in T
  <2> DEFINE B == balls[k - 1]
  <2>1. B = {n \in Reached : distance[n] <= k - 1} /\ balls[k] = Around(rows, B)
    BY <1>3
  <2> HIDE DEF B
  <2>2. ASSUME NEW n \in balls[k] PROVE n \in Reached /\ distance[n] <= k
    <3>1. CASE n \in B
      BY <2>1, <3>1, <1>1
    <3>2. CASE n \notin B
      <4>1. PICK e \in rows : n \in e /\ e \cap B # {}
        BY <2>1, <2>2, <3>2 DEF Around
      <4>2. PICK m \in B : m \in e
        BY <4>1
      <4>3. e = {m, n} /\ m # n
        BY <3>2, <4>1, <4>2
      <4>4. m \in Reached /\ distance[m] <= k - 1 /\ n \in adjacency[m]
        BY <1>1, <2>1, <4>2, <4>3
      <4>5. n \in Reached /\ distance[n] <= distance[m] + 1
        BY <1>1, <4>4 DEF ClosedBelow
      <4> QED BY <1>1, <4>4, <4>5
    <3> QED BY <3>1, <3>2
  <2>3. ASSUME NEW n \in Reached, distance[n] <= k PROVE n \in balls[k]
    <3>1. CASE distance[n] <= k - 1
      BY <2>1, <2>3, <3>1 DEF Around
    <3>2. CASE ~ (distance[n] <= k - 1)
      <4> DEFINE m == parent[n]
      <4>1. distance[n] = k /\ n \notin sources
        BY <1>1, <2>3, <3>2 DEF Labelled
      <4>2. m \in Reached /\ n \in adjacency[m] /\ distance[n] = distance[m] + 1
        BY <4>1 DEF Labelled
      <4>3. m \in B /\ {m, n} \in rows
        <5> HIDE DEF m
        <5> QED BY <1>1, <2>1, <4>1, <4>2
      <4> QED BY <2>1, <4>3 DEF Around
    <3> QED BY <3>1, <3>2
  <2> QED BY <2>2, <2>3
<1>4. \A k \in 0..d : k \in T
  <2> HIDE DEF T
  <2> QED BY <1>2, <1>3, Induction
<1> QED BY <1>4

LEMMA DistanceIs ==
  ASSUME SearchTypeOK, NEW d \in Nat, d <= limit, NEW balls,
         \A k \in 0..d : balls[k] = {n \in Reached : distance[n] <= k}
  PROVE  /\ \A n \in Reached : distance[n] <= d => DistanceIn(balls, limit, n) = distance[n]
         /\ \A n \in balls[limit] : /\ DistanceIn(balls, limit, n) \in 0..limit
                                    /\ DistanceIn(balls, limit, n) < d => n \in Reached /\ distance[n] = DistanceIn(balls, limit, n)
<1>1. limit \in Nat /\ \A n \in Reached : distance[n] \in Nat
  BY DepthsAreNatural DEF SearchTypeOK
<1> DEFINE Radii(n) == {k \in 0..limit : n \in balls[k]}
<1>2. ASSUME NEW n, Radii(n) # {}
      PROVE  /\ DistanceIn(balls, limit, n) \in Radii(n)
             /\ \A k \in Radii(n) : DistanceIn(balls, limit, n) <= k
  <2>1. Radii(n) \in SUBSET Nat
    BY <1>1
  <2>2. DistanceIn(balls, limit, n) = Min(Radii(n))
    BY DEF DistanceIn
  <2> HIDE DEF Radii
  <2> QED BY <1>2, <2>1, <2>2, MinIsLeast
<1>3. ASSUME NEW n \in Reached, distance[n] <= d PROVE DistanceIn(balls, limit, n) = distance[n]
  <2>1. distance[n] \in Radii(n)
    BY <1>1, <1>3
  <2>2. DistanceIn(balls, limit, n) \in 0..d /\ n \in balls[DistanceIn(balls, limit, n)] /\ DistanceIn(balls, limit, n) <= distance[n]
    BY <1>1, <1>2, <1>3, <2>1
  <2> QED BY <1>1, <2>2
<1>4. ASSUME NEW n \in balls[limit]
      PROVE  /\ DistanceIn(balls, limit, n) \in 0..limit
             /\ DistanceIn(balls, limit, n) < d => n \in Reached /\ distance[n] = DistanceIn(balls, limit, n)
  <2>1. limit \in Radii(n)
    BY <1>1, <1>4
  <2>2. DistanceIn(balls, limit, n) \in 0..limit /\ n \in balls[DistanceIn(balls, limit, n)]
    BY <1>2, <2>1
  <2>3. DistanceIn(balls, limit, n) < d => n \in Reached /\ distance[n] <= d
    BY <1>1, <2>2
  <2> QED BY <1>3, <2>2, <2>3
<1> QED BY <1>3, <1>4

\* The last d steps of a walk that the parents make, to a node that was found.
IsTrail(t, d, found) ==
    /\ t \in Seq(Reached) /\ Len(t) = d + 1
    /\ t[d + 1] = found
    /\ distance[t[1]] + d = distance[found]
    /\ \A i \in 2..Len(t) : t[i] \in adjacency[t[i - 1]]
Longer(t) == <<parent[t[1]]>> \o t

LEMMA TrailGrows ==
  ASSUME SearchTypeOK, Labelled, NEW found \in Reached, NEW d \in 0..(distance[found] - 1), NEW t, IsTrail(t, d, found)
  PROVE  IsTrail(Longer(t), d + 1, found)
<1>1. distance[found] \in Nat /\ d \in Nat /\ \A n \in Reached : distance[n] \in Nat
  BY DEF SearchTypeOK
<1>2. t[1] \in Reached /\ distance[t[1]] + d = distance[found] /\ Len(t) = d + 1 /\ 1 \in 1..Len(t)
  BY <1>1 DEF IsTrail
<1>3. t[1] \notin sources
  BY <1>1, <1>2 DEF Labelled
<1> DEFINE p == parent[t[1]]
           q == Longer(t)
<1>4. p \in Reached /\ t[1] \in adjacency[p] /\ distance[t[1]] = distance[p] + 1
  BY <1>2, <1>3 DEF Labelled
<1> HIDE DEF p
<1>5. /\ q \in Seq(Reached) /\ Len(q) = d + 2
      /\ q[1] = p
      /\ \A i \in 2..(d + 2) : q[i] = t[i - 1]
  <2>1. t \in Seq(Reached) /\ <<p>> \in Seq(Reached) /\ Len(<<p>>) = 1 /\ <<p>>[1] = p
    BY <1>4 DEF IsTrail
  <2>2. q = <<p>> \o t
    BY DEF Longer, p
  <2>3. /\ q \in Seq(Reached) /\ Len(q) = 1 + Len(t)
        /\ \A i \in 1..Len(<<p>>) + Len(t) : q[i] = IF i <= Len(<<p>>) THEN <<p>>[i] ELSE t[i - Len(<<p>>)]
    <3> HIDE DEF q
    <3> QED BY <2>1, <2>2, ConcatProperties
  <2>4. \A i \in 1..(d + 2) : q[i] = IF i <= 1 THEN <<p>>[i] ELSE t[i - 1]
    BY <1>1, <1>2, <2>1, <2>3
  <2> QED BY <1>1, <1>2, <2>1, <2>3, <2>4
<1> HIDE DEF q
<1>6. q[(d + 1) + 1] = found
  <2>1. d + 2 \in 2..(d + 2) /\ (d + 2) - 1 = d + 1 /\ (d + 1) + 1 = d + 2
    BY <1>1
  <2>2. t[d + 1] = found
    BY DEF IsTrail
  <2> QED BY <1>5, <2>1, <2>2
<1>7. distance[q[1]] + (d + 1) = distance[found]
  <2>1. distance[p] \in Nat /\ q[1] = p
    BY <1>1, <1>4, <1>5
  <2>2. (distance[p] + 1) + d = distance[found]
    BY <1>2, <1>4
  <2> QED BY <1>1, <2>1, <2>2
<1>8. ASSUME NEW i \in 2..Len(q) PROVE q[i] \in adjacency[q[i - 1]]
  <2>1. i = 2 \/ (i - 1 \in 2..(d + 2) /\ i - 1 \in 2..Len(t))
    BY <1>1, <1>2, <1>5
  <2>2. CASE i = 2
    BY <1>1, <1>4, <1>5, <2>2
  <2>3. CASE i - 1 \in 2..(d + 2) /\ i - 1 \in 2..Len(t)
    <3>1. q[i] = t[i - 1] /\ q[i - 1] = t[(i - 1) - 1]
      BY <1>5, <2>3
    <3> QED BY <2>3, <3>1 DEF IsTrail
  <2> QED BY <2>1, <2>2, <2>3
<1>9. IsTrail(q, d + 1, found)
  BY <1>1, <1>5, <1>6, <1>7, <1>8 DEF IsTrail
<1> QED BY <1>9 DEF q

LEMMA TrailStarts ==
  ASSUME SearchTypeOK, NEW found \in Reached
  PROVE  IsTrail(<<found>>, 0, found)
BY DEF IsTrail, SearchTypeOK

\* The path of an answer: from a source, over rows, in as many steps as the distance.
LEMMA TrailIs ==
  ASSUME SearchTypeOK, Labelled, NEW found \in Reached
  PROVE  IsTrail(TrailTo(found), distance[found], found)
<1> DEFINE N == distance[found]
           X == {t \in Seq(Reached) : Len(t) > 0}
           h == [t \in X |-> IF t[1] \in DOMAIN parent /\ parent[t[1]] \in Reached THEN Longer(t) ELSE t]
           Next1(f) == [d \in 0..N |-> IF d = 0 THEN <<found>> ELSE <<parent[f[d - 1][1]]>> \o f[d - 1]]
<1>1. N \in Nat
  BY DEF SearchTypeOK
<1>2. <<found>> \in X
  OBVIOUS
<1>3. ASSUME NEW t \in X PROVE h[t] \in X
  <2>1. CASE t[1] \in DOMAIN parent /\ parent[t[1]] \in Reached
    <3> DEFINE p == parent[t[1]]
    <3>1. t \in Seq(Reached) /\ Len(t) > 0 /\ <<p>> \in Seq(Reached) /\ Len(<<p>>) = 1
      BY <2>1
    <3> HIDE DEF p
    <3>2. <<p>> \o t \in Seq(Reached) /\ Len(<<p>> \o t) = 1 + Len(t)
      BY <3>1, ConcatProperties
    <3>3. h[t] = <<p>> \o t
      BY <2>1 DEF Longer, p
    <3>4. Len(t) \in Nat
      BY <3>1, LenProperties
    <3> QED BY <3>1, <3>2, <3>3, <3>4
  <2>2. CASE ~ (t[1] \in DOMAIN parent /\ parent[t[1]] \in Reached)
    BY <2>2
  <2> QED BY <2>1, <2>2
<1>4. PICK f : Iterates(f, N, X, <<found>>, h)
  <2> HIDE DEF N, X, h
  <2> QED BY <1>1, <1>2, <1>3, Recursion
<1>5. f \in [0..N -> X] /\ f[0] = <<found>> /\ \A d \in 1..N : f[d] = h[f[d - 1]]
  BY <1>4 DEF Iterates
<1>6. ASSUME NEW d \in 0..(N - 1), IsTrail(f[d], d, found)
      PROVE  f[d + 1] = Longer(f[d])
  <2>1. d \in 0..N /\ d + 1 \in 1..N /\ (d + 1) - 1 = d
    BY <1>1
  <2>2. f[d] \in X /\ f[d + 1] = h[f[d]]
    BY <1>5, <2>1
  <2>3. f[d][1] \in Reached /\ distance[f[d][1]] + d = distance[found]
    BY <1>1, <1>6 DEF IsTrail
  <2>4. f[d][1] \notin sources
    BY <1>1, <2>3 DEF Labelled
  <2>5. f[d][1] \in DOMAIN parent /\ parent[f[d][1]] \in Reached
    BY <2>3, <2>4 DEF Labelled, SearchTypeOK
  <2> QED BY <2>2, <2>5
<1> HIDE DEF h, X
<1>7. ASSUME NEW g, g[0] = <<found>>,
             \A d \in 0..(N - 1) : IsTrail(g[d], d, found) => g[d + 1] = Longer(g[d])
      PROVE  \A d \in 0..N : IsTrail(g[d], d, found)
  <2> DEFINE T == {d \in 0..N : IsTrail(g[d], d, found)}
  <2>1. 0 \in T
    <3>1. IsTrail(<<found>>, 0, found)
      BY TrailStarts
    <3> QED BY <1>1, <1>7, <3>1
  <2>2. ASSUME NEW d \in 1..N, d - 1 \in T PROVE d \in T
    <3>1. d - 1 \in 0..(N - 1) /\ (d - 1) + 1 = d
      BY <1>1
    <3>2. IsTrail(Longer(g[d - 1]), (d - 1) + 1, found)
      BY <2>2, <3>1, TrailGrows
    <3> QED BY <1>7, <2>2, <3>1, <3>2
  <2> HIDE DEF T, N
  <2>3. \A d \in 0..N : d \in T
    BY <1>1, <2>1, <2>2, Induction
  <2> QED BY <2>3 DEF T
<1>8. \A d \in 0..N : IsTrail(f[d], d, found)
  BY <1>5, <1>6, <1>7
<1>9. f = Next1(f)
  <2>1. ASSUME NEW d \in 0..N PROVE f[d] = IF d = 0 THEN <<found>> ELSE <<parent[f[d - 1][1]]>> \o f[d - 1]
    <3>1. CASE d = 0
      BY <1>5, <3>1
    <3>2. CASE d # 0
      <4>1. d - 1 \in 0..(N - 1) /\ d - 1 \in 0..N /\ (d - 1) + 1 = d
        BY <1>1, <3>2
      <4> QED BY <1>6, <1>8, <3>2, <4>1 DEF Longer
    <3> QED BY <3>1, <3>2
  <2>2. f = [d \in 0..N |-> f[d]]
    BY <1>5
  <2> QED BY <2>1, <2>2
<1> DEFINE g == CHOOSE t : t = Next1(t)
<1>10. g = Next1(g)
  BY <1>9
<1>11. TrailTo(found) = g[N]
  BY DEF TrailTo
<1> HIDE DEF g
<1>12. g[0] = <<found>>
  BY <1>1, <1>10
<1>13. ASSUME NEW d \in 0..(N - 1) PROVE g[d + 1] = Longer(g[d])
  <2>1. d + 1 \in 0..N /\ d + 1 # 0 /\ (d + 1) - 1 = d
    BY <1>1
  <2> QED BY <1>10, <2>1 DEF Longer
<1>14. IsTrail(g[N], N, found)
  BY <1>1, <1>7, <1>12, <1>13
<1> QED BY <1>11, <1>14
-----------------------------------------------------------------------------
(* The invariant of a request.  Its answer is that of the last build if all *)
(* queries came after it: then nothing was read of another.  A request is   *)
(* fresh if there was no rebuild since it came, or none since it read its   *)
(* sources, which are objects of the last build then.                       *)

Fresh == asked = Now \/ \E n \in sources : n.build = Now
Ends(b) == EndsOf(b, request.source) \cup EndsOf(b, request.destination)
IsFarthest(d) ==
    /\ d \in Balls(Now)[limit] /\ d.build = Now
    /\ DistanceIn(Balls(Now), limit, d) = EccentricityIn(Balls(Now), limit)
    /\ graphs[Now].fabric[d.unit] \in FabricsOf(Ends(Now))

ResolverTypeOK ==
    /\ graphs \in Seq(Graphs) /\ Now \in 1..MaxBuilds
    /\ asked \in 0..Now /\ (step # "idle" => asked # 0)
    /\ request \in Requests /\ limit = request.depth
    /\ step \in {"idle", "source", "destination", "scope", "plane", "edges", "maps", "search", "planes", "done"}
    /\ mode # "off" => step \in {"search", "planes", "done"}
    /\ step \in {"idle", "source"} => sources = {}
    /\ DOMAIN answer = {"is", "nodes", "planes"}
    /\ answer.is = "path" => answer.nodes \in Seq(Nodes)
    /\ answer.is = "refused" => step = "done"
TargetsAsked ==
    step \notin {"idle", "done"} => \A t \in {request.source, request.destination} :
        t = NoTarget \/ t.kind = "netbox" \/ t.build = asked
PlaneChosen ==
    step # "idle" /\ answer.is # "refused" /\ request.entry = "page" /\ request.plane # NoPlane => plane = request.plane
BuildsKept ==
    /\ \A n \in sources \cup destinations : n.build \in 1..Now
    /\ \A n, m \in sources : n.build = m.build
    /\ \A n \in Nodes : \A m \in adjacency[n] : m.build = n.build
    /\ \A n \in Reached : \E s \in sources : s.build = n.build
SourcesRead ==
    step \in {"destination", "scope", "plane", "edges", "maps", "search"} =>
        /\ Fresh => sources = EndsOf(Now, request.source)
        /\ sources # {} \/ request.kind = "blast"
DestinationsRead ==
    step \in {"scope", "plane", "edges", "maps", "search"} =>
        /\ request.kind = "path" => destinations # {} /\ (Fresh => destinations = EndsOf(Now, request.destination))
        /\ request.kind \in {"reach", "blast"} => destinations = {}
        /\ request.kind = "farthest" /\ Fresh /\ destinations # {} => \E d \in Nodes : destinations = {d} /\ IsFarthest(d)
ScopeRead ==
    Fresh /\ sources # {} =>
        /\ step \in {"plane", "edges", "maps", "search"} => fabrics = FabricsOf(Ends(Now))
        /\ step \in {"edges", "maps", "search"} => allowed = MembersOf(Now, plane)
        /\ step = "maps" => adjacency = Joining(Rows(Now, graphs[Now].edges, fabrics, allowed))
        /\ step = "search" => adjacency = Joining(AllRows(Now))
Named == answer.is = "path" \/ (answer.is \in {"reach", "blast"} /\ answer.nodes # {})
RightAnswer ==
    /\ step \in {"planes", "done"} =>
        /\ asked = Now /\ answer.is # "refused" => IsAnswerOf(Now, answer)
        /\ Named => \E b \in asked..Now : IsAnswerOf(b, answer)
    /\ step = "planes" => answer.is = "path"
    /\ step = "done" /\ asked = Now /\ answer.is = "path" => answer.planes = PlanesOf(Elements(answer.nodes))

RInv ==
    /\ SInv
    /\ ResolverTypeOK
    /\ TargetsAsked
    /\ PlaneChosen
    /\ BuildsKept
    /\ SourcesRead
    /\ DestinationsRead
    /\ ScopeRead
    /\ RightAnswer

-----------------------------------------------------------------------------
(* What a build says does not change with the builds after it. *)

KeepGraphs ==
    /\ request' = request /\ plane' = plane /\ limit' = limit
    /\ \A c \in 1..Now : graphs'[c] = graphs[c]

LEMMA EndsKept ==
  ASSUME KeepGraphs, NEW b \in 1..Now, NEW t
  PROVE  EndsOf(b, t)' = EndsOf(b, t)
<1>1. graphs'[b] = graphs[b] /\ Signal' = Signal
  BY DEF KeepGraphs, Signal
<1>2. UnitsOf(b, t)' = UnitsOf(b, t)
  BY <1>1 DEF UnitsOf, Node
<1>3. \A u : Lanes(b, u)' = Lanes(b, u)
  BY <1>1 DEF Lanes, Node
<1> DEFINE lit == {n.unit : n \in {m \in UnitsOf(b, t) : m.build = b /\ graphs[b].lanes[m.unit] > 0}}
<1>4. lit' = lit
  BY <1>1, <1>2
<1>5. LanesOf(b, t) = IF lit = {} THEN {} ELSE {n \in Lanes(b, Min(lit)) : t.lane # 0 => n.lane = t.lane}
  BY DEF LanesOf
<1>6. LanesOf(b, t)' = (IF lit = {} THEN {} ELSE {n \in Lanes(b, Min(lit)) : t.lane # 0 => n.lane = t.lane})'
  BY DEF LanesOf
<1> HIDE DEF lit
<1>7. LanesOf(b, t)' = LanesOf(b, t)
  BY <1>3, <1>4, <1>5, <1>6
<1> QED BY <1>1, <1>2, <1>7 DEF EndsOf

LEMMA RowsKept ==
  ASSUME KeepGraphs, NEW b \in 1..Now, NEW P, NEW F, NEW A
  PROVE  Rows(b, P, F, A)' = Rows(b, P, F, A)
<1>1. graphs'[b] = graphs[b] /\ Signal' = Signal
  BY DEF KeepGraphs, Signal
<1> QED BY <1>1 DEF Rows, Node

LEMMA FabricsKept ==
  ASSUME KeepGraphs, NEW S, \A n \in S : n.build \in 1..Now
  PROVE  FabricsOf(S)' = FabricsOf(S)
BY DEF KeepGraphs, FabricsOf

LEMMA MembersKept ==
  ASSUME KeepGraphs, NEW b \in 1..Now, NEW p
  PROVE  MembersOf(b, p)' = MembersOf(b, p)
<1> DEFINE U == {w \in graphs[b].units : p.number \in graphs[b].planes[w]}
<1>1. U' = U
  BY DEF KeepGraphs
<1>2. MembersOf(b, p) = IF p = NoPlane THEN Units0 ELSE IF p.build = b THEN {Node(b, u, 0) : u \in U} ELSE {}
  BY DEF MembersOf
<1>3. MembersOf(b, p)' = IF p = NoPlane THEN Units0 ELSE IF p.build = b THEN {Node(b, u, 0) : u \in U'} ELSE {}
  BY DEF MembersOf, Units0, Node
<1> HIDE DEF U
<1> QED BY <1>1, <1>2, <1>3

\* The targets of the request, and what they are in a build.
LEMMA TargetsKnown ==
  ASSUME ResolverTypeOK, TargetsAsked, step \notin {"idle", "done"}
  PROVE  Built /\ Known(request.source) /\ Known(request.destination)
<1>1. asked \in 1..Now
  BY DEF ResolverTypeOK, Now
<1> QED BY <1>1, RequestsAreRequests DEF ResolverTypeOK, TargetsAsked, Built, Known, IsRequest

LEMMA EndsBuilt ==
  ASSUME Built, Known(request.source), Known(request.destination), NEW b \in 1..Now
  PROVE  Ends(b) \subseteq Nodes /\ \A n \in Ends(b) : n.build \in 1..Now
BY EndsAreNodes DEF Ends

LEMMA AllRowsKept ==
  ASSUME Built, Known(request.source), Known(request.destination), KeepGraphs, NEW b \in 1..Now
  PROVE  Ends(b)' = Ends(b) /\ FabricsOf(Ends(b))' = FabricsOf(Ends(b)) /\ AllRows(b)' = AllRows(b)
<1>1. \A t : EndsOf(b, t)' = EndsOf(b, t)
  BY EndsKept
<1>2. Ends(b)' = Ends(b)
  BY <1>1 DEF Ends, KeepGraphs
<1>3. PICK E : E = Ends(b)
  OBVIOUS
<1>4. FabricsOf(E)' = FabricsOf(E)
  BY <1>3, EndsBuilt, FabricsKept
<1>5. FabricsOf(Ends(b))' = FabricsOf(Ends(b))
  BY <1>2, <1>3, <1>4
<1>6. PICK P : P = graphs[b].edges \cup graphs[b].maps
  OBVIOUS
<1>7. PICK F : F = FabricsOf(Ends(b))
  OBVIOUS
<1>8. PICK A : A = MembersOf(b, plane)
  OBVIOUS
<1>9. Rows(b, P, F, A)' = Rows(b, P, F, A)
  BY RowsKept
<1>10. MembersOf(b, plane)' = MembersOf(b, plane)
  <2>1. PICK p : p = plane
    OBVIOUS
  <2>2. MembersOf(b, p)' = MembersOf(b, p)
    BY MembersKept
  <2> QED BY <2>1, <2>2 DEF KeepGraphs
<1>11. AllRows(b) = Rows(b, P, F, A)
  BY <1>6, <1>7, <1>8 DEF AllRows, Ends
<1>12. (graphs[b].edges \cup graphs[b].maps)' = P
  BY <1>6 DEF KeepGraphs
<1>13. AllRows(b)' = Rows(b, P, F, A)'
  BY <1>5, <1>7, <1>8, <1>10, <1>12 DEF AllRows, Ends
<1> QED BY <1>2, <1>5, <1>9, <1>11, <1>13

LEMMA AnswersKept ==
  ASSUME Built, Known(request.source), Known(request.destination), KeepGraphs, NEW b \in 1..Now, NEW a
  PROVE  IsAnswerOf(b, a)' = IsAnswerOf(b, a) /\ Balls(b)' = Balls(b)
<1>1. AllRows(b)' = AllRows(b)
  BY AllRowsKept
<1>2. EndsOf(b, request.source)' = EndsOf(b, request.source) /\ EndsOf(b, request.destination)' = EndsOf(b, request.destination)
  <2>1. PICK s : s = request.source
    OBVIOUS
  <2>2. PICK d : d = request.destination
    OBVIOUS
  <2>3. EndsOf(b, s)' = EndsOf(b, s) /\ EndsOf(b, d)' = EndsOf(b, d)
    BY EndsKept
  <2> QED BY <2>1, <2>2, <2>3 DEF KeepGraphs
<1>3. Balls(b)' = Balls(b)
  BY <1>1, <1>2 DEF Balls, KeepGraphs
<1>4. /\ FabricsOf(EndsOf(b, request.source))' = FabricsOf(EndsOf(b, request.source))
      /\ FabricsOf(EndsOf(b, request.destination))' = FabricsOf(EndsOf(b, request.destination))
  <2>1. PICK S : S = EndsOf(b, request.source)
    OBVIOUS
  <2>2. PICK D : D = EndsOf(b, request.destination)
    OBVIOUS
  <2>3. FabricsOf(S)' = FabricsOf(S) /\ FabricsOf(D)' = FabricsOf(D)
    BY <2>1, <2>2, EndsBuilt, FabricsKept DEF Ends
  <2> QED BY <1>2, <2>1, <2>2, <2>3
<1>5. request' = request /\ limit' = limit /\ Signal' = Signal
  BY DEF KeepGraphs, Signal
<1>6. IsPathIn(b, a.nodes)' = IsPathIn(b, a.nodes)
  BY <1>1, <1>2, <1>3, <1>5 DEF IsPathIn
<1>7. NoPathIn(b)' = NoPathIn(b)
  BY <1>2, <1>3, <1>4, <1>5 DEF NoPathIn
<1>8. IsAnswerOf(b, a)' = IsAnswerOf(b, a)
  BY <1>3, <1>5, <1>6, <1>7 DEF IsAnswerOf
<1> QED BY <1>3, <1>8

-----------------------------------------------------------------------------
(* What a search over the rows of the last build has found, when it is over *)

LEMMA AllRowsArePairs ==
  ASSUME Built, NEW b \in 1..Now, NEW e \in AllRows(b)
  PROVE  \E n, m \in Nodes :
            /\ e = {n, m} /\ n.build = b /\ m.build = b
            /\ \A x \in {n, m} : graphs[b].fabric[x.unit] \in FabricsOf(Ends(b)) /\ Node(b, x.unit, 0) \in MembersOf(b, plane)
<1> DEFINE P == graphs[b].edges \cup graphs[b].maps
           F == FabricsOf(Ends(b))
           A == MembersOf(b, plane)
<1>1. e \in Rows(b, P, F, A)
  BY DEF AllRows, Ends
<1>2. P \in SUBSET (graphs[b].edges \cup graphs[b].maps)
  OBVIOUS
<1> HIDE DEF P, F, A
<1>3. \E n, m \in Nodes :
            /\ e = {n, m} /\ n.build = b /\ m.build = b
            /\ \A x \in {n, m} : graphs[b].fabric[x.unit] \in F /\ Node(b, x.unit, 0) \in A
  BY <1>1, <1>2, RowIs
<1> QED BY <1>3 DEF F, A

LEMMA BallsOfBuild ==
  ASSUME Built, Known(request.source), limit \in Nat, NEW b \in 1..Now
  PROVE  /\ Balls(b)[0] = EndsOf(b, request.source)
         /\ \A k \in 1..limit : Balls(b)[k] = Around(AllRows(b), Balls(b)[k - 1])
         /\ \A k \in 0..limit : Balls(b)[k] \subseteq Nodes
         /\ \A k \in 0..limit : Balls(b)[k] \subseteq Balls(b)[limit]
<1> DEFINE S == EndsOf(b, request.source)
           rows == AllRows(b)
<1>1. S \in SUBSET Nodes /\ \A e \in rows : e \subseteq Nodes
  BY EndsAreNodes, AllRowsArePairs
<1> HIDE DEF S, rows
<1>2. /\ BallsOf(rows, S, limit)[0] = S
      /\ \A k \in 1..limit : BallsOf(rows, S, limit)[k] = Around(rows, BallsOf(rows, S, limit)[k - 1])
      /\ \A k \in 0..limit : BallsOf(rows, S, limit)[k] \subseteq Nodes
  BY <1>1, BallsAre
<1>3. Balls(b) = BallsOf(rows, S, limit)
  BY DEF Balls, S, rows
<1> DEFINE balls == Balls(b)
<1>4. /\ balls[0] = S
      /\ \A k \in 1..limit : balls[k] = Around(rows, balls[k - 1])
      /\ \A k \in 0..limit : balls[k] \subseteq Nodes
  BY <1>2, <1>3
<1> HIDE DEF balls
<1>5. \A k \in 0..limit : balls[k] \subseteq balls[limit]
  BY <1>4, BallsGrow
<1> QED BY <1>4, <1>5 DEF balls, S, rows

LEMMA NothingAround ==
  ASSUME Built, Known(request.source), limit \in Nat, NEW b \in 1..Now, EndsOf(b, request.source) = {}
  PROVE  Balls(b)[limit] = {}
<1> DEFINE balls == Balls(b)
           T == {k \in 0..limit : balls[k] = {}}
<1>1. balls[0] = {} /\ \A k \in 1..limit : balls[k] = Around(AllRows(b), balls[k - 1])
  BY BallsOfBuild
<1> HIDE DEF balls
<1>2. 0 \in T
  BY <1>1
<1>3. ASSUME NEW k \in 1..limit, k - 1 \in T PROVE k \in T
  BY <1>1, <1>3 DEF Around
<1>4. \A k \in 0..limit : k \in T
  <2> HIDE DEF T
  <2> QED BY <1>2, <1>3, Induction
<1> QED BY <1>4 DEF balls

\* What holds while the queries of a fresh request are answered.
Reading == Built /\ Known(request.source) /\ Known(request.destination) /\ SInv

SearchingNow ==
    /\ sources = EndsOf(Now, request.source)
    /\ adjacency = Joining(AllRows(Now))

LEMMA DistancesBelow ==
  ASSUME Reading, SearchingNow, Labelled, NEW d \in Nat, d <= limit, ClosedBelow(d)
  PROVE  /\ \A k \in 0..d : Balls(Now)[k] = {n \in Reached : distance[n] <= k}
         /\ \A n \in Reached : distance[n] <= d => DistanceIn(Balls(Now), limit, n) = distance[n]
         /\ \A n \in Balls(Now)[limit] :
                /\ DistanceIn(Balls(Now), limit, n) \in 0..limit
                /\ DistanceIn(Balls(Now), limit, n) < d => n \in Reached /\ distance[n] = DistanceIn(Balls(Now), limit, n)
<1>1. SearchTypeOK /\ limit \in Nat /\ Now \in 1..Now
  BY DepthsAreNatural DEF Reading, SInv, SearchTypeOK, Built
<1> DEFINE balls == Balls(Now)
           rows == AllRows(Now)
<1>2. balls[0] = sources /\ \A k \in 1..limit : balls[k] = Around(rows, balls[k - 1])
  BY <1>1, BallsOfBuild DEF Reading, SearchingNow
<1>3. \A e \in rows : \E n, m \in Nodes : e = {n, m}
  <2> SUFFICES ASSUME NEW e \in rows PROVE \E n, m \in Nodes : e = {n, m}
    OBVIOUS
  <2> QED BY <1>1, AllRowsArePairs DEF Reading
<1>4. adjacency = Joining(rows)
  BY DEF SearchingNow
<1> HIDE DEF balls, rows
<1>5. \A k \in 1..d : balls[k] = Around(rows, balls[k - 1])
  BY <1>1, <1>2
<1>6. \A k \in 0..d : balls[k] = {n \in Reached : distance[n] <= k}
  BY <1>1, <1>2, <1>3, <1>4, <1>5, BallsAreReached
<1>7. /\ \A n \in Reached : distance[n] <= d => DistanceIn(balls, limit, n) = distance[n]
      /\ \A n \in balls[limit] :
                /\ DistanceIn(balls, limit, n) \in 0..limit
                /\ DistanceIn(balls, limit, n) < d => n \in Reached /\ distance[n] = DistanceIn(balls, limit, n)
  BY <1>1, <1>6, DistanceIs
<1> QED BY <1>6, <1>7 DEF balls

LEMMA ExhaustedIs ==
  ASSUME Reading, SearchingNow, mode = "exhausted"
  PROVE  /\ Balls(Now)[limit] = Reached
         /\ \A n \in Reached : distance[n] \in 0..limit /\ DistanceIn(Balls(Now), limit, n) = distance[n]
         /\ Reached \cap destinations = {}
<1>1. Labelled /\ ClosedBelow(limit) /\ Reached \cap destinations = {}
  BY SInvExact DEF Reading, SearchExact
<1>2. limit \in Nat /\ \A n \in Reached : distance[n] \in Nat /\ distance[n] <= limit
  BY <1>1, DepthsAreNatural DEF Reading, SInv, SearchTypeOK, Labelled
<1>3. /\ \A k \in 0..limit : Balls(Now)[k] = {n \in Reached : distance[n] <= k}
      /\ \A n \in Reached : distance[n] <= limit => DistanceIn(Balls(Now), limit, n) = distance[n]
  BY <1>1, <1>2, DistancesBelow
<1>4. Balls(Now)[limit] = Reached
  BY <1>2, <1>3
<1>5. \A n \in Reached : distance[n] \in 0..limit /\ DistanceIn(Balls(Now), limit, n) = distance[n]
  BY <1>2, <1>3
<1> QED BY <1>1, <1>4, <1>5

LEMMA FoundIs ==
  ASSUME Reading, SearchingNow, mode = "found"
  PROVE  /\ Head(queue) \in destinations \cap Reached \cap Balls(Now)[limit]
         /\ distance[Head(queue)] \in 0..limit
         /\ DistanceIn(Balls(Now), limit, Head(queue)) = distance[Head(queue)]
         /\ \A n \in destinations \cap Balls(Now)[limit] :
                /\ DistanceIn(Balls(Now), limit, n) \in 0..limit
                /\ DistanceIn(Balls(Now), limit, n) >= distance[Head(queue)]
         /\ Labelled
<1> DEFINE found == Head(queue)
<1>1. /\ found \in destinations \cap Reached
      /\ Labelled
      /\ ClosedBelow(distance[found])
      /\ \A u \in Reached \cap destinations : distance[u] >= distance[found]
  BY SInvExact DEF Reading, SearchExact
<1>2. limit \in Nat /\ \A n \in Reached : distance[n] \in Nat /\ distance[n] <= limit
  BY <1>1, DepthsAreNatural DEF Reading, SInv, SearchTypeOK, Labelled
<1> HIDE DEF found
<1> DEFINE d == distance[found]
<1>3. d \in Nat /\ d <= limit
  BY <1>1, <1>2
<1>4. /\ \A k \in 0..d : Balls(Now)[k] = {n \in Reached : distance[n] <= k}
      /\ \A n \in Reached : distance[n] <= d => DistanceIn(Balls(Now), limit, n) = distance[n]
      /\ \A n \in Balls(Now)[limit] :
                /\ DistanceIn(Balls(Now), limit, n) \in 0..limit
                /\ DistanceIn(Balls(Now), limit, n) < d => n \in Reached /\ distance[n] = DistanceIn(Balls(Now), limit, n)
  BY <1>1, <1>3, DistancesBelow
<1>5. found \in Balls(Now)[limit]
  <2>1. found \in Balls(Now)[d]
    BY <1>1, <1>3, <1>4
  <2>2. Balls(Now)[d] \subseteq Balls(Now)[limit]
    BY <1>2, <1>3, BallsOfBuild DEF Reading, Built
  <2> QED BY <2>1, <2>2
<1>6. ASSUME NEW n \in destinations \cap Balls(Now)[limit] PROVE DistanceIn(Balls(Now), limit, n) >= d
  BY <1>1, <1>2, <1>3, <1>4
<1> QED BY <1>1, <1>2, <1>3, <1>4, <1>5, <1>6 DEF found

LEMMA PathIs ==
  ASSUME Reading, SearchingNow, mode = "found",
         request.kind = "path" => destinations = EndsOf(Now, request.destination),
         request.kind = "farthest" => \E d \in Nodes : destinations = {d} /\ IsFarthest(d)
  PROVE  /\ IsPathIn(Now, TrailTo(Head(queue)))
         /\ TrailTo(Head(queue)) \in Seq(Reached)
         /\ Elements(TrailTo(Head(queue))) \subseteq Reached
<1> DEFINE found == Head(queue)
           t == TrailTo(found)
           balls == Balls(Now)
           d == distance[found]
           rows == AllRows(Now)
<1>1. /\ found \in destinations \cap Reached \cap balls[limit]
      /\ d \in 0..limit
      /\ DistanceIn(balls, limit, found) = d
      /\ \A n \in destinations \cap balls[limit] : DistanceIn(balls, limit, n) \in 0..limit /\ DistanceIn(balls, limit, n) >= d
      /\ Labelled
  BY FoundIs
<1>2. SearchTypeOK /\ limit \in Nat /\ Now \in 1..Now /\ \A n \in Reached : distance[n] \in Nat
  BY DepthsAreNatural DEF Reading, SInv, SearchTypeOK, Built
<1> HIDE DEF found, balls
<1>3. IsTrail(t, d, found)
  BY <1>1, <1>2, TrailIs
<1> HIDE DEF t, d, rows
<1>4. /\ t \in Seq(Reached) /\ Len(t) = d + 1 /\ t[d + 1] = found
      /\ distance[t[1]] + d = d
      /\ \A i \in 2..Len(t) : t[i] \in adjacency[t[i - 1]]
  BY <1>3 DEF IsTrail, d
<1>5. DOMAIN t = 1..(d + 1) /\ 1 \in 1..(d + 1) /\ d \in Nat /\ \A i \in 1..(d + 1) : t[i] \in Reached
  BY <1>1, <1>2, <1>4, ElementOfSeq, LenProperties
<1>6. t[1] \in EndsOf(Now, request.source)
  <2>1. distance[t[1]] = 0 /\ t[1] \in Reached
    BY <1>2, <1>4, <1>5
  <2>2. t[1] \in sources
    BY <1>1, <1>2, <2>1 DEF Labelled
  <2> QED BY <2>2 DEF SearchingNow
<1>7. \A e \in rows : \E n, m \in Nodes : e = {n, m}
  <2> SUFFICES ASSUME NEW e \in rows PROVE \E n, m \in Nodes : e = {n, m}
    OBVIOUS
  <2> QED BY <1>2, AllRowsArePairs DEF Reading, rows
<1>8. ASSUME NEW i \in 2..Len(t) PROVE {t[i - 1], t[i]} \in rows
  <2>1. i - 1 \in 1..(d + 1) /\ t[i] \in adjacency[t[i - 1]]
    BY <1>4, <1>5, <1>8
  <2>2. t[i - 1] \in Nodes
    BY <1>2, <1>5, <2>1 DEF SearchTypeOK
  <2>3. adjacency = Joining(rows)
    BY DEF SearchingNow, rows
  <2>4. \A n \in Nodes : \A m : m \in Joining(rows)[n] => {n, m} \in rows
    BY <1>7, NeighboursAre
  <2> QED BY <2>1, <2>2, <2>3, <2>4
<1>9. Len(t) - 1 = d /\ Len(t) = d + 1
  BY <1>4, <1>5
<1>10. ASSUME request.kind = "path"
       PROVE  /\ found \in EndsOf(Now, request.destination) \cap balls[limit]
              /\ d = Min({DistanceIn(balls, limit, n) : n \in EndsOf(Now, request.destination) \cap balls[limit]})
  <2> DEFINE R == EndsOf(Now, request.destination) \cap balls[limit]
             M == {DistanceIn(balls, limit, n) : n \in R}
  <2>1. R = destinations \cap balls[limit] /\ found \in R
    BY <1>1, <1>10
  <2>2. M \in SUBSET Nat /\ d \in M /\ \A m \in M : m >= d
    BY <1>1, <1>2, <2>1
  <2> HIDE DEF M
  <2>3. Min(M) \in M /\ \A m \in M : Min(M) <= m
    BY <2>2, MinIsLeast
  <2>4. PICK p : p = Min(M)
    OBVIOUS
  <2>5. p \in Nat /\ d \in Nat /\ p <= d /\ p >= d
    BY <1>5, <2>2, <2>3, <2>4
  <2> QED BY <2>1, <2>4, <2>5 DEF M
<1>11. ASSUME request.kind = "farthest" PROVE d = EccentricityIn(balls, limit)
  BY <1>1, <1>11 DEF IsFarthest, balls
<1>12. IsPathIn(Now, t)
  <2>1. request.kind = "path" =>
          /\ t[Len(t)] \in EndsOf(Now, request.destination) \cap balls[limit]
          /\ Len(t) - 1 = Min({DistanceIn(balls, limit, n) : n \in EndsOf(Now, request.destination) \cap balls[limit]})
    BY <1>4, <1>9, <1>10
  <2>2. request.kind = "farthest" => Len(t) - 1 = EccentricityIn(balls, limit)
    BY <1>9, <1>11
  <2> QED BY <1>6, <1>8, <2>1, <2>2 DEF IsPathIn, balls, rows
<1>13. Elements(t) \subseteq Reached
  BY <1>5 DEF Elements
<1> QED BY <1>4, <1>12, <1>13 DEF t, found

\* The lane chosen is one of those that are farthest.
LEMMA FarthestChosen ==
  ASSUME SInv, mode = "exhausted", sources # {}
  PROVE  \E d \in Reached : /\ Farthest = IF d.build = Now THEN {d} ELSE sources
                            /\ distance[d] \in 0..limit
                            /\ \A n \in Reached : distance[d] >= distance[n]
<1> DEFINE far == {n \in Reached : distance[n] = Max({distance[m] : m \in Reached})}
           Before(n, m) == n.unit < m.unit \/ (n.unit = m.unit /\ n.lane <= m.lane)
           first == CHOOSE n \in far : \A m \in far : Before(n, m)
           E == {distance[m] : m \in Reached}
<1>1. SearchTypeOK /\ Labelled /\ limit \in Nat /\ Reached \subseteq Nodes
  BY DepthsAreNatural DEF SInv, SearchTypeOK
<1>2. Reached # {} /\ \A n \in Reached : distance[n] \in 0..limit
  BY <1>1 DEF SearchTypeOK, Labelled
<1>3. E \in SUBSET Nat /\ E # {} /\ \A n \in E : n <= limit
  BY <1>1, <1>2
<1>4. Max(E) \in E /\ \A n \in E : Max(E) >= n
  <2> HIDE DEF E
  <2> QED BY <1>1, <1>3, MaxIsGreatest
<1>5. far # {}
  BY <1>4
<1>6. ASSUME NEW n \in far PROVE n.unit \in Nat /\ n.lane \in Nat
  <2>1. n \in Reached /\ n \in [build : 1..MaxBuilds, unit : Units, lane : 0..MaxLanes]
    BY <1>1, NodesAreObjects
  <2>2. n.unit \in Units /\ n.lane \in 0..MaxLanes
    BY <2>1
  <2>3. n.unit \in Nat
    BY <2>2, NodesAreObjects
  <2>4. n.lane \in Nat
    BY <2>2, NodesAreObjects
  <2> QED BY <2>3, <2>4
<1> HIDE DEF far
<1>7. \E n \in far : \A m \in far : Before(n, m)
  <2> DEFINE U == {n.unit : n \in far}
  <2>1. U \in SUBSET Nat /\ U # {}
    BY <1>5, <1>6
  <2>2. PICK u \in U : \A w \in U : u <= w
    <3> HIDE DEF U
    <3> QED BY <2>1, HasLeast
  <2> DEFINE L == {n.lane : n \in {m \in far : m.unit = u}}
  <2>3. L \in SUBSET Nat /\ L # {}
    BY <1>6, <2>2
  <2>4. PICK l \in L : \A k \in L : l <= k
    <3> HIDE DEF L
    <3> QED BY <2>3, HasLeast
  <2>5. PICK n \in far : n.unit = u /\ n.lane = l
    BY <2>4
  <2>6. ASSUME NEW m \in far PROVE Before(n, m)
    <3>1. u <= m.unit /\ u \in Nat /\ m.unit \in Nat
      BY <1>6, <2>1, <2>2
    <3>2. CASE m.unit = u
      BY <2>4, <2>5, <3>2
    <3>3. CASE u < m.unit
      BY <2>5, <3>3
    <3> QED BY <3>1, <3>2, <3>3
  <2> QED BY <2>6
<1>8. first \in far
  BY <1>7
<1>9. Farthest = IF first.build = Now THEN {first} ELSE sources
  BY DEF Farthest, far
<1> HIDE DEF first
<1>10. first \in Reached /\ distance[first] = Max(E)
  BY <1>8 DEF far
<1> QED BY <1>2, <1>4, <1>9, <1>10

LEMMA FarthestIs ==
  ASSUME Reading, SearchingNow, mode = "exhausted", NEW d \in Reached, \A n \in Reached : distance[d] >= distance[n]
  PROVE  /\ d \in Balls(Now)[limit]
         /\ DistanceIn(Balls(Now), limit, d) = EccentricityIn(Balls(Now), limit)
<1> DEFINE balls == Balls(Now)
           D == {0} \cup {DistanceIn(balls, limit, n) : n \in balls[limit]}
<1>1. /\ balls[limit] = Reached
      /\ \A n \in Reached : distance[n] \in 0..limit /\ DistanceIn(balls, limit, n) = distance[n]
  BY ExhaustedIs
<1> HIDE DEF balls
<1>2. D = {0} \cup {distance[n] : n \in Reached}
  BY <1>1
<1>3. distance[d] \in Nat /\ \A n \in D : n \in Nat /\ n <= distance[d]
  BY <1>1, <1>2
<1>4. distance[d] \in D /\ D \in SUBSET Nat
  BY <1>2, <1>3
<1> HIDE DEF D
<1>5. Max(D) \in D /\ Max(D) >= distance[d]
  BY <1>3, <1>4, MaxIsGreatest
<1>6. PICK p : p = Max(D)
  OBVIOUS
<1>7. p \in Nat /\ p >= distance[d] /\ p <= distance[d]
  BY <1>3, <1>5, <1>6
<1>8. p = distance[d]
  BY <1>3, <1>7
<1>9. EccentricityIn(balls, limit) = distance[d]
  BY <1>6, <1>8 DEF EccentricityIn, D
<1> QED BY <1>1, <1>9 DEF balls

-----------------------------------------------------------------------------
(* Every step keeps the invariant. *)

LEMMA SameSearch == ASSUME SInv, UNCHANGED search PROVE SInv'
BY StepKeeps

LEMMA StartKeeps ==
  ASSUME SInv, mode = "off", mode' = mode, SearchTypeOK'
  PROVE  SInv'
BY DEF SInv

LEMMA RebuildKeeps ==
  ASSUME RInv, NEW g \in Graphs, Rebuild(g)
  PROVE  RInv'
<1>1. /\ graphs \in Seq(Graphs) /\ Len(graphs) \in 1..MaxBuilds /\ Len(graphs) < MaxBuilds
      /\ graphs' = Append(graphs, g) /\ UNCHANGED search
      /\ UNCHANGED <<asked, request, step, plane, fabrics, allowed, answer>>
      /\ step # "done" /\ asked \in 0..Len(graphs)
  BY DEF Rebuild, RInv, ResolverTypeOK, Now
<1>2. /\ graphs' \in Seq(Graphs) /\ Now' = Now + 1 /\ Now' \in 1..MaxBuilds
      /\ \A c \in 1..Now : graphs'[c] = graphs[c]
  BY <1>1, AppendProperties, NodesAreObjects DEF Now
<1>3. SInv'
  BY <1>1, SameSearch DEF RInv
<1>4. sources' = sources /\ destinations' = destinations /\ limit' = limit /\ mode' = mode /\ adjacency' = adjacency /\ distance' = distance
  BY <1>1 DEF search
<1>5. Now \in Nat /\ asked' \in 0..Now /\ 1..Now \subseteq 1..Now'
  BY <1>1, <1>2 DEF Now
<1>6. \A n \in sources \cup destinations : n.build \in 1..Now
  BY DEF RInv, BuildsKept
<1>7. ~ Fresh'
  BY <1>2, <1>4, <1>5, <1>6 DEF Fresh
<1>8. ResolverTypeOK'
  BY <1>1, <1>2, <1>4, <1>5 DEF RInv, ResolverTypeOK
<1>9. TargetsAsked' /\ PlaneChosen'
  BY <1>1 DEF RInv, TargetsAsked, PlaneChosen
<1>10. BuildsKept'
  BY <1>4, <1>5 DEF RInv, BuildsKept, Reached
<1>11. SourcesRead' /\ DestinationsRead' /\ ScopeRead'
  BY <1>1, <1>4, <1>7 DEF RInv, SourcesRead, DestinationsRead, ScopeRead
<1>12. RightAnswer'
  <2>1. CASE step # "planes"
    BY <1>1, <2>1 DEF RightAnswer
  <2>2. CASE step = "planes"
    <3>1. Built /\ Known(request.source) /\ Known(request.destination)
      BY <2>2, TargetsKnown DEF RInv
    <3>2. KeepGraphs
      BY <1>1, <1>2, <1>4 DEF KeepGraphs
    <3>3. PICK a : a = answer
      OBVIOUS
    <3>4. ASSUME Named PROVE (\E b \in asked..Now : IsAnswerOf(b, answer))'
      <4>1. PICK b \in asked..Now : IsAnswerOf(b, a)
        BY <2>2, <3>3, <3>4 DEF RInv, RightAnswer
      <4>2. b \in 1..Now /\ b \in asked'..Now'
        BY <1>1, <1>2, <1>5, <2>2 DEF RInv, ResolverTypeOK
      <4>3. IsAnswerOf(b, a)'
        BY <3>1, <3>2, <4>1, <4>2, AnswersKept
      <4> QED BY <1>1, <3>3, <4>2, <4>3
    <3>5. Named' = Named /\ asked' # Now'
      BY <1>1, <1>2, <1>5 DEF Named
    <3> QED BY <1>1, <2>2, <3>4, <3>5 DEF RInv, RightAnswer
  <2> QED BY <2>1, <2>2
<1> QED BY <1>3, <1>8, <1>9, <1>10, <1>11, <1>12 DEF RInv

LEMMA AskKeeps == ASSUME RInv, Ask PROVE RInv'
<1>1. /\ step = "idle" /\ asked' = Now /\ UNCHANGED <<search, graphs, request, fabrics, allowed>> /\ Now' = Now
      /\ step' \in {"source", "done"} /\ Now \in 1..MaxBuilds
  BY DEF Ask, RInv, ResolverTypeOK, Now
<1>2. SInv' /\ BuildsKept'
  <2>1. SInv'
    BY <1>1, SameSearch DEF RInv
  <2> QED BY <1>1, <2>1 DEF RInv, BuildsKept, search, Reached
<1>3. sources' = {} /\ mode' = "off" /\ limit' = limit
  BY <1>1, <1>2 DEF RInv, ResolverTypeOK, SInv, SearchTypeOK, search
<1>4. SourcesRead' /\ DestinationsRead' /\ ScopeRead'
  BY <1>1, <1>3 DEF SourcesRead, DestinationsRead, ScopeRead
<1>5. CASE step' = "source"
  <2>1. /\ Exists(request.source) /\ Exists(request.destination) /\ answer' = answer
        /\ request.entry = "page" /\ request.plane # NoPlane => PlaneExists(request.plane)
        /\ plane' = IF PlaneExists(request.plane) THEN request.plane ELSE NoPlane
    BY <1>5 DEF Ask
  <2>2. ResolverTypeOK'
    BY <1>1, <1>3, <1>5, <2>1 DEF RInv, ResolverTypeOK
  <2>3. TargetsAsked'
    BY <1>1, <1>5, <2>1 DEF TargetsAsked, Exists
  <2>4. PlaneChosen' /\ RightAnswer'
    BY <1>1, <1>5, <2>1 DEF PlaneChosen, RightAnswer
  <2> QED BY <1>2, <1>4, <2>2, <2>3, <2>4 DEF RInv
<1>6. CASE step' = "done"
  <2>1. answer' = Answer("refused", <<>>) /\ answer'.is = "refused" /\ DOMAIN answer' = {"is", "nodes", "planes"}
    BY <1>6 DEF Ask, Answer
  <2>2. ResolverTypeOK'
    BY <1>1, <1>3, <1>6, <2>1 DEF RInv, ResolverTypeOK
  <2>3. TargetsAsked' /\ PlaneChosen' /\ RightAnswer'
    BY <1>6, <2>1 DEF TargetsAsked, PlaneChosen, RightAnswer, Named
  <2> QED BY <1>2, <1>4, <2>2, <2>3 DEF RInv
<1> QED BY <1>1, <1>5, <1>6

\* A query that answers: what it says must be right if nothing was rebuilt
\* since the request came, and right of a build of that time if it names objects.
LEMMA ReplyKeeps ==
  ASSUME RInv, step \notin {"idle", "done"}, NEW a, Reply(a),
         DOMAIN a = {"is", "nodes", "planes"}, a.is \notin {"refused", "path"},
         asked = Now => IsAnswerOf(Now, a),
         a.is \in {"reach", "blast"} /\ a.nodes # {} => IsAnswerOf(Now, a)
  PROVE  RInv'
<1>1. answer' = a /\ step' = "done" /\ UNCHANGED <<search, graphs, asked, request, plane, fabrics, allowed>> /\ Now' = Now
  BY DEF Reply, Now
<1>2. SInv' /\ BuildsKept'
  <2>1. SInv'
    BY <1>1, SameSearch DEF RInv
  <2> QED BY <1>1, <2>1 DEF RInv, BuildsKept, search, Reached
<1>3. ResolverTypeOK' /\ TargetsAsked' /\ PlaneChosen' /\ SourcesRead' /\ DestinationsRead' /\ ScopeRead'
  <2>1. ResolverTypeOK'
    BY <1>1 DEF RInv, ResolverTypeOK, search
  <2>2. PlaneChosen'
    <3>1. step # "idle" /\ answer.is # "refused" => plane = request.plane \/ request.entry # "page" \/ request.plane = NoPlane
      BY DEF RInv, PlaneChosen
    <3>2. answer.is # "refused"
      BY DEF RInv, ResolverTypeOK
    <3> QED BY <1>1, <3>1, <3>2 DEF PlaneChosen
  <2> QED BY <1>1, <2>1, <2>2 DEF TargetsAsked, SourcesRead, DestinationsRead, ScopeRead
<1>4. RightAnswer'
  <2>1. Built /\ Known(request.source) /\ Known(request.destination)
    BY TargetsKnown DEF RInv
  <2>2. KeepGraphs /\ Now \in 1..Now /\ asked \in 0..Now
    BY <1>1, <2>1 DEF KeepGraphs, search, RInv, ResolverTypeOK, Built
  <2>3. IsAnswerOf(Now, a)' = IsAnswerOf(Now, a)
    <3>1. PICK b : b = Now
      OBVIOUS
    <3>2. IsAnswerOf(b, a)' = IsAnswerOf(b, a)
      BY <2>1, <2>2, <3>1, AnswersKept
    <3> QED BY <1>1, <3>1, <3>2
  <2>4. Now \in asked'..Now' /\ Now' = Now
    BY <1>1, <2>2
  <2> QED BY <1>1, <2>3, <2>4 DEF RightAnswer, Named
<1> QED BY <1>2, <1>3, <1>4 DEF RInv

LEMMA EndsOfNow ==
  ASSUME RInv, step \notin {"idle", "done"}, asked = Now, NEW t \in {request.source, request.destination}
  PROVE  EndsOf(Now, t) \subseteq Nodes /\ \A n \in EndsOf(Now, t) : n.build = Now
<1>1. Built /\ Known(request.source) /\ Known(request.destination) /\ Now \in 1..Now
  BY TargetsKnown DEF RInv, Built
<1>2. t = NoTarget \/ t.kind = "netbox" \/ t.build = Now
  BY DEF RInv, TargetsAsked
<1>3. PICK c \in 1..Now : /\ \A n \in EndsOf(Now, t) : n.build = c
                          /\ c = Now \/ (t # NoTarget /\ t.kind # "netbox" /\ c = t.build)
  BY <1>1, EndsAreNodes
<1>4. EndsOf(Now, t) \subseteq Nodes
  BY <1>1, EndsAreNodes
<1> QED BY <1>2, <1>3, <1>4

\* The lanes and units of the request are read.
LEMMA FindSourcesKeeps == ASSUME RInv, FindSources PROVE RInv'
<1> DEFINE S == EndsOf(Now, request.source)
<1>1. step = "source" /\ Built /\ Known(request.source) /\ Now \in 1..Now
  BY TargetsKnown DEF FindSources, RInv, Built
<1>2. CASE S = {} /\ request.kind # "blast"
  <2>1. PICK a : a = Answer("none", <<>>)
    OBVIOUS
  <2>2. DOMAIN a = {"is", "nodes", "planes"} /\ a.is = "none"
    BY <2>1 DEF Answer
  <2>3. Reply(a)
    BY <1>2, <2>1 DEF FindSources
  <2>4. IsAnswerOf(Now, a)
    BY <1>2, <2>2 DEF IsAnswerOf, NoPathIn
  <2> QED BY <1>1, <2>2, <2>3, <2>4, ReplyKeeps
<1>3. CASE ~ (S = {} /\ request.kind # "blast")
  <2>1. /\ sources' = S /\ step' = "destination" /\ UNCHANGED <<graphs, asked, request, answer>>
        /\ UNCHANGED <<adjacency, destinations, limit, queue, distance, parent, mode, plane, fabrics, allowed>>
    BY <1>3 DEF FindSources, GoTo
  <2>2. S \subseteq Nodes /\ (\A n \in S : n.build \in 1..Now) /\ \A n, m \in S : n.build = m.build
    BY <1>1, EndsAreNodes
  <2>3. Now' = Now /\ S' = S
    <3>1. PICK b : b = Now
      OBVIOUS
    <3>2. PICK t : t = request.source
      OBVIOUS
    <3>3. KeepGraphs
      BY <2>1 DEF KeepGraphs
    <3>4. EndsOf(b, t)' = EndsOf(b, t)
      BY <1>1, <3>1, <3>3, EndsKept
    <3> QED BY <2>1, <3>1, <3>2, <3>4 DEF Now
  <2>4. sources = {} /\ mode = "off" /\ Reached = {} /\ Reached' = {}
    BY <1>1, <2>1 DEF RInv, ResolverTypeOK, BuildsKept, Reached
  <2> HIDE DEF S
  <2>5. SInv'
    <3>1. SearchTypeOK'
      BY <2>1, <2>2, <2>4 DEF RInv, SInv, SearchTypeOK, Reached
    <3> QED BY <2>1, <2>4, <3>1, StartKeeps DEF RInv
  <2>6. ResolverTypeOK' /\ TargetsAsked' /\ PlaneChosen'
    BY <1>1, <2>1, <2>3, <2>4 DEF RInv, ResolverTypeOK, TargetsAsked, PlaneChosen
  <2>7. BuildsKept'
    BY <2>1, <2>2, <2>3, <2>4 DEF RInv, BuildsKept, Reached
  <2>8. SourcesRead'
    BY <1>3, <2>1, <2>3 DEF SourcesRead, S
  <2>9. DestinationsRead' /\ ScopeRead' /\ RightAnswer'
    BY <2>1 DEF DestinationsRead, ScopeRead, RightAnswer
  <2> QED BY <2>5, <2>6, <2>7, <2>8, <2>9 DEF RInv
<1> QED BY <1>2, <1>3

LEMMA FindDestinationsKeeps == ASSUME RInv, FindDestinations PROVE RInv'
<1> DEFINE D == EndsOf(Now, request.destination)
           Refused == request.kind = "path" /\ (D = {} \/ (Signal /\ FabricsOf(sources) \cap FabricsOf(D) = {}))
<1>1. step = "destination" /\ Built /\ Known(request.destination) /\ Now \in 1..Now
  BY TargetsKnown DEF FindDestinations, RInv, Built
<1>2. CASE Refused
  <2>1. PICK a : a = Answer("none", <<>>)
    OBVIOUS
  <2>2. DOMAIN a = {"is", "nodes", "planes"} /\ a.is = "none"
    BY <2>1 DEF Answer
  <2>3. Reply(a)
    BY <1>2, <2>1 DEF FindDestinations
  <2>4. ASSUME asked = Now PROVE IsAnswerOf(Now, a)
    <3>1. sources = EndsOf(Now, request.source)
      BY <1>1, <2>4 DEF RInv, SourcesRead, Fresh
    <3>2. NoPathIn(Now)
      BY <1>2, <3>1 DEF NoPathIn
    <3> QED BY <2>2, <3>2 DEF IsAnswerOf
  <2> QED BY <1>1, <2>2, <2>3, <2>4, ReplyKeeps
<1>3. CASE ~ Refused
  <2>1. /\ destinations' = D /\ step' = "scope" /\ UNCHANGED <<graphs, asked, request, answer>>
        /\ UNCHANGED <<adjacency, sources, limit, queue, distance, parent, mode, plane, fabrics, allowed>>
    BY <1>3 DEF FindDestinations, GoTo
  <2>2. D \subseteq Nodes /\ (\A n \in D : n.build \in 1..Now)
    BY <1>1, EndsAreNodes
  <2>3. Now' = Now /\ D' = D /\ (EndsOf(Now, request.source))' = EndsOf(Now, request.source)
    <3>1. PICK b : b = Now
      OBVIOUS
    <3>2. PICK t : t = request.destination
      OBVIOUS
    <3>3. PICK s : s = request.source
      OBVIOUS
    <3>4. KeepGraphs
      BY <2>1 DEF KeepGraphs
    <3>5. EndsOf(b, t)' = EndsOf(b, t) /\ EndsOf(b, s)' = EndsOf(b, s)
      BY <1>1, <3>1, <3>4, EndsKept
    <3> QED BY <2>1, <3>1, <3>2, <3>3, <3>5 DEF Now
  <2>4. mode = "off" /\ request \in Requests
    BY <1>1 DEF RInv, ResolverTypeOK
  <2>5. request.kind # "path" => D = {}
    BY <2>4, RequestsAreRequests DEF IsRequest, EndsOf
  <2>6. request.kind = "path" => D # {}
    BY <1>3
  <2> HIDE DEF D
  <2>7. SInv'
    <3>1. SearchTypeOK'
      BY <2>1, <2>2 DEF RInv, SInv, SearchTypeOK, Reached
    <3> QED BY <2>1, <2>4, <3>1, StartKeeps DEF RInv
  <2>8. ResolverTypeOK' /\ TargetsAsked' /\ PlaneChosen'
    BY <1>1, <2>1, <2>3, <2>4 DEF RInv, ResolverTypeOK, TargetsAsked, PlaneChosen
  <2>9. BuildsKept'
    BY <2>1, <2>2, <2>3 DEF RInv, BuildsKept, Reached
  <2>10. Fresh' = Fresh
    BY <2>1, <2>3 DEF Fresh
  <2>11. SourcesRead'
    BY <1>1, <2>1, <2>3, <2>10 DEF RInv, SourcesRead
  <2>12. DestinationsRead'
    BY <2>1, <2>3, <2>5, <2>6 DEF DestinationsRead, D
  <2>13. ScopeRead' /\ RightAnswer'
    BY <2>1 DEF ScopeRead, RightAnswer
  <2> QED BY <2>7, <2>8, <2>9, <2>11, <2>12, <2>13 DEF RInv
<1> QED BY <1>2, <1>3

-----------------------------------------------------------------------------
(* The scope and the rows are read, then the search walks. *)

LEMMA NowKept ==
  ASSUME Built, Known(request.source), Known(request.destination), KeepGraphs, Now' = Now
  PROVE  /\ \A t : EndsOf(Now, t)' = EndsOf(Now, t)
         /\ Ends(Now)' = Ends(Now)
         /\ FabricsOf(Ends(Now))' = FabricsOf(Ends(Now))
         /\ AllRows(Now)' = AllRows(Now)
         /\ MembersOf(Now, plane)' = MembersOf(Now, plane)
         /\ \A d \in Nodes : IsFarthest(d)' = IsFarthest(d)
<1>1. PICK b : b = Now
  OBVIOUS
<1>2. b \in 1..Now
  BY <1>1 DEF Built
<1>3. \A t : EndsOf(b, t)' = EndsOf(b, t)
  BY <1>2, EndsKept
<1>4. Ends(b)' = Ends(b) /\ FabricsOf(Ends(b))' = FabricsOf(Ends(b)) /\ AllRows(b)' = AllRows(b)
  BY <1>2, AllRowsKept
<1>5. MembersOf(b, plane)' = MembersOf(b, plane)
  <2>1. PICK p : p = plane
    OBVIOUS
  <2>2. MembersOf(b, p)' = MembersOf(b, p)
    BY <1>2, MembersKept
  <2> QED BY <2>1, <2>2 DEF KeepGraphs
<1>6. Balls(b)' = Balls(b)
  <2>1. PICK a : a = answer
    OBVIOUS
  <2> QED BY <1>2, AnswersKept
<1>7. limit' = limit /\ graphs'[b] = graphs[b]
  BY <1>2 DEF KeepGraphs
<1>8. ASSUME NEW d \in Nodes PROVE IsFarthest(d)' = IsFarthest(d)
  BY <1>1, <1>4, <1>6, <1>7 DEF IsFarthest
<1> QED BY <1>1, <1>3, <1>4, <1>5, <1>8

QuerySteps == {"scope", "plane", "edges", "maps", "search"}

LEMMA QueryKeeps ==
  ASSUME RInv, step \in QuerySteps, step' \in QuerySteps,
         UNCHANGED <<sources, destinations, limit, mode, plane, graphs, asked, request, answer>>,
         mode = "off" \/ step' = "search"
  PROVE  /\ ResolverTypeOK' /\ TargetsAsked' /\ PlaneChosen' /\ SourcesRead' /\ DestinationsRead' /\ RightAnswer'
         /\ Now' = Now /\ Fresh' = Fresh
         /\ Built /\ Known(request.source) /\ Known(request.destination) /\ Now \in 1..Now
         /\ Ends(Now)' = Ends(Now)
         /\ FabricsOf(Ends(Now))' = FabricsOf(Ends(Now))
         /\ AllRows(Now)' = AllRows(Now)
         /\ MembersOf(Now, plane)' = MembersOf(Now, plane)
<1>1. Built /\ Known(request.source) /\ Known(request.destination) /\ Now \in 1..Now
  BY TargetsKnown DEF RInv, Built, QuerySteps
<1>2. KeepGraphs /\ Now' = Now /\ Fresh' = Fresh
  BY DEF KeepGraphs, Now, Fresh
<1>3. /\ \A t : EndsOf(Now, t)' = EndsOf(Now, t)
      /\ Ends(Now)' = Ends(Now)
      /\ FabricsOf(Ends(Now))' = FabricsOf(Ends(Now))
      /\ AllRows(Now)' = AllRows(Now)
      /\ MembersOf(Now, plane)' = MembersOf(Now, plane)
      /\ \A d \in Nodes : IsFarthest(d)' = IsFarthest(d)
  BY <1>1, <1>2, NowKept
<1>4. ResolverTypeOK' /\ TargetsAsked' /\ PlaneChosen'
  BY <1>2 DEF RInv, ResolverTypeOK, TargetsAsked, PlaneChosen, QuerySteps
<1>5. EndsOf(Now, request.source)' = EndsOf(Now, request.source) /\ EndsOf(Now, request.destination)' = EndsOf(Now, request.destination)
  <2>1. PICK s : s = request.source
    OBVIOUS
  <2>2. PICK t : t = request.destination
    OBVIOUS
  <2>3. EndsOf(Now, s)' = EndsOf(Now, s) /\ EndsOf(Now, t)' = EndsOf(Now, t)
    BY <1>3
  <2> QED BY <1>2, <2>1, <2>2, <2>3
<1>6. SourcesRead'
  BY <1>2, <1>5 DEF RInv, SourcesRead, QuerySteps
<1>7. DestinationsRead'
  BY <1>2, <1>3, <1>5 DEF RInv, DestinationsRead, QuerySteps
<1>8. RightAnswer'
  BY DEF RightAnswer, QuerySteps
<1> QED BY <1>1, <1>2, <1>3, <1>4, <1>6, <1>7, <1>8

LEMMA ReadScopeKeeps == ASSUME RInv, ReadScope PROVE RInv'
<1> DEFINE Checked == IF Signal THEN destinations \cap Reached ELSE sources \cup destinations
           Deleted == \E n \in Checked : n.build # Now
<1>1. /\ step = "scope" /\ mode = "off" /\ request \in Requests /\ IsRequest(request)
      /\ Built /\ Known(request.source) /\ Known(request.destination)
  BY TargetsKnown, RequestsAreRequests DEF ReadScope, RInv, ResolverTypeOK
<1>2. CASE Deleted
  <2>1. PICK a : a = Answer("error", <<>>)
    OBVIOUS
  <2>2. DOMAIN a = {"is", "nodes", "planes"} /\ a.is = "error"
    BY <2>1 DEF Answer
  <2>3. Reply(a)
    BY <1>2, <2>1 DEF ReadScope
  <2>4. asked # Now
    <3> SUFFICES ASSUME asked = Now PROVE ~ Deleted
      BY <1>2
    <3>1. Fresh
      BY DEF Fresh
    <3>2. \A n \in sources : n.build = Now
      BY <1>1, <3>1, EndsOfNow DEF RInv, SourcesRead
    <3>3. \A n \in destinations : n.build = Now
      <4>1. CASE request.kind = "path"
        BY <1>1, <3>1, <4>1, EndsOfNow DEF RInv, DestinationsRead
      <4>2. CASE request.kind \in {"reach", "blast"}
        BY <1>1, <4>2 DEF RInv, DestinationsRead
      <4>3. CASE request.kind = "farthest"
        BY <1>1, <3>1, <4>3 DEF RInv, DestinationsRead, IsFarthest
      <4> QED BY <1>1, <4>1, <4>2, <4>3 DEF IsRequest
    <3> QED BY <3>2, <3>3
  <2> QED BY <1>1, <2>2, <2>3, <2>4, ReplyKeeps
<1>3. CASE ~ Deleted
  <2>1. /\ fabrics' = IF sources = {} THEN FabricsOf(NodesIn(Now)) ELSE FabricsOf(sources \cup destinations)
        /\ step' = "plane" /\ UNCHANGED <<search, plane, allowed, graphs, asked, request, answer>>
    BY <1>3 DEF ReadScope, GoTo
  <2>2. UNCHANGED <<sources, destinations, limit, mode, plane, graphs, asked, request, answer>> /\ UNCHANGED <<adjacency, distance>>
    BY <2>1 DEF search
  <2>3. /\ ResolverTypeOK' /\ TargetsAsked' /\ PlaneChosen' /\ SourcesRead' /\ DestinationsRead' /\ RightAnswer'
        /\ Now' = Now /\ Fresh' = Fresh
        /\ FabricsOf(Ends(Now))' = FabricsOf(Ends(Now))
    BY <1>1, <2>1, <2>2, QueryKeeps DEF QuerySteps
  <2>4. SInv' /\ BuildsKept'
    BY <2>1, <2>2, <2>3, SameSearch DEF RInv, BuildsKept, Reached
  <2>5. ASSUME Fresh, sources # {} PROVE FabricsOf(sources \cup destinations) = FabricsOf(Ends(Now))
    <3>1. sources = EndsOf(Now, request.source)
      BY <1>1, <2>5 DEF RInv, SourcesRead
    <3>2. request.kind # "path" => Ends(Now) = sources
      BY <1>1, <3>1 DEF Ends, IsRequest, EndsOf
    <3>3. CASE request.kind = "path"
      BY <1>1, <2>5, <3>1, <3>3 DEF RInv, DestinationsRead, Ends
    <3>4. CASE request.kind # "path" /\ destinations = {}
      BY <3>2, <3>4
    <3>5. CASE request.kind # "path" /\ destinations # {}
      <4>1. PICK d \in Nodes : destinations = {d} /\ IsFarthest(d)
        BY <1>1, <2>5, <3>5 DEF RInv, DestinationsRead, IsRequest
      <4>2. graphs[d.build].fabric[d.unit] \in FabricsOf(sources)
        BY <3>2, <3>5, <4>1 DEF IsFarthest
      <4>3. FabricsOf(sources \cup {d}) = FabricsOf(sources) \cup {graphs[d.build].fabric[d.unit]}
        BY DEF FabricsOf
      <4> QED BY <3>2, <3>5, <4>1, <4>2, <4>3
    <3> QED BY <3>3, <3>4, <3>5
  <2>6. ScopeRead'
    BY <2>1, <2>2, <2>3, <2>5 DEF ScopeRead
  <2> QED BY <2>3, <2>4, <2>6 DEF RInv
<1> QED BY <1>2, <1>3

LEMMA ReadPlaneKeeps == ASSUME RInv, ReadPlane PROVE RInv'
<1>1. /\ step = "plane" /\ step' = "edges" /\ mode = "off" /\ allowed' = MembersOf(Now, plane)
      /\ UNCHANGED <<search, plane, fabrics, graphs, asked, request, answer>>
      /\ UNCHANGED <<sources, destinations, limit, mode, adjacency, distance>>
  BY DEF ReadPlane, GoTo, RInv, ResolverTypeOK, search
<1>2. /\ ResolverTypeOK' /\ TargetsAsked' /\ PlaneChosen' /\ SourcesRead' /\ DestinationsRead' /\ RightAnswer'
      /\ Now' = Now /\ Fresh' = Fresh
      /\ FabricsOf(Ends(Now))' = FabricsOf(Ends(Now))
      /\ MembersOf(Now, plane)' = MembersOf(Now, plane)
  BY <1>1, QueryKeeps DEF QuerySteps
<1>3. SInv' /\ BuildsKept'
  BY <1>1, <1>2, SameSearch DEF RInv, BuildsKept, Reached
<1>4. ScopeRead'
  BY <1>1, <1>2 DEF RInv, ScopeRead
<1> QED BY <1>2, <1>3, <1>4 DEF RInv

LEMMA JoinedRows ==
  ASSUME Built, NEW b \in 1..Now, NEW pairs \in SUBSET (graphs[b].edges \cup graphs[b].maps), NEW F, NEW A
  PROVE  /\ Joining(Rows(b, pairs, F, A)) \in [Nodes -> SUBSET Nodes]
         /\ \A n \in Nodes : \A m \in Joining(Rows(b, pairs, F, A))[n] : m.build = n.build
<1> DEFINE rows == Rows(b, pairs, F, A)
<1>1. ASSUME NEW e \in rows PROVE \E n, m \in Nodes : e = {n, m} /\ n.build = b /\ m.build = b
  BY <1>1, RowIs
<1> HIDE DEF rows
<1>2. /\ Joining(rows) \in [Nodes -> SUBSET Nodes]
      /\ \A n \in Nodes : \A m : m \in Joining(rows)[n] <=> m # n /\ {n, m} \in rows
  BY <1>1, NeighboursAre
<1>3. ASSUME NEW n \in Nodes, NEW m \in Joining(rows)[n] PROVE m.build = n.build
  <2>1. {n, m} \in rows
    BY <1>2, <1>3
  <2>2. PICK x \in Nodes, y \in Nodes : {n, m} = {x, y} /\ x.build = b /\ y.build = b
    BY <1>1, <2>1
  <2> QED BY <2>2
<1> QED BY <1>2, <1>3 DEF rows

LEMMA JoiningOfBoth ==
  ASSUME NEW R, NEW S
  PROVE  Joining(R \cup S) = [n \in Nodes |-> Joining(R)[n] \cup Joining(S)[n]]
<1>1. ASSUME NEW n \in Nodes PROVE Joining(R \cup S)[n] = Joining(R)[n] \cup Joining(S)[n]
  BY DEF Joining
<1>2. Joining(R \cup S) = [n \in Nodes |-> Joining(R \cup S)[n]]
  BY DEF Joining
<1> QED BY <1>1, <1>2

LEMMA ReadEdgesKeeps == ASSUME RInv, ReadEdges PROVE RInv'
<1> DEFINE rows == Rows(Now, graphs[Now].edges, fabrics, allowed)
<1>1. /\ step = "edges" /\ step' = "maps" /\ mode = "off"
      /\ adjacency' = Joining(rows)
      /\ UNCHANGED <<sources, destinations, limit, queue, distance, parent, mode, plane, fabrics, allowed>>
      /\ UNCHANGED <<graphs, asked, request, answer>>
  BY DEF ReadEdges, GoTo, RInv, ResolverTypeOK
<1>2. UNCHANGED <<sources, destinations, limit, mode, plane, graphs, asked, request, answer>>
  BY <1>1
<1>3. /\ ResolverTypeOK' /\ TargetsAsked' /\ PlaneChosen' /\ SourcesRead' /\ DestinationsRead' /\ RightAnswer'
      /\ Now' = Now /\ Fresh' = Fresh /\ Built /\ Now \in 1..Now
      /\ FabricsOf(Ends(Now))' = FabricsOf(Ends(Now))
      /\ MembersOf(Now, plane)' = MembersOf(Now, plane)
  BY <1>1, <1>2, QueryKeeps DEF QuerySteps
<1>4. Joining(rows) \in [Nodes -> SUBSET Nodes] /\ \A n \in Nodes : \A m \in Joining(rows)[n] : m.build = n.build
  BY <1>3, JoinedRows
<1>5. rows' = rows
  BY <1>1, <1>3 DEF Rows, Node, Signal
<1> HIDE DEF rows
<1>6. SInv'
  <2>1. SearchTypeOK'
    BY <1>1, <1>4 DEF RInv, SInv, SearchTypeOK, Reached
  <2> QED BY <1>1, <2>1, StartKeeps DEF RInv
<1>7. BuildsKept'
  BY <1>1, <1>3, <1>4 DEF RInv, BuildsKept, Reached
<1>8. adjacency' = Joining(rows')
  BY <1>1, <1>5
<1>9. ScopeRead'
  BY <1>1, <1>3, <1>8 DEF RInv, ScopeRead, rows
<1> QED BY <1>3, <1>6, <1>7, <1>9 DEF RInv

LEMMA ReadMapsKeeps == ASSUME RInv, ReadMaps PROVE RInv'
<1> DEFINE rows == Rows(Now, graphs[Now].maps, fabrics, allowed)
<1>1. /\ step = "maps" /\ step' = "search" /\ mode = "off"
      /\ adjacency' = [n \in Nodes |-> adjacency[n] \cup Joining(rows)[n]]
      /\ UNCHANGED <<sources, destinations, limit, queue, distance, parent, mode, plane, fabrics, allowed>>
      /\ UNCHANGED <<graphs, asked, request, answer>>
  BY DEF ReadMaps, GoTo, RInv, ResolverTypeOK
<1>2. UNCHANGED <<sources, destinations, limit, mode, plane, graphs, asked, request, answer>>
  BY <1>1
<1>3. /\ ResolverTypeOK' /\ TargetsAsked' /\ PlaneChosen' /\ SourcesRead' /\ DestinationsRead' /\ RightAnswer'
      /\ Now' = Now /\ Fresh' = Fresh /\ Built /\ Now \in 1..Now
      /\ FabricsOf(Ends(Now))' = FabricsOf(Ends(Now))
      /\ AllRows(Now)' = AllRows(Now)
      /\ MembersOf(Now, plane)' = MembersOf(Now, plane)
  BY <1>1, <1>2, QueryKeeps DEF QuerySteps
<1>4. Joining(rows) \in [Nodes -> SUBSET Nodes] /\ \A n \in Nodes : \A m \in Joining(rows)[n] : m.build = n.build
  BY <1>3, JoinedRows
<1>5. ASSUME Fresh, sources # {} PROVE adjacency' = Joining(AllRows(Now))
  <2>1. /\ fabrics = FabricsOf(Ends(Now)) /\ allowed = MembersOf(Now, plane)
        /\ adjacency = Joining(Rows(Now, graphs[Now].edges, fabrics, allowed))
    BY <1>1, <1>5 DEF RInv, ScopeRead
  <2> DEFINE edges == Rows(Now, graphs[Now].edges, fabrics, allowed)
  <2>2. AllRows(Now) = edges \cup rows
    BY <2>1, RowsOfBoth DEF AllRows, Ends
  <2> HIDE DEF edges, rows
  <2>3. adjacency' = [n \in Nodes |-> Joining(edges)[n] \cup Joining(rows)[n]]
    BY <1>1, <2>1 DEF edges
  <2> QED BY <2>2, <2>3, JoiningOfBoth
<1> HIDE DEF rows
<1>6. SInv'
  <2>1. adjacency' \in [Nodes -> SUBSET Nodes]
    BY <1>1, <1>4 DEF RInv, SInv, SearchTypeOK
  <2>2. SearchTypeOK'
    BY <1>1, <2>1 DEF RInv, SInv, SearchTypeOK, Reached
  <2> QED BY <1>1, <2>2, StartKeeps DEF RInv
<1>7. BuildsKept'
  <2>1. \A n \in Nodes : \A m \in adjacency'[n] : m.build = n.build
    BY <1>1, <1>4 DEF RInv, BuildsKept
  <2> QED BY <1>1, <1>3, <2>1 DEF RInv, BuildsKept, Reached
<1>8. ScopeRead'
  BY <1>1, <1>3, <1>5 DEF RInv, ScopeRead
<1> QED BY <1>3, <1>6, <1>7, <1>8 DEF RInv

-----------------------------------------------------------------------------
LEMMA OrderOfSources ==
  ASSUME SearchTypeOK, NEW q \in SetToSeqs(sources)
  PROVE  q \in Seq(Nodes)
<1>1. IsFiniteSet(sources)
  <2> DEFINE P == ((1..MaxBuilds) \X Units) \X (0..MaxLanes)
             h == [p \in P |-> Node(p[1][1], p[1][2], p[2])]
  <2>1. IsFiniteSet(P)
    <3>1. IsFiniteSet(1..MaxBuilds) /\ IsFiniteSet(0..MaxLanes) /\ IsFiniteSet(Units)
      BY FS_Interval, NodesAreObjects
    <3>2. IsFiniteSet((1..MaxBuilds) \X Units)
      BY <3>1, FS_Product
    <3> QED BY <3>1, <3>2, FS_Product
  <2>2. ASSUME NEW p \in P PROVE h[p] \in Nodes
    BY NodeIs
  <2>3. ASSUME NEW n \in Nodes PROVE \E p \in P : h[p] = n
    <3>1. n = Node(n.build, n.unit, n.lane) /\ n.build \in 1..MaxBuilds /\ n.unit \in Units /\ n.lane \in 0..MaxLanes
      BY NodesAreObjects DEF Node
    <3>2. <<<<n.build, n.unit>>, n.lane>> \in P
      BY <3>1
    <3>3. h[<<<<n.build, n.unit>>, n.lane>>] = n
      BY <3>1, <3>2
    <3> QED BY <3>2, <3>3
  <2>4. h \in Surjection(P, Nodes)
    <3>1. h \in [P -> Nodes]
      BY <2>2
    <3> HIDE DEF h, P
    <3> QED BY <2>3, <3>1 DEF Surjection
  <2> HIDE DEF P, h
  <2>5. IsFiniteSet(Nodes)
    BY <2>1, <2>4, FS_Surjection
  <2> QED BY <2>5, FS_Subset DEF SearchTypeOK
<1>2. Cardinality(sources) \in Nat
  BY <1>1, FS_CardinalityType
<1>3. q \in [1..Cardinality(sources) -> sources]
  BY DEF SetToSeqs
<1>4. sources \subseteq Nodes
  BY DEF SearchTypeOK
<1>5. q \in [1..Cardinality(sources) -> Nodes]
  BY <1>3, <1>4
<1> QED BY <1>2, <1>5 DEF Seq

LEMMA WalkKeeps == ASSUME RInv, Walk PROVE RInv'
<1>1. step = "search" /\ SearchTypeOK /\ UNCHANGED resolver
  BY DEF Walk, RInv, SInv
<1>2. /\ UNCHANGED <<sources, destinations, limit, adjacency>>
      /\ UNCHANGED <<graphs, asked, request, step, plane, fabrics, allowed, answer>>
  BY DEF Walk, Enqueue, SearchNext, Arrive, Expand, Leave, Exhaust, resolver
<1>3. SearchStep
  <2>1. ASSUME NEW q \in SetToSeqs(sources), Enqueue(q) PROVE SearchStep
    BY <1>1, <2>1, OrderOfSources DEF SearchStep
  <2> QED BY <2>1 DEF Walk, SearchStep
<1>4. SInv'
  BY <1>3, StepKeeps DEF RInv
<1>5. Built /\ Known(request.source) /\ Known(request.destination) /\ Now \in 1..Now
  BY <1>1, TargetsKnown DEF RInv, Built
<1>6. Now' = Now /\ Fresh' = Fresh /\ KeepGraphs
  BY <1>2 DEF Now, Fresh, KeepGraphs
<1>7. /\ EndsOf(Now, request.source)' = EndsOf(Now, request.source)
      /\ EndsOf(Now, request.destination)' = EndsOf(Now, request.destination)
      /\ FabricsOf(Ends(Now))' = FabricsOf(Ends(Now))
      /\ AllRows(Now)' = AllRows(Now)
      /\ MembersOf(Now, plane)' = MembersOf(Now, plane)
      /\ \A d \in Nodes : IsFarthest(d)' = IsFarthest(d)
  <2>1. PICK s : s = request.source
    OBVIOUS
  <2>2. PICK t : t = request.destination
    OBVIOUS
  <2>3. EndsOf(Now, s)' = EndsOf(Now, s) /\ EndsOf(Now, t)' = EndsOf(Now, t)
    BY <1>5, <1>6, NowKept
  <2>4. /\ EndsOf(Now, request.source)' = EndsOf(Now, request.source)
        /\ EndsOf(Now, request.destination)' = EndsOf(Now, request.destination)
    BY <1>2, <1>6, <2>1, <2>2, <2>3
  <2> QED BY <1>5, <1>6, <2>4, NowKept
<1>8. ResolverTypeOK' /\ TargetsAsked' /\ PlaneChosen' /\ RightAnswer'
  BY <1>1, <1>2, <1>6 DEF RInv, ResolverTypeOK, TargetsAsked, PlaneChosen, RightAnswer
<1>9. SourcesRead' /\ DestinationsRead'
  BY <1>1, <1>2, <1>6, <1>7 DEF RInv, SourcesRead, DestinationsRead
<1>10. ScopeRead'
  BY <1>1, <1>2, <1>6, <1>7 DEF RInv, ScopeRead
<1>11. \A n \in Reached' : \E s \in sources : s.build = n.build
  <2>1. \A n \in Reached : \E s \in sources : s.build = n.build
    BY DEF RInv, BuildsKept
  <2>2. CASE UNCHANGED distance
    BY <2>1, <2>2 DEF Reached
  <2>3. ASSUME NEW q, Enqueue(q) PROVE Reached' = sources
    BY <2>3 DEF Enqueue, Reached
  <2>4. ASSUME NEW v \in Nodes, Expand(v) PROVE \A n \in Reached' : \E s \in sources : s.build = n.build
    <3> DEFINE u == Head(queue)
    <3>1. u \in Reached /\ u \in Nodes
      <4>1. queue # <<>> /\ queue \in Seq(Nodes) /\ QueueOrdered /\ Reached \subseteq Nodes
        BY <1>1, <2>4 DEF Expand, RInv, SInv, SearchTypeOK
      <4>2. u = queue[1] /\ 1 \in DOMAIN queue
        BY <4>1, HeadIsFirst
      <4> QED BY <4>1, <4>2 DEF QueueOrdered, Elements
    <3>2. v \in adjacency[u] /\ Reached' = Reached \cup {v}
      BY <2>4 DEF Expand, Unseen, Put, Reached
    <3>3. v.build = u.build
      BY <3>1, <3>2 DEF RInv, BuildsKept
    <3> QED BY <2>1, <3>1, <3>2, <3>3
  <2>5. (\E q \in SetToSeqs(sources) : Enqueue(q)) \/ (\E v \in Nodes : Expand(v)) \/ UNCHANGED distance
    BY DEF Walk, SearchNext, Arrive, Leave, Exhaust
  <2> QED BY <2>2, <2>3, <2>4, <2>5
<1>12. BuildsKept'
  BY <1>2, <1>6, <1>11 DEF RInv, BuildsKept
<1> QED BY <1>4, <1>8, <1>9, <1>10, <1>12 DEF RInv

\* A fresh request that has sources searches the rows of the last build.
LEMMA FreshSearch ==
  ASSUME RInv, step = "search", Fresh, sources # {}
  PROVE  /\ Reading /\ SearchingNow /\ Now \in 1..Now
         /\ \A n \in sources \cup Reached : n.build = Now
<1>1. Reading /\ Now \in 1..Now
  BY TargetsKnown DEF RInv, Reading, Built
<1>2. SearchingNow
  BY DEF RInv, SourcesRead, ScopeRead, SearchingNow
<1>3. \A n \in sources : n.build = Now
  <2>1. CASE asked = Now
    BY <1>2, <2>1, EndsOfNow DEF SearchingNow
  <2>2. CASE \E n \in sources : n.build = Now
    BY <2>2 DEF RInv, BuildsKept
  <2> QED BY <2>1, <2>2 DEF Fresh
<1>4. \A n \in Reached : n.build = Now
  BY <1>3 DEF RInv, BuildsKept
<1> QED BY <1>1, <1>2, <1>3, <1>4

LEMMA PickFarthestKeeps == ASSUME RInv, PickFarthest PROVE RInv'
<1>1. /\ step = "search" /\ mode = "exhausted" /\ request.kind = "farthest" /\ mode' = "off"
      /\ destinations' = Farthest /\ step' = "scope"
      /\ UNCHANGED <<adjacency, sources, limit, queue, distance, parent, plane, fabrics, allowed>>
      /\ UNCHANGED <<graphs, asked, request, answer>>
  BY DEF PickFarthest, GoTo
<1>2. sources # {} /\ SInv
  BY <1>1 DEF RInv, SourcesRead
<1>3. PICK d \in Reached : /\ Farthest = IF d.build = Now THEN {d} ELSE sources
                           /\ distance[d] \in 0..limit
                           /\ \A n \in Reached : distance[d] >= distance[n]
  BY <1>1, <1>2, FarthestChosen
<1>4. Reached \subseteq Nodes /\ sources \subseteq Nodes
  BY DEF RInv, SInv, SearchTypeOK
<1>5. Farthest \subseteq Nodes /\ \A n \in Farthest : n.build \in 1..Now
  BY <1>3, <1>4 DEF RInv, BuildsKept
<1>6. Built /\ Known(request.source) /\ Known(request.destination) /\ Now \in 1..Now
  BY <1>1, TargetsKnown DEF RInv, Built
<1>7. Now' = Now /\ Fresh' = Fresh /\ KeepGraphs
  BY <1>1 DEF Now, Fresh, KeepGraphs
<1>8. /\ EndsOf(Now, request.source)' = EndsOf(Now, request.source)
      /\ \A n \in Nodes : IsFarthest(n)' = IsFarthest(n)
  <2>1. PICK s : s = request.source
    OBVIOUS
  <2>2. EndsOf(Now, s)' = EndsOf(Now, s)
    BY <1>6, <1>7, NowKept
  <2> QED BY <1>1, <1>6, <1>7, <2>1, <2>2, NowKept
<1>9. ASSUME Fresh PROVE Farthest = {d} /\ IsFarthest(d)
  <2>1. Reading /\ SearchingNow /\ d.build = Now
    BY <1>1, <1>2, <1>9, FreshSearch
  <2>2. d \in Balls(Now)[limit] /\ DistanceIn(Balls(Now), limit, d) = EccentricityIn(Balls(Now), limit)
    BY <1>1, <1>3, <2>1, FarthestIs
  <2>3. graphs[Now].fabric[d.unit] \in FabricsOf(Ends(Now))
    <3>1. CASE d \in sources
      BY <2>1, <3>1 DEF SearchingNow, FabricsOf, Ends
    <3>2. CASE d \notin sources
      <4> DEFINE p == parent[d]
      <4>1. p \in Nodes /\ d \in adjacency[p]
        BY <1>1, <1>2, <1>4, <3>2 DEF SInv, Labelled
      <4> HIDE DEF p
      <4>2. \A e \in AllRows(Now) : \E n, m \in Nodes :
               e = {n, m} /\ \A x \in {n, m} : graphs[Now].fabric[x.unit] \in FabricsOf(Ends(Now))
        <5> SUFFICES ASSUME NEW e \in AllRows(Now)
                     PROVE  \E n, m \in Nodes :
                              e = {n, m} /\ \A x \in {n, m} : graphs[Now].fabric[x.unit] \in FabricsOf(Ends(Now))
          OBVIOUS
        <5> QED BY <1>6, AllRowsArePairs
      <4>3. \A n \in Nodes : \A m : m \in Joining(AllRows(Now))[n] <=> m # n /\ {n, m} \in AllRows(Now)
        <5>1. \A e \in AllRows(Now) : \E n, m \in Nodes : e = {n, m}
          BY <4>2
        <5> QED BY <5>1, NeighboursAre
      <4>4. {p, d} \in AllRows(Now)
        BY <2>1, <4>1, <4>3 DEF SearchingNow
      <4>5. \A x \in {p, d} : graphs[Now].fabric[x.unit] \in FabricsOf(Ends(Now))
        BY <4>2, <4>4
      <4> QED BY <4>5
    <3> QED BY <3>1, <3>2
  <2> QED BY <1>3, <2>1, <2>2, <2>3 DEF IsFarthest
<1>10. SInv'
  <2>1. SearchTypeOK'
    BY <1>1, <1>5 DEF RInv, SInv, SearchTypeOK, Reached
  <2> QED BY <1>1, <2>1 DEF SInv
<1>11. ResolverTypeOK' /\ TargetsAsked' /\ PlaneChosen' /\ RightAnswer'
  BY <1>1, <1>7 DEF RInv, ResolverTypeOK, TargetsAsked, PlaneChosen, RightAnswer
<1>12. BuildsKept'
  BY <1>1, <1>5, <1>7 DEF RInv, BuildsKept, Reached
<1>13. SourcesRead' /\ ScopeRead'
  BY <1>1, <1>7, <1>8 DEF RInv, SourcesRead, ScopeRead
<1>14. DestinationsRead'
  <2>1. Fresh' => destinations' = {d} /\ IsFarthest(d)'
    BY <1>1, <1>4, <1>7, <1>8, <1>9
  <2> QED BY <1>1, <1>4, <2>1 DEF DestinationsRead
<1> QED BY <1>10, <1>11, <1>12, <1>13, <1>14 DEF RInv

\* A search that found its destination has a path, and if the objects of the
\* path are still there it is one of the last build.
LEMMA PathFound ==
  ASSUME RInv, step = "search", mode = "found"
  PROVE  /\ TrailTo(Head(queue)) \in Seq(Nodes)
         /\ Elements(TrailTo(Head(queue))) \subseteq Reached
         /\ asked = Now => \A n \in Elements(TrailTo(Head(queue))) : n.build = Now
         /\ (\A n \in Elements(TrailTo(Head(queue))) : n.build = Now) => IsPathIn(Now, TrailTo(Head(queue)))
<1> DEFINE t == TrailTo(Head(queue))
<1>1. SInv /\ SearchTypeOK /\ Labelled /\ Head(queue) \in Reached /\ Reached \subseteq Nodes
  BY SInvExact DEF RInv, SInv, SearchTypeOK, SearchExact
<1>2. IsTrail(t, distance[Head(queue)], Head(queue)) /\ distance[Head(queue)] \in Nat
  BY <1>1, TrailIs DEF SearchTypeOK
<1>3. sources # {}
  BY <1>1 DEF RInv, BuildsKept
<1> HIDE DEF t
<1>4. t \in Seq(Reached) /\ Len(t) \in Nat /\ Len(t) >= 1
  BY <1>2 DEF IsTrail
<1>5. DOMAIN t = 1..Len(t) /\ \A i \in 1..Len(t) : t[i] \in Reached
  BY <1>4, ElementOfSeq, LenProperties
<1>6. Elements(t) \subseteq Reached /\ t[1] \in Elements(t) /\ t[1] \in Reached
  BY <1>4, <1>5 DEF Elements
<1>7. t \in Seq(Nodes)
  BY <1>1, <1>4, <1>5, SeqDef
<1>8. ASSUME asked = Now PROVE \A n \in Elements(t) : n.build = Now
  BY <1>3, <1>6, <1>8, FreshSearch DEF Fresh
<1>9. ASSUME \A n \in Elements(t) : n.build = Now PROVE IsPathIn(Now, t)
  <2>1. Fresh
    BY <1>6, <1>9 DEF RInv, BuildsKept, Fresh
  <2>2. Reading /\ SearchingNow
    BY <1>3, <2>1, FreshSearch
  <2>3. request.kind = "path" => destinations = EndsOf(Now, request.destination)
    BY <2>1 DEF RInv, DestinationsRead
  <2>4. destinations # {}
    BY <1>1 DEF SInv
  <2>5. request.kind = "farthest" => \E d \in Nodes : destinations = {d} /\ IsFarthest(d)
    BY <2>1, <2>4 DEF RInv, DestinationsRead
  <2> QED BY <2>2, <2>3, <2>5, PathIs DEF t
<1> QED BY <1>6, <1>7, <1>8, <1>9 DEF t

\* What was reached is answered.
LEMMA ReachedIsRight ==
  ASSUME RInv, step = "search", mode = "exhausted", request.kind \in {"reach", "blast"},
         NEW a, a = Answer(request.kind, {<<n, IF request.kind = "blast" THEN distance[n] ELSE 0>> : n \in StillThere(Reached)}),
         Fresh, sources # {} \/ asked = Now
  PROVE  IsAnswerOf(Now, a) /\ (sources # {} => StillThere(Reached) # {})
<1>1. a.is = request.kind /\ a.nodes = {<<n, IF request.kind = "blast" THEN distance[n] ELSE 0>> : n \in StillThere(Reached)}
  BY DEF Answer
<1>2. CASE sources # {}
  <2>1. Reading /\ SearchingNow /\ \A n \in Reached : n.build = Now
    BY <1>2, FreshSearch
  <2>2. /\ Balls(Now)[limit] = Reached
        /\ \A n \in Reached : DistanceIn(Balls(Now), limit, n) = distance[n]
    BY <2>1, ExhaustedIs
  <2>3. StillThere(Reached) = Reached
    BY <2>1 DEF StillThere
  <2>4. Reached # {}
    BY <1>2 DEF RInv, SInv, Labelled
  <2>5. a.is = "reach" => a.nodes = {<<n, 0>> : n \in Balls(Now)[limit]}
    BY <1>1, <2>2, <2>3
  <2>6. a.is = "blast" => a.nodes = {<<n, DistanceIn(Balls(Now), limit, n)>> : n \in Balls(Now)[limit]}
    BY <1>1, <2>2, <2>3
  <2> QED BY <1>1, <2>3, <2>4, <2>5, <2>6 DEF IsAnswerOf
<1>3. CASE sources = {}
  <2>1. EndsOf(Now, request.source) = {} /\ Built /\ Known(request.source) /\ limit \in Nat /\ Now \in 1..Now
    BY <1>3, TargetsKnown, DepthsAreNatural DEF RInv, SourcesRead, SInv, SearchTypeOK, Built
  <2>2. Balls(Now)[limit] = {}
    BY <2>1, NothingAround
  <2>3. Reached = {}
    BY <1>3 DEF RInv, BuildsKept
  <2>4. a.nodes = {}
    BY <1>1, <2>3 DEF StillThere
  <2> QED BY <1>1, <1>3, <2>2, <2>4 DEF IsAnswerOf
<1> QED BY <1>2, <1>3

LEMMA LoadNodesKeeps == ASSUME RInv, LoadNodes PROVE RInv'
<1> DEFINE t == TrailTo(Head(queue))
<1>1. step = "search" /\ Built /\ Known(request.source) /\ Known(request.destination) /\ Now \in 1..Now /\ IsRequest(request)
  BY TargetsKnown, RequestsAreRequests DEF LoadNodes, RInv, ResolverTypeOK, Built
<1> HIDE DEF t
<1>2. CASE mode = "found" /\ (\E n \in Elements(t) : n.build # Now) /\ Reply(Answer("error", <<>>))
  <2>1. PICK a : a = Answer("error", <<>>)
    OBVIOUS
  <2>2. DOMAIN a = {"is", "nodes", "planes"} /\ a.is = "error"
    BY <2>1 DEF Answer
  <2>3. asked # Now
    BY <1>1, <1>2, PathFound DEF t
  <2> QED BY <1>1, <1>2, <2>1, <2>2, <2>3, ReplyKeeps
<1>3. CASE /\ mode = "found" /\ (\A n \in Elements(t) : n.build = Now)
           /\ answer' = Answer("path", t) /\ step' = "planes"
           /\ UNCHANGED <<search, graphs, asked, request, plane, fabrics, allowed>>
  <2>1. PICK a : a = Answer("path", t)
    OBVIOUS
  <2>2. a.is = "path" /\ a.nodes = t /\ DOMAIN a = {"is", "nodes", "planes"} /\ answer' = a
    BY <1>3, <2>1 DEF Answer
  <2>3. t \in Seq(Nodes) /\ IsPathIn(Now, t)
    BY <1>1, <1>3, PathFound DEF t
  <2>4. UNCHANGED <<sources, destinations, limit, mode, adjacency, distance>> /\ Now' = Now
    BY <1>3 DEF search, Now
  <2>5. SInv' /\ BuildsKept'
    BY <1>3, <2>4, SameSearch DEF RInv, BuildsKept, Reached
  <2>6. ResolverTypeOK' /\ TargetsAsked' /\ PlaneChosen'
    BY <1>1, <1>3, <2>2, <2>3, <2>4 DEF RInv, ResolverTypeOK, TargetsAsked, PlaneChosen
  <2>7. SourcesRead' /\ DestinationsRead' /\ ScopeRead'
    BY <1>3 DEF SourcesRead, DestinationsRead, ScopeRead
  <2>8. IsAnswerOf(Now, a)'
    <3>1. IsAnswerOf(Now, a)
      BY <2>2, <2>3 DEF IsAnswerOf
    <3>2. KeepGraphs
      BY <1>3, <2>4 DEF KeepGraphs
    <3>3. PICK b : b = Now
      OBVIOUS
    <3>4. IsAnswerOf(b, a)' = IsAnswerOf(b, a)
      BY <1>1, <3>2, <3>3, AnswersKept
    <3> QED BY <2>4, <3>1, <3>3, <3>4
  <2>9. Now' \in asked'..Now'
    BY <1>1, <1>3, <2>4 DEF RInv, ResolverTypeOK
  <2>10. RightAnswer'
    BY <1>3, <2>2, <2>8, <2>9 DEF RightAnswer
  <2> QED BY <2>5, <2>6, <2>7, <2>10 DEF RInv
<1>4. ASSUME mode = "exhausted", destinations = {}, request.kind # "farthest",
             NEW a, Reply(a),
             a = IF StillThere(Reached) = {} /\ request.kind = "reach" THEN Answer("none", <<>>)
                 ELSE Answer(request.kind, {<<n, IF request.kind = "blast" THEN distance[n] ELSE 0>> : n \in StillThere(Reached)})
      PROVE  RInv'
  <2>1. request.kind \in {"reach", "blast"}
    BY <1>1, <1>4 DEF RInv, DestinationsRead, IsRequest
  <2>2. DOMAIN a = {"is", "nodes", "planes"} /\ a.is \in {"none", "reach", "blast"}
    BY <1>4, <2>1 DEF Answer
  <2>3. PICK r : r = Answer(request.kind, {<<n, IF request.kind = "blast" THEN distance[n] ELSE 0>> : n \in StillThere(Reached)})
    OBVIOUS
  <2>4. ASSUME asked = Now PROVE IsAnswerOf(Now, a)
    <3>1. Fresh
      BY <2>4 DEF Fresh
    <3>2. IsAnswerOf(Now, r) /\ (sources # {} => StillThere(Reached) # {})
      BY <1>1, <1>4, <2>1, <2>3, <2>4, <3>1, ReachedIsRight
    <3>3. request.kind = "reach" => StillThere(Reached) # {}
      BY <1>1, <3>2 DEF RInv, SourcesRead
    <3> QED BY <1>4, <2>3, <3>2, <3>3
  <2>5. ASSUME a.is \in {"reach", "blast"}, a.nodes # {} PROVE IsAnswerOf(Now, a)
    <3>1. a = r
      BY <1>4, <2>3, <2>5 DEF Answer
    <3>2. StillThere(Reached) # {}
      BY <2>3, <2>5, <3>1 DEF Answer
    <3>3. PICK n \in Reached : n.build = Now
      BY <3>2 DEF StillThere
    <3>4. Fresh /\ sources # {}
      BY <3>3 DEF RInv, BuildsKept, Fresh
    <3> QED BY <1>1, <1>4, <2>1, <2>3, <3>1, <3>4, ReachedIsRight
  <2> QED BY <1>1, <1>4, <2>2, <2>4, <2>5, ReplyKeeps
<1>5. CASE mode = "exhausted" /\ destinations # {} /\ Reply(Answer("none", <<>>))
  <2>1. PICK a : a = Answer("none", <<>>)
    OBVIOUS
  <2>2. DOMAIN a = {"is", "nodes", "planes"} /\ a.is = "none"
    BY <2>1 DEF Answer
  <2>3. ASSUME asked = Now PROVE IsAnswerOf(Now, a)
    <3>1. Fresh
      BY <2>3 DEF Fresh
    <3>2. request.kind \in {"path", "farthest"}
      BY <1>1, <1>5 DEF RInv, DestinationsRead, IsRequest
    <3>3. Reading /\ SearchingNow
      BY <1>1, <3>1, <3>2, FreshSearch DEF RInv, SourcesRead
    <3>4. Balls(Now)[limit] = Reached /\ Reached \cap destinations = {}
      BY <1>5, <3>3, ExhaustedIs
    <3>5. CASE request.kind = "path"
      <4>1. destinations = EndsOf(Now, request.destination)
        BY <1>1, <3>1, <3>5 DEF RInv, DestinationsRead
      <4> QED BY <2>2, <3>4, <3>5, <4>1 DEF IsAnswerOf, NoPathIn
    <3>6. CASE request.kind = "farthest"
      <4>1. PICK d \in Nodes : destinations = {d} /\ IsFarthest(d)
        BY <1>1, <1>5, <3>1, <3>6 DEF RInv, DestinationsRead
      <4> QED BY <3>4, <4>1 DEF IsFarthest
    <3> QED BY <3>2, <3>5, <3>6
  <2> QED BY <1>1, <1>5, <2>1, <2>2, <2>3, ReplyKeeps
<1> QED BY <1>2, <1>3, <1>4, <1>5 DEF LoadNodes, t

LEMMA ReadPlanesKeeps == ASSUME RInv, ReadPlanes PROVE RInv'
<1>1. /\ step = "planes" /\ step' = "done" /\ UNCHANGED <<search, graphs, asked, request, plane, fabrics, allowed>>
      /\ answer' = [answer EXCEPT !.planes = PlanesOf(Elements(answer.nodes))]
  BY DEF ReadPlanes, Reply
<1>2. answer.is = "path" /\ DOMAIN answer = {"is", "nodes", "planes"} /\ answer.nodes \in Seq(Nodes)
  BY <1>1 DEF RInv, RightAnswer, ResolverTypeOK
<1>3. /\ DOMAIN answer' = {"is", "nodes", "planes"} /\ answer'.is = "path" /\ answer'.nodes = answer.nodes
      /\ answer'.planes = PlanesOf(Elements(answer.nodes))
  BY <1>1, <1>2
<1>4. UNCHANGED <<sources, destinations, limit, mode, adjacency, distance>> /\ Now' = Now
  BY <1>1 DEF search, Now
<1>5. SInv' /\ BuildsKept'
  BY <1>1, <1>4, SameSearch DEF RInv, BuildsKept, Reached
<1>6. ResolverTypeOK' /\ TargetsAsked' /\ PlaneChosen'
  BY <1>1, <1>2, <1>3, <1>4 DEF RInv, ResolverTypeOK, TargetsAsked, PlaneChosen
<1>7. SourcesRead' /\ DestinationsRead' /\ ScopeRead'
  BY <1>1 DEF SourcesRead, DestinationsRead, ScopeRead
<1>8. ASSUME NEW b \in 1..Now, IsAnswerOf(b, answer) PROVE IsAnswerOf(b, answer)'
  <2>1. Built /\ Known(request.source) /\ Known(request.destination) /\ KeepGraphs
    BY <1>1, <1>4, TargetsKnown DEF RInv, KeepGraphs
  <2>2. PICK a : a = answer
    OBVIOUS
  <2>3. PICK c : c = answer'
    OBVIOUS
  <2>4. IsAnswerOf(b, c)
    BY <1>2, <1>3, <1>8, <2>3 DEF IsAnswerOf
  <2>5. IsAnswerOf(b, c)' = IsAnswerOf(b, c)
    BY <2>1, AnswersKept
  <2> QED BY <2>3, <2>4, <2>5
<1>9. PICK b \in asked..Now : IsAnswerOf(b, answer) /\ (asked = Now => b = Now)
  <2>1. Now \in asked..Now /\ \E b \in asked..Now : IsAnswerOf(b, answer)
    BY <1>1, <1>2 DEF RInv, RightAnswer, Named, ResolverTypeOK
  <2> QED BY <1>1, <1>2, <2>1 DEF RInv, RightAnswer
<1>10. b \in 1..Now /\ b \in asked'..Now'
  BY <1>1, <1>4, <1>9 DEF RInv, ResolverTypeOK
<1>11. IsAnswerOf(b, answer)'
  BY <1>8, <1>9, <1>10
<1>12. PlanesOf(Elements(answer.nodes))' = PlanesOf(Elements(answer.nodes))
  <2>1. PICK S : S = Elements(answer.nodes)
    OBVIOUS
  <2>2. PlanesOf(S)' = PlanesOf(S)
    BY <1>1, <1>4 DEF PlanesOf
  <2>3. Elements(answer.nodes)' = S
    BY <1>3, <2>1 DEF Elements
  <2> QED BY <2>1, <2>2, <2>3
<1>13. RightAnswer'
  BY <1>1, <1>3, <1>4, <1>9, <1>10, <1>11, <1>12 DEF RightAnswer
<1> QED BY <1>5, <1>6, <1>7, <1>13 DEF RInv

LEMMA ResolverStarts == ResolverInit => RInv
<1> SUFFICES ASSUME ResolverInit PROVE RInv
  OBVIOUS
<1>1. /\ graphs \in Seq(Graphs) /\ Now = 1 /\ asked = 0 /\ request \in Requests /\ step = "idle"
      /\ answer.is = "pending" /\ DOMAIN answer = {"is", "nodes", "planes"}
  <2>1. PICK g \in Graphs : graphs = <<g>>
    BY DEF ResolverInit
  <2>2. graphs \in Seq(Graphs) /\ Now = 1
    BY <2>1 DEF Now
  <2> QED BY <2>2 DEF ResolverInit, Answer
<1>2. /\ adjacency = [n \in Nodes |-> {}] /\ sources = {} /\ destinations = {} /\ limit = request.depth
      /\ queue = <<>> /\ mode = "off" /\ Reached = {} /\ DOMAIN parent = {}
  BY DEF ResolverInit, Reached
<1>3. SInv
  BY <1>1, <1>2, RequestsAreRequests DEF IsRequest, SInv, SearchTypeOK
<1>4. ResolverTypeOK
  BY <1>1, <1>2, NodesAreObjects DEF ResolverTypeOK
<1>5. TargetsAsked /\ PlaneChosen /\ BuildsKept /\ SourcesRead /\ DestinationsRead /\ ScopeRead /\ RightAnswer
  BY <1>1, <1>2 DEF TargetsAsked, PlaneChosen, BuildsKept, SourcesRead, DestinationsRead, ScopeRead, RightAnswer
<1> QED BY <1>3, <1>4, <1>5 DEF RInv

LEMMA ResolverSteps == RInv /\ [ResolverNext]_vars => RInv'
<1> SUFFICES ASSUME RInv, [ResolverNext]_vars PROVE RInv'
  OBVIOUS
<1>1. CASE UNCHANGED vars
  <2>1. UNCHANGED search /\ UNCHANGED <<graphs, asked, request, step, plane, fabrics, allowed, answer>>
    BY <1>1 DEF vars, resolver
  <2>2. UNCHANGED <<sources, destinations, limit, mode, adjacency, distance>> /\ Now' = Now
    BY <2>1 DEF search, Now
  <2>3. SInv' /\ BuildsKept' /\ ResolverTypeOK' /\ TargetsAsked' /\ PlaneChosen'
    BY <2>1, <2>2, SameSearch DEF RInv, BuildsKept, Reached, ResolverTypeOK, TargetsAsked, PlaneChosen
  <2>4. Signal' = Signal /\ Fresh' = Fresh /\ \A b, t : EndsOf(b, t)' = EndsOf(b, t)
    BY <2>1, <2>2 DEF Signal, Fresh, EndsOf, LanesOf, UnitsOf, Lanes, Node
  <2>5. /\ EndsOf(Now, request.source)' = EndsOf(Now, request.source)
        /\ EndsOf(Now, request.destination)' = EndsOf(Now, request.destination)
    BY <2>1, <2>2 DEF Signal, EndsOf, LanesOf, UnitsOf, Lanes, Node
  <2>6. \A b : AllRows(b)' = AllRows(b) /\ Balls(b)' = Balls(b) /\ FabricsOf(Ends(b))' = FabricsOf(Ends(b))
    BY <2>1, <2>2 DEF AllRows, Balls, Ends, Rows, FabricsOf, MembersOf, Units0, Signal, EndsOf, LanesOf, UnitsOf, Lanes, Node
  <2>7. \A d : IsFarthest(d)' = IsFarthest(d)
    BY <2>1, <2>2, <2>6 DEF IsFarthest
  <2>8. SourcesRead' /\ DestinationsRead'
    BY <2>1, <2>2, <2>4, <2>5, <2>7 DEF RInv, SourcesRead, DestinationsRead
  <2>9. ScopeRead'
    BY <2>1, <2>2, <2>4, <2>6 DEF RInv, ScopeRead, MembersOf, Units0, Node, Rows, Signal
  <2>10. \A b : IsAnswerOf(b, answer)' = IsAnswerOf(b, answer)
    <3> SUFFICES ASSUME NEW b PROVE IsAnswerOf(b, answer)' = IsAnswerOf(b, answer)
      OBVIOUS
    <3>1. /\ EndsOf(b, request.source)' = EndsOf(b, request.source)
          /\ EndsOf(b, request.destination)' = EndsOf(b, request.destination)
      BY <2>1, <2>2 DEF Signal, EndsOf, LanesOf, UnitsOf, Lanes, Node
    <3>2. AllRows(b)' = AllRows(b) /\ Balls(b)' = Balls(b) /\ request' = request /\ answer' = answer /\ limit' = limit
      BY <2>1, <2>2, <2>6
    <3>3. IsPathIn(b, answer.nodes)' = IsPathIn(b, answer.nodes)
      BY <3>1, <3>2 DEF IsPathIn
    <3>4. NoPathIn(b)' = NoPathIn(b)
      BY <2>1, <2>4, <3>1, <3>2 DEF NoPathIn, FabricsOf
    <3> QED BY <3>2, <3>3, <3>4 DEF IsAnswerOf
  <2>11. RightAnswer'
    BY <2>1, <2>2, <2>10 DEF RInv, RightAnswer, Named, PlanesOf
  <2> QED BY <2>3, <2>8, <2>9, <2>11 DEF RInv
<1>2. ASSUME NEW g \in Graphs, Rebuild(g) PROVE RInv'
  BY <1>2, RebuildKeeps
<1>3. CASE Ask
  BY <1>3, AskKeeps
<1>4. CASE FindSources
  BY <1>4, FindSourcesKeeps
<1>5. CASE FindDestinations
  BY <1>5, FindDestinationsKeeps
<1>6. CASE ReadScope
  BY <1>6, ReadScopeKeeps
<1>7. CASE ReadPlane
  BY <1>7, ReadPlaneKeeps
<1>8. CASE ReadEdges
  BY <1>8, ReadEdgesKeeps
<1>9. CASE ReadMaps
  BY <1>9, ReadMapsKeeps
<1>10. CASE Walk
  BY <1>10, WalkKeeps
<1>11. CASE PickFarthest
  BY <1>11, PickFarthestKeeps
<1>12. CASE LoadNodes
  BY <1>12, LoadNodesKeeps
<1>13. CASE ReadPlanes
  BY <1>13, ReadPlanesKeeps
<1> QED BY <1>1, <1>2, <1>3, <1>4, <1>5, <1>6, <1>7, <1>8, <1>9, <1>10, <1>11, <1>12, <1>13 DEF ResolverNext

\* The nodes of a path lie in rows of one build that are in the plane.
LEMMA PlaneIsKept == ASSUME RInv PROVE PlaneKept
<1> SUFFICES ASSUME step = "done", request.plane # NoPlane, request.entry = "page", answer.is = "path", Len(answer.nodes) > 1
             PROVE  /\ \A n \in Elements(answer.nodes) : request.plane.number \in graphs[n.build].planes[n.unit]
                    /\ asked = Now => request.plane.number \in answer.planes
  BY DEF PlaneKept
<1> DEFINE path == answer.nodes
           p == request.plane
<1>1. plane = p /\ Built /\ asked \in 1..Now /\ path \in Seq(Nodes)
  BY DEF RInv, PlaneChosen, ResolverTypeOK, Built
<1>2. PICK b \in asked..Now : IsAnswerOf(b, answer)
  BY DEF RInv, RightAnswer, Named
<1>3. b \in 1..Now /\ \A i \in 2..Len(path) : {path[i - 1], path[i]} \in AllRows(b)
  BY <1>1, <1>2 DEF IsAnswerOf, IsPathIn
<1>4. ASSUME NEW e \in AllRows(b), NEW n \in e PROVE n.build = b /\ p.number \in graphs[b].planes[n.unit]
  <2>1. PICK x \in Nodes, y \in Nodes :
            /\ e = {x, y} /\ x.build = b /\ y.build = b
            /\ \A z \in {x, y} : graphs[b].fabric[z.unit] \in FabricsOf(Ends(b)) /\ Node(b, z.unit, 0) \in MembersOf(b, plane)
    BY <1>1, <1>3, AllRowsArePairs
  <2>2. n.build = b /\ Node(b, n.unit, 0) \in MembersOf(b, p)
    BY <1>1, <2>1
  <2>3. PICK w \in graphs[b].units : Node(b, n.unit, 0) = Node(b, w, 0) /\ p.number \in graphs[b].planes[w]
    BY <2>2 DEF MembersOf
  <2>4. w = n.unit
    BY <2>3 DEF Node
  <2> QED BY <2>2, <2>3, <2>4
<1>5. ASSUME NEW n \in Elements(path) PROVE n.build = b /\ p.number \in graphs[b].planes[n.unit]
  <2>1. Len(path) \in Nat /\ DOMAIN path = 1..Len(path)
    BY <1>1, LenProperties
  <2>2. PICK i \in 1..Len(path) : n = path[i]
    BY <2>1 DEF Elements
  <2>3. CASE i = 1
    <3>1. 2 \in 2..Len(path) /\ 2 - 1 = 1
      BY <2>1
    <3>2. {path[1], path[2]} \in AllRows(b)
      BY <1>3, <3>1
    <3> QED BY <1>4, <2>2, <2>3, <3>2
  <2>4. CASE i # 1
    <3>1. i \in 2..Len(path)
      BY <2>1, <2>4
    <3>2. {path[i - 1], path[i]} \in AllRows(b)
      BY <1>3, <3>1
    <3> QED BY <1>4, <2>2, <3>2
  <2> QED BY <2>3, <2>4
<1>6. ASSUME asked = Now PROVE p.number \in answer.planes
  <2>1. answer.planes = PlanesOf(Elements(path)) /\ b = Now
    BY <1>1, <1>6 DEF RInv, RightAnswer
  <2>2. Len(path) \in Nat /\ path[1] \in Elements(path)
    BY <1>1, LenProperties DEF Elements
  <2>3. path[1].build = Now /\ p.number \in graphs[path[1].build].planes[path[1].unit]
    BY <1>5, <2>1, <2>2
  <2> QED BY <2>1, <2>2, <2>3 DEF PlanesOf
<1> QED BY <1>5, <1>6

LEMMA ResolverInvariant == ResolverSpec => []RInv
BY ResolverStarts, ResolverSteps, PTL DEF ResolverSpec

\* The searches of a request are exact too, the second of a representative
\* path among them, which starts where the first one ended
\* (resolver.py:380-401, blast_radius.py:34-45).
THEOREM RequestSearchesAreExact == ResolverSpec => []SearchExact
<1>1. RInv => SearchExact
  BY SInvExact DEF RInv
<1> QED BY ResolverInvariant, <1>1, PTL

\* Whatever is rebuilt between the queries of a request, an answer that names
\* objects is the right answer of one of the builds of that time: a shortest
\* path, all that is within reach, or a lane that is farthest, in the graph of
\* that build (resolver.py:325-490, blast_radius.py:23-61).
THEOREM AnswersComeFromOneGraph == ResolverSpec => []AnswersOneGraph
<1>1. RInv => AnswersOneGraph
  BY DEF RInv, RightAnswer, Named, AnswersOneGraph
<1> QED BY ResolverInvariant, <1>1, PTL

\* Without a rebuild every request that is not refused is answered rightly:
\* there is a path in the answer if and only if there is one within max_depth,
\* and no object is missing (resolver.py:325-490, blast_radius.py:23-61).
THEOREM UndisturbedAnswersAreRight == ResolverSpec => []AloneIsRight
<1>1. RInv => AloneIsRight
  BY DEF RInv, RightAnswer, AloneIsRight
<1> QED BY ResolverInvariant, <1>1, PTL

\* No rebuild takes a path out of the plane a page was asked for
\* (resolver.py:20-37, 103-239).
THEOREM PathsKeepThePlane == ResolverSpec => []PlaneKept
BY ResolverInvariant, PlaneIsKept, PTL
=============================================================================

------------------------- MODULE PolicyReviewProofs -------------------------
(* Theorems about PolicyReview, for any graphs, edits, requests and         *)
(* exceptions and any number of versions.                                   *)
EXTENDS PolicyReview, FiniteSetTheorems, SequenceTheorems, WellFoundedInduction, TLAPS

-----------------------------------------------------------------------------
(* The inductive invariant *)

\* Builds are numbered in the order of versions, and edits keep all but the memberships.
VersionsInOrder ==
    /\ versions \in Seq(Snapshots)
    /\ Now \in 1..MaxVersions
    /\ \A v \in 1..Now : Build(v) \in 1..v
    /\ \A v, w \in 1..Now : v <= w => Build(v) <= Build(w)
    /\ \A v, w \in 1..Now : Build(v) = Build(w) => versions[v].units = versions[w].units /\ versions[v].edges = versions[w].edges

\* A version that was read is of build b or a later one, and no later than now.
SeenSince(v, b, now) == v \in 1..now /\ Build(v) >= b
ReadSince(ev, b, now) == SeenSince(ev.units, b, now) /\ SeenSince(ev.members, b, now) /\ SeenSince(ev.edges, b, now)

\* The planes a request read are all there are, or those of one version.
IsAudit(r) == requests[r].kind = "audit"
PlanesOfOneGraph(r, now) ==
    IF IsAudit(r) /\ step[r] \notin {"idle", "planes"}
    THEN \E v \in 1..now : Build(v) >= Build(asked[r]) /\ reads[r].planes = PlanesAt(v, requests[r].scope)
    ELSE reads[r].planes = AllPlanes

\* What a request read, it read since it asked and before it was answered.
RequestInOrder(r) ==
    /\ requests[r].kind \in {"audit", "review", "dashboard"}
    /\ requests[r].scope \subseteq PlaneNumbers
    /\ ~IsAudit(r) => requests[r].scope = PlaneNumbers
    /\ step[r] \in {"cache", "store"} => requests[r].kind = "dashboard"
    /\ step[r] = "planes" => IsAudit(r)
    /\ ReadSince(reads[r], Build(asked[r]), Now) /\ PlanesOfOneGraph(r, Now)
    /\ Done(r) => ReadSince(reads[r], Build(asked[r]), answered[r]) /\ PlanesOfOneGraph(r, answered[r])

RequestTypes ==
    /\ step \in [Requests -> Steps]
    /\ asked \in [Requests -> 1..Now]
    /\ answered \in [Requests -> 1..Now]
    /\ reads \in [Requests -> Evaluations]

\* What is cached was read since the build it is cached for.
CacheInOrder ==
    /\ cache \in [1..MaxVersions -> Evaluations \cup {NoEvaluation}]
    /\ \A b \in 1..MaxVersions : cache[b] # NoEvaluation => ReadSince(cache[b], b, Now) /\ cache[b].planes = AllPlanes

RequestsInOrder == RequestTypes /\ \A r \in Requests : RequestInOrder(r)
PInv == VersionsInOrder /\ RequestsInOrder /\ CacheInOrder

-----------------------------------------------------------------------------
(* What commits do to the versions *)

LEMMA VersionParts ==
  ASSUME VersionsInOrder
  PROVE  \A v \in 1..Now : /\ versions[v] \in Snapshots
                           /\ Build(v) \in 1..MaxVersions /\ v \in Nat /\ v <= MaxVersions
<1>1. MaxVersions \in Nat /\ Now \in Nat /\ Now <= MaxVersions
  BY BoundsAssumption DEF VersionsInOrder
<1>2. \A v \in 1..Now : versions[v] \in Snapshots
  BY ElementOfSeq DEF VersionsInOrder, Now
<1> QED
  BY <1>1, <1>2 DEF VersionsInOrder

\* A commit adds a version, of the last build or a new one.
LEMMA VersionAdded ==
  ASSUME VersionsInOrder, Now < MaxVersions, NEW g \in Snapshots, versions' = Append(versions, g),
         \/ g.build = Build(Now) + 1
         \/ g.build = Build(Now) /\ g.units = versions[Now].units /\ g.edges = versions[Now].edges
  PROVE  /\ VersionsInOrder'
         /\ Now' = Now + 1
         /\ \A v \in 1..Now : Build(v)' = Build(v)
<1>1. /\ versions' \in Seq(Snapshots) /\ Now' = Now + 1 /\ versions'[Now + 1] = g
      /\ \A v \in 1..Now : versions'[v] = versions[v]
  BY AppendProperties DEF VersionsInOrder, Now
<1>2. MaxVersions \in Nat /\ Now \in Nat \ {0}
  BY BoundsAssumption DEF VersionsInOrder
<1>3. \A v \in 1..Now : Build(v)' = Build(v)
  BY <1>1 DEF Build
<1>4. Now' \in 1..MaxVersions
  BY <1>1, <1>2
<1>5. versions'[Now + 1].build = g.build /\ Build(Now) \in 1..Now /\ g.build \in 1..(Now + 1)
      /\ Build(Now) <= g.build
  BY <1>1, <1>2 DEF Build, VersionsInOrder
<1>6. \A v \in 1..Now' : v \in 1..Now \/ v = Now + 1
  BY <1>1, <1>2
<1>12. \A v \in 1..Now' : Build(v)' = IF v = Now + 1 THEN g.build ELSE Build(v)
  BY <1>3, <1>5, <1>6 DEF Build
<1>7. \A v \in 1..Now' : Build(v)' \in 1..v
  BY <1>2, <1>12, <1>5, <1>6 DEF VersionsInOrder
<1>8. \A v \in 1..Now : Build(v) <= Build(Now) /\ Build(v) \in Nat
  BY <1>2 DEF VersionsInOrder
<1>9. \A v, w \in 1..Now' : v <= w => Build(v)' <= Build(w)'
  BY <1>2, <1>12, <1>5, <1>6, <1>8 DEF VersionsInOrder
<1>10. \A v \in 1..Now : Build(v) = g.build => versions[v].units = g.units /\ versions[v].edges = g.edges
  BY <1>2, <1>5, <1>8 DEF VersionsInOrder
<1>11. ASSUME NEW v \in 1..Now', NEW w \in 1..Now', Build(v)' = Build(w)'
       PROVE  versions'[v].units = versions'[w].units /\ versions'[v].edges = versions'[w].edges
  <2>1. CASE v \in 1..Now /\ w \in 1..Now
    <3>1. Build(v) = Build(w)
      BY <1>3, <1>11, <2>1
    <3> QED  BY <1>1, <2>1, <3>1 DEF VersionsInOrder
  <2>2. CASE v \in 1..Now /\ w = Now + 1
    <3>1. Build(v) = g.build
      BY <1>1, <1>3, <1>11, <2>2 DEF Build
    <3> QED  BY <1>1, <1>10, <2>2, <3>1
  <2>3. CASE v = Now + 1 /\ w \in 1..Now
    <3>1. Build(w) = g.build
      BY <1>1, <1>3, <1>11, <2>3 DEF Build
    <3> QED  BY <1>1, <1>10, <2>3, <3>1
  <2> QED  BY <1>6, <2>1, <2>2, <2>3
<1> QED
  BY <1>1, <1>3, <1>4, <1>7, <1>9, <1>11 DEF VersionsInOrder

LEMMA RebuildAdds ==
  ASSUME VersionsInOrder, NEW g \in Graphs, Rebuild(g)
  PROVE  VersionsInOrder' /\ Now' = Now + 1 /\ \A v \in 1..Now : Build(v)' = Build(v)
<1> DEFINE w == Version(Build(Now) + 1, g)
<1>1. MaxVersions \in Nat /\ Now \in 1..MaxVersions /\ Build(Now) \in 1..Now /\ Now < MaxVersions
  BY BoundsAssumption DEF VersionsInOrder, Rebuild
<1>2. Build(Now) + 1 \in 1..MaxVersions
  BY <1>1
<1>3. g.units \in {h.units : h \in Graphs} /\ g.edges \in {h.edges : h \in Graphs}
      /\ g.planes \in UNION {[h.units -> SUBSET PlaneNumbers] : h \in Graphs}
  BY GraphsAssumption
<1>4. w \in Snapshots /\ w.build = Build(Now) + 1
  BY <1>2, <1>3 DEF Version, Snapshots
<1>5. versions' = Append(versions, w)
  BY DEF Rebuild
<1> HIDE DEF w
<1> QED
  BY <1>1, <1>4, <1>5, VersionAdded

LEMMA EditAdds ==
  ASSUME VersionsInOrder, NEW e \in Edits, EditMemberships(e[1], e[2])
  PROVE  VersionsInOrder' /\ Now' = Now + 1 /\ \A v \in 1..Now : Build(v)' = Build(v)
<1> DEFINE w == [versions[Now] EXCEPT !.planes[e[1]] = e[2]]
<1>1. Now \in 1..Now /\ Now < MaxVersions /\ versions[Now] \in Snapshots
  BY VersionParts DEF VersionsInOrder, EditMemberships
<1>2. e[2] \subseteq PlaneNumbers
  BY GraphsAssumption
<1>3. PICK h \in Graphs : versions[Now].planes \in [h.units -> SUBSET PlaneNumbers]
  BY <1>1 DEF Snapshots
<1>4. [versions[Now].planes EXCEPT ![e[1]] = e[2]] \in [h.units -> SUBSET PlaneNumbers]
  BY <1>2, <1>3
<1>5. w \in Snapshots /\ w.build = versions[Now].build /\ w.units = versions[Now].units /\ w.edges = versions[Now].edges
  BY <1>1, <1>4 DEF Snapshots
<1>6. versions' = Append(versions, w)
  BY DEF EditMemberships
<1> HIDE DEF w
<1> QED
  BY <1>1, <1>5, <1>6, VersionAdded DEF Build

-----------------------------------------------------------------------------
(* Commits leave what was read as it is *)

LEMMA CommitPreserves ==
  ASSUME PInv, VersionsInOrder', Now' = Now + 1, \A v \in 1..Now : Build(v)' = Build(v),
         UNCHANGED <<cache, requests, progress>>
  PROVE  PInv'
<1> USE DEF PInv, RequestsInOrder
<1>1. Now \in Nat /\ 1..Now \subseteq 1..Now' /\ Now' = Now + 1
  BY BoundsAssumption DEF VersionsInOrder
<1>2. Evaluations \subseteq Evaluations'
  BY <1>1 DEF Evaluations
<1>3. RequestTypes'
  BY <1>1, <1>2 DEF RequestTypes, Requests, progress
<1>4. ASSUME NEW r \in Requests
      PROVE  RequestInOrder(r)'
  <2>1. /\ requests' = requests /\ step' = step /\ asked' = asked /\ reads' = reads /\ answered' = answered
        /\ asked[r] \in 1..Now /\ answered[r] \in 1..Now
    BY DEF RequestTypes, progress
  <2>2. Build(asked[r])' = Build(asked[r])
    BY <2>1
  <2>3. RequestInOrder(r)
    OBVIOUS
  <2>4. ReadSince(reads[r], Build(asked[r]), Now)'
    <3>1. ReadSince(reads[r], Build(asked[r]), Now)
      BY <2>3 DEF RequestInOrder
    <3> DEFINE b == Build(asked[r])  ev == reads[r]  n == Now
    <3>2. ReadSince(ev, b, n) => \A v \in {ev.units, ev.members, ev.edges} : v \in 1..Now' /\ versions'[v].build >= b
      BY <1>1 DEF ReadSince, SeenSince, Build
    <3> QED  BY <1>1, <2>1, <2>2, <3>1, <3>2 DEF ReadSince, SeenSince, Build
  <2>5. PlanesOfOneGraph(r, Now)'
    BY <1>1, <2>1, <2>2, <2>3 DEF RequestInOrder, PlanesOfOneGraph, IsAudit, PlanesAt
  <2>6. Done(r)' => ReadSince(reads[r], Build(asked[r]), answered[r])'
    BY <1>1, <2>1, <2>2, <2>3 DEF RequestInOrder, ReadSince, SeenSince, Done
  <2>7. Done(r)' => PlanesOfOneGraph(r, answered[r])'
    BY <1>1, <2>1, <2>2, <2>3 DEF RequestInOrder, PlanesOfOneGraph, IsAudit, PlanesAt, Done
  <2> QED
    BY <2>1, <2>3, <2>4, <2>5, <2>6, <2>7 DEF RequestInOrder, IsAudit
<1>5. CacheInOrder'
  <2>1. cache' = cache /\ cache' \in [1..MaxVersions -> Evaluations' \cup {NoEvaluation}]
    BY <1>2 DEF CacheInOrder
  <2>2. ASSUME NEW b \in 1..MaxVersions, cache[b] # NoEvaluation
        PROVE  ReadSince(cache[b], b, Now)'
    BY <1>1, <2>1, <2>2 DEF CacheInOrder, ReadSince, SeenSince
  <2> QED
    BY <2>1, <2>2 DEF CacheInOrder
<1> QED
  BY <1>3, <1>4, <1>5 DEF Requests

-----------------------------------------------------------------------------
(* Each query of a request keeps the others', and its own, in order *)

LEMMA OtherRequests ==
  ASSUME PInv, UNCHANGED graph, NEW s \in Requests,
         step'[s] = step[s], asked'[s] = asked[s], reads'[s] = reads[s], answered'[s] = answered[s]
  PROVE  RequestInOrder(s)'
<1>1. RequestInOrder(s) /\ versions' = versions /\ requests' = requests
  BY DEF PInv, RequestsInOrder, graph
<1> QED
  BY <1>1 DEF RequestInOrder, ReadSince, SeenSince, PlanesOfOneGraph, IsAudit, Done, Build, Now, PlanesAt

\* A request that steps, and stays in order, keeps all of the invariant.
LEMMA StepOfRequest ==
  ASSUME PInv, UNCHANGED <<graph, cache>>, NEW r \in Requests, NEW to \in Steps,
         step' = [step EXCEPT ![r] = to],
         NEW a \in 1..Now, asked' = [asked EXCEPT ![r] = a],
         NEW ev \in Evaluations, reads' = [reads EXCEPT ![r] = ev],
         NEW t \in 1..Now, answered' = [answered EXCEPT ![r] = t],
         step'[r] = to /\ asked'[r] = a /\ reads'[r] = ev /\ answered'[r] = t => RequestInOrder(r)'
  PROVE  PInv'
<1>1. versions' = versions /\ requests' = requests /\ cache' = cache /\ RequestTypes
  BY DEF graph, PInv, RequestsInOrder
<1>2. Requests' = Requests /\ Now' = Now /\ Evaluations' = Evaluations
  BY <1>1 DEF Requests, Now, Evaluations
<1>3. RequestTypes'
  BY <1>1, <1>2 DEF RequestTypes
<1>4. step'[r] = to /\ asked'[r] = a /\ reads'[r] = ev /\ answered'[r] = t
  BY <1>1 DEF RequestTypes
<1>5. ASSUME NEW s \in Requests, s # r
      PROVE  step'[s] = step[s] /\ asked'[s] = asked[s] /\ reads'[s] = reads[s] /\ answered'[s] = answered[s]
  BY <1>1, <1>5 DEF RequestTypes
<1>6. ASSUME NEW s \in Requests
      PROVE  RequestInOrder(s)'
  BY <1>4, <1>5, OtherRequests
<1>7. VersionsInOrder' /\ CacheInOrder'
  BY <1>1, <1>2 DEF PInv, VersionsInOrder, CacheInOrder, ReadSince, SeenSince, Build
<1> QED
  BY <1>2, <1>3, <1>6, <1>7 DEF PInv, RequestsInOrder

LEMMA FreshInOrder ==
  ASSUME PInv
  PROVE  Now \in 1..Now /\ Fresh(Now) \in Evaluations /\ ReadSince(Fresh(Now), Build(Now), Now)
<1>1. Now \in 1..Now /\ Build(Now) \in 1..Now
  BY BoundsAssumption DEF PInv, VersionsInOrder
<1> QED
  BY <1>1 DEF Fresh, Evaluations, ReadSince, SeenSince

LEMMA LoadFabricPreserves ==
  ASSUME PInv, NEW r \in Requests, LoadFabric(r)
  PROVE  PInv'
<1> DEFINE to == CASE requests[r].kind = "audit" -> "planes" [] requests[r].kind = "dashboard" -> "cache" [] OTHER -> "units"
<1>1. /\ step[r] = "idle" /\ step' = [step EXCEPT ![r] = to]
      /\ asked' = [asked EXCEPT ![r] = Now] /\ reads' = [reads EXCEPT ![r] = Fresh(Now)] /\ UNCHANGED <<graph, cache, answered>>
  BY DEF LoadFabric, Go
<1>2. /\ RequestTypes /\ RequestInOrder(r) /\ versions' = versions /\ requests' = requests /\ Now' = Now
      /\ answered[r] \in 1..Now /\ answered' = [answered EXCEPT ![r] = answered[r]]
  BY <1>1 DEF PInv, RequestsInOrder, RequestTypes, graph, Now
<1>3. to \in Steps /\ to \in {"planes", "cache", "units"} /\ (to = "planes" <=> IsAudit(r)) /\ (to = "cache" <=> requests[r].kind = "dashboard")
  BY DEF Steps, IsAudit
<1>4. ASSUME step'[r] = to, asked'[r] = Now, reads'[r] = Fresh(Now)
      PROVE  RequestInOrder(r)'
  <2>1. ReadSince(reads[r], Build(asked[r]), Now)' /\ PlanesOfOneGraph(r, Now)'
    BY <1>2, <1>3, <1>4, FreshInOrder DEF ReadSince, SeenSince, Build, Fresh, PlanesOfOneGraph, IsAudit
  <2>2. ~Done(r)'
    BY <1>3, <1>4 DEF Done
  <2> QED  BY <1>2, <1>3, <1>4, <2>1, <2>2 DEF RequestInOrder, IsAudit
<1> HIDE DEF to
<1> QED
  BY <1>1, <1>2, <1>3, <1>4, FreshInOrder, StepOfRequest

LEMMA ReadCachePreserves ==
  ASSUME PInv, NEW r \in Requests, ReadCache(r)
  PROVE  PInv'
<1>1. /\ RequestTypes /\ RequestInOrder(r) /\ versions' = versions /\ requests' = requests /\ Now' = Now
      /\ step[r] = "cache" /\ UNCHANGED <<graph, cache>>
      /\ asked[r] \in 1..Now /\ asked' = [asked EXCEPT ![r] = asked[r]]
      /\ answered[r] \in 1..Now /\ answered' = [answered EXCEPT ![r] = answered[r]]
      /\ reads[r] \in Evaluations
  BY DEF PInv, RequestsInOrder, RequestTypes, graph, Now, ReadCache, Go
<1>2. ~IsAudit(r) /\ requests[r].kind = "dashboard"
  BY <1>1 DEF RequestInOrder, IsAudit
<1>3. Build(asked[r]) \in 1..MaxVersions
  BY <1>1, VersionParts DEF PInv
<1>4. CASE cache[Revision(r)] # NoEvaluation
  <2> DEFINE ev == cache[Revision(r)]
  <2>1. ev \in Evaluations /\ ReadSince(ev, Build(asked[r]), Now) /\ ev.planes = AllPlanes
    BY <1>3, <1>4 DEF PInv, CacheInOrder, Revision
  <2>2. step' = [step EXCEPT ![r] = "review"] /\ reads' = [reads EXCEPT ![r] = ev] /\ "review" \in Steps
    BY <1>4 DEF ReadCache, Go, Steps
  <2> HIDE DEF ev
  <2>3. ASSUME step'[r] = "review", asked'[r] = asked[r], reads'[r] = ev
        PROVE  RequestInOrder(r)'
    <3>1. ReadSince(reads[r], Build(asked[r]), Now)' /\ PlanesOfOneGraph(r, Now)' /\ ~Done(r)'
      BY <1>1, <1>2, <2>1, <2>3 DEF ReadSince, SeenSince, Build, PlanesOfOneGraph, IsAudit, Done
    <3> QED  BY <1>1, <2>3, <3>1 DEF RequestInOrder, IsAudit
  <2> QED
    BY <1>1, <2>1, <2>2, <2>3, StepOfRequest
<1>5. CASE cache[Revision(r)] = NoEvaluation
  <2>2. step' = [step EXCEPT ![r] = "units"] /\ reads' = [reads EXCEPT ![r] = reads[r]] /\ "units" \in Steps
    BY <1>1, <1>5 DEF ReadCache, Go, Steps, RequestTypes
  <2>3. ASSUME step'[r] = "units", asked'[r] = asked[r], reads'[r] = reads[r]
        PROVE  RequestInOrder(r)'
    <3>1. ReadSince(reads[r], Build(asked[r]), Now)' /\ PlanesOfOneGraph(r, Now)' /\ ~Done(r)'
      BY <1>1, <1>2, <2>3 DEF RequestInOrder, ReadSince, SeenSince, Build, PlanesOfOneGraph, IsAudit, Done
    <3> QED  BY <1>1, <2>3, <3>1 DEF RequestInOrder, IsAudit
  <2> QED
    BY <1>1, <2>2, <2>3, StepOfRequest
<1> QED
  BY <1>4, <1>5

LEMMA Loaded ==
  ASSUME PInv, NEW r \in Requests
  PROVE  /\ RequestTypes /\ RequestInOrder(r) /\ step[r] \in Steps
         /\ asked[r] \in 1..Now /\ answered[r] \in 1..Now /\ reads[r] \in Evaluations
         /\ Now \in 1..Now /\ Build(Now) >= Build(asked[r]) /\ Build(asked[r]) \in 1..Now
<1>1. RequestTypes /\ RequestInOrder(r) /\ VersionsInOrder
  BY DEF PInv, RequestsInOrder
<1>2. asked[r] \in 1..Now /\ Now \in 1..Now /\ asked[r] <= Now
  BY <1>1, BoundsAssumption DEF RequestTypes, VersionsInOrder
<1> QED
  BY <1>1, <1>2, VersionParts DEF RequestTypes, VersionsInOrder

\* One query of an evaluation, that leaves what was read in order.
LEMMA QueryPreserves ==
  ASSUME PInv, NEW r \in Requests, NEW ev \in Evaluations, Saw(r, ev),
         NEW to \in {"units", "members", "edges", "exceptions"}, step' = [step EXCEPT ![r] = to],
         ReadSince(ev, Build(asked[r]), Now),
         IsAudit(r) => \E v \in 1..Now : Build(v) >= Build(asked[r]) /\ ev.planes = PlanesAt(v, requests[r].scope),
         ~IsAudit(r) => ev.planes = AllPlanes
  PROVE  PInv'
<1>1. /\ versions' = versions /\ requests' = requests /\ Now' = Now /\ UNCHANGED <<graph, cache>>
      /\ asked' = [asked EXCEPT ![r] = asked[r]] /\ answered' = [answered EXCEPT ![r] = answered[r]]
      /\ reads' = [reads EXCEPT ![r] = ev] /\ to \in Steps
  BY Loaded DEF Saw, graph, Now, RequestTypes, Steps
<1>2. ASSUME step'[r] = to, asked'[r] = asked[r], reads'[r] = ev
      PROVE  RequestInOrder(r)'
  <2>1. ReadSince(reads[r], Build(asked[r]), Now)'
    BY <1>1, <1>2 DEF ReadSince, SeenSince, Build
  <2>2. PlanesOfOneGraph(r, Now)'
    <3>1. CASE IsAudit(r)
      BY <1>1, <1>2, <3>1 DEF PlanesOfOneGraph, IsAudit, PlanesAt, Build
    <3>2. CASE ~IsAudit(r)
      BY <1>1, <1>2, <3>2 DEF PlanesOfOneGraph, IsAudit
    <3> QED  BY <3>1, <3>2
  <2> QED
    BY <1>1, <1>2, <2>1, <2>2, Loaded DEF RequestInOrder, IsAudit, Done
<1> QED
  BY <1>1, <1>2, Loaded, StepOfRequest

LEMMA EvaluationReadsPreserve ==
  ASSUME PInv, NEW r \in Requests, ReadUnits(r) \/ ReadMemberships(r) \/ ReadEdges(r)
  PROVE  PInv'
<1>1. PICK to \in {"members", "edges", "exceptions"} :
        /\ step' = [step EXCEPT ![r] = to] /\ step[r] \in {"units", "members", "edges"}
        /\ \/ Saw(r, [reads[r] EXCEPT !.units = Now])
           \/ Saw(r, [reads[r] EXCEPT !.members = Now])
           \/ Saw(r, [reads[r] EXCEPT !.edges = Now])
  BY DEF ReadUnits, ReadMemberships, ReadEdges, Go
<1>2. PICK ev : /\ Saw(r, ev)
                /\ \/ ev = [reads[r] EXCEPT !.units = Now] \/ ev = [reads[r] EXCEPT !.members = Now]
                   \/ ev = [reads[r] EXCEPT !.edges = Now]
  BY <1>1
<1>3. ev \in Evaluations /\ ev.planes = reads[r].planes
  BY <1>2, Loaded DEF Evaluations
<1>4. ReadSince(ev, Build(asked[r]), Now)
  <2>1. ReadSince(reads[r], Build(asked[r]), Now) /\ SeenSince(Now, Build(asked[r]), Now)
    BY Loaded DEF RequestInOrder, SeenSince
  <2> QED
    BY <1>2, <2>1, Loaded DEF ReadSince, Evaluations
<1>5. PlanesOfOneGraph(r, Now)
  BY Loaded DEF RequestInOrder
<1>6. IsAudit(r) => \E v \in 1..Now : Build(v) >= Build(asked[r]) /\ ev.planes = PlanesAt(v, requests[r].scope)
  BY <1>1, <1>3, <1>5 DEF PlanesOfOneGraph
<1>7. ~IsAudit(r) => ev.planes = AllPlanes
  BY <1>3, <1>5 DEF PlanesOfOneGraph
<1> QED
  BY <1>1, <1>2, <1>3, <1>4, <1>6, <1>7, QueryPreserves

LEMMA PlanesAreSome ==
  ASSUME PInv, NEW v \in 1..Now, NEW S \in SUBSET PlaneNumbers
  PROVE  PlanesAt(v, S) \in SUBSET AllPlanes
BY VersionParts DEF PInv, PlanesAt, AllPlanes

LEMMA ReadPlanesPreserves ==
  ASSUME PInv, NEW r \in Requests, ReadPlanes(r)
  PROVE  PInv'
<1> DEFINE S == requests[r].scope
<1>1. IsAudit(r) /\ S \in SUBSET PlaneNumbers /\ ReadSince(reads[r], Build(asked[r]), Now)
  BY Loaded DEF RequestInOrder, ReadPlanes, Go
<1>2. PICK v \in 1..Now : Build(v) >= Build(asked[r]) /\ Saw(r, [reads[r] EXCEPT !.planes = PlanesAt(v, S)])
  BY Loaded DEF ReadPlanes
<1> DEFINE ev == [reads[r] EXCEPT !.planes = PlanesAt(v, S)]
<1>3. PlanesAt(v, S) \in SUBSET AllPlanes
  BY <1>1, PlanesAreSome
<1>4. ev \in Evaluations /\ ev.planes = PlanesAt(v, S) /\ ReadSince(ev, Build(asked[r]), Now)
  BY <1>1, <1>3, Loaded DEF Evaluations, ReadSince
<1>5. step' = [step EXCEPT ![r] = "units"]
  BY DEF ReadPlanes, Go
<1> HIDE DEF ev, S
<1> QED
  BY <1>1, <1>2, <1>4, <1>5, QueryPreserves DEF S, ev

\* The step that answers a request, and what else leaves its reads alone.
LEMMA AnswerPreserves ==
  ASSUME PInv, NEW r \in Requests, UNCHANGED <<graph, cache, asked, reads>>,
         step[r] \notin {"idle", "planes"}, NEW to \in {"done", "store", "review"}, step' = [step EXCEPT ![r] = to],
         to = "store" => requests[r].kind = "dashboard", answered' = [answered EXCEPT ![r] = Now]
  PROVE  PInv'
<1>1. /\ versions' = versions /\ requests' = requests /\ Now' = Now
      /\ asked' = [asked EXCEPT ![r] = asked[r]] /\ reads' = [reads EXCEPT ![r] = reads[r]] /\ to \in Steps
  BY Loaded DEF graph, Now, RequestTypes, Steps
<1>2. ASSUME step'[r] = to, asked'[r] = asked[r], reads'[r] = reads[r], answered'[r] = Now
      PROVE  RequestInOrder(r)'
  <2>1. ReadSince(reads[r], Build(asked[r]), Now) /\ PlanesOfOneGraph(r, Now)
    BY Loaded DEF RequestInOrder
  <2>2. ReadSince(reads[r], Build(asked[r]), Now)' /\ ReadSince(reads[r], Build(asked[r]), answered[r])'
    BY <1>1, <1>2, <2>1 DEF ReadSince, SeenSince, Build
  <2>3. PlanesOfOneGraph(r, Now)' /\ PlanesOfOneGraph(r, answered[r])'
    BY <1>1, <1>2, <2>1 DEF PlanesOfOneGraph, IsAudit, PlanesAt, Build
  <2> QED
    BY <1>1, <1>2, <2>2, <2>3, Loaded DEF RequestInOrder, IsAudit
<1> QED
  BY <1>1, <1>2, Loaded, StepOfRequest

LEMMA ReadExceptionsPreserves ==
  ASSUME PInv, NEW r \in Requests, ReadExceptions(r) \/ Review(r)
  PROVE  PInv'
<1>1. PICK to \in {"done", "store", "review"} :
        /\ step' = [step EXCEPT ![r] = to] /\ (to = "store" => requests[r].kind = "dashboard")
        /\ step[r] \in {"exceptions", "review"}
  BY DEF ReadExceptions, Review, Go
<1>2. UNCHANGED <<graph, cache, asked, reads>> /\ answered' = [answered EXCEPT ![r] = Now]
  BY DEF ReadExceptions, Review
<1> QED
  BY <1>1, <1>2, AnswerPreserves

LEMMA StorePreserves ==
  ASSUME PInv, NEW r \in Requests, Store(r)
  PROVE  PInv'
<1> DEFINE b == Revision(r)
<1>1. /\ versions' = versions /\ requests' = requests /\ asked' = asked /\ reads' = reads /\ answered' = answered
      /\ step[r] = "store" /\ step' = [step EXCEPT ![r] = "review"] /\ cache' = [cache EXCEPT ![b] = reads[r]]
  BY DEF Store, Go, graph
<1>2. /\ b \in 1..MaxVersions /\ reads[r] \in Evaluations /\ ~IsAudit(r)
      /\ ReadSince(reads[r], b, Now) /\ reads[r].planes = AllPlanes
  BY <1>1, Loaded, VersionParts DEF RequestInOrder, PlanesOfOneGraph, IsAudit, Revision, PInv
<1>3. Now' = Now /\ Evaluations' = Evaluations /\ Requests' = Requests
  BY <1>1 DEF Now, Evaluations, Requests
<1>4. CacheInOrder'
  <2>1. cache' \in [1..MaxVersions -> Evaluations' \cup {NoEvaluation}]
    BY <1>1, <1>2, <1>3 DEF PInv, CacheInOrder
  <2>2. ASSUME NEW c \in 1..MaxVersions, cache'[c] # NoEvaluation
        PROVE  ReadSince(cache[c], c, Now)' /\ cache'[c].planes = AllPlanes
    <3>1. CASE c = b
      <4>1. cache'[c] = reads[r]
        BY <1>1, <3>1 DEF PInv, CacheInOrder
      <4> QED  BY <1>1, <1>2, <1>3, <3>1, <4>1 DEF ReadSince, SeenSince, Build
    <3>2. CASE c # b
      <4>1. cache'[c] = cache[c]
        BY <1>1, <3>2 DEF PInv, CacheInOrder
      <4> QED  BY <1>1, <1>3, <2>2, <4>1 DEF PInv, CacheInOrder, ReadSince, SeenSince, Build
    <3> QED  BY <3>1, <3>2
  <2> QED
    BY <2>1, <2>2 DEF CacheInOrder
<1>5. ASSUME NEW s \in Requests
      PROVE  RequestInOrder(s)'
  <2>1. RequestInOrder(s) /\ step'[s] = IF s = r THEN "review" ELSE step[s]
    BY <1>1, Loaded DEF RequestTypes, PInv, RequestsInOrder
  <2> QED
    BY <1>1, <1>2, <1>3, <2>1 DEF RequestInOrder, ReadSince, SeenSince, PlanesOfOneGraph, IsAudit, Done, Build, PlanesAt
<1>6. RequestTypes' /\ VersionsInOrder'
  <2>1. "review" \in Steps /\ RequestTypes /\ VersionsInOrder
    BY DEF Steps, PInv, RequestsInOrder
  <2> QED
    BY <1>1, <1>3, <2>1 DEF RequestTypes, VersionsInOrder, Build
<1> QED
  BY <1>3, <1>4, <1>5, <1>6 DEF PInv, RequestsInOrder

-----------------------------------------------------------------------------
(* Exceptions *)

\* A row of the table of exceptions has all of its columns.
IsRow(x) ==
    x = [status |-> x.status, active |-> x.active, expires |-> x.expires, type |-> x.type,
         pair |-> x.pair, target |-> x.target, about |-> x.about]
ActiveWhenApproved(x) == x.status \in Statuses /\ (x.active <=> x.status = "approved")
NamesPresentPlanes(x) == \A p \in x.pair : p.build = Build(Now)
ExceptionsInOrder ==
    /\ exceptions = [x \in Exceptions |-> exceptions[x]] /\ copies = [o \in Operators |-> copies[o]]
    /\ \A x \in Exceptions : IsRow(exceptions[x]) /\ ActiveWhenApproved(exceptions[x]) /\ NamesPresentPlanes(exceptions[x])
    /\ \A o \in Operators : copies[o] # NoCopy => IsRow(copies[o].row)

\* A row that replaces another keeps the table in order.
LEMMA RowReplaced ==
  ASSUME ExceptionsInOrder, versions' = versions, NEW i, NEW row,
         copies' = [o \in Operators |-> copies'[o]],
         \A o \in Operators : copies'[o] # NoCopy => IsRow(copies'[o].row),
         exceptions' = [exceptions EXCEPT ![i] = row],
         i \in Exceptions => IsRow(row) /\ ActiveWhenApproved(row) /\ NamesPresentPlanes(row)
  PROVE  ExceptionsInOrder'
<1>1. Exceptions' = Exceptions /\ exceptions' = [x \in Exceptions |-> IF x = i THEN row ELSE exceptions[x]]
  BY DEF ExceptionsInOrder, Exceptions
<1>2. \A x \in Exceptions : exceptions'[x] = IF x = i THEN row ELSE exceptions[x]
  BY <1>1
<1>3. exceptions' = [x \in Exceptions' |-> exceptions'[x]]
  BY <1>1, <1>2
<1>4. \A x \in Exceptions : IsRow(exceptions'[x]) /\ ActiveWhenApproved(exceptions'[x]) /\ NamesPresentPlanes(exceptions'[x])
  BY <1>2 DEF ExceptionsInOrder
<1> QED
  BY <1>1, <1>3, <1>4 DEF ExceptionsInOrder, NamesPresentPlanes, Build, Now

LEMMA RequestExceptionInOrder ==
  ASSUME ExceptionsInOrder, NEW i \in Exceptions, NEW w \in Wishes, RequestException(i, w)
  PROVE  ExceptionsInOrder'
<1>1. PICK row : /\ exceptions' = [exceptions EXCEPT ![i] = row]
                 /\ \E t, about : row = [status |-> "draft", active |-> FALSE, expires |-> w.expires, type |-> w.type,
                                         pair |-> PlanesAt(Now, w.pair), target |-> t, about |-> about]
  BY DEF RequestException
<1>2. IsRow(row) /\ ActiveWhenApproved(row) /\ row.pair = PlanesAt(Now, w.pair)
  BY <1>1 DEF IsRow, ActiveWhenApproved, Statuses
<1>3. NamesPresentPlanes(row)
  BY <1>2 DEF NamesPresentPlanes, PlanesAt, Plane
<1>4. versions' = versions /\ copies' = copies
  BY DEF RequestException, graph
<1> QED
  BY <1>1, <1>2, <1>3, <1>4, RowReplaced DEF ExceptionsInOrder

LEMMA SaveExceptionInOrder ==
  ASSUME ExceptionsInOrder, NEW o \in Operators, Approve(o) \/ Expire(o)
  PROVE  ExceptionsInOrder'
<1> DEFINE x == copies[o].row
<1>1. PICK row \in {Approved(x), Expired(x)} : SaveException(o, row)
  BY DEF Approve, Expire
<1>2. IsRow(x) /\ copies[o] # NoCopy
  BY <1>1 DEF ExceptionsInOrder, SaveException
<1>3. IsRow(row) /\ ActiveWhenApproved(row)
  <2> HIDE DEF x
  <2>1. CASE row = Approved(x)
    BY <1>2, <2>1 DEF IsRow, Approved, ActiveWhenApproved, Statuses
  <2>2. CASE row = Expired(x)
    BY <1>2, <2>2 DEF IsRow, Expired, ActiveWhenApproved, Statuses
  <2> QED  BY <1>1, <2>1, <2>2
<1>4. versions' = versions /\ copies' = [copies EXCEPT ![o] = NoCopy]
  BY <1>1 DEF SaveException, graph
<1>5. /\ \A q \in Operators : copies'[q] # NoCopy => IsRow(copies'[q].row)
      /\ copies' = [q \in Operators |-> copies'[q]]
  BY <1>4 DEF ExceptionsInOrder
<1>6. CASE \A p \in row.pair : p.build = Build(Now)
  <2>1. exceptions' = [exceptions EXCEPT ![copies[o].id] = row] /\ NamesPresentPlanes(row)
    BY <1>1, <1>6 DEF SaveException, NamesPresentPlanes
  <2> QED
    BY <1>3, <1>4, <1>5, <2>1, RowReplaced
<1>7. CASE ~(\A p \in row.pair : p.build = Build(Now))
  BY <1>1, <1>4, <1>5, <1>7 DEF SaveException, ExceptionsInOrder, NamesPresentPlanes, Build, Now, Exceptions
<1> QED
  BY <1>6, <1>7

LEMMA LoadExceptionInOrder ==
  ASSUME ExceptionsInOrder, NEW o \in Operators, NEW i \in Exceptions, LoadException(o, i)
  PROVE  ExceptionsInOrder'
<1>1. copies' = [copies EXCEPT ![o] = [id |-> i, row |-> exceptions[i]]] /\ exceptions' = exceptions /\ versions' = versions
  BY DEF LoadException, graph
<1>2. /\ \A q \in Operators : copies'[q] # NoCopy => IsRow(copies'[q].row)
      /\ copies' = [q \in Operators |-> copies'[q]]
  BY <1>1 DEF ExceptionsInOrder
<1> QED
  BY <1>1, <1>2 DEF ExceptionsInOrder, NamesPresentPlanes, Build, Now, Exceptions

LEMMA RebuildLeavesExceptions ==
  ASSUME ExceptionsInOrder, NEW g \in Graphs, Rebuild(g)
  PROVE  ExceptionsInOrder'
<1>1. exceptions' = [x \in Exceptions |-> [exceptions[x] EXCEPT !.pair = {}]] /\ copies' = copies
  BY DEF Rebuild
<1>2. Exceptions' = Exceptions
  BY <1>1 DEF Exceptions
<1>3. ASSUME NEW x \in Exceptions
      PROVE  IsRow(exceptions'[x]) /\ ActiveWhenApproved(exceptions'[x]) /\ exceptions'[x].pair = {}
  <2>1. exceptions'[x] = [exceptions[x] EXCEPT !.pair = {}] /\ IsRow(exceptions[x]) /\ ActiveWhenApproved(exceptions[x])
    BY <1>1 DEF ExceptionsInOrder
  <2> DEFINE y == exceptions[x]  z == exceptions'[x]
  <2>2. z = [y EXCEPT !.pair = {}] /\ IsRow(y) /\ ActiveWhenApproved(y)
    BY <2>1
  <2> HIDE DEF y, z
  <2>3. IsRow(z) /\ ActiveWhenApproved(z) /\ z.pair = {}
    BY <2>2 DEF IsRow, ActiveWhenApproved
  <2> QED  BY <2>3 DEF z
<1>4. exceptions' = [x \in Exceptions' |-> exceptions'[x]]
  BY <1>1, <1>2
<1> QED
  BY <1>1, <1>2, <1>3, <1>4 DEF ExceptionsInOrder, NamesPresentPlanes

LEMMA EditLeavesExceptions ==
  ASSUME ExceptionsInOrder, VersionsInOrder, NEW e \in Edits, EditMemberships(e[1], e[2])
  PROVE  ExceptionsInOrder'
<1>1. exceptions' = exceptions /\ copies' = copies
  BY DEF EditMemberships, policy
<1>2. versions' = Append(versions, [versions[Now] EXCEPT !.planes[e[1]] = e[2]])
  BY DEF EditMemberships
<1>3. [versions[Now] EXCEPT !.planes[e[1]] = e[2]].build = Build(Now)
  BY VersionParts, BoundsAssumption DEF VersionsInOrder, Snapshots, Build
<1>4. Build(Now)' = Build(Now)
  BY <1>2, <1>3, BoundsAssumption DEF VersionsInOrder, Build, Now
<1> QED
  BY <1>1, <1>4 DEF ExceptionsInOrder, NamesPresentPlanes, Exceptions

-----------------------------------------------------------------------------
(* All steps *)

LEMMA InitInOrder ==
  ASSUME PolicyInit
  PROVE  PInv /\ ExceptionsInOrder
<1>1. PICK g \in Graphs : versions = <<Version(1, g)>>
  BY DEF PolicyInit
<1>2. PICK s \in Scenarios : requests = s.requests /\ exceptions = [x \in s.exceptions |-> NoException]
  BY DEF PolicyInit
<1>3. Now = 1 /\ Build(1) = 1 /\ versions[1] = Version(1, g)
  BY <1>1 DEF Now, Build, Version
<1>4. VersionsInOrder
  <2>1. Version(1, g) \in Snapshots
    BY BoundsAssumption, GraphsAssumption DEF Version, Snapshots
  <2> QED
    BY <1>1, <1>3, <2>1, BoundsAssumption DEF VersionsInOrder
<1>5. Fresh(1) \in Evaluations /\ ReadSince(Fresh(1), 1, 1)
  BY <1>3 DEF Fresh, Evaluations, ReadSince, SeenSince
<1>6. /\ step = [r \in Requests |-> "idle"] /\ asked = [r \in Requests |-> 1] /\ answered = [r \in Requests |-> 1]
      /\ reads = [r \in Requests |-> Fresh(1)] /\ cache = [b \in 1..MaxVersions |-> NoEvaluation]
  BY DEF PolicyInit
<1>7. RequestTypes
  BY <1>3, <1>5, <1>6 DEF RequestTypes, Steps
<1>8. ASSUME NEW r \in Requests
      PROVE  RequestInOrder(r)
  <2>1. step[r] = "idle" /\ asked[r] = 1 /\ reads[r] = Fresh(1)
    BY <1>6
  <2>2. /\ requests[r].kind \in {"audit", "review", "dashboard"} /\ requests[r].scope \subseteq PlaneNumbers
        /\ ~IsAudit(r) => requests[r].scope = PlaneNumbers
    BY <1>2, ScenariosAssumption DEF Requests, IsAudit
  <2> QED
    BY <1>3, <1>5, <2>1, <2>2 DEF RequestInOrder, PlanesOfOneGraph, Done, Fresh
<1>9. CacheInOrder
  BY <1>6 DEF CacheInOrder
<1>10. ExceptionsInOrder
  <2>1. Exceptions = s.exceptions /\ \A x \in Exceptions : exceptions[x] = NoException
    BY <1>2 DEF Exceptions
  <2>2. IsRow(NoException) /\ ActiveWhenApproved(NoException) /\ NamesPresentPlanes(NoException)
    BY DEF IsRow, ActiveWhenApproved, NamesPresentPlanes, NoException, Statuses
  <2>3. copies = [o \in Operators |-> NoCopy]
    BY DEF PolicyInit
  <2> QED
    BY <1>2, <2>1, <2>2, <2>3 DEF ExceptionsInOrder
<1> QED
  BY <1>4, <1>7, <1>8, <1>9, <1>10 DEF PInv, RequestsInOrder

LEMMA LeavesProgress ==
  ASSUME PInv, UNCHANGED <<graph, step, asked, reads, answered>>
  PROVE  VersionsInOrder' /\ RequestsInOrder' /\ (cache' = cache => CacheInOrder')
<1>1. /\ versions' = versions /\ requests' = requests /\ step' = step
      /\ asked' = asked /\ reads' = reads /\ answered' = answered
  BY DEF graph
<1>2. Now' = Now /\ Evaluations' = Evaluations /\ Requests' = Requests
  BY <1>1 DEF Now, Evaluations, Requests
<1>3. VersionsInOrder'
  BY <1>1, <1>2 DEF PInv, VersionsInOrder, Build
<1>4. RequestTypes'
  BY <1>1, <1>2 DEF PInv, RequestsInOrder, RequestTypes
<1>5. ASSUME NEW r \in Requests
      PROVE  RequestInOrder(r)'
  BY <1>1, OtherRequests
<1>6. cache' = cache => CacheInOrder'
  BY <1>1, <1>2 DEF PInv, CacheInOrder, ReadSince, SeenSince, Build
<1> QED
  BY <1>2, <1>3, <1>4, <1>5, <1>6 DEF RequestsInOrder

\* Nothing of what the requests and the cache hold changes.
LEMMA LeavesRequests ==
  ASSUME PInv, UNCHANGED <<graph, cache, step, asked, reads, answered>>
  PROVE  PInv'
BY LeavesProgress DEF PInv

LEMMA LeavesExceptions ==
  ASSUME ExceptionsInOrder, UNCHANGED <<graph, exceptions, copies>>
  PROVE  ExceptionsInOrder'
<1>1. versions' = versions /\ exceptions' = exceptions /\ copies' = copies
  BY DEF graph
<1> QED
  BY <1>1 DEF ExceptionsInOrder, NamesPresentPlanes, Build, Now, Exceptions

LEMMA TimeOutPreserves ==
  ASSUME PInv, NEW b \in 1..MaxVersions, TimeOut(b)
  PROVE  PInv'
<1>1. /\ versions' = versions /\ requests' = requests /\ step' = step /\ asked' = asked /\ reads' = reads
      /\ answered' = answered /\ cache' = [cache EXCEPT ![b] = NoEvaluation]
  BY DEF TimeOut, graph, progress
<1>2. Now' = Now /\ Evaluations' = Evaluations /\ Requests' = Requests
  BY <1>1 DEF Now, Evaluations, Requests
<1>3. CacheInOrder'
  <2>1. cache' \in [1..MaxVersions -> Evaluations' \cup {NoEvaluation}]
        /\ \A c \in 1..MaxVersions : cache'[c] # NoEvaluation => cache'[c] = cache[c]
    BY <1>1, <1>2 DEF PInv, CacheInOrder
  <2> QED
    BY <1>1, <1>2, <2>1 DEF PInv, CacheInOrder, ReadSince, SeenSince, Build
<1>4. VersionsInOrder' /\ RequestsInOrder'
  BY <1>1, LeavesProgress DEF graph
<1> QED
  BY <1>3, <1>4 DEF PInv

LEMMA RequestStepPreserves ==
  ASSUME PInv, ExceptionsInOrder, NEW r \in Requests, RequestStep(r)
  PROVE  PInv' /\ ExceptionsInOrder'
<1>1. PInv'
  BY LoadFabricPreserves, ReadCachePreserves, ReadPlanesPreserves, EvaluationReadsPreserve, ReadExceptionsPreserves,
     StorePreserves DEF RequestStep
<1>2. UNCHANGED <<graph, exceptions, copies>>
  BY DEF RequestStep, LoadFabric, ReadCache, ReadPlanes, ReadUnits, ReadMemberships, ReadEdges, Saw,
         ReadExceptions, Store, Review, policy
<1> QED
  BY <1>1, <1>2, LeavesExceptions

LEMMA NextInOrder ==
  ASSUME PInv, ExceptionsInOrder, [PolicyNext]_vars
  PROVE  PInv' /\ ExceptionsInOrder'
<1> VersionsInOrder
  BY DEF PInv
<1>1. CASE \E g \in Graphs : Rebuild(g)
  <2>1. PICK g \in Graphs : Rebuild(g)
    BY <1>1
  <2>2. VersionsInOrder' /\ Now' = Now + 1 /\ \A v \in 1..Now : Build(v)' = Build(v)
    BY <2>1, RebuildAdds
  <2>3. UNCHANGED <<cache, requests, progress>>
    BY <2>1 DEF Rebuild
  <2> QED  BY <2>1, <2>2, <2>3, CommitPreserves, RebuildLeavesExceptions
<1>2. CASE \E e \in Edits : EditMemberships(e[1], e[2])
  <2>1. PICK e \in Edits : EditMemberships(e[1], e[2])
    BY <1>2
  <2>2. VersionsInOrder' /\ Now' = Now + 1 /\ \A v \in 1..Now : Build(v)' = Build(v)
    BY <2>1, EditAdds
  <2>3. UNCHANGED <<cache, requests, progress>>
    BY <2>1 DEF EditMemberships
  <2> QED  BY <2>1, <2>2, <2>3, CommitPreserves, EditLeavesExceptions
<1>3. CASE \E x \in Exceptions, w \in Wishes : RequestException(x, w)
  BY <1>3, RequestExceptionInOrder, LeavesRequests DEF RequestException, progress
<1>4. CASE \E o \in Operators, x \in Exceptions : LoadException(o, x)
  BY <1>4, LoadExceptionInOrder, LeavesRequests DEF LoadException, progress
<1>5. CASE \E o \in Operators : Approve(o) \/ Expire(o)
  <2>1. PICK o \in Operators : Approve(o) \/ Expire(o)
    BY <1>5
  <2>2. UNCHANGED <<graph, cache, step, asked, reads, answered>>
    BY <2>1 DEF Approve, Expire, SaveException, progress
  <2> QED  BY <2>1, <2>2, SaveExceptionInOrder, LeavesRequests
<1>6. CASE DatesCome
  BY <1>6, LeavesRequests, LeavesExceptions DEF DatesCome, progress
<1>7. CASE \E r \in Requests : RequestStep(r)
  BY <1>7, RequestStepPreserves
<1>8. CASE \E b \in 1..MaxVersions : TimeOut(b)
  BY <1>8, TimeOutPreserves, LeavesExceptions DEF TimeOut, policy
<1>9. CASE UNCHANGED vars
  BY <1>9, LeavesRequests, LeavesExceptions DEF vars, policy, progress
<1> QED
  BY <1>1, <1>2, <1>3, <1>4, <1>5, <1>6, <1>7, <1>8, <1>9 DEF PolicyNext

\* What is read is read in order, in every state (policy_evaluator.py:132-226,
\* policy_reporting.py:100-111), and exceptions keep their form.
THEOREM PolicyInOrder == PolicySpec => [](PInv /\ ExceptionsInOrder)
BY InitInOrder, NextInOrder, PTL DEF PolicySpec

\* The type invariant: an exception is active exactly while it is approved and
\* names no plane that is gone (policy_exceptions.py:57-102, models.py:438-441).
THEOREM PolicyTypeCorrect == PolicySpec => []PolicyTypeOK
<1>1. PInv /\ ExceptionsInOrder => PolicyTypeOK
  BY DEF PInv, ExceptionsInOrder, VersionsInOrder, RequestsInOrder, RequestTypes, CacheInOrder, PolicyTypeOK,
         ActiveWhenApproved, NamesPresentPlanes
<1> QED
  BY <1>1, PolicyInOrder, PTL

-----------------------------------------------------------------------------
(* What evidence depends on *)

LEMMA NoPlanesNoEvidence ==
  ASSUME NEW U, NEW E, NEW P, \A u : PlanesOf(P, u) = {}
  PROVE  Shares(U, P) = {} /\ Bridges(E, P) = {}
<1>1. PairsOf({}) = {}
  BY FS_EmptySet DEF PairsOf
<1>2. \A node : Share(node, U, P).pairs = {}
  <2> TAKE node
  <2>1. UNION {PlanesOf(P, u) : u \in {v \in U : NodeRef(v) = node}} = {}
    OBVIOUS
  <2> QED  BY <1>1, <2>1 DEF Share
<1>3. Shares(U, P) = {}
  BY <1>2 DEF Shares
<1>4. Bridges(E, P) = {}
  BY DEF Bridges
<1> QED
  BY <1>3, <1>4

\* The planes of a unit are those of the graph its memberships were read in.
LEMMA PlanesOfUnit ==
  ASSUME NEW m, NEW U, NEW S, NEW u
  PROVE  PlanesOf(MembershipsAt(m, U, S), u) =
           IF u \in U /\ u.build = Build(m) THEN {p \in S : p.build = Build(m) /\ p.number \in versions[m].planes[u.id]} ELSE {}
BY DEF PlanesOf, MembershipsAt

LEMMA MixedGraphsNoEvidence ==
  ASSUME NEW ev, Build(ev.units) # Build(ev.members) \/ \A p \in ev.planes : p.build # Build(ev.members)
  PROVE  EvidenceOf(ev) = {}
<1> DEFINE U == UnitsAt(ev.units)  P == MembershipsAt(ev.members, U, ev.planes)
<1>1. \A u \in U : u.build = Build(ev.units)
  BY DEF UnitsAt, Unit, Ref
<1>2. \A u : PlanesOf(P, u) = {}
  BY <1>1, PlanesOfUnit
<1> HIDE DEF U, P
<1>3. Shares(U, P) = {} /\ Bridges(EdgesAt(ev.edges), P) = {}
  BY <1>2, NoPlanesNoEvidence
<1> QED
  BY <1>3 DEF EvidenceOf, U, P

LEMMA SharesAreShares ==
  ASSUME NEW U, NEW E, NEW P
  PROVE  /\ \A s \in Shares(U, P) : s.rule = "shared_passive_artifact" /\ s.object \in s.artifacts
         /\ \A s \in Bridges(E, P) : s.rule = "cross_plane_fine_edge"
<1>1. ASSUME NEW s \in Shares(U, P)
      PROVE  s.rule = "shared_passive_artifact" /\ s.object \in s.artifacts
  <2>1. PICK node : s = Share(node, U, P)
    BY DEF Shares
  <2> QED  BY <2>1 DEF Share
<1>2. ASSUME NEW s \in Bridges(E, P)
      PROVE  s.rule = "cross_plane_fine_edge"
  <2>1. PICK e : s = Bridge(e, P)
    BY DEF Bridges
  <2> QED  BY <2>1 DEF Bridge
<1> QED
  BY <1>1, <1>2

\* Edges of another graph than the units bridge none of their planes.
LEMMA OtherEdgesNoBridges ==
  ASSUME NEW n, NEW m, NEW e, NEW S, Build(n) = Build(m), Build(e) # Build(m)
  PROVE  Bridges(EdgesAt(e), MembershipsAt(m, UnitsAt(n), S)) = {}
<1> DEFINE P == MembershipsAt(m, UnitsAt(n), S)
<1>1. \A f \in EdgesAt(e) : f.a.build = Build(e)
  BY DEF EdgesAt, Unit, Ref
<1>2. \A f \in EdgesAt(e) : PlanesOf(P, f.a) = {}
  BY <1>1, PlanesOfUnit
<1> HIDE DEF P
<1> QED
  BY <1>2 DEF Bridges, P

\* Reads of one build are reads of the version the memberships were read in.
LEMMA OneGraphEvidence ==
  ASSUME VersionsInOrder, NEW ev, NEW S,
         ev.units \in 1..Now, ev.members \in 1..Now, ev.edges \in 1..Now,
         Build(ev.units) = Build(ev.members),
         {p \in ev.planes : p.build = Build(ev.members)} = PlanesAt(ev.members, S)
  PROVE  /\ Build(ev.edges) = Build(ev.members) => EvidenceOf(ev) = EvidenceOf(Of(ev.members, S))
         /\ Build(ev.edges) # Build(ev.members) => EvidenceOf(ev) = SharesOf(ev.members, S)
<1> DEFINE m == ev.members  U == UnitsAt(m)  Q == PlanesAt(m, S)  P == MembershipsAt(m, U, Q)
           R == MembershipsAt(m, UnitsAt(ev.units), ev.planes)
<1>1. UnitsAt(ev.units) = U
  BY DEF VersionsInOrder, UnitsAt, Unit
<1>2. R = P
  <2>1. \A N : {p \in ev.planes : p.build = Build(m) /\ p.number \in N} = {p \in Q : p.build = Build(m) /\ p.number \in N}
    OBVIOUS
  <2> QED  BY <1>1, <2>1 DEF MembershipsAt
<1>3. EvidenceOf(ev) = Shares(U, P) \cup Bridges(EdgesAt(ev.edges), P)
  BY <1>1, <1>2 DEF EvidenceOf
<1>4. EvidenceOf(Of(m, S)) = Shares(U, P) \cup Bridges(EdgesAt(m), P)
  BY DEF EvidenceOf, Of, Fresh
<1>5. CASE Build(ev.edges) = Build(m)
  <2>1. EdgesAt(ev.edges) = EdgesAt(m)
    BY <1>5 DEF VersionsInOrder, EdgesAt, Unit
  <2> QED  BY <1>3, <1>4, <1>5, <2>1
<1>6. CASE Build(ev.edges) # Build(m)
  <2>1. Bridges(EdgesAt(ev.edges), P) = {}
    BY <1>6, OtherEdgesNoBridges
  <2>2. SharesOf(m, S) = Shares(U, P)
    <3> HIDE DEF U, P
    <3>1. \A s \in Shares(U, P) : s.rule = "shared_passive_artifact"
      BY SharesAreShares
    <3>2. \A s \in Bridges(EdgesAt(m), P) : s.rule # "shared_passive_artifact"
      BY SharesAreShares
    <3> QED  BY <1>4, <3>1, <3>2 DEF SharesOf
  <2> QED  BY <1>3, <1>6, <2>1, <2>2
<1> QED
  BY <1>5, <1>6

LEMMA PlanesOfBuild ==
  ASSUME PInv, NEW r \in Requests, Done(r), NEW m \in 1..Now
  PROVE  LET Q == {p \in reads[r].planes : p.build = Build(m)}
         IN  Q = {} \/ Q = PlanesAt(m, requests[r].scope)
<1> DEFINE S == requests[r].scope
<1>1. PlanesOfOneGraph(r, Now) /\ (~IsAudit(r) => S = PlaneNumbers)
  BY Loaded DEF RequestInOrder
<1>2. Build(m) \in 1..MaxVersions
  BY VersionParts DEF PInv
<1>3. CASE IsAudit(r)
  <2>1. PICK v \in 1..Now : reads[r].planes = PlanesAt(v, S)
    BY <1>1, <1>3 DEF PlanesOfOneGraph, Done
  <2> QED  BY <2>1 DEF PlanesAt, Plane
<1>4. CASE ~IsAudit(r)
  <2>1. reads[r].planes = AllPlanes /\ S = PlaneNumbers
    BY <1>1, <1>4 DEF PlanesOfOneGraph
  <2> QED  BY <1>2, <2>1 DEF AllPlanes, PlanesAt, Plane
<1> QED
  BY <1>3, <1>4

-----------------------------------------------------------------------------
\* However rebuilds and edits fall between the queries of an evaluation, also
\* of one that is cached, it reports what one graph says, in full or its shared
\* artifacts, or nothing (policy_evaluator.py:132-226).
THEOREM EvidenceComesFromOneGraph == PolicySpec => []EvidenceOfOneGraph
<1>1. ASSUME PInv, NEW r \in Requests, Done(r)
      PROVE  LET S == requests[r].scope
             IN  EvidenceOf(reads[r]) = {} \/ \E v \in 1..Now : EvidenceOf(reads[r]) \in {EvidenceOf(Of(v, S)), SharesOf(v, S)}
  <2> DEFINE ev == reads[r]  S == requests[r].scope
  <2>1. ev.units \in 1..Now /\ ev.members \in 1..Now /\ ev.edges \in 1..Now
    BY <1>1, Loaded DEF Evaluations
  <2>2. CASE Build(ev.units) # Build(ev.members) \/ \A p \in ev.planes : p.build # Build(ev.members)
    BY <2>2, MixedGraphsNoEvidence
  <2>3. CASE Build(ev.units) = Build(ev.members) /\ \E p \in ev.planes : p.build = Build(ev.members)
    <3>1. {p \in ev.planes : p.build = Build(ev.members)} = PlanesAt(ev.members, S)
      BY <1>1, <2>1, <2>3, PlanesOfBuild
    <3>2. EvidenceOf(ev) \in {EvidenceOf(Of(ev.members, S)), SharesOf(ev.members, S)}
      BY <1>1, <2>1, <2>3, <3>1, OneGraphEvidence DEF PInv
    <3> QED  BY <2>1, <3>2
  <2> QED
    BY <2>2, <2>3
<1>2. PInv => EvidenceOfOneGraph
  BY <1>1 DEF EvidenceOfOneGraph
<1> QED
  BY <1>2, PolicyInOrder, PTL

\* An evaluation that no commit interrupts reports the present graph, also from
\* the cache, unless memberships were edited since (policy_reporting.py:76-111).
THEOREM ReportsAreCurrent == PolicySpec => []ReportIsCurrent
<1>1. ASSUME PInv, NEW r \in Requests, Done(r), answered[r] = asked[r], ~Edited(asked[r])
      PROVE  EvidenceOf(reads[r]) = EvidenceOf(Of(asked[r], requests[r].scope))
  <2> DEFINE ev == reads[r]  a == asked[r]  S == requests[r].scope
  <2>1. VersionsInOrder /\ a \in 1..Now /\ Now \in Nat
    BY <1>1, Loaded, BoundsAssumption DEF PInv, VersionsInOrder
  <2>2. \A v \in 1..a : Build(v) >= Build(a) => v = a
    <3> SUFFICES ASSUME NEW v \in 1..a, v # a, Build(v) >= Build(a)
                 PROVE  FALSE
      OBVIOUS
    <3>1. a > 1 /\ a - 1 \in 1..Now /\ v \in 1..Now /\ v <= a - 1 /\ a - 1 <= a
      BY <2>1
    <3>2. Build(v) <= Build(a - 1) /\ Build(a - 1) <= Build(a) /\ Build(a) # Build(a - 1)
      BY <1>1, <2>1, <3>1 DEF VersionsInOrder, Edited
    <3>3. Build(v) \in Nat /\ Build(a - 1) \in Nat /\ Build(a) \in Nat
      BY <2>1, <3>1 DEF VersionsInOrder
    <3> QED  BY <1>1, <3>2, <3>3
  <2>3. ReadSince(ev, Build(a), a) /\ PlanesOfOneGraph(r, a)
    BY <1>1, Loaded DEF RequestInOrder
  <2>4. ev.units = a /\ ev.members = a /\ ev.edges = a
    BY <2>2, <2>3 DEF ReadSince, SeenSince
  <2>5. {p \in ev.planes : p.build = Build(a)} = PlanesAt(a, S)
    <3>1. CASE IsAudit(r)
      <4>1. ev.planes = PlanesAt(a, S)
        BY <1>1, <2>2, <2>3, <3>1 DEF PlanesOfOneGraph, Done
      <4> QED  BY <4>1 DEF PlanesAt, Plane
    <3>2. CASE ~IsAudit(r)
      <4>1. ev.planes = AllPlanes /\ S = PlaneNumbers /\ Build(a) \in 1..MaxVersions
        BY <1>1, <2>1, <2>3, <3>2, Loaded, VersionParts DEF PlanesOfOneGraph, RequestInOrder
      <4> QED  BY <4>1 DEF AllPlanes, PlanesAt, Plane
    <3> QED  BY <3>1, <3>2
  <2> HIDE DEF ev, a, S
  <2> QED
    BY <2>1, <2>4, <2>5, OneGraphEvidence DEF ev, a, S
<1>2. PInv => ReportIsCurrent
  BY <1>1 DEF ReportIsCurrent
<1> QED
  BY <1>2, PolicyInOrder, PTL

\* An exception that covers a finding matches the finding's domain, so that no
\* review reports it as drifted (policy_exceptions.py:112-157, 179-195).
THEOREM CoverageIsConsistent == PolicySpec => []CoverageAgrees
<1>1. ASSUME NEW ev, NEW d, NEW e \in EvidenceOf(ev), e \in d, NEW x, Covers(x, e, d)
      PROVE  MatchesDomain(x, d)
  <2> DEFINE U == UnitsAt(ev.units)  P == MembershipsAt(ev.members, U, ev.planes)  E == EdgesAt(ev.edges)
  <2>1. e \in Shares(U, P) \/ e \in Bridges(E, P)
    BY DEF EvidenceOf
  <2> HIDE DEF U, P, E
  <2>2. x.pair # {} /\ x.target # NoTarget /\ (x.pair \in e.pairs \/ MatchesDomain(x, d))
    BY <1>1 DEF Covers
  <2>3. e.pairs \subseteq PairsIn(d)
    BY <1>1 DEF PairsIn
  <2>4. CASE x.type = e.rule /\ x.target = e.object /\ e \in Shares(U, P)
    <3>1. e.rule = "shared_passive_artifact" /\ e.object \in e.artifacts
      BY <2>4, SharesAreShares
    <3>2. x.target \in ArtifactsIn(d)
      BY <1>1, <2>4, <3>1 DEF ArtifactsIn
    <3> QED  BY <2>2, <2>3, <2>4, <3>1, <3>2 DEF MatchesDomain
  <2>5. CASE x.type = e.rule /\ x.target = e.object /\ e \in Bridges(E, P)
    <3>1. e.rule = "cross_plane_fine_edge"
      BY <2>5, SharesAreShares
    <3>2. x.target \in BridgesIn(d)
      BY <1>1, <2>5, <3>1 DEF BridgesIn
    <3> QED  BY <2>2, <2>3, <2>5, <3>1, <3>2 DEF MatchesDomain
  <2> QED
    BY <1>1, <2>1, <2>4, <2>5 DEF Covers
<1>2. CoverageAgrees
  BY <1>1 DEF CoverageAgrees, Drifted
<1> QED
  BY <1>2, PTL

-----------------------------------------------------------------------------
(* Numbers, and functions defined from one number to the next.  The         *)
(* library's induction theorems take an operator; the least element of a    *)
(* set of counterexamples does the same for a set.                          *)

LEMMA Induction ==
  ASSUME NEW N \in Nat, NEW T, 0 \in T, \A k \in 1..N : k - 1 \in T => k \in T
  PROVE  \A k \in 0..N : k \in T
<1> SUFFICES ASSUME NEW k \in 0..N, k \notin T PROVE FALSE
  OBVIOUS
<1> DEFINE R == {p \in Nat \X Nat : p[1] < p[2]}
           S == {n \in 0..N : n \notin T}
<1>1. IsWellFoundedOn(R, Nat)
  BY NatLessThanWellFounded DEF OpToRel
<1>2. PICK m \in S : \A n \in S : <<n, m>> \notin R
  <2>1. S \in SUBSET Nat /\ S # {}
    OBVIOUS
  <2> HIDE DEF S, R
  <2> QED BY <1>1, <2>1, WFMin
<1>3. m \in 1..N /\ m - 1 \in 0..N /\ m - 1 \in T
  <2>1. m \in 1..N
    BY <1>2
  <2>2. m - 1 \in Nat /\ m \in Nat /\ m - 1 < m
    BY <2>1
  <2>3. <<m - 1, m>> \in R
    BY <2>2
  <2>4. m - 1 \notin S
    BY <1>2, <2>3
  <2> QED BY <2>1, <2>4
<1> QED BY <1>2, <1>3

LEMMA NumbersUpTo ==
  ASSUME NEW n \in Nat
  PROVE  0 \in 0..n /\ n \in 0..n /\ \A k \in 1..n : k \in 0..n /\ k - 1 \in 0..n
OBVIOUS

\* A function that is defined from one number to the next exists.
Unfolds(f, N, X, x, h) == f \in [0..N -> X] /\ f[0] = x /\ \A k \in 1..N : f[k] = h[k][f[k - 1]]

LEMMA Recursion ==
  ASSUME NEW N \in Nat, NEW X, NEW x \in X, NEW h \in [1..N -> [X -> X]]
  PROVE  \E f : Unfolds(f, N, X, x, h)
<1> DEFINE Good(n, f) == /\ f[0] = x
                         /\ \A k \in 1..n : f[k] = h[k][f[k - 1]]
                         /\ \A k \in 0..n : f[k] \in X
           T == {n \in 0..N : \E f : Good(n, f)}
<1>1. 0 \in T
  <2> DEFINE g == [k \in 0..0 |-> x]
  <2>1. Good(0, g)
    OBVIOUS
  <2> HIDE DEF g
  <2> QED BY <2>1
<1>2. ASSUME NEW n \in 1..N, n - 1 \in T PROVE n \in T
  <2>1. PICK f : Good(n - 1, f)
    BY <1>2
  <2> DEFINE g == [k \in 0..n |-> IF k = n THEN h[n][f[n - 1]] ELSE f[k]]
  <2>2. f[n - 1] \in X /\ h[n][f[n - 1]] \in X
    BY <2>1
  <2>3. g[0] = x
    BY <2>1
  <2>4. ASSUME NEW k \in 1..n PROVE g[k] = h[k][g[k - 1]]
    <3>1. g[k - 1] = f[k - 1]
      OBVIOUS
    <3>2. k # n => f[k] = h[k][f[k - 1]]
      BY <2>1
    <3> QED BY <3>1, <3>2
  <2>5. ASSUME NEW k \in 0..n PROVE g[k] \in X
    <3>1. k # n => f[k] \in X
      BY <2>1
    <3> QED BY <2>2, <3>1
  <2> HIDE DEF g
  <2>6. Good(n, g)
    BY <2>3, <2>4, <2>5
  <2> QED BY <2>6
<1>3. N \in T
  <2>1. N \in 0..N
    OBVIOUS
  <2> HIDE DEF T
  <2>2. \A k \in 0..N : k \in T
    BY <1>1, <1>2, Induction
  <2> QED BY <2>1, <2>2
<1>4. PICK f : Good(N, f)
  BY <1>3
<1> DEFINE g == [k \in 0..N |-> f[k]]
<1>5. g[0] = x /\ g \in [0..N -> X]
  BY <1>4
<1>6. ASSUME NEW k \in 1..N PROVE g[k] = h[k][g[k - 1]]
  <2>1. g[k] = f[k] /\ g[k - 1] = f[k - 1]
    OBVIOUS
  <2> QED BY <1>4, <2>1
<1> HIDE DEF g
<1> QED BY <1>5, <1>6 DEF Unfolds

-----------------------------------------------------------------------------
(* Sorting: every place is taken by the item with so many before it.        *)

LEMMA EveryPlaceIsTaken ==
  ASSUME NEW S, IsFiniteSet(S), NEW B,
         \A x \in S : <<x, x>> \notin B,
         \A x, y \in S : x # y => <<x, y>> \in B \/ <<y, x>> \in B,
         \A x, y, z \in S : <<x, y>> \in B /\ <<y, z>> \in B => <<x, z>> \in B
  PROVE  /\ \A k \in 0..(Cardinality(S) - 1) : \E r \in S : Cardinality({s \in S : <<s, r>> \in B}) = k
         /\ \A r \in S : Cardinality({s \in S : <<s, r>> \in B}) \in 0..(Cardinality(S) - 1)
         /\ \A r, q \in S : Cardinality({s \in S : <<s, r>> \in B}) = Cardinality({s \in S : <<s, q>> \in B}) => r = q
<1> DEFINE n == Cardinality(S)
           Below(r) == {s \in S : <<s, r>> \in B}
           f == [r \in S |-> Cardinality(Below(r))]
           T == 0..(n - 1)
<1>1. n \in Nat
  BY FS_CardinalityType
<1>2. ASSUME NEW r \in S
      PROVE  IsFiniteSet(Below(r)) /\ Cardinality(Below(r)) \in Nat /\ Cardinality(Below(r)) < n
  <2>1. Below(r) \in SUBSET S /\ Below(r) # S
    OBVIOUS
  <2> HIDE DEF Below
  <2>2. IsFiniteSet(Below(r)) /\ Cardinality(Below(r)) <= n /\ (n = Cardinality(Below(r)) => S = Below(r))
    BY <2>1, FS_Subset
  <2>3. Cardinality(Below(r)) \in Nat
    BY <2>2, FS_CardinalityType
  <2> QED BY <1>1, <2>1, <2>2, <2>3
<1>3. ASSUME NEW r \in S, NEW q \in S, <<r, q>> \in B
      PROVE  f[r] < f[q]
  <2>1. Below(r) \in SUBSET Below(q) /\ Below(r) # Below(q)
    <3>1. r \in Below(q) /\ r \notin Below(r)
      BY <1>3
    <3>2. \A s \in Below(r) : s \in Below(q)
      BY <1>3
    <3> QED BY <3>1, <3>2
  <2>2. IsFiniteSet(Below(q)) /\ Cardinality(Below(q)) \in Nat /\ Cardinality(Below(r)) \in Nat
    BY <1>2
  <2>3. f[r] = Cardinality(Below(r)) /\ f[q] = Cardinality(Below(q))
    OBVIOUS
  <2> HIDE DEF Below, f
  <2>4. Cardinality(Below(r)) <= Cardinality(Below(q)) /\ (Cardinality(Below(q)) = Cardinality(Below(r)) => Below(q) = Below(r))
    BY <2>1, <2>2, FS_Subset
  <2> QED BY <2>1, <2>2, <2>3, <2>4
<1>4. \A r \in S : f[r] \in T
  <2> HIDE DEF Below
  <2> QED BY <1>1, <1>2
<1>5. \A r, q \in S : f[r] = f[q] => r = q
  <2>1. \A r \in S : f[r] \in Int
    BY <1>1, <1>4
  <2> SUFFICES ASSUME NEW r \in S, NEW q \in S, r # q PROVE f[r] # f[q]
    OBVIOUS
  <2>2. f[r] < f[q] \/ f[q] < f[r]
    BY <1>3
  <2> HIDE DEF f
  <2> QED BY <2>1, <2>2
<1>6. f \in Injection(S, T)
  <2>1. f \in [S -> T]
    BY <1>4
  <2> HIDE DEF T
  <2>2. \A r, q \in S : f[r] = f[q] => r = q
    BY <1>5
  <2> HIDE DEF f
  <2> QED BY <2>1, <2>2 DEF Injection, IsInjective
<1>7. IsFiniteSet(T) /\ Cardinality(T) = n
  <2> HIDE DEF n
  <2>1. 0 \in Int /\ n - 1 \in Int
    BY <1>1
  <2>2. IsFiniteSet(T) /\ Cardinality(T) = IF 0 > n - 1 THEN 0 ELSE n - 1 - 0 + 1
    BY <2>1, FS_Interval
  <2> QED BY <1>1, <2>2
<1>8. f \in Surjection(S, T)
  <2> HIDE DEF T, f, n
  <2>1. Cardinality(S) = Cardinality(T)
    BY <1>7 DEF n
  <2> QED BY <1>6, <1>7, <2>1, FS_Injection
<1>9. ASSUME NEW k \in T PROVE \E r \in S : f[r] = k
  <2> HIDE DEF f, T
  <2> QED BY <1>8, <1>9 DEF Surjection
<1>10. \A r \in S : f[r] = Cardinality(Below(r))
  OBVIOUS
<1>11. \A k \in T : \E r \in S : Cardinality(Below(r)) = k
  <2> HIDE DEF f, T, Below
  <2> QED BY <1>9, <1>10
<1>12. \A r \in S : Cardinality(Below(r)) \in T
  <2> HIDE DEF f, T, Below
  <2> QED BY <1>4, <1>10
<1>13. \A r, q \in S : Cardinality(Below(r)) = Cardinality(Below(q)) => r = q
  <2> HIDE DEF f, T, Below
  <2> QED BY <1>5, <1>10
<1> QED BY <1>11, <1>12, <1>13

\* The objects of the evidence of a rule are told apart by the sort.
Sortable(S) ==
    /\ IsFiniteSet(S)
    /\ \A d \in S : ~Before(d.object, d.object)
    /\ \A d, e \in S : d # e => Before(d.object, e.object) \/ Before(e.object, d.object)
    /\ \A c, d, e \in S : Before(c.object, d.object) /\ Before(d.object, e.object) => Before(c.object, e.object)

\* A sequence of the items of a set that leaves none out.
Lists(s, S) ==
    /\ s \in Seq(S)
    /\ \A e \in S : \E i \in 1..Len(s) : s[i] = e

LEMMA InOrderLists ==
  ASSUME NEW S, Sortable(S)
  PROVE  Lists(InOrder(S), S)
<1> DEFINE B == {p \in S \X S : Before(p[1].object, p[2].object)}
           n == Cardinality(S)
           place(e) == Cardinality({d \in S : Before(d.object, e.object)})
           count(e) == Cardinality({d \in S : <<d, e>> \in B})
           s == InOrder(S)
<1>1. n \in Nat
  BY FS_CardinalityType DEF Sortable
<1>2. \A e \in S : {d \in S : <<d, e>> \in B} = {d \in S : Before(d.object, e.object)}
  OBVIOUS
<1>3. /\ \A k \in 0..(n - 1) : \E r \in S : count(r) = k
      /\ \A r \in S : count(r) \in 0..(n - 1)
      /\ \A r, q \in S : count(r) = count(q) => r = q
  <2>1. \A x, y \in S : <<x, y>> \in B <=> Before(x.object, y.object)
    OBVIOUS
  <2> HIDE DEF B
  <2> QED BY <2>1, EveryPlaceIsTaken DEF Sortable
<1>4. \A e \in S : place(e) = count(e)
  BY <1>2
<1> HIDE DEF B
<1>5. /\ \A k \in 0..(n - 1) : \E r \in S : place(r) = k
      /\ \A r \in S : place(r) \in 0..(n - 1)
      /\ \A r, q \in S : place(r) = place(q) => r = q
  <2> HIDE DEF place, count
  <2> QED BY <1>3, <1>4
<1>6. s = [i \in 1..n |-> CHOOSE e \in S : place(e) = i - 1]
  BY DEF InOrder
<1> HIDE DEF place, count, s, n
<1>7. ASSUME NEW i \in 1..n PROVE s[i] \in S /\ place(s[i]) = i - 1
  <2>1. i - 1 \in 0..(n - 1)
    BY <1>1
  <2>2. \E e \in S : place(e) = i - 1
    BY <1>5, <2>1
  <2>3. s[i] = CHOOSE e \in S : place(e) = i - 1
    BY <1>6
  <2> QED BY <2>2, <2>3
<1>8. s \in [1..n -> S]
  <2>1. \A i \in 1..n : s[i] \in S
    BY <1>7
  <2>2. s = [i \in 1..n |-> s[i]]
    BY <1>6
  <2> QED BY <2>1, <2>2
<1>9. s \in Seq(S) /\ Len(s) = n
  BY <1>1, <1>8, SeqDef, LenProperties
<1>10. ASSUME NEW e \in S PROVE \E i \in 1..n : s[i] = e
  <2>1. place(e) \in 0..(n - 1)
    BY <1>5
  <2>2. place(e) + 1 \in 1..n /\ (place(e) + 1) - 1 = place(e)
    BY <1>1, <2>1
  <2>3. s[place(e) + 1] \in S /\ place(s[place(e) + 1]) = place(e)
    BY <1>7, <2>2
  <2>4. s[place(e) + 1] = e
    BY <1>5, <2>3
  <2> QED BY <2>2, <2>4
<1>12. Lists(s, S)
  BY <1>9, <1>10 DEF Lists
<1> QED BY <1>12 DEF s

\* Shares come first and bridges last, each sorted by their objects.
LEMMA SortedLists ==
  ASSUME NEW A, NEW B, Sortable(A), Sortable(B),
         \A e \in A : e.rule = "shared_passive_artifact", \A e \in B : e.rule = "cross_plane_fine_edge"
  PROVE  Lists(Sorted(A \cup B), A \cup B)
<1> DEFINE s == InOrder(A)  t == InOrder(B)  S == A \cup B
<1>1. {e \in S : e.rule = "shared_passive_artifact"} = A /\ {e \in S : e.rule = "cross_plane_fine_edge"} = B
  OBVIOUS
<1>2. Sorted(S) = s \o t
  <2>1. Sorted(S) = InOrder({e \in S : e.rule = "shared_passive_artifact"}) \o InOrder({e \in S : e.rule = "cross_plane_fine_edge"})
    BY DEF Sorted
  <2> QED BY <1>1, <2>1
<1>3. Lists(s, A) /\ Lists(t, B)
  BY InOrderLists
<1>4. s \in Seq(S) /\ t \in Seq(S) /\ Len(s) \in Nat /\ Len(t) \in Nat
  <2>1. s \in Seq(A) /\ t \in Seq(B)
    BY <1>3 DEF Lists
  <2> HIDE DEF s, t
  <2> QED BY <2>1, SeqDef, LenProperties
<1> DEFINE n == Len(s)  m == Len(t)  u == s \o t
<1>5. /\ u \in Seq(S) /\ Len(u) = n + m
      /\ \A i \in 1..n : u[i] = s[i]
      /\ \A i \in 1..m : u[n + i] = t[i]
  <2> HIDE DEF s, t
  <2>1. u \in Seq(S) /\ Len(u) = n + m /\ \A i \in 1..Len(u) : u[i] = IF i <= n THEN s[i] ELSE t[i - n]
    BY <1>4, ConcatProperties
  <2>2. \A i \in 1..n : i \in 1..Len(u) /\ i <= n
    BY <1>4, <2>1
  <2>3. \A i \in 1..m : n + i \in 1..Len(u) /\ ~(n + i <= n) /\ (n + i) - n = i
    BY <1>4, <2>1
  <2> QED BY <2>1, <2>2, <2>3
<1>6. /\ n \in Nat /\ m \in Nat
      /\ \A i \in 1..n : s[i] \in A
      /\ \A i \in 1..m : t[i] \in B
      /\ \A e \in A : \E i \in 1..n : s[i] = e
      /\ \A e \in B : \E i \in 1..m : t[i] = e
  <2> HIDE DEF s, t
  <2>1. (\A i \in 1..n : s[i] \in A) /\ (\A i \in 1..m : t[i] \in B)
    BY <1>3, ElementOfSeq DEF Lists
  <2> QED BY <1>3, <1>4, <2>1 DEF Lists
<1>8. \A i \in 1..n : i \in 1..(n + m)
  <2> HIDE DEF n, m
  <2> QED BY <1>6
<1>9. \A i \in 1..m : n + i \in 1..(n + m)
  <2> HIDE DEF n, m
  <2> QED BY <1>6
<1> HIDE DEF s, t, n, m, u
<1>11. ASSUME NEW e \in S PROVE \E i \in 1..(n + m) : u[i] = e
  <2>1. CASE e \in A
    BY <1>5, <1>6, <1>8, <2>1
  <2>2. CASE e \in B
    <3>1. PICK i \in 1..m : t[i] = e
      BY <1>6, <2>2
    <3> QED BY <1>5, <1>9, <3>1
  <2> QED BY <2>1, <2>2
<1>13. Lists(u, S)
  BY <1>5, <1>11 DEF Lists
<1>14. u = s \o t
  BY DEF u
<1> QED BY <1>2, <1>13, <1>14 DEF s, t

-----------------------------------------------------------------------------
(* The union-find                                                           *)

\* Items that are not roots have another above them, and a way up that is no
\* longer than there are such items.
Hanging(p) == {i \in DOMAIN p : p[i] # i}
Depths(p, d) ==
    \A i \in DOMAIN p : /\ d[i] \in Nat /\ d[i] <= Cardinality(Hanging(p))
                        /\ (p[i] = i => d[i] = 0) /\ (p[i] # i => d[i] = d[p[i]] + 1)
IsForest(n, p) == p \in [1..n -> 1..n] /\ \E d : Depths(p, d)

LEMMA Climb ==
  ASSUME NEW n \in Nat, NEW p \in [1..n -> 1..n], NEW i \in 1..n
  PROVE  \E up \in [0..n -> 1..n] : up[0] = i /\ (\A k \in 1..n : up[k] = p[up[k - 1]]) /\ Root(p, i) = up[n]
<1> DEFINE Next1(f) == [k \in 0..n |-> IF k = 0 THEN i ELSE p[f[k - 1]]]
           h == [k \in 1..n |-> p]
           X == 1..n
<1>1. Len(p) = n
  BY LenProperties, SeqDef
<1>2. PICK f : Unfolds(f, n, X, i, h)
  <2>1. h \in [1..n -> [X -> X]] /\ i \in X
    OBVIOUS
  <2> HIDE DEF h, X
  <2> QED BY <2>1, Recursion
<1>3. f \in [0..n -> 1..n] /\ f[0] = i /\ \A k \in 1..n : f[k] = p[f[k - 1]]
  BY <1>2 DEF Unfolds
<1>4. f = Next1(f)
  <2>1. \A k \in 0..n : k = 0 \/ k \in 1..n
    OBVIOUS
  <2>2. ASSUME NEW k \in 0..n PROVE f[k] = IF k = 0 THEN i ELSE p[f[k - 1]]
    BY <1>3, <2>1
  <2>3. f = [k \in 0..n |-> f[k]]
    BY <1>3
  <2> QED BY <2>2, <2>3
<1>5. Root(p, i) = (CHOOSE g : g = Next1(g))[n]
  BY <1>1 DEF Root
<1> DEFINE up == CHOOSE g : g = Next1(g)
<1>6. up = Next1(up)
  BY <1>4
<1>9. Root(p, i) = up[n]
  BY <1>5
<1> HIDE DEF up, h, X
<1>7. up[0] = i /\ \A k \in 1..n : up[k] = p[up[k - 1]]
  BY <1>6
<1>8. up \in [0..n -> 1..n]
  <2> DEFINE T == {k \in 0..n : up[k] \in 1..n}
  <2>1. 0 \in T
    <3>1. 0 \in 0..n /\ up[0] \in 1..n
      BY <1>7
    <3> QED BY <3>1
  <2>2. ASSUME NEW k \in 1..n, k - 1 \in T PROVE k \in T
    <3>1. k \in 0..n /\ up[k - 1] \in 1..n /\ up[k] = p[up[k - 1]]
      BY <1>7, <2>2
    <3>2. up[k] \in 1..n
      BY <3>1
    <3> QED BY <3>1, <3>2
  <2>3. \A k \in 0..n : k \in T
    <3> HIDE DEF T
    <3> QED BY <2>1, <2>2, Induction
  <2>4. up = [k \in 0..n |-> up[k]]
    BY <1>6
  <2> QED BY <2>3, <2>4
<1> QED BY <1>7, <1>8, <1>9

LEMMA HangingFinite ==
  ASSUME NEW n \in Nat, NEW p \in [1..n -> 1..n]
  PROVE  IsFiniteSet(Hanging(p)) /\ Cardinality(Hanging(p)) \in Nat /\ Cardinality(Hanging(p)) <= n
<1> DEFINE N == 1..n
<1>1. IsFiniteSet(N) /\ Cardinality(N) = n
  <2>1. 1 \in Int /\ n \in Int
    OBVIOUS
  <2>2. IsFiniteSet(1..n) /\ Cardinality(1..n) = IF 1 > n THEN 0 ELSE n - 1 + 1
    BY <2>1, FS_Interval
  <2> QED BY <2>2
<1>2. Hanging(p) \in SUBSET N
  BY DEF Hanging
<1> HIDE DEF N
<1> QED BY <1>1, <1>2, FS_Subset, FS_CardinalityType

LEMMA DepthsAre ==
  ASSUME NEW n \in Nat, NEW p \in [1..n -> 1..n], NEW d, Depths(p, d), NEW j \in 1..n
  PROVE  d[j] \in Nat /\ d[j] <= n /\ p[j] \in 1..n /\ (p[j] = j => d[j] = 0) /\ (p[j] # j => d[j] = d[p[j]] + 1)
<1> DEFINE c == Cardinality(Hanging(p))
<1>1. DOMAIN p = 1..n /\ c \in Nat /\ c <= n
  BY HangingFinite
<1>2. d[j] \in Nat /\ d[j] <= c /\ (p[j] = j => d[j] = 0) /\ (p[j] # j => d[j] = d[p[j]] + 1)
  BY <1>1 DEF Depths
<1> HIDE DEF c
<1> QED BY <1>1, <1>2

\* One item up is one less deep.
LEMMA DepthAbove ==
  ASSUME NEW x \in Nat, NEW y \in Nat, NEW z \in Nat, NEW k \in Nat \ {0},
         x <= k - 1 => y = 0, k - 1 < x => y = x - (k - 1), (y = 0 /\ z = y) \/ y = z + 1
  PROVE  (x <= k => z = 0) /\ (k < x => z = x - k)
OBVIOUS

LEMMA RootIsRoot ==
  ASSUME NEW n \in Nat, NEW p, IsForest(n, p), NEW i \in 1..n
  PROVE  Root(p, i) \in 1..n /\ p[Root(p, i)] = Root(p, i)
<1>1. p \in [1..n -> 1..n]
  BY DEF IsForest
<1>2. PICK d : Depths(p, d)
  BY DEF IsForest
<1>5. \A j \in 1..n : d[j] \in Nat /\ d[j] <= n /\ p[j] \in 1..n /\ (p[j] = j => d[j] = 0) /\ (p[j] # j => d[j] = d[p[j]] + 1)
  BY <1>1, <1>2, DepthsAre
<1>13. 0 \in 0..n /\ n \in 0..n /\ \A k \in 1..n : k \in 0..n /\ k - 1 \in 0..n
  BY NumbersUpTo
<1>3. PICK up \in [0..n -> 1..n] : up[0] = i /\ (\A k \in 1..n : up[k] = p[up[k - 1]]) /\ Root(p, i) = up[n]
  BY <1>1, Climb
<1>12. \A k \in 0..n : up[k] \in 1..n
  BY <1>3
<1> DEFINE T == {k \in 0..n : (d[i] <= k => d[up[k]] = 0) /\ (k < d[i] => d[up[k]] = d[i] - k)}
<1>6. 0 \in T
  <2>1. d[up[0]] = d[i] /\ d[i] \in Nat
    BY <1>3, <1>5
  <2>2. \A x \in Nat : (x <= 0 => x = 0) /\ (0 < x => x = x - 0)
    OBVIOUS
  <2> QED BY <1>13, <2>1, <2>2
<1>7. ASSUME NEW k \in 1..n, k - 1 \in T PROVE k \in T
  <2> DEFINE j == up[k - 1]  x == d[i]  y == d[j]  z == d[p[j]]
  <2>1. j \in 1..n /\ up[k] = p[j] /\ k \in 0..n /\ k \in Nat \ {0}
    <3>1. k - 1 \in 0..n /\ k \in 0..n
      BY <1>13
    <3>2. up[k] = p[up[k - 1]] /\ up[k - 1] \in 1..n
      BY <1>3, <1>12, <3>1
    <3>3. k \in Nat \ {0}
      OBVIOUS
    <3> QED BY <3>1, <3>2, <3>3
  <2>2. (x <= k - 1 => y = 0) /\ (k - 1 < x => y = x - (k - 1))
    BY <1>7
  <2>3. p[j] \in 1..n /\ x \in Nat /\ y \in Nat /\ (p[j] = j => y = 0) /\ (p[j] # j => y = z + 1)
    <3> HIDE DEF j
    <3> QED BY <1>5, <2>1
  <2>4. z \in Nat
    <3> HIDE DEF j
    <3> QED BY <1>5, <2>3
  <2>5. (y = 0 /\ z = y) \/ y = z + 1
    BY <2>3
  <2>6. (x <= k => z = 0) /\ (k < x => z = x - k)
    <3> HIDE DEF j, x, y, z
    <3> QED BY <2>1, <2>2, <2>3, <2>4, <2>5, DepthAbove
  <2> QED BY <2>1, <2>6
<1>8. n \in T
  <2> HIDE DEF T
  <2>1. \A k \in 0..n : k \in T
    BY <1>6, <1>7, Induction
  <2> QED BY <1>13, <2>1
<1> DEFINE r == up[n]
<1>9. r \in 1..n
  BY <1>12, <1>13
<1>10. d[r] = 0
  <2>1. d[i] <= n
    BY <1>5
  <2> QED BY <1>8, <2>1
<1> HIDE DEF r
<1>11. p[r] = r
  <2> DEFINE z == d[p[r]]
  <2>1. p[r] \in 1..n /\ (p[r] # r => 0 = z + 1)
    BY <1>5, <1>9, <1>10
  <2>2. z \in Nat
    BY <1>5, <2>1
  <2> HIDE DEF z
  <2> QED BY <2>1, <2>2
<1> QED BY <1>3, <1>9, <1>11 DEF r

\* The way up from an item ends at a root, which it shares with the item above.
LEMMA RootsOfForest ==
  ASSUME NEW n \in Nat, NEW p, IsForest(n, p), NEW i \in 1..n
  PROVE  /\ Root(p, i) \in 1..n /\ p[Root(p, i)] = Root(p, i)
         /\ p[i] \in 1..n /\ Root(p, p[i]) = Root(p, i)
         /\ p[i] = i => Root(p, i) = i
<1>1. p \in [1..n -> 1..n]
  BY DEF IsForest
<1>2. p[i] \in 1..n
  BY <1>1
<1>13. 0 \in 0..n /\ n \in 0..n /\ \A k \in 1..n : k \in 0..n /\ k - 1 \in 0..n
  BY NumbersUpTo
<1>3. PICK up \in [0..n -> 1..n] : up[0] = i /\ (\A k \in 1..n : up[k] = p[up[k - 1]]) /\ Root(p, i) = up[n]
  BY <1>1, Climb
<1>4. PICK way \in [0..n -> 1..n] : way[0] = p[i] /\ (\A k \in 1..n : way[k] = p[way[k - 1]]) /\ Root(p, p[i]) = way[n]
  BY <1>1, <1>2, Climb
<1>8. Root(p, i) \in 1..n /\ p[Root(p, i)] = Root(p, i)
  BY RootIsRoot
<1>9. \A k \in 0..n : way[k] = p[up[k]]
  <2> DEFINE T == {k \in 0..n : way[k] = p[up[k]]}
  <2>1. 0 \in T
    BY <1>3, <1>4, <1>13
  <2>2. ASSUME NEW k \in 1..n, k - 1 \in T PROVE k \in T
    <3>1. way[k - 1] = p[up[k - 1]] /\ k \in 0..n
      BY <1>13, <2>2
    <3>2. way[k] = p[way[k - 1]] /\ up[k] = p[up[k - 1]]
      BY <1>3, <1>4
    <3> QED BY <3>1, <3>2
  <2> HIDE DEF T
  <2>3. \A k \in 0..n : k \in T
    BY <2>1, <2>2, Induction
  <2> QED BY <2>3 DEF T
<1>10. Root(p, p[i]) = Root(p, i)
  BY <1>3, <1>4, <1>8, <1>9, <1>13
<1>11. ASSUME p[i] = i PROVE Root(p, i) = i
  <2> DEFINE T == {k \in 0..n : up[k] = i}
  <2>1. 0 \in T
    BY <1>3, <1>13
  <2>2. ASSUME NEW k \in 1..n, k - 1 \in T PROVE k \in T
    <3>1. up[k - 1] = i /\ up[k] = p[up[k - 1]] /\ k \in 0..n
      BY <1>3, <1>13, <2>2
    <3> QED BY <1>11, <3>1
  <2> HIDE DEF T
  <2>3. \A k \in 0..n : k \in T
    BY <2>1, <2>2, Induction
  <2> QED BY <1>3, <1>13, <2>3 DEF T
<1> QED BY <1>2, <1>8, <1>10, <1>11

\* What is kept on the way up, and tells the roots, tells all roots.
LEMMA RootIsTold ==
  ASSUME NEW n \in Nat, NEW p, IsForest(n, p), NEW R,
         \A j \in 1..n : (p[j] = j => R[j] = j) /\ R[p[j]] = R[j],
         NEW i \in 1..n
  PROVE  Root(p, i) = R[i]
<1>1. p \in [1..n -> 1..n]
  BY DEF IsForest
<1>3. PICK up \in [0..n -> 1..n] : up[0] = i /\ (\A k \in 1..n : up[k] = p[up[k - 1]]) /\ Root(p, i) = up[n]
  BY <1>1, Climb
<1>2. 0 \in 0..n /\ n \in 0..n /\ \A k \in 1..n : k \in 0..n /\ k - 1 \in 0..n
  BY NumbersUpTo
<1>8. \A k \in 0..n : up[k] \in 1..n
  BY <1>3
<1> DEFINE T == {k \in 0..n : R[up[k]] = R[i]}
<1>4. 0 \in T
  BY <1>2, <1>3
<1>5. ASSUME NEW k \in 1..n, k - 1 \in T PROVE k \in T
  <2>1. up[k - 1] \in 1..n /\ up[k] = p[up[k - 1]] /\ R[up[k - 1]] = R[i] /\ k \in 0..n
    BY <1>2, <1>3, <1>5, <1>8
  <2>2. R[up[k]] = R[i]
    BY <2>1
  <2> QED BY <2>1, <2>2
<1>6. n \in T
  <2>1. n \in 0..n
    OBVIOUS
  <2> HIDE DEF T
  <2>2. \A k \in 0..n : k \in T
    BY <1>4, <1>5, Induction
  <2> QED BY <2>1, <2>2
<1>7. Root(p, i) \in 1..n /\ p[Root(p, i)] = Root(p, i)
  BY RootsOfForest
<1> QED BY <1>3, <1>6, <1>7

\* A join puts the root of one item under that of another, and nothing else
\* gets another root.
LEMMA JoinMergesRoots ==
  ASSUME NEW n \in Nat, NEW p, IsForest(n, p), NEW l \in 1..n, NEW r \in 1..n
  PROVE  /\ IsForest(n, Join(p, l, r))
         /\ \A i \in 1..n : Root(Join(p, l, r), i) = IF Root(p, i) = Root(p, r) THEN Root(p, l) ELSE Root(p, i)
<1> DEFINE a == Root(p, l)  b == Root(p, r)  q == Join(p, l, r)
<1>1. p \in [1..n -> 1..n]
  BY DEF IsForest
<1>2. /\ a \in 1..n /\ p[a] = a /\ Root(p, a) = a
      /\ b \in 1..n /\ p[b] = b /\ Root(p, b) = b
      /\ \A i \in 1..n : p[i] \in 1..n /\ Root(p, p[i]) = Root(p, i) /\ (p[i] = i => Root(p, i) = i)
  BY RootsOfForest
<1>3. q = IF a = b THEN p ELSE [p EXCEPT ![b] = a]
  BY DEF Join
<1> HIDE DEF a, b, q
<1>4. CASE a = b
  <2>1. q = p
    BY <1>3, <1>4
  <2> QED BY <1>4, <2>1 DEF a, b, q
<1>5. CASE a # b
  <2>1. q \in [1..n -> 1..n] /\ q[b] = a /\ \A i \in 1..n : i # b => q[i] = p[i]
    BY <1>1, <1>2, <1>3, <1>5
  <2>2. PICK d : Depths(p, d)
    BY DEF IsForest
  <2>3. \A i \in 1..n : d[i] \in Nat /\ d[i] <= Cardinality(Hanging(p)) /\ (p[i] = i => d[i] = 0) /\ (p[i] # i => d[i] = d[p[i]] + 1)
    BY <1>1, <2>2 DEF Depths
  <2> DEFINE e == [i \in 1..n |-> IF Root(p, i) = b THEN d[i] + 1 ELSE d[i]]
             R == [i \in 1..n |-> IF Root(p, i) = b THEN a ELSE Root(p, i)]
  <2>4. Cardinality(Hanging(q)) = Cardinality(Hanging(p)) + 1 /\ Cardinality(Hanging(p)) \in Nat
    <3>1. Hanging(q) = Hanging(p) \cup {b}
      <4>1. DOMAIN q = 1..n /\ DOMAIN p = 1..n
        BY <1>1, <2>1
      <4>2. \A i \in 1..n : i # b => (q[i] # i <=> p[i] # i)
        BY <2>1
      <4> QED BY <1>2, <1>5, <2>1, <4>1, <4>2 DEF Hanging
    <3>2. b \notin Hanging(p)
      BY <1>2 DEF Hanging
    <3>3. IsFiniteSet(Hanging(p)) /\ Cardinality(Hanging(p)) \in Nat
      BY <1>1, HangingFinite
    <3> QED BY <3>1, <3>2, <3>3, FS_AddElement
  <2>5. Depths(q, e)
    <3> SUFFICES ASSUME NEW i \in 1..n
                 PROVE  /\ e[i] \in Nat /\ e[i] <= Cardinality(Hanging(q))
                        /\ (q[i] = i => e[i] = 0) /\ (q[i] # i => e[i] = e[q[i]] + 1)
      BY <2>1 DEF Depths
    <3>1. e[i] \in Nat /\ e[i] <= Cardinality(Hanging(q))
      BY <2>3, <2>4
    <3>2. CASE i = b
      <4>1. e[b] = 1 /\ e[a] = 0 /\ q[i] = a /\ q[i] # i
        BY <1>2, <1>5, <2>1, <2>3, <3>2
      <4> QED BY <3>1, <3>2, <4>1
    <3>3. CASE i # b
      <4>1. q[i] = p[i] /\ p[i] \in 1..n /\ Root(p, p[i]) = Root(p, i) /\ (p[i] = i => Root(p, i) # b)
        BY <1>2, <2>1, <3>3
      <4>2. d[i] \in Nat /\ d[p[i]] \in Nat /\ (p[i] = i => d[i] = 0) /\ (p[i] # i => d[i] = d[p[i]] + 1)
        BY <2>3, <4>1
      <4>3. e[i] = (IF Root(p, i) = b THEN d[i] + 1 ELSE d[i]) /\ e[p[i]] = (IF Root(p, i) = b THEN d[p[i]] + 1 ELSE d[p[i]])
        BY <4>1
      <4> HIDE DEF e
      <4> QED BY <3>1, <4>1, <4>2, <4>3
    <3> QED BY <3>2, <3>3
  <2>6. IsForest(n, q)
    BY <2>1, <2>5 DEF IsForest
  <2>7. ASSUME NEW j \in 1..n PROVE (q[j] = j => R[j] = j) /\ R[q[j]] = R[j]
    <3>1. CASE j = b
      BY <1>2, <1>5, <2>1, <3>1
    <3>2. CASE j # b
      <4>1. q[j] = p[j] /\ p[j] \in 1..n /\ Root(p, p[j]) = Root(p, j) /\ (p[j] = j => Root(p, j) = j)
        BY <1>2, <2>1, <3>2
      <4> QED BY <3>2, <4>1
    <3> QED BY <3>1, <3>2
  <2>8. \A i \in 1..n : R[i] = IF Root(p, i) = b THEN a ELSE Root(p, i)
    OBVIOUS
  <2> HIDE DEF R
  <2>9. \A i \in 1..n : Root(q, i) = R[i]
    BY <2>6, <2>7, RootIsTold
  <2> QED BY <2>6, <2>8, <2>9 DEF a, b, q
<1> QED BY <1>4, <1>5

-----------------------------------------------------------------------------
(* Domains                                                                  *)

\* No set of evidence that leaves no connection out tells the two apart.
Alike(e, f, S) == \A B \in SUBSET S : ClosedUnder(B, S) => (e \in B <=> f \in B)

LEMMA ConnectedIsSymmetric ==
  ASSUME NEW e, NEW f
  PROVE  Connected(e, f) <=> Connected(f, e)
<1>1. /\ e.pairs \cap f.pairs = f.pairs \cap e.pairs
      /\ e.units \cap f.units = f.units \cap e.units
      /\ e.artifacts \cap f.artifacts = f.artifacts \cap e.artifacts
  OBVIOUS
<1> QED BY <1>1 DEF Connected

LEMMA ConnectedAlike ==
  ASSUME NEW S, NEW e \in S, NEW f \in S, Connected(e, f)
  PROVE  Alike(e, f, S)
BY ConnectedIsSymmetric DEF Alike, ClosedUnder

\* Items with one root belong together.
Sound(p, items, S) == \A i, j \in 1..Len(items) : Root(p, i) = Root(p, j) => Alike(items[i], items[j], S)
Sorts(p, items, S) == IsForest(Len(items), p) /\ Sound(p, items, S)
\* Items with one root in p have one in q.
Keeps(p, q, n) == \A i, j \in 1..n : Root(p, i) = Root(p, j) => Root(q, i) = Root(q, j)

LEMMA JoinSorts ==
  ASSUME NEW S, NEW items, NEW n \in Nat, n = Len(items), \A i \in 1..n : items[i] \in S,
         NEW p, Sorts(p, items, S), NEW l \in 1..n, NEW r \in 1..n, Connected(items[l], items[r])
  PROVE  /\ Sorts(Join(p, l, r), items, S)
         /\ Keeps(p, Join(p, l, r), n)
         /\ Root(Join(p, l, r), l) = Root(Join(p, l, r), r)
<1> DEFINE q == Join(p, l, r)
<1>1. IsForest(n, p) /\ \A i, j \in 1..n : Root(p, i) = Root(p, j) => Alike(items[i], items[j], S)
  BY DEF Sorts, Sound
<1>2. /\ IsForest(n, q)
      /\ \A i \in 1..n : Root(q, i) = IF Root(p, i) = Root(p, r) THEN Root(p, l) ELSE Root(p, i)
  BY <1>1, JoinMergesRoots
<1>3. Alike(items[l], items[r], S)
  BY ConnectedAlike
<1> HIDE DEF q
<1>4. ASSUME NEW i \in 1..n, NEW j \in 1..n, Root(q, i) = Root(q, j)
      PROVE  Alike(items[i], items[j], S)
  <2>1. CASE Root(p, i) = Root(p, j)
    BY <1>1, <2>1
  <2>2. CASE Root(p, i) = Root(p, r) /\ Root(p, j) = Root(p, l)
    <3>1. Alike(items[i], items[r], S) /\ Alike(items[j], items[l], S)
      BY <1>1, <2>2
    <3> QED BY <1>3, <3>1 DEF Alike
  <2>3. CASE Root(p, j) = Root(p, r) /\ Root(p, i) = Root(p, l)
    <3>1. Alike(items[j], items[r], S) /\ Alike(items[i], items[l], S)
      BY <1>1, <2>3
    <3> QED BY <1>3, <3>1 DEF Alike
  <2> QED BY <1>2, <1>4, <2>1, <2>2, <2>3
<1>5. Sorts(q, items, S)
  BY <1>2, <1>4 DEF Sorts, Sound
<1>6. Keeps(p, q, n)
  BY <1>2 DEF Keeps
<1>7. Root(q, l) = Root(q, r)
  BY <1>2
<1> QED BY <1>5, <1>6, <1>7 DEF q

LEMMA JoinIsMap ==
  ASSUME NEW n \in Nat, NEW p \in [1..n -> 1..n], NEW l \in 1..n, NEW r \in 1..n
  PROVE  Join(p, l, r) \in [1..n -> 1..n]
<1>1. \A i \in 1..n : Root(p, i) \in 1..n
  <2> TAKE i \in 1..n
  <2>1. PICK up \in [0..n -> 1..n] : up[0] = i /\ (\A k \in 1..n : up[k] = p[up[k - 1]]) /\ Root(p, i) = up[n]
    BY Climb
  <2>2. n \in 0..n
    OBVIOUS
  <2> QED BY <2>1, <2>2
<1>2. Root(p, l) \in 1..n /\ Root(p, r) \in 1..n
  BY <1>1
<1> QED BY <1>2 DEF Join

\* The inner loop, item by item (contamination.py:113-115).
Joined(items, p, l, r) == IF l < r /\ Connected(items[l], items[r]) THEN Join(p, l, r) ELSE p

IsJoinedRow(row, items, p, l, n) ==
    row[0] = p /\ (\A r \in 1..n : row[r] = Joined(items, row[r - 1], l, r)) /\ JoinRow(items, p, l) = row[n]

LEMMA RowUnfolds ==
  ASSUME NEW items, NEW n \in Nat, n = Len(items), NEW p \in [1..n -> 1..n], NEW l \in 1..n
  PROVE  \E row : IsJoinedRow(row, items, p, l, n) /\ row[n] \in [1..n -> 1..n]
<1> DEFINE X == [1..n -> 1..n]
           h == [r \in 1..n |-> [q \in X |-> Joined(items, q, l, r)]]
           Next1(f) == [r \in 0..n |-> IF r = 0 THEN p ELSE Joined(items, f[r - 1], l, r)]
<1>1. h \in [1..n -> [X -> X]]
  <2>1. \A r \in 1..n, q \in X : Joined(items, q, l, r) \in X
    BY JoinIsMap DEF Joined
  <2> HIDE DEF X
  <2> QED BY <2>1
<1>2. PICK f : Unfolds(f, n, X, p, h)
  <2>1. p \in X
    OBVIOUS
  <2> HIDE DEF h, X
  <2> QED BY <1>1, <2>1, Recursion
<1>3. f \in [0..n -> X] /\ f[0] = p /\ \A r \in 1..n : f[r] = h[r][f[r - 1]]
  BY <1>2 DEF Unfolds
<1> HIDE DEF X
<1>13. 0 \in 0..n /\ n \in 0..n /\ \A k \in 1..n : k \in 0..n /\ k - 1 \in 0..n
  BY NumbersUpTo
<1>4. ASSUME NEW r \in 1..n PROVE f[r] = Joined(items, f[r - 1], l, r)
  <2>1. f[r - 1] \in X
    BY <1>3, <1>13
  <2>2. \A q \in X : h[r][q] = Joined(items, q, l, r)
    OBVIOUS
  <2> QED BY <1>3, <2>1, <2>2
<1>5. f = Next1(f)
  <2>1. \A r \in 0..n : r = 0 \/ r \in 1..n
    OBVIOUS
  <2>2. ASSUME NEW r \in 0..n PROVE f[r] = IF r = 0 THEN p ELSE Joined(items, f[r - 1], l, r)
    BY <1>3, <1>4, <2>1
  <2>3. f = [r \in 0..n |-> f[r]]
    BY <1>3
  <2> QED BY <2>2, <2>3
<1>6. JoinRow(items, p, l) = (CHOOSE g : g = Next1(g))[n]
  BY DEF JoinRow, Joined
<1> DEFINE row == CHOOSE g : g = Next1(g)
<1>7. row = Next1(row)
  BY <1>5
<1>8. JoinRow(items, p, l) = row[n]
  BY <1>6
<1> HIDE DEF row, h
<1>9. row[0] = p /\ \A r \in 1..n : row[r] = Joined(items, row[r - 1], l, r)
  BY <1>7, <1>13
<1>10. row \in [0..n -> X]
  <2> DEFINE T == {r \in 0..n : row[r] \in X}
  <2>1. 0 \in T
    <3>1. p \in X
      BY DEF X
    <3> QED BY <1>9, <1>13, <3>1
  <2>2. ASSUME NEW r \in 1..n, r - 1 \in T PROVE r \in T
    <3>1. row[r] = Joined(items, row[r - 1], l, r) /\ row[r - 1] \in X
      BY <1>9, <2>2
    <3> DEFINE q == row[r - 1]
    <3>2. row[r] = Joined(items, q, l, r) /\ q \in X
      BY <3>1
    <3> HIDE DEF q
    <3>3. row[r] = q \/ row[r] = Join(q, l, r)
      BY <3>2 DEF Joined
    <3>4. Join(q, l, r) \in X
      BY <3>2, JoinIsMap DEF X
    <3>5. row[r] \in X
      BY <3>2, <3>3, <3>4
    <3> QED BY <1>13, <3>5
  <2>3. \A r \in 0..n : row[r] \in X
    <3>1. \A r \in 0..n : r \in T
      <4> HIDE DEF T
      <4> QED BY <2>1, <2>2, Induction
    <3> QED BY <3>1
  <2>4. row = [r \in 0..n |-> row[r]]
    BY <1>7
  <2> QED BY <2>3, <2>4
<1> QED BY <1>8, <1>9, <1>10, <1>13 DEF X, IsJoinedRow

RowIsDone(q, p, items, S, l) ==
    /\ Sorts(q, items, S) /\ Keeps(p, q, Len(items))
    /\ \A r \in 1..Len(items) : l < r /\ Connected(items[l], items[r]) => Root(q, l) = Root(q, r)

\* After it, an item has the root of all later items that are connected with it.
LEMMA RowJoins ==
  ASSUME NEW S, NEW items, NEW n \in Nat, n = Len(items), \A i \in 1..n : items[i] \in S,
         NEW p, Sorts(p, items, S), NEW l \in 1..n
  PROVE  RowIsDone(JoinRow(items, p, l), p, items, S, l)
<1>1. p \in [1..n -> 1..n]
  BY DEF Sorts, IsForest
<1>6. PICK row : IsJoinedRow(row, items, p, l, n)
  BY <1>1, RowUnfolds
<1>2. row[0] = p /\ (\A r \in 1..n : row[r] = Joined(items, row[r - 1], l, r)) /\ JoinRow(items, p, l) = row[n]
  BY <1>6 DEF IsJoinedRow
<1>13. 0 \in 0..n /\ n \in 0..n /\ \A k \in 1..n : k \in 0..n /\ k - 1 \in 0..n
  BY NumbersUpTo
<1> DEFINE Done1(q, k) == \A r \in 1..k : l < r /\ Connected(items[l], items[r]) => Root(q, l) = Root(q, r)
           T == {k \in 0..n : Sorts(row[k], items, S) /\ Keeps(p, row[k], n) /\ Done1(row[k], k)}
<1>3. 0 \in T
  <2>1. Sorts(row[0], items, S) /\ Keeps(p, row[0], n)
    BY <1>2 DEF Keeps
  <2>2. Done1(row[0], 0)
    OBVIOUS
  <2> HIDE DEF Done1
  <2> QED BY <1>13, <2>1, <2>2
<1>4. ASSUME NEW k \in 1..n, k - 1 \in T PROVE k \in T
  <2> DEFINE q == row[k - 1]
  <2>1. Sorts(q, items, S) /\ Keeps(p, q, n) /\ Done1(q, k - 1)
    BY <1>4
  <2>2. row[k] = Joined(items, q, l, k)
    BY <1>2
  <2>3. \A r \in 1..k : r \in 1..n /\ (r \in 1..(k - 1) \/ r = k)
    OBVIOUS
  <2> HIDE DEF q
  <2>4. CASE l < k /\ Connected(items[l], items[k])
    <3>1. row[k] = Join(q, l, k)
      BY <2>2, <2>4 DEF Joined
    <3>5. Sorts(Join(q, l, k), items, S) /\ Keeps(q, Join(q, l, k), n) /\ Root(Join(q, l, k), l) = Root(Join(q, l, k), k)
      <4>1. Sorts(q, items, S) /\ Connected(items[l], items[k]) /\ l \in 1..n /\ k \in 1..n
        BY <2>1, <2>4
      <4>2. \A a, b \in 1..n : Connected(items[a], items[b]) =>
               Sorts(Join(q, a, b), items, S) /\ Keeps(q, Join(q, a, b), n) /\ Root(Join(q, a, b), a) = Root(Join(q, a, b), b)
        BY <4>1, JoinSorts
      <4> QED BY <4>1, <4>2
    <3>2. Sorts(row[k], items, S) /\ Keeps(q, row[k], n) /\ Root(row[k], l) = Root(row[k], k)
      BY <3>1, <3>5
    <3>3. Keeps(p, row[k], n)
      BY <2>1, <3>2 DEF Keeps
    <3>4. Done1(row[k], k)
      BY <2>1, <2>3, <3>2 DEF Keeps
    <3> HIDE DEF Done1
    <3> QED BY <1>13, <3>2, <3>3, <3>4
  <2>5. CASE ~(l < k /\ Connected(items[l], items[k]))
    <3>1. row[k] = q
      BY <2>2, <2>5 DEF Joined
    <3>2. Done1(row[k], k)
      BY <2>1, <2>3, <2>5, <3>1
    <3> HIDE DEF Done1
    <3> QED BY <1>13, <2>1, <3>1, <3>2
  <2> QED BY <2>4, <2>5
<1>5. n \in T
  <2> HIDE DEF T
  <2>1. \A k \in 0..n : k \in T
    BY <1>3, <1>4, Induction
  <2> QED BY <1>13, <2>1
<1> QED BY <1>2, <1>5 DEF RowIsDone

AreJoinedRows(rows, items, n) ==
    /\ rows[0] = [i \in 1..n |-> i]
    /\ \A l \in 1..n : rows[l] = JoinRow(items, rows[l - 1], l)
    /\ JoinAll(items) = rows[n]

\* The outer loop, row by row (contamination.py:112).
LEMMA RowsUnfold ==
  ASSUME NEW items, NEW n \in Nat, n = Len(items), DOMAIN items = 1..n
  PROVE  \E rows : AreJoinedRows(rows, items, n)
<1> DEFINE X == [1..n -> 1..n]
           first == [i \in 1..n |-> i]
           h == [l \in 1..n |-> [q \in X |-> JoinRow(items, q, l)]]
           Next1(f) == [l \in 0..n |-> IF l = 0 THEN first ELSE JoinRow(items, f[l - 1], l)]
<1>1. h \in [1..n -> [X -> X]]
  <2>1. ASSUME NEW l \in 1..n, NEW q \in X PROVE JoinRow(items, q, l) \in X
    <3>1. \E row : IsJoinedRow(row, items, q, l, n) /\ row[n] \in [1..n -> 1..n]
      BY RowUnfolds
    <3> QED BY <3>1 DEF IsJoinedRow
  <2> HIDE DEF X
  <2> QED BY <2>1
<1>2. PICK f : Unfolds(f, n, X, first, h)
  <2>1. first \in X
    OBVIOUS
  <2> HIDE DEF h, X, first
  <2> QED BY <1>1, <2>1, Recursion
<1>3. f \in [0..n -> X] /\ f[0] = first /\ \A l \in 1..n : f[l] = h[l][f[l - 1]]
  BY <1>2 DEF Unfolds
<1> HIDE DEF X, first
<1>13. 0 \in 0..n /\ n \in 0..n /\ \A k \in 1..n : k \in 0..n /\ k - 1 \in 0..n
  BY NumbersUpTo
<1>4. ASSUME NEW l \in 1..n PROVE f[l] = JoinRow(items, f[l - 1], l)
  <2>1. f[l - 1] \in X
    BY <1>3, <1>13
  <2>2. \A q \in X : h[l][q] = JoinRow(items, q, l)
    OBVIOUS
  <2> QED BY <1>3, <2>1, <2>2
<1>5. f = Next1(f)
  <2>1. \A l \in 0..n : l = 0 \/ l \in 1..n
    OBVIOUS
  <2>2. ASSUME NEW l \in 0..n PROVE f[l] = IF l = 0 THEN first ELSE JoinRow(items, f[l - 1], l)
    BY <1>3, <1>4, <2>1
  <2>3. f = [l \in 0..n |-> f[l]]
    BY <1>3
  <2> QED BY <2>2, <2>3
<1>6. JoinAll(items) = (CHOOSE g : g = Next1(g))[n]
  BY DEF JoinAll, first
<1> DEFINE rows == CHOOSE g : g = Next1(g)
<1>7. rows = Next1(rows)
  BY <1>5
<1>8. JoinAll(items) = rows[n]
  BY <1>6
<1> HIDE DEF rows, h
<1>9. rows[0] = first /\ \A l \in 1..n : rows[l] = JoinRow(items, rows[l - 1], l)
  BY <1>7, <1>13
<1> QED BY <1>8, <1>9 DEF first, AreJoinedRows

\* The first forest has roots only.
LEMMA EachIsARoot ==
  ASSUME NEW n \in Nat
  PROVE  LET each == [i \in 1..n |-> i]
         IN  IsForest(n, each) /\ \A i \in 1..n : Root(each, i) = i
<1> DEFINE each == [i \in 1..n |-> i]
           d == [i \in 1..n |-> 0]
<1>1. each \in [1..n -> 1..n] /\ \A i \in 1..n : each[i] = i
  OBVIOUS
<1>2. Cardinality(Hanging(each)) = 0
  <2>1. Hanging(each) = {}
    BY DEF Hanging
  <2> QED BY <2>1, FS_EmptySet
<1>3. Depths(each, d)
  BY <1>2 DEF Depths
<1>4. IsForest(n, each)
  BY <1>1, <1>3 DEF IsForest
<1>5. \A i \in 1..n : Root(each, i) = i
  <2> HIDE DEF each
  <2> QED BY <1>1, <1>4, RootsOfForest
<1> QED BY <1>4, <1>5

\* When all pairs are done, connected items have one root, and only items
\* that belong together do.
LEMMA AllJoined ==
  ASSUME NEW S, NEW items, NEW n \in Nat, n = Len(items), DOMAIN items = 1..n, \A i \in 1..n : items[i] \in S
  PROVE  /\ Sorts(JoinAll(items), items, S)
         /\ \A i, j \in 1..n : Connected(items[i], items[j]) => Root(JoinAll(items), i) = Root(JoinAll(items), j)
<1>1. PICK rows : AreJoinedRows(rows, items, n)
  BY RowsUnfold
<1>2. /\ rows[0] = [i \in 1..n |-> i]
      /\ \A l \in 1..n : rows[l] = JoinRow(items, rows[l - 1], l)
      /\ JoinAll(items) = rows[n]
  BY <1>1 DEF AreJoinedRows
<1>13. 0 \in 0..n /\ n \in 0..n /\ \A k \in 1..n : k \in 0..n /\ k - 1 \in 0..n
  BY NumbersUpTo
<1> DEFINE Upto(q, k) == \A l \in 1..k, r \in 1..n : l < r /\ Connected(items[l], items[r]) => Root(q, l) = Root(q, r)
           T == {k \in 0..n : Sorts(rows[k], items, S) /\ Upto(rows[k], k)}
<1>3. 0 \in T
  <2> DEFINE each == [i \in 1..n |-> i]
  <2>1. IsForest(n, each) /\ \A i \in 1..n : Root(each, i) = i
    BY EachIsARoot
  <2> HIDE DEF each
  <2>2. Sorts(each, items, S)
    BY <2>1 DEF Sorts, Sound, Alike
  <2>3. Upto(rows[0], 0)
    OBVIOUS
  <2> HIDE DEF Upto
  <2>4. rows[0] = each
    BY <1>2 DEF each
  <2> QED BY <1>13, <2>2, <2>3, <2>4
<1>4. ASSUME NEW k \in 1..n, k - 1 \in T PROVE k \in T
  <2> DEFINE p == rows[k - 1]  q == rows[k]
  <2>1. Sorts(p, items, S) /\ Upto(p, k - 1)
    BY <1>4
  <2>2. q = JoinRow(items, p, k)
    BY <1>2
  <2>3. \A l \in 1..k : l \in 1..n /\ (l \in 1..(k - 1) \/ l = k)
    OBVIOUS
  <2> HIDE DEF p, q
  <2>4. \A l \in 1..n : RowIsDone(JoinRow(items, p, l), p, items, S, l)
    BY <2>1, RowJoins
  <2>5. /\ Sorts(q, items, S) /\ Keeps(p, q, n)
        /\ \A r \in 1..n : k < r /\ Connected(items[k], items[r]) => Root(q, k) = Root(q, r)
    BY <2>2, <2>4 DEF RowIsDone
  <2>6. Upto(q, k)
    BY <2>1, <2>3, <2>5 DEF Keeps
  <2> HIDE DEF Upto
  <2> QED BY <1>13, <2>5, <2>6 DEF q
<1>5. n \in T
  <2> HIDE DEF T
  <2>1. \A k \in 0..n : k \in T
    BY <1>3, <1>4, Induction
  <2> QED BY <1>13, <2>1
<1> DEFINE p == JoinAll(items)
<1>6. Sorts(p, items, S) /\ Upto(p, n)
  BY <1>2, <1>5
<1> HIDE DEF p
<1>7. ASSUME NEW i \in 1..n, NEW j \in 1..n, Connected(items[i], items[j])
      PROVE  Root(p, i) = Root(p, j)
  <2>1. i < j \/ j < i \/ i = j
    OBVIOUS
  <2>2. Connected(items[j], items[i])
    BY <1>7, ConnectedIsSymmetric
  <2> QED BY <1>6, <1>7, <2>1, <2>2
<1> QED BY <1>6, <1>7 DEF p

\* Whatever the order in which evidence is joined, its domains are its components.
LEMMA DomainsOf ==
  ASSUME NEW S, Lists(Sorted(S), S)
  PROVE  Domains(S) = {ComponentOf(e, S) : e \in S}
<1> DEFINE items == Sorted(S)  n == Len(items)  p == JoinAll(items)
           roots == [i \in 1..n |-> Root(p, i)]
           D(root) == {items[i] : i \in {j \in 1..n : roots[j] = root}}
<1>1. n \in Nat /\ DOMAIN items = 1..n /\ (\A i \in 1..n : items[i] \in S) /\ (\A e \in S : \E i \in 1..n : items[i] = e)
  <2> HIDE DEF items
  <2>1. items \in Seq(S) /\ \A e \in S : \E i \in 1..Len(items) : items[i] = e
    BY DEF Lists, items
  <2> QED BY <2>1, ElementOfSeq, LenProperties
<1>9. n = Len(items)
  OBVIOUS
<1>2. Domains(S) = {D(root) : root \in Range(roots)}
  BY <1>1 DEF Domains
<1> HIDE DEF items, n, p
<1>3. /\ Sorts(p, items, S)
      /\ \A i, j \in 1..n : Connected(items[i], items[j]) => Root(p, i) = Root(p, j)
  <2>1. \A m \in Nat : m = Len(items) /\ DOMAIN items = 1..m /\ (\A i \in 1..m : items[i] \in S) =>
            Sorts(JoinAll(items), items, S) /\ \A i, j \in 1..m : Connected(items[i], items[j]) => Root(JoinAll(items), i) = Root(JoinAll(items), j)
    BY AllJoined
  <2> QED BY <1>1, <1>9, <2>1 DEF p
<1>4. \A i, j \in 1..n : Root(p, i) = Root(p, j) => Alike(items[i], items[j], S)
  BY <1>3, <1>9 DEF Sorts, Sound
<1>5. ASSUME NEW i \in 1..n PROVE D(roots[i]) = ComponentOf(items[i], S)
  <2> DEFINE C == D(roots[i])
  <2>1. \A j \in 1..n : roots[j] = Root(p, j)
    OBVIOUS
  <2>2. \A f : f \in C <=> \E j \in 1..n : f = items[j] /\ Root(p, j) = Root(p, i)
    BY <2>1
  <2>3. C \in SUBSET S /\ items[i] \in C
    BY <1>1, <2>2
  <2> HIDE DEF roots, C
  <2>4. ClosedUnder(C, S)
    <3> SUFFICES ASSUME NEW e \in C, NEW f \in S, Connected(e, f) PROVE f \in C
      BY DEF ClosedUnder
    <3>1. PICK j \in 1..n : e = items[j] /\ Root(p, j) = Root(p, i)
      BY <2>2
    <3>2. PICK k \in 1..n : f = items[k]
      BY <1>1
    <3> QED BY <1>3, <2>2, <3>1, <3>2
  <2>5. ASSUME NEW f \in C PROVE f \in ComponentOf(items[i], S)
    <3>1. PICK j \in 1..n : f = items[j] /\ Root(p, j) = Root(p, i)
      BY <2>2
    <3>2. Alike(items[i], f, S)
      BY <1>4, <3>1
    <3> QED BY <2>3, <3>2 DEF Alike, ComponentOf
  <2>6. ASSUME NEW f \in ComponentOf(items[i], S) PROVE f \in C
    BY <2>3, <2>4, <2>6 DEF ComponentOf
  <2>7. C = ComponentOf(items[i], S)
    BY <2>5, <2>6
  <2> QED BY <2>7 DEF C
<1>6. \A root : root \in Range(roots) <=> \E i \in 1..n : root = roots[i]
  BY DEF Range
<1> HIDE DEF D, roots
<1>7. ASSUME NEW d \in Domains(S) PROVE \E e \in S : d = ComponentOf(e, S)
  BY <1>1, <1>2, <1>5, <1>6
<1>8. ASSUME NEW e \in S PROVE ComponentOf(e, S) \in Domains(S)
  <2>1. PICK i \in 1..n : items[i] = e
    BY <1>1
  <2>2. roots[i] \in Range(roots) /\ ComponentOf(e, S) = D(roots[i])
    BY <1>5, <1>6, <2>1
  <2> QED BY <1>2, <2>2
<1> QED BY <1>7, <1>8

LEMMA BeforeByNumber ==
  ASSUME NEW model \in {"fineedge", "plantnode"}, NEW b \in Nat, NEW i \in Nat, NEW j \in Nat
  PROVE  Before(Ref(model, b, i), Ref(model, b, j)) <=> i < j
<1> DEFINE q == Ref(model, b, i)  r == Ref(model, b, j)
<1>1. q.model = model /\ r.model = model /\ q.build = b /\ r.build = b /\ q.id = i /\ r.id = j
  BY DEF Ref
<1>2. Rank(q) = Rank(r) /\ Rank(q) \in Nat
  <2>1. Models[3] = "fineedge" /\ Models[4] = "plantnode" /\ DOMAIN Models = 1..4
    BY DEF Models
  <2>2. \E k \in 1..4 : Models[k] = model
    BY <2>1
  <2>3. Rank(q) = CHOOSE k \in 1..4 : Models[k] = model
    BY <1>1, <2>1 DEF Rank
  <2>4. Rank(r) = CHOOSE k \in 1..4 : Models[k] = model
    BY <1>1, <2>1 DEF Rank
  <2>5. Rank(q) \in 1..4
    BY <2>2, <2>3
  <2> DEFINE k == CHOOSE j0 \in 1..4 : Models[j0] = model
  <2>6. Rank(q) = k /\ Rank(r) = k
    BY <2>3, <2>4
  <2> HIDE DEF k, q, r
  <2>7. Rank(q) = Rank(r)
    BY <2>6
  <2>8. Rank(q) \in Nat
    BY <2>5
  <2> QED BY <2>7, <2>8
<1> HIDE DEF q, r
<1>3. Before(q, r) <=> i < j
  BY <1>1, <1>2 DEF Before
<1> QED BY <1>3 DEF q, r

LEMMA SortableByNumber ==
  ASSUME NEW S, IsFiniteSet(S), NEW model \in {"fineedge", "plantnode"}, NEW b \in Nat,
         \A d \in S : \E i \in Nat : d.object = Ref(model, b, i),
         \A d, e \in S : d.object = e.object => d = e
  PROVE  Sortable(S)
<1>1. PICK num : num = [d \in S |-> CHOOSE i \in Nat : d.object = Ref(model, b, i)]
  OBVIOUS
<1>2. \A d \in S : num[d] \in Nat /\ d.object = Ref(model, b, num[d])
  BY <1>1
<1>3. \A d, e \in S : Before(d.object, e.object) <=> num[d] < num[e]
  BY <1>2, BeforeByNumber
<1>4. \A d, e \in S : num[d] = num[e] => d = e
  BY <1>2
<1>5. \A d \in S : ~Before(d.object, d.object)
  BY <1>2, <1>3
<1>6. ASSUME NEW d \in S, NEW e \in S, d # e PROVE Before(d.object, e.object) \/ Before(e.object, d.object)
  <2>1. num[d] # num[e] /\ num[d] \in Nat /\ num[e] \in Nat
    BY <1>2, <1>4, <1>6
  <2>2. num[d] < num[e] \/ num[e] < num[d]
    BY <2>1
  <2> QED BY <1>3, <2>2
<1>7. ASSUME NEW c \in S, NEW d \in S, NEW e \in S, Before(c.object, d.object), Before(d.object, e.object)
      PROVE  Before(c.object, e.object)
  <2>1. num[c] < num[d] /\ num[d] < num[e] /\ num[c] \in Nat /\ num[d] \in Nat /\ num[e] \in Nat
    BY <1>2, <1>3, <1>7
  <2>2. num[c] < num[e]
    BY <2>1
  <2> QED BY <1>3, <2>2
<1> QED BY <1>5, <1>6, <1>7 DEF Sortable

LEMMA ImageIsFinite ==
  ASSUME NEW S, IsFiniteSet(S), NEW f, NEW T, T = {f[x] : x \in S}
  PROVE  IsFiniteSet(T)
<1> DEFINE g == [x \in S |-> f[x]]
<1>1. g \in [S -> T] /\ \A t \in T : \E x \in S : g[x] = t
  OBVIOUS
<1> HIDE DEF g
<1>2. g \in Surjection(S, T)
  BY <1>1 DEF Surjection
<1> QED BY <1>2, FS_Surjection

LEMMA SharesSortable ==
  ASSUME NEW U, IsFiniteSet(U), NEW b \in Nat, \A u \in U : u.build = b /\ NodeOf[u.id] \in Nat, NEW P
  PROVE  Sortable(Shares(U, P))
<1> DEFINE V == {v \in U : NodeOf[v.id] \in Passive}
           f == [u \in V |-> Share(NodeRef(u), U, P)]
           T == {f[u] : u \in V}
           S == Shares(U, P)
<1>1. IsFiniteSet(V)
  <2>1. V \in SUBSET U
    OBVIOUS
  <2> HIDE DEF V
  <2> QED BY <2>1, FS_Subset
<1>2. S \in SUBSET T
  BY DEF Shares
<1>3. IsFiniteSet(S)
  <2>1. T = {f[u] : u \in V}
    OBVIOUS
  <2> HIDE DEF V, f, T, S
  <2>2. IsFiniteSet(T)
    BY <1>1, <2>1, ImageIsFinite
  <2> QED BY <1>2, <2>2, FS_Subset
<1>4. ASSUME NEW d \in S
      PROVE  \E i \in Nat : d.object = Ref("plantnode", b, i) /\ d = Share(Ref("plantnode", b, i), U, P)
  <2>1. PICK u \in V : d = Share(NodeRef(u), U, P)
    BY DEF Shares
  <2>2. NodeRef(u) = Ref("plantnode", b, NodeOf[u.id]) /\ NodeOf[u.id] \in Nat
    BY DEF NodeRef
  <2>3. d.object = NodeRef(u)
    BY <2>1 DEF Share
  <2> QED BY <2>1, <2>2, <2>3
<1> HIDE DEF S
<1>5. \A d, e \in S : d.object = e.object => d = e
  <2> SUFFICES ASSUME NEW d \in S, NEW e \in S, d.object = e.object PROVE d = e
    OBVIOUS
  <2>1. d = Share(d.object, U, P)
    BY <1>4
  <2>2. e = Share(e.object, U, P)
    BY <1>4
  <2> QED BY <2>1, <2>2
<1>6. \A d \in S : \E i \in Nat : d.object = Ref("plantnode", b, i)
  BY <1>4
<1>7. "plantnode" \in {"fineedge", "plantnode"}
  OBVIOUS
<1>8. Sortable(S)
  BY <1>3, <1>5, <1>6, <1>7, SortableByNumber
<1> QED BY <1>8 DEF S

LEMMA BridgesSortable ==
  ASSUME NEW E, IsFiniteSet(E), NEW b \in Nat, \A e \in E : \E i \in Nat : e.edge = Ref("fineedge", b, i),
         \A e, f \in E : e.edge = f.edge => e = f, NEW P
  PROVE  Sortable(Bridges(E, P))
<1> DEFINE f == [e \in E |-> Bridge(e, P)]
           T == {f[e] : e \in E}
           S == Bridges(E, P)
<1>1. S \in SUBSET T
  BY DEF Bridges
<1>2. IsFiniteSet(S)
  <2>1. T = {f[e] : e \in E}
    OBVIOUS
  <2> HIDE DEF f, T, S
  <2>2. IsFiniteSet(T)
    BY <2>1, ImageIsFinite
  <2> QED BY <1>1, <2>2, FS_Subset
<1>3. ASSUME NEW d \in S PROVE \E e \in E : d = Bridge(e, P) /\ d.object = e.edge
  <2>1. PICK e \in E : d = Bridge(e, P)
    BY DEF Bridges
  <2>2. d.object = e.edge
    BY <2>1 DEF Bridge
  <2> QED BY <2>1, <2>2
<1> HIDE DEF S
<1>4. \A d \in S : \E i \in Nat : d.object = Ref("fineedge", b, i)
  BY <1>3
<1>5. \A d, e \in S : d.object = e.object => d = e
  BY <1>3
<1>6. "fineedge" \in {"fineedge", "plantnode"}
  OBVIOUS
<1>7. Sortable(S)
  BY <1>2, <1>4, <1>5, <1>6, SortableByNumber
<1> QED BY <1>7 DEF S

\* The evidence of an evaluation can be sorted.
LEMMA EvidenceLists ==
  ASSUME VersionsInOrder, NEW ev, ev.units \in 1..Now, ev.edges \in 1..Now
  PROVE  Lists(Sorted(EvidenceOf(ev)), EvidenceOf(ev))
<1> DEFINE U == UnitsAt(ev.units)
           P == MembershipsAt(ev.members, U, ev.planes)
           E == EdgesAt(ev.edges)
<1>1. /\ versions[ev.units] \in Snapshots /\ versions[ev.edges] \in Snapshots
      /\ Build(ev.units) \in Nat /\ Build(ev.edges) \in Nat
  BY VersionParts, BoundsAssumption
<1>2. PICK g \in Graphs : versions[ev.units].units = g.units
  BY <1>1 DEF Snapshots
<1>3. PICK h \in Graphs : versions[ev.edges].edges = h.edges
  BY <1>1 DEF Snapshots
<1>4. IsFiniteSet(g.units) /\ (\A u \in g.units : NodeOf[u] \in Nat)
  BY GraphsAssumption
<1>5. IsFiniteSet(h.edges) /\ (\A e \in h.edges : e.id \in Nat) /\ (\A e, f \in h.edges : e.id = f.id => e = f)
  BY GraphsAssumption
<1>6. Sortable(Shares(U, P))
  <2> DEFINE b == Build(ev.units)
             f == [u \in g.units |-> Unit(b, u)]
  <2>1. U = {f[u] : u \in g.units}
    BY <1>2 DEF UnitsAt
  <2>2. \A u \in U : u.build = b /\ NodeOf[u.id] \in Nat
    BY <1>2, <1>4 DEF UnitsAt, Unit, Ref
  <2> HIDE DEF U, P, f
  <2>3. IsFiniteSet(U)
    BY <1>4, <2>1, ImageIsFinite
  <2>4. b \in Nat
    BY <1>1
  <2> HIDE DEF b
  <2> QED BY <2>2, <2>3, <2>4, SharesSortable
<1>7. Sortable(Bridges(E, P))
  <2> DEFINE b == Build(ev.edges)
             Row(e) == [edge |-> Ref("fineedge", b, e.id), parent |-> Ref("coarseedge", b, e.parent),
                        a |-> Unit(b, e.a), b |-> Unit(b, e.b)]
             f == [e \in h.edges |-> Row(e)]
  <2>1. E = {f[e] : e \in h.edges}
    BY <1>3 DEF EdgesAt
  <2>2. ASSUME NEW e \in E PROVE \E k \in h.edges : e = Row(k) /\ e.edge = Ref("fineedge", b, k.id)
    <3>1. PICK k \in h.edges : e = f[k]
      BY <2>1
    <3>2. e = Row(k)
      BY <3>1
    <3>3. Row(k).edge = Ref("fineedge", b, k.id)
      OBVIOUS
    <3>4. e.edge = Ref("fineedge", b, k.id)
      <4> HIDE DEF Row
      <4> QED BY <3>2, <3>3
    <3> HIDE DEF Row
    <3> QED BY <3>2, <3>4
  <2>3. \A i, j : Ref("fineedge", b, i) = Ref("fineedge", b, j) => i = j
    BY DEF Ref
  <2> HIDE DEF E, P, f, Row
  <2>4. IsFiniteSet(E)
    BY <1>5, <2>1, ImageIsFinite
  <2>5. b \in Nat
    BY <1>1
  <2> HIDE DEF b
  <2>6. \A e \in E : \E i \in Nat : e.edge = Ref("fineedge", b, i)
    BY <1>5, <2>2
  <2>7. \A e, d \in E : e.edge = d.edge => e = d
    <3> SUFFICES ASSUME NEW e \in E, NEW d \in E, e.edge = d.edge PROVE e = d
      OBVIOUS
    <3>1. PICK k \in h.edges : e = Row(k) /\ e.edge = Ref("fineedge", b, k.id)
      BY <2>2
    <3>2. PICK l \in h.edges : d = Row(l) /\ d.edge = Ref("fineedge", b, l.id)
      BY <2>2
    <3>3. k.id = l.id
      BY <2>3, <3>1, <3>2
    <3> QED BY <1>5, <3>1, <3>2, <3>3
  <2> QED BY <2>4, <2>5, <2>6, <2>7, BridgesSortable
<1>8. EvidenceOf(ev) = Shares(U, P) \cup Bridges(E, P)
  BY DEF EvidenceOf
<1> HIDE DEF U, P, E
<1> QED BY <1>6, <1>7, <1>8, SharesAreShares, SortedLists

\* Contamination domains are what the evidence is connected in, whatever the
\* order in which the union-find joins it (contamination.py:87-119).
THEOREM DomainsAreConnected == PolicySpec => []DomainsAreComponents
<1>1. ASSUME PInv, NEW r \in Requests
      PROVE  Domains(EvidenceOf(reads[r])) = {ComponentOf(e, EvidenceOf(reads[r])) : e \in EvidenceOf(reads[r])}
  <2>1. reads[r].units \in 1..Now /\ reads[r].edges \in 1..Now
    BY <1>1, Loaded DEF Evaluations
  <2>2. Lists(Sorted(EvidenceOf(reads[r])), EvidenceOf(reads[r]))
    BY <1>1, <2>1, EvidenceLists DEF PInv
  <2> QED BY <2>2, DomainsOf
<1>2. PInv => DomainsAreComponents
  BY <1>1 DEF DomainsAreComponents
<1> QED
  BY <1>2, PolicyInOrder, PTL
=============================================================================

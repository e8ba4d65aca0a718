---------------------------- MODULE PolicyReview ----------------------------
(***************************************************************************)
(* Audits, the policy review page and the policy dashboard evaluate the    *)
(* separation of the planes query by query, the dashboard through a cache  *)
(* under the revision of the graph it has loaded                           *)
(* (services/graph/policy_evaluator.py, policy_reporting.py), while        *)
(* rebuilds replace the graph, operators edit plane memberships by hand    *)
(* and exceptions are requested, approved, expired and reactivated         *)
(* (policy_exceptions.py).                                                 *)
(* Each commit that changes the graph makes a version of it; what a query  *)
(* returned is given by the version it saw.                                *)
(***************************************************************************)
EXTENDS PolicyEvidence

CONSTANTS
    PlaneNumbers,
    Graphs,         \* what a rebuild may make
    Edits,          \* <<unit, planes>>: memberships an operator may enter
    MaxVersions,    \* bound on the number of rebuilds and edits
    Scenarios,      \* the requests there are, [kind, scope] each, and the exceptions
    Wishes,         \* what an exception may be requested for
    Operators,
    NoCopy, NoEvaluation

Plane(b, p) == [build |-> b, number |-> p]
AllPlanes == {Plane(b, p) : b \in 1..MaxVersions, p \in PlaneNumbers}

\* Only an audit can be of some planes (audits.py:270-280).
ASSUME ScenariosAssumption ==
    \A s \in Scenarios : \A r \in DOMAIN s.requests :
        /\ s.requests[r].kind \in {"audit", "review", "dashboard"}
        /\ s.requests[r].scope \subseteq PlaneNumbers
        /\ s.requests[r].kind # "audit" => s.requests[r].scope = PlaneNumbers
\* Only a unit has memberships.  Graphs are finite, and units, nodes and edges
\* are told apart by their numbers.
ASSUME GraphsAssumption ==
    /\ \A g \in Graphs : g.planes \in [g.units -> SUBSET PlaneNumbers]
    /\ \A e \in Edits : e[2] \subseteq PlaneNumbers
    /\ \A g \in Graphs : /\ IsFiniteSet(g.units) /\ \A u \in g.units : NodeOf[u] \in Nat
                         /\ IsFiniteSet(g.edges) /\ \A e \in g.edges : e.id \in Nat
                         /\ \A e, f \in g.edges : e.id = f.id => e = f
ASSUME BoundsAssumption ==
    /\ MaxVersions \in Nat \ {0}
    /\ NoEvaluation \notin [planes : SUBSET AllPlanes, units : Nat, members : Nat, edges : Nat]

VARIABLES
    versions,   \* the graph after each commit, the last one is in the database
    exceptions,
    copies,     \* the exception an operator's request has loaded
    late,       \* the expiry dates of exceptions have come
    cache,      \* evaluations by graph revision
    requests,   \* what is requested, [kind, scope]
    step,       \* the next query of each request
    asked,      \* the version whose fabric, and revision, the request has loaded
    reads,      \* the versions the queries of its evaluation saw
    listed,     \* the exceptions that were active for its findings,
    reviewed,   \* and for its review of exceptions
    answered    \* the version at its last query

graph == <<versions, requests>>
policy == <<exceptions, copies, late>>
progress == <<step, asked, reads, listed, reviewed, answered>>
vars == <<graph, policy, cache, progress>>

Exceptions == DOMAIN exceptions
Requests == DOMAIN requests
Now == Len(versions)
Build(v) == versions[v].build
Version(b, g) == [build |-> b, units |-> g.units, edges |-> g.edges, planes |-> g.planes]

-----------------------------------------------------------------------------
(* What the queries of an evaluation return *)

Unit(b, u) == Ref("attachmentunit", b, u)
UnitsAt(v) == {Unit(Build(v), u) : u \in versions[v].units}
\* Mutant: units are known by their place in the plant.
MembershipsByPlace(v, U, S) ==
    [u \in U |-> {p \in S : p.build = Build(v) /\ u.id \in versions[v].units /\ p.number \in versions[v].planes[u.id]}]
\* The memberships of the units that were read, in planes that were read.
MembershipsAt(v, U, S) ==
    [u \in U |-> IF u.build = Build(v) THEN {p \in S : p.build = Build(v) /\ p.number \in versions[v].planes[u.id]} ELSE {}]
EdgesAt(v) ==
    {[edge |-> Ref("fineedge", Build(v), e.id), parent |-> Ref("coarseedge", Build(v), e.parent),
      a |-> Unit(Build(v), e.a), b |-> Unit(Build(v), e.b)] : e \in versions[v].edges}
PlanesAt(v, S) == {Plane(Build(v), p) : p \in S}

EvidenceOf(ev) ==
    LET P == MembershipsAt(ev.members, UnitsAt(ev.units), ev.planes)
    IN  Shares(UnitsAt(ev.units), P) \cup Bridges(EdgesAt(ev.edges), P)

-----------------------------------------------------------------------------
NoException == [status |-> "none", active |-> FALSE, expires |-> "never", type |-> "",
                pair |-> {}, target |-> NoTarget, about |-> NoTarget]
Fresh(v) == [planes |-> AllPlanes, units |-> v, members |-> v, edges |-> v]

PolicyInit ==
    /\ versions \in {<<Version(1, g)>> : g \in Graphs}
    /\ \E s \in Scenarios : /\ requests = s.requests
                            /\ exceptions = [x \in s.exceptions |-> NoException]
    /\ copies = [o \in Operators |-> NoCopy]
    /\ late = FALSE
    /\ cache = [b \in 1..MaxVersions |-> NoEvaluation]
    /\ step = [r \in Requests |-> "idle"]
    /\ asked = [r \in Requests |-> 1]
    /\ reads = [r \in Requests |-> Fresh(1)]
    /\ listed = [r \in Requests |-> {}] /\ reviewed = [r \in Requests |-> {}]
    /\ answered = [r \in Requests |-> 1]

\* build_graph commits: planes and graph objects are new ones.
Rebuild(g) ==
    /\ Now < MaxVersions
    /\ versions' = Append(versions, Version(Build(Now) + 1, g))
    /\ exceptions' = [x \in Exceptions |-> [exceptions[x] EXCEPT !.pair = {}]]
    /\ UNCHANGED <<copies, late, cache, requests, progress>>

\* The matrix of units and planes: one membership is set or taken away, or
\* all those of a unit.  The revision of the graph stays.
Toggled(P) == {(P \cup {p}) \ (P \cap {p}) : p \in PlaneNumbers}
EditMemberships(u, S) ==
    /\ Now < MaxVersions
    /\ u \in versions[Now].units
    /\ S \in Toggled(versions[Now].planes[u]) \cup {PlaneNumbers, {}}
    /\ versions' = Append(versions, [versions[Now] EXCEPT !.planes[u] = S])
    /\ UNCHANGED <<policy, cache, requests, progress>>

-----------------------------------------------------------------------------
(* Exceptions *)

Passed(x) == x.expires = "past" \/ (x.expires = "soon" /\ late)
IsActive(x) == x.status = "approved" /\ x.active /\ ~Passed(x)
ActiveNow == {[type |-> x.type, pair |-> x.pair, target |-> x.target, about |-> x.about] :
                x \in {exceptions[i] : i \in {j \in Exceptions : IsActive(exceptions[j])}}}

\* The guided form has no field for the target, the REST API has.
RequestException(i, w) ==
    /\ exceptions[i].status = "none"
    /\ LET about == Ref(w.model, Build(Now), w.id)
       IN  exceptions' = [exceptions EXCEPT ![i] =
              [status |-> "draft", active |-> FALSE, expires |-> w.expires, type |-> w.type,
               pair |-> PlanesAt(Now, w.pair), target |-> IF w.via = "form" THEN NoTarget ELSE about,
               about |-> about]]
    /\ UNCHANGED <<graph, copies, late, cache, progress>>

LoadException(o, i) ==
    /\ copies[o] = NoCopy
    /\ exceptions[i].status # "none"
    /\ copies' = [copies EXCEPT ![o] = [id |-> i, row |-> exceptions[i]]]
    /\ UNCHANGED <<graph, exceptions, late, cache, progress>>

\* approve and reactivate do the same.
Approved(x) == [x EXCEPT !.status = "approved", !.active = TRUE, !.expires = IF Passed(x) THEN "never" ELSE @]
Expired(x) == [x EXCEPT !.status = "expired", !.active = FALSE, !.expires = IF Passed(x) THEN @ ELSE "past"]

\* The whole copy is saved; not if it names planes that were deleted since.
SaveException(o, row) ==
    /\ copies[o] # NoCopy
    /\ IF \A p \in row.pair : p.build = Build(Now)
       THEN exceptions' = [exceptions EXCEPT ![copies[o].id] = row]
       ELSE UNCHANGED exceptions
    /\ copies' = [copies EXCEPT ![o] = NoCopy]
    /\ UNCHANGED <<graph, late, cache, progress>>
Approve(o) == copies[o] # NoCopy /\ SaveException(o, Approved(copies[o].row))
Expire(o) == copies[o] # NoCopy /\ SaveException(o, Expired(copies[o].row))

DatesCome ==
    /\ ~late /\ \E x \in Exceptions : exceptions[x].expires = "soon"
    /\ late' = TRUE
    /\ UNCHANGED <<graph, exceptions, copies, cache, progress>>

-----------------------------------------------------------------------------
(* Evaluations *)

Go(r, from, to) == step[r] = from /\ step' = [step EXCEPT ![r] = to]

\* The page loads the fabric, and with it the revision of its graph.
LoadFabric(r) ==
    /\ Go(r, "idle", CASE requests[r].kind = "audit" -> "planes"
                       [] requests[r].kind = "dashboard" -> "cache"
                       [] OTHER -> "units")
    /\ asked' = [asked EXCEPT ![r] = Now]
    /\ reads' = [reads EXCEPT ![r] = Fresh(Now)]
    /\ UNCHANGED <<graph, policy, cache, listed, reviewed, answered>>

Revision(r) == Build(asked[r])
ReadCache(r) ==
    /\ IF cache[Revision(r)] # NoEvaluation
       THEN Go(r, "cache", "review") /\ reads' = [reads EXCEPT ![r] = cache[Revision(r)]]
       ELSE Go(r, "cache", "units") /\ UNCHANGED reads
    /\ UNCHANGED <<graph, policy, cache, asked, listed, reviewed, answered>>

Saw(r, evaluation) ==
    /\ reads' = [reads EXCEPT ![r] = evaluation]
    /\ UNCHANGED <<graph, policy, cache, asked, listed, reviewed, answered>>
\* A plane set names planes of the graph that was there when it was asked for.
ReadPlanes(r) ==
    /\ Go(r, "planes", "units")
    /\ Saw(r, [reads[r] EXCEPT !.planes = IF requests[r].scope = PlaneNumbers THEN PlanesAt(Now, PlaneNumbers)
                                         ELSE PlanesAt(asked[r], requests[r].scope)])
ReadUnits(r) == Go(r, "units", "members") /\ Saw(r, [reads[r] EXCEPT !.units = Now])
ReadMemberships(r) == Go(r, "members", "edges") /\ Saw(r, [reads[r] EXCEPT !.members = Now])
ReadEdges(r) == Go(r, "edges", "exceptions") /\ Saw(r, [reads[r] EXCEPT !.edges = Now])

\* The findings of an audit are complete with the exceptions.
ReadExceptions(r) ==
    /\ Go(r, "exceptions", CASE requests[r].kind = "audit" -> "done"
                             [] requests[r].kind = "dashboard" -> "store"
                             [] OTHER -> "review")
    /\ listed' = [listed EXCEPT ![r] = ActiveNow]
    /\ answered' = [answered EXCEPT ![r] = Now]
    /\ UNCHANGED <<graph, policy, cache, asked, reads, reviewed>>

\* Mutant: under the revision of a fabric that is loaded anew.
StoreUnderLatest(r) ==
    /\ Go(r, "store", "review")
    /\ cache' = [cache EXCEPT ![Build(Now)] = reads[r]]
    /\ UNCHANGED <<graph, policy, asked, reads, listed, reviewed, answered>>
\* The findings of a cached evaluation are of no use to the dashboard.
Store(r) ==
    /\ Go(r, "store", "review")
    /\ cache' = [cache EXCEPT ![Revision(r)] = reads[r]]
    /\ UNCHANGED <<graph, policy, asked, reads, listed, reviewed, answered>>

\* The exceptions are read again and matched with the domains.
Review(r) ==
    /\ Go(r, "review", "done")
    /\ reviewed' = [reviewed EXCEPT ![r] = ActiveNow]
    /\ answered' = [answered EXCEPT ![r] = Now]
    /\ UNCHANGED <<graph, policy, cache, asked, reads, listed>>

TimeOut(b) ==
    /\ cache[b] # NoEvaluation
    /\ cache' = [cache EXCEPT ![b] = NoEvaluation]
    /\ UNCHANGED <<graph, policy, progress>>

RequestStep(r) ==
    \/ LoadFabric(r) \/ ReadCache(r) \/ ReadPlanes(r) \/ ReadUnits(r) \/ ReadMemberships(r)
    \/ ReadEdges(r) \/ ReadExceptions(r) \/ Store(r) \/ Review(r)

PolicyNext ==
    \/ \E g \in Graphs : Rebuild(g)
    \/ \E e \in Edits : EditMemberships(e[1], e[2])
    \/ \E x \in Exceptions, w \in Wishes : RequestException(x, w)
    \/ \E o \in Operators, x \in Exceptions : LoadException(o, x)
    \/ \E o \in Operators : Approve(o) \/ Expire(o)
    \/ DatesCome
    \/ \E r \in Requests : RequestStep(r)
    \/ \E b \in 1..MaxVersions : TimeOut(b)

PolicySpec == PolicyInit /\ [][PolicyNext]_vars

-----------------------------------------------------------------------------
Statuses == {"none", "draft", "approved", "expired"}
Steps == {"idle", "cache", "planes", "units", "members", "edges", "exceptions", "store", "review", "done"}
Snapshots == [build : 1..MaxVersions, units : {g.units : g \in Graphs}, edges : {g.edges : g \in Graphs},
              planes : UNION {[g.units -> SUBSET PlaneNumbers] : g \in Graphs}]
Evaluations == [planes : SUBSET AllPlanes, units : 1..Now, members : 1..Now, edges : 1..Now]
\* Also, an exception is active exactly while it is approved, and names no
\* planes that are gone, whatever copies are saved (models.py:438-441,
\* policy_exceptions.py:57-102).
PolicyTypeOK ==
    /\ versions \in Seq(Snapshots) /\ Now \in 1..MaxVersions
    /\ \A v \in 1..Now : Build(v) \in 1..v
    /\ \A x \in Exceptions : /\ exceptions[x].status \in Statuses
                             /\ exceptions[x].active <=> exceptions[x].status = "approved"
                             /\ \A p \in exceptions[x].pair : p.build = Build(Now)
    /\ step \in [Requests -> Steps]
    /\ asked \in [Requests -> 1..Now] /\ answered \in [Requests -> 1..Now]
    /\ reads \in [Requests -> Evaluations]
    /\ cache \in [1..MaxVersions -> Evaluations \cup {NoEvaluation}]

Done(r) == step[r] = "done"
\* What the graph of version v says, in the planes S.
Of(v, S) == [Fresh(v) EXCEPT !.planes = PlanesAt(v, S)]
SharesOf(v, S) == {e \in EvidenceOf(Of(v, S)) : e.rule = "shared_passive_artifact"}

\* However rebuilds and edits fall between the queries, an evaluation reports
\* all that one version of the graph says, or only its shared artifacts, or
\* nothing: never evidence that no graph gave (policy_evaluator.py:132-226).
EvidenceOfOneGraph ==
    \A r \in Requests : Done(r) =>
        LET evidence == EvidenceOf(reads[r])
            S == requests[r].scope
        IN  evidence = {} \/ \E v \in 1..Now : evidence \in {EvidenceOf(Of(v, S)), SharesOf(v, S)}

\* A request during which the graph does not change reports this graph, also
\* from the cache and whatever other requests store there meanwhile, unless
\* memberships were edited since the build (policy_reporting.py:76-111).
Edited(v) == v > 1 /\ Build(v) = Build(v - 1)
ReportIsCurrent ==
    \A r \in Requests : Done(r) /\ answered[r] = asked[r] /\ ~Edited(asked[r]) =>
        EvidenceOf(reads[r]) = EvidenceOf(Of(asked[r], requests[r].scope))

\* What every set of evidence that leaves no connection out has with an item.
ClosedUnder(B, evidence) == \A e \in B, f \in evidence : Connected(e, f) => f \in B
ComponentOf(e, evidence) == {f \in evidence : \A B \in SUBSET evidence : e \in B /\ ClosedUnder(B, evidence) => f \in B}

\* Contamination domains are what the evidence is connected in, in whatever
\* order it is joined (contamination.py:87-119).
DomainsAreComponents ==
    \A r \in Requests : Done(r) =>
        LET evidence == EvidenceOf(reads[r])
        IN  Domains(evidence) = {ComponentOf(e, evidence) : e \in evidence}

\* The findings and the review of exceptions agree: an exception that covers
\* a finding is not reported as drifted (policy_exceptions.py:112-157, 179-195).
CoverageAgrees ==
    \A r \in Requests : Done(r) /\ requests[r].kind = "review" =>
        \A x \in listed[r] \cap reviewed[r] :
            LET evidence == EvidenceOf(reads[r])
                domains == Domains(evidence)
            IN  (\E d \in domains, e \in evidence : e \in d /\ Covers(x, e, d)) => x \notin Drifted(reviewed[r], domains)
=============================================================================

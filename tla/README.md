# Verification of netbox_plant_graph

TLA+ specifications of the NetBox plugin `netbox_plant_graph` (multi-planar fabrics), the TLC
configurations that model-check them, and theorems about them that TLAPS checks. Paths below are
relative to `src/netbox_plant_graph/` unless they start with `docs/`.

## 1. The system

The plugin is a Django application inside NetBox. All of its state is in PostgreSQL tables. Three
kinds of process change it at the same time: web requests (`views.py`), REST requests
(`api/views.py`) and background jobs (`jobs.py`). Nothing takes row locks by hand
(`select_for_update` occurs nowhere), requests are not wrapped in transactions, and only seven
places open one (`transaction.atomic`): the persistent audit, plan execution and rollback, the
graph build, and the stamp services. Everything else is a sequence of autocommitted statements on
copies of rows that were loaded earlier.

| Component | State | Operations | What makes it correct |
|---|---|---|---|
| Finding triage (`services/graph/finding_state.py`) | `AuditFinding.status/active/resolved_at`, `AuditFindingEvent` | acknowledge, start remediation, resolve, reopen | columns never contradict each other; the trail tells the status |
| Suppressions (`suppressions.py`) | `AuditSuppression.active/expires_at`, the finding | suppress, unsuppress, expire | suppressed findings have a suppression; suppressions end |
| Persistent audit (`persistent_audits.py`, `finding_fingerprints.py`) | `AuditRun`, findings, events | begin a run, evaluate, reconcile in one transaction, fail | findings mirror the evaluation, triage survives, one row per fingerprint, a failed run changes nothing |
| Retention (`retention.py`) | suppressions, events, runs | expire, prune events, prune runs | runs that active findings name are kept |
| Plan execution (`services/plan_execution.py`) | `DeploymentPlan.status`, `StampRecord`, the created objects | execute, roll back, add records, set the status | all or nothing; records and objects agree; a plan is not left claimed |
| Stamp services (`assembly_stamp.py`, `rack_population_stamp.py`, `spatial_stamp.py`, `stamp_preview.py`) | NetBox objects, placements, records | stamp a cable, a device, a rack, a template, a breakout; preview | names, ports, mappings and connections follow the template |
| Graph rebuild (`services/sync/rebuilder.py`, `graph_builder.py`) | `GraphBuildRun`, the graph tables | rebuild (full, scoped, dry run) | one generation at a time; a failed build leaves the old graph |
| Extraction, transformation (`extractor.py`, `transformer.py`, `services/netbox/`) | none | read DCIM objects; derive nodes, units, lanes, edges, planes | plane propagation independent of order; lanes match mappings |
| Unresolved summaries (`unresolved_*.py`) | `UnresolvedStateSummary`, `UnresolvedStateObservation` | synchronise with a build | summaries mirror the last full build |
| Disjointness policy (`policy_*.py`, `contamination.py`) | `DisjointnessException`, the report cache | approve, expire, reactivate, evaluate, review | an evaluation is of one graph; findings and review agree on what is covered |
| Plane audit (`audits.py`, `health.py`) | none | evaluate the findings of a fabric | what a build could not derive is named; a healthy fabric is complete |
| Path resolver (`resolver.py`, `resolution.py`, `traversal.py`, `blast_radius.py`) | none | adjacency, breadth-first paths, blast radius | a shortest path if one is within the limit; the answer is of one graph |
| Lanes (`lane_*.py`, `compare.py`) | none | lane sets, allocation, comparison, workspace | agree with the graph they project |
| Floorplan bridge (`floorplan_bridge.py`) | canvas of the floorplan plugin, placements | sync, reconcile, manual override | manual overrides survive; coordinates do not creep |
| Reporting (`*_reporting.py`, `payloads.py`, `finding_details.py`) | caches | aggregate | a cached report is of the graph it is shown for |
| Views, API, GraphQL, registry, forms | none | render, serialise | plumbing |

How they interact: an execution of a plan creates NetBox objects, then rebuilds the graph and runs
a persistent audit (`plan_execution.py:131-146`). A rebuild deletes the graph objects of the fabric
and creates them under new primary keys, which nulls or dangles the references of findings,
summaries and exceptions. An audit reads the graph, the policies and the unresolved summaries and
writes findings; operators and the retention job write the same findings. Retention deletes runs
that findings refer to.

What is hard here is the interleaving of these processes on stale copies, commits in the middle of
an operation, objects that change identity, and operations that fail or die half way.
`PROJECT.json` lists the hazards at their lines, with the properties that cover each.

## 2. The modules

| Module | What it models |
|---|---|
| `AuditWorkflow` | triage, suppressions, persistent audits and retention over the tables they share |
| `FindingLedger` | what that workflow promises about a finding; `AuditWorkflow` implements it |
| `AuditWorkflowProofs` | theorems about `AuditWorkflow`, in general and for one worker process, and the refinement of `FindingLedger` |
| `DeploymentPlan` | one plan with its stamp records: building, executions, rollbacks |
| `DeploymentPlanProofs` | theorems about `DeploymentPlan` |
| `GraphRebuild` | rebuilds of the graph of a fabric and the synchronisation of its unresolved-state summaries |
| `GraphRebuildProofs` | theorems about `GraphRebuild` |
| `PlanePropagation` | the walk that spreads planes over connected units |
| `PlantTransform` | what a graph build derives from cables, profiles, templates and paths; EXTENDS `PlanePropagation` |
| `PlantDiagnostics` | what the audit, the candidates and the health page say of that graph; EXTENDS `PlantTransform` |
| `LaneViews`, `LaneWorkspace` | lane sets, comparisons and the lane workspace of that graph |
| `PlantTransformProofs` | theorems about the walk and about the graph that is built of any plant |
| `PlantViewsProofs` | theorems about the lane pages of that graph |
| `AssemblyTemplates` | cable assembly and passive module templates: validation, the template builder, what a stamp makes of them |
| `PathSearch` | the breadth-first search |
| `PathResolver` | requests for paths and blast radii, query by query, between rebuilds; EXTENDS `PathSearch` |
| `PathResolverProofs` | theorems about the search and about the answers of a request |
| `PolicyEvidence` | evidence, contamination domains and matching of exceptions as functions of what was read |
| `PolicyReview`, `PolicyReviewProofs` | evaluations, the report cache and the life of exceptions between rebuilds and edits, and theorems about them |
| `CanvasCoordinates` | a coordinate on its way to the canvas and back |
| `StampTemplates` | what a spatial stamp, a rack population and a breakout make, as transactions on a database |
| `StampLayout` | stamps, floorplan synchronisation, reconciliation, the canvas editor and bulk breakouts side by side |
| `StampLayoutProofs` | theorems about coordinates, stamps, canvases and breakouts |
| `MC...` | instances, inputs and symmetry sets of the model-checking runs |

### AuditWorkflow

The tables are the variables `findings`, `sups`, `runs` and `trail` (the `new_status` of the newest
event of a finding). A row is named by its fingerprint and a copy number, because nothing in the
database keeps two rows from having the same fingerprint. A row that does not exist has status
`"none"`. Of a finding the model keeps the columns on which some handler decides: `status`,
`active`, whether `resolved_at` is set, `first_seen_run` and `last_seen_run`. A suppression is
`live`, `due` (past `expires_at`) or `off`.

A handler in flight is a record in `req`, `aud` or `ret` with a program counter and exactly the
copies the Python function holds in its local variables. One action is one SQL statement, or
several between which nothing of the model is read or written:

| Code | Actions |
|---|---|
| `finding_state.py:31-106` | `LoadForTriage` (the view's `get_object_or_404` and the early returns), `SaveTriage` (a save of *all* columns of the copy), `RecordEvent` |
| `suppress_audit_finding` | `LoadToSuppress`, `LookupToSuppress`, `CreateSuppression`, `SaveSuppressed` (two columns), `RecordEvent` |
| `unsuppress_audit_finding` | `LoadToUnsuppress`, `LookupToUnsuppress`, `DeactivateSuppression`, `SaveUnsuppressed` (one column, if the copy is active), `RecordEvent` |
| `run_persistent_plane_audit` | `StartAudit`, `Evaluate`, then the transaction: `LoadFindings`, `RefreshFinding` per reported row, `CompleteAudit` (inserts, auto-resolutions, commit); `FailAudit` |
| `apply_audit_retention` | `StartRetention`, then per due suppression `ExpireSuppression`, `ReopenExpired`, `RecordExpiry`; `CollectActiveRuns`, `PruneEvents`, `PruneRuns` |

Writes of an open audit transaction are kept in `aud[a].copies` and become visible at the commit;
the rows it has updated are locked (`Locked`) against every other update, so that a handler that
wants to save one waits, and two audits can deadlock, in which case the database aborts one
(`Aborted`). A save of all columns writes the foreign keys of the copy too; if retention has
deleted the run in between, the save is rejected (`ReferencesKept`, `RejectTriage`).
A suppression is looked up again for each row inside the loop, as in the code.

The environment changes the plant (`world`, the set of problems `run_plane_audit` would report),
rebuilds the graph (`gen`, on which the fingerprints of `GraphProblems` depend), lets suppressions
come due and runs grow old.

`MaxFaults` bounds how often a process dies between two statements or a statement raises. A request
that dies leaves what it has committed. An audit that raises marks its run failed and keeps nothing;
one whose worker dies leaves its run `running`.

`Overlap` says whether two handlers can be in flight at once. `Overlap = FALSE` is a deployment with
one worker process; several properties hold only then, and section 5 says
what happens otherwise.

### FindingLedger

The abstract specification: a status and a mute per finding, the set of completed runs, and one
step per effect. Operators may do much to a finding; the step that completes a run may only do what
an audit promises, to all findings at once. The refinement mapping takes the status of a row,
whether it has an active suppression, and the runs whose status is completed. Each statement of a
handler is one step of the ledger or a stutter.

### DeploymentPlan

`plan` is the status, `stamps` the records, `objects` the sites, locations, racks, devices and cables
that stand, `inventory` the type of each object there ever was and the places it is in. The constant
`Inventory` is what NetBox holds at first; a stamp adds an object named after its record and the
number of times (`made`) that record has created one, because primary keys are not reused. A record
refers to an object (`subject`, from its parameters) and after its stamp to a result; several records
may name one object, also one that another record of the plan has created. The kinds are those of
`_dispatch_record`: a spatial template (creates racks; result: the scope), a rack population (creates
devices; result: the rack), a breakout (result: the device it is applied to), an assembly (passive
device or cable; result: what it created), templates that put nothing into their place (`vacant`),
and records without a dispatch payload (`none`).

| Code | Actions |
|---|---|
| stamp wizards, `POST .../stamp/` | `AddToPlan` (pending), `StampUnderPlan` (stamped at once) |
| plan form and API | `SetStatus` |
| `execute_plan` | `LoadToExecute`, `MarkStamping`, `ListPending`, the transaction: `StampNext` per record and `CommitExecution`; on an exception `RaiseInStamp`, `PlaceIsGone` or `RaiseAtCommit`, `MarkFailed`, `BackToDraft` |
| `rollback_plan` | `LoadToRollBack`, `ListStamped`, `RollBack` (the transaction) |
| killed workers | `ExecutionDies`, `RollbackDies` |

Any stamp may raise (`RaiseInStamp`): templates, profiles and arguments are not modelled.
A stamp can only succeed if what it refers to exists and what it creates does not (`CanStamp`).
PostgreSQL checks foreign keys at the commit: an execution that has put something into a place which a
rollback has deleted meanwhile fails there (`PlaceIsGone`), while a breakout whose child interfaces
all existed creates nothing and commits. A rollback deletes by primary key, in the reverse order of
the records and whoever else names the objects (`Deletes`). NetBox refuses to delete a rack or a
location with devices in it, and a site with racks or devices, unless records later in the order have
deleted them before; the locations in a scope go with it.

### GraphRebuild

The plant is a set of segments, of which `present` are in NetBox and `unresolved` have their problem
while they are there; a segment also stands for the fingerprint of that problem. `settings` are the
columns of the `Fabric` that `build_graph` writes: is a site set, is the policy not the default.
`graph` is what the graph tables of the fabric hold, `summaries`, `observations` and `runs` are the
tables of those names. `handlers` has one record per execution of `rebuild_graph`, with the local
variables of the functions it is in.

| Code | Actions |
|---|---|
| `_initial_build_run` | `StartBuild`: the run is created and classified (`Comparable`), the fabric is the copy its caller loaded (`Loaded`) |
| `extract_source_bundle`, `transform_source_bundle` | `Extract` |
| `build_graph` | `BuildGraph`: one transaction; the first statement locks the row of the fabric, so two of them exclude one another |
| `collect_unresolved_candidates` | `CollectCandidates`; some candidates are read off NetBox, orphaned units off the graph (`OrphanSegments`) |
| `sync_unresolved_state` | `LoadSummaries`, per candidate `SaveSummary` and `Observe`, then `ListStale`, `ResolveStale` per stale summary, `StaleDone` |
| the end of `rebuild_graph` | `CompleteBuild`, or `FailBuild` after `SaveRefused` (unique constraint) or `BuildRaises`; `BuildDies` leaves the run running |

Only a comparable run synchronises, and only if the plugin setting asks for it (`AfterBuild`).
`history` notes for each rebuild in flight whether another ran beside it, whether anything was
edited, and which segments were without a problem for a moment. No guard reads it.

The model has no lock between rebuilds because the code has none: what `SummariesMatchPlant`,
`OnlyClearedAreResolved` and `ReopeningsAreCounted` claim, they claim of a rebuild that runs alone,
over a past in which rebuilds of every scope overlapped, failed and died; `CompletedRunObserved`
is claimed of all.

### PlanePropagation, PlantTransform, PlantDiagnostics

One build of one plant. `plant` is what the extractor hands over: terminations with their cable,
plug, positions, planes and child interfaces; port mappings; cables with their profile in NetBox,
their plugin breakout and the mappings of their assembly template; cable paths; and whether the
plugin materialises lanes. A termination is a kind and a primary key, because the three tables count
their keys separately, and the plugin looks children up by key alone in some places.

| Code (`services/sync/transformer.py`) | Actions and operators |
|---|---|
| `_iter_attachment_positions`, `_child_interface_sort_key`, `_seed_lane_count` | `Positions`, `OwnUnits`, `ChildUnits`, `SeedLanes` |
| `_record_plane_memberships` | `RecordMemberships` |
| the loop over cable paths of `transform_source_bundle` (lines 540-781) | `WalkPath` per path, in any order; `CableEdges` |
| `_propagate_plane_memberships` | `BeginPropagation`, then `StartComponent`, `Visit`, `SpreadPlanes`, `FinishPropagation` |
| `_materialize_signal_lane_inputs` | `MaterializeLanes` |
| `build_graph` | `BuildGraph`: the graph is there, or a key without its unit refuses all of it (`"refused"`) |

`_propagate_plane_memberships` walks Python sets and dictionaries, whose order is that of hashes; the
model takes the next unit nondeterministically, and `PropagationExact` compares the result with
connectivity defined without a walk (every closed set of units that has one has the other).

`Findings`, `Candidates` and `FabricHealth` are functions of a plant and its graph. They do not
copy from `PlantTransform` what the code does not share: `audits.py` and
`unresolved_candidates.py` read cables and profiles again and decide by their own rules which
positions should have been mapped, and the properties relate the two.

### LaneViews, LaneWorkspace

`LaneSet` takes the units of a unit, an interface, a coarse edge or a plane; `Reviews`, `RegressedMetrics` and `Regressions` compare two of them. The
workspace is a function of a lane set and a query (grouping, group, mode, lane, plane); its links
are functions from queries to queries, and the property follows each link of each workspace.

### AssemblyTemplates

A template is its connectors and mappings. `IsAssembly` is what the models accept;
`ToggleMapping`, `ApplyPreset`, `AddConnector` and `RemoveConnector` are the actions of the template
builder, and `MCPlantTransform` checks by ASSUME that five of them never leave a template the models
would refuse, then builds graphs of plants with cables and modules that were stamped from such
templates (`StampedPositions`, `StampedMappings`, `AssemblyLookup`).

### PathSearch, PathResolver

`PathSearch` is the loop that four functions share: `queue`, `distance`, `parent`, any order of
neighbours, with an optional set of destinations and a depth limit. `PathResolver` makes a request
of it. A graph object carries the number of the build that made it; `graphs` has the graph of each
build. Each query of `resolver.py` and `blast_radius.py` is one action (`FindSources`, `FindDestinations`,
`ReadScope`, `ReadPlane`, `ReadEdges`, `ReadMaps`, the search, `LoadNodes`, `ReadPlanes`), and `Rebuild` may commit
between any two. What a query looks up by primary key is gone if a rebuild came between; what it
looks up by its NetBox object is there in a new build.

### PolicyEvidence, PolicyReview

Evidence is a record of the rule that found it, the planes it joins and the objects it is about;
`Domains` joins evidence into domains in the order of the code's two loops (`JoinAll`, `JoinRow`), and the reference is
the component of an item, what every set of evidence that leaves no connection out has with it (`ComponentOf`). `PolicyReview` has `versions` of the graph: a rebuild makes a new build, an edit of memberships a
new version of the same build, and only the former changes the revision under which the
dashboard's report is cached (`LoadFabric`, `ReadCache`, `Store`). An evaluation remembers which
version each of its queries saw (`reads`), and its evidence is computed from that. Exceptions are
rows and copies of rows: a view loads one, another saves it whole.

### StampTemplates, StampLayout, CanvasCoordinates

A database is a record of places, racks, devices and cables; a stamp runs over the instances of the
nodes of its template, in the order in which the code descends into them (`Visits`), and then over its
connections, and returns the next database or fails as a whole (`Chain`). Names are sequences of the
numbers that a pattern's tokens stand for, so that two instances have one name exactly if their
pattern leaves out what tells them apart, which is where NetBox's unique constraints and the
registry of instances bite. `StampLayout` runs these transactions beside what commits statement by
statement:

| Code | Actions |
|---|---|
| `stamp_spatial_template` | `Stamp`; after its commit `DrawStamped` and `SaveDrawing` per scope (`sync_rack_placements_to_floorplan`) |
| `reconcile_floorplan_to_placements` | `Reconcile`, `ReconcileObject` per object, `ReconcileDone` |
| `bulk_apply_breakout`, `create_child_interfaces_from_breakout_spec` | `BreakOut`, `ReadDevice`, `CreateChild` per statement, `BreakoutDone` |
| the editor of the floorplan plugin (external) | `OpenEditor`, `SaveEdit` |
| an exception, a killed worker, a closed page | `Abandon` |

Coordinates are exact: placements hold thousandths of a metre, a foot or a rack unit, the canvas
hundredths of a pixel, and `Nearest` is the set of roundings that a half-way value may get from
floating point.

## 3. What is checked

Passing runs. Each property below is checked over the complete state space of the instance.

| Run | Instance | Properties |
|---|---|---|
| `AuditSerial` | one worker; 1 operator, 1 audit, 1 retention slot; 1 problem, 3 runs, 2 rows, 2 faults | `ImplementsLedger`; `OneRowPerFingerprint`; `AuditMirrorsEvaluation`; `AuditPreservesTriage`; `ActiveRunsKept` |
| `AuditReliable` | one worker without faults; 2 suppressions, 2 runs and a rebuild that changes the fingerprint; fairness | `SuppressedHasSuppression`; `TrailIsCurrent`; `SuppressionEnds` |
| `AuditRace` | two audits, an operator and a retention job in every interleaving; 1 row, 2 runs | `RowConsistent`; `ReportedIsActive` |
| `RebuildSummaries` | three rebuilds, two at a time: global, of the fabric, of a site; 2 segments, 1 edit, 1 fault | `SummariesMatchPlant`; `OnlyClearedAreResolved`; `CompletedRunObserved`; `ReopeningsAreCounted`; `RebuildKeepsSettings` |
| `PlanSerial` | one worker; 3 records of every kind, which may share what they name, in a site with an empty room; 2 faults | `MadeIsOnRecord`; `ExecutesAllPending`; `RollbackReachesAll` |
| `PlanInterleaved` | two executions and a rollback in every interleaving; 2 records (rack population, breakout, assembly) of one rack and its device, or of what the other creates; fairness | `StampedHasResult`; `StampingEnds` |
| `GraphTransform` | 82 plants of two or three interfaces or ports, some with children, joined directly, through a shuffle module, through two panels or a panel of two positions; every order of paths and walks | `PropagationExact`; `EdgesOrderFree`; `LanesRunThrough`; `NothingLostSilently`; `HealthyIsComplete`; `ConsistentMeansMapped`; `RegressionsHaveRows`; `LinksLeadToTheirGroup` |
| `PathQueries` | 3 graphs of up to 5 units and 2 lanes, two fabrics; 150 requests of five kinds; up to 2 rebuilds between any two queries | `SearchExact`; `AnswersOneGraph`; `AloneIsRight`; `PlaneKept` |
| `PolicyReview` | two dashboards, or a review with an exception, or two audits; 5 units, 3 planes, 2 graphs; 2 commits between any queries; 1 operator with a copy | `EvidenceOfOneGraph`; `ReportIsCurrent`; `DomainsAreComponents`; `CoverageAgrees` |
| `StampLayout` | two users, three operations of any kind interleaved or cut short, on a site with a drawn floorplan | `SyncKeepsCanvas`; `UnmovedStaysPut`; `BreakoutIsComplete`; `PlanesStayApart` |

Types are proved (section 4) where there are proofs, and not checked a second time.

What the newer properties show:

* `PropagationExact`, `EdgesOrderFree`: a graph is a function of the plant, whatever the order of sets, rows and
  cable paths, although planes are collected while the walk grows and the first edge with a key
  wins; with a breakout profile of one child only the topology is (section 5). `LanesRunThrough`: lanes never break off between connected units.
* `NothingLostSilently`: what a build cannot place is found again by the audit and by the
  candidates, which read the cables by rules of their own. It is claimed of a termination over whose cable paths lead to each
  of its peers (`Walked`), and where the code is not known to overlook positions (`MayOverlook`, section 5).
  `HealthyIsComplete`: the health page does not call a fabric healthy that lost something.
* `ConsistentMeansMapped`, `RegressionsHaveRows`, `LinksLeadToTheirGroup`: the lane pages, which read
  profiles once more, add totals up and link to each other with filters, do not contradict the
  graph or themselves.
* `SearchExact`, `AloneIsRight`, `PlaneKept`: paths are shortest, within the limit and in the plane.
  `AnswersOneGraph`: a rebuild between two queries makes an answer empty or an error, never a mixture.
* `EvidenceOfOneGraph`, `ReportIsCurrent`: the same of policy evaluations and of the cache.
  `DomainsAreComponents`: the union-find gives components. `CoverageAgrees`: the two functions that match
  exceptions to findings, one per finding and one per exception, never disagree about drift.
* `SyncKeepsCanvas`, `UnmovedStaysPut`: a synchronisation whose canvas nobody wrote since it was read (the rest is in
  section 5) leaves other objects and pinned racks where they are, and
  no round trip moves a rack. `BreakoutIsComplete`: repeated runs complete what a run that was cut
  short has left. `PlanesStayApart`: one-to-one connections stay within an instance and a plane.

Violation runs. Each checks one statement that the repository makes about itself, and TLC finds the
behaviour of the code that contradicts it.

| Run | Statement | What happens |
|---|---|---|
| `RebuildRefresh` | the refresh job refreshes a scoped portion of the graph (`jobs.py:21`) | a refresh of a site deletes the graph of everything outside it |
| `RefusedPassage` | a transfer map for every position that a passive device passes through (`docs/data_model.md:470-476`) | a front port has a unit for its first position only; a mapping of its second makes the build of the whole graph fail |

Bounds, and why they are enough. One problem is enough for the properties of a single finding,
because handlers treat findings independently. What relates two rows, audits that lock them in
different orders or insert the same fingerprint twice, is not in the instance of `AuditRace`: with
a second row and the retention job it is several times too large. The theorems of section 4 cover
it for the same properties. The problem of
`AuditReliable` is about a graph object, so that a rebuild gives it a second row; that of the other
two is not, and three runs let a finding be opened, absent and reported again, with retention
pruning the run in between. In `AuditReliable` two suppressions of one finding let one be due while
another is created. Three records are the smallest plan in which one record is done, one fails and one is not
reached. Two faults allow a crash and another one while recovering. In `PlanSerial` three records can fill the
room with a rack, the rack with a device, and name each type of object, so that deletions succeed, take a
location along, or are refused; in `PlanInterleaved`, where a rack and its device are there from the
start, two records are enough for one that is listed and one that shares its device.

Three rebuilds are the smallest history in which two overlap, or one leaves a mess, and a third
cleans up. Two segments, one inside the site and one outside, one of them with a problem that is
read off the graph, tell the scopes and the two sources of candidates apart. The run starts from a
fabric with the default settings and from one with a site and a policy. The builds of an instance
are used up at some point, hence `CHECK_DEADLOCK FALSE` in its two runs.

`GraphTransform` takes one representative of each way to place a position: a profile of NetBox (one to
one, fanned out, crossed), a plugin breakout (sequential, explicit, incomplete), an assembly stamped
from a template with each preset, the fallback to single positions, and none of them; with child
interfaces on neither, one or both sides, in matching and other numbers; cables that leave the
scope or end at nothing; a breakout of one child, of fewer children than it leads to, read from the side of the
ports, and beside a template; keys of different tables that collide; two paths over one cable; a loop of panels; planes
that agree, clash or are missing. Two positions tell a position from its neighbour and three show a
gap. `PathQueries` has a line, a loop with a branch and a graph split over two fabrics: the shortest
path is not the only one, the limit cuts between two nodes at different depths, and an object is in
another plane or fabric than the one asked for. Two commits between queries are the smallest number after which a
key may be missing twice. In `PolicyReview` two modules that carry both planes give two pieces of
shared evidence and bridges that join them in one domain; a third plane makes an exception for a
pair differ from one for all. `StampLayout` has three operations: two that overlap and one that
meets what they left. Its templates have two instances and two planes, parents, letters that run
out, a variable that is no number, and names that clash.

The bounds are guards marked `bound` in the modules. `CompleteAudit` is blocked when `MaxCopies`
rows are used up; the proofs hold for every value.

Fairness, only in the two runs with a liveness property. A handler that has started takes its next
step (weak fairness on its steps): the interpreter runs on. A transaction the database aborts is
failed. A suppression reaches its expiry time: every call of `suppress_audit_finding` from a view
or the API leads to an `expires_at`, by default in seven days. A retention job is started again and
again; with one worker it is enabled only while the worker is free, hence strong fairness, which
the job queue justifies: it is first in, first out. Nothing is assumed about operators, audits or
rebuilds. In `PlanInterleaved` a handler may choose to raise, and that suffices: both outcomes
leave `stamping`.

## 4. What is proved

For every number of processes, problems, rows, runs, records and faults, every plant, every graph:

* `AuditWorkflowProofs`, with any overlap of handlers: `TypeCorrect`, `RowsConsistent` and `ReportedStaysActive`.
  `RowConsistent` is not inductive: a handler writes back a
  copy it took long ago. The invariant `IInv` adds that the copies which are saved whole, an
  operator's and those of an audit transaction, are consistent themselves (`RequestsConsistent`,
  `AuditsConsistent`); that rows with a handler in flight exist (`JoinedExist`); and that what a
  transaction has saved is active and what it has saved or has still to do covers every reported
  fingerprint with a loaded row (`AuditsCover`). Saves of some columns need nothing of their copy:
  setting the status to open, or to suppressed together with active, keeps any row consistent.
  `ReportedIsActive` follows from the same invariant: what an audit has saved is active, and for a
  fingerprint without a loaded row one is inserted (`SomeInserted`).
* The same module, for one worker (`ASSUME ~Overlap`): `SerialOneRow`, `SerialAuditMirrors`,
  `SerialAuditPreserves`, `SerialActiveRunsKept`, with any number of faults. The invariant `SInv` says
  that a handler in flight is alone (`OneAtATime`) and that what it has read is therefore
  what the tables hold (`NothingStale`, one predicate per kind of handler and program counter), and of
  the tables that a fingerprint has one row and a row one live suppression at most (`SerialTables`). Faults
  do not disturb it, because a handler that died reads nothing any more.
  `SerialRefinement` is the refinement of `FindingLedger`: each statement of a handler maps to the step of the ledger
  that its row of the table in section 2 suggests or to a stutter, and the commit of an audit, one statement for many rows,
  to the one step in which the ledger completes a run. `ReliableSuppression` and `ReliableTrail` also assume
  `MaxFaults = 0`: every row is `Settled`, that is, its status agrees with its suppression and its
  trail unless the handler in flight is just about to make them agree.
* `GraphRebuildProofs`: `TypeCorrect`, and each property of `RebuildSummaries`
  (`ObservedByCompletedRuns`, `SummariesMatch`, `OnlyCleared`, `Reopened`, `KeepsSettings`), with any
  number and overlap of rebuilds, edits and faults. The properties speak of the end of a rebuild;
  the invariant `IInv` says how far each rebuild in flight has come: which candidates it has
  observed (`ObservationsFollow`), that what it has read is what the plant is unless something was
  edited (`ReadIsCurrent`), that what it has not found was without a problem at some moment or is
  outside its site (`ClearedIsCurrent`, `MissingIsGone`), and that its copies and the rows it has
  saved are what the table holds while it is alone (`SummariesFollow`). Alone means that no other is
  in flight (`AloneIsAlone`), which is why a step of one rebuild owes nothing to what is claimed of
  another (`OthersKeep`).
* `DeploymentPlanProofs`: `TypeCorrect` and `StampedRecordsHaveResults` with any overlap of executions,
  rollbacks and faults, and any number of records that share what they name. That what a stamped
  record points at stands is not inductive: a list was taken and a record stamped long before the
  deletion. The invariant `PlanInv` adds that a record has as many objects as its stamps have created,
  the last of them its result (`Books`); that an execution carries along only records whose subject
  stands, or is named by another record (`Carried`: a rollback that has listed one of these waits for
  its row); and that whoever has an assembly's object as its result is on every list that holds the object
  (`Listed`). A rollback that takes away the subject of a record it does not roll back therefore has
  another record on its list that names it; an assembly's device is on a list only together with the
  assembly, and one that is stamped again has another device.
* The same module, for a deployment where handlers do not overlap (`ASSUME ~Overlap`):
  `SerialExecutesAll`, `SerialRollbackReachesAll`, `SerialMadeIsOnRecord`. At most one handler is in flight
  (`OneAtATime`) and the lists it took are still what the table holds (`ListsAreCurrent`).
* `PlantTransformProofs`, on the walk: `PropagationTypeCorrect` and `PlanesSpreadExactly`, for any units, cabling and planes. Within
  the walk of a component no unit is known to be connected with all others; the invariant has
  that they belong to the same closed sets (`CurrentAlike`), that the neighbours of visited units are
  in the walk (`ComponentLeads`), and that finished walks are closed and exact (`ProcessedClosed`,
  `ProcessedExact`). A walk that ends is then closed too, and a closed set of alike units is what each
  of them is connected with (`ClosedAlikeConnected`).
* The same module, on the whole transformation of any plant (`TransformSpec`): `TransformPlanesExact`;
  `TopologyOrderFree`, that the edges have the keys that walking every path would give, whichever came first, and
  `EdgesOrderFreeIfFlagsAgree`, that the edges themselves do where no two paths give one edge different flags
  (`FlagsAgree`; section 5 has the plant where they do); `LanesOfBuiltGraphs`. The
  invariant `TInv` relates the links to the edges and both to the paths walked so far (`LinksAdjacent`, `PathsWalked`),
  and lanes to the connectivity that the walk has found (`LanesMaterialized`): units that an edge joins
  are in one closed set, so they have the same number of lanes.
* `PlantViewsProofs`, for any plant: `LinksLeadThere`, `ConsistentSetsAreMapped`, `RegressionsAreExplained`. To `TInv` it adds
  that lanes are counted per closed set (`LanesCounted`) and that a unit is named by its termination and
  ordinal (`UnitsBuilt`). The totals of a lane set are folds; `TotalCounts` shows each to be the
  cardinality of a set of pairs, so that totals that agree with none unmatched leave no lane out.
  `NoPositionLostSilently` and `HealthyFabricsAreComplete` show of any plant that the build on one side and audit and candidates on
  the other do not both miss a position. Each kind of cable has its argument. For a native profile, a
  position that the audit finds matched has a peer position; the walk over a path to that peer reads the same mapping
  (`CableStep`), so an edge ends at the unit (`NativeDerived`). For a plugin breakout the audit compares counts: as many children as
  the profile has positions, all counted, means that each position has its child (`ChildFound`, `PositionsCounted`), and the
  rank of a port among its peers is that of the position it serves (`PeerOfRank`, `BreakoutDerived`). Without a profile a cable that needs
  none has one termination on each side with one position each (`PlainDerived`). What is left is named. A healthy fabric has no findings
  that count as errors or warnings, so nothing in it is named, and what is not overlooked is derived.
* `PathResolverProofs`, on the search: `SearchTypeCorrect` and `SearchIsExact`, for any graph, depth limit and order of neighbours. Distances
  are those of walks on one side (`Labelled`) and shortest on the other, because the queue is in order of distance
  with at most two values in it and everything nearer than its head has been expanded.
* The same module, on requests with any number of rebuilds between their queries: `RequestSearchesAreExact`, `AnswersComeFromOneGraph`,
  `UndisturbedAnswersAreRight`, `PathsKeepThePlane`. The invariant `RInv` says of each query in
  terms of the build it saw what it returned (`SourcesRead`, `DestinationsRead`, `ScopeRead`); the keys that a search starts from are
  of the current build or of none (`Fresh`), which is why a rebuild can empty an answer but not mix two. Balls around the sources are recursive functions of
  the depth; that the search has the distances they define is shown from the least depth at which it would not.
* `PolicyReviewProofs`: `PolicyTypeCorrect`, `EvidenceComesFromOneGraph`, `ReportsAreCurrent`, `DomainsAreConnected` and
  `CoverageIsConsistent`, for any graphs, edits, exceptions and requests. The invariant says that a request has read what it
  reports since it asked and before it was answered (`RequestInOrder`), and that a cached evaluation
  was read since the build it is cached for (`CacheInOrder`); objects that a rebuild replaced are found by
  no later query. The domains are taken apart loop by loop: the table of parents is a forest of items with a depth each
  (`IsForest`), so that the way up ends at a root (`RootIsRoot`); a join gives one root to the items of two trees and leaves the
  others (`JoinMergesRoots`), so that after a row an item is under one root with all later ones it is connected with (`RowJoins`) and
  stays so; and only items that no set closed under connections tells apart are ever joined (`JoinSorts`). That evidence
  can be sorted (`InOrderLists`) needs that the objects of a build are told apart by their numbers.
* `StampLayoutProofs`: `EveryPlacementIsDrawn` and `RoundTrip`: every coordinate of every unit survives the two
  roundings, by linear arithmetic over the three scales.
* The same module, for any users, sites, templates, breakouts and edits: `LayoutTypeCorrect`, `StampsKeepTheCanvas`
  (of saves that no other write came between), `UnmovedPlacementsStay`, `BreakoutsEndComplete`. A stamp is several recursions inside one another; `Recursion` shows that such
  a recursion has a solution and `Steps` that what every step keeps the whole keeps, so that a committed stamp only adds to
  its tables (`StampAdds`), and `DrawRacksDraws` what drawing does to a canvas. That a rack ends up in one object needs that
  the canvas which was read has one at most, and the editor and other stamps write canvases too. The invariant
  `LInv` therefore speaks of all canvases and of all copies that may still be saved (`Documents`): none names a rack that the
  database does not have (`RacksAreKnown`), so that a new rack is on none of them, and a rack that is still to be drawn is in
  one object at most of each (`DrawnOnce`). Of a breakout it says that each device is complete or left to do (`BreakoutInOrder`):
  the interfaces were read before the first child, but interfaces that others add meanwhile are children, so what was worked
  out still covers what is missing (`PendingStays`).

The assumptions are the named ones of the modules: the bounds are natural numbers, `Overlap` is a
Boolean, graph problems are problems, kinds are known kinds, what NetBox holds at first is of a known type and is not what a stamp of the
plan creates (`InventoryAssumption`), segments of a site are segments, and a
rebuild that names a site is incremental (only the refresh job takes a scope other than a fabric);
maximal depths are natural numbers; graphs are finite and their units, nodes and edges have numbers; scenarios and graphs are of the shape that `PolicyReview` and `PathResolver`
name; plants are what the extractor can hand over (`PlantsAreExtracted`: positions and mappings belong to
terminations that are there and are numbered from 1, the plug of a termination is on side A or B, a child has one parent, a termination
has finitely many positions); planes are finitely many; there
are finitely many units; and the values that stand for no lane and no plane are neither. Templates, breakouts and sites are what NetBox and the
forms of the plugin let through (`RequestsAssumption`, `WorldsAssumption`): nodes are numbered parents first, two specs of a
breakout have two parents, two slots of a population are not in one place, and no canvas names a rack that the site does not have.

Only model-checked:

* `SuppressionEnds` and `StampingEnds`: the prover has no liveness rules and no `ENABLED`.
* `PlanesStayApart`: it needs which devices a stamp registers for each rack, in which order, where the theorems above need only
  that a stamp adds them.
The library's induction theorems take an operator as a parameter, which the provers cannot instantiate.
Where a proof needs induction over numbers or sets it takes the least number, or a minimal finite
subset, for which the claim fails, from a well-founded ordering; that reaches recursive functions and
folds over sets.

## 5. Known behaviour

What the code does that a reader may not expect. The properties are stated so that they hold of it.

Findings, plans and rebuilds:

* Two audits of a fabric that overlap insert two rows for one fingerprint
  (`persistent_audits.py:72-80,103`; `models.py:633` has an index, no constraint).
  `OneRowPerFingerprint` is claimed of one worker only.
* A retention job that dies between `suppressions.py:80` and `:85` leaves a finding suppressed
  without a suppression. No later retention finds it; an audit keeps its status.
  `SuppressedHasSuppression` and `SuppressionEnds` are claimed without faults.
* A failed record is never tried again: an execution takes pending records only, so a plan that is
  approved again becomes active with a failed record in it.
* Two executions can claim the same approved plan (`plan_execution.py:79-83`); unique constraints of
  NetBox make one of them fail. A breakout is stamped by both.
* A rollback lists its records before the transaction (`plan_execution.py:288`) and deletes their results by
  primary key (`:298`). A record that names the same scope, rack or device and is stamped between the two
  stays stamped, with its result gone; so does a breakout that a running execution has stamped but not
  committed, if all its interfaces existed. `StampedHasResult` leaves out what several records name (`Shared`) when handlers
  overlap, and never an assembly: what it points at is deleted only together with its record.
* The guided workflow's "preview stamp" and "execute stamp" execute the whole plan
  (`views.py:2043-2046`).
* An execution that dies after `plan_execution.py:83` leaves the plan in stamping, from which a
  rollback or an edit of its status takes it. `StampingEnds` is claimed without faults.
* A rebuild without a scope, which is what the full rebuild job and every executed plan start
  (`jobs.py:15`, `plan_execution.py:134`), gives the fabric named "Default Fabric" the default
  description, plane count, depth and policy and clears its site (`transformer.py:792-807`,
  `graph_builder.py:75-83`). What an operator changes in a fabric while a rebuild of it is under way
  is overwritten too. `RebuildKeepsSettings` excludes both.
* Of two overlapping rebuilds the one that extracted first may commit last; a partial one that
  commits before the other collects its candidates makes it resolve summaries outside the site.
  The next full rebuild that runs alone repairs both (`SummariesMatchPlant`).
* An audit that overlaps a triage undoes it (`persistent_audits.py:154`; without overlap it is kept, as
  `tests/test_resolver.py:272-284` has it): `AuditPreservesTriage` is claimed of one worker.
* After a rebuild a suppressed finding about a graph object is resolved and reported anew, because
  its fingerprint hashes a primary key (`finding_fingerprints.py:60`); `docs/data_model.md:550-551` says that it
  does not re-alert.
* Records are stamped in the order of their keys (`plan_execution.py:86`), not in the order of
  dependency of the docstring above. A rollback marks a record rolled back also when the deletion of
  its result was refused (`:299`), and deletes the device to which a breakout was applied (`:252`).
  The dispatch of a rack population drops its variables (`:203`), that of an assembly the order of its
  terminations (`:231-241`).
* If the synchronisation fails, the run is `failed` with `failed_stage` `build`
  (`rebuilder.py:86-118`), although the new graph is committed.

Graph, lanes and paths:

* Segments that are lost without a word, by build and audit alike (`MayOverlook` and `Walked` in
  `PlantDiagnostics` exclude them from `NothingLostSilently`, whose proof fails without each): a native profile that gives an interface
  without child interfaces one position (`LonePosition`); a front or rear port with the primary key of an interface
  that has children; a plugin breakout with one child, with explicit mappings beyond its number of children, or on a cable that
  has an assembly template too; a breakout that every path reads from the other side; a cable with a
  profile that ends at nothing; cables on no path and cables that leave the scope. A plugin breakout walked from the side of
  several front ports joins each of them to the first child (`transformer.py:709-745`).
* Where a plugin breakout has one child, on a cable between an interface without children and a port, the
  segment is `derived_from_profile` when a path walks it from one side and not when it is walked from the
  other; with a path for either side the first one wins (`transformer.py:559`, `:709-770`). The topology is the same
  (`TopologyOrderFree`); `EdgesOrderFree` is claimed where the flags agree.
* A cable with an assembly template may still be said to need a profile; child positions of
  candidates are taken from plane numbers (`unresolved_candidates.py:159-165`); base units whose
  children carry the planes are reported without membership.
* Lane sets call positions from the second on unmatched where a breakout has one peer, and rows of
  nodes with one compare key hide one another, the last stays.
* A group link of the lane workspace asks for grouped mode but keeps the lane, which leads back to
  lane mode; the chip that clears a group selects the first group; for a target that is one lane,
  lane mode cannot be left.
* The preset "cross" takes every second connector of side B; a preset is a deletion and a creation
  in two statements; a mapping at an occupied position raises (`views.py:1827-1902`).
* A path in a plane that vanished is resolved without the filter by GraphQL; over a rebuild a reach or
  a blast radius is empty and a path raises `KeyError`; a depth limit of 0 means 128; lane paths report no
  transfer maps or shuffle modules.

Policy:

* After a rebuild every active exception has drifted, because planes and objects are new. One
  exception for one pair covers a finding of several pairs, and its whole domain. Approval clears an
  expiry that has passed. A disjointness policy's mode decides nothing.
* Memberships edited by hand leave the cached report as it was until the cache times out. An audit
  over a rebuild may report units without membership falsely; one of some planes may report a bridge that
  a full one does not.

Stamps and floorplans:

* Of two writers of a canvas the last wins, and loses what the other has written between its read and its save
  (`floorplan_bridge.py:96`); `SyncKeepsCanvas` claims nothing of such a save. A forced synchronisation clears
  `layout_manual_override`. Only newly stamped racks are drawn. Rollbacks and deleted racks leave
  placements and canvas objects behind. Coordinates of nested locations are drawn as they are.
* Slots of a connection count from 0 when stamped, from 1 in the help text (`models.py:1249-1264`), and the
  connection builder refuses 0. A fan-out cables the first destination only
  (`spatial_stamp.py:457-486`). A second instance of a parent replaces the first in the registry. A plane
  multiplier above 1 always fails.
* Child names that two specs share are created once, for the first; a spec whose parent is a child that the same run
  creates is passed over until the next run; the planes of children that exist
  stay as they are; the bulk command commits device by device.

## 6. What is not modelled

* Operators editing or deleting stamp records, plans or created objects by hand, other than the
  status of a plan. The form offers it; nobody sets a plan to `stamping`.
* A spatial stamp or a rack population under a plan inserts several records in one transaction; the
  model inserts one at a time. The first rack or device that a stamp creates stands for all, and
  interfaces and locations it creates are not objects of `DeploymentPlan`. What terminations an assembly
  cable has is not modelled; a cable outlives the devices it connects.
* Several fabrics in one NetBox; scopes by location, which are filters like sites; two candidates
  with the same fingerprint in one synchronisation; a fingerprint that changes because the planes of
  its object do (it is another segment); sites that are deleted; the pruning of old build runs,
  which only clears the `build` of their observations. Extraction and the collection of candidates
  are one step each: an edit in the middle of one is an edit before or after it.
* Suppressions without an expiry time: no view or endpoint creates one.
* Contents: messages, severities, notes, actors, placements, names. They decide nothing here.
* Deletion of fabrics and findings (cascades).
* Names, types, roles and metadata of nodes and ports; device types and front and rear ports of
  stamped devices; stamp previews, which change nothing.
* Lane sets of whole devices and contamination domains, groups of the workspace by node and by path,
  and the findings beside its rows, of which the code takes 25 before it filters them.
* Floorplans of the plugin in other units or with a scale; rotation and size of what is drawn.
* The registry from which pages, forms, filters, serializers and GraphQL types are generated, and
  `src/devrun` with its seed data: declarations and test data without behaviour of their own.

## 7. Plan

Done, in the order of importance:

1. `AuditWorkflow` with `FindingLedger`, `DeploymentPlan`, and the proofs of all their safety properties and of
   the refinement.
2. `GraphRebuild` with `sync_unresolved_state`, and the proofs of its properties.
3. `PolicyEvidence`, `PolicyReview`, and the proofs of all their properties.
4. `PlanePropagation`, `PlantTransform`, `PlantDiagnostics`, `AssemblyTemplates`, `LaneViews`, `LaneWorkspace`; the walk, the
   edges, the lanes and the lane pages are proved for any plant.
5. `PathSearch`, `PathResolver`, and the proofs of all their properties.
6. `StampTemplates`, `StampLayout` with the floorplan bridge, `CanvasCoordinates`, and the proofs of all their properties but
   `PlanesStayApart`.

Open:

7. A proof of `PlanesStayApart`. It must first be stated for templates whose racks hold several slots, and of
   one-to-one connections that no other connection joins to the same two nodes; the registry of a stamp (which devices
   it lists for each rack, in which order) is the invariant it needs.
8. `StampTemplates` as the meaning of `CanStamp` and `Create` of `DeploymentPlan`; rack populations
   with device types and ports.

The number of runs is kept small; a question that an existing run can answer is added to it.

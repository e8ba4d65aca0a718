---------------------------- MODULE GraphRebuild ----------------------------
(***************************************************************************)
(* Rebuilds of the graph of one Fabric and the unresolved-state summaries    *)
(* they keep: services/sync/rebuilder.py extracts the plant from NetBox,     *)
(* replaces the graph in one transaction and then, outside of any            *)
(* transaction, synchronises UnresolvedStateSummary with what is unresolved. *)
(*                                                                          *)
(* A segment is a piece of the plant with one thing that may be wrong with   *)
(* it, so it stands for a fingerprint as well.  The fabric is the one a      *)
(* rebuild without a scope addresses ("Default Fabric").                     *)
(***************************************************************************)
EXTENDS Naturals, FiniteSets

CONSTANTS
    Builds,            \* primary keys of GraphBuildRun
    Segments,          \* pieces of the plant, and the fingerprints of their problems
    SiteSegments,      \* those at the site a scope may name
    OrphanSegments,    \* those whose problem is read off the graph, not off NetBox
    Onboarded,         \* the settings the fabric may be created with
    Requests,          \* the forms of rebuild that are asked for
    PersistSummaries,  \* the plugin's persist_unresolved_summaries
    Workers,           \* rebuilds that may be in flight at the same time
    MaxEdits,          \* bound: edits of the plant or of the fabric
    MaxFaults          \* bound: rebuilds that raise or die

\* What the scope of a rebuild names, and whether its trigger mode is incremental.
RequestForms == [fabric: BOOLEAN, site: BOOLEAN, incremental: BOOLEAN]

\* Is scope_site set, and is the policy (or depth, or plane count) not the default?
Settings == [restricted: BOOLEAN, policy: BOOLEAN]
DefaultSettings == [restricted |-> FALSE, policy |-> FALSE]

ASSUME SegmentsAssumption == SiteSegments \subseteq Segments /\ OrphanSegments \subseteq Segments
\* Who names a site is the refresh job, and it is incremental.
ASSUME RequestsAssumption == Requests \subseteq {r \in RequestForms : r.site => r.incremental}
ASSUME SettingsAssumption == Onboarded \subseteq Settings /\ PersistSummaries \in BOOLEAN
ASSUME BoundsAssumption == Workers \in Nat /\ MaxEdits \in Nat /\ MaxFaults \in Nat

VARIABLES
    present,       \* segments NetBox holds
    unresolved,    \* segments that have their problem while they are there
    settings,      \* columns of the Fabric that build_graph writes back
    graph,         \* segments of the fabric's graph, and those orphaned in it
    summaries,     \* table UnresolvedStateSummary, by fingerprint
    observations,  \* table UnresolvedStateObservation: (summary, build)
    runs,          \* table GraphBuildRun
    handlers,      \* executions of rebuild_graph, by their run
    history,       \* what happened around an execution; nothing reads it
    edits,         \* edits so far
    faults         \* faults so far

plant == <<present, unresolved, settings>>
tables == <<graph, summaries, observations, runs>>
vars == <<plant, tables, handlers, history, edits, faults>>

Graph == [nodes: SUBSET Segments, orphaned: SUBSET Segments]
EmptyGraph == [nodes |-> {}, orphaned |-> {}]
Summary == [stored: BOOLEAN, active: BOOLEAN, reopened: Nat]
NoSummary == [stored |-> FALSE, active |-> FALSE, reopened |-> 0]
Run == [status: {"none", "running", "completed", "failed"},
        comparable: BOOLEAN, reported: SUBSET Segments]
Steps == {"idle", "extract", "build", "collect", "load", "save", "observe", "resolve",
          "finish"}

\* Local state of rebuild_graph: the scope, the fabric's settings as they were loaded, the
\* graph inputs, and of the synchronisation the candidates, the copies of the summaries,
\* the fingerprints still to save or resolve and the one to observe.
Handler == [pc: Steps, request: RequestForms, settings: Settings, inputs: Graph,
            candidates: SUBSET Segments, copies: [Segments -> Summary],
            todo: SUBSET Segments, saved: SUBSET Segments]
NoScope == [fabric |-> FALSE, site |-> FALSE, incremental |-> FALSE]
NoCopies == [s \in Segments |-> NoSummary]
Idle == [pc |-> "idle", request |-> NoScope, settings |-> DefaultSettings, inputs |-> EmptyGraph,
         candidates |-> {}, copies |-> NoCopies, todo |-> {}, saved |-> {}]

\* alone: no other rebuild was in flight meanwhile; edited: something was edited;
\* cleared: segments that were for a moment without a problem.
History == [alone: BOOLEAN, edited: BOOLEAN, cleared: SUBSET Segments]
NoHistory == [alone |-> FALSE, edited |-> FALSE, cleared |-> {}]

TypeOK ==
    /\ present \subseteq Segments /\ unresolved \subseteq Segments /\ settings \in Settings
    /\ graph \in Graph
    /\ summaries \in [Segments -> Summary]
    /\ observations \subseteq Segments \X Builds
    /\ runs \in [Builds -> Run]
    /\ handlers \in [Builds -> Handler]
    /\ history \in [Builds -> History]
    /\ edits \in 0 .. MaxEdits /\ faults \in 0 .. MaxFaults

InFlight == {b \in Builds : handlers[b].pc # "idle"}

Init ==
    /\ present \in SUBSET Segments
    /\ unresolved \in SUBSET Segments
    /\ settings \in Onboarded
    /\ graph = EmptyGraph
    /\ summaries = NoCopies
    /\ observations = {}
    /\ runs = [b \in Builds |-> [status |-> "none", comparable |-> FALSE, reported |-> {}]]
    /\ handlers = [b \in Builds |-> Idle]
    /\ history = [b \in Builds |-> NoHistory]
    /\ edits = 0 /\ faults = 0

-----------------------------------------------------------------------------
(* Operators edit the plant and the fabric. *)

\* History after an edit that leaves the segments in bad with a problem.
Noted(bad) ==
    [b \in Builds |-> IF b \in InFlight
                      THEN [history[b] EXCEPT !.edited = TRUE, !.cleared = @ \cup (Segments \ bad)]
                      ELSE history[b]]

Edit == edits < MaxEdits /\ edits' = edits + 1                       \* bound

Flipped(set, s) == IF s \in set THEN set \ {s} ELSE set \cup {s}

AddOrRemoveSegment(s) ==
    /\ Edit
    /\ present' = Flipped(present, s)
    /\ history' = Noted(present' \cap unresolved)
    /\ UNCHANGED <<unresolved, settings, tables, handlers, faults>>

BreakOrRepairSegment(s) ==
    /\ Edit
    /\ unresolved' = Flipped(unresolved, s)
    /\ history' = Noted(present \cap unresolved')
    /\ UNCHANGED <<present, settings, tables, handlers, faults>>

\* The form of a fabric has the policy and the counts; its site is chosen when it is created.
EditFabric ==
    /\ Edit
    /\ settings' = [settings EXCEPT !.policy = ~@]
    /\ history' = Noted(present \cap unresolved)
    /\ UNCHANGED <<present, unresolved, tables, handlers, faults>>

-----------------------------------------------------------------------------
(* rebuild_graph. *)

Step(b, local) == handlers' = [handlers EXCEPT ![b] = local]

Family(request) == IF request.fabric THEN "fabric" ELSE IF request.site THEN "site" ELSE "global"

\* Seeded fault: the trigger mode is not looked at.
ComparableFamily(request) == Family(request) \in {"global", "fabric"}

Comparable(request) == ~request.incremental /\ Family(request) \in {"global", "fabric"}

\* The segments a rebuild extracts: a site in the scope wins over the fabric's own.
Scope(h) == IF h.request.site \/ h.settings.restricted THEN SiteSegments ELSE Segments

\* The caller has loaded the fabric it passes; without one the inputs carry the defaults.
Loaded(request) == IF request.fabric THEN settings ELSE DefaultSettings

StartBuild(b, request) ==
    /\ runs[b].status = "none"
    /\ Cardinality(InFlight) < Workers                               \* bound
    /\ runs' = [runs EXCEPT ![b] = [@ EXCEPT !.status = "running",
                                             !.comparable = Comparable(request)]]
    /\ Step(b, [Idle EXCEPT !.pc = "extract", !.request = request,
                            !.settings = Loaded(request)])
    /\ history' = [c \in Builds |->
                     IF c = b THEN [alone |-> InFlight = {}, edited |-> FALSE,
                                    cleared |-> Segments \ (present \cap unresolved)]
                     ELSE IF c \in InFlight THEN [history[c] EXCEPT !.alone = FALSE]
                     ELSE history[c]]
    /\ UNCHANGED <<plant, graph, summaries, observations, edits, faults>>

Extract(b) ==
    /\ handlers[b].pc = "extract"
    /\ LET nodes == present \cap Scope(handlers[b])
       IN  Step(b, [handlers[b] EXCEPT
                      !.pc = "build",
                      !.inputs = [nodes |-> nodes,
                                  orphaned |-> nodes \cap OrphanSegments \cap unresolved]])
    /\ UNCHANGED <<plant, tables, history, edits, faults>>

AfterBuild(b) == IF PersistSummaries /\ runs[b].comparable THEN "collect" ELSE "finish"

\* Seeded fault: the fabric is always given the defaults.
BuildDefaults(b) ==
    /\ handlers[b].pc = "build"
    /\ graph' = handlers[b].inputs
    /\ settings' = DefaultSettings
    /\ Step(b, [handlers[b] EXCEPT !.pc = AfterBuild(b), !.inputs = EmptyGraph])
    /\ UNCHANGED <<present, unresolved, summaries, observations, runs, history, edits, faults>>

\* One transaction, behind the row lock of the fabric its first UPDATE takes: the settings
\* of the fabric become what the rebuild loaded, the whole graph what it extracted.
BuildGraph(b) ==
    /\ handlers[b].pc = "build"
    /\ graph' = handlers[b].inputs
    /\ settings' = handlers[b].settings
    /\ Step(b, [handlers[b] EXCEPT !.pc = AfterBuild(b), !.inputs = EmptyGraph])
    /\ UNCHANGED <<present, unresolved, summaries, observations, runs, history, edits, faults>>

\* Candidates are read off NetBox for the devices in the graph that is there now.
Candidates == {s \in graph.nodes : IF s \in OrphanSegments THEN s \in graph.orphaned
                                   ELSE s \in present \cap unresolved}

CollectCandidates(b) ==
    /\ handlers[b].pc = "collect"
    /\ Step(b, [handlers[b] EXCEPT !.pc = "load", !.candidates = Candidates])
    /\ UNCHANGED <<plant, tables, history, edits, faults>>

LoadSummaries(b) ==
    /\ handlers[b].pc = "load"
    /\ Step(b, [handlers[b] EXCEPT !.pc = "save", !.todo = handlers[b].candidates,
                                   !.copies = summaries])
    /\ UNCHANGED <<plant, tables, history, edits, faults>>

-----------------------------------------------------------------------------
(* sync_unresolved_state: each statement commits by itself. *)

\* Seeded fault: every build that sees the problem again counts as a reopening.
SeenAgain(copy) == [copy EXCEPT !.active = TRUE, !.reopened = @ + 1]

Reopenings(copy) == IF copy.active THEN copy.reopened ELSE copy.reopened + 1

\* A summary that was loaded is saved whole; one that was resolved counts a reopening.
Refreshed(copy) == [copy EXCEPT !.active = TRUE, !.reopened = Reopenings(copy)]

Created == [stored |-> TRUE, active |-> TRUE, reopened |-> 0]

\* Another rebuild has created the summary since the copies were loaded: the unique
\* constraint refuses a second one.
Refused(b, s) == summaries[s].stored /\ ~handlers[b].copies[s].stored

\* Seeded fault: an insert that is refused is taken for one that was made.
SaveOrIgnore(b, s) ==
    /\ handlers[b].pc = "save" /\ s \in handlers[b].todo
    /\ summaries' = [summaries EXCEPT ![s] = IF Refused(b, s) THEN @
                                             ELSE IF handlers[b].copies[s].stored
                                             THEN Refreshed(handlers[b].copies[s]) ELSE Created]
    /\ Step(b, [handlers[b] EXCEPT !.pc = IF Refused(b, s) THEN "save" ELSE "observe",
                                   !.todo = @ \ {s},
                                   !.saved = IF Refused(b, s) THEN {} ELSE {s}])
    /\ UNCHANGED <<plant, graph, observations, runs, history, edits, faults>>

SaveSummary(b, s) ==
    /\ handlers[b].pc = "save" /\ s \in handlers[b].todo
    /\ ~Refused(b, s)
    /\ summaries' = [summaries EXCEPT ![s] = IF handlers[b].copies[s].stored
                                             THEN Refreshed(handlers[b].copies[s]) ELSE Created]
    /\ Step(b, [handlers[b] EXCEPT !.pc = "observe", !.todo = @ \ {s}, !.saved = {s}])
    /\ UNCHANGED <<plant, graph, observations, runs, history, edits, faults>>

Observe(b) ==
    /\ handlers[b].pc = "observe"
    /\ observations' = observations \cup (handlers[b].saved \X {b})
    /\ Step(b, [handlers[b] EXCEPT !.pc = "save", !.saved = {}])
    /\ UNCHANGED <<plant, graph, summaries, runs, history, edits, faults>>

\* Seeded fault: what is no longer in the graph is not looked for.
ListStaleInGraph(b) ==
    /\ handlers[b].pc = "save" /\ handlers[b].todo = {}
    /\ Step(b, [handlers[b] EXCEPT
                  !.pc = "resolve", !.copies = NoCopies,
                  !.todo = {s \in graph.nodes : summaries[s].active} \ handlers[b].candidates])
    /\ UNCHANGED <<plant, tables, history, edits, faults>>

\* The active summaries are read again; those that are no candidates are stale.
ListStale(b) ==
    /\ handlers[b].pc = "save" /\ handlers[b].todo = {}
    /\ Step(b, [handlers[b] EXCEPT
                  !.pc = "resolve", !.copies = NoCopies,
                  !.todo = {s \in Segments : summaries[s].active} \ handlers[b].candidates])
    /\ UNCHANGED <<plant, tables, history, edits, faults>>

\* Saves active and resolved_at, the other columns stay as they are.
ResolveStale(b, s) ==
    /\ handlers[b].pc = "resolve" /\ s \in handlers[b].todo
    /\ summaries' = [summaries EXCEPT ![s].active = FALSE]
    /\ Step(b, [handlers[b] EXCEPT !.todo = @ \ {s}])
    /\ UNCHANGED <<plant, graph, observations, runs, history, edits, faults>>

StaleDone(b) ==
    /\ handlers[b].pc = "resolve" /\ handlers[b].todo = {}
    /\ Step(b, [handlers[b] EXCEPT !.pc = "finish"])
    /\ UNCHANGED <<plant, tables, history, edits, faults>>

-----------------------------------------------------------------------------
(* How a rebuild ends. *)

Leave(b) == Step(b, Idle) /\ history' = [history EXCEPT ![b] = NoHistory]

\* The statistics of the synchronisation go to the run's metadata.
CompleteBuild(b) ==
    /\ handlers[b].pc = "finish"
    /\ runs' = [runs EXCEPT ![b] = [@ EXCEPT !.status = "completed",
                                             !.reported = handlers[b].candidates]]
    /\ Leave(b)
    /\ UNCHANGED <<plant, graph, summaries, observations, edits, faults>>

FailBuild(b) ==
    /\ runs' = [runs EXCEPT ![b].status = "failed"]
    /\ Leave(b)
    /\ UNCHANGED <<plant, graph, summaries, observations, edits>>

SaveRefused(b) ==
    /\ handlers[b].pc = "save" /\ \E s \in handlers[b].todo : Refused(b, s)
    /\ FailBuild(b)
    /\ UNCHANGED faults

Fault == faults < MaxFaults /\ faults' = faults + 1                  \* bound

\* Any statement inside the try block raises; build_graph's transaction is undone.  After
\* the block there is nothing left to raise but the last save.
BuildRaises(b) ==
    /\ handlers[b].pc # "idle"
    /\ handlers[b].pc = "finish" => AfterBuild(b) = "finish"
    /\ Fault
    /\ FailBuild(b)

\* The worker is killed, or the last save raises: the run stays running for ever.
BuildDies(b) ==
    /\ handlers[b].pc # "idle"
    /\ Fault
    /\ Leave(b)
    /\ UNCHANGED <<plant, tables, edits>>

-----------------------------------------------------------------------------
EditStep ==
    \/ \E s \in Segments : AddOrRemoveSegment(s) \/ BreakOrRepairSegment(s)
    \/ EditFabric

BuildStep(b) ==
    \/ Extract(b) \/ BuildGraph(b) \/ CollectCandidates(b) \/ LoadSummaries(b)
    \/ \E s \in Segments : SaveSummary(b, s) \/ ResolveStale(b, s)
    \/ Observe(b) \/ ListStale(b) \/ StaleDone(b)
    \/ CompleteBuild(b) \/ SaveRefused(b)

Next ==
    \/ EditStep
    \/ \E b \in Builds : BuildStep(b) \/ BuildRaises(b) \/ BuildDies(b)
    \/ \E b \in Builds, request \in Requests : StartBuild(b, request)

Spec == Init /\ [][Next]_vars

-----------------------------------------------------------------------------
(* Properties. *)

\* When a full rebuild that ran alone, and during which nothing was edited, is about to
\* complete, the graph is the plant within its scope, the active summaries are exactly
\* what is unresolved there, and the run has observed each of them: whatever rebuilds of
\* any scope came before, were cut off half way or overlapped one another.
SummariesMatchPlant ==
    \A b \in Builds :
        LET here == present \cap Scope(handlers[b])
        IN  (/\ handlers[b].pc = "finish" /\ AfterBuild(b) = "collect"
             /\ history[b].alone /\ ~history[b].edited)
            => /\ graph.nodes = here
               /\ {s \in Segments : summaries[s].active} = here \cap unresolved
               /\ {s \in Segments : <<s, b>> \in observations} = here \cap unresolved

\* A rebuild that runs alone resolves a summary only if its problem was gone for a moment
\* since the rebuild started, or lies outside the site the fabric is restricted to; a
\* refresh of a site, which removes the rest of the graph, resolves nothing elsewhere.
OnlyClearedAreResolved ==
    \A b \in Builds :
        (handlers[b].pc = "resolve" /\ history[b].alone)
        => handlers[b].todo \subseteq
               history[b].cleared \cup (IF handlers[b].settings.restricted THEN Segments \ SiteSegments
                                        ELSE {})

\* However rebuilds overlap, a run that completed its synchronisation has observed exactly
\* the candidates it reports, each in a summary that is stored.
CompletedRunObserved ==
    \A b \in Builds :
        (runs[b].status = "completed" /\ AfterBuild(b) = "collect")
        => /\ {s \in Segments : <<s, b>> \in observations} = runs[b].reported
           /\ \A s \in runs[b].reported : summaries[s].stored

\* While every rebuild in flight runs alone, the reopenings of a summary count the times it
\* turned from resolved to active, no more and no less.
ReopeningsAreCounted ==
    [][(\A b \in InFlight : history[b].alone)
       => \A s \in Segments :
            summaries[s].stored
            => summaries'[s].reopened =
                 summaries[s].reopened
                 + IF ~summaries[s].active /\ summaries'[s].active THEN 1 ELSE 0]_vars

\* A rebuild of a named fabric that runs alone, while nobody edits, leaves the settings of
\* the fabric as they are.
RebuildKeepsSettings ==
    [][\A b \in Builds :
         (/\ handlers[b].pc = "build" /\ handlers[b].request.fabric
          /\ history[b].alone /\ ~history[b].edited)
         => settings' = settings \/ handlers'[b] = handlers[b]]_vars

\* The refresh job's description: "Refresh a scoped portion of the plant graph."  The rest
\* of the graph, as far as it is still in NetBox, should stay.
RefreshKeepsTheRest ==
    [][\A b \in Builds :
         (/\ handlers[b].pc = "build" /\ handlers[b].request.site
          /\ handlers'[b].pc = "finish")
         => (graph.nodes \cap present) \ SiteSegments \subseteq graph'.nodes]_vars
=============================================================================

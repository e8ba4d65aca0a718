------------------------- MODULE GraphRebuildProofs -------------------------
(* Theorems about GraphRebuild, for every value of its constants. *)
EXTENDS GraphRebuild, TLAPS

-----------------------------------------------------------------------------
(* The inductive invariant: what the tables, and the copies of them, show of each rebuild. *)

\* Is b to synchronise the summaries once the graph is built?
Synchronises(b) == AfterBuild(b) = "collect"

SyncSteps == {"collect", "load", "save", "observe", "resolve"}

\* An active summary is stored, and so is an observed one.
StoredFirst ==
    /\ \A s \in Segments : summaries[s].active => summaries[s].stored
    /\ \A s \in Segments, b \in Builds : <<s, b>> \in observations => summaries[s].stored

\* A rebuild that runs alone is the only one in flight.
AloneIsAlone == \A b, c \in Builds : history[b].alone => (handlers[c].pc # "idle" <=> c = b)

\* The run of a rebuild in flight is running, was classified by its request, and reaches
\* the synchronisation only if it is comparable; a run that is not started has no trace.
RunFollows(b) ==
    /\ handlers[b].pc # "idle"
       => /\ runs[b].status = "running"
          /\ handlers[b].request \in Requests
          /\ runs[b].comparable = Comparable(handlers[b].request)
    /\ handlers[b].pc \in SyncSteps => Synchronises(b)
    /\ runs[b].status = "none" => \A s \in Segments : <<s, b>> \notin observations

\* How far the observations are.
ObservationsFollow(b) ==
    LET h == handlers[b]
    IN  /\ h.pc \in {"extract", "build", "collect", "load"}
           => \A s \in Segments : <<s, b>> \notin observations
        /\ h.pc = "save"
           => /\ h.todo \subseteq h.candidates
              /\ \A s \in Segments : <<s, b>> \in observations <=> s \in h.candidates \ h.todo
        /\ h.pc = "observe"
           => /\ h.todo \subseteq h.candidates /\ h.saved \subseteq h.candidates \ h.todo
              /\ \A s \in h.saved : summaries[s].stored
              /\ \A s \in Segments : <<s, b>> \in observations
                                     <=> s \in h.candidates \ (h.todo \cup h.saved)
        /\ (h.pc \in {"resolve", "finish"} /\ Synchronises(b))
           => \A s \in Segments : <<s, b>> \in observations <=> s \in h.candidates

\* A segment without a problem has been noted as cleared.
ClearedIsCurrent(b) ==
    handlers[b].pc # "idle" => Segments \ (present \cap unresolved) \subseteq history[b].cleared

\* A segment whose summary b may resolve.
Gone(b, s) == s \in history[b].cleared \/ (handlers[b].settings.restricted /\ s \notin SiteSegments)

\* What a graph g lacks is gone.
LacksOnlyGone(b, g) ==
    \A s \in Segments : (s \notin g.nodes \/ (s \in OrphanSegments /\ s \notin g.orphaned))
                        => Gone(b, s)

\* What a rebuild that runs alone has not found is gone.
MissingIsGone(b) ==
    LET h == handlers[b]
    IN  (history[b].alone /\ Synchronises(b)) =>
          /\ h.pc = "build" => LacksOnlyGone(b, h.inputs)
          /\ h.pc = "collect" => LacksOnlyGone(b, graph)
          /\ h.pc \in {"load", "save", "observe", "resolve"}
             => \A s \in Segments \ h.candidates : Gone(b, s)
          /\ h.pc = "resolve" => h.todo \cap h.candidates = {}

\* The graph g is the plant in the scope of b.
IsPlant(b, g) ==
    /\ g.nodes = present \cap Scope(handlers[b])
    /\ g.orphaned = present \cap Scope(handlers[b]) \cap OrphanSegments \cap unresolved

\* What a rebuild that runs alone has read is still so unless something was edited.
ReadIsCurrent(b) ==
    LET h == handlers[b]
    IN  (history[b].alone /\ ~history[b].edited) =>
          /\ (h.pc \in {"extract", "build"} /\ h.request.fabric) => h.settings = settings
          /\ Synchronises(b) =>
               /\ h.pc = "build" => IsPlant(b, h.inputs)
               /\ h.pc \in SyncSteps \cup {"finish"} => IsPlant(b, graph)
               /\ h.pc \in {"load", "save", "observe", "resolve", "finish"}
                  => h.candidates = present \cap Scope(h) \cap unresolved

\* How far the summaries are while a rebuild runs alone.
SummariesFollow(b) ==
    LET h == handlers[b]
    IN  (history[b].alone /\ Synchronises(b)) =>
          /\ h.pc \in {"save", "observe"}
             => /\ \A s \in h.todo : h.copies[s] = summaries[s]
                /\ \A s \in h.candidates \ h.todo : summaries[s].active
          /\ h.pc = "resolve"
             => \A s \in Segments : summaries[s].active <=> s \in h.candidates \cup h.todo
          /\ h.pc = "finish"
             => \A s \in Segments : summaries[s].active <=> s \in h.candidates

HandlerInv(b) ==
    /\ RunFollows(b) /\ ObservationsFollow(b) /\ ClearedIsCurrent(b)
    /\ MissingIsGone(b) /\ ReadIsCurrent(b) /\ SummariesFollow(b)

IInv ==
    /\ TypeOK /\ StoredFirst /\ CompletedRunObserved /\ AloneIsAlone
    /\ \A b \in Builds : HandlerInv(b)

-----------------------------------------------------------------------------
(* Types. *)

LEMMA StepIsLocal ==
    ASSUME TypeOK, NEW b \in Builds, NEW h \in Handler, Step(b, h)
    PROVE  /\ handlers' \in [Builds -> Handler]
           /\ handlers'[b] = h
           /\ \A c \in Builds \ {b} : handlers'[c] = handlers[c]
BY DEF Step, TypeOK

LEMMA IdleType == Idle \in Handler /\ NoHistory \in History /\ NoCopies \in [Segments -> Summary]
BY DEF Idle, Handler, Steps, NoScope, RequestForms, Settings, DefaultSettings, Graph, EmptyGraph, NoCopies, NoSummary, Summary,
       NoHistory, History

LEMMA EditType == TypeOK /\ EditStep => TypeOK'
<1> SUFFICES ASSUME TypeOK, EditStep PROVE TypeOK'
  OBVIOUS
<1>1. \A bad \in SUBSET Segments : Noted(bad) \in [Builds -> History]
  BY DEF Noted, TypeOK, History
<1>2. \A s \in Segments, set \in SUBSET Segments : Flipped(set, s) \in SUBSET Segments
  BY DEF Flipped
<1>3. Edit => edits' \in 0 .. MaxEdits
  BY BoundsAssumption DEF Edit, TypeOK
<1>4. ASSUME NEW s \in Segments, AddOrRemoveSegment(s) PROVE TypeOK'
  <2>1. present' \in SUBSET Segments /\ present' \cap unresolved \in SUBSET Segments
    BY <1>2, <1>4 DEF AddOrRemoveSegment, TypeOK
  <2>2. history' \in [Builds -> History]
    BY <1>1, <1>4, <2>1 DEF AddOrRemoveSegment
  <2>3. QED
    BY <1>3, <1>4, <2>1, <2>2 DEF AddOrRemoveSegment, TypeOK, tables
<1>5. ASSUME NEW s \in Segments, BreakOrRepairSegment(s) PROVE TypeOK'
  <2>1. unresolved' \in SUBSET Segments /\ present \cap unresolved' \in SUBSET Segments
    BY <1>2, <1>5 DEF BreakOrRepairSegment, TypeOK
  <2>2. history' \in [Builds -> History]
    BY <1>1, <1>5, <2>1 DEF BreakOrRepairSegment
  <2>3. QED
    BY <1>3, <1>5, <2>1, <2>2 DEF BreakOrRepairSegment, TypeOK, tables
<1>6. ASSUME EditFabric PROVE TypeOK'
  <2>1. present \cap unresolved \in SUBSET Segments
    BY DEF TypeOK
  <2>2. history' \in [Builds -> History]
    BY <1>1, <1>6, <2>1 DEF EditFabric
  <2>3. settings' \in Settings
    BY <1>6 DEF EditFabric, TypeOK, Settings
  <2>4. QED
    BY <1>3, <1>6, <2>2, <2>3 DEF EditFabric, TypeOK, tables
<1>7. QED
  BY <1>4, <1>5, <1>6 DEF EditStep

LEMMA StartType ==
    ASSUME TypeOK, NEW b \in Builds, NEW request \in Requests, StartBuild(b, request)
    PROVE  TypeOK'
<1> DEFINE h == [Idle EXCEPT !.pc = "extract", !.request = request,
                             !.settings = Loaded(request)]
<1>1. request \in RequestForms /\ request.fabric \in BOOLEAN
  BY RequestsAssumption DEF RequestForms
<1>2. h \in Handler
  <2>1. Loaded(request) \in Settings
    BY DEF Loaded, TypeOK, DefaultSettings, Settings
  <2>2. QED
    BY <1>1, <2>1, IdleType DEF Handler, Steps
<1>3. handlers' \in [Builds -> Handler]
  <2>1. Step(b, h)
    BY DEF StartBuild
  <2>2. QED
    BY <1>2, <2>1, StepIsLocal
<1>4. Comparable(request) \in BOOLEAN
  BY DEF Comparable
<1>5. runs' \in [Builds -> Run]
  BY <1>4 DEF StartBuild, TypeOK, Run
<1>6. history' \in [Builds -> History]
  BY DEF StartBuild, TypeOK, History
<1>7. QED
  BY <1>3, <1>5, <1>6 DEF StartBuild, TypeOK, plant

LEMMA LeaveType ==
    ASSUME TypeOK, NEW b \in Builds, Leave(b)
    PROVE  handlers' \in [Builds -> Handler] /\ history' \in [Builds -> History]
BY IdleType, StepIsLocal DEF Leave, TypeOK

LEMMA FailType ==
    ASSUME TypeOK, NEW b \in Builds, FailBuild(b), faults' \in 0 .. MaxFaults
    PROVE  TypeOK'
<1>1. runs' \in [Builds -> Run]
  BY DEF FailBuild, TypeOK, Run
<1>2. QED
  BY <1>1, LeaveType DEF FailBuild, TypeOK, plant

LEMMA FaultType == TypeOK /\ Fault => faults' \in 0 .. MaxFaults
BY BoundsAssumption DEF TypeOK, Fault

LEMMA HandlerParts ==
    ASSUME TypeOK, NEW b \in Builds
    PROVE  /\ handlers[b] \in Handler
           /\ handlers[b].candidates \subseteq Segments
           /\ handlers[b].todo \subseteq Segments
           /\ handlers[b].saved \subseteq Segments
           /\ handlers[b].copies \in [Segments -> Summary]
           /\ handlers[b].inputs \in Graph
           /\ handlers[b].settings \in Settings
BY DEF TypeOK, Handler

\* The local states the steps of a rebuild lead to.
LEMMA NextLocal ==
    ASSUME TypeOK, NEW b \in Builds
    PROVE  /\ handlers[b] \in Handler
           /\ AfterBuild(b) \in {"collect", "finish"}
           /\ [handlers[b] EXCEPT !.pc = AfterBuild(b), !.inputs = EmptyGraph] \in Handler
           /\ [handlers[b] EXCEPT !.pc = "load", !.candidates = Candidates] \in Handler
           /\ [handlers[b] EXCEPT !.pc = "save", !.todo = handlers[b].candidates,
                                  !.copies = summaries] \in Handler
           /\ [handlers[b] EXCEPT !.pc = "save", !.saved = {}] \in Handler
           /\ \A s \in Segments :
                /\ [handlers[b] EXCEPT !.pc = "observe", !.todo = @ \ {s}, !.saved = {s}] \in Handler
                /\ [handlers[b] EXCEPT !.todo = @ \ {s}] \in Handler
           /\ \A stale \in SUBSET Segments :
                [handlers[b] EXCEPT !.pc = "resolve", !.copies = NoCopies, !.todo = stale] \in Handler
           /\ [handlers[b] EXCEPT !.pc = "finish"] \in Handler
           /\ \A g \in Graph : [handlers[b] EXCEPT !.pc = "build", !.inputs = g] \in Handler
<1>1. handlers[b] \in Handler
  BY DEF TypeOK
<1>2. AfterBuild(b) \in {"collect", "finish"}
  BY DEF AfterBuild
<1>3. Candidates \in SUBSET Segments
  BY DEF Candidates, TypeOK, Graph
<1>4. EmptyGraph \in Graph
  BY DEF EmptyGraph, Graph
<1>5. summaries \in [Segments -> Summary]
  BY DEF TypeOK
<1>6. [handlers[b] EXCEPT !.pc = AfterBuild(b), !.inputs = EmptyGraph] \in Handler
  BY <1>1, <1>2, <1>4 DEF Handler, Steps
<1>7. /\ [handlers[b] EXCEPT !.pc = "load", !.candidates = Candidates] \in Handler
      /\ [handlers[b] EXCEPT !.pc = "save", !.saved = {}] \in Handler
      /\ [handlers[b] EXCEPT !.pc = "finish"] \in Handler
  BY <1>1, <1>3 DEF Handler, Steps
<1>8. [handlers[b] EXCEPT !.pc = "save", !.todo = handlers[b].candidates, !.copies = summaries]
        \in Handler
  BY <1>1, <1>5 DEF Handler, Steps
<1>9. \A s \in Segments :
        /\ [handlers[b] EXCEPT !.pc = "observe", !.todo = @ \ {s}, !.saved = {s}] \in Handler
        /\ [handlers[b] EXCEPT !.todo = @ \ {s}] \in Handler
  BY <1>1 DEF Handler, Steps
<1>10. \A stale \in SUBSET Segments :
         [handlers[b] EXCEPT !.pc = "resolve", !.copies = NoCopies, !.todo = stale] \in Handler
  BY <1>1, IdleType DEF Handler, Steps
<1>11. \A g \in Graph : [handlers[b] EXCEPT !.pc = "build", !.inputs = g] \in Handler
  BY <1>1 DEF Handler, Steps
<1>12. QED
  BY <1>1, <1>2, <1>6, <1>7, <1>8, <1>9, <1>10, <1>11

\* What each step makes of its handler.
LEMMA ExtractLocal ==
    ASSUME TypeOK, NEW b \in Builds, Extract(b)
    PROVE  LET nodes == present \cap Scope(handlers[b])
               g == [nodes |-> nodes, orphaned |-> nodes \cap OrphanSegments \cap unresolved]
           IN  /\ g \in Graph
               /\ handlers' \in [Builds -> Handler]
               /\ handlers'[b] = [handlers[b] EXCEPT !.pc = "build", !.inputs = g]
               /\ \A c \in Builds \ {b} : handlers'[c] = handlers[c]
<1> DEFINE nodes == present \cap Scope(handlers[b])
           g == [nodes |-> nodes, orphaned |-> nodes \cap OrphanSegments \cap unresolved]
<1>1. g \in Graph
  BY SegmentsAssumption DEF Graph, Scope, TypeOK
<1>2. Step(b, [handlers[b] EXCEPT !.pc = "build", !.inputs = g])
  BY DEF Extract
<1>3. [handlers[b] EXCEPT !.pc = "build", !.inputs = g] \in Handler
  BY <1>1, NextLocal
<1>4. QED
  BY <1>1, <1>2, <1>3, StepIsLocal

LEMMA RefreshedType ==
    ASSUME NEW copy \in Summary
    PROVE  /\ Refreshed(copy) \in Summary
           /\ Refreshed(copy).stored = copy.stored
           /\ Refreshed(copy).active
           /\ Refreshed(copy).reopened = Reopenings(copy)
<1>1. Reopenings(copy) \in Nat
  BY DEF Reopenings, Summary
<1>2. QED
  BY <1>1 DEF Refreshed, Summary

\* The row a rebuild saves for s.
Saved(b, s) == IF handlers[b].copies[s].stored THEN Refreshed(handlers[b].copies[s]) ELSE Created

LEMMA SaveLocal ==
    ASSUME TypeOK, NEW b \in Builds, NEW s \in Segments, SaveSummary(b, s)
    PROVE  /\ handlers' \in [Builds -> Handler]
           /\ handlers'[b] = [handlers[b] EXCEPT !.pc = "observe", !.todo = @ \ {s}, !.saved = {s}]
           /\ \A c \in Builds \ {b} : handlers'[c] = handlers[c]
           /\ summaries' \in [Segments -> Summary]
           /\ summaries' = [summaries EXCEPT ![s] = Saved(b, s)]
           /\ Saved(b, s) \in Summary /\ Saved(b, s).stored /\ Saved(b, s).active
<1>1. handlers[b] \in Handler /\ handlers[b].copies[s] \in Summary
  BY DEF TypeOK, Handler
<1>2. Created \in Summary /\ Created.stored /\ Created.active
  BY DEF Created, Summary
<1>3. Saved(b, s) \in Summary /\ Saved(b, s).stored /\ Saved(b, s).active
  BY <1>1, <1>2, RefreshedType DEF Saved
<1>4. summaries' = [summaries EXCEPT ![s] = Saved(b, s)]
  BY DEF SaveSummary, Saved
<1>5. summaries' \in [Segments -> Summary]
  BY <1>3, <1>4 DEF TypeOK
<1>6. /\ Step(b, [handlers[b] EXCEPT !.pc = "observe", !.todo = @ \ {s}, !.saved = {s}])
      /\ [handlers[b] EXCEPT !.pc = "observe", !.todo = @ \ {s}, !.saved = {s}] \in Handler
  BY NextLocal DEF SaveSummary
<1>7. QED
  BY <1>3, <1>4, <1>5, <1>6, StepIsLocal

LEMMA BuildType ==
    ASSUME TypeOK, NEW b \in Builds, BuildStep(b) \/ BuildRaises(b) \/ BuildDies(b)
    PROVE  TypeOK'
<1>1. CASE Extract(b)
  BY <1>1, ExtractLocal DEF Extract, TypeOK, plant, tables
<1>2. CASE BuildGraph(b)
  <2>1. handlers' \in [Builds -> Handler]
    BY <1>2, NextLocal, StepIsLocal DEF BuildGraph
  <2>2. graph' \in Graph /\ settings' \in Settings
    BY <1>2, NextLocal DEF BuildGraph, Handler
  <2>3. QED
    BY <1>2, <2>1, <2>2 DEF BuildGraph, TypeOK
<1>3. CASE CollectCandidates(b) \/ LoadSummaries(b) \/ StaleDone(b)
  <2>1. handlers' \in [Builds -> Handler]
    BY <1>3, NextLocal, StepIsLocal DEF CollectCandidates, LoadSummaries, StaleDone
  <2>2. QED
    BY <1>3, <2>1 DEF CollectCandidates, LoadSummaries, StaleDone, TypeOK, plant, tables
<1>4. ASSUME NEW s \in Segments, SaveSummary(b, s) PROVE TypeOK'
  BY <1>4, SaveLocal DEF SaveSummary, TypeOK, plant
<1>5. ASSUME NEW s \in Segments, ResolveStale(b, s) PROVE TypeOK'
  <2>1. handlers' \in [Builds -> Handler]
    BY <1>5, NextLocal, StepIsLocal DEF ResolveStale
  <2>2. summaries' \in [Segments -> Summary]
    BY <1>5 DEF ResolveStale, TypeOK, Summary
  <2>3. QED
    BY <1>5, <2>1, <2>2 DEF ResolveStale, TypeOK, plant
<1>6. CASE Observe(b)
  <2>1. handlers' \in [Builds -> Handler]
    BY <1>6, NextLocal, StepIsLocal DEF Observe
  <2>2. observations' \subseteq Segments \X Builds
    <3>1. handlers[b].saved \X {b} \subseteq Segments \X Builds
      BY HandlerParts
    <3>2. QED
      BY <1>6, <3>1 DEF Observe, TypeOK
  <2>3. QED
    BY <1>6, <2>1, <2>2 DEF Observe, TypeOK, plant
<1>7. CASE ListStale(b)
  <2>1. {s \in Segments : summaries[s].active} \ handlers[b].candidates \in SUBSET Segments
    OBVIOUS
  <2>2. handlers' \in [Builds -> Handler]
    BY <1>7, <2>1, NextLocal, StepIsLocal DEF ListStale
  <2>3. QED
    BY <1>7, <2>2 DEF ListStale, TypeOK, plant, tables
<1>8. CASE CompleteBuild(b)
  <2>1. runs' \in [Builds -> Run]
    <3>1. [runs[b] EXCEPT !.status = "completed", !.reported = handlers[b].candidates] \in Run
      BY HandlerParts DEF TypeOK, Run
    <3>2. QED
      BY <1>8, <3>1 DEF CompleteBuild, TypeOK
  <2>2. QED
    BY <1>8, <2>1, LeaveType DEF CompleteBuild, TypeOK, plant
<1>9. CASE SaveRefused(b)
  BY <1>9, FailType DEF SaveRefused, TypeOK
<1>10. CASE BuildRaises(b)
  BY <1>10, FailType, FaultType DEF BuildRaises
<1>11. CASE BuildDies(b)
  BY <1>11, LeaveType, FaultType DEF BuildDies, TypeOK, plant, tables
<1>12. QED
  BY <1>1, <1>2, <1>3, <1>4, <1>5, <1>6, <1>7, <1>8, <1>9, <1>10, <1>11 DEF BuildStep

LEMMA InitType == Init => TypeOK
BY IdleType, BoundsAssumption, SettingsAssumption DEF Init, TypeOK, Graph, EmptyGraph, Run

LEMMA StepType == TypeOK /\ [Next]_vars => TypeOK'
<1> SUFFICES ASSUME TypeOK, [Next]_vars PROVE TypeOK'
  OBVIOUS
<1>1. CASE Next
  BY <1>1, EditType, BuildType, StartType DEF Next
<1>2. CASE UNCHANGED vars
  BY <1>2 DEF vars, plant, tables, TypeOK
<1>3. QED
  BY <1>1, <1>2

\* Every table and every rebuild in flight has its type, however rebuilds interleave.
THEOREM TypeCorrect == Spec => []TypeOK
BY InitType, StepType, PTL DEF Spec

-----------------------------------------------------------------------------
(* The invariant is kept. *)

LEMMA InitInv == Init => IInv
<1> SUFFICES ASSUME Init PROVE IInv
  OBVIOUS
<1>1. TypeOK
  BY InitType
<1>2. /\ \A b \in Builds : /\ handlers[b].pc = "idle" /\ ~history[b].alone
                           /\ runs[b].status = "none"
      /\ \A s \in Segments : ~summaries[s].active
      /\ observations = {}
  BY DEF Init, Idle, NoHistory, NoCopies, NoSummary
<1>3. StoredFirst /\ CompletedRunObserved /\ AloneIsAlone
  BY <1>2 DEF StoredFirst, CompletedRunObserved, AloneIsAlone
<1>4. \A b \in Builds : HandlerInv(b)
  BY <1>2 DEF HandlerInv, RunFollows, ObservationsFollow, ClearedIsCurrent, MissingIsGone,
     ReadIsCurrent, SummariesFollow, SyncSteps
<1>5. QED
  BY <1>1, <1>3, <1>4 DEF IInv

\* A step of b leaves the others as they are, for none of them runs alone.
LEMMA OthersKeep ==
    ASSUME IInv, NEW b \in Builds, NEW c \in Builds \ {b},
           handlers[b].pc # "idle" \/ ~history'[c].alone,
           handlers'[c] = handlers[c], runs'[c] = runs[c],
           history'[c] = [history[c] EXCEPT !.alone = history'[c].alone],
           history'[c].alone => history[c].alone,
           UNCHANGED <<present, unresolved>>,
           \A s \in Segments : summaries[s].stored => summaries'[s].stored,
           \A s \in Segments : <<s, c>> \in observations' <=> <<s, c>> \in observations
    PROVE  HandlerInv(c)'
<1>1. ~history'[c].alone /\ history'[c].cleared = history[c].cleared
  BY DEF IInv, AloneIsAlone, TypeOK, History
<1>2. MissingIsGone(c)' /\ ReadIsCurrent(c)' /\ SummariesFollow(c)'
  BY <1>1 DEF MissingIsGone, ReadIsCurrent, SummariesFollow
<1>3. RunFollows(c) /\ ObservationsFollow(c) /\ ClearedIsCurrent(c)
  BY DEF IInv, HandlerInv
<1>4. RunFollows(c)' /\ ClearedIsCurrent(c)'
  BY <1>1, <1>3 DEF RunFollows, ClearedIsCurrent, Synchronises, AfterBuild
<1>5. ObservationsFollow(c)'
  BY <1>3, HandlerParts DEF IInv, ObservationsFollow, Synchronises, AfterBuild
<1>6. QED
  BY <1>2, <1>4, <1>5 DEF HandlerInv

\* The conjuncts that are not about one handler, when b keeps in flight, the runs stay as
\* they are, and only b is observed.
LEMMA GlobalKeep ==
    ASSUME IInv, NEW b \in Builds,
           handlers[b].pc # "idle", handlers'[b].pc # "idle",
           \A c \in Builds \ {b} : handlers'[c] = handlers[c],
           UNCHANGED <<runs, history>>,
           \A s \in Segments : summaries[s].stored => summaries'[s].stored,
           \A s \in Segments : summaries'[s].active => summaries'[s].stored,
           \A s \in Segments : <<s, b>> \in observations' => summaries'[s].stored,
           \A s \in Segments, c \in Builds \ {b} : <<s, c>> \in observations' <=> <<s, c>> \in observations
    PROVE  StoredFirst' /\ CompletedRunObserved' /\ AloneIsAlone'
<1>1. StoredFirst'
  <2>1. \A s \in Segments, c \in Builds : <<s, c>> \in observations' => summaries'[s].stored
    BY DEF IInv, StoredFirst
  <2>2. QED
    BY <2>1 DEF StoredFirst
<1>2. runs[b].status = "running"
  BY DEF IInv, HandlerInv, RunFollows
<1>3. CompletedRunObserved'
  <2> SUFFICES ASSUME NEW c \in Builds, runs[c].status = "completed", AfterBuild(c) = "collect"
               PROVE  /\ {s \in Segments : <<s, c>> \in observations'} = runs[c].reported
                      /\ \A s \in runs[c].reported : summaries'[s].stored
    BY DEF CompletedRunObserved, AfterBuild
  <2>1. c # b
    BY <1>2
  <2>2. /\ {s \in Segments : <<s, c>> \in observations} = runs[c].reported
        /\ \A s \in runs[c].reported : summaries[s].stored
    BY DEF IInv, CompletedRunObserved
  <2>3. QED
    BY <2>1, <2>2
<1>4. AloneIsAlone'
  BY DEF IInv, AloneIsAlone
<1>5. QED
  BY <1>1, <1>3, <1>4

\* So the invariant is kept by a step of b if it is kept for b.
LEMMA StepKeeps ==
    ASSUME IInv, TypeOK', NEW b \in Builds,
           handlers[b].pc # "idle", handlers'[b].pc # "idle",
           \A c \in Builds \ {b} : handlers'[c] = handlers[c],
           UNCHANGED <<present, unresolved, runs, history>>,
           \A s \in Segments : summaries[s].stored => summaries'[s].stored,
           \A s \in Segments : summaries'[s].active => summaries'[s].stored,
           \A s \in Segments : <<s, b>> \in observations' => summaries'[s].stored,
           \A s \in Segments, c \in Builds \ {b} : <<s, c>> \in observations' <=> <<s, c>> \in observations,
           HandlerInv(b)'
    PROVE  IInv'
<1>1. StoredFirst' /\ CompletedRunObserved' /\ AloneIsAlone'
  BY GlobalKeep
<1>2. ASSUME NEW c \in Builds \ {b} PROVE HandlerInv(c)'
  <2>1. history'[c] = [history[c] EXCEPT !.alone = history'[c].alone]
    BY DEF IInv, TypeOK, History
  <2>2. QED
    BY <2>1, OthersKeep
<1>3. QED
  BY <1>1, <1>2 DEF IInv

\* The same of a step that changes nothing but the handler.
LEMMA ReadKeeps ==
    ASSUME IInv, TypeOK', NEW b \in Builds,
           handlers[b].pc # "idle", handlers'[b].pc # "idle",
           \A c \in Builds \ {b} : handlers'[c] = handlers[c],
           UNCHANGED <<plant, tables, history>>,
           HandlerInv(b)'
    PROVE  IInv'
<1>1. /\ \A s \in Segments : summaries'[s].active => summaries'[s].stored
      /\ \A s \in Segments : <<s, b>> \in observations' => summaries'[s].stored
  BY DEF IInv, StoredFirst, tables
<1>2. UNCHANGED <<present, unresolved, runs, history, summaries, observations>>
  BY DEF plant, tables
<1>3. QED
  BY <1>1, <1>2, StepKeeps

\* A rebuild that is to synchronise extracts all there is, but for the fabric's own site.
LEMMA ScopeOfSynchronised ==
    ASSUME IInv, NEW b \in Builds, handlers[b].pc # "idle", Synchronises(b)
    PROVE  Scope(handlers[b]) = IF handlers[b].settings.restricted THEN SiteSegments ELSE Segments
<1>1. handlers[b].request \in Requests /\ Comparable(handlers[b].request)
  BY DEF IInv, HandlerInv, RunFollows, Synchronises, AfterBuild
<1>2. ~handlers[b].request.site
  BY <1>1, RequestsAssumption DEF Comparable
<1>3. QED
  BY <1>2 DEF Scope

LEMMA ExtractInv == ASSUME IInv, TypeOK', NEW b \in Builds, Extract(b) PROVE IInv'
<1> DEFINE nodes == present \cap Scope(handlers[b])
           g == [nodes |-> nodes, orphaned |-> nodes \cap OrphanSegments \cap unresolved]
<1>1. /\ handlers[b] \in Handler
      /\ handlers[b].pc = "extract"
      /\ UNCHANGED <<plant, tables, history>>
      /\ UNCHANGED <<present, unresolved, settings, graph, summaries, observations, runs>>
  BY HandlerParts DEF Extract, IInv, plant, tables
<1>2. /\ handlers'[b] = [handlers[b] EXCEPT !.pc = "build", !.inputs = g]
      /\ \A c \in Builds \ {b} : handlers'[c] = handlers[c]
  BY ExtractLocal DEF IInv
<1>3. /\ handlers'[b].pc = "build" /\ handlers'[b].inputs = g
      /\ handlers'[b].request = handlers[b].request
      /\ handlers'[b].settings = handlers[b].settings
  BY <1>1, <1>2 DEF Handler
<1>4. HandlerInv(b)
  BY DEF IInv
<1>5. RunFollows(b)' /\ ObservationsFollow(b)' /\ ClearedIsCurrent(b)'
  BY <1>1, <1>3, <1>4 DEF HandlerInv, RunFollows, ObservationsFollow, ClearedIsCurrent, SyncSteps
<1>6. MissingIsGone(b)'
  <2> SUFFICES ASSUME Synchronises(b), NEW s \in Segments,
                      s \notin nodes \/ (s \in OrphanSegments /\ s \notin unresolved)
               PROVE  Gone(b, s)
    BY <1>1, <1>3 DEF MissingIsGone, LacksOnlyGone, Gone, Synchronises, AfterBuild
  <2>1. QED
    BY <1>1, <1>4, ScopeOfSynchronised DEF HandlerInv, ClearedIsCurrent, Gone
<1>7. ReadIsCurrent(b)'
  BY <1>1, <1>3, <1>4 DEF HandlerInv, ReadIsCurrent, IsPlant, Scope, Synchronises, AfterBuild, SyncSteps
<1>8. SummariesFollow(b)'
  BY <1>3 DEF SummariesFollow
<1>9. QED
  BY <1>1, <1>2, <1>3, <1>5, <1>6, <1>7, <1>8, ReadKeeps DEF HandlerInv

LEMMA BuildInv == ASSUME IInv, TypeOK', NEW b \in Builds, BuildGraph(b) PROVE IInv'
<1>1. /\ handlers[b] \in Handler
      /\ handlers[b].pc = "build"
      /\ UNCHANGED <<present, unresolved, runs, history, summaries, observations>>
      /\ graph' = handlers[b].inputs /\ settings' = handlers[b].settings
  BY HandlerParts DEF BuildGraph, IInv
<1>2. /\ handlers'[b] = [handlers[b] EXCEPT !.pc = AfterBuild(b), !.inputs = EmptyGraph]
      /\ \A c \in Builds \ {b} : handlers'[c] = handlers[c]
  BY NextLocal, StepIsLocal DEF BuildGraph, IInv
<1>3. /\ handlers'[b].pc = AfterBuild(b)
      /\ handlers'[b].pc \in {"collect", "finish"}
      /\ handlers'[b].request = handlers[b].request
      /\ handlers'[b].settings = handlers[b].settings
  BY <1>1, <1>2 DEF Handler, AfterBuild
<1>4. HandlerInv(b)
  BY DEF IInv
<1>5. RunFollows(b)' /\ ClearedIsCurrent(b)'
  BY <1>1, <1>3, <1>4 DEF HandlerInv, RunFollows, ClearedIsCurrent, Synchronises, AfterBuild, SyncSteps
<1>6. ObservationsFollow(b)'
  BY <1>1, <1>3, <1>4 DEF HandlerInv, ObservationsFollow, Synchronises, AfterBuild
<1>7. MissingIsGone(b)'
  BY <1>1, <1>3, <1>4 DEF HandlerInv, MissingIsGone, LacksOnlyGone, Gone, Synchronises, AfterBuild
<1>8. ReadIsCurrent(b)'
  BY <1>1, <1>3, <1>4 DEF HandlerInv, ReadIsCurrent, IsPlant, Scope, Synchronises, AfterBuild, SyncSteps
<1>9. SummariesFollow(b)'
  BY <1>1, <1>3 DEF SummariesFollow, Synchronises, AfterBuild
<1>10. QED
  <2>1. HandlerInv(b)'
    BY <1>5, <1>6, <1>7, <1>8, <1>9 DEF HandlerInv
  <2>2. /\ \A s \in Segments : summaries'[s].active => summaries'[s].stored
        /\ \A s \in Segments : <<s, b>> \in observations' => summaries'[s].stored
    BY <1>1 DEF IInv, StoredFirst
  <2>3. QED
    BY <1>1, <1>2, <1>3, <2>1, <2>2, StepKeeps

LEMMA CollectInv == ASSUME IInv, TypeOK', NEW b \in Builds, CollectCandidates(b) PROVE IInv'
<1>1. /\ handlers[b] \in Handler
      /\ handlers[b].pc = "collect"
      /\ UNCHANGED <<plant, tables, history>>
      /\ UNCHANGED <<present, unresolved, settings, graph, summaries, observations, runs>>
  BY HandlerParts DEF CollectCandidates, IInv, plant, tables
<1>2. /\ handlers'[b] = [handlers[b] EXCEPT !.pc = "load", !.candidates = Candidates]
      /\ \A c \in Builds \ {b} : handlers'[c] = handlers[c]
  BY NextLocal, StepIsLocal DEF CollectCandidates, IInv
<1>3. /\ handlers'[b].pc = "load" /\ handlers'[b].candidates = Candidates
      /\ handlers'[b].request = handlers[b].request
      /\ handlers'[b].settings = handlers[b].settings
  BY <1>1, <1>2 DEF Handler
<1>4. HandlerInv(b) /\ Synchronises(b)
  BY <1>1 DEF IInv, HandlerInv, RunFollows, SyncSteps
<1>5. RunFollows(b)' /\ ObservationsFollow(b)' /\ ClearedIsCurrent(b)'
  BY <1>1, <1>3, <1>4 DEF HandlerInv, RunFollows, ObservationsFollow, ClearedIsCurrent,
     Synchronises, AfterBuild, SyncSteps
<1>6. MissingIsGone(b)'
  <2> SUFFICES ASSUME history[b].alone, NEW s \in Segments, s \notin Candidates
               PROVE  Gone(b, s)
    BY <1>1, <1>3 DEF MissingIsGone, Gone
  <2>1. LacksOnlyGone(b, graph) /\ Segments \ (present \cap unresolved) \subseteq history[b].cleared
    BY <1>1, <1>4 DEF HandlerInv, MissingIsGone, ClearedIsCurrent
  <2>2. QED
    BY <2>1 DEF LacksOnlyGone, Gone, Candidates
<1>7. ReadIsCurrent(b)'
  <2> SUFFICES ASSUME history[b].alone, ~history[b].edited
               PROVE  /\ IsPlant(b, graph)
                      /\ Candidates = present \cap Scope(handlers[b]) \cap unresolved
    BY <1>1, <1>3 DEF ReadIsCurrent, IsPlant, Scope
  <2>1. IsPlant(b, graph)
    BY <1>1, <1>4 DEF HandlerInv, ReadIsCurrent, SyncSteps
  <2>2. QED
    BY <2>1, HandlerParts DEF IsPlant, Candidates, IInv
<1>8. SummariesFollow(b)'
  BY <1>3 DEF SummariesFollow
<1>9. QED
  BY <1>1, <1>2, <1>3, <1>5, <1>6, <1>7, <1>8, ReadKeeps DEF HandlerInv

LEMMA LoadInv == ASSUME IInv, TypeOK', NEW b \in Builds, LoadSummaries(b) PROVE IInv'
<1>1. /\ handlers[b] \in Handler
      /\ handlers[b].pc = "load"
      /\ UNCHANGED <<plant, tables, history>>
      /\ UNCHANGED <<present, unresolved, settings, graph, summaries, observations, runs>>
  BY HandlerParts DEF LoadSummaries, IInv, plant, tables
<1>2. /\ handlers'[b] = [handlers[b] EXCEPT !.pc = "save", !.todo = handlers[b].candidates,
                                            !.copies = summaries]
      /\ \A c \in Builds \ {b} : handlers'[c] = handlers[c]
  BY NextLocal, StepIsLocal DEF LoadSummaries, IInv
<1>3. /\ handlers'[b].pc = "save" /\ handlers'[b].candidates = handlers[b].candidates
      /\ handlers'[b].todo = handlers[b].candidates /\ handlers'[b].copies = summaries
      /\ handlers'[b].request = handlers[b].request
      /\ handlers'[b].settings = handlers[b].settings
  BY <1>1, <1>2 DEF Handler
<1>4. HandlerInv(b)
  BY DEF IInv
<1>5. RunFollows(b)' /\ ObservationsFollow(b)' /\ ClearedIsCurrent(b)'
  BY <1>1, <1>3, <1>4 DEF HandlerInv, RunFollows, ObservationsFollow, ClearedIsCurrent,
     Synchronises, AfterBuild, SyncSteps
<1>6. MissingIsGone(b)'
  BY <1>1, <1>3, <1>4 DEF HandlerInv, MissingIsGone, Gone, Synchronises, AfterBuild
<1>7. ReadIsCurrent(b)'
  BY <1>1, <1>3, <1>4 DEF HandlerInv, ReadIsCurrent, IsPlant, Scope, Synchronises, AfterBuild, SyncSteps
<1>8. SummariesFollow(b)'
  BY <1>1, <1>3 DEF SummariesFollow
<1>9. QED
  BY <1>1, <1>2, <1>3, <1>5, <1>6, <1>7, <1>8, ReadKeeps DEF HandlerInv

LEMMA SaveInv ==
    ASSUME IInv, TypeOK', NEW b \in Builds, NEW s \in Segments, SaveSummary(b, s) PROVE IInv'
<1>1. /\ handlers[b] \in Handler
      /\ handlers[b].pc = "save" /\ s \in handlers[b].todo
      /\ UNCHANGED <<present, unresolved, settings, graph, observations, runs, history>>
  BY HandlerParts DEF SaveSummary, IInv, plant
<1>2. /\ handlers'[b] = [handlers[b] EXCEPT !.pc = "observe", !.todo = @ \ {s}, !.saved = {s}]
      /\ \A c \in Builds \ {b} : handlers'[c] = handlers[c]
      /\ summaries' = [summaries EXCEPT ![s] = Saved(b, s)]
      /\ Saved(b, s) \in Summary /\ Saved(b, s).stored /\ Saved(b, s).active
  BY SaveLocal DEF IInv
<1>3. /\ handlers'[b].pc = "observe" /\ handlers'[b].candidates = handlers[b].candidates
      /\ handlers'[b].todo = handlers[b].todo \ {s} /\ handlers'[b].saved = {s}
      /\ handlers'[b].copies = handlers[b].copies
      /\ handlers'[b].request = handlers[b].request
      /\ handlers'[b].settings = handlers[b].settings
  BY <1>1, <1>2 DEF Handler
<1>4. /\ summaries'[s].stored /\ summaries'[s].active
      /\ \A r \in Segments \ {s} : summaries'[r] = summaries[r]
  BY <1>2 DEF IInv, TypeOK
<1>5. HandlerInv(b)
  BY DEF IInv
<1>6. RunFollows(b)' /\ ClearedIsCurrent(b)'
  BY <1>1, <1>3, <1>5 DEF HandlerInv, RunFollows, ClearedIsCurrent, Synchronises, AfterBuild, SyncSteps
<1>7. ObservationsFollow(b)'
  BY <1>1, <1>3, <1>4, <1>5 DEF HandlerInv, ObservationsFollow
<1>8. MissingIsGone(b)'
  BY <1>1, <1>3, <1>5 DEF HandlerInv, MissingIsGone, Gone, Synchronises, AfterBuild
<1>9. ReadIsCurrent(b)'
  BY <1>1, <1>3, <1>5 DEF HandlerInv, ReadIsCurrent, IsPlant, Scope, Synchronises, AfterBuild, SyncSteps
<1>10. SummariesFollow(b)'
  BY <1>1, <1>3, <1>4, <1>5, HandlerParts
     DEF IInv, HandlerInv, SummariesFollow, Synchronises, AfterBuild
<1>11. QED
  <2>1. HandlerInv(b)'
    BY <1>6, <1>7, <1>8, <1>9, <1>10 DEF HandlerInv
  <2>2. /\ \A r \in Segments : summaries[r].stored => summaries'[r].stored
        /\ \A r \in Segments : summaries'[r].active => summaries'[r].stored
        /\ \A r \in Segments : <<r, b>> \in observations' => summaries'[r].stored
    BY <1>1, <1>4 DEF IInv, StoredFirst
  <2>3. QED
    BY <1>1, <1>2, <1>3, <2>1, <2>2, StepKeeps

LEMMA ObserveInv == ASSUME IInv, TypeOK', NEW b \in Builds, Observe(b) PROVE IInv'
<1>1. /\ handlers[b] \in Handler
      /\ handlers[b].pc = "observe"
      /\ UNCHANGED <<present, unresolved, settings, graph, summaries, runs, history>>
      /\ observations' = observations \cup (handlers[b].saved \X {b})
  BY HandlerParts DEF Observe, IInv, plant
<1>2. /\ handlers'[b] = [handlers[b] EXCEPT !.pc = "save", !.saved = {}]
      /\ \A c \in Builds \ {b} : handlers'[c] = handlers[c]
  BY NextLocal, StepIsLocal DEF Observe, IInv
<1>3. /\ handlers'[b].pc = "save" /\ handlers'[b].candidates = handlers[b].candidates
      /\ handlers'[b].todo = handlers[b].todo /\ handlers'[b].copies = handlers[b].copies
      /\ handlers'[b].request = handlers[b].request
      /\ handlers'[b].settings = handlers[b].settings
  BY <1>1, <1>2 DEF Handler
<1>4. /\ \A s \in Segments : <<s, b>> \in observations'
                             <=> (<<s, b>> \in observations \/ s \in handlers[b].saved)
      /\ \A s \in Segments, c \in Builds \ {b} : <<s, c>> \in observations' <=> <<s, c>> \in observations
  BY <1>1
<1>5. HandlerInv(b)
  BY DEF IInv
<1>6. RunFollows(b)' /\ ClearedIsCurrent(b)'
  BY <1>1, <1>3, <1>5 DEF HandlerInv, RunFollows, ClearedIsCurrent, Synchronises, AfterBuild, SyncSteps
<1>7. ObservationsFollow(b)'
  BY <1>1, <1>3, <1>4, <1>5 DEF HandlerInv, ObservationsFollow
<1>8. MissingIsGone(b)'
  BY <1>1, <1>3, <1>5 DEF HandlerInv, MissingIsGone, Gone, Synchronises, AfterBuild
<1>9. ReadIsCurrent(b)'
  BY <1>1, <1>3, <1>5 DEF HandlerInv, ReadIsCurrent, IsPlant, Scope, Synchronises, AfterBuild, SyncSteps
<1>10. SummariesFollow(b)'
  BY <1>1, <1>3, <1>5 DEF HandlerInv, SummariesFollow, Synchronises, AfterBuild
<1>11. QED
  <2>1. HandlerInv(b)'
    BY <1>6, <1>7, <1>8, <1>9, <1>10 DEF HandlerInv
  <2>2. /\ \A s \in Segments : summaries[s].stored => summaries'[s].stored
        /\ \A s \in Segments : summaries'[s].active => summaries'[s].stored
    BY <1>1 DEF IInv, StoredFirst
  <2>3. \A s \in Segments : <<s, b>> \in observations' => summaries'[s].stored
    BY <1>1, <1>4, <1>5 DEF IInv, StoredFirst, HandlerInv, ObservationsFollow
  <2>4. QED
    BY <1>1, <1>2, <1>3, <1>4, <2>1, <2>2, <2>3, StepKeeps

LEMMA ListStaleInv == ASSUME IInv, TypeOK', NEW b \in Builds, ListStale(b) PROVE IInv'
<1> DEFINE stale == {s \in Segments : summaries[s].active} \ handlers[b].candidates
<1>1. /\ handlers[b] \in Handler
      /\ handlers[b].pc = "save" /\ handlers[b].todo = {}
      /\ UNCHANGED <<plant, tables, history>>
      /\ UNCHANGED <<present, unresolved, settings, graph, summaries, observations, runs>>
  BY HandlerParts DEF ListStale, IInv, plant, tables
<1>2. /\ handlers'[b] = [handlers[b] EXCEPT !.pc = "resolve", !.copies = NoCopies, !.todo = stale]
      /\ \A c \in Builds \ {b} : handlers'[c] = handlers[c]
  <2>1. [handlers[b] EXCEPT !.pc = "resolve", !.copies = NoCopies, !.todo = stale] \in Handler
    BY NextLocal DEF IInv
  <2>2. Step(b, [handlers[b] EXCEPT !.pc = "resolve", !.copies = NoCopies, !.todo = stale])
    BY DEF ListStale
  <2>3. QED
    BY <2>1, <2>2, StepIsLocal DEF IInv
<1>3. /\ handlers'[b].pc = "resolve" /\ handlers'[b].candidates = handlers[b].candidates
      /\ handlers'[b].todo = stale
      /\ handlers'[b].request = handlers[b].request
      /\ handlers'[b].settings = handlers[b].settings
  BY <1>1, <1>2 DEF Handler
<1>4. HandlerInv(b)
  BY DEF IInv
<1>5. RunFollows(b)' /\ ObservationsFollow(b)' /\ ClearedIsCurrent(b)'
  BY <1>1, <1>3, <1>4 DEF HandlerInv, RunFollows, ObservationsFollow, ClearedIsCurrent,
     Synchronises, AfterBuild, SyncSteps
<1>6. MissingIsGone(b)'
  BY <1>1, <1>3, <1>4 DEF HandlerInv, MissingIsGone, Gone, Synchronises, AfterBuild
<1>7. ReadIsCurrent(b)'
  BY <1>1, <1>3, <1>4 DEF HandlerInv, ReadIsCurrent, IsPlant, Scope, Synchronises, AfterBuild, SyncSteps
<1>8. SummariesFollow(b)'
  <2> SUFFICES ASSUME history[b].alone, Synchronises(b)
               PROVE  \A s \in Segments : summaries[s].active <=> s \in handlers[b].candidates \cup stale
    BY <1>1, <1>3 DEF SummariesFollow, Synchronises, AfterBuild
  <2>1. \A s \in handlers[b].candidates : summaries[s].active
    BY <1>1, <1>4 DEF HandlerInv, SummariesFollow
  <2>2. QED
    BY <2>1
<1>9. QED
  BY <1>1, <1>2, <1>3, <1>5, <1>6, <1>7, <1>8, ReadKeeps DEF HandlerInv

LEMMA ResolveInv ==
    ASSUME IInv, TypeOK', NEW b \in Builds, NEW s \in Segments, ResolveStale(b, s) PROVE IInv'
<1>1. /\ handlers[b] \in Handler
      /\ handlers[b].pc = "resolve" /\ s \in handlers[b].todo
      /\ UNCHANGED <<present, unresolved, settings, graph, observations, runs, history>>
      /\ summaries' = [summaries EXCEPT ![s].active = FALSE]
  BY HandlerParts DEF ResolveStale, IInv, plant
<1>2. /\ handlers'[b] = [handlers[b] EXCEPT !.todo = @ \ {s}]
      /\ \A c \in Builds \ {b} : handlers'[c] = handlers[c]
  BY NextLocal, StepIsLocal DEF ResolveStale, IInv
<1>3. /\ handlers'[b].pc = "resolve" /\ handlers'[b].candidates = handlers[b].candidates
      /\ handlers'[b].todo = handlers[b].todo \ {s}
      /\ handlers'[b].request = handlers[b].request
      /\ handlers'[b].settings = handlers[b].settings
  BY <1>1, <1>2 DEF Handler
<1>4. /\ ~summaries'[s].active /\ summaries'[s].stored = summaries[s].stored
      /\ \A r \in Segments \ {s} : summaries'[r] = summaries[r]
  BY <1>1 DEF IInv, TypeOK, Summary
<1>5. HandlerInv(b)
  BY DEF IInv
<1>6. RunFollows(b)' /\ ClearedIsCurrent(b)'
  BY <1>1, <1>3, <1>5 DEF HandlerInv, RunFollows, ClearedIsCurrent, Synchronises, AfterBuild, SyncSteps
<1>7. ObservationsFollow(b)'
  BY <1>1, <1>3, <1>5 DEF HandlerInv, ObservationsFollow, Synchronises, AfterBuild
<1>8. MissingIsGone(b)'
  BY <1>1, <1>3, <1>5 DEF HandlerInv, MissingIsGone, Gone, Synchronises, AfterBuild
<1>9. ReadIsCurrent(b)'
  BY <1>1, <1>3, <1>5 DEF HandlerInv, ReadIsCurrent, IsPlant, Scope, Synchronises, AfterBuild, SyncSteps
<1>10. SummariesFollow(b)'
  <2> SUFFICES ASSUME history[b].alone, Synchronises(b), NEW r \in Segments
               PROVE  summaries'[r].active <=> r \in handlers[b].candidates \cup (handlers[b].todo \ {s})
    BY <1>1, <1>3 DEF SummariesFollow, Synchronises, AfterBuild
  <2>1. /\ handlers[b].todo \cap handlers[b].candidates = {}
        /\ summaries[r].active <=> r \in handlers[b].candidates \cup handlers[b].todo
    BY <1>1, <1>5 DEF HandlerInv, MissingIsGone, SummariesFollow
  <2>2. QED
    BY <1>1, <1>4, <2>1
<1>11. QED
  <2>1. HandlerInv(b)'
    BY <1>6, <1>7, <1>8, <1>9, <1>10 DEF HandlerInv
  <2>2. /\ \A r \in Segments : summaries[r].stored => summaries'[r].stored
        /\ \A r \in Segments : summaries'[r].active => summaries'[r].stored
        /\ \A r \in Segments : <<r, b>> \in observations' => summaries'[r].stored
    BY <1>1, <1>4 DEF IInv, StoredFirst
  <2>3. QED
    BY <1>1, <1>2, <1>3, <2>1, <2>2, StepKeeps

LEMMA StaleDoneInv == ASSUME IInv, TypeOK', NEW b \in Builds, StaleDone(b) PROVE IInv'
<1>1. /\ handlers[b] \in Handler
      /\ handlers[b].pc = "resolve" /\ handlers[b].todo = {}
      /\ UNCHANGED <<plant, tables, history>>
      /\ UNCHANGED <<present, unresolved, settings, graph, summaries, observations, runs>>
  BY HandlerParts DEF StaleDone, IInv, plant, tables
<1>2. /\ handlers'[b] = [handlers[b] EXCEPT !.pc = "finish"]
      /\ \A c \in Builds \ {b} : handlers'[c] = handlers[c]
  BY NextLocal, StepIsLocal DEF StaleDone, IInv
<1>3. /\ handlers'[b].pc = "finish" /\ handlers'[b].candidates = handlers[b].candidates
      /\ handlers'[b].request = handlers[b].request
      /\ handlers'[b].settings = handlers[b].settings
  BY <1>1, <1>2 DEF Handler
<1>4. HandlerInv(b)
  BY DEF IInv
<1>5. RunFollows(b)' /\ ObservationsFollow(b)' /\ ClearedIsCurrent(b)'
  BY <1>1, <1>3, <1>4 DEF HandlerInv, RunFollows, ObservationsFollow, ClearedIsCurrent,
     Synchronises, AfterBuild, SyncSteps
<1>6. MissingIsGone(b)'
  BY <1>3 DEF MissingIsGone
<1>7. ReadIsCurrent(b)'
  BY <1>1, <1>3, <1>4 DEF HandlerInv, ReadIsCurrent, IsPlant, Scope, Synchronises, AfterBuild, SyncSteps
<1>8. SummariesFollow(b)'
  BY <1>1, <1>3, <1>4 DEF HandlerInv, SummariesFollow, Synchronises, AfterBuild
<1>9. QED
  BY <1>1, <1>2, <1>3, <1>5, <1>6, <1>7, <1>8, ReadKeeps DEF HandlerInv

\* A rebuild that ends leaves no local state behind.
LEMMA LeaveKeeps ==
    ASSUME IInv, TypeOK', NEW b \in Builds, handlers[b].pc # "idle", Leave(b),
           UNCHANGED <<plant, graph, summaries, observations>>,
           \A c \in Builds \ {b} : runs'[c] = runs[c],
           runs'[b].comparable = runs[b].comparable,
           runs'[b].status \in {"running", "completed", "failed"},
           runs'[b].status = "completed"
              => handlers[b].pc = "finish" /\ runs'[b].reported = handlers[b].candidates
    PROVE  IInv'
<1>1. /\ handlers'[b] = Idle /\ history'[b] = NoHistory
      /\ \A c \in Builds \ {b} : handlers'[c] = handlers[c] /\ history'[c] = history[c]
  BY IdleType, StepIsLocal DEF IInv, TypeOK, Leave
<1>2. handlers'[b].pc = "idle" /\ ~history'[b].alone
  BY <1>1 DEF Idle, NoHistory
<1>3. UNCHANGED <<present, unresolved, settings, graph, summaries, observations>>
  BY DEF plant
<1>4. HandlerInv(b)'
  BY <1>2 DEF HandlerInv, RunFollows, ObservationsFollow, ClearedIsCurrent, MissingIsGone,
     ReadIsCurrent, SummariesFollow, SyncSteps
<1>5. ASSUME NEW c \in Builds \ {b} PROVE HandlerInv(c)'
  <2>1. history'[c] = [history[c] EXCEPT !.alone = history'[c].alone]
    BY <1>1 DEF IInv, TypeOK, History
  <2>2. QED
    BY <1>1, <1>3, <2>1, OthersKeep
<1>6. StoredFirst' /\ AloneIsAlone'
  BY <1>1, <1>2, <1>3 DEF IInv, StoredFirst, AloneIsAlone
<1>7. CompletedRunObserved'
  <2> SUFFICES ASSUME NEW c \in Builds, runs'[c].status = "completed", AfterBuild(c)' = "collect"
               PROVE  /\ {s \in Segments : <<s, c>> \in observations} = runs'[c].reported
                      /\ \A s \in runs'[c].reported : summaries[s].stored
    BY <1>3 DEF CompletedRunObserved
  <2>1. CASE c = b
    <3>1. Synchronises(b)
      BY <2>1 DEF Synchronises, AfterBuild
    <3>2. /\ handlers[b].candidates \subseteq Segments
          /\ \A s \in Segments : <<s, b>> \in observations <=> s \in handlers[b].candidates
      BY <2>1, <3>1, HandlerParts DEF IInv, HandlerInv, ObservationsFollow
    <3>3. QED
      BY <2>1, <3>2 DEF IInv, StoredFirst
  <2>2. CASE c # b
    BY <2>2 DEF IInv, CompletedRunObserved, AfterBuild
  <2>3. QED
    BY <2>1, <2>2
<1>8. QED
  BY <1>4, <1>5, <1>6, <1>7 DEF IInv

LEMMA EndInv ==
    ASSUME IInv, TypeOK', NEW b \in Builds,
           CompleteBuild(b) \/ SaveRefused(b) \/ BuildRaises(b) \/ BuildDies(b)
    PROVE  IInv'
<1>1. handlers[b].pc # "idle"
  BY DEF CompleteBuild, SaveRefused, BuildRaises, BuildDies
<1>2. runs \in [Builds -> Run] /\ runs[b].status = "running"
  BY <1>1 DEF IInv, HandlerInv, RunFollows, TypeOK
<1>3. CASE CompleteBuild(b)
  <2>1. /\ runs'[b].comparable = runs[b].comparable /\ runs'[b].status = "completed"
        /\ runs'[b].reported = handlers[b].candidates
        /\ \A c \in Builds \ {b} : runs'[c] = runs[c]
    BY <1>2, <1>3 DEF CompleteBuild, Run
  <2>2. QED
    BY <1>1, <1>3, <2>1, LeaveKeeps DEF CompleteBuild
<1>4. CASE SaveRefused(b) \/ BuildRaises(b)
  <2>1. FailBuild(b)
    BY <1>4 DEF SaveRefused, BuildRaises
  <2>2. /\ runs'[b].comparable = runs[b].comparable /\ runs'[b].status = "failed"
        /\ \A c \in Builds \ {b} : runs'[c] = runs[c]
    BY <1>2, <2>1 DEF FailBuild, Run
  <2>3. QED
    BY <1>1, <2>1, <2>2, LeaveKeeps DEF FailBuild
<1>5. CASE BuildDies(b)
  BY <1>1, <1>2, <1>5, LeaveKeeps DEF BuildDies, tables
<1>6. QED
  BY <1>3, <1>4, <1>5

\* Whoever starts finds the others in flight, and from then on none of them is alone.
LEMMA StartInv ==
    ASSUME IInv, TypeOK', NEW b \in Builds, NEW request \in Requests, StartBuild(b, request)
    PROVE  IInv'
<1> DEFINE h == [Idle EXCEPT !.pc = "extract", !.request = request,
                             !.settings = Loaded(request)]
<1>1. /\ TypeOK /\ runs[b].status = "none"
      /\ UNCHANGED <<plant, graph, summaries, observations>>
      /\ UNCHANGED <<present, unresolved, settings>>
  BY DEF StartBuild, IInv, plant
<1>2. handlers[b].pc = "idle"
  BY <1>1 DEF IInv, HandlerInv, RunFollows
<1>3. /\ handlers'[b] = h
      /\ \A c \in Builds \ {b} : handlers'[c] = handlers[c]
  BY <1>1 DEF StartBuild, Step, TypeOK
<1>4. /\ handlers'[b].pc = "extract" /\ handlers'[b].request = request
      /\ handlers'[b].settings = Loaded(request)
  BY <1>3 DEF Idle
<1>5. /\ runs'[b].status = "running" /\ runs'[b].comparable = Comparable(request)
      /\ \A c \in Builds \ {b} : runs'[c] = runs[c]
  BY <1>1 DEF StartBuild, TypeOK, Run
<1>6. /\ history'[b] = [alone |-> InFlight = {}, edited |-> FALSE,
                        cleared |-> Segments \ (present \cap unresolved)]
      /\ \A c \in Builds \ {b} :
           history'[c] = IF c \in InFlight THEN [history[c] EXCEPT !.alone = FALSE] ELSE history[c]
  BY DEF StartBuild
<1>7. /\ history'[b].alone => InFlight = {}
      /\ history'[b].cleared = Segments \ (present \cap unresolved)
  <2>1. history'[b].alone = (InFlight = {})
    BY <1>6
  <2>2. history'[b].cleared = Segments \ (present \cap unresolved)
    BY <1>6
  <2>3. QED
    BY <2>1, <2>2, Zenon
<1>8. \A c \in Builds \ {b} : /\ history'[c] = [history[c] EXCEPT !.alone = history'[c].alone]
                              /\ ~history'[c].alone
  BY <1>1, <1>6 DEF IInv, TypeOK, History, AloneIsAlone, InFlight
<1>9. \A s \in Segments : <<s, b>> \notin observations
  BY <1>1 DEF IInv, HandlerInv, RunFollows
<1>10. HandlerInv(b)'
  <2>1. RunFollows(b)' /\ ObservationsFollow(b)' /\ ClearedIsCurrent(b)'
    BY <1>1, <1>4, <1>5, <1>7, <1>9 DEF RunFollows, ObservationsFollow, ClearedIsCurrent, SyncSteps
  <2>2. MissingIsGone(b)' /\ SummariesFollow(b)'
    BY <1>4 DEF MissingIsGone, SummariesFollow
  <2>3. ReadIsCurrent(b)'
    <3>1. request.fabric => handlers'[b].settings = settings'
      BY <1>1, <1>4 DEF Loaded
    <3>2. QED
      BY <1>4, <3>1 DEF ReadIsCurrent, SyncSteps
  <2>4. QED
    BY <2>1, <2>2, <2>3 DEF HandlerInv
<1>11. ASSUME NEW c \in Builds \ {b} PROVE HandlerInv(c)'
  BY <1>1, <1>3, <1>5, <1>8, OthersKeep
<1>12. StoredFirst'
  BY <1>1 DEF IInv, StoredFirst
<1>13. CompletedRunObserved'
  <2> SUFFICES ASSUME NEW c \in Builds, runs'[c].status = "completed", AfterBuild(c)' = "collect"
               PROVE  /\ {s \in Segments : <<s, c>> \in observations} = runs'[c].reported
                      /\ \A s \in runs'[c].reported : summaries[s].stored
    BY <1>1 DEF CompletedRunObserved
  <2>1. c # b
    BY <1>5
  <2>2. QED
    BY <1>5, <2>1 DEF IInv, CompletedRunObserved, AfterBuild
<1>14. AloneIsAlone'
  <2> SUFFICES ASSUME NEW c \in Builds, NEW d \in Builds, history'[c].alone
               PROVE  handlers'[d].pc # "idle" <=> d = c
    BY DEF AloneIsAlone
  <2>1. c = b /\ InFlight = {}
    BY <1>7, <1>8
  <2>2. handlers[d].pc = "idle"
    BY <2>1 DEF InFlight
  <2>3. CASE d = b
    BY <1>4, <2>1, <2>3
  <2>4. CASE d # b
    BY <1>3, <2>1, <2>2, <2>4
  <2>5. QED
    BY <2>3, <2>4
<1>15. QED
  BY <1>10, <1>11, <1>12, <1>13, <1>14 DEF IInv

\* An edit is noted by every rebuild in flight.
LEMMA EditInv == ASSUME IInv, TypeOK', EditStep PROVE IInv'
<1>1. PICK bad \in SUBSET Segments :
        /\ bad = present' \cap unresolved'
        /\ history' = Noted(bad)
        /\ UNCHANGED <<tables, handlers>>
  <2>1. present' \cap unresolved' \in SUBSET Segments
    BY DEF TypeOK
  <2>2. history' = Noted(present' \cap unresolved') /\ UNCHANGED <<tables, handlers>>
    BY DEF EditStep, AddOrRemoveSegment, BreakOrRepairSegment, EditFabric
  <2>3. QED
    BY <2>1, <2>2
<1>2. UNCHANGED <<graph, summaries, observations, runs>>
  BY <1>1 DEF tables
<1>3. \A b \in Builds : handlers[b].pc # "idle"
        => /\ history'[b].alone = history[b].alone /\ history'[b].edited
           /\ history'[b].cleared = history[b].cleared \cup (Segments \ bad)
  BY <1>1 DEF IInv, TypeOK, History, Noted, InFlight
<1>4. \A b \in Builds : handlers[b].pc = "idle" => history'[b] = history[b]
  BY <1>1 DEF Noted, InFlight
<1>5. \A b \in Builds : history'[b].alone = history[b].alone
  BY <1>3, <1>4
<1>6. StoredFirst' /\ CompletedRunObserved' /\ AloneIsAlone'
  BY <1>1, <1>2, <1>5 DEF IInv, StoredFirst, CompletedRunObserved, AloneIsAlone, AfterBuild
<1>7. ASSUME NEW b \in Builds PROVE HandlerInv(b)'
  <2>1. HandlerInv(b)
    BY DEF IInv
  <2>2. RunFollows(b)' /\ ObservationsFollow(b)' /\ SummariesFollow(b)'
    BY <1>1, <1>2, <1>5, <2>1 DEF HandlerInv, RunFollows, ObservationsFollow, SummariesFollow,
       Synchronises, AfterBuild
  <2>3. ClearedIsCurrent(b)'
    BY <1>1, <1>3 DEF ClearedIsCurrent
  <2>4. MissingIsGone(b)'
    <3>1. handlers[b].pc # "idle" => \A s \in Segments : Gone(b, s) => Gone(b, s)'
      BY <1>1, <1>3 DEF Gone
    <3>2. QED
      BY <1>1, <1>2, <1>5, <2>1, <3>1 DEF HandlerInv, MissingIsGone, LacksOnlyGone, Synchronises, AfterBuild
  <2>5. ReadIsCurrent(b)'
    <3>1. CASE handlers[b].pc = "idle"
      BY <1>1, <3>1 DEF ReadIsCurrent, SyncSteps
    <3>2. CASE handlers[b].pc # "idle"
      BY <1>3, <3>2 DEF ReadIsCurrent
    <3>3. QED
      BY <3>1, <3>2
  <2>6. QED
    BY <2>2, <2>3, <2>4, <2>5 DEF HandlerInv
<1>8. QED
  BY <1>6, <1>7 DEF IInv

LEMMA StepInv == IInv /\ [Next]_vars => IInv'
<1> SUFFICES ASSUME IInv, [Next]_vars PROVE IInv'
  OBVIOUS
<1>1. TypeOK'
  BY StepType DEF IInv
<1>2. CASE EditStep
  BY <1>1, <1>2, EditInv
<1>3. ASSUME NEW b \in Builds, BuildStep(b) PROVE IInv'
  BY <1>1, <1>3, ExtractInv, BuildInv, CollectInv, LoadInv, SaveInv, ObserveInv, ListStaleInv,
     ResolveInv, StaleDoneInv, EndInv DEF BuildStep
<1>4. ASSUME NEW b \in Builds, BuildRaises(b) \/ BuildDies(b) PROVE IInv'
  BY <1>1, <1>4, EndInv
<1>5. ASSUME NEW b \in Builds, NEW request \in Requests, StartBuild(b, request) PROVE IInv'
  BY <1>1, <1>5, StartInv
<1>6. CASE UNCHANGED vars
  <2>1. UNCHANGED <<present, unresolved, settings, graph, summaries, observations, runs,
                    handlers, history>>
    BY <1>6 DEF vars, plant, tables
  <2>2. StoredFirst' /\ CompletedRunObserved' /\ AloneIsAlone'
    BY <2>1 DEF IInv, StoredFirst, CompletedRunObserved, AloneIsAlone, AfterBuild
  <2>3. ASSUME NEW b \in Builds PROVE HandlerInv(b)'
    BY <2>1 DEF IInv, HandlerInv, RunFollows, ObservationsFollow, ClearedIsCurrent, MissingIsGone,
       ReadIsCurrent, SummariesFollow, LacksOnlyGone, Gone, IsPlant, Scope, Synchronises, AfterBuild
  <2>4. QED
    BY <1>1, <2>2, <2>3 DEF IInv
<1>7. QED
  BY <1>2, <1>3, <1>4, <1>5, <1>6 DEF Next

LEMMA Invariance == Spec => []IInv
BY InitInv, StepInv, PTL DEF Spec

-----------------------------------------------------------------------------
(* The properties. *)

\* sync_unresolved_state, however many of them overlap: a run that completes one has an
\* observation of each candidate it reports and of nothing else, in a summary that is stored.
THEOREM ObservedByCompletedRuns == Spec => []CompletedRunObserved
<1>1. IInv => CompletedRunObserved
  BY DEF IInv
<1>2. QED
  BY <1>1, Invariance, PTL

\* When sync_unresolved_state of a full rebuild that ran alone, without edits, is done, the
\* graph, the active summaries and the observations are what the plant is.
THEOREM SummariesMatch == Spec => []SummariesMatchPlant
<1>1. IInv => SummariesMatchPlant
  <2> SUFFICES ASSUME IInv, NEW b \in Builds,
                      handlers[b].pc = "finish", AfterBuild(b) = "collect",
                      history[b].alone, ~history[b].edited
               PROVE  /\ graph.nodes = present \cap Scope(handlers[b])
                      /\ {s \in Segments : summaries[s].active}
                           = present \cap Scope(handlers[b]) \cap unresolved
                      /\ {s \in Segments : <<s, b>> \in observations}
                           = present \cap Scope(handlers[b]) \cap unresolved
    BY DEF SummariesMatchPlant
  <2>1. HandlerInv(b) /\ Synchronises(b) /\ handlers[b].candidates \subseteq Segments
    BY HandlerParts DEF IInv, Synchronises
  <2>2. /\ graph.nodes = present \cap Scope(handlers[b])
        /\ handlers[b].candidates = present \cap Scope(handlers[b]) \cap unresolved
    BY <2>1 DEF HandlerInv, ReadIsCurrent, IsPlant
  <2>3. \A s \in Segments : /\ summaries[s].active <=> s \in handlers[b].candidates
                            /\ <<s, b>> \in observations <=> s \in handlers[b].candidates
    BY <2>1 DEF HandlerInv, SummariesFollow, ObservationsFollow
  <2>4. QED
    BY <2>1, <2>2, <2>3
<1>2. QED
  BY <1>1, Invariance, PTL

\* sync_unresolved_state, when it runs alone, marks only what was without a problem for a
\* moment, or is outside the site of the fabric.
THEOREM OnlyCleared == Spec => []OnlyClearedAreResolved
<1>1. IInv => OnlyClearedAreResolved
  <2> SUFFICES ASSUME IInv, NEW b \in Builds, handlers[b].pc = "resolve", history[b].alone,
                      NEW s \in handlers[b].todo
               PROVE  \/ s \in history[b].cleared
                      \/ handlers[b].settings.restricted /\ s \in Segments \ SiteSegments
    BY DEF OnlyClearedAreResolved
  <2>1. /\ HandlerInv(b) /\ handlers[b].pc \in SyncSteps
        /\ s \in Segments
    BY HandlerParts DEF IInv, SyncSteps
  <2>2. Synchronises(b)
    BY <2>1 DEF HandlerInv, RunFollows
  <2>3. s \notin handlers[b].candidates /\ Gone(b, s)
    BY <2>1, <2>2 DEF HandlerInv, MissingIsGone
  <2>4. QED
    BY <2>1, <2>3 DEF Gone
<1>2. QED
  BY <1>1, Invariance, PTL

\* sync_unresolved_state counts a reopening exactly when it makes a resolved summary active,
\* because the copy it saves is what is stored while no other rebuild is in flight.
THEOREM Reopened == Spec => ReopeningsAreCounted
<1> DEFINE Counted(s) == summaries'[s].reopened =
                           summaries[s].reopened
                           + IF ~summaries[s].active /\ summaries'[s].active THEN 1 ELSE 0
<1>1. IInv /\ [Next]_vars =>
        ((\A b \in InFlight : history[b].alone)
         => \A s \in Segments : summaries[s].stored => Counted(s))
  <2> SUFFICES ASSUME IInv, [Next]_vars, \A b \in InFlight : history[b].alone,
                      NEW s \in Segments, summaries[s].stored
               PROVE  Counted(s)
    OBVIOUS
  <2>1. summaries \in [Segments -> Summary] /\ summaries[s] \in Summary /\ summaries[s].reopened \in Nat
    BY DEF IInv, TypeOK, Summary
  <2>2. summaries'[s] = summaries[s] => Counted(s)
    BY <2>1
  <2>3. ASSUME NEW b \in Builds, NEW r \in Segments, SaveSummary(b, r) PROVE Counted(s)
    <3>1. CASE r # s
      BY <2>2, <2>3, <3>1 DEF SaveSummary
    <3>2. CASE r = s
      <4>1. handlers[b].pc = "save" /\ s \in handlers[b].todo /\ b \in InFlight
        BY <2>3, <3>2 DEF SaveSummary, InFlight
      <4>2. handlers[b].copies[s] = summaries[s]
        BY <4>1 DEF IInv, HandlerInv, RunFollows, SummariesFollow, SyncSteps
      <4>3. summaries'[s] = Refreshed(summaries[s])
        BY <2>1, <2>3, <3>2, <4>2 DEF SaveSummary
      <4>4. summaries'[s].active /\ summaries'[s].reopened = Reopenings(summaries[s])
        BY <2>1, <4>3, RefreshedType
      <4>5. QED
        BY <2>1, <4>4 DEF Reopenings
    <3>3. QED
      BY <3>1, <3>2
  <2>4. ASSUME NEW b \in Builds, NEW r \in Segments, ResolveStale(b, r) PROVE Counted(s)
    <3>1. CASE r # s
      BY <2>1, <2>2, <2>4, <3>1 DEF ResolveStale
    <3>2. CASE r = s
      <4>1. ~summaries'[s].active /\ summaries'[s].reopened = summaries[s].reopened
        BY <2>1, <2>4, <3>2 DEF ResolveStale, Summary
      <4>2. QED
        BY <2>1, <4>1
    <3>3. QED
      BY <3>1, <3>2
  <2>5. CASE UNCHANGED summaries
    BY <2>2, <2>5
  <2>6. QED
    BY <2>3, <2>4, <2>5
       DEF Next, EditStep, AddOrRemoveSegment, BreakOrRepairSegment, EditFabric, BuildStep, Extract,
           BuildGraph, CollectCandidates, LoadSummaries, Observe, ListStale, StaleDone, CompleteBuild,
           SaveRefused, BuildRaises, BuildDies, FailBuild, StartBuild, vars, tables
<1>2. QED
  BY <1>1, Invariance, PTL DEF Spec, ReopeningsAreCounted

\* build_graph writes back the settings it was given; in a rebuild of a named fabric that
\* runs alone, without edits, these are the fabric's own.
THEOREM KeepsSettings == Spec => RebuildKeepsSettings
<1> DEFINE Kept(b) ==
             (/\ handlers[b].pc = "build" /\ handlers[b].request.fabric
              /\ history[b].alone /\ ~history[b].edited)
             => settings' = settings \/ handlers'[b] = handlers[b]
<1>1. IInv /\ [Next]_vars => \A b \in Builds : Kept(b)
  <2> SUFFICES ASSUME IInv, [Next]_vars, NEW b \in Builds,
                      handlers[b].pc = "build", handlers[b].request.fabric,
                      history[b].alone, ~history[b].edited
               PROVE  settings' = settings \/ handlers'[b] = handlers[b]
    OBVIOUS
  <2>1. ASSUME NEW c \in Builds, BuildGraph(c)
        PROVE  settings' = settings \/ handlers'[b] = handlers[b]
    <3>1. CASE c = b
      BY <2>1, <3>1 DEF BuildGraph, IInv, HandlerInv, ReadIsCurrent
    <3>2. CASE c # b
      BY <2>1, <3>2 DEF BuildGraph, Step, IInv, TypeOK
    <3>3. QED
      BY <3>1, <3>2
  <2>2. CASE UNCHANGED settings \/ UNCHANGED handlers
    BY <2>2
  <2>3. QED
    BY <2>1, <2>2
       DEF Next, EditStep, AddOrRemoveSegment, BreakOrRepairSegment, EditFabric, BuildStep, Extract,
           CollectCandidates, LoadSummaries, SaveSummary, ResolveStale, Observe, ListStale, StaleDone,
           CompleteBuild, SaveRefused, BuildRaises, BuildDies, FailBuild, StartBuild, vars, plant
<1>2. QED
  BY <1>1, Invariance, PTL DEF Spec, RebuildKeepsSettings
=============================================================================

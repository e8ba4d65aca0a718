------------------------ MODULE AuditWorkflowProofs ------------------------
(***************************************************************************)
(* What holds of AuditWorkflow for every value of its constants: any number *)
(* of processes of each kind, problems, copies, runs and rebuilds, with or  *)
(* without overlap, and with handlers dying between two statements.         *)
(***************************************************************************)
EXTENDS AuditWorkflow, Integers, WellFoundedInduction, TLAPS

-----------------------------------------------------------------------------
(* Bounded sets of numbers. *)

LEMMA HasLeast ==
    ASSUME NEW S \in SUBSET Nat, S # {}
    PROVE  \E m \in S : \A n \in S : m <= n
<1> DEFINE R == {p \in Nat \X Nat : p[1] < p[2]}
<1>1. IsWellFoundedOn(R, Nat)
  BY NatLessThanWellFounded DEF OpToRel
<1>2. \E m \in S : \A n \in S : <<n, m>> \notin R
  BY <1>1, WFMin
<1>3. PICK m \in S : \A n \in S : <<n, m>> \notin R
  BY <1>2
<1>4. ASSUME NEW n \in S PROVE m <= n
  <2>1. n \in Nat /\ m \in Nat /\ <<n, m>> \notin R
    BY <1>3
  <2>2. ~ (n < m)
    BY <2>1
  <2>3. QED
    BY <2>1, <2>2
<1>5. QED
  BY <1>4

LEMMA HasGreatest ==
    ASSUME NEW N \in Nat, NEW S \in SUBSET (0 .. N), S # {}
    PROVE  \E m \in S : \A n \in S : n <= m
<1> DEFINE T == {k \in Nat : k <= N /\ N - k \in S}
<1>1. T \in SUBSET Nat /\ T # {}
  <2>1. PICK n \in S : TRUE
    OBVIOUS
  <2>2. N - n \in T
    BY <2>1
  <2>3. QED
    BY <2>2
<1>2. PICK k \in T : \A j \in T : k <= j
  BY <1>1, HasLeast
<1>3. \A n \in S : N - n \in T /\ n <= N - k
  BY <1>2
<1>4. QED
  BY <1>2, <1>3

-----------------------------------------------------------------------------
(* What the label of a process tells about its record. *)

LEMMA RequestShape ==
    ASSUME NEW x \in {Idle} \cup Request
    PROVE  /\ x.pc = "triage" => x \in Triaging
           /\ x.pc \in {"suppress", "create", "save_suppressed"} => x \in Suppressing
           /\ x.pc \in {"unsuppress", "save_unsuppressed"} => x \in Unsuppressing
           /\ x.pc = "deactivate" => x \in Deactivating
           /\ x.pc = "event" => x \in Recording
           /\ x.pc # "idle" => x \in Request
BY DEF Idle, Request, Triaging, Suppressing, Unsuppressing, Deactivating, Recording

LEMMA AuditShape ==
    ASSUME NEW x \in {Idle} \cup Audit
    PROVE  /\ x.pc = "evaluate" => x \in Evaluating
           /\ x.pc = "load" => x \in Loading
           /\ x.pc = "apply" => x \in Applying
           /\ x.pc # "idle" => x \in Audit
BY DEF Idle, Audit, Evaluating, Loading, Applying

LEMMA RetentionShape ==
    ASSUME NEW x \in {Idle} \cup Retention
    PROVE  /\ x.pc = "expire" => x \in Expiring
           /\ x.pc \in {"finding", "event"} => x \in Releasing
           /\ x.pc \in {"events", "runs"} => x \in Pruning
BY DEF Idle, Retention, Expiring, Releasing, Pruning

-----------------------------------------------------------------------------
(* Type correctness. *)

LEMMA InitType == Init => TypeOK
BY BoundsAssumption DEF Init, TypeOK, NoFinding, FindingRow, RunRefs, NoRun,
   SuppressionStates, RunStates

LEMMA RequestStartType ==
    ASSUME TypeOK, NEW q \in Requests, RequestStarts(q)
    PROVE  TypeOK'
<1> PICK r \in Rows : \/ \E op \in TriageOps : LoadForTriage(q, op, r)
                      \/ LoadToSuppress(q, r) \/ LoadToUnsuppress(q, r)
  BY DEF RequestStarts
<1>1. ASSUME NEW op \in TriageOps, LoadForTriage(q, op, r) PROVE TypeOK'
  <2>1. [pc |-> "triage", op |-> op, row |-> r, copy |-> findings[r]] \in Request
    BY DEF TypeOK, Request, Triaging
  <2>2. QED
    BY <1>1, <2>1 DEF LoadForTriage, TypeOK, GoTo, tables
<1>2. CASE LoadToSuppress(q, r)
  <2>1. [pc |-> "suppress", row |-> r] \in Request
    BY DEF Request, Suppressing
  <2>2. QED
    BY <1>2, <2>1 DEF LoadToSuppress, TypeOK, GoTo, tables
<1>3. CASE LoadToUnsuppress(q, r)
  <2>1. [pc |-> "unsuppress", row |-> r, copy |-> Partial(findings[r])] \in Request
    BY DEF TypeOK, Request, Unsuppressing, Partial, PartialCopy, FindingRow
  <2>2. QED
    BY <1>3, <2>1 DEF LoadToUnsuppress, TypeOK, GoTo, tables
<1>4. QED
  BY <1>1, <1>2, <1>3

LEMMA RequestStepType ==
    ASSUME TypeOK, NEW q \in Requests, RequestStep(q)
    PROVE  TypeOK'
<1>1. CASE SaveTriage(q)
  <2> DEFINE row == Triaged(req[q].op, req[q].copy)
  <2>1. req[q] \in Triaging
    BY <1>1, RequestShape DEF TypeOK, SaveTriage
  <2>2. row \in FindingRow
    BY <2>1 DEF Triaging, Triaged, TriageOps, FindingRow, Statuses
  <2>3. Event(req[q].row, row.status) \in Request
    BY <2>1, <2>2 DEF Event, Request, Recording, Triaging, FindingRow
  <2>4. QED
    BY <1>1, <2>1, <2>2, <2>3 DEF SaveTriage, TypeOK, GoTo, Triaging
<1>2. CASE RejectTriage(q)
  BY <1>2 DEF RejectTriage, TypeOK, GoTo, tables
<1>3. CASE LookupToSuppress(q)
  <2>1. req[q] \in Suppressing
    BY <1>3, RequestShape DEF TypeOK, LookupToSuppress
  <2>2. \A l \in {"create", "save_suppressed"} : [req[q] EXCEPT !.pc = l] \in Request
    BY <2>1 DEF Request, Suppressing
  <2>3. \E l \in {"create", "save_suppressed"} : req' = [req EXCEPT ![q].pc = l]
    BY <1>3 DEF LookupToSuppress
  <2>4. QED
    BY <1>3, <2>2, <2>3 DEF LookupToSuppress, TypeOK, tables
<1>4. CASE CreateSuppression(q)
  <2>1. req[q] \in Suppressing
    BY <1>4, RequestShape DEF TypeOK, CreateSuppression
  <2>2. [req[q] EXCEPT !.pc = "save_suppressed"] \in Request
    BY <2>1 DEF Request, Suppressing
  <2>3. sups' \in [Rows -> [SupIds -> SuppressionStates]]
    BY <1>4, <2>1 DEF CreateSuppression, TypeOK, Suppressing, SuppressionStates
  <2>4. QED
    BY <1>4, <2>2, <2>3 DEF CreateSuppression, TypeOK
<1>5. CASE SaveSuppressed(q)
  <2>1. req[q] \in Suppressing
    BY <1>5, RequestShape DEF TypeOK, SaveSuppressed
  <2>2. Event(req[q].row, "suppressed") \in Request
    BY <2>1 DEF Event, Request, Recording, Suppressing, Statuses
  <2>3. \A row \in FindingRow : Suppressed(row) \in FindingRow
    BY DEF Suppressed, FindingRow, Statuses
  <2>4. QED
    BY <1>5, <2>1, <2>2, <2>3 DEF SaveSuppressed, TypeOK, GoTo, Suppressing
<1>6. CASE LookupToUnsuppress(q)
  <2>1. req[q] \in Unsuppressing
    BY <1>6, RequestShape DEF TypeOK, LookupToUnsuppress
  <2>2. [req[q] EXCEPT !.pc = "save_unsuppressed"] \in Request
    BY <2>1 DEF Request, Unsuppressing
  <2>3. \A k \in SupIds : [pc |-> "deactivate", row |-> req[q].row, copy |-> req[q].copy,
                           sup |-> k] \in Request
    BY <2>1 DEF Request, Unsuppressing, Deactivating
  <2>4. QED
    BY <1>6, <2>2, <2>3 DEF LookupToUnsuppress, TypeOK, GoTo, tables
<1>7. CASE DeactivateSuppression(q)
  <2>1. req[q] \in Deactivating
    BY <1>7, RequestShape DEF TypeOK, DeactivateSuppression
  <2>2. [pc |-> "save_unsuppressed", row |-> req[q].row, copy |-> req[q].copy] \in Request
    BY <2>1 DEF Request, Unsuppressing, Deactivating
  <2>3. sups' \in [Rows -> [SupIds -> SuppressionStates]]
    BY <1>7, <2>1 DEF DeactivateSuppression, TypeOK, Deactivating, SuppressionStates
  <2>4. QED
    BY <1>7, <2>2, <2>3 DEF DeactivateSuppression, TypeOK, GoTo
<1>8. CASE SaveUnsuppressed(q)
  <2>1. req[q] \in Unsuppressing
    BY <1>8, RequestShape DEF TypeOK, SaveUnsuppressed
  <2>2. /\ Event(req[q].row, "open") \in Request
        /\ Event(req[q].row, req[q].copy.status) \in Request
    BY <2>1 DEF Event, Request, Recording, Unsuppressing, PartialCopy, Statuses
  <2>3. [findings[req[q].row] EXCEPT !.status = "open"] \in FindingRow
    BY <2>1 DEF TypeOK, Unsuppressing, FindingRow, Statuses
  <2>4. QED
    BY <1>8, <2>1, <2>2, <2>3 DEF SaveUnsuppressed, TypeOK, GoTo, Unsuppressing
<1>9. CASE RecordEvent(q)
  <2>1. req[q] \in Recording
    BY <1>9, RequestShape DEF TypeOK, RecordEvent
  <2>2. QED
    BY <1>9, <2>1 DEF RecordEvent, TypeOK, GoTo, Recording
<1>10. QED
  BY <1>1, <1>2, <1>3, <1>4, <1>5, <1>6, <1>7, <1>8, <1>9 DEF RequestStep

LEMMA AuditType ==
    ASSUME TypeOK, NEW a \in Auditors,
           StartAudit(a) \/ AuditStep(a) \/ FailAudit(a) \/ AuditDies(a)
    PROVE  TypeOK'
<1>1. CASE StartAudit(a)
  <2>1. \A id \in RunIds : [pc |-> "evaluate", run |-> id] \in Audit
    BY DEF Audit, Evaluating
  <2>2. QED
    BY <1>1, <2>1 DEF StartAudit, TypeOK, RunStates
<1>2. CASE Evaluate(a)
  <2>1. aud[a] \in Evaluating
    BY <1>2, AuditShape DEF TypeOK, Evaluate
  <2>2. Reported \in SUBSET Fingerprints
    BY BoundsAssumption DEF Reported, Fingerprint, Fingerprints, TypeOK
  <2>3. [pc |-> "load", run |-> aud[a].run, seen |-> Reported] \in Audit
    BY <2>1, <2>2 DEF Audit, Evaluating, Loading
  <2>4. QED
    BY <1>2, <2>3 DEF Evaluate, TypeOK, tables
<1>3. CASE LoadFindings(a)
  <2>1. aud[a] \in Loading
    BY <1>3, AuditShape DEF TypeOK, LoadFindings
  <2>2. aud'[a] \in Audit /\ aud' = [aud EXCEPT ![a] = aud'[a]]
    BY <1>3, <2>1 DEF LoadFindings, TypeOK, Audit, Loading, Applying, Loaded, Exists
  <2>3. QED
    BY <1>3, <2>2 DEF LoadFindings, TypeOK, tables
<1>4. ASSUME NEW r \in Rows, RefreshFinding(a, r) PROVE TypeOK'
  <2>1. aud[a] \in Applying
    BY <1>4, AuditShape DEF TypeOK, RefreshFinding
  <2>2. ASSUME NEW copy \in FindingRow, NEW b \in BOOLEAN
        PROVE  Refreshed(copy, aud[a].run, b) \in FindingRow
    BY <2>1 DEF Refreshed, FindingRow, Applying, RunRefs, Statuses
  <2>3. aud'[a] \in Audit /\ aud' = [aud EXCEPT ![a] = aud'[a]]
    BY <1>4, <2>1, <2>2 DEF RefreshFinding, TypeOK, Audit, Applying
  <2>4. QED
    BY <1>4, <2>3 DEF RefreshFinding, TypeOK, tables
<1>5. CASE CompleteAudit(a)
  <2>1. aud[a] \in Applying
    BY <1>5, AuditShape DEF TypeOK, CompleteAudit
  <2>2. /\ Opened(aud[a].run) \in FindingRow
        /\ \A row \in FindingRow : AutoResolved(row) \in FindingRow
    BY <2>1 DEF Applying, Opened, AutoResolved, FindingRow, Statuses, RunRefs
  <2>3. findings' \in [Rows -> FindingRow]
    BY <1>5, <2>1, <2>2 DEF CompleteAudit, TypeOK, Applying
  <2>4. trail' \in [Rows -> {"none"} \cup Statuses]
    BY <1>5, <2>1 DEF CompleteAudit, TypeOK, Applying, Statuses, FindingRow
  <2>5. QED
    BY <1>5, <2>3, <2>4 DEF CompleteAudit, TypeOK, RunStates
<1>6. CASE FailAudit(a)
  <2>1. faults' \in 0 .. MaxFaults
    BY <1>6, BoundsAssumption DEF FailAudit, Fault, TypeOK
  <2>2. runs' \in [RunIds -> RunStates]
    BY <1>6 DEF FailAudit, TypeOK, RunStates
  <2>3. QED
    BY <1>6, <2>1, <2>2 DEF FailAudit, TypeOK
<1>7. CASE AuditDies(a)
  BY <1>7, BoundsAssumption DEF AuditDies, Fault, TypeOK, tables
<1>8. QED
  BY <1>1, <1>2, <1>3, <1>4, <1>5, <1>6, <1>7 DEF AuditStep

LEMMA RetentionType ==
    ASSUME TypeOK, NEW t \in Retainers,
           StartRetention(t) \/ RetentionStep(t) \/ RetentionDies(t)
    PROVE  TypeOK'
<1>1. CASE StartRetention(t)
  <2>1. Due \in SUBSET Joined
    BY DEF Due, Join, Joined, Partial, PartialCopy, TypeOK, FindingRow
  <2>2. [pc |-> "expire", due |-> Due] \in Retention
    BY <2>1 DEF Retention, Expiring
  <2>3. QED
    BY <1>1, <2>2 DEF StartRetention, TypeOK, tables
<1>2. CASE ExpireSuppression(t)
  <2>1. ret[t] \in Expiring
    BY <1>2, RetentionShape DEF TypeOK, ExpireSuppression
  <2>2. PICK d \in ret[t].due :
           /\ sups' = [sups EXCEPT ![d.row][d.sup] = "off"]
           /\ ret' = [ret EXCEPT ![t] = [pc |-> "finding", due |-> ret[t].due \ {d},
                                         row |-> d.row, copy |-> d.copy]]
    BY <1>2 DEF ExpireSuppression
  <2>3. d \in Joined
    BY <2>1 DEF Expiring
  <2>4. [pc |-> "finding", due |-> ret[t].due \ {d}, row |-> d.row, copy |-> d.copy]
           \in Retention
    BY <2>1, <2>3 DEF Retention, Expiring, Releasing, Joined
  <2>5. sups' \in [Rows -> [SupIds -> SuppressionStates]]
    BY <2>2, <2>3 DEF TypeOK, Joined, SuppressionStates
  <2>6. QED
    BY <1>2, <2>2, <2>4, <2>5 DEF ExpireSuppression, TypeOK
<1>3. CASE ReopenExpired(t)
  <2>1. ret[t] \in Releasing
    BY <1>3, RetentionShape DEF TypeOK, ReopenExpired
  <2>2. /\ [ret[t] EXCEPT !.pc = "event"] \in Retention
        /\ [ret[t] EXCEPT !.pc = "event", !.copy.status = "open"] \in Retention
    BY <2>1 DEF Retention, Releasing, PartialCopy, Statuses
  <2>3. [findings[ret[t].row] EXCEPT !.status = "open"] \in FindingRow
    BY <2>1 DEF TypeOK, Releasing, FindingRow, Statuses
  <2>4. QED
    BY <1>3, <2>1, <2>2, <2>3 DEF ReopenExpired, TypeOK, Releasing
<1>4. CASE RecordExpiry(t)
  <2>1. ret[t] \in Releasing
    BY <1>4, RetentionShape DEF TypeOK, RecordExpiry
  <2>2. [pc |-> "expire", due |-> ret[t].due] \in Retention
    BY <2>1 DEF Retention, Releasing, Expiring
  <2>3. QED
    BY <1>4, <2>1, <2>2 DEF RecordExpiry, TypeOK, Releasing, PartialCopy
<1>5. CASE CollectActiveRuns(t)
  <2>1. ActiveRuns(findings) \in SUBSET RunIds
    BY DEF ActiveRuns
  <2>2. [pc |-> "events", keep |-> ActiveRuns(findings)] \in Retention
    BY <2>1 DEF Retention, Pruning
  <2>3. QED
    BY <1>5, <2>2 DEF CollectActiveRuns, TypeOK, tables
<1>6. CASE PruneEvents(t)
  <2>1. ret[t] \in Pruning
    BY <1>6, RetentionShape DEF TypeOK, PruneEvents
  <2>2. [ret[t] EXCEPT !.pc = "runs"] \in Retention
    BY <2>1 DEF Retention, Pruning
  <2>3. trail' \in [Rows -> {"none"} \cup Statuses]
    BY <1>6 DEF PruneEvents, TypeOK
  <2>4. QED
    BY <1>6, <2>2, <2>3 DEF PruneEvents, TypeOK
<1>7. CASE PruneRuns(t)
  <2>1. \A row \in FindingRow : Forget(row, Prunable(t)) \in FindingRow
    BY DEF Forget, FindingRow, RunRefs
  <2>2. QED
    BY <1>7, <2>1 DEF PruneRuns, TypeOK, RunStates
<1>8. CASE RetentionDies(t)
  BY <1>8, BoundsAssumption DEF RetentionDies, Fault, TypeOK, tables
<1>9. QED
  BY <1>1, <1>2, <1>3, <1>4, <1>5, <1>6, <1>7, <1>8 DEF RetentionStep

LEMMA EnvironmentType ==
    ASSUME TypeOK, Environment
    PROVE  TypeOK'
<1>1. CASE PlantChanges
  BY <1>1 DEF PlantChanges, TypeOK, tables
<1>2. CASE GraphRebuilt
  BY <1>2, BoundsAssumption DEF GraphRebuilt, TypeOK, tables
<1>3. ASSUME NEW r \in Rows, NEW k \in SupIds, SuppressionComesDue(r, k) PROVE TypeOK'
  BY <1>3 DEF SuppressionComesDue, TypeOK, SuppressionStates
<1>4. ASSUME NEW id \in RunIds, RunAges(id) PROVE TypeOK'
  BY <1>4 DEF RunAges, TypeOK, tables
<1>5. QED
  BY <1>1, <1>2, <1>3, <1>4 DEF Environment

\* Every handler leaves the tables, and the records of the handlers in flight, within
\* their types.
THEOREM TypeCorrect == Spec => []TypeOK
<1>1. ASSUME TypeOK, [Next]_vars PROVE TypeOK'
  <2>1. ASSUME NEW q \in Requests, RequestDies(q) PROVE TypeOK'
    BY <1>1, <2>1, BoundsAssumption DEF RequestDies, Fault, TypeOK, tables
  <2>2. CASE UNCHANGED vars
    BY <1>1, <2>2 DEF vars, tables, TypeOK
  <2>3. QED
    BY <1>1, <2>1, <2>2, RequestStartType, RequestStepType, AuditType, RetentionType,
       EnvironmentType DEF Next
<1>2. QED
  BY <1>1, InitType, PTL DEF Spec

-----------------------------------------------------------------------------
(* Consistency of the rows.  Handlers write back copies, so the copies have *)
(* to be consistent too, and the rows they are of have to exist.            *)

Consistent(row) == /\ row.status = "resolved" => ~row.active
                   /\ row.status = "suppressed" => row.active
                   /\ ~row.active => row.resolvedAt

RequestOK(x, table) ==
    /\ x.pc # "idle" => x.row \in Exists(table)
    /\ x.pc = "triage" => Consistent(x.copy) /\ x.copy.status # "none"

AuditOK(x) ==
    x.pc = "apply" => /\ \A r \in Exists(x.copies) : Consistent(x.copies[r])
                      /\ x.saved \cup x.todo \subseteq Exists(x.copies)

AuditCovers(x) ==
    x.pc = "apply" =>
        /\ \A r \in x.saved : x.copies[r].active
        /\ \A r \in x.saved \cup x.todo : r[1] \in x.seen
        /\ \A r \in Exists(x.copies) : r[1] \in x.seen
                                       => \E s \in x.saved \cup x.todo : s[1] = r[1]

RetentionOK(x, table) ==
    /\ x.pc \in {"expire", "finding", "event"} =>
          \A d \in x.due : WasSuppressed(d.copy) => d.row \in Exists(table)
    /\ x.pc = "finding" => (WasSuppressed(x.copy) => x.row \in Exists(table))

RequestsConsistent == \A q \in Requests : RequestOK(req[q], findings)
AuditsConsistent == \A a \in Auditors : AuditOK(aud[a])
AuditsCover == \A a \in Auditors : AuditCovers(aud[a])
JoinedExist == \A t \in Retainers : RetentionOK(ret[t], findings)

IInv == /\ TypeOK /\ RowConsistent
        /\ RequestsConsistent /\ AuditsConsistent /\ AuditsCover /\ JoinedExist

LEMMA RowConsistentDef == RowConsistent <=> \A r \in Exists(findings) : Consistent(findings[r])
BY DEF RowConsistent, Consistent

\* Every change of the table findings keeps its rows and leaves them consistent.
GoodWrite == /\ Exists(findings) \subseteq Exists(findings')
             /\ \A r \in Exists(findings') : Consistent(findings'[r])

LEMMA UnchangedWrites == IInv /\ UNCHANGED findings => GoodWrite
BY RowConsistentDef DEF IInv, GoodWrite, Exists

LEMMA OpenWrites ==
    ASSUME IInv, NEW r \in Exists(findings),
           findings' = [findings EXCEPT ![r].status = "open"]
    PROVE  GoodWrite
<1> DEFINE row == [findings[r] EXCEPT !.status = "open"]
<1>1. r \in Rows /\ findings[r] \in FindingRow /\ Consistent(findings[r])
  BY RowConsistentDef DEF IInv, TypeOK, Exists
<1>2. Consistent(row) /\ row.status # "none"
  BY <1>1 DEF Consistent, FindingRow
<1>3. findings' = [findings EXCEPT ![r] = row]
  OBVIOUS
<1>4. QED
  BY <1>2, <1>3, RowConsistentDef DEF IInv, GoodWrite, Exists, TypeOK

LEMMA RequestWrites ==
    ASSUME IInv, NEW q \in Requests, RequestStarts(q) \/ RequestStep(q) \/ RequestDies(q)
    PROVE  GoodWrite
<1> USE RowConsistentDef DEF IInv
<1>1. CASE SaveTriage(q)
  <2> DEFINE row == Triaged(req[q].op, req[q].copy)
  <2>1. req[q] \in Triaging /\ Consistent(req[q].copy) /\ req[q].copy.status # "none"
    BY <1>1, RequestShape DEF TypeOK, SaveTriage, RequestsConsistent, RequestOK
  <2>2. Consistent(row) /\ row.status # "none"
    BY <2>1 DEF Triaging, Triaged, TriageOps, Consistent, FindingRow
  <2>3. findings' = [findings EXCEPT ![req[q].row] = row]
    BY <1>1 DEF SaveTriage
  <2>4. QED
    BY <2>2, <2>3 DEF GoodWrite, Exists, TypeOK
<1>2. CASE SaveSuppressed(q)
  <2>1. ASSUME NEW row \in FindingRow
        PROVE  Consistent(Suppressed(row)) /\ Suppressed(row).status # "none"
    BY DEF Consistent, Suppressed, FindingRow
  <2>2. QED
    BY <1>2, <2>1 DEF SaveSuppressed, GoodWrite, Exists, TypeOK
<1>3. CASE SaveUnsuppressed(q)
  <2>1. req[q].row \in Exists(findings)
    BY <1>3 DEF RequestsConsistent, RequestOK, SaveUnsuppressed
  <2>2. \/ findings' = [findings EXCEPT ![req[q].row].status = "open"]
        \/ UNCHANGED findings
    BY <1>3 DEF SaveUnsuppressed
  <2>3. QED
    BY <2>1, <2>2, OpenWrites, UnchangedWrites
<1>4. CASE UNCHANGED findings
  BY <1>4, UnchangedWrites
<1>5. QED
  BY <1>1, <1>2, <1>3, <1>4
     DEF RequestStarts, RequestStep, RequestDies, LoadForTriage, LoadToSuppress,
         LoadToUnsuppress, RejectTriage, LookupToSuppress, CreateSuppression,
         LookupToUnsuppress, DeactivateSuppression, RecordEvent, tables

LEMMA AuditWrites ==
    ASSUME IInv, NEW a \in Auditors,
           StartAudit(a) \/ AuditStep(a) \/ FailAudit(a) \/ AuditDies(a)
    PROVE  GoodWrite
<1> USE RowConsistentDef DEF IInv
<1>1. CASE CompleteAudit(a)
  <2>1. /\ aud[a] \in Applying
        /\ \A r \in aud[a].saved : r \in Exists(aud[a].copies) /\ Consistent(aud[a].copies[r])
    BY <1>1, AuditShape DEF TypeOK, CompleteAudit, AuditsConsistent, AuditOK
  <2>2. /\ Consistent(Opened(aud[a].run)) /\ Opened(aud[a].run).status # "none"
        /\ \A row \in FindingRow : /\ Consistent(AutoResolved(row))
                                   /\ AutoResolved(row).status # "none"
    BY DEF Consistent, Opened, AutoResolved, FindingRow
  <2>3. QED
    BY <1>1, <2>1, <2>2 DEF CompleteAudit, GoodWrite, Exists, TypeOK
<1>2. CASE UNCHANGED findings
  BY <1>2, UnchangedWrites
<1>3. QED
  BY <1>1, <1>2 DEF StartAudit, AuditStep, FailAudit, AuditDies, Evaluate, LoadFindings,
                    RefreshFinding, tables

LEMMA RetentionWrites ==
    ASSUME IInv, NEW t \in Retainers,
           StartRetention(t) \/ RetentionStep(t) \/ RetentionDies(t)
    PROVE  GoodWrite
<1> USE RowConsistentDef DEF IInv
<1>1. CASE ReopenExpired(t)
  <2>1. WasSuppressed(ret[t].copy) => ret[t].row \in Exists(findings)
    BY <1>1 DEF JoinedExist, RetentionOK, ReopenExpired
  <2>2. \/ /\ WasSuppressed(ret[t].copy)
           /\ findings' = [findings EXCEPT ![ret[t].row].status = "open"]
        \/ UNCHANGED findings
    BY <1>1 DEF ReopenExpired
  <2>3. QED
    BY <2>1, <2>2, OpenWrites, UnchangedWrites
<1>2. CASE PruneRuns(t)
  <2>1. ASSUME NEW row \in FindingRow
        PROVE  /\ Consistent(row) => Consistent(Forget(row, Prunable(t)))
               /\ Forget(row, Prunable(t)).status = row.status
    BY DEF Forget, FindingRow, Consistent
  <2>2. QED
    BY <1>2, <2>1 DEF PruneRuns, GoodWrite, Exists, TypeOK
<1>3. CASE UNCHANGED findings
  BY <1>3, UnchangedWrites
<1>4. QED
  BY <1>1, <1>2, <1>3 DEF StartRetention, RetentionStep, RetentionDies, ExpireSuppression,
                          RecordExpiry, CollectActiveRuns, PruneEvents, tables

LEMMA StepWrites ==
    ASSUME IInv, [Next]_vars
    PROVE  GoodWrite
<1>1. CASE Environment \/ UNCHANGED vars
  <2>1. UNCHANGED findings
    BY <1>1 DEF Environment, PlantChanges, GraphRebuilt, SuppressionComesDue, RunAges,
                vars, tables
  <2>2. QED
    BY <2>1, UnchangedWrites
<1>2. QED
  BY <1>1, RequestWrites, AuditWrites, RetentionWrites DEF Next

\* All requests but q stay as they are.
OnlyRequest(q) == \A p \in Requests \ {q} : req'[p] = req[p]

LEMMA RequestsPersist ==
    ASSUME IInv, GoodWrite, NEW q \in Requests, OnlyRequest(q),
           RequestOK(req'[q], findings')
    PROVE  RequestsConsistent'
BY DEF IInv, OnlyRequest, GoodWrite, RequestsConsistent, RequestOK

LEMMA RequestsConsistentStep ==
    ASSUME IInv, [Next]_vars
    PROVE  RequestsConsistent'
<1> USE DEF IInv
<1>0. GoodWrite
  BY StepWrites
<1>1. ASSUME NEW q \in Requests, RequestStarts(q) PROVE RequestsConsistent'
  <2> PICK r \in Rows : \/ \E op \in TriageOps : LoadForTriage(q, op, r)
                        \/ LoadToSuppress(q, r) \/ LoadToUnsuppress(q, r)
    BY <1>1 DEF RequestStarts
  <2>1. r \in Exists(findings) /\ Consistent(findings[r]) /\ UNCHANGED findings
    BY RowConsistentDef DEF LoadForTriage, LoadToSuppress, LoadToUnsuppress, tables
  <2>2. /\ OnlyRequest(q)
        /\ req'[q].row = r /\ (req'[q].pc = "triage" => req'[q].copy = findings[r])
    BY DEF LoadForTriage, LoadToSuppress, LoadToUnsuppress, GoTo, OnlyRequest, TypeOK
  <2>3. RequestOK(req'[q], findings')
    BY <2>1, <2>2 DEF RequestOK, Exists
  <2>4. QED
    BY <1>0, <2>2, <2>3, RequestsPersist
<1>2. ASSUME NEW q \in Requests, RequestStep(q) PROVE RequestsConsistent'
  <2>1. req[q].row \in Exists(findings) /\ req[q].row \in Exists(findings')
    BY <1>0, <1>2
       DEF GoodWrite, RequestsConsistent, RequestOK, RequestStep, SaveTriage, RejectTriage,
           LookupToSuppress, CreateSuppression, SaveSuppressed, LookupToUnsuppress,
           DeactivateSuppression, SaveUnsuppressed, RecordEvent
  <2>2. /\ OnlyRequest(q)
        /\ req'[q].pc = "idle" \/ (req'[q].pc # "triage" /\ req'[q].row = req[q].row)
    <3>1. CASE SaveTriage(q) \/ RejectTriage(q) \/ SaveSuppressed(q) \/ SaveUnsuppressed(q)
                 \/ RecordEvent(q) \/ DeactivateSuppression(q)
      BY <3>1 DEF SaveTriage, RejectTriage, SaveSuppressed, SaveUnsuppressed, RecordEvent,
                  DeactivateSuppression, GoTo, Event, Idle, OnlyRequest, TypeOK
    <3>2. CASE LookupToSuppress(q) \/ CreateSuppression(q)
      <4>1. req[q] \in Suppressing
        BY <3>2, RequestShape DEF TypeOK, LookupToSuppress, CreateSuppression
      <4>2. PICK l \in {"create", "save_suppressed"} : req' = [req EXCEPT ![q].pc = l]
        BY <3>2 DEF LookupToSuppress, CreateSuppression
      <4>3. QED
        BY <4>1, <4>2 DEF Suppressing, OnlyRequest, TypeOK
    <3>3. CASE LookupToUnsuppress(q)
      <4>1. req[q] \in Unsuppressing
        BY <3>3, RequestShape DEF TypeOK, LookupToUnsuppress
      <4>2. QED
        BY <3>3, <4>1 DEF Unsuppressing, LookupToUnsuppress, GoTo, OnlyRequest, TypeOK
    <3>4. QED
      BY <1>2, <3>1, <3>2, <3>3 DEF RequestStep
  <2>3. QED
    BY <1>0, <2>1, <2>2, RequestsPersist DEF RequestOK
<1>3. ASSUME NEW q \in Requests, RequestDies(q) PROVE RequestsConsistent'
  BY <1>0, <1>3, RequestsPersist DEF RequestDies, RequestOK, Idle, OnlyRequest, TypeOK
<1>4. CASE UNCHANGED req
  BY <1>0, <1>4 DEF RequestsConsistent, RequestOK, GoodWrite
<1>5. QED
  BY <1>1, <1>2, <1>3, <1>4
     DEF Next, vars, tables, StartAudit, AuditStep, FailAudit, AuditDies, Evaluate,
         LoadFindings, RefreshFinding, CompleteAudit, StartRetention, RetentionStep,
         RetentionDies, ExpireSuppression, ReopenExpired, RecordExpiry, CollectActiveRuns,
         PruneEvents, PruneRuns, Environment, PlantChanges, GraphRebuilt,
         SuppressionComesDue, RunAges

\* The newest of the copies of a fingerprint is the one the loop works on.
LEMMA SomeLoaded ==
    ASSUME NEW copies \in [Rows -> FindingRow], NEW r \in Exists(copies)
    PROVE  \E s \in Loaded(copies) : s[1] = r[1]
<1> DEFINE S == {n \in 1 .. MaxCopies : <<r[1], n>> \in Exists(copies)}
<1>1. r = <<r[1], r[2]>> /\ r[1] \in Fingerprints /\ r[2] \in 1 .. MaxCopies
  BY DEF Exists, Rows
<1>2. S \in SUBSET (0 .. MaxCopies) /\ S # {}
  BY <1>1, BoundsAssumption
<1>3. PICK m \in S : \A n \in S : n <= m
  BY <1>2, BoundsAssumption, HasGreatest
<1>4. ASSUME NEW s \in Exists(copies), s[1] = r[1] PROVE s[2] <= m
  <2>1. s = <<r[1], s[2]>> /\ s[2] \in 1 .. MaxCopies
    BY <1>4 DEF Exists, Rows
  <2>2. s[2] \in S
    BY <2>1
  <2>3. QED
    BY <1>3, <2>2
<1>5. <<r[1], m>> \in Loaded(copies)
  BY <1>3, <1>4 DEF Loaded
<1>6. QED
  BY <1>5

\* All audits but a stay as they are.
OnlyAudit(a) == \A b \in Auditors \ {a} : aud'[b] = aud[b]

LEMMA AuditsStep ==
    ASSUME IInv, [Next]_vars
    PROVE  AuditsConsistent' /\ AuditsCover'
<1> USE DEF IInv
<1>1. ASSUME NEW a \in Auditors, LoadFindings(a) PROVE AuditsConsistent' /\ AuditsCover'
  <2>1. aud[a] \in Loading
    BY <1>1, AuditShape DEF TypeOK, LoadFindings
  <2>2. /\ OnlyAudit(a)
        /\ aud'[a] = [pc |-> "apply", run |-> aud[a].run, seen |-> aud[a].seen,
                      copies |-> findings,
                      todo |-> {r \in Loaded(findings) : r[1] \in aud[a].seen},
                      saved |-> {}, reopened |-> {}]
    BY <1>1 DEF LoadFindings, OnlyAudit, TypeOK
  <2>3. AuditOK(aud'[a])
    BY <2>2, RowConsistentDef DEF AuditOK, Loaded
  <2>4. AuditCovers(aud'[a])
    BY <2>2, SomeLoaded DEF AuditCovers, TypeOK
  <2>5. QED
    BY <2>2, <2>3, <2>4 DEF OnlyAudit, AuditsConsistent, AuditsCover
<1>2. ASSUME NEW a \in Auditors, NEW r \in Rows, RefreshFinding(a, r)
      PROVE  AuditsConsistent' /\ AuditsCover'
  <2> DEFINE row == Refreshed(aud[a].copies[r], aud[a].run, ActiveSuppressions(r) # {})
  <2>1. aud[a] \in Applying /\ r \in aud[a].todo
    BY <1>2, AuditShape DEF TypeOK, RefreshFinding
  <2>2. AuditOK(aud[a]) /\ AuditCovers(aud[a]) /\ r \in Exists(aud[a].copies)
    BY <1>2, <2>1 DEF AuditsConsistent, AuditsCover, AuditOK, RefreshFinding
  <2>3. aud[a].copies[r] \in FindingRow /\ Consistent(aud[a].copies[r])
        /\ aud[a].copies[r].status # "none"
    BY <2>1, <2>2, <1>2 DEF Applying, AuditOK, RefreshFinding, Exists
  <2>4. Consistent(row) /\ row.active /\ row.status # "none"
    BY <2>3 DEF Refreshed, WasResolved, Consistent, FindingRow
  <2>5. /\ OnlyAudit(a)
        /\ aud'[a].pc = "apply" /\ aud'[a].seen = aud[a].seen
        /\ aud'[a].copies = [aud[a].copies EXCEPT ![r] = row]
        /\ aud'[a].todo = aud[a].todo \ {r}
        /\ aud'[a].saved = aud[a].saved \cup {r}
    BY <1>2, <2>1 DEF RefreshFinding, OnlyAudit, TypeOK, Applying
  <2>6. /\ \A s \in Rows : aud'[a].copies[s] = IF s = r THEN row ELSE aud[a].copies[s]
        /\ aud'[a].saved \cup aud'[a].todo = aud[a].saved \cup aud[a].todo
        /\ Exists(aud'[a].copies) = Exists(aud[a].copies)
    <3>1. \A s \in Rows : aud'[a].copies[s] = IF s = r THEN row ELSE aud[a].copies[s]
      BY <2>1, <2>5 DEF Applying
    <3>2. Exists(aud'[a].copies) = Exists(aud[a].copies)
      BY <2>2, <2>4, <3>1 DEF Exists
    <3>3. QED
      BY <2>1, <2>5, <3>1, <3>2
  <2>7. AuditOK(aud'[a])
    <3>1. \A s \in Exists(aud[a].copies) : s \in Rows /\ Consistent(aud[a].copies[s])
      BY <1>2, <2>2 DEF AuditOK, RefreshFinding, Exists
    <3>2. aud[a].saved \cup aud[a].todo \subseteq Exists(aud[a].copies)
      BY <1>2, <2>2 DEF AuditOK, RefreshFinding
    <3>3. QED
      BY <2>4, <2>6, <3>1, <3>2 DEF AuditOK
  <2>8. AuditCovers(aud'[a])
    <3>1. /\ \A s \in aud[a].saved : s \in Rows /\ aud[a].copies[s].active
          /\ \A s \in aud[a].saved \cup aud[a].todo : s[1] \in aud[a].seen
          /\ \A s \in Exists(aud[a].copies) : s[1] \in aud[a].seen
                => \E v \in aud[a].saved \cup aud[a].todo : v[1] = s[1]
      BY <1>2, <2>1, <2>2 DEF AuditCovers, RefreshFinding, Applying
    <3>2. \A s \in aud'[a].saved : aud'[a].copies[s].active
      BY <2>1, <2>4, <2>5, <2>6, <3>1
    <3>3. QED
      BY <2>5, <2>6, <3>1, <3>2 DEF AuditCovers
  <2>9. QED
    BY <2>5, <2>7, <2>8 DEF OnlyAudit, AuditsConsistent, AuditsCover
<1>3. ASSUME NEW a \in Auditors,
             StartAudit(a) \/ Evaluate(a) \/ CompleteAudit(a) \/ FailAudit(a) \/ AuditDies(a)
      PROVE  AuditsConsistent' /\ AuditsCover'
  <2>1. OnlyAudit(a) /\ aud'[a].pc # "apply"
    BY <1>3 DEF StartAudit, Evaluate, CompleteAudit, FailAudit, AuditDies, Idle, OnlyAudit,
                TypeOK
  <2>2. QED
    BY <2>1 DEF OnlyAudit, AuditsConsistent, AuditsCover, AuditOK, AuditCovers
<1>4. CASE UNCHANGED aud
  BY <1>4 DEF AuditsConsistent, AuditsCover
<1>5. QED
  BY <1>1, <1>2, <1>3, <1>4
     DEF Next, AuditStep, vars, tables, RequestStarts, RequestStep, RequestDies,
         LoadForTriage, LoadToSuppress, LoadToUnsuppress, SaveTriage, RejectTriage,
         LookupToSuppress, CreateSuppression, SaveSuppressed, LookupToUnsuppress,
         DeactivateSuppression, SaveUnsuppressed, RecordEvent, StartRetention, RetentionStep,
         RetentionDies, ExpireSuppression, ReopenExpired, RecordExpiry, CollectActiveRuns,
         PruneEvents, PruneRuns, Environment, PlantChanges, GraphRebuilt,
         SuppressionComesDue, RunAges

\* All retention jobs but t stay as they are.
OnlyJob(t) == \A u \in Retainers \ {t} : ret'[u] = ret[u]

LEMMA DueExist ==
    ASSUME IInv, NEW d \in Due, WasSuppressed(d.copy)
    PROVE  d.row \in Exists(findings)
BY DEF Due, Join, Partial, WasSuppressed, Exists

LEMMA JoinedExistStep ==
    ASSUME IInv, [Next]_vars
    PROVE  JoinedExist'
<1> USE DEF IInv
<1>0. Exists(findings) \subseteq Exists(findings')
  BY StepWrites DEF GoodWrite
<1>1. ASSUME NEW t \in Retainers, OnlyJob(t), RetentionOK(ret'[t], findings')
      PROVE  JoinedExist'
  BY <1>0, <1>1 DEF JoinedExist, OnlyJob, RetentionOK
<1>2. ASSUME NEW t \in Retainers, StartRetention(t) PROVE JoinedExist'
  <2>1. OnlyJob(t) /\ ret'[t] = [pc |-> "expire", due |-> Due]
    BY <1>2 DEF StartRetention, OnlyJob, TypeOK
  <2>2. RetentionOK(ret'[t], findings')
    BY <1>0, <2>1, DueExist DEF RetentionOK
  <2>3. QED
    BY <1>1, <2>1, <2>2
<1>3. ASSUME NEW t \in Retainers, ExpireSuppression(t) PROVE JoinedExist'
  <2>1. /\ RetentionOK(ret[t], findings) /\ ret[t].pc = "expire"
    BY <1>3 DEF JoinedExist, ExpireSuppression
  <2>2. PICK d \in ret[t].due :
           ret' = [ret EXCEPT ![t] = [pc |-> "finding", due |-> ret[t].due \ {d},
                                      row |-> d.row, copy |-> d.copy]]
    BY <1>3 DEF ExpireSuppression
  <2>3. /\ OnlyJob(t)
        /\ ret'[t] = [pc |-> "finding", due |-> ret[t].due \ {d},
                      row |-> d.row, copy |-> d.copy]
    BY <2>2 DEF OnlyJob, TypeOK
  <2>4. RetentionOK(ret'[t], findings')
    BY <1>0, <2>1, <2>3 DEF RetentionOK
  <2>5. QED
    BY <1>1, <2>3, <2>4
<1>4. ASSUME NEW t \in Retainers, ReopenExpired(t) PROVE JoinedExist'
  <2>1. RetentionOK(ret[t], findings) /\ ret[t].pc = "finding" /\ ret[t] \in Releasing
    BY <1>4, RetentionShape DEF JoinedExist, ReopenExpired, TypeOK
  <2>2. OnlyJob(t) /\ ret'[t].pc = "event" /\ ret'[t].due = ret[t].due
    BY <1>4, <2>1 DEF ReopenExpired, OnlyJob, TypeOK, Releasing
  <2>3. RetentionOK(ret'[t], findings')
    BY <1>0, <2>1, <2>2 DEF RetentionOK
  <2>4. QED
    BY <1>1, <2>2, <2>3
<1>5. ASSUME NEW t \in Retainers, RecordExpiry(t) PROVE JoinedExist'
  <2>1. RetentionOK(ret[t], findings) /\ ret[t].pc = "event"
    BY <1>5 DEF JoinedExist, RecordExpiry
  <2>2. OnlyJob(t) /\ ret'[t].pc = "expire" /\ ret'[t].due = ret[t].due
    BY <1>5 DEF RecordExpiry, OnlyJob, TypeOK
  <2>3. RetentionOK(ret'[t], findings')
    BY <1>0, <2>1, <2>2 DEF RetentionOK
  <2>4. QED
    BY <1>1, <2>2, <2>3
<1>6. ASSUME NEW t \in Retainers,
             CollectActiveRuns(t) \/ PruneEvents(t) \/ PruneRuns(t) \/ RetentionDies(t)
      PROVE  JoinedExist'
  <2>1. CASE PruneEvents(t)
    <3>1. ret[t] \in Pruning
      BY <2>1, RetentionShape DEF PruneEvents, TypeOK
    <3>2. OnlyJob(t) /\ ret'[t].pc = "runs"
      BY <2>1, <3>1 DEF PruneEvents, OnlyJob, TypeOK, Pruning
    <3>3. QED
      BY <1>1, <3>2 DEF RetentionOK
  <2>2. CASE CollectActiveRuns(t) \/ PruneRuns(t) \/ RetentionDies(t)
    <3>1. OnlyJob(t) /\ ret'[t].pc \in {"events", "idle"}
      BY <2>2 DEF CollectActiveRuns, PruneRuns, RetentionDies, Idle, OnlyJob, TypeOK
    <3>2. QED
      BY <1>1, <3>1 DEF RetentionOK
  <2>3. QED
    BY <1>6, <2>1, <2>2
<1>7. CASE UNCHANGED ret
  BY <1>0, <1>7 DEF JoinedExist, RetentionOK
<1>8. QED
  BY <1>2, <1>3, <1>4, <1>5, <1>6, <1>7
     DEF Next, RetentionStep, vars, tables, RequestStarts, RequestStep, RequestDies,
         LoadForTriage, LoadToSuppress, LoadToUnsuppress, SaveTriage, RejectTriage,
         LookupToSuppress, CreateSuppression, SaveSuppressed, LookupToUnsuppress,
         DeactivateSuppression, SaveUnsuppressed, RecordEvent, StartAudit, AuditStep,
         FailAudit, AuditDies, Evaluate, LoadFindings, RefreshFinding, CompleteAudit,
         Environment, PlantChanges, GraphRebuilt, SuppressionComesDue, RunAges

LEMMA Invariance == Spec => []IInv
<1>1. Init => IInv
  BY InitType DEF Init, IInv, RowConsistent, RequestsConsistent, AuditsConsistent,
     AuditsCover, JoinedExist, RequestOK, AuditOK, AuditCovers, RetentionOK, Exists,
     NoFinding, Idle
<1>2. ASSUME IInv, [Next]_vars, TypeOK' PROVE IInv'
  <2>1. RowConsistent'
    BY <1>2, StepWrites DEF GoodWrite, RowConsistent, Consistent, Exists
  <2>2. QED
    BY <1>2, <2>1, RequestsConsistentStep, AuditsStep, JoinedExistStep DEF IInv
<1>3. QED
  BY <1>1, <1>2, TypeCorrect, PTL DEF Spec

\* However triage, suppression, audits and retention interleave, status, active and
\* resolved_at of a finding never contradict each other, although each handler saves
\* another group of them, some from a stale copy.
THEOREM RowsConsistent == Spec => []RowConsistent
BY Invariance, PTL DEF IInv

-----------------------------------------------------------------------------
(* What an audit has reported is active when it commits. *)

LEMMA SomeInserted ==
    ASSUME TypeOK, NEW a \in Auditors, CompleteAudit(a), NEW fp \in New(a)
    PROVE  \E r \in Inserted(a) : r[1] = fp
<1> DEFINE S == {n \in 1 .. MaxCopies : <<fp, n>> \in Free}
<1>1. PICK r \in Free : r[1] = fp
  BY DEF CompleteAudit
<1>2. r = <<fp, r[2]>> /\ r[2] \in 1 .. MaxCopies
  BY <1>1 DEF Free, Rows
<1>3. S \in SUBSET Nat /\ S # {}
  BY <1>1, <1>2, BoundsAssumption
<1>4. PICK m \in S : \A n \in S : m <= n
  BY <1>3, HasLeast
<1>5. ASSUME NEW s \in Free, s[1] = fp PROVE m <= s[2]
  <2>1. s = <<fp, s[2]>> /\ s[2] \in 1 .. MaxCopies
    BY <1>5 DEF Free, Rows
  <2>2. s[2] \in S
    BY <2>1
  <2>3. QED
    BY <1>4, <2>2
<1>6. <<fp, m>> \in Inserted(a)
  BY <1>4, <1>5 DEF Inserted
<1>7. QED
  BY <1>6

LEMMA CompleteReports ==
    ASSUME IInv, NEW a \in Auditors, CompleteAudit(a), NEW fp \in aud[a].seen
    PROVE  \E r \in Rows : r[1] = fp /\ findings'[r].active
<1>1. /\ aud[a] \in Applying /\ aud[a].todo = {}
      /\ AuditOK(aud[a]) /\ AuditCovers(aud[a]) /\ aud[a].pc = "apply"
  BY AuditShape DEF IInv, TypeOK, CompleteAudit, AuditsConsistent, AuditsCover
<1>2. CASE fp \in New(a)
  <2>1. PICK r \in Inserted(a) : r[1] = fp
    BY <1>2, SomeInserted DEF IInv
  <2>2. r \in Rows /\ r \notin Exists(aud[a].copies)
    BY <2>1, <1>2 DEF Inserted, Free, New
  <2>3. r \notin aud[a].saved /\ r \notin Absent(a)
    BY <1>1, <2>2 DEF AuditOK, Absent, Loaded
  <2>4. findings'[r] = Opened(aud[a].run)
    BY <2>1, <2>2, <2>3 DEF CompleteAudit
  <2>5. QED
    BY <2>1, <2>2, <2>4 DEF Opened
<1>3. CASE fp \notin New(a)
  <2>1. PICK s \in Exists(aud[a].copies) : s[1] = fp
    BY <1>3 DEF New
  <2>2. PICK r \in aud[a].saved : r[1] = fp
    BY <1>1, <2>1 DEF AuditCovers
  <2>3. r \in Rows /\ aud[a].copies[r].active
    BY <1>1, <2>2 DEF AuditCovers, Applying
  <2>4. r \notin Absent(a) /\ r \notin Inserted(a)
    BY <1>1, <2>2 DEF AuditOK, Absent, Inserted, New
  <2>5. findings'[r] = aud[a].copies[r]
    BY <2>2, <2>3, <2>4 DEF CompleteAudit
  <2>6. QED
    BY <2>2, <2>3, <2>5
<1>4. QED
  BY <1>2, <1>3

\* When the transaction of a persistent audit commits, every finding its evaluation
\* reported has an active row, whatever other handlers did since it loaded the rows.
THEOREM ReportedStaysActive == Spec => ReportedIsActive
<1>1. IInv /\ [Next]_vars => [\A a \in Auditors : CompleteAudit(a) =>
          \A fp \in aud[a].seen : \E r \in Rows : r[1] = fp /\ findings'[r].active]_vars
  BY CompleteReports
<1>2. QED
  BY <1>1, Invariance, PTL DEF Spec, ReportedIsActive

-----------------------------------------------------------------------------
(***************************************************************************)
(* What holds of AuditWorkflow when one worker process runs every handler   *)
(* (~Overlap), for every value of the other constants.  While a handler is  *)
(* in flight no other one is, so that what it has read is still what the    *)
(* tables hold; handlers may die, unless a theorem says otherwise.          *)
(***************************************************************************)

-----------------------------------------------------------------------------
(* One process at a time.                                                   *)

RequestAlone(q) == /\ \A p \in Requests \ {q} : req[p].pc = "idle"
                   /\ \A a \in Auditors : aud[a].pc = "idle"
                   /\ \A t \in Retainers : ret[t].pc = "idle"
AuditAlone(a) == /\ \A q \in Requests : req[q].pc = "idle"
                 /\ \A b \in Auditors \ {a} : aud[b].pc = "idle"
                 /\ \A t \in Retainers : ret[t].pc = "idle"
JobAlone(t) == /\ \A q \in Requests : req[q].pc = "idle"
               /\ \A a \in Auditors : aud[a].pc = "idle"
               /\ \A u \in Retainers \ {t} : ret[u].pc = "idle"

OneAtATime == /\ \A q \in Requests : req[q].pc # "idle" => RequestAlone(q)
              /\ \A a \in Auditors : aud[a].pc # "idle" => AuditAlone(a)
              /\ \A t \in Retainers : ret[t].pc # "idle" => JobAlone(t)

\* A row is active unless it is resolved, and only a row that exists is suppressed.
RowsMatch ==
    \A r \in Rows :
        /\ findings[r].active <=> findings[r].status \notin {"none", "resolved"}
        /\ \A k \in SupIds : sups[r][k] # "none" => findings[r].status # "none"

\* suppress_audit_finding creates a suppression where it has found none active.
OneSuppression == \A r \in Rows : \A j, k \in ActiveSuppressions(r) : j = k

\* What a request has read is still so.
RequestFresh(q) ==
    /\ req[q].pc = "triage" => /\ req[q].copy = findings[req[q].row]
                               /\ ~Ignored(req[q].op, req[q].copy)
    /\ req[q].pc = "create" => ActiveSuppressions(req[q].row) = {}
    /\ req[q].pc = "save_suppressed" => ActiveSuppressions(req[q].row) # {}
    /\ req[q].pc \in {"unsuppress", "deactivate", "save_unsuppressed"}
          => req[q].copy = Partial(findings[req[q].row])
    /\ req[q].pc = "deactivate" => req[q].sup \in ActiveSuppressions(req[q].row)
    /\ req[q].pc = "save_unsuppressed" => ActiveSuppressions(req[q].row) = {}
    /\ req[q].pc = "event" => req[q].status = findings[req[q].row].status

\* The copies of an audit are the rows, as it will save those it has been through.
AuditFresh(a) ==
    /\ aud[a].pc # "idle" => runs[aud[a].run] = "running"
    /\ aud[a].pc = "apply" =>
          /\ \A r \in Rows \ aud[a].saved : aud[a].copies[r] = findings[r]
          /\ \A r \in aud[a].saved :
                aud[a].copies[r]
                  = Refreshed(findings[r], aud[a].run, ActiveSuppressions(r) # {})
          /\ aud[a].saved \cup aud[a].todo = {r \in Exists(findings) : r[1] \in aud[a].seen}
          /\ aud[a].saved \cap aud[a].todo = {}
          /\ aud[a].reopened = {r \in aud[a].saved : WasResolved(findings[r])}

\* The due suppressions are still due, and their findings as the query joined them;
\* the runs to keep are still those that active findings name.
JobFresh(t) ==
    /\ ret[t].pc \in {"expire", "finding", "event"} =>
          \A d \in ret[t].due : /\ sups[d.row][d.sup] = "due"
                                /\ d.copy = Partial(findings[d.row])
    /\ ret[t].pc = "finding" => ret[t].copy = Partial(findings[ret[t].row])
    /\ ret[t].pc = "event" => ret[t].copy.status = findings[ret[t].row].status
    /\ ret[t].pc \in {"finding", "event"} => /\ ret[t].row \in Exists(findings)
                                             /\ ActiveSuppressions(ret[t].row) = {}
    /\ ret[t].pc \in {"events", "runs"} => ret[t].keep = ActiveRuns(findings)

\* The inductive invariant: SInv.
SerialTables == RowsMatch /\ OneRowPerFingerprint /\ OneSuppression
NothingStale == /\ \A q \in Requests : RequestFresh(q)
                /\ \A a \in Auditors : AuditFresh(a)
                /\ \A t \in Retainers : JobFresh(t)

SInv == /\ IInv /\ OneAtATime /\ SerialTables /\ NothingStale


-----------------------------------------------------------------------------
(* The handler that takes a step is the only one in flight.                 *)

LEMMA RequestTakesTurn ==
    ASSUME ~Overlap, SInv, NEW q \in Requests,
           RequestStarts(q) \/ RequestStep(q) \/ RequestDies(q)
    PROVE  RequestAlone(q) /\ OnlyRequest(q) /\ UNCHANGED <<aud, ret>>
<1>1. RequestAlone(q)
  BY DEF SInv, OneAtATime, RequestAlone, RequestStarts, LoadForTriage, LoadToSuppress,
         LoadToUnsuppress, CanStart, AllIdle, RequestDies, RequestStep, SaveTriage,
         RejectTriage, LookupToSuppress, CreateSuppression, SaveSuppressed,
         LookupToUnsuppress, DeactivateSuppression, SaveUnsuppressed, RecordEvent
<1>2. OnlyRequest(q) /\ UNCHANGED <<aud, ret>>
  BY DEF SInv, IInv, TypeOK, OnlyRequest, GoTo, RequestStarts, LoadForTriage, LoadToSuppress,
         LoadToUnsuppress, RequestDies, RequestStep, SaveTriage,
         RejectTriage, LookupToSuppress, CreateSuppression, SaveSuppressed,
         LookupToUnsuppress, DeactivateSuppression, SaveUnsuppressed, RecordEvent
<1>3. QED
  BY <1>1, <1>2

LEMMA AuditTakesTurn ==
    ASSUME ~Overlap, SInv, NEW a \in Auditors,
           StartAudit(a) \/ AuditStep(a) \/ FailAudit(a) \/ AuditDies(a)
    PROVE  AuditAlone(a) /\ OnlyAudit(a) /\ UNCHANGED <<req, ret>>
<1>1. AuditAlone(a)
  BY DEF SInv, OneAtATime, AuditAlone, StartAudit, CanStart, AllIdle, AuditStep, FailAudit,
         AuditDies, Evaluate, LoadFindings, RefreshFinding, CompleteAudit
<1>2. OnlyAudit(a) /\ UNCHANGED <<req, ret>>
  BY DEF SInv, IInv, TypeOK, OnlyAudit, StartAudit, AuditStep, FailAudit,
         AuditDies, Evaluate, LoadFindings, RefreshFinding, CompleteAudit
<1>3. QED
  BY <1>1, <1>2

LEMMA JobTakesTurn ==
    ASSUME ~Overlap, SInv, NEW t \in Retainers,
           StartRetention(t) \/ RetentionStep(t) \/ RetentionDies(t)
    PROVE  JobAlone(t) /\ OnlyJob(t) /\ UNCHANGED <<req, aud>>
<1>1. JobAlone(t)
  BY DEF SInv, OneAtATime, JobAlone, StartRetention, CanStart, AllIdle, RetentionStep,
         RetentionDies, ExpireSuppression, ReopenExpired, RecordExpiry, CollectActiveRuns,
         PruneEvents, PruneRuns
<1>2. OnlyJob(t) /\ UNCHANGED <<req, aud>>
  BY DEF SInv, IInv, TypeOK, OnlyJob, StartRetention, RetentionStep,
         RetentionDies, ExpireSuppression, ReopenExpired, RecordExpiry, CollectActiveRuns,
         PruneEvents, PruneRuns
<1>3. QED
  BY <1>1, <1>2

\* Once the one handler that moved has nothing stale, no handler has.
LEMMA RequestMoved ==
    ASSUME NEW q \in Requests, RequestAlone(q), OnlyRequest(q), UNCHANGED <<aud, ret>>,
           RequestFresh(q)'
    PROVE  OneAtATime' /\ NothingStale'
BY DEF RequestAlone, OnlyRequest, OneAtATime, AuditAlone, JobAlone, NothingStale, RequestFresh,
       AuditFresh, JobFresh

LEMMA AuditMoved ==
    ASSUME NEW a \in Auditors, AuditAlone(a), OnlyAudit(a), UNCHANGED <<req, ret>>,
           AuditFresh(a)'
    PROVE  OneAtATime' /\ NothingStale'
BY DEF RequestAlone, OnlyAudit, OneAtATime, AuditAlone, JobAlone, NothingStale, RequestFresh,
       AuditFresh, JobFresh

LEMMA JobMoved ==
    ASSUME NEW t \in Retainers, JobAlone(t), OnlyJob(t), UNCHANGED <<req, aud>>,
           JobFresh(t)'
    PROVE  OneAtATime' /\ NothingStale'
BY DEF RequestAlone, OnlyJob, OneAtATime, AuditAlone, JobAlone, NothingStale, RequestFresh,
       AuditFresh, JobFresh

-----------------------------------------------------------------------------
(* What the tables keep.                                                    *)

LEMMA TablesUnchanged ==
    ASSUME SerialTables, UNCHANGED <<findings, sups>>
    PROVE  SerialTables'
BY DEF SerialTables, RowsMatch, OneRowPerFingerprint, OneSuppression, ActiveSuppressions, Exists

\* A row written in place, with its active flag in line with its status.
LEMMA RowWritten ==
    ASSUME TypeOK, SerialTables, NEW r \in Exists(findings), NEW row,
           findings' = [findings EXCEPT ![r] = row], UNCHANGED sups,
           row.status # "none", row.active <=> row.status # "resolved"
    PROVE  SerialTables'
<1>1. /\ \A s \in Rows : findings'[s] = IF s = r THEN row ELSE findings[s]
      /\ Exists(findings') = Exists(findings)
  BY DEF TypeOK, Exists
<1>2. RowsMatch'
  BY <1>1 DEF SerialTables, RowsMatch, Exists
<1>3. OneRowPerFingerprint' /\ OneSuppression'
  BY <1>1 DEF SerialTables, OneRowPerFingerprint, OneSuppression, ActiveSuppressions
<1>4. QED
  BY <1>2, <1>3 DEF SerialTables

\* A suppression that is deactivated.
LEMMA SuppressionLifted ==
    ASSUME TypeOK, SerialTables, NEW r \in Rows, NEW k \in ActiveSuppressions(r),
           sups' = [sups EXCEPT ![r][k] = "off"], UNCHANGED findings
    PROVE  /\ SerialTables'
           /\ ActiveSuppressions(r)' = {}
           /\ \A s \in Rows : s # r => sups'[s] = sups[s]
<1>1. k \in SupIds /\ sups[r] \in [SupIds -> SuppressionStates]
  BY DEF TypeOK, ActiveSuppressions
<1>2. \A s \in Rows, j \in SupIds :
         sups'[s][j] = IF s = r /\ j = k THEN "off" ELSE sups[s][j]
  BY <1>1 DEF TypeOK
<1>3. \A s \in Rows : s # r => sups'[s] = sups[s]
  BY DEF TypeOK
<1>4. sups[r][k] # "none"
  BY DEF ActiveSuppressions
<1>5. RowsMatch'
  BY <1>1, <1>2, <1>4 DEF SerialTables, RowsMatch
<1>6. \A s \in Rows : ActiveSuppressions(s)' \subseteq ActiveSuppressions(s)
  BY <1>2 DEF ActiveSuppressions
<1>7. ActiveSuppressions(r)' = {}
  BY <1>1, <1>2 DEF SerialTables, OneSuppression, ActiveSuppressions
<1>8. OneRowPerFingerprint' /\ OneSuppression'
  BY <1>6 DEF SerialTables, OneRowPerFingerprint, OneSuppression, Exists
<1>9. QED
  BY <1>3, <1>5, <1>7, <1>8 DEF SerialTables

-----------------------------------------------------------------------------
(* Requests. *)

LEMMA RequestStartsFresh ==
    ASSUME SInv, NEW q \in Requests, RequestStarts(q)
    PROVE  SerialTables' /\ RequestFresh(q)'
<1> USE DEF SInv, IInv
<1> PICK r \in Rows : \/ \E op \in TriageOps : LoadForTriage(q, op, r)
                      \/ LoadToSuppress(q, r) \/ LoadToUnsuppress(q, r)
  BY DEF RequestStarts
<1>1. UNCHANGED <<findings, sups>>
  BY DEF LoadForTriage, LoadToSuppress, LoadToUnsuppress, tables
<1>2. \/ \E op \in TriageOps :
            /\ req'[q] = [pc |-> "triage", op |-> op, row |-> r, copy |-> findings[r]]
            /\ ~Ignored(op, findings[r])
      \/ req'[q] = [pc |-> "suppress", row |-> r]
      \/ req'[q] = [pc |-> "unsuppress", row |-> r, copy |-> Partial(findings[r])]
  BY DEF LoadForTriage, LoadToSuppress, LoadToUnsuppress, GoTo, TypeOK
<1>3. RequestFresh(q)'
  <2>1. ASSUME NEW op \in TriageOps, ~Ignored(op, findings[r]),
               req'[q] = [pc |-> "triage", op |-> op, row |-> r, copy |-> findings[r]]
        PROVE  RequestFresh(q)'
    <3>1. /\ req'[q].pc = "triage" /\ req'[q].op = op /\ req'[q].row = r
          /\ req'[q].copy = findings'[r] /\ ~Ignored(op, findings'[r])
      BY <1>1, <2>1
    <3>2. QED
      BY <3>1 DEF RequestFresh, Ignored
  <2>2. CASE req'[q] = [pc |-> "suppress", row |-> r]
    BY <2>2 DEF RequestFresh
  <2>3. CASE req'[q] = [pc |-> "unsuppress", row |-> r, copy |-> Partial(findings[r])]
    <3>1. /\ req'[q].pc = "unsuppress" /\ req'[q].row = r
          /\ req'[q].copy = Partial(findings'[r])
      BY <1>1, <2>3
    <3>2. QED
      BY <3>1 DEF RequestFresh, Partial
  <2>4. QED
    BY <1>2, <2>1, <2>2, <2>3
<1>4. QED
  BY <1>1, <1>3, TablesUnchanged

LEMMA RequestStepFresh ==
    ASSUME SInv, NEW q \in Requests, RequestStep(q)
    PROVE  SerialTables' /\ RequestFresh(q)'
<1> USE DEF SInv, IInv
<1>0. /\ RequestFresh(q) /\ TypeOK /\ SerialTables
      /\ req[q].pc # "idle" => req[q].row \in Exists(findings)
  BY DEF NothingStale, RequestsConsistent, RequestOK
<1>1. CASE SaveTriage(q)
  <2> DEFINE row == Triaged(req[q].op, req[q].copy)
  <2>1. req[q] \in Triaging /\ req[q].row \in Exists(findings)
    BY <1>0, <1>1, RequestShape DEF TypeOK, SaveTriage
  <2>2. req[q].copy = findings[req[q].row] /\ ~Ignored(req[q].op, req[q].copy)
    BY <1>0, <1>1 DEF RequestFresh, SaveTriage
  <2>3. req[q].copy.active <=> req[q].copy.status # "resolved"
    BY <1>0, <2>1, <2>2 DEF SerialTables, RowsMatch, Exists
  <2>4. row.status # "none" /\ (row.active <=> row.status # "resolved")
    BY <2>1, <2>2, <2>3 DEF Triaging, TriageOps, Triaged, Ignored, FindingRow
  <2>5. findings' = [findings EXCEPT ![req[q].row] = row] /\ UNCHANGED sups
    BY <1>1 DEF SaveTriage
  <2>6. SerialTables'
    BY <1>0, <2>1, <2>4, <2>5, RowWritten
  <2>7. req'[q] = Event(req[q].row, row.status)
    BY <1>0, <1>1 DEF SaveTriage, GoTo, TypeOK
  <2>8. findings'[req[q].row] = row
    BY <1>0, <2>1, <2>5 DEF TypeOK, Exists
  <2>9. RequestFresh(q)'
    BY <2>7, <2>8 DEF RequestFresh, Event
  <2>10. QED
    BY <2>6, <2>9
<1>2. CASE RejectTriage(q)
  <2>1. UNCHANGED <<findings, sups>> /\ req'[q] = Idle
    BY <1>0, <1>2 DEF RejectTriage, tables, GoTo, TypeOK
  <2>2. QED
    BY <1>0, <2>1, TablesUnchanged DEF RequestFresh, Idle
<1>3. CASE LookupToSuppress(q)
  <2>1. req[q] \in Suppressing
    BY <1>0, <1>3, RequestShape DEF TypeOK, LookupToSuppress
  <2>2. UNCHANGED <<findings, sups>>
    BY <1>3 DEF LookupToSuppress, tables
  <2>3. /\ req'[q].row = req[q].row
        /\ req'[q].pc = IF ActiveSuppressions(req[q].row) = {} THEN "create"
                        ELSE "save_suppressed"
    BY <1>0, <1>3, <2>1 DEF LookupToSuppress, TypeOK, Suppressing
  <2>4. RequestFresh(q)'
    BY <2>2, <2>3 DEF RequestFresh, ActiveSuppressions
  <2>5. QED
    BY <1>0, <2>2, <2>4, TablesUnchanged
<1>4. CASE CreateSuppression(q)
  <2> PICK r \in Exists(findings) : r = req[q].row
    BY <1>0, <1>4 DEF CreateSuppression
  <2>1. req[q] \in Suppressing /\ r \in Rows /\ ActiveSuppressions(r) = {}
    BY <1>0, <1>4, RequestShape DEF TypeOK, CreateSuppression, RequestFresh, Exists
  <2>2. PICK k \in SupIds : sups' = [sups EXCEPT ![r][k] = "live"]
    BY <1>4 DEF CreateSuppression
  <2>3. \A s \in Rows, j \in SupIds :
           sups'[s][j] = IF s = r /\ j = k THEN "live" ELSE sups[s][j]
    BY <1>0, <2>1, <2>2 DEF TypeOK
  <2>4. UNCHANGED findings
    BY <1>4 DEF CreateSuppression
  <2>5. RowsMatch'
    BY <1>0, <2>1, <2>3, <2>4 DEF SerialTables, RowsMatch, Exists
  <2>6. \A s \in Rows : s # r => ActiveSuppressions(s)' = ActiveSuppressions(s)
    BY <2>3 DEF ActiveSuppressions
  <2>7. ActiveSuppressions(r)' = {k}
    BY <2>1, <2>2, <2>3 DEF ActiveSuppressions
  <2>8. OneSuppression' /\ OneRowPerFingerprint'
    BY <1>0, <2>4, <2>6, <2>7 DEF SerialTables, OneSuppression, OneRowPerFingerprint, Exists
  <2>9. req'[q].pc = "save_suppressed" /\ req'[q].row = r
    BY <1>0, <1>4, <2>1 DEF CreateSuppression, TypeOK, Suppressing
  <2>10. RequestFresh(q)'
    BY <2>7, <2>9 DEF RequestFresh
  <2>11. QED
    BY <2>5, <2>8, <2>10 DEF SerialTables
<1>5. CASE SaveSuppressed(q)
  <2> DEFINE r == req[q].row
  <2>1. r \in Exists(findings) /\ r \in Rows /\ findings[r] \in FindingRow
    BY <1>0, <1>5 DEF TypeOK, SaveSuppressed, Exists
  <2>2. findings' = [findings EXCEPT ![r] = Suppressed(findings[r])] /\ UNCHANGED sups
    BY <1>5 DEF SaveSuppressed
  <2>3. /\ Suppressed(findings[r]).status = "suppressed"
        /\ Suppressed(findings[r]).active = TRUE
    BY <2>1 DEF Suppressed, FindingRow
  <2>4. SerialTables'
    BY <1>0, <2>1, <2>2, <2>3, RowWritten
  <2>5. req'[q] = Event(r, "suppressed")
    BY <1>0, <1>5 DEF SaveSuppressed, GoTo, TypeOK
  <2>6. findings'[r].status = "suppressed"
    BY <1>0, <2>1, <2>2, <2>3 DEF TypeOK
  <2>7. RequestFresh(q)'
    BY <2>5, <2>6 DEF RequestFresh, Event
  <2>8. QED
    BY <2>4, <2>7
<1>6. CASE LookupToUnsuppress(q)
  <2> PICK r \in Exists(findings) : r = req[q].row
    BY <1>0, <1>6 DEF LookupToUnsuppress
  <2>1. req[q] \in Unsuppressing /\ req[q].copy = Partial(findings[r])
    BY <1>0, <1>6, RequestShape DEF TypeOK, LookupToUnsuppress, RequestFresh
  <2>2. UNCHANGED <<findings, sups>>
    BY <1>6 DEF LookupToUnsuppress, tables
  <2>3. /\ req'[q].row = r /\ req'[q].copy = Partial(findings[r])
        /\ \/ req'[q].pc = "save_unsuppressed" /\ ActiveSuppressions(r) = {}
           \/ req'[q].pc = "deactivate" /\ req'[q].sup \in ActiveSuppressions(r)
    BY <1>0, <1>6, <2>1 DEF LookupToUnsuppress, TypeOK, Unsuppressing, GoTo, IsNewest
  <2>4. RequestFresh(q)'
    BY <2>1, <2>2, <2>3 DEF RequestFresh, ActiveSuppressions, Partial
  <2>5. QED
    BY <1>0, <2>2, <2>4, TablesUnchanged
<1>7. CASE DeactivateSuppression(q)
  <2> PICK r \in Exists(findings) : r = req[q].row
    BY <1>0, <1>7 DEF DeactivateSuppression
  <2>1. r \in Rows /\ req[q].copy = Partial(findings[r]) /\ req[q].sup \in ActiveSuppressions(r)
    BY <1>0, <1>7 DEF DeactivateSuppression, RequestFresh, Exists
  <2>2. sups' = [sups EXCEPT ![r][req[q].sup] = "off"] /\ UNCHANGED findings
    BY <1>7 DEF DeactivateSuppression
  <2>3. SerialTables' /\ ActiveSuppressions(r)' = {}
    BY <1>0, <2>1, <2>2, SuppressionLifted
  <2>4. req'[q] = [pc |-> "save_unsuppressed", row |-> r, copy |-> req[q].copy]
    BY <1>0, <1>7 DEF DeactivateSuppression, TypeOK, GoTo
  <2>5. RequestFresh(q)'
    BY <2>1, <2>2, <2>3, <2>4 DEF RequestFresh, Partial
  <2>6. QED
    BY <2>3, <2>5
<1>8. CASE SaveUnsuppressed(q)
  <2> DEFINE r == req[q].row
             row == [findings[r] EXCEPT !.status = "open"]
  <2>1. /\ r \in Exists(findings) /\ r \in Rows /\ findings[r] \in FindingRow
        /\ req[q].copy = Partial(findings[r])
    BY <1>0, <1>8 DEF TypeOK, SaveUnsuppressed, Exists, RequestFresh
  <2>2. CASE req[q].copy.active
    <3>1. findings' = [findings EXCEPT ![r] = row] /\ UNCHANGED sups
      BY <1>8, <2>2 DEF SaveUnsuppressed
    <3>2. row.status = "open" /\ row.active
      BY <2>1, <2>2 DEF Partial, FindingRow
    <3>3. SerialTables'
      BY <1>0, <2>1, <3>1, <3>2, RowWritten
    <3>4. req'[q] = Event(r, "open") /\ findings'[r].status = "open"
      BY <1>0, <1>8, <2>1, <2>2, <3>1, <3>2 DEF SaveUnsuppressed, GoTo, TypeOK
    <3>5. QED
      BY <3>3, <3>4 DEF RequestFresh, Event
  <2>3. CASE ~req[q].copy.active
    <3>1. UNCHANGED <<findings, sups>> /\ req'[q] = Event(r, req[q].copy.status)
      BY <1>0, <1>8, <2>3 DEF SaveUnsuppressed, GoTo, TypeOK
    <3>2. req[q].copy.status = findings[r].status
      BY <2>1 DEF Partial
    <3>3. RequestFresh(q)'
      BY <3>1, <3>2 DEF RequestFresh, Event
    <3>4. QED
      BY <1>0, <3>1, <3>3, TablesUnchanged
  <2>4. QED
    BY <2>2, <2>3
<1>9. CASE RecordEvent(q)
  <2>1. UNCHANGED <<findings, sups>> /\ req'[q] = Idle
    BY <1>0, <1>9 DEF RecordEvent, GoTo, TypeOK
  <2>2. QED
    BY <1>0, <2>1, TablesUnchanged DEF RequestFresh, Idle
<1>10. QED
  BY <1>1, <1>2, <1>3, <1>4, <1>5, <1>6, <1>7, <1>8, <1>9 DEF RequestStep

-----------------------------------------------------------------------------
(* Audits.  With one row per fingerprint the query loads every finding.     *)

LEMMA AllLoaded ==
    ASSUME NEW table, \A r, s \in Exists(table) : r[1] = s[1] => r = s
    PROVE  Loaded(table) = Exists(table)
<1>1. ASSUME NEW r \in Exists(table), NEW s \in Exists(table), s[1] = r[1] PROVE s[2] <= r[2]
  <2>1. s = r /\ r[2] \in Nat
    BY <1>1, BoundsAssumption DEF Exists, Rows
  <2>2. QED
    BY <2>1
<1>2. QED
  BY <1>1 DEF Loaded

\* What an audit about to commit knows, and what its commit makes of a row.
LEMMA CommitFacts ==
    ASSUME SInv, NEW a \in Auditors, CompleteAudit(a)
    PROVE  /\ aud[a] \in Applying /\ runs[aud[a].run] = "running"
           /\ aud[a].saved = {r \in Exists(findings) : r[1] \in aud[a].seen}
           /\ Exists(aud[a].copies) = Exists(findings)
           /\ Absent(a) = {r \in Exists(findings) : /\ r[1] \notin aud[a].seen
                                                    /\ findings[r].active}
           /\ \A r \in Inserted(a) : /\ r \in Rows /\ findings[r].status = "none"
                                     /\ r[1] \in aud[a].seen
                                     /\ \A s \in Exists(findings) : s[1] # r[1]
           /\ \A r, s \in Inserted(a) : r[1] = s[1] => r = s
           /\ \A r \in aud[a].saved :
                 findings'[r] = Refreshed(findings[r], aud[a].run, ActiveSuppressions(r) # {})
           /\ \A r \in Absent(a) : findings'[r] = AutoResolved(findings[r])
           /\ \A r \in Inserted(a) : findings'[r] = Opened(aud[a].run)
           /\ \A r \in Rows : r \notin aud[a].saved \cup Absent(a) \cup Inserted(a)
                                 => findings'[r] = findings[r]
<1> USE DEF SInv, IInv
<1>1. /\ aud[a] \in Applying /\ AuditFresh(a) /\ aud[a].pc = "apply" /\ aud[a].todo = {}
      /\ OneRowPerFingerprint /\ TypeOK
  BY AuditShape DEF TypeOK, CompleteAudit, NothingStale, SerialTables
<1>2. aud[a].saved = {r \in Exists(findings) : r[1] \in aud[a].seen}
  BY <1>1 DEF AuditFresh
<1>3. Exists(aud[a].copies) = Exists(findings)
  <2>1. ASSUME NEW r \in Rows
        PROVE  aud[a].copies[r].status # "none" <=> findings[r].status # "none"
    <3>1. CASE r \in aud[a].saved
      <4>1. findings[r] \in FindingRow /\ findings[r].status # "none"
        BY <1>1, <1>2, <3>1 DEF Exists, TypeOK
      <4>2. aud[a].copies[r] = Refreshed(findings[r], aud[a].run, ActiveSuppressions(r) # {})
        BY <1>1, <3>1 DEF AuditFresh
      <4>3. QED
        BY <4>1, <4>2 DEF Refreshed, FindingRow
    <3>2. CASE r \notin aud[a].saved
      BY <1>1, <3>2 DEF AuditFresh
    <3>3. QED
      BY <3>1, <3>2
  <2>2. QED
    BY <2>1 DEF Exists
<1>4. Loaded(aud[a].copies) = Exists(findings)
  BY <1>1, <1>3, AllLoaded DEF OneRowPerFingerprint
<1>5. Absent(a) = {r \in Exists(findings) : r[1] \notin aud[a].seen /\ findings[r].active}
  BY <1>1, <1>2, <1>4 DEF Absent, AuditFresh, Exists
<1>6. \A r \in Inserted(a) : /\ r \in Rows /\ findings[r].status = "none"
                             /\ r[1] \in aud[a].seen
                             /\ \A s \in Exists(findings) : s[1] # r[1]
  BY <1>3 DEF Inserted, Free, New
<1>7. ASSUME NEW r \in Inserted(a), NEW s \in Inserted(a), r[1] = s[1] PROVE r = s
  <2>1. r[2] <= s[2] /\ s[2] <= r[2]
    BY <1>7 DEF Inserted
  <2>2. r = <<r[1], r[2]>> /\ s = <<s[1], s[2]>> /\ r[2] \in Nat /\ s[2] \in Nat
    BY <1>6, BoundsAssumption DEF Rows
  <2>3. QED
    BY <1>7, <2>1, <2>2
<1>8. ASSUME NEW r \in aud[a].saved
      PROVE  findings'[r] = Refreshed(findings[r], aud[a].run, ActiveSuppressions(r) # {})
  <2>1. r \in Rows /\ r \notin Absent(a) /\ r \notin Inserted(a)
    BY <1>2, <1>5, <1>6 DEF Exists
  <2>2. findings'[r] = aud[a].copies[r]
    BY <2>1 DEF CompleteAudit
  <2>3. QED
    BY <1>1, <2>2 DEF AuditFresh
<1>9. ASSUME NEW r \in Absent(a) PROVE findings'[r] = AutoResolved(findings[r])
  <2>1. r \in Rows /\ r \notin aud[a].saved /\ r \notin Inserted(a)
    BY <1>2, <1>5, <1>6 DEF Exists
  <2>2. QED
    BY <2>1 DEF CompleteAudit
<1>10. \A r \in Inserted(a) : findings'[r] = Opened(aud[a].run)
  BY <1>2, <1>5, <1>6 DEF CompleteAudit, Exists
<1>11. \A r \in Rows : r \notin aud[a].saved \cup Absent(a) \cup Inserted(a)
                          => findings'[r] = findings[r]
  BY DEF CompleteAudit
<1>12. runs[aud[a].run] = "running"
  BY <1>1 DEF AuditFresh
<1>13. QED
  BY <1>1, <1>2, <1>3, <1>5, <1>6, <1>7, <1>8, <1>9, <1>10, <1>11, <1>12

LEMMA CommitKeepsTables ==
    ASSUME SInv, NEW a \in Auditors, CompleteAudit(a)
    PROVE  SerialTables'
<1>1. /\ TypeOK /\ RowsMatch /\ OneRowPerFingerprint /\ OneSuppression
      /\ \A r \in Exists(findings) : /\ r \in Rows /\ findings[r] \in FindingRow
                                     /\ findings[r].active <=> findings[r].status # "resolved"
  BY DEF SInv, IInv, SerialTables, RowsMatch, Exists, TypeOK
<1>2. ASSUME NEW r \in Rows
      PROVE  /\ findings'[r].active <=> findings'[r].status \notin {"none", "resolved"}
             /\ r \in Exists(findings) => findings'[r].status # "none"
             /\ findings'[r].status # "none" => r \in Exists(findings) \cup Inserted(a)
  <2>1. CASE r \in aud[a].saved
    <3>1. r \in Exists(findings)
      BY <2>1, CommitFacts
    <3>2. findings'[r] = Refreshed(findings[r], aud[a].run, ActiveSuppressions(r) # {})
      BY <2>1, CommitFacts
    <3>3. findings'[r].active = TRUE /\ findings'[r].status \notin {"none", "resolved"}
      <4>1. /\ findings[r] \in FindingRow /\ findings[r].status # "none"
            /\ findings[r].active <=> findings[r].status # "resolved"
        BY <1>1, <3>1 DEF Exists
      <4>2. QED
        BY <3>2, <4>1 DEF Refreshed, WasResolved, FindingRow
    <3>4. QED
      BY <3>1, <3>3
  <2>2. CASE r \in Absent(a)
    <3>1. r \in Exists(findings) /\ findings'[r] = AutoResolved(findings[r])
      BY <2>2, CommitFacts
    <3>2. findings'[r].active = FALSE /\ findings'[r].status = "resolved"
      BY <1>1, <3>1 DEF AutoResolved, FindingRow
    <3>3. QED
      BY <3>1, <3>2
  <2>3. CASE r \in Inserted(a)
    <3>1. findings'[r] = Opened(aud[a].run)
      BY <2>3, CommitFacts
    <3>2. QED
      BY <2>3, <3>1 DEF Opened
  <2>4. CASE r \notin aud[a].saved \cup Absent(a) \cup Inserted(a)
    <3>1. findings'[r] = findings[r]
      BY <2>4, CommitFacts
    <3>2. QED
      BY <1>1, <3>1 DEF RowsMatch, Exists
  <2>5. QED
    BY <2>1, <2>2, <2>3, <2>4
<1>3. UNCHANGED sups
  BY DEF CompleteAudit
<1>4. RowsMatch'
  BY <1>1, <1>2, <1>3 DEF RowsMatch, Exists
<1>5. Exists(findings') \subseteq Exists(findings) \cup Inserted(a)
  BY <1>2 DEF Exists
<1>6. OneRowPerFingerprint'
  BY <1>1, <1>5, CommitFacts DEF OneRowPerFingerprint
<1>7. OneSuppression'
  BY <1>1, <1>3 DEF OneSuppression, ActiveSuppressions
<1>8. QED
  BY <1>4, <1>6, <1>7 DEF SerialTables

LEMMA AuditFreshStep ==
    ASSUME SInv, NEW a \in Auditors,
           StartAudit(a) \/ AuditStep(a) \/ FailAudit(a) \/ AuditDies(a)
    PROVE  SerialTables' /\ AuditFresh(a)'
<1> USE DEF SInv, IInv
<1>0. AuditFresh(a) /\ TypeOK /\ SerialTables
  BY DEF NothingStale
<1>1. CASE StartAudit(a)
  <2>1. PICK id \in RunIds : /\ runs' = [runs EXCEPT ![id] = "running"]
                             /\ aud' = [aud EXCEPT ![a] = [pc |-> "evaluate", run |-> id]]
    BY <1>1 DEF StartAudit
  <2>2. aud'[a] = [pc |-> "evaluate", run |-> id] /\ runs'[id] = "running"
    BY <1>0, <2>1 DEF TypeOK
  <2>3. UNCHANGED <<findings, sups>>
    BY <1>1 DEF StartAudit
  <2>4. QED
    BY <1>0, <2>2, <2>3, TablesUnchanged DEF AuditFresh
<1>2. CASE Evaluate(a)
  <2>1. UNCHANGED <<findings, sups, runs>>
    BY <1>2 DEF Evaluate, tables
  <2>2. aud'[a].pc = "load" /\ aud'[a].run = aud[a].run
    BY <1>0, <1>2 DEF Evaluate, TypeOK
  <2>3. QED
    BY <1>0, <1>2, <2>1, <2>2, TablesUnchanged DEF AuditFresh, Evaluate
<1>3. CASE LoadFindings(a)
  <2>1. UNCHANGED <<findings, sups, runs>>
    BY <1>3 DEF LoadFindings, tables
  <2>2. aud'[a] = [pc |-> "apply", run |-> aud[a].run, seen |-> aud[a].seen,
                   copies |-> findings,
                   todo |-> {r \in Loaded(findings) : r[1] \in aud[a].seen},
                   saved |-> {}, reopened |-> {}]
    BY <1>0, <1>3 DEF LoadFindings, TypeOK
  <2>3. Loaded(findings) = Exists(findings)
    BY <1>0, AllLoaded DEF SerialTables, OneRowPerFingerprint
  <2>4. /\ aud'[a].pc = "apply" /\ aud'[a].copies = findings'
        /\ aud'[a].saved = {} /\ aud'[a].reopened = {}
        /\ aud'[a].todo = {r \in Exists(findings') : r[1] \in aud'[a].seen}
        /\ runs'[aud'[a].run] = "running"
    BY <1>0, <1>3, <2>1, <2>2, <2>3 DEF AuditFresh, LoadFindings
  <2>5. AuditFresh(a)'
    BY <2>4 DEF AuditFresh
  <2>6. QED
    BY <1>0, <2>1, <2>5, TablesUnchanged
<1>4. ASSUME NEW r \in Rows, RefreshFinding(a, r) PROVE SerialTables' /\ AuditFresh(a)'
  <2> DEFINE new(s) == Refreshed(findings[s], aud[a].run, ActiveSuppressions(s) # {})
  <2>1. UNCHANGED <<findings, sups, runs>>
    BY <1>4 DEF RefreshFinding, tables
  <2>2. aud[a] \in Applying /\ aud[a].pc = "apply" /\ r \in aud[a].todo
    BY <1>0, <1>4, AuditShape DEF TypeOK, RefreshFinding
  <2>3. r \notin aud[a].saved /\ aud[a].copies[r] = findings[r]
    BY <1>0, <2>2 DEF AuditFresh
  <2>4. /\ aud'[a].pc = "apply" /\ aud'[a].run = aud[a].run /\ aud'[a].seen = aud[a].seen
        /\ aud'[a].copies = [aud[a].copies EXCEPT ![r] = new(r)]
        /\ aud'[a].todo = aud[a].todo \ {r}
        /\ aud'[a].saved = aud[a].saved \cup {r}
        /\ aud'[a].reopened = IF WasResolved(findings[r]) THEN aud[a].reopened \cup {r}
                              ELSE aud[a].reopened
    BY <1>0, <1>4, <2>2, <2>3 DEF RefreshFinding, TypeOK, Applying
  <2>5. \A s \in Rows : aud'[a].copies[s] = IF s = r THEN new(r) ELSE aud[a].copies[s]
    BY <2>2, <2>4 DEF Applying
  <2>6. \A s \in Rows \ aud'[a].saved : aud'[a].copies[s] = findings'[s]
    BY <1>0, <2>1, <2>2, <2>4, <2>5 DEF AuditFresh
  <2>7. \A s \in aud'[a].saved : aud'[a].copies[s] = new(s)
    BY <1>0, <2>2, <2>4, <2>5 DEF AuditFresh, Applying
  <2>8. /\ aud'[a].saved \cup aud'[a].todo = aud[a].saved \cup aud[a].todo
        /\ aud'[a].saved \cap aud'[a].todo = {}
    BY <1>0, <2>2, <2>3, <2>4 DEF AuditFresh
  <2>9. aud'[a].reopened = {s \in aud'[a].saved : WasResolved(findings[s])}
    BY <1>0, <2>2, <2>4 DEF AuditFresh
  <2>10. AuditFresh(a)'
    <3>1. \A s \in aud'[a].saved :
             aud'[a].copies[s]
               = Refreshed(findings'[s], aud'[a].run, ActiveSuppressions(s)' # {})
      BY <2>1, <2>4, <2>7 DEF ActiveSuppressions
    <3>2. aud'[a].saved \cup aud'[a].todo = {s \in Exists(findings') : s[1] \in aud'[a].seen}
      BY <1>0, <2>1, <2>2, <2>4, <2>8 DEF AuditFresh
    <3>3. aud'[a].reopened = {s \in aud'[a].saved : WasResolved(findings'[s])}
      BY <2>1, <2>9
    <3>4. runs'[aud'[a].run] = "running"
      BY <1>0, <2>1, <2>2, <2>4 DEF AuditFresh
    <3>5. QED
      BY <2>6, <2>8, <3>1, <3>2, <3>3, <3>4 DEF AuditFresh, Refreshed, WasResolved
  <2>11. QED
    BY <1>0, <2>1, <2>10, TablesUnchanged
<1>5. CASE CompleteAudit(a)
  <2>1. aud'[a] = Idle
    BY <1>0, <1>5 DEF CompleteAudit, TypeOK
  <2>2. QED
    BY <1>5, <2>1, CommitKeepsTables DEF AuditFresh, Idle
<1>6. CASE FailAudit(a) \/ AuditDies(a)
  <2>1. aud'[a] = Idle /\ UNCHANGED <<findings, sups>>
    BY <1>0, <1>6 DEF FailAudit, AuditDies, TypeOK, tables
  <2>2. QED
    BY <1>0, <2>1, TablesUnchanged DEF AuditFresh, Idle
<1>7. QED
  BY <1>1, <1>2, <1>3, <1>4, <1>5, <1>6 DEF AuditStep

-----------------------------------------------------------------------------
(* The retention job and the environment.                                   *)

\* Deleting runs leaves status and active of every finding alone.
LEMMA ForgetKeeps ==
    ASSUME NEW row \in FindingRow, NEW ids
    PROVE  /\ Forget(row, ids).status = row.status
           /\ Forget(row, ids).active = row.active
BY DEF Forget, FindingRow

LEMMA JobFreshStep ==
    ASSUME SInv, NEW t \in Retainers,
           StartRetention(t) \/ RetentionStep(t) \/ RetentionDies(t)
    PROVE  SerialTables' /\ JobFresh(t)'
<1> USE DEF SInv, IInv
<1>0. JobFresh(t) /\ TypeOK /\ SerialTables
  BY DEF NothingStale
<1>1. CASE StartRetention(t)
  <2>1. UNCHANGED <<findings, sups>>
    BY <1>1 DEF StartRetention, tables
  <2>2. ret'[t].pc = "expire" /\ ret'[t].due = Due
    BY <1>0, <1>1 DEF StartRetention, TypeOK
  <2>3. \A d \in Due : sups[d.row][d.sup] = "due" /\ d.copy = Partial(findings[d.row])
    BY DEF Due, Join
  <2>4. JobFresh(t)'
    BY <2>1, <2>2, <2>3 DEF JobFresh, Partial
  <2>5. QED
    BY <1>0, <2>1, <2>4, TablesUnchanged
<1>2. CASE ExpireSuppression(t)
  <2>1. ret[t] \in Expiring /\ ret[t].pc = "expire"
    BY <1>0, <1>2, RetentionShape DEF TypeOK, ExpireSuppression
  <2>2. PICK d \in ret[t].due :
           /\ sups' = [sups EXCEPT ![d.row][d.sup] = "off"]
           /\ ret' = [ret EXCEPT ![t] = [pc |-> "finding", due |-> ret[t].due \ {d},
                                         row |-> d.row, copy |-> d.copy]]
    BY <1>2 DEF ExpireSuppression
  <2>3. \A e \in ret[t].due : /\ e \in Joined /\ e.sup \in ActiveSuppressions(e.row)
                              /\ e.row \in Rows /\ e.copy = Partial(findings[e.row])
    BY <1>0, <2>1 DEF Expiring, JobFresh, Joined, ActiveSuppressions
  <2>4. \A e \in ret[t].due : e.row \in Exists(findings)
    BY <1>0, <2>3 DEF SerialTables, RowsMatch, Exists, ActiveSuppressions
  <2>5. UNCHANGED findings
    BY <1>2 DEF ExpireSuppression
  <2>6. PICK r \in Rows, k \in SupIds : r = d.row /\ k = d.sup
    BY <2>3 DEF ActiveSuppressions
  <2>7. /\ SerialTables' /\ ActiveSuppressions(r)' = {}
        /\ \A s \in Rows : s # r => sups'[s] = sups[s]
    BY <1>0, <2>2, <2>3, <2>5, <2>6, SuppressionLifted
  <2>8. \A e \in ret[t].due \ {d} : e.row # r
    BY <1>0, <2>3, <2>6 DEF SerialTables, OneSuppression, Joined
  <2>9. /\ ret'[t].pc = "finding" /\ ret'[t].due = ret[t].due \ {d}
        /\ ret'[t].row = r /\ ret'[t].copy = Partial(findings[r])
    BY <1>0, <2>2, <2>3, <2>6 DEF TypeOK
  <2>10. \A e \in ret'[t].due : /\ sups'[e.row][e.sup] = "due"
                                /\ e.copy = Partial(findings'[e.row])
    BY <1>0, <2>1, <2>3, <2>5, <2>7, <2>8, <2>9 DEF JobFresh
  <2>11. r \in Exists(findings')
    BY <2>4, <2>5, <2>6
  <2>12. JobFresh(t)'
    BY <2>5, <2>7, <2>9, <2>10, <2>11 DEF JobFresh, Partial
  <2>13. QED
    BY <2>7, <2>12
<1>3. CASE ReopenExpired(t)
  <2>1. ret[t] \in Releasing
    BY <1>0, <1>3, RetentionShape DEF TypeOK, ReopenExpired
  <2>2. PICK r \in Exists(findings) : r = ret[t].row
    BY <1>0, <1>3 DEF JobFresh, ReopenExpired
  <2>3. /\ r \in Rows /\ findings[r] \in FindingRow
        /\ ret[t].copy = Partial(findings[r]) /\ ActiveSuppressions(r) = {}
        /\ \A d \in ret[t].due : /\ sups[d.row][d.sup] = "due"
                                 /\ d.copy = Partial(findings[d.row])
    BY <1>0, <1>3, <2>2 DEF JobFresh, ReopenExpired, TypeOK, Exists
  <2>4. \A d \in ret[t].due : d.row \in Rows /\ d.row # r
    BY <2>1, <2>3 DEF Releasing, Joined, ActiveSuppressions
  <2>5. UNCHANGED sups /\ ActiveSuppressions(r)' = {}
    BY <1>3, <2>3 DEF ReopenExpired, ActiveSuppressions
  <2>6. ret'[t].pc = "event" /\ ret'[t].due = ret[t].due /\ ret'[t].row = r
    BY <1>0, <1>3, <2>1, <2>2 DEF ReopenExpired, TypeOK, Releasing
  <2>7. CASE WasSuppressed(ret[t].copy)
    <3> DEFINE row == [findings[r] EXCEPT !.status = "open"]
    <3>1. findings' = [findings EXCEPT ![r] = row] /\ ret'[t].copy.status = "open"
      BY <1>0, <1>3, <2>1, <2>2, <2>7 DEF ReopenExpired, TypeOK, Releasing, PartialCopy
    <3>2. row.status = "open" /\ row.active
      BY <2>3, <2>7 DEF WasSuppressed, Partial, FindingRow
    <3>3. SerialTables'
      BY <1>0, <2>2, <2>5, <3>1, <3>2, RowWritten
    <3>4. \A s \in Rows : findings'[s] = IF s = r THEN row ELSE findings[s]
      BY <1>0, <3>1 DEF TypeOK
    <3>5. \A d \in ret'[t].due : /\ sups'[d.row][d.sup] = "due"
                                 /\ d.copy = Partial(findings'[d.row])
      BY <2>3, <2>4, <2>5, <2>6, <3>4
    <3>6. r \in Exists(findings') /\ ret'[t].copy.status = findings'[r].status
      BY <2>3, <3>1, <3>2, <3>4 DEF Exists
    <3>7. JobFresh(t)'
      BY <2>5, <2>6, <3>5, <3>6 DEF JobFresh, Partial
    <3>8. QED
      BY <3>3, <3>7
  <2>8. CASE ~WasSuppressed(ret[t].copy)
    <3>1. UNCHANGED <<findings, sups>> /\ ret'[t].copy = ret[t].copy
      BY <1>0, <1>3, <2>1, <2>5, <2>8 DEF ReopenExpired, TypeOK, Releasing
    <3>2. \A d \in ret'[t].due : /\ sups'[d.row][d.sup] = "due"
                                 /\ d.copy = Partial(findings'[d.row])
      BY <2>3, <2>6, <3>1
    <3>3. r \in Exists(findings') /\ ret'[t].copy.status = findings'[r].status
      BY <2>2, <2>3, <3>1 DEF Partial
    <3>4. JobFresh(t)'
      BY <2>5, <2>6, <3>2, <3>3 DEF JobFresh, Partial
    <3>5. QED
      BY <1>0, <3>1, <3>4, TablesUnchanged
  <2>9. QED
    BY <2>7, <2>8
<1>4. CASE RecordExpiry(t)
  <2>1. UNCHANGED <<findings, sups>>
    BY <1>4 DEF RecordExpiry
  <2>2. ret'[t].pc = "expire" /\ ret'[t].due = ret[t].due
    BY <1>0, <1>4 DEF RecordExpiry, TypeOK
  <2>3. \A d \in ret[t].due : /\ sups[d.row][d.sup] = "due"
                              /\ d.copy = Partial(findings[d.row])
    BY <1>0, <1>4 DEF JobFresh, RecordExpiry
  <2>4. JobFresh(t)'
    BY <2>1, <2>2, <2>3 DEF JobFresh, Partial
  <2>5. QED
    BY <1>0, <2>1, <2>4, TablesUnchanged
<1>5. CASE CollectActiveRuns(t)
  <2>1. UNCHANGED <<findings, sups>>
    BY <1>5 DEF CollectActiveRuns, tables
  <2>2. ret'[t].pc = "events" /\ ret'[t].keep = ActiveRuns(findings')
    BY <1>0, <1>5, <2>1 DEF CollectActiveRuns, TypeOK
  <2>3. JobFresh(t)'
    BY <2>2 DEF JobFresh, ActiveRuns
  <2>4. QED
    BY <1>0, <2>1, <2>3, TablesUnchanged
<1>6. CASE PruneEvents(t)
  <2>1. UNCHANGED <<findings, sups>>
    BY <1>6 DEF PruneEvents
  <2>2. ret[t] \in Pruning /\ ret[t].keep = ActiveRuns(findings)
    BY <1>0, <1>6, RetentionShape DEF TypeOK, PruneEvents, JobFresh
  <2>3. ret'[t].pc = "runs" /\ ret'[t].keep = ActiveRuns(findings')
    BY <1>0, <1>6, <2>1, <2>2 DEF PruneEvents, TypeOK, Pruning
  <2>4. JobFresh(t)'
    BY <2>3 DEF JobFresh, ActiveRuns
  <2>5. QED
    BY <1>0, <2>1, <2>4, TablesUnchanged
<1>7. CASE PruneRuns(t)
  <2>1. ret'[t] = Idle /\ UNCHANGED sups
    BY <1>0, <1>7 DEF PruneRuns, TypeOK
  <2>2. \A r \in Rows : /\ findings'[r].status = findings[r].status
                        /\ findings'[r].active = findings[r].active
    BY <1>0, <1>7, ForgetKeeps DEF PruneRuns, TypeOK
  <2>3. SerialTables'
    BY <1>0, <2>1, <2>2 DEF SerialTables, RowsMatch, OneRowPerFingerprint, OneSuppression,
                            ActiveSuppressions, Exists
  <2>4. QED
    BY <2>1, <2>3 DEF JobFresh, Idle
<1>8. CASE RetentionDies(t)
  <2>1. ret'[t] = Idle /\ UNCHANGED <<findings, sups>>
    BY <1>0, <1>8 DEF RetentionDies, TypeOK, tables
  <2>2. QED
    BY <1>0, <2>1, TablesUnchanged DEF JobFresh, Idle
<1>9. QED
  BY <1>1, <1>2, <1>3, <1>4, <1>5, <1>6, <1>7, <1>8 DEF RetentionStep

\* A suppression that comes due is not among those a running job took for due, and it
\* was and stays active.
LEMMA EnvironmentFresh ==
    ASSUME SInv, Environment
    PROVE  SerialTables' /\ NothingStale' /\ OneAtATime'
<1> USE DEF SInv, IInv
<1>1. UNCHANGED <<findings, runs, req, aud, ret>>
  BY DEF Environment, PlantChanges, GraphRebuilt, SuppressionComesDue, RunAges, tables
<1>2. \A r \in Rows : ActiveSuppressions(r)' = ActiveSuppressions(r)
  BY DEF Environment, PlantChanges, GraphRebuilt, SuppressionComesDue, RunAges, tables,
         ActiveSuppressions, TypeOK
<1>3. \A r \in Rows, k \in SupIds : /\ sups[r][k] = "due" => sups'[r][k] = "due"
                                    /\ sups[r][k] = "none" <=> sups'[r][k] = "none"
  BY DEF Environment, PlantChanges, GraphRebuilt, SuppressionComesDue, RunAges, tables, TypeOK
<1>4. SerialTables'
  BY <1>1, <1>2, <1>3 DEF SerialTables, RowsMatch, OneRowPerFingerprint, OneSuppression, Exists
<1>5. OneAtATime'
  BY <1>1 DEF OneAtATime, RequestAlone, AuditAlone, JobAlone
<1>6. ASSUME NEW q \in Requests PROVE RequestFresh(q)'
  <2>1. req[q].pc # "idle" => req[q].row \in Rows
    BY DEF RequestsConsistent, RequestOK, Exists
  <2>2. RequestFresh(q)
    BY DEF NothingStale
  <2>3. ActiveSuppressions(req[q].row)' = ActiveSuppressions(req[q].row) \/ req[q].pc = "idle"
    BY <1>1, <1>2, <2>1 DEF ActiveSuppressions
  <2>4. QED
    BY <1>1, <2>2, <2>3 DEF RequestFresh, Ignored, Partial
<1>7. ASSUME NEW a \in Auditors PROVE AuditFresh(a)'
  <2>1. aud[a].pc = "apply" => aud[a].saved \subseteq Rows
    BY AuditShape DEF TypeOK, Applying
  <2>2. AuditFresh(a)
    BY DEF NothingStale
  <2>3. aud[a].pc = "apply" =>
           \A r \in aud[a].saved :
              aud[a].copies[r]
                = Refreshed(findings[r], aud[a].run, ActiveSuppressions(r)' # {})
    BY <1>2, <2>1, <2>2 DEF AuditFresh
  <2>4. QED
    BY <1>1, <2>2, <2>3 DEF AuditFresh, Refreshed, WasResolved, Exists
<1>8. ASSUME NEW t \in Retainers PROVE JobFresh(t)'
  <2>1. /\ ret[t].pc \in {"expire", "finding", "event"} =>
              \A d \in ret[t].due : d.row \in Rows /\ d.sup \in SupIds
        /\ ret[t].pc \in {"finding", "event"} => ret[t].row \in Rows
    BY RetentionShape DEF TypeOK, Expiring, Releasing, Joined
  <2>2. JobFresh(t)
    BY DEF NothingStale
  <2>3. ret[t].pc \in {"finding", "event"}
          => ActiveSuppressions(ret[t].row)' = ActiveSuppressions(ret[t].row)
    BY <1>1, <1>2, <2>1 DEF ActiveSuppressions
  <2>4. ret[t].pc \in {"expire", "finding", "event"} =>
           \A d \in ret[t].due : /\ sups'[d.row][d.sup] = "due"
                                 /\ d.copy = Partial(findings'[d.row])
    BY <1>1, <1>3, <2>1, <2>2 DEF JobFresh
  <2>5. ret[t].pc \in {"events", "runs"} => ret[t].keep = ActiveRuns(findings')
    BY <1>1, <2>2 DEF JobFresh
  <2>6. /\ ret[t].pc = "finding" => ret[t].copy = Partial(findings'[ret[t].row])
        /\ ret[t].pc = "event" => ret[t].copy.status = findings'[ret[t].row].status
        /\ ret[t].pc \in {"finding", "event"} => ret[t].row \in Exists(findings')
    BY <1>1, <2>2 DEF JobFresh
  <2>7. ret[t].pc \in {"finding", "event"} => ActiveSuppressions(ret[t].row)' = {}
    BY <2>2, <2>3 DEF JobFresh
  <2>8. QED
    BY <1>1, <2>4, <2>5, <2>6, <2>7 DEF JobFresh, Partial, ActiveRuns
<1>9. QED
  BY <1>4, <1>5, <1>6, <1>7, <1>8 DEF NothingStale

-----------------------------------------------------------------------------
(* The invariant. *)

LEMMA SerialInit == Init => OneAtATime /\ SerialTables /\ NothingStale
BY DEF Init, OneAtATime, RequestAlone, AuditAlone, JobAlone, SerialTables, RowsMatch,
       OneRowPerFingerprint, OneSuppression, NothingStale, RequestFresh, AuditFresh, JobFresh,
       ActiveSuppressions, Exists, NoFinding, Idle

LEMMA SerialStep ==
    ASSUME ~Overlap, SInv, [Next]_vars
    PROVE  OneAtATime' /\ SerialTables' /\ NothingStale'
<1>1. ASSUME NEW q \in Requests, RequestStarts(q) \/ RequestStep(q) \/ RequestDies(q)
      PROVE  OneAtATime' /\ SerialTables' /\ NothingStale'
  <2>1. CASE RequestStarts(q) \/ RequestStep(q)
    BY <2>1, RequestStartsFresh, RequestStepFresh, RequestTakesTurn, RequestMoved
  <2>2. CASE RequestDies(q)
    <3>1. UNCHANGED <<findings, sups>> /\ req'[q] = Idle
      BY <2>2 DEF RequestDies, tables, SInv, IInv, TypeOK
    <3>2. RequestFresh(q)'
      BY <3>1 DEF RequestFresh, Idle
    <3>3. SerialTables'
      BY <3>1, TablesUnchanged DEF SInv
    <3>4. QED
      BY <2>2, <3>2, <3>3, RequestTakesTurn, RequestMoved
  <2>3. QED
    BY <1>1, <2>1, <2>2
<1>2. ASSUME NEW a \in Auditors, StartAudit(a) \/ AuditStep(a) \/ FailAudit(a) \/ AuditDies(a)
      PROVE  OneAtATime' /\ SerialTables' /\ NothingStale'
  BY <1>2, AuditFreshStep, AuditTakesTurn, AuditMoved
<1>3. ASSUME NEW t \in Retainers, StartRetention(t) \/ RetentionStep(t) \/ RetentionDies(t)
      PROVE  OneAtATime' /\ SerialTables' /\ NothingStale'
  BY <1>3, JobFreshStep, JobTakesTurn, JobMoved
<1>4. CASE Environment
  BY <1>4, EnvironmentFresh
<1>5. CASE UNCHANGED vars
  <2>1. /\ OneAtATime' <=> OneAtATime
        /\ SerialTables' <=> SerialTables
    BY <1>5 DEF vars, tables, OneAtATime, RequestAlone, AuditAlone, JobAlone, SerialTables,
                RowsMatch, OneRowPerFingerprint, OneSuppression, ActiveSuppressions, Exists
  <2>2. NothingStale'
    <3>1. \A q \in Requests : RequestFresh(q)' <=> RequestFresh(q)
      BY <1>5 DEF vars, tables, RequestFresh, ActiveSuppressions, Ignored, Partial
    <3>2. \A a \in Auditors : AuditFresh(a)' <=> AuditFresh(a)
      BY <1>5 DEF vars, tables, AuditFresh, ActiveSuppressions, Exists, Refreshed, WasResolved
    <3>3. \A t \in Retainers : JobFresh(t)' <=> JobFresh(t)
      BY <1>5 DEF vars, tables, JobFresh, ActiveSuppressions, Exists, Partial, ActiveRuns
    <3>4. QED
      BY <3>1, <3>2, <3>3 DEF SInv, NothingStale
  <2>3. QED
    BY <2>1, <2>2 DEF SInv
<1>6. QED
  BY <1>1, <1>2, <1>3, <1>4, <1>5 DEF Next

LEMMA SerialInvariance ==
    ASSUME ~Overlap
    PROVE  Spec => []SInv
<1>1. Init /\ IInv => SInv
  BY SerialInit DEF SInv
<1>2. SInv /\ [Next]_vars /\ IInv' => SInv'
  BY SerialStep DEF SInv
<1>3. QED
  BY <1>1, <1>2, Invariance, PTL DEF Spec

\* With one worker a fingerprint has one row however many audits report it, resolve it
\* and report it again, and whichever of them die: what the lookup by fingerprint of
\* persistent_audits.py, which knows no unique constraint, is there for.
THEOREM SerialOneRow ==
    ASSUME ~Overlap
    PROVE  Spec => []OneRowPerFingerprint
BY SerialInvariance, PTL DEF SInv, SerialTables

-----------------------------------------------------------------------------
(* What a commit makes of the findings. *)

LEMMA CommitMirrors ==
    ASSUME SInv, NEW a \in Auditors, CompleteAudit(a)
    PROVE  {r[1] : r \in {s \in Rows : findings'[s].active}} = aud[a].seen
<1>1. \A fp \in aud[a].seen : \E r \in Rows : r[1] = fp /\ findings'[r].active
  BY CompleteReports DEF SInv
<1>2. ASSUME NEW r \in Rows, findings'[r].active PROVE r[1] \in aud[a].seen
  <2>1. CASE r \in aud[a].saved \cup Inserted(a)
    BY <2>1, CommitFacts
  <2>2. CASE r \in Absent(a)
    <3>1. r \in Exists(findings) /\ findings'[r] = AutoResolved(findings[r])
      BY <2>2, CommitFacts
    <3>2. findings[r] \in FindingRow
      BY DEF SInv, IInv, TypeOK
    <3>3. findings'[r].active = FALSE
      BY <3>1, <3>2 DEF AutoResolved, FindingRow
    <3>4. QED
      BY <1>2, <3>3
  <2>3. CASE r \notin aud[a].saved \cup Absent(a) \cup Inserted(a)
    <3>1. findings'[r] = findings[r]
      BY <2>3, CommitFacts
    <3>2. r \in Exists(findings)
      BY <1>2, <3>1 DEF SInv, SerialTables, RowsMatch, Exists
    <3>3. QED
      BY <1>2, <2>3, <3>1, <3>2, CommitFacts
  <2>4. QED
    BY <2>1, <2>2, <2>3
<1>3. QED
  BY <1>1, <1>2

LEMMA CommitPreserves ==
    ASSUME SInv, NEW a \in Auditors, CompleteAudit(a),
           NEW r \in Exists(findings), r[1] \in aud[a].seen, findings[r].active
    PROVE  findings'[r].status = findings[r].status
<1>1. findings'[r] = Refreshed(findings[r], aud[a].run, ActiveSuppressions(r) # {})
  BY CommitFacts
<1>2. findings[r].status # "resolved" /\ findings[r] \in FindingRow
  BY DEF SInv, IInv, TypeOK, SerialTables, RowsMatch, Exists
<1>3. QED
  BY <1>1, <1>2 DEF Refreshed, WasResolved, FindingRow

\* With one worker the active findings after a commit are exactly those the evaluation
\* reported: nothing that is gone stays open, and nothing is open that was not seen.
THEOREM SerialAuditMirrors ==
    ASSUME ~Overlap
    PROVE  Spec => AuditMirrorsEvaluation
<1>1. SInv /\ [Next]_vars => [\A a \in Auditors : CompleteAudit(a) =>
          {r[1] : r \in {s \in Rows : findings'[s].active}} = aud[a].seen]_vars
  BY CommitMirrors
<1>2. QED
  BY <1>1, SerialInvariance, PTL DEF Spec, AuditMirrorsEvaluation

\* With one worker a commit leaves the status of every active finding it reports again
\* as the operators set it.
THEOREM SerialAuditPreserves ==
    ASSUME ~Overlap
    PROVE  Spec => AuditPreservesTriage
<1>1. SInv /\ [Next]_vars => [\A a \in Auditors : CompleteAudit(a) =>
          \A r \in Exists(findings) :
              r[1] \in aud[a].seen /\ findings[r].active
                  => findings'[r].status = findings[r].status]_vars
  BY CommitPreserves
<1>2. QED
  BY <1>1, SerialInvariance, PTL DEF Spec, AuditPreservesTriage

-----------------------------------------------------------------------------
(* The runs that active findings name. *)

NamesKept(r) == findings[r].active /\ findings'[r].active =>
                   /\ findings[r].firstRun # NoRun => findings'[r].firstRun # NoRun
                   /\ findings[r].lastRun # NoRun => findings'[r].lastRun # NoRun

LEMMA StepKeepsNames ==
    ASSUME SInv, [Next]_vars, NEW r \in Rows
    PROVE  NamesKept(r)
<1> USE DEF SInv, IInv
<1>0. TypeOK /\ findings[r] \in FindingRow
  BY DEF TypeOK
<1>1. ASSUME NEW q \in Requests, SaveTriage(q) PROVE NamesKept(r)
  <2> DEFINE row == Triaged(req[q].op, req[q].copy)
  <2>1. /\ req[q] \in Triaging /\ req[q].row \in Rows
        /\ req[q].copy = findings[req[q].row] /\ findings[req[q].row] \in FindingRow
    BY <1>1, RequestShape DEF TypeOK, SaveTriage, NothingStale, RequestFresh, Triaging
  <2>2. /\ row.firstRun = req[q].copy.firstRun
        /\ row.lastRun = req[q].copy.lastRun
    BY <2>1 DEF Triaging, TriageOps, Triaged, FindingRow
  <2>3. findings'[r] = IF r = req[q].row THEN row ELSE findings[r]
    BY <1>0, <1>1, <2>1 DEF SaveTriage, TypeOK
  <2>4. QED
    BY <2>1, <2>2, <2>3 DEF NamesKept
<1>2. ASSUME NEW q \in Requests, SaveSuppressed(q) \/ SaveUnsuppressed(q) PROVE NamesKept(r)
  <2>1. findings'[r] \in {findings[r], Suppressed(findings[r]),
                         [findings[r] EXCEPT !.status = "open"]}
    BY <1>0, <1>2 DEF SaveSuppressed, SaveUnsuppressed, TypeOK
  <2>2. \A row \in {findings[r], Suppressed(findings[r]), [findings[r] EXCEPT !.status = "open"]} :
           row.firstRun = findings[r].firstRun /\ row.lastRun = findings[r].lastRun
    BY <1>0 DEF Suppressed, FindingRow
  <2>3. QED
    BY <2>1, <2>2 DEF NamesKept
<1>3. ASSUME NEW t \in Retainers, ReopenExpired(t) PROVE NamesKept(r)
  BY <1>0, <1>3 DEF ReopenExpired, NamesKept, TypeOK, FindingRow
<1>4. ASSUME NEW a \in Auditors, CompleteAudit(a) PROVE NamesKept(r)
  <2>1. CASE r \in aud[a].saved
    <3>1. findings'[r] = Refreshed(findings[r], aud[a].run, ActiveSuppressions(r) # {})
      BY <1>4, <2>1, CommitFacts
    <3>2. aud[a].run # NoRun
      BY <1>4, CommitFacts DEF Applying, RunIds, NoRun
    <3>3. /\ Refreshed(findings[r], aud[a].run, ActiveSuppressions(r) # {}).firstRun
               = findings[r].firstRun
          /\ Refreshed(findings[r], aud[a].run, ActiveSuppressions(r) # {}).lastRun # NoRun
      BY <1>0, <3>2 DEF Refreshed, FindingRow
    <3>4. QED
      BY <3>1, <3>3 DEF NamesKept
  <2>2. CASE r \in Absent(a)
    <3>1. findings'[r] = AutoResolved(findings[r])
      BY <1>4, <2>2, CommitFacts
    <3>2. findings'[r].active = FALSE
      BY <1>0, <3>1 DEF AutoResolved, FindingRow
    <3>3. QED
      BY <3>2 DEF NamesKept
  <2>3. CASE r \in Inserted(a)
    BY <1>4, <2>3, CommitFacts DEF NamesKept, SerialTables, RowsMatch
  <2>4. CASE r \notin aud[a].saved \cup Absent(a) \cup Inserted(a)
    BY <1>4, <2>4, CommitFacts DEF NamesKept
  <2>5. QED
    BY <2>1, <2>2, <2>3, <2>4
<1>5. ASSUME NEW t \in Retainers, PruneRuns(t) PROVE NamesKept(r)
  <2>1. findings'[r] = Forget(findings[r], Prunable(t))
    BY <1>5 DEF PruneRuns
  <2>2. Prunable(t) \cap ActiveRuns(findings) = {}
    BY <1>5 DEF Prunable, PruneRuns, NothingStale, JobFresh
  <2>3. findings[r].active => /\ findings[r].firstRun # NoRun
                                    => findings[r].firstRun \notin Prunable(t)
                              /\ findings[r].lastRun # NoRun
                                    => findings[r].lastRun \notin Prunable(t)
    BY <1>0, <2>2 DEF ActiveRuns, FindingRow, RunRefs
  <2>4. QED
    BY <1>0, <2>1, <2>3 DEF NamesKept, Forget, FindingRow
<1>6. CASE UNCHANGED findings
  BY <1>6 DEF NamesKept
<1>7. QED
  BY <1>1, <1>2, <1>3, <1>4, <1>5, <1>6
     DEF Next, vars, tables, RequestStarts, RequestStep, RequestDies, LoadForTriage,
         LoadToSuppress, LoadToUnsuppress, RejectTriage, LookupToSuppress,
         CreateSuppression, LookupToUnsuppress, DeactivateSuppression, RecordEvent,
         StartAudit, AuditStep, FailAudit, AuditDies, Evaluate, LoadFindings, RefreshFinding,
         StartRetention, RetentionStep, RetentionDies, ExpireSuppression, RecordExpiry,
         CollectActiveRuns, PruneEvents, Environment, PlantChanges, GraphRebuilt,
         SuppressionComesDue, RunAges

\* With one worker no step takes from an active finding the run that it was first or
\* last seen in: the list of runs to keep, which retention.py collects before it deletes
\* anything, is still complete when the runs go.
THEOREM SerialActiveRunsKept ==
    ASSUME ~Overlap
    PROVE  Spec => ActiveRunsKept
<1>1. SInv /\ [Next]_vars =>
        [\A r \in Rows : findings[r].active /\ findings'[r].active =>
          /\ findings[r].firstRun # NoRun => findings'[r].firstRun # NoRun
          /\ findings[r].lastRun # NoRun => findings'[r].lastRun # NoRun]_vars
  BY StepKeepsNames DEF NamesKept
<1>2. QED
  BY <1>1, SerialInvariance, PTL DEF Spec, ActiveRunsKept

-----------------------------------------------------------------------------
(* The refinement of the ledger of findings.                                *)

statusBar == [r \in Rows |-> findings[r].status]
mutedBar == [r \in Rows |-> ActiveSuppressions(r) # {}]
completedBar == {id \in RunIds : runs[id] = "completed"}

LedgerStep == [Ledger!Next]_(Ledger!ledger)

\* What a step that writes the status of one row is to the ledger.
LEMMA Moves ==
    ASSUME TypeOK, NEW r \in Rows, NEW from, NEW to, findings[r].status \in from,
           \A s \in Rows : findings'[s].status = IF s = r THEN to ELSE findings[s].status,
           UNCHANGED <<sups, runs>>
    PROVE  Ledger!Move(r, from, to)
<1>1. statusBar' = [statusBar EXCEPT ![r] = to]
  BY DEF statusBar
<1>2. statusBar[r] \in from
  BY DEF statusBar
<1>3. UNCHANGED <<mutedBar, completedBar>>
  BY DEF mutedBar, completedBar, ActiveSuppressions
<1>4. QED
  BY <1>1, <1>2, <1>3 DEF Ledger!Move, statusBar, mutedBar, completedBar

\* A step that changes neither a status nor the set of active suppressions nor the
\* completed runs stutters.
LEMMA Stutters ==
    ASSUME \A r \in Rows : findings'[r].status = findings[r].status,
           \A r \in Rows : ActiveSuppressions(r)' = ActiveSuppressions(r),
           completedBar' = completedBar
    PROVE  LedgerStep
<1>1. statusBar' = statusBar
  BY DEF statusBar
<1>2. mutedBar' = mutedBar
  BY DEF mutedBar
<1>3. UNCHANGED Ledger!ledger
  BY <1>1, <1>2 DEF Ledger!ledger, statusBar, mutedBar, completedBar
<1>4. QED
  BY <1>3 DEF LedgerStep

LEMMA MutesOne ==
    ASSUME TypeOK, NEW r \in Rows, findings[r].status # "none",
           ActiveSuppressions(r) = {}, ActiveSuppressions(r)' # {},
           \A s \in Rows : s # r => ActiveSuppressions(s)' = ActiveSuppressions(s),
           UNCHANGED <<findings, runs>>
    PROVE  Ledger!Mute(r)
<1>1. mutedBar' = [mutedBar EXCEPT ![r] = TRUE]
  BY DEF mutedBar
<1>2. UNCHANGED <<statusBar, completedBar>>
  BY DEF statusBar, completedBar
<1>3. statusBar[r] # "none" /\ ~mutedBar[r]
  BY DEF statusBar, mutedBar
<1>4. QED
  BY <1>1, <1>2, <1>3 DEF Ledger!Mute, statusBar, mutedBar, completedBar

LEMMA UnmutesOne ==
    ASSUME TypeOK, NEW r \in Rows, ActiveSuppressions(r) # {}, ActiveSuppressions(r)' = {},
           \A s \in Rows : s # r => ActiveSuppressions(s)' = ActiveSuppressions(s),
           UNCHANGED <<findings, runs>>
    PROVE  Ledger!Unmute(r)
<1>1. mutedBar' = [mutedBar EXCEPT ![r] = FALSE]
  BY DEF mutedBar
<1>2. UNCHANGED <<statusBar, completedBar>>
  BY DEF statusBar, completedBar
<1>3. mutedBar[r]
  BY DEF mutedBar
<1>4. QED
  BY <1>1, <1>2, <1>3 DEF Ledger!Unmute, statusBar, mutedBar, completedBar

LEMMA RequestRefines ==
    ASSUME SInv, NEW q \in Requests, RequestStep(q)
    PROVE  LedgerStep
<1> USE DEF SInv, IInv
<1>0. /\ RequestFresh(q) /\ TypeOK /\ SerialTables
      /\ req[q].pc # "idle" => req[q].row \in Exists(findings)
  BY DEF NothingStale, RequestsConsistent, RequestOK
<1>1. CASE SaveTriage(q)
  <2> PICK r \in Rows : r = req[q].row /\ findings[r].status # "none"
    BY <1>0, <1>1 DEF SaveTriage, Exists
  <2> DEFINE row == Triaged(req[q].op, findings[r])
  <2>1. /\ req[q] \in Triaging /\ findings[r] \in FindingRow
        /\ req[q].copy = findings[r] /\ ~Ignored(req[q].op, findings[r])
    BY <1>0, <1>1, RequestShape DEF TypeOK, SaveTriage, RequestFresh
  <2>2. findings[r].active <=> findings[r].status # "resolved"
    BY <1>0 DEF SerialTables, RowsMatch
  <2>3. findings' = [findings EXCEPT ![r] = row] /\ UNCHANGED <<sups, runs>>
    BY <1>1, <2>1 DEF SaveTriage
  <2>4. \A s \in Rows : findings'[s].status = IF s = r THEN row.status ELSE findings[s].status
    BY <1>0, <2>3 DEF TypeOK
  <2>5. CASE req[q].op = "acknowledge"
    <3>1. row.status = "acknowledged" /\ findings[r].status \in Ledger!Active
      BY <2>1, <2>5 DEF Triaged, Ignored, FindingRow, Statuses, Ledger!Active
    <3>2. Ledger!Acknowledge(r)
      BY <1>0, <2>3, <2>4, <3>1, Moves DEF Ledger!Acknowledge
    <3>3. QED
      BY <3>2 DEF LedgerStep, Ledger!Next
  <2>6. CASE req[q].op = "start_remediation"
    <3>1. row.status = "in_progress" /\ findings[r].status \in Ledger!Active
      BY <2>1, <2>6 DEF Triaged, Ignored, FindingRow, Statuses, Ledger!Active
    <3>2. Ledger!StartRemediation(r)
      BY <1>0, <2>3, <2>4, <3>1, Moves DEF Ledger!StartRemediation
    <3>3. QED
      BY <3>2 DEF LedgerStep, Ledger!Next
  <2>7. CASE req[q].op = "resolve"
    <3>1. row.status = "resolved" /\ findings[r].status \in Ledger!Active
      BY <2>1, <2>2, <2>7 DEF Triaged, Ignored, FindingRow, Statuses, Ledger!Active
    <3>2. Ledger!Resolve(r)
      BY <1>0, <2>3, <2>4, <3>1, Moves DEF Ledger!Resolve
    <3>3. QED
      BY <3>2 DEF LedgerStep, Ledger!Next
  <2>8. CASE req[q].op = "reopen"
    <3>1. row.status = "open" /\ findings[r].status \in Ledger!Active \cup {"resolved"}
      BY <2>1, <2>8 DEF Triaged, FindingRow, Statuses, Ledger!Active
    <3>2. Ledger!Reopen(r)
      BY <1>0, <2>3, <2>4, <3>1, Moves DEF Ledger!Reopen
    <3>3. QED
      BY <3>2 DEF LedgerStep, Ledger!Next
  <2>9. QED
    BY <2>1, <2>5, <2>6, <2>7, <2>8 DEF Triaging, TriageOps
<1>2. CASE CreateSuppression(q)
  <2> PICK r \in Rows : r = req[q].row /\ findings[r].status # "none"
    BY <1>0, <1>2 DEF CreateSuppression, Exists
  <2>1. PICK k \in SupIds : sups' = [sups EXCEPT ![r][k] = "live"]
    BY <1>2 DEF CreateSuppression
  <2>2. \A s \in Rows, j \in SupIds :
           sups'[s][j] = IF s = r /\ j = k THEN "live" ELSE sups[s][j]
    BY <1>0, <2>1 DEF TypeOK
  <2>3. /\ ActiveSuppressions(r) = {} /\ ActiveSuppressions(r)' # {}
        /\ \A s \in Rows : s # r => ActiveSuppressions(s)' = ActiveSuppressions(s)
    BY <1>0, <1>2, <2>2 DEF CreateSuppression, RequestFresh, ActiveSuppressions
  <2>4. Ledger!Mute(r)
    BY <1>0, <1>2, <2>3, MutesOne DEF CreateSuppression
  <2>5. QED
    BY <2>4 DEF LedgerStep, Ledger!Next
<1>3. CASE SaveSuppressed(q)
  <2> PICK r \in Rows : r = req[q].row /\ findings[r].status # "none"
    BY <1>0, <1>3 DEF SaveSuppressed, Exists
  <2>1. findings[r] \in FindingRow /\ ActiveSuppressions(r) # {}
    BY <1>0, <1>3 DEF TypeOK, SaveSuppressed, RequestFresh
  <2>2. findings' = [findings EXCEPT ![r] = Suppressed(findings[r])] /\ UNCHANGED <<sups, runs>>
    BY <1>3 DEF SaveSuppressed
  <2>3. \A s \in Rows :
           findings'[s].status = IF s = r THEN "suppressed" ELSE findings[s].status
    BY <1>0, <2>1, <2>2 DEF TypeOK, Suppressed, FindingRow
  <2>4. findings[r].status \in Ledger!Active \cup {"resolved"}
    BY <2>1 DEF FindingRow, Statuses, Ledger!Active
  <2>5. Ledger!Suppress(r)
    BY <1>0, <2>1, <2>2, <2>3, <2>4, Moves DEF Ledger!Suppress
  <2>6. QED
    BY <2>5 DEF LedgerStep, Ledger!Next
<1>4. CASE DeactivateSuppression(q)
  <2> PICK r \in Rows : r = req[q].row
    BY <1>0, <1>4 DEF DeactivateSuppression, Exists
  <2>1. req[q].sup \in ActiveSuppressions(r)
    BY <1>0, <1>4 DEF DeactivateSuppression, RequestFresh
  <2>2. /\ sups' = [sups EXCEPT ![r][req[q].sup] = "off"]
        /\ UNCHANGED <<findings, runs>>
    BY <1>4 DEF DeactivateSuppression
  <2>3. /\ ActiveSuppressions(r)' = {}
        /\ \A s \in Rows : s # r => ActiveSuppressions(s)' = ActiveSuppressions(s)
    BY <1>0, <2>1, <2>2, SuppressionLifted DEF ActiveSuppressions
  <2>4. Ledger!Unmute(r)
    BY <1>0, <2>1, <2>2, <2>3, UnmutesOne
  <2>5. QED
    BY <2>4 DEF LedgerStep, Ledger!Next
<1>5. CASE SaveUnsuppressed(q)
  <2> PICK r \in Rows : r = req[q].row /\ findings[r].status # "none"
    BY <1>0, <1>5 DEF SaveUnsuppressed, Exists
  <2>1. /\ findings[r] \in FindingRow /\ ActiveSuppressions(r) = {}
        /\ req[q].copy = Partial(findings[r]) /\ UNCHANGED <<sups, runs>>
    BY <1>0, <1>5 DEF TypeOK, SaveUnsuppressed, RequestFresh
  <2>2. CASE req[q].copy.active
    <3>1. findings' = [findings EXCEPT ![r].status = "open"]
      BY <1>5, <2>2 DEF SaveUnsuppressed
    <3>2. \A s \in Rows : findings'[s].status = IF s = r THEN "open" ELSE findings[s].status
      BY <1>0, <2>1, <3>1 DEF TypeOK, FindingRow
    <3>3. findings[r].active
      BY <2>1, <2>2 DEF Partial
    <3>4. findings[r].status \in Ledger!Active
      BY <1>0, <2>1, <3>3 DEF SerialTables, RowsMatch, FindingRow, Statuses, Ledger!Active
    <3>5. Ledger!Release(r)
      BY <1>0, <2>1, <3>2, <3>4, Moves DEF Ledger!Release
    <3>6. QED
      BY <3>5 DEF LedgerStep, Ledger!Next
  <2>3. CASE ~req[q].copy.active
    <3>1. UNCHANGED findings
      BY <1>5, <2>3 DEF SaveUnsuppressed
    <3>2. QED
      BY <2>1, <3>1, Stutters DEF ActiveSuppressions, completedBar
  <2>4. QED
    BY <2>2, <2>3
<1>6. CASE UNCHANGED <<findings, sups, runs>>
  BY <1>6, Stutters DEF ActiveSuppressions, completedBar
<1>7. QED
  BY <1>1, <1>2, <1>3, <1>4, <1>5, <1>6
     DEF RequestStep, RejectTriage, LookupToSuppress, LookupToUnsuppress, RecordEvent, tables

LEMMA CommitRefines ==
    ASSUME SInv, NEW a \in Auditors, CompleteAudit(a), NEW run, run = aud[a].run,
           NEW reported, reported = aud[a].saved \cup Inserted(a)
    PROVE  Ledger!Audit(run, reported)
<1> DEFINE new == [f \in Rows |->
          IF f \notin reported
          THEN IF statusBar[f] \in Ledger!Active THEN "resolved" ELSE statusBar[f]
          ELSE IF statusBar[f] \in Ledger!Active THEN statusBar[f]
          ELSE IF statusBar[f] = "resolved" /\ mutedBar[f] THEN "suppressed" ELSE "open"]
<1>1. ASSUME NEW r \in Rows PROVE findings'[r].status = new[r]
  <2>0. /\ findings[r] \in FindingRow /\ statusBar[r] = findings[r].status
        /\ findings[r].active <=> findings[r].status \notin {"none", "resolved"}
        /\ findings[r].status \in Ledger!Active
              <=> findings[r].status \notin {"none", "resolved"}
    BY DEF SInv, IInv, TypeOK, FindingRow, statusBar, SerialTables, RowsMatch, Statuses,
           Ledger!Active
  <2>1. CASE r \in aud[a].saved
    <3>1. /\ findings'[r] = Refreshed(findings[r], aud[a].run, ActiveSuppressions(r) # {})
          /\ findings[r].status # "none"
      BY <2>1, CommitFacts DEF Exists
    <3>2. CASE findings[r].status \in Ledger!Active
      <4>1. findings'[r].status = findings[r].status
        BY <2>0, <3>1, <3>2 DEF Refreshed, WasResolved, FindingRow
      <4>2. QED
        BY <2>0, <2>1, <3>2, <4>1
    <3>3. CASE findings[r].status \notin Ledger!Active
      <4>1. findings[r].status = "resolved"
        BY <2>0, <3>1, <3>3
      <4>2. findings'[r].status = IF ActiveSuppressions(r) # {} THEN "suppressed" ELSE "open"
        BY <2>0, <3>1, <4>1 DEF Refreshed, WasResolved, FindingRow
      <4>3. QED
        BY <2>0, <2>1, <3>3, <4>1, <4>2 DEF mutedBar
    <3>4. QED
      BY <3>2, <3>3
  <2>2. CASE r \in Absent(a)
    <3>1. /\ findings'[r] = AutoResolved(findings[r]) /\ findings[r].active
          /\ r \notin aud[a].saved \cup Inserted(a)
      BY <2>2, CommitFacts DEF Exists
    <3>2. findings'[r].status = "resolved"
      BY <2>0, <3>1 DEF AutoResolved, FindingRow
    <3>3. QED
      BY <2>0, <3>1, <3>2
  <2>3. CASE r \in Inserted(a)
    <3>1. findings'[r] = Opened(aud[a].run) /\ findings[r].status = "none"
      BY <2>3, CommitFacts
    <3>2. QED
      BY <2>0, <2>3, <3>1 DEF Opened
  <2>4. CASE r \notin aud[a].saved \cup Absent(a) \cup Inserted(a)
    <3>1. findings'[r] = findings[r]
      BY <2>4, CommitFacts
    <3>2. ~findings[r].active
      BY <2>0, <2>4, CommitFacts DEF Exists
    <3>3. QED
      BY <2>0, <2>4, <3>1, <3>2
  <2>5. QED
    BY <2>1, <2>2, <2>3, <2>4
<1>2. statusBar' = new
  BY <1>1 DEF statusBar
<1>3. /\ aud[a].run \in RunIds /\ runs[aud[a].run] = "running"
      /\ runs' = [runs EXCEPT ![aud[a].run] = "completed"] /\ runs \in [RunIds -> RunStates]
      /\ UNCHANGED sups
  BY CommitFacts DEF CompleteAudit, Applying, SInv, IInv, TypeOK
<1>4. run \notin completedBar /\ completedBar' = completedBar \cup {run}
  BY <1>3 DEF completedBar
<1>5. UNCHANGED mutedBar
  BY <1>3 DEF mutedBar, ActiveSuppressions
<1>6. QED
  BY <1>2, <1>4, <1>5 DEF Ledger!Audit, statusBar, mutedBar, completedBar, Ledger!Active

LEMMA AuditRefines ==
    ASSUME SInv, NEW a \in Auditors,
           StartAudit(a) \/ AuditStep(a) \/ FailAudit(a) \/ AuditDies(a)
    PROVE  LedgerStep
<1> USE DEF SInv, IInv
<1>1. CASE CompleteAudit(a)
  <2>1. aud[a].run \in RunIds /\ aud[a].saved \cup Inserted(a) \in SUBSET Rows
    BY <1>1, CommitFacts DEF Applying
  <2>2. PICK run \in RunIds, reported \in SUBSET Rows :
           run = aud[a].run /\ reported = aud[a].saved \cup Inserted(a)
    BY <2>1
  <2>3. Ledger!Audit(run, reported)
    BY <1>1, <2>2, CommitRefines
  <2>4. QED
    BY <2>3 DEF LedgerStep, Ledger!Next
<1>2. CASE StartAudit(a) \/ FailAudit(a)
  <2>1. UNCHANGED <<findings, sups>>
    BY <1>2 DEF StartAudit, FailAudit
  <2>2. completedBar' = completedBar
    <3>1. PICK id \in RunIds, state \in {"running", "failed"} :
             runs[id] # "completed" /\ runs' = [runs EXCEPT ![id] = state]
      <4>1. CASE StartAudit(a)
        BY <4>1 DEF StartAudit
      <4>2. CASE FailAudit(a)
        <5>1. aud[a].run \in RunIds /\ runs[aud[a].run] = "running"
          BY <4>2, AuditShape DEF TypeOK, FailAudit, NothingStale, AuditFresh, Audit, Evaluating,
                                  Loading, Applying
        <5>2. QED
          BY <4>2, <5>1 DEF FailAudit
      <4>3. QED
        BY <1>2, <4>1, <4>2
    <3>2. QED
      BY <3>1 DEF TypeOK, completedBar
  <2>3. QED
    BY <2>1, <2>2, Stutters DEF ActiveSuppressions
<1>3. CASE UNCHANGED <<findings, sups, runs>>
  BY <1>3, Stutters DEF ActiveSuppressions, completedBar
<1>4. QED
  BY <1>1, <1>2, <1>3 DEF AuditStep, AuditDies, Evaluate, LoadFindings, RefreshFinding, tables

LEMMA JobRefines ==
    ASSUME SInv, NEW t \in Retainers,
           StartRetention(t) \/ RetentionStep(t) \/ RetentionDies(t)
    PROVE  LedgerStep
<1> USE DEF SInv, IInv
<1>0. JobFresh(t) /\ TypeOK /\ SerialTables
  BY DEF NothingStale
<1>1. CASE ExpireSuppression(t)
  <2>1. ret[t] \in Expiring /\ ret[t].pc = "expire"
    BY <1>0, <1>1, RetentionShape DEF TypeOK, ExpireSuppression
  <2>2. PICK d \in ret[t].due : sups' = [sups EXCEPT ![d.row][d.sup] = "off"]
    BY <1>1 DEF ExpireSuppression
  <2>3. PICK r \in Rows, k \in SupIds : r = d.row /\ k = d.sup /\ sups[r][k] = "due"
    BY <1>0, <2>1 DEF Expiring, Joined, JobFresh
  <2>4. k \in ActiveSuppressions(r) /\ UNCHANGED <<findings, runs>>
    BY <1>1, <2>3 DEF ActiveSuppressions, ExpireSuppression
  <2>5. /\ ActiveSuppressions(r)' = {}
        /\ \A s \in Rows : s # r => ActiveSuppressions(s)' = ActiveSuppressions(s)
    BY <1>0, <2>2, <2>3, <2>4, SuppressionLifted DEF ActiveSuppressions
  <2>6. Ledger!Unmute(r)
    BY <1>0, <2>4, <2>5, UnmutesOne
  <2>7. QED
    BY <2>6 DEF LedgerStep, Ledger!Next
<1>2. CASE ReopenExpired(t)
  <2> PICK r \in Rows : r = ret[t].row
    BY <1>0, <1>2 DEF JobFresh, ReopenExpired, Exists
  <2>1. /\ findings[r] \in FindingRow /\ ActiveSuppressions(r) = {}
        /\ ret[t].copy = Partial(findings[r]) /\ UNCHANGED <<sups, runs>>
    BY <1>0, <1>2 DEF TypeOK, ReopenExpired, JobFresh
  <2>2. CASE WasSuppressed(ret[t].copy)
    <3>1. findings' = [findings EXCEPT ![r].status = "open"]
      BY <1>2, <2>2 DEF ReopenExpired
    <3>2. \A s \in Rows : findings'[s].status = IF s = r THEN "open" ELSE findings[s].status
      BY <1>0, <2>1, <3>1 DEF TypeOK, FindingRow
    <3>3. findings[r].status \in Ledger!Active
      BY <2>1, <2>2 DEF WasSuppressed, Partial, Ledger!Active
    <3>4. Ledger!Release(r)
      BY <1>0, <2>1, <3>2, <3>3, Moves DEF Ledger!Release
    <3>5. QED
      BY <3>4 DEF LedgerStep, Ledger!Next
  <2>3. CASE ~WasSuppressed(ret[t].copy)
    <3>1. UNCHANGED findings
      BY <1>2, <2>3 DEF ReopenExpired
    <3>2. QED
      BY <2>1, <3>1, Stutters DEF ActiveSuppressions, completedBar
  <2>4. QED
    BY <2>2, <2>3
<1>3. CASE PruneRuns(t)
  <2> PICK ids \in SUBSET RunIds : ids = Prunable(t)
    BY DEF Prunable, Finished
  <2>1. \A r \in Rows : findings'[r].status = findings[r].status
    BY <1>0, <1>3, ForgetKeeps DEF PruneRuns, TypeOK
  <2>2. UNCHANGED sups
    BY <1>3 DEF PruneRuns
  <2>3. completedBar' = completedBar \ ids
    BY <1>3 DEF PruneRuns, completedBar
  <2>4. UNCHANGED <<statusBar, mutedBar>>
    BY <2>1, <2>2 DEF statusBar, mutedBar, ActiveSuppressions
  <2>5. Ledger!Delete(ids)
    BY <2>3, <2>4 DEF Ledger!Delete, statusBar, mutedBar, completedBar
  <2>6. QED
    BY <2>5 DEF LedgerStep, Ledger!Next
<1>4. CASE UNCHANGED <<findings, sups, runs>>
  BY <1>4, Stutters DEF ActiveSuppressions, completedBar
<1>5. QED
  BY <1>1, <1>2, <1>3, <1>4
     DEF StartRetention, RetentionStep, RetentionDies, RecordExpiry, CollectActiveRuns,
         PruneEvents, tables

LEMMA EnvironmentRefines ==
    ASSUME SInv, Environment
    PROVE  LedgerStep
<1>1. UNCHANGED <<findings, runs>>
  BY DEF Environment, PlantChanges, GraphRebuilt, SuppressionComesDue, RunAges, tables
<1>2. \A r \in Rows : ActiveSuppressions(r)' = ActiveSuppressions(r)
  BY DEF Environment, PlantChanges, GraphRebuilt, SuppressionComesDue, RunAges, tables,
         ActiveSuppressions, SInv, IInv, TypeOK
<1>3. QED
  BY <1>1, <1>2, Stutters DEF completedBar

\* With one worker the workflow implements the ledger of findings: seen through its
\* statuses, active suppressions and completed runs, every statement of every handler is
\* one of the ledger's steps or none, and a handler that dies midway takes none.
THEOREM SerialRefinement ==
    ASSUME ~Overlap
    PROVE  Spec => ImplementsLedger
<1>1. Init => Ledger!Init
  <2> SUFFICES ASSUME Init PROVE Ledger!Init
    OBVIOUS
  <2>1. statusBar = [r \in Rows |-> "none"]
    BY DEF Init, NoFinding, statusBar
  <2>2. mutedBar = [r \in Rows |-> FALSE]
    BY DEF Init, ActiveSuppressions, mutedBar
  <2>3. completedBar = {}
    BY DEF Init, completedBar
  <2>4. QED
    BY <2>1, <2>2, <2>3 DEF Ledger!Init, statusBar, mutedBar, completedBar
<1>2. SInv /\ [Next]_vars => LedgerStep
  <2> SUFFICES ASSUME SInv, [Next]_vars PROVE LedgerStep
    OBVIOUS
  <2>1. ASSUME NEW q \in Requests, RequestStarts(q) \/ RequestDies(q) PROVE LedgerStep
    <3>1. UNCHANGED <<findings, sups, runs>>
      BY <2>1 DEF RequestStarts, RequestDies, LoadForTriage, LoadToSuppress, LoadToUnsuppress,
                  tables
    <3>2. QED
      BY <3>1, Stutters DEF ActiveSuppressions, completedBar
  <2>2. CASE UNCHANGED vars
    BY <2>2, Stutters DEF vars, tables, ActiveSuppressions, completedBar
  <2>3. QED
    BY <2>1, <2>2, RequestRefines, AuditRefines, JobRefines, EnvironmentRefines DEF Next
<1>3. QED
  BY <1>1, <1>2, SerialInvariance, PTL DEF Spec, ImplementsLedger, Ledger!Spec, LedgerStep

-----------------------------------------------------------------------------
(* No handler dies.  Between two statements of a handler a suppression can  *)
(* be gone whose finding still shows suppressed, and a status can be saved  *)
(* whose event is still to come; then that handler is in flight and will    *)
(* put it right.                                                            *)

BeingReleased(r) == \/ \E q \in Requests : req[q].pc = "save_unsuppressed" /\ req[q].row = r
                    \/ \E t \in Retainers : ret[t].pc = "finding" /\ ret[t].row = r

BeingRecorded(r) == \/ \E q \in Requests : req[q].pc = "event" /\ req[q].row = r
                    \/ \E t \in Retainers : ret[t].pc = "event" /\ ret[t].row = r

Settled(r) ==
    /\ findings[r].status = "suppressed" => ActiveSuppressions(r) # {} \/ BeingReleased(r)
    /\ findings[r].status # "none" => \/ trail[r] \in {"none", findings[r].status}
                                      \/ BeingRecorded(r)

AllSettled == \A r \in Rows : Settled(r)

\* Whatever is pending is pending with the one handler in flight.
LEMMA RequestPending ==
    ASSUME NEW q \in Requests, RequestAlone(q), OnlyRequest(q), UNCHANGED <<aud, ret>>, NEW r
    PROVE  /\ BeingReleased(r) => req[q].pc = "save_unsuppressed" /\ req[q].row = r
           /\ BeingRecorded(r) => req[q].pc = "event" /\ req[q].row = r
           /\ req'[q].pc = "save_unsuppressed" /\ req'[q].row = r => BeingReleased(r)'
           /\ req'[q].pc = "event" /\ req'[q].row = r => BeingRecorded(r)'
BY DEF BeingReleased, BeingRecorded, RequestAlone, OnlyRequest

LEMMA JobPending ==
    ASSUME NEW t \in Retainers, JobAlone(t), OnlyJob(t), UNCHANGED <<req, aud>>, NEW r
    PROVE  /\ BeingReleased(r) => ret[t].pc = "finding" /\ ret[t].row = r
           /\ BeingRecorded(r) => ret[t].pc = "event" /\ ret[t].row = r
           /\ ret'[t].pc = "finding" /\ ret'[t].row = r => BeingReleased(r)'
           /\ ret'[t].pc = "event" /\ ret'[t].row = r => BeingRecorded(r)'
BY DEF BeingReleased, BeingRecorded, JobAlone, OnlyJob

LEMMA NonePending ==
    ASSUME NEW a \in Auditors, AuditAlone(a), NEW r
    PROVE  ~BeingReleased(r) /\ ~BeingRecorded(r)
BY DEF BeingReleased, BeingRecorded, AuditAlone

\* A row with nothing pending that the step leaves as it is.
LEMMA StaysSettled ==
    ASSUME NEW r \in Rows, Settled(r), ~BeingReleased(r), ~BeingRecorded(r),
           findings'[r].status = findings[r].status,
           ActiveSuppressions(r) \subseteq ActiveSuppressions(r)',
           trail'[r] \in {"none", trail[r]}
    PROVE  Settled(r)'
BY DEF Settled

LEMMA RequestSettles ==
    ASSUME ~Overlap, SInv, AllSettled, NEW q \in Requests, RequestStarts(q) \/ RequestStep(q),
           NEW r \in Rows
    PROVE  Settled(r)'
<1> USE DEF SInv, IInv
<1>0. /\ TypeOK /\ RequestFresh(q) /\ SerialTables /\ Settled(r) /\ findings[r] \in FindingRow
      /\ req[q].pc # "idle" => req[q].row \in Rows
  BY DEF NothingStale, RequestsConsistent, RequestOK, Exists, AllSettled, TypeOK
<1>1. /\ BeingReleased(r) => req[q].pc = "save_unsuppressed" /\ req[q].row = r
      /\ BeingRecorded(r) => req[q].pc = "event" /\ req[q].row = r
      /\ req'[q].pc = "save_unsuppressed" /\ req'[q].row = r => BeingReleased(r)'
      /\ req'[q].pc = "event" /\ req'[q].row = r => BeingRecorded(r)'
  BY RequestTakesTurn, RequestPending
<1>2. CASE /\ UNCHANGED <<findings, sups, trail>>
           /\ req[q].pc \notin {"save_unsuppressed", "event"}
  BY <1>0, <1>1, <1>2, StaysSettled DEF ActiveSuppressions
<1>3. CASE SaveTriage(q)
  <2> DEFINE row == Triaged(req[q].op, req[q].copy)
  <2>1. /\ findings' = [findings EXCEPT ![req[q].row] = row]
        /\ UNCHANGED <<sups, trail>> /\ req[q].pc = "triage"
    BY <1>3 DEF SaveTriage
  <2>2. req'[q].pc = "event" /\ req'[q].row = req[q].row
    BY <1>0, <1>3 DEF SaveTriage, GoTo, Event, TypeOK
  <2>3. CASE r = req[q].row
    <3>1. req[q] \in Triaging
      BY <1>0, <1>3, RequestShape DEF TypeOK, SaveTriage
    <3>2. row.status # "suppressed"
      BY <3>1 DEF Triaging, TriageOps, Triaged, FindingRow
    <3>3. findings'[r].status # "suppressed" /\ BeingRecorded(r)'
      BY <1>0, <1>1, <2>1, <2>2, <2>3, <3>2 DEF TypeOK
    <3>4. QED
      BY <3>3 DEF Settled
  <2>4. CASE r # req[q].row
    BY <1>0, <1>1, <2>1, <2>4, StaysSettled DEF ActiveSuppressions
  <2>5. QED
    BY <2>3, <2>4
<1>4. CASE CreateSuppression(q)
  <2>1. UNCHANGED <<findings, trail>> /\ req[q].pc = "create"
    BY <1>4 DEF CreateSuppression
  <2>2. PICK k \in SupIds : sups' = [sups EXCEPT ![req[q].row][k] = "live"]
    BY <1>4 DEF CreateSuppression
  <2>3. ActiveSuppressions(r) \subseteq ActiveSuppressions(r)'
    BY <1>0, <2>2 DEF ActiveSuppressions, TypeOK
  <2>4. QED
    BY <1>0, <1>1, <2>1, <2>3, StaysSettled
<1>5. CASE SaveSuppressed(q)
  <2>1. /\ findings' = [findings EXCEPT ![req[q].row] = Suppressed(@)]
        /\ UNCHANGED <<sups, trail>> /\ req[q].pc = "save_suppressed"
    BY <1>5 DEF SaveSuppressed
  <2>2. req'[q].pc = "event" /\ req'[q].row = req[q].row
    BY <1>0, <1>5 DEF SaveSuppressed, GoTo, Event, TypeOK
  <2>3. CASE r = req[q].row
    <3>1. ActiveSuppressions(r)' # {}
      BY <1>0, <2>1, <2>3 DEF RequestFresh, ActiveSuppressions
    <3>2. BeingRecorded(r)'
      BY <1>1, <2>2, <2>3
    <3>3. QED
      BY <3>1, <3>2 DEF Settled
  <2>4. CASE r # req[q].row
    BY <1>0, <1>1, <2>1, <2>4, StaysSettled DEF ActiveSuppressions
  <2>5. QED
    BY <2>3, <2>4
<1>6. CASE DeactivateSuppression(q)
  <2>1. /\ sups' = [sups EXCEPT ![req[q].row][req[q].sup] = "off"]
        /\ UNCHANGED <<findings, trail>> /\ req[q].pc = "deactivate"
    BY <1>6 DEF DeactivateSuppression
  <2>2. req'[q].pc = "save_unsuppressed" /\ req'[q].row = req[q].row
    BY <1>0, <1>6 DEF DeactivateSuppression, GoTo, TypeOK
  <2>3. CASE r = req[q].row
    BY <1>0, <1>1, <2>1, <2>2, <2>3 DEF Settled
  <2>4. CASE r # req[q].row
    <3>1. ActiveSuppressions(r)' = ActiveSuppressions(r)
      BY <1>0, <2>1, <2>4 DEF ActiveSuppressions, TypeOK
    <3>2. QED
      BY <1>0, <1>1, <2>1, <3>1, StaysSettled
  <2>5. QED
    BY <2>3, <2>4
<1>7. CASE SaveUnsuppressed(q)
  <2>1. UNCHANGED <<sups, trail>> /\ req[q].pc = "save_unsuppressed"
    BY <1>7 DEF SaveUnsuppressed
  <2>2. req'[q].pc = "event" /\ req'[q].row = req[q].row
    BY <1>0, <1>7 DEF SaveUnsuppressed, GoTo, Event, TypeOK
  <2>3. CASE r = req[q].row
    <3>1. req[q].copy = Partial(findings[r])
      BY <1>0, <2>1, <2>3 DEF RequestFresh
    <3>2. findings'[r].status # "suppressed"
      <4>1. CASE findings[r].active
        BY <1>0, <1>7, <2>3, <3>1, <4>1 DEF SaveUnsuppressed, Partial, TypeOK, FindingRow
      <4>2. CASE ~findings[r].active
        BY <1>0, <1>7, <2>3, <3>1, <4>2 DEF SaveUnsuppressed, Partial, SerialTables, RowsMatch
      <4>3. QED
        BY <4>1, <4>2
    <3>3. BeingRecorded(r)'
      BY <1>1, <2>2, <2>3
    <3>4. QED
      BY <3>2, <3>3 DEF Settled
  <2>4. CASE r # req[q].row
    <3>1. findings'[r].status = findings[r].status
      BY <1>0, <1>7, <2>4 DEF SaveUnsuppressed, TypeOK
    <3>2. QED
      BY <1>0, <1>1, <2>1, <2>4, <3>1, StaysSettled DEF ActiveSuppressions
  <2>5. QED
    BY <2>3, <2>4
<1>8. CASE RecordEvent(q)
  <2>1. /\ trail' = [trail EXCEPT ![req[q].row] = req[q].status]
        /\ UNCHANGED <<findings, sups>> /\ req[q].pc = "event"
    BY <1>8 DEF RecordEvent
  <2>2. CASE r = req[q].row
    <3>1. trail'[r] = findings'[r].status
      BY <1>0, <2>1, <2>2 DEF RequestFresh, TypeOK
    <3>2. QED
      BY <1>0, <1>1, <2>1, <3>1 DEF Settled, ActiveSuppressions
  <2>3. CASE r # req[q].row
    <3>1. trail'[r] = trail[r]
      BY <1>0, <2>1, <2>3 DEF TypeOK
    <3>2. QED
      BY <1>0, <1>1, <2>1, <2>3, <3>1, StaysSettled DEF ActiveSuppressions
  <2>4. QED
    BY <2>2, <2>3
<1>9. QED
  BY <1>2, <1>3, <1>4, <1>5, <1>6, <1>7, <1>8
     DEF RequestStep, RequestStarts, LoadForTriage, LoadToSuppress, LoadToUnsuppress,
         RejectTriage, LookupToSuppress, LookupToUnsuppress, tables

LEMMA AuditSettles ==
    ASSUME ~Overlap, SInv, AllSettled, NEW a \in Auditors,
           StartAudit(a) \/ AuditStep(a) \/ FailAudit(a) \/ AuditDies(a), NEW r \in Rows
    PROVE  Settled(r)'
<1> USE DEF SInv, IInv
<1>0. /\ TypeOK /\ SerialTables /\ Settled(r) /\ findings[r] \in FindingRow
      /\ ~BeingReleased(r) /\ ~BeingRecorded(r)
  BY AuditTakesTurn, NonePending DEF AllSettled, TypeOK
<1>1. CASE UNCHANGED <<findings, sups, trail>>
  BY <1>0, <1>1, StaysSettled DEF ActiveSuppressions
<1>2. CASE CompleteAudit(a)
  <2>1. UNCHANGED sups /\ ActiveSuppressions(r)' = ActiveSuppressions(r)
    BY <1>2 DEF CompleteAudit, ActiveSuppressions
  <2>2. /\ aud[a].reopened = {s \in aud[a].saved : WasResolved(findings[s])}
        /\ \A s \in aud[a].saved :
              aud[a].copies[s]
                = Refreshed(findings[s], aud[a].run, ActiveSuppressions(s) # {})
    BY <1>2 DEF NothingStale, AuditFresh, CompleteAudit
  <2>3. CASE r \in aud[a].saved
    <3>1. /\ findings'[r] = Refreshed(findings[r], aud[a].run, ActiveSuppressions(r) # {})
          /\ r \notin Absent(a) /\ r \notin Inserted(a) /\ findings[r].status # "none"
      BY <1>2, <2>3, CommitFacts DEF Exists
    <3>2. CASE WasResolved(findings[r])
      <4>1. findings'[r].status = IF ActiveSuppressions(r) # {} THEN "suppressed" ELSE "open"
        BY <1>0, <3>1, <3>2 DEF Refreshed, FindingRow
      <4>2. r \in aud[a].reopened /\ aud[a].copies[r] = findings'[r]
        BY <2>2, <2>3, <3>1, <3>2
      <4>3. trail'[r] = findings'[r].status
        BY <1>2, <3>1, <4>2 DEF CompleteAudit
      <4>4. QED
        BY <2>1, <4>1, <4>3 DEF Settled
    <3>3. CASE ~WasResolved(findings[r])
      <4>1. findings'[r].status = findings[r].status
        BY <1>0, <3>1, <3>3 DEF Refreshed, FindingRow
      <4>2. r \notin aud[a].reopened
        BY <2>2, <3>3
      <4>3. trail'[r] = trail[r]
        BY <1>2, <3>1, <4>2 DEF CompleteAudit
      <4>4. QED
        BY <1>0, <2>1, <4>1, <4>3, StaysSettled
    <3>4. QED
      BY <3>2, <3>3
  <2>4. CASE r \in Absent(a)
    <3>1. /\ findings'[r] = AutoResolved(findings[r])
          /\ r \notin aud[a].saved /\ r \notin Inserted(a)
      BY <1>2, <2>4, CommitFacts DEF Exists
    <3>2. findings'[r].status = "resolved"
      BY <1>0, <3>1 DEF AutoResolved, FindingRow
    <3>3. trail'[r] = "resolved"
      BY <1>2, <2>2, <2>4, <3>1 DEF CompleteAudit
    <3>4. QED
      BY <3>2, <3>3 DEF Settled
  <2>5. CASE r \in Inserted(a)
    <3>1. /\ findings'[r] = Opened(aud[a].run)
          /\ r \notin aud[a].saved /\ r \notin Absent(a)
      BY <1>2, <2>5, CommitFacts DEF Exists
    <3>2. trail'[r] = "open"
      BY <1>2, <2>2, <2>5, <3>1 DEF CompleteAudit
    <3>3. QED
      BY <3>1, <3>2 DEF Settled, Opened
  <2>6. CASE r \notin aud[a].saved \cup Absent(a) \cup Inserted(a)
    <3>1. findings'[r] = findings[r]
      BY <1>2, <2>6, CommitFacts
    <3>2. trail'[r] = trail[r]
      BY <1>2, <2>2, <2>6 DEF CompleteAudit
    <3>3. QED
      BY <1>0, <2>1, <3>1, <3>2, StaysSettled
  <2>7. QED
    BY <2>3, <2>4, <2>5, <2>6
<1>3. QED
  BY <1>1, <1>2 DEF StartAudit, AuditStep, FailAudit, AuditDies, Evaluate, LoadFindings,
                    RefreshFinding, tables

LEMMA JobSettles ==
    ASSUME ~Overlap, SInv, AllSettled, NEW t \in Retainers,
           StartRetention(t) \/ RetentionStep(t), NEW r \in Rows
    PROVE  Settled(r)'
<1> USE DEF SInv, IInv
<1>0. /\ TypeOK /\ JobFresh(t) /\ SerialTables /\ Settled(r) /\ findings[r] \in FindingRow
  BY DEF NothingStale, AllSettled, TypeOK
<1>1. /\ BeingReleased(r) => ret[t].pc = "finding" /\ ret[t].row = r
      /\ BeingRecorded(r) => ret[t].pc = "event" /\ ret[t].row = r
      /\ ret'[t].pc = "finding" /\ ret'[t].row = r => BeingReleased(r)'
      /\ ret'[t].pc = "event" /\ ret'[t].row = r => BeingRecorded(r)'
  BY JobTakesTurn, JobPending
<1>2. CASE StartRetention(t) \/ CollectActiveRuns(t)
  BY <1>0, <1>1, <1>2, StaysSettled DEF StartRetention, CollectActiveRuns, tables,
                                        ActiveSuppressions
<1>3. CASE ExpireSuppression(t)
  <2>1. PICK d \in ret[t].due :
           /\ sups' = [sups EXCEPT ![d.row][d.sup] = "off"]
           /\ ret' = [ret EXCEPT ![t] = [pc |-> "finding", due |-> ret[t].due \ {d},
                                         row |-> d.row, copy |-> d.copy]]
    BY <1>3 DEF ExpireSuppression
  <2>2. UNCHANGED <<findings, trail>> /\ ret[t].pc = "expire"
    BY <1>3 DEF ExpireSuppression
  <2>3. ret'[t].pc = "finding" /\ ret'[t].row = d.row
    BY <1>0, <2>1 DEF TypeOK
  <2>4. CASE r = d.row
    BY <1>0, <1>1, <2>2, <2>3, <2>4 DEF Settled
  <2>5. CASE r # d.row
    <3>1. ActiveSuppressions(r)' = ActiveSuppressions(r)
      BY <1>0, <2>1, <2>5 DEF ActiveSuppressions, TypeOK
    <3>2. QED
      BY <1>0, <1>1, <2>2, <3>1, StaysSettled
  <2>6. QED
    BY <2>4, <2>5
<1>4. CASE ReopenExpired(t)
  <2>1. UNCHANGED <<sups, trail>> /\ ret[t].pc = "finding" /\ ret[t] \in Releasing
    BY <1>0, <1>4, RetentionShape DEF ReopenExpired, TypeOK
  <2>2. ret'[t].pc = "event" /\ ret'[t].row = ret[t].row
    BY <1>0, <1>4, <2>1 DEF ReopenExpired, TypeOK, Releasing
  <2>3. CASE r = ret[t].row
    <3>1. ret[t].copy = Partial(findings[r])
      BY <1>0, <2>1, <2>3 DEF JobFresh
    <3>2. findings'[r].status # "suppressed"
      <4>1. CASE WasSuppressed(ret[t].copy)
        BY <1>0, <1>4, <2>3, <4>1 DEF ReopenExpired, TypeOK, FindingRow
      <4>2. CASE ~WasSuppressed(ret[t].copy)
        BY <1>0, <1>4, <3>1, <4>2 DEF ReopenExpired, WasSuppressed, Partial, SerialTables,
                                      RowsMatch
      <4>3. QED
        BY <4>1, <4>2
    <3>3. QED
      BY <1>1, <2>2, <2>3, <3>2 DEF Settled
  <2>4. CASE r # ret[t].row
    <3>1. findings'[r].status = findings[r].status
      BY <1>0, <1>4, <2>4 DEF ReopenExpired, TypeOK
    <3>2. QED
      BY <1>0, <1>1, <2>1, <2>4, <3>1, StaysSettled DEF ActiveSuppressions
  <2>5. QED
    BY <2>3, <2>4
<1>5. CASE RecordExpiry(t)
  <2>1. /\ trail' = [trail EXCEPT ![ret[t].row] = ret[t].copy.status]
        /\ UNCHANGED <<findings, sups>> /\ ret[t].pc = "event"
    BY <1>5 DEF RecordExpiry
  <2>2. CASE r = ret[t].row
    <3>1. trail'[r] = findings'[r].status
      BY <1>0, <2>1, <2>2 DEF JobFresh, TypeOK
    <3>2. QED
      BY <1>0, <1>1, <2>1, <3>1 DEF Settled, ActiveSuppressions
  <2>3. CASE r # ret[t].row
    <3>1. trail'[r] = trail[r]
      BY <1>0, <2>1, <2>3 DEF TypeOK
    <3>2. QED
      BY <1>0, <1>1, <2>1, <2>3, <3>1, StaysSettled DEF ActiveSuppressions
  <2>4. QED
    BY <2>2, <2>3
<1>6. CASE PruneEvents(t)
  <2>1. UNCHANGED <<findings, sups>> /\ ret[t].pc = "events" /\ trail'[r] \in {"none", trail[r]}
    BY <1>6 DEF PruneEvents
  <2>2. QED
    BY <1>0, <1>1, <2>1, StaysSettled DEF ActiveSuppressions
<1>7. CASE PruneRuns(t)
  <2>1. UNCHANGED <<sups, trail>> /\ ret[t].pc = "runs"
    BY <1>7 DEF PruneRuns
  <2>2. findings'[r].status = findings[r].status
    BY <1>0, <1>7, ForgetKeeps DEF PruneRuns
  <2>3. QED
    BY <1>0, <1>1, <2>1, <2>2, StaysSettled DEF ActiveSuppressions
<1>8. QED
  BY <1>2, <1>3, <1>4, <1>5, <1>6, <1>7 DEF RetentionStep

LEMMA SettledStep ==
    ASSUME ~Overlap, MaxFaults = 0, SInv, AllSettled, [Next]_vars
    PROVE  AllSettled'
<1>1. ~Fault
  BY DEF Fault, SInv, IInv, TypeOK
<1>2. CASE Environment \/ UNCHANGED vars
  <2>1. UNCHANGED <<findings, trail, req, ret>>
    BY <1>2 DEF Environment, PlantChanges, GraphRebuilt, SuppressionComesDue, RunAges, tables,
                vars
  <2>2. \A r \in Rows : ActiveSuppressions(r)' = ActiveSuppressions(r)
    BY <1>2 DEF Environment, PlantChanges, GraphRebuilt, SuppressionComesDue, RunAges, tables,
                vars, ActiveSuppressions, SInv, IInv, TypeOK
  <2>3. QED
    BY <2>1, <2>2 DEF AllSettled, Settled, BeingReleased, BeingRecorded
<1>3. QED
  BY <1>1, <1>2, RequestSettles, AuditSettles, JobSettles
     DEF Next, RequestDies, RetentionDies, AllSettled

LEMMA Settling ==
    ASSUME ~Overlap, MaxFaults = 0
    PROVE  Spec => []AllSettled
<1>1. Init => AllSettled
  BY DEF Init, AllSettled, Settled, NoFinding
<1>2. AllSettled /\ SInv /\ [Next]_vars => AllSettled'
  BY SettledStep
<1>3. QED
  BY <1>1, <1>2, SerialInvariance, PTL DEF Spec

\* With one worker whose handlers all run to their end, a finding shown as suppressed has
\* an active suppression whenever no handler is in flight: no order of suppressing,
\* unsuppressing, expiry, audits and triage leaves it suppressed for good.
THEOREM ReliableSuppression ==
    ASSUME ~Overlap, MaxFaults = 0
    PROVE  Spec => []SuppressedHasSuppression
<1>1. AllSettled => SuppressedHasSuppression
  BY DEF AllSettled, Settled, SuppressedHasSuppression, AllIdle, BeingReleased, Exists
<1>2. QED
  BY <1>1, Settling, PTL

\* With one worker whose handlers all run to their end, the newest event of a finding
\* that retention has not deleted tells its status whenever no handler is in flight.
THEOREM ReliableTrail ==
    ASSUME ~Overlap, MaxFaults = 0
    PROVE  Spec => []TrailIsCurrent
<1>1. AllSettled => TrailIsCurrent
  BY DEF AllSettled, Settled, TrailIsCurrent, AllIdle, BeingRecorded, Exists
<1>2. QED
  BY <1>1, Settling, PTL
=============================================================================

--------------------------- MODULE AuditWorkflow ---------------------------
(***************************************************************************)
(* The durable audit workflow of the plugin: AuditFinding, AuditSuppression *)
(* and AuditRun rows, and the three kinds of process that change them:      *)
(*   - web and REST requests of operators (services/graph/finding_state.py  *)
(*     and suppressions.py), which load a finding, decide on that copy and  *)
(*     then save, each statement in a transaction of its own;               *)
(*   - persistent plane audits (services/graph/persistent_audits.py), which *)
(*     evaluate outside a transaction and write inside one;                 *)
(*   - the retention job (services/graph/retention.py), a sequence of       *)
(*     autocommitted statements.                                            *)
(* The database runs at READ COMMITTED: a statement sees what is committed  *)
(* when it starts, and an UPDATE waits for the transaction that has written *)
(* the row. No handler locks what it reads, so a copy can be stale by the   *)
(* time it is saved.                                                        *)
(***************************************************************************)
EXTENDS Naturals, FiniteSets

CONSTANTS
    Auditors,         \* slots for executions of run_persistent_plane_audit
    Requests,         \* slots for operator requests
    Retainers,        \* slots for executions of apply_audit_retention
    Problems,         \* defects of the plant that run_plane_audit can report
    GraphProblems,    \* those reported on an object a graph rebuild recreates
    MaxCopies,        \* bound: finding rows with the same fingerprint
    MaxSuppressions,  \* bound: suppressions of one finding
    MaxRuns,          \* bound: audit runs
    MaxRebuilds,      \* bound: graph rebuilds
    Overlap,          \* may two handlers be in flight at the same time?
    MaxFaults         \* bound: handlers that die or raise between two statements

ASSUME ProblemsAssumption == GraphProblems \subseteq Problems
ASSUME BoundsAssumption == /\ MaxCopies \in Nat /\ MaxSuppressions \in Nat
                           /\ MaxRuns \in Nat   /\ MaxRebuilds \in Nat
                           /\ MaxFaults \in Nat
ASSUME ModeAssumption == Overlap \in BOOLEAN

VARIABLES
    world,     \* the problems the plant has now
    gen,       \* generation of the graph's primary keys
    findings,  \* table AuditFinding
    sups,      \* table AuditSuppression, by finding and order of creation
    runs,      \* table AuditRun
    old,       \* runs completed before the retention cutoff
    trail,     \* new_status of the newest AuditFindingEvent of a finding
    req,       \* operator requests in flight
    aud,       \* persistent audits in flight
    ret,       \* retention jobs in flight
    faults     \* handlers that have died or raised so far

tables == <<findings, sups, runs, trail>>
vars == <<world, gen, tables, old, req, aud, ret, faults>>

-----------------------------------------------------------------------------
(* The tables.  A row that is not inserted yet has status "none".           *)

Fingerprints == Problems \X (0 .. MaxRebuilds)

\* A finding row: its fingerprint, and which of the rows that share it.
Rows == Fingerprints \X (1 .. MaxCopies)

RunIds == 1 .. MaxRuns
NoRun == 0      \* a null first_seen_run or last_seen_run
RunRefs == {NoRun} \cup RunIds
SupIds == 1 .. MaxSuppressions

Statuses == {"open", "acknowledged", "in_progress", "suppressed", "resolved"}
FindingRow == [status: {"none"} \cup Statuses, active: BOOLEAN, resolvedAt: BOOLEAN,
               firstRun: RunRefs, lastRun: RunRefs]

NoFinding == [status |-> "none", active |-> FALSE, resolvedAt |-> FALSE,
              firstRun |-> NoRun, lastRun |-> NoRun]

SuppressionStates == {"none", "live", "due", "off"}  \* due: past expires_at
RunStates == {"none", "running", "completed", "failed", "pruned"}

Exists(table) == {r \in Rows : table[r].status # "none"}

ActiveSuppressions(r) == {k \in SupIds : sups[r][k] \in {"live", "due"}}

\* What active_suppression_for_finding returns: the newest active one.
IsNewest(r, k) == k \in ActiveSuppressions(r) /\ \A j \in ActiveSuppressions(r) : j <= k

\* The foreign keys to AuditRun that saving all columns of a row writes back.
ReferencesKept(row) ==
    \A id \in {row.firstRun, row.lastRun} \ {NoRun} : runs[id] # "pruned"

-----------------------------------------------------------------------------
(* Processes in flight. *)

TriageOps == {"acknowledge", "start_remediation", "resolve", "reopen"}

Idle == [pc |-> "idle"]

\* The columns of a finding that handlers with partial saves use of their copy.
PartialCopy == [status: {"none"} \cup Statuses, active: BOOLEAN]

Triaging == [pc: {"triage"}, op: TriageOps, row: Rows, copy: FindingRow]
Suppressing == [pc: {"suppress", "create", "save_suppressed"}, row: Rows]
Unsuppressing == [pc: {"unsuppress", "save_unsuppressed"}, row: Rows, copy: PartialCopy]
Deactivating == [pc: {"deactivate"}, row: Rows, copy: PartialCopy, sup: SupIds]
Recording == [pc: {"event"}, row: Rows, status: {"none"} \cup Statuses]
Request == Triaging \cup Suppressing \cup Unsuppressing \cup Deactivating \cup Recording

Evaluating == [pc: {"evaluate"}, run: RunIds]
Loading == [pc: {"load"}, run: RunIds, seen: SUBSET Fingerprints]
Applying == [pc: {"apply"}, run: RunIds, seen: SUBSET Fingerprints,
             copies: [Rows -> FindingRow], todo: SUBSET Rows,
             saved: SUBSET Rows, reopened: SUBSET Rows]
Audit == Evaluating \cup Loading \cup Applying

\* A due suppression, with the finding the same query joined to it.
Joined == [row: Rows, sup: SupIds, copy: PartialCopy]

Expiring == [pc: {"expire"}, due: SUBSET Joined]
Releasing == [pc: {"finding", "event"}, due: SUBSET Joined, row: Rows, copy: PartialCopy]
Pruning == [pc: {"events", "runs"}, keep: SUBSET RunIds]
Retention == Expiring \cup Releasing \cup Pruning

TypeOK ==
    /\ world \subseteq Problems
    /\ gen \in 0 .. MaxRebuilds
    /\ findings \in [Rows -> FindingRow]
    /\ sups \in [Rows -> [SupIds -> SuppressionStates]]
    /\ runs \in [RunIds -> RunStates]
    /\ old \subseteq RunIds
    /\ trail \in [Rows -> {"none"} \cup Statuses]
    /\ req \in [Requests -> {Idle} \cup Request]
    /\ aud \in [Auditors -> {Idle} \cup Audit]
    /\ ret \in [Retainers -> {Idle} \cup Retention]
    /\ faults \in 0 .. MaxFaults

AllIdle == /\ \A q \in Requests : req[q].pc = "idle"
           /\ \A a \in Auditors : aud[a].pc = "idle"
           /\ \A t \in Retainers : ret[t].pc = "idle"

\* One worker process (~Overlap) finishes a handler before it takes the next.
CanStart == Overlap \/ AllIdle

\* Rows an open audit transaction has updated: other updates of them wait.
Locked(r) == \E a \in Auditors : aud[a].pc = "apply" /\ r \in aud[a].saved
LockedAgainst(a, r) == \E b \in Auditors \ {a} : aud[b].pc = "apply" /\ r \in aud[b].saved

Init ==
    /\ world \in SUBSET Problems
    /\ gen = 0
    /\ findings = [r \in Rows |-> NoFinding]
    /\ sups = [r \in Rows |-> [k \in SupIds |-> "none"]]
    /\ runs = [id \in RunIds |-> "none"]
    /\ old = {}
    /\ trail = [r \in Rows |-> "none"]
    /\ req = [q \in Requests |-> Idle]
    /\ aud = [a \in Auditors |-> Idle]
    /\ ret = [t \in Retainers |-> Idle]
    /\ faults = 0

-----------------------------------------------------------------------------
(* Operator requests. *)

\* The early returns of finding_state.py, taken on the copy.
Ignored(op, copy) ==
    \/ op \in {"acknowledge", "start_remediation"} /\ copy.status = "resolved"
    \/ op = "resolve" /\ copy.status = "resolved" /\ ~copy.active

\* The row finding.save() writes back, every column of it from the copy.
Triaged(op, copy) ==
    CASE op = "acknowledge"       -> [copy EXCEPT !.status = "acknowledged"]
      [] op = "start_remediation" -> [copy EXCEPT !.status = "in_progress"]
      [] op = "resolve" -> [copy EXCEPT !.status = "resolved", !.active = FALSE,
                                        !.resolvedAt = TRUE]
      [] op = "reopen"  -> [copy EXCEPT !.status = "open", !.active = TRUE,
                                        !.resolvedAt = FALSE]

Partial(row) == [status |-> row.status, active |-> row.active]

GoTo(q, step) == req' = [req EXCEPT ![q] = step]

\* Every handler ends by recording an event with the status it believes it left.
Event(r, status) == [pc |-> "event", row |-> r, status |-> status]

\* The view loads the finding; an early return leaves nothing to do.
LoadForTriage(q, op, r) ==
    /\ CanStart
    /\ req[q].pc = "idle"
    /\ r \in Exists(findings)
    /\ ~Ignored(op, findings[r])
    /\ GoTo(q, [pc |-> "triage", op |-> op, row |-> r, copy |-> findings[r]])
    /\ UNCHANGED <<world, gen, tables, old, aud, ret, faults>>

SaveTriage(q) ==
    /\ req[q].pc = "triage"
    /\ ~Locked(req[q].row)
    /\ ReferencesKept(req[q].copy)
    /\ LET row == Triaged(req[q].op, req[q].copy)
       IN  /\ findings' = [findings EXCEPT ![req[q].row] = row]
           /\ GoTo(q, Event(req[q].row, row.status))
    /\ UNCHANGED <<world, gen, sups, runs, old, trail, aud, ret, faults>>

\* The copy names a run that has been pruned: the save raises IntegrityError.
RejectTriage(q) ==
    /\ req[q].pc = "triage"
    /\ ~ReferencesKept(req[q].copy)
    /\ GoTo(q, Idle)
    /\ UNCHANGED <<world, gen, tables, old, aud, ret, faults>>

\* Of the finding it loads, suppress_audit_finding uses the key only.
LoadToSuppress(q, r) ==
    /\ CanStart
    /\ req[q].pc = "idle"
    /\ r \in Exists(findings)
    /\ \E k \in SupIds : sups[r][k] = "none"                          \* bound
    /\ GoTo(q, [pc |-> "suppress", row |-> r])
    /\ UNCHANGED <<world, gen, tables, old, aud, ret, faults>>

LookupToSuppress(q) ==
    /\ req[q].pc = "suppress"
    /\ req' = [req EXCEPT ![q].pc =
                 IF ActiveSuppressions(req[q].row) = {} THEN "create" ELSE "save_suppressed"]
    /\ UNCHANGED <<world, gen, tables, old, aud, ret, faults>>

CreateSuppression(q) ==
    /\ req[q].pc = "create"
    /\ \E k \in SupIds :
          /\ sups[req[q].row][k] = "none"
          /\ \A j \in SupIds : j < k => sups[req[q].row][j] # "none"
          /\ sups' = [sups EXCEPT ![req[q].row][k] = "live"]
    /\ req' = [req EXCEPT ![q].pc = "save_suppressed"]
    /\ UNCHANGED <<world, gen, findings, runs, old, trail, aud, ret, faults>>

\* Seeded fault: the save leaves active out.
SuppressedStatusOnly(row) == [row EXCEPT !.status = "suppressed"]

\* save(update_fields=('status', 'active')): resolved_at stays as it is.
Suppressed(row) == [row EXCEPT !.status = "suppressed", !.active = TRUE]

SaveSuppressed(q) ==
    /\ req[q].pc = "save_suppressed"
    /\ ~Locked(req[q].row)
    /\ findings' = [findings EXCEPT ![req[q].row] = Suppressed(@)]
    /\ GoTo(q, Event(req[q].row, "suppressed"))
    /\ UNCHANGED <<world, gen, sups, runs, old, trail, aud, ret, faults>>

LoadToUnsuppress(q, r) ==
    /\ CanStart
    /\ req[q].pc = "idle"
    /\ r \in Exists(findings)
    /\ GoTo(q, [pc |-> "unsuppress", row |-> r, copy |-> Partial(findings[r])])
    /\ UNCHANGED <<world, gen, tables, old, aud, ret, faults>>

LookupToUnsuppress(q) ==
    /\ req[q].pc = "unsuppress"
    /\ \/ /\ ActiveSuppressions(req[q].row) = {}
          /\ req' = [req EXCEPT ![q].pc = "save_unsuppressed"]
       \/ \E k \in SupIds :
             /\ IsNewest(req[q].row, k)
             /\ GoTo(q, [pc |-> "deactivate", row |-> req[q].row, copy |-> req[q].copy,
                         sup |-> k])
    /\ UNCHANGED <<world, gen, tables, old, aud, ret, faults>>

DeactivateSuppression(q) ==
    /\ req[q].pc = "deactivate"
    /\ sups' = [sups EXCEPT ![req[q].row][req[q].sup] = "off"]
    /\ GoTo(q, [pc |-> "save_unsuppressed", row |-> req[q].row, copy |-> req[q].copy])
    /\ UNCHANGED <<world, gen, findings, runs, old, trail, aud, ret, faults>>

\* Seeded fault: the event says open where nothing was saved.
UnsuppressedClaimsOpen(q) ==
    /\ req[q].pc = "save_unsuppressed"
    /\ IF req[q].copy.active
       THEN findings' = [findings EXCEPT ![req[q].row].status = "open"]
       ELSE UNCHANGED findings
    /\ GoTo(q, Event(req[q].row, "open"))
    /\ UNCHANGED <<world, gen, sups, runs, old, trail, aud, ret, faults>>

\* save(update_fields=('status',)), only if the copy was active.
SaveUnsuppressed(q) ==
    /\ req[q].pc = "save_unsuppressed"
    /\ IF req[q].copy.active
       THEN /\ ~Locked(req[q].row)
            /\ findings' = [findings EXCEPT ![req[q].row].status = "open"]
            /\ GoTo(q, Event(req[q].row, "open"))
       ELSE /\ UNCHANGED findings
            /\ GoTo(q, Event(req[q].row, req[q].copy.status))
    /\ UNCHANGED <<world, gen, sups, runs, old, trail, aud, ret, faults>>

RecordEvent(q) ==
    /\ req[q].pc = "event"
    /\ trail' = [trail EXCEPT ![req[q].row] = req[q].status]
    /\ GoTo(q, Idle)
    /\ UNCHANGED <<world, gen, findings, sups, runs, old, aud, ret, faults>>

Fault == faults < MaxFaults /\ faults' = faults + 1                 \* bound

\* The process dies, or a statement of the request raises.
RequestDies(q) ==
    /\ Fault
    /\ req[q].pc # "idle"
    /\ req' = [req EXCEPT ![q] = Idle]
    /\ UNCHANGED <<world, gen, tables, old, aud, ret>>

RequestStep(q) ==
    \/ SaveTriage(q) \/ RejectTriage(q)
    \/ LookupToSuppress(q)   \/ CreateSuppression(q)     \/ SaveSuppressed(q)
    \/ LookupToUnsuppress(q) \/ DeactivateSuppression(q) \/ SaveUnsuppressed(q)
    \/ RecordEvent(q)

RequestStarts(q) ==
    \E r \in Rows : \/ \E op \in TriageOps : LoadForTriage(q, op, r)
                   \/ LoadToSuppress(q, r) \/ LoadToUnsuppress(q, r)

-----------------------------------------------------------------------------
(* Persistent audits. *)

\* build_audit_finding_fingerprint hashes the primary key of the object, and a
\* rebuild deletes and recreates every object of the graph.
Fingerprint(p) == <<p, IF p \in GraphProblems THEN gen ELSE 0>>

Reported == {Fingerprint(p) : p \in world}

\* existing_findings: a dict by fingerprint, so the last of the rows wins.
Loaded(copies) ==
    {r \in Exists(copies) : \A s \in Exists(copies) : s[1] = r[1] => s[2] <= r[2]}

\* Seeded fault: a triaged finding counts as resolved.
WasTouched(copy) == copy.status # "open" \/ ~copy.active

WasResolved(copy) == copy.status = "resolved" \/ ~copy.active

\* Seeded faults: the row stays inactive; the suppression is not looked at.
RefreshedInPlace(copy, run, suppressed) ==
    [copy EXCEPT !.lastRun = run, !.status = IF WasResolved(copy) THEN "open" ELSE @]
RefreshedOpen(copy, run, suppressed) ==
    [copy EXCEPT !.lastRun = run, !.active = TRUE,
                 !.status = IF WasResolved(copy) THEN "open" ELSE @]

\* The row existing.save() writes for a finding the audit reports again.
Refreshed(copy, run, suppressed) ==
    IF WasResolved(copy)
    THEN [copy EXCEPT !.status = IF suppressed THEN "suppressed" ELSE "open",
                      !.active = TRUE, !.resolvedAt = FALSE, !.lastRun = run]
    ELSE [copy EXCEPT !.lastRun = run]

Opened(run) == [status |-> "open", active |-> TRUE, resolvedAt |-> FALSE,
                firstRun |-> run, lastRun |-> run]

AutoResolved(row) == [row EXCEPT !.status = "resolved", !.active = FALSE,
                                 !.resolvedAt = TRUE]

StartAudit(a) ==
    /\ CanStart
    /\ aud[a].pc = "idle"
    /\ \E id \in RunIds :
          /\ runs[id] = "none"                                       \* bound
          /\ \A j \in RunIds : j < id => runs[j] # "none"
          /\ runs' = [runs EXCEPT ![id] = "running"]
          /\ aud' = [aud EXCEPT ![a] = [pc |-> "evaluate", run |-> id]]
    /\ UNCHANGED <<world, gen, findings, sups, old, trail, req, ret, faults>>

\* run_plane_audit, outside the transaction.
Evaluate(a) ==
    /\ aud[a].pc = "evaluate"
    /\ aud' = [aud EXCEPT ![a] = [pc |-> "load", run |-> aud[a].run, seen |-> Reported]]
    /\ UNCHANGED <<world, gen, tables, old, req, ret, faults>>

\* Seeded fault: the query takes the active findings only.
LoadActive(a) ==
    /\ aud[a].pc = "load"
    /\ aud' = [aud EXCEPT ![a] =
                 [pc |-> "apply", run |-> aud[a].run, seen |-> aud[a].seen,
                  copies |-> [r \in Rows |-> IF findings[r].active THEN findings[r] ELSE NoFinding],
                  todo |-> {r \in Loaded(findings) : findings[r].active /\ r[1] \in aud[a].seen},
                  saved |-> {}, reopened |-> {}]]
    /\ UNCHANGED <<world, gen, tables, old, req, ret, faults>>

\* The transaction starts with one query for the findings of the fabric.
LoadFindings(a) ==
    /\ aud[a].pc = "load"
    /\ aud' = [aud EXCEPT ![a] =
                 [pc |-> "apply", run |-> aud[a].run, seen |-> aud[a].seen,
                  copies |-> findings,
                  todo |-> {r \in Loaded(findings) : r[1] \in aud[a].seen},
                  saved |-> {}, reopened |-> {}]]
    /\ UNCHANGED <<world, gen, tables, old, req, ret, faults>>

\* One turn of the loop: query the suppressions of the finding, then save it.
\* The write becomes visible, and the lock is released, at the commit.
RefreshFinding(a, r) ==
    /\ aud[a].pc = "apply" /\ r \in aud[a].todo
    /\ ~LockedAgainst(a, r)
    /\ LET copy == aud[a].copies[r]
       IN  aud' = [aud EXCEPT
             ![a].copies[r] = Refreshed(copy, aud[a].run, ActiveSuppressions(r) # {}),
             ![a].todo = @ \ {r},
             ![a].saved = @ \cup {r},
             ![a].reopened = IF WasResolved(copy) THEN @ \cup {r} ELSE @]
    /\ UNCHANGED <<world, gen, tables, old, req, ret, faults>>

\* Seeded fault: only open findings are auto-resolved.
AbsentOpen(a) == {r \in Loaded(aud[a].copies) :
                     r[1] \notin aud[a].seen /\ aud[a].copies[r].status = "open"}

\* Loaded rows that are active and were not reported.
Absent(a) == {r \in Loaded(aud[a].copies) : r[1] \notin aud[a].seen /\ aud[a].copies[r].active}

\* The fingerprints without a loaded row.
New(a) == {fp \in aud[a].seen : \A s \in Exists(aud[a].copies) : s[1] # fp}

\* Where their findings are inserted.
Free == {r \in Rows : findings[r].status = "none"}
Inserted(a) ==
    {r \in Free : r[1] \in New(a) /\ \A s \in Free : s[1] = r[1] => r[2] <= s[2]}

\* The rest of the transaction: insert what is new, resolve what is absent, commit.
CompleteAudit(a) ==
    /\ aud[a].pc = "apply" /\ aud[a].todo = {}
    /\ \A r \in Absent(a) : ~LockedAgainst(a, r)
    /\ \A r \in aud[a].saved : ReferencesKept(aud[a].copies[r])
    /\ New(a) \subseteq {r[1] : r \in Free}                           \* bound
    /\ findings' = [r \in Rows |->
          CASE r \in aud[a].saved -> aud[a].copies[r]
            [] r \in Absent(a)    -> AutoResolved(findings[r])
            [] r \in Inserted(a)  -> Opened(aud[a].run)
            [] OTHER              -> findings[r]]
    /\ trail' = [r \in Rows |->
          CASE r \in aud[a].reopened -> aud[a].copies[r].status
            [] r \in Absent(a)       -> "resolved"
            [] r \in Inserted(a)     -> "open"
            [] OTHER                 -> trail[r]]
    /\ runs' = [runs EXCEPT ![aud[a].run] = "completed"]
    /\ aud' = [aud EXCEPT ![a] = Idle]
    /\ UNCHANGED <<world, gen, sups, old, req, ret, faults>>

\* What makes the database abort the transaction: a dangling foreign key at the
\* commit, or a cycle of row locks with another audit.
Aborted(a) ==
    /\ aud[a].pc = "apply"
    /\ \/ \E r \in aud[a].saved : ~ReferencesKept(aud[a].copies[r])
       \/ \E b \in Auditors \ {a} :
             /\ aud[b].pc = "apply"
             /\ (aud[a].todo \cup Absent(a)) \cap aud[b].saved # {}
             /\ (aud[b].todo \cup Absent(b)) \cap aud[a].saved # {}

\* Any exception: the transaction is rolled back, the run is marked failed.
FailAudit(a) ==
    /\ aud[a].pc # "idle"
    /\ Fault \/ (Aborted(a) /\ UNCHANGED faults)
    /\ runs' = [runs EXCEPT ![aud[a].run] = "failed"]
    /\ aud' = [aud EXCEPT ![a] = Idle]
    /\ UNCHANGED <<world, gen, findings, sups, old, trail, req, ret>>

\* The worker dies: nothing marks the run, it stays running.
AuditDies(a) ==
    /\ Fault
    /\ aud[a].pc # "idle"
    /\ aud' = [aud EXCEPT ![a] = Idle]
    /\ UNCHANGED <<world, gen, tables, old, req, ret>>

AuditStep(a) ==
    \/ Evaluate(a) \/ LoadFindings(a) \/ (\E r \in Rows : RefreshFinding(a, r))
    \/ CompleteAudit(a)

-----------------------------------------------------------------------------
(* The retention job. *)

Finished == {id \in RunIds : runs[id] \in {"completed", "failed"}}

Join(s) == [row |-> s[1], sup |-> s[2], copy |-> Partial(findings[s[1]])]

\* Seeded fault: the query takes the suppressions that are not due yet.
DueLater == {Join(s) : s \in {s \in Rows \X SupIds : sups[s[1]][s[2]] = "live"}}

\* The query for the due suppressions joins their findings.
Due == {Join(s) : s \in {s \in Rows \X SupIds : sups[s[1]][s[2]] = "due"}}

StartRetention(t) ==
    /\ CanStart
    /\ ret[t].pc = "idle"
    /\ ret' = [ret EXCEPT ![t] = [pc |-> "expire", due |-> Due]]
    /\ UNCHANGED <<world, gen, tables, old, req, aud, faults>>

ExpireSuppression(t) ==
    /\ ret[t].pc = "expire"
    /\ \E d \in ret[t].due :
          /\ sups' = [sups EXCEPT ![d.row][d.sup] = "off"]
          /\ ret' = [ret EXCEPT ![t] = [pc |-> "finding", due |-> ret[t].due \ {d},
                                        row |-> d.row, copy |-> d.copy]]
    /\ UNCHANGED <<world, gen, findings, runs, old, trail, req, aud, faults>>

\* Seeded fault: the finding of an expired suppression is left alone.
ExpiredOnly(t) ==
    /\ ret[t].pc = "finding"
    /\ ret' = [ret EXCEPT ![t].pc = "event"]
    /\ UNCHANGED <<world, gen, findings, sups, runs, old, trail, req, aud, faults>>

\* The finding is reopened if the copy the query joined is active and suppressed.
WasSuppressed(copy) == copy.active /\ copy.status = "suppressed"

ReopenExpired(t) ==
    /\ ret[t].pc = "finding"
    /\ IF WasSuppressed(ret[t].copy)
       THEN /\ ~Locked(ret[t].row)
            /\ findings' = [findings EXCEPT ![ret[t].row].status = "open"]
            /\ ret' = [ret EXCEPT ![t].pc = "event", ![t].copy.status = "open"]
       ELSE /\ UNCHANGED findings
            /\ ret' = [ret EXCEPT ![t].pc = "event"]
    /\ UNCHANGED <<world, gen, sups, runs, old, trail, req, aud, faults>>

RecordExpiry(t) ==
    /\ ret[t].pc = "event"
    /\ trail' = [trail EXCEPT ![ret[t].row] = ret[t].copy.status]
    /\ ret' = [ret EXCEPT ![t] = [pc |-> "expire", due |-> ret[t].due]]
    /\ UNCHANGED <<world, gen, findings, sups, runs, old, req, aud, faults>>

\* Seeded fault: first_seen_run is forgotten.
LastSeenRuns(table) ==
    {id \in RunIds : \E r \in Rows : table[r].active /\ id = table[r].lastRun}

\* active_run_ids: the runs that active findings name.
ActiveRuns(table) ==
    {id \in RunIds : \E r \in Rows : table[r].active /\ id \in {table[r].firstRun, table[r].lastRun}}

CollectActiveRuns(t) ==
    /\ ret[t].pc = "expire" /\ ret[t].due = {}
    /\ ret' = [ret EXCEPT ![t] = [pc |-> "events", keep |-> ActiveRuns(findings)]]
    /\ UNCHANGED <<world, gen, tables, old, req, aud, faults>>

\* The events old enough to go are those of some of the closed findings.
PruneEvents(t) ==
    /\ ret[t].pc = "events"
    /\ \E S \in SUBSET {r \in Exists(findings) :
                          ~findings[r].active \/ findings[r].status = "resolved"} :
          trail' = [r \in Rows |-> IF r \in S THEN "none" ELSE trail[r]]
    /\ ret' = [ret EXCEPT ![t].pc = "runs"]
    /\ UNCHANGED <<world, gen, findings, sups, runs, old, req, aud, faults>>

Prunable(t) == (old \cap Finished) \ ret[t].keep

Forget(row, ids) ==
    [row EXCEPT !.firstRun = IF @ \in ids THEN NoRun ELSE @,
                !.lastRun  = IF @ \in ids THEN NoRun ELSE @]

\* Deleting a run sets the foreign keys of findings to it to null.
PruneRuns(t) ==
    /\ ret[t].pc = "runs"
    /\ \A r \in Rows : Forget(findings[r], Prunable(t)) # findings[r] => ~Locked(r)
    /\ runs' = [id \in RunIds |-> IF id \in Prunable(t) THEN "pruned" ELSE runs[id]]
    /\ findings' = [r \in Rows |-> Forget(findings[r], Prunable(t))]
    /\ old' = old \ Prunable(t)
    /\ ret' = [ret EXCEPT ![t] = Idle]
    /\ UNCHANGED <<world, gen, sups, trail, req, aud, faults>>

RetentionDies(t) ==
    /\ Fault
    /\ ret[t].pc # "idle"
    /\ ret' = [ret EXCEPT ![t] = Idle]
    /\ UNCHANGED <<world, gen, tables, old, req, aud>>

RetentionStep(t) ==
    \/ ExpireSuppression(t) \/ ReopenExpired(t) \/ RecordExpiry(t)
    \/ CollectActiveRuns(t) \/ PruneEvents(t)   \/ PruneRuns(t)

-----------------------------------------------------------------------------
(* The environment. *)

PlantChanges ==
    /\ world' \in SUBSET Problems
    /\ UNCHANGED <<gen, tables, old, req, aud, ret, faults>>

\* build_graph deletes the planes and nodes of the fabric and recreates them.
GraphRebuilt ==
    /\ gen < MaxRebuilds                                             \* bound
    /\ gen' = gen + 1
    /\ UNCHANGED <<world, tables, old, req, aud, ret, faults>>

SuppressionComesDue(r, k) ==
    /\ sups[r][k] = "live"
    /\ sups' = [sups EXCEPT ![r][k] = "due"]
    /\ UNCHANGED <<world, gen, findings, runs, old, trail, req, aud, ret, faults>>

\* A finished run passes the retention cutoff.  No handler stays in flight for days,
\* so the runs that are old when a retention job starts are those old when it ends.
RunAges(id) ==
    /\ AllIdle
    /\ id \in Finished \ old
    /\ old' = old \cup {id}
    /\ UNCHANGED <<world, gen, tables, req, aud, ret, faults>>

Environment ==
    \/ PlantChanges \/ GraphRebuilt
    \/ (\E r \in Rows, k \in SupIds : SuppressionComesDue(r, k))
    \/ (\E id \in RunIds : RunAges(id))

Next ==
    \/ \E q \in Requests : RequestStarts(q) \/ RequestStep(q) \/ RequestDies(q)
    \/ \E a \in Auditors : StartAudit(a) \/ AuditStep(a) \/ FailAudit(a) \/ AuditDies(a)
    \/ \E t \in Retainers : StartRetention(t) \/ RetentionStep(t) \/ RetentionDies(t)
    \/ Environment

Spec == Init /\ [][Next]_vars

\* A handler that has started runs on; suppressions reach their expiry; the job
\* queue gets round to the retention job however often other handlers go first.
Fairness ==
    /\ \A q \in Requests : WF_vars(RequestStep(q))
    /\ \A a \in Auditors : WF_vars(AuditStep(a)) /\ WF_vars(Aborted(a) /\ FailAudit(a))
    /\ \A t \in Retainers : WF_vars(RetentionStep(t)) /\ SF_vars(StartRetention(t))
    /\ \A r \in Rows, k \in SupIds : WF_vars(SuppressionComesDue(r, k))

FairSpec == Spec /\ Fairness

-----------------------------------------------------------------------------
(* Properties. *)

\* Holds for every interleaving. A finding's columns are saved in different
\* groups by different handlers (all of them, status and active, status alone),
\* from copies of different ages; they still never contradict each other in these
\* ways: a resolved row is inactive, a suppressed row is active, and an inactive
\* row carries the time it was resolved at.
RowConsistent ==
    \A r \in Exists(findings) :
        /\ findings[r].status = "resolved" => ~findings[r].active
        /\ findings[r].status = "suppressed" => findings[r].active
        /\ ~findings[r].active => findings[r].resolvedAt

\* Holds for every interleaving. Once an audit has committed, everything it
\* reported has an active row, whatever operators did to the rows it had loaded.
ReportedIsActive ==
    [][\A a \in Auditors : CompleteAudit(a) =>
          \A fp \in aud[a].seen : \E r \in Rows : r[1] = fp /\ findings'[r].active]_vars

\* One process, no faults: a finding shown as suppressed has an active suppression
\* that the retention job will find, unless a handler is just taking it away.
SuppressedHasSuppression ==
    AllIdle => \A r \in Exists(findings) :
                   findings[r].status = "suppressed" => ActiveSuppressions(r) # {}

\* One process: a fingerprint has one row, across any number of audit runs.
OneRowPerFingerprint ==
    \A r, s \in Exists(findings) : r[1] = s[1] => r = s

\* One process, no faults: the newest event of a finding that retention has not
\* deleted tells the status the finding has.
TrailIsCurrent ==
    AllIdle => \A r \in Exists(findings) : trail[r] \in {"none", findings[r].status}

\* One process: after an audit the active findings are exactly what it reported.
AuditMirrorsEvaluation ==
    [][\A a \in Auditors : CompleteAudit(a) =>
          {r[1] : r \in {s \in Rows : findings'[s].active}} = aud[a].seen]_vars

\* One process: an audit that still reports a finding leaves the triage of it
\* (acknowledged, in progress, suppressed) as the operators set it.
AuditPreservesTriage ==
    [][\A a \in Auditors : CompleteAudit(a) =>
          \A r \in Exists(findings) :
              r[1] \in aud[a].seen /\ findings[r].active
                  => findings'[r].status = findings[r].status]_vars

\* One process: retention never takes away a run that an active finding names.
ActiveRunsKept ==
    [][\A r \in Rows : findings[r].active /\ findings'[r].active =>
          /\ findings[r].firstRun # NoRun => findings'[r].firstRun # NoRun
          /\ findings[r].lastRun # NoRun => findings'[r].lastRun # NoRun]_vars

\* One process, no faults: a suppression is temporary.
SuppressionEnds ==
    \A r \in Rows : findings[r].status = "suppressed" ~> findings[r].status # "suppressed"

\* One process, faults or not: the workflow implements the ledger of findings.
Ledger == INSTANCE FindingLedger WITH
    Findings <- Rows,
    Runs <- RunIds,
    completed <- {id \in RunIds : runs[id] = "completed"},
    status <- [r \in Rows |-> findings[r].status],
    muted <- [r \in Rows |-> ActiveSuppressions(r) # {}]

ImplementsLedger == Ledger!Spec
=============================================================================

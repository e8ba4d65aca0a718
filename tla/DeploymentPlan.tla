--------------------------- MODULE DeploymentPlan ---------------------------
(***************************************************************************)
(* One DeploymentPlan with its StampRecords: services/plan_execution.py     *)
(* executes a plan (claims it, stamps its pending records in one            *)
(* transaction, or puts it back to draft) and rolls it back; the stamp      *)
(* wizards and the REST API add records to it.                              *)
(*                                                                          *)
(* A handler decides on the copy of the plan its view has loaded.  Nothing  *)
(* is locked before it is written: what two executions may not both do is   *)
(* left to the unique constraints of the objects the stamps create.         *)
(***************************************************************************)
EXTENDS Naturals

CONSTANTS
    Executors,    \* slots for executions of execute_plan
    Rollbackers,  \* slots for executions of rollback_plan
    MaxRecords,   \* bound: stamp records of the plan
    Inventory,    \* what NetBox holds at first: object |-> its type and the places around it
    NoObject,     \* stands for a reference that is not set
    Kinds,        \* the kinds of records that may be added
    Overlap,      \* may two handlers be in flight at the same time?
    MaxFaults     \* bound: handlers that die, or database errors

\* "vacant" is a spatial template or rack population that puts no rack or device into the
\* place it is stamped on, "none" a record without a dispatch payload.
AllKinds == {"spatial", "rack_population", "assembly_passive", "cable_assembly", "breakout",
             "vacant", "none"}
Assemblies == {"assembly_passive", "cable_assembly"}

\* What a stamp creates, for the kinds that create something: the first of its objects
\* stands for all.
Makes == [spatial |-> "rack", rack_population |-> "device", assembly_passive |-> "device",
          cable_assembly |-> "cable"]

Records == 1 .. MaxRecords
Scopes == {"site", "location"}
Types == Scopes \cup {"rack", "device", "cable"}

\* Primary keys are not reused: what a record creates again is another object.
Created == [by: Records, nth: Nat]
Object == DOMAIN Inventory \cup Created
Entry == [type: Types, inside: SUBSET DOMAIN Inventory]

ASSUME KindsAssumption == Kinds \subseteq AllKinds
ASSUME BoundsAssumption == MaxRecords \in Nat /\ MaxFaults \in Nat
ASSUME ModeAssumption == Overlap \in BOOLEAN
ASSUME InventoryAssumption ==
    /\ \A o \in DOMAIN Inventory : Inventory[o] \in Entry /\ o \notin Created
    /\ NoObject \notin DOMAIN Inventory /\ NoObject \notin Created

VARIABLES
    plan,       \* DeploymentPlan.status
    stamps,     \* table StampRecord, by primary key
    objects,    \* the scopes, racks, devices and cables that stand
    inventory,  \* all objects there ever were: their types, and the places they are in
    made,       \* how often a record has created its object
    exec,       \* executions in flight
    roll,       \* rollbacks in flight
    faults      \* faults so far

netbox == <<objects, inventory, made>>
tables == <<plan, stamps, netbox>>
vars == <<tables, exec, roll, faults>>

\* subject: the scope, rack or device that the parameters name.
StampRecord == [status: {"absent", "pending", "stamped", "failed", "rolled_back"},
                kind: AllKinds,
                subject: Object \cup {NoObject}, result: Object \cup {NoObject}]
NoRecord == [status |-> "absent", kind |-> "none", subject |-> NoObject, result |-> NoObject]
PlanStates == {"draft", "approved", "stamping", "active", "rolled_back"}

With(status) == {r \in Records : stamps[r].status = status}

Idle == [pc |-> "idle"]
Execution == [pc: {"mark", "list", "draft"}]
             \cup [pc: {"apply"}, todo: SUBSET Records, done: SUBSET Records]
             \cup [pc: {"fail"}, culprit: Records]
Rollback == [pc: {"list"}] \cup [pc: {"apply"}, listed: SUBSET (Records \X (Object \cup {NoObject}))]

TypeOK ==
    /\ plan \in PlanStates
    /\ stamps \in [Records -> StampRecord]
    /\ objects \subseteq DOMAIN inventory /\ DOMAIN inventory \subseteq Object
    /\ \A o \in DOMAIN inventory : inventory[o] \in [type: Types, inside: SUBSET Object]
    /\ \A r \in Records : stamps[r].subject \in DOMAIN inventory \cup {NoObject}
    /\ made \in [Records -> Nat]
    /\ exec \in [Executors -> {Idle} \cup Execution]
    /\ roll \in [Rollbackers -> {Idle} \cup Rollback]
    /\ faults \in 0 .. MaxFaults

AllIdle == /\ \A e \in Executors : exec[e].pc = "idle"
           /\ \A b \in Rollbackers : roll[b].pc = "idle"

\* One worker process (~Overlap) finishes a handler before it takes the next.
CanStart == Overlap \/ AllIdle

Fault == faults < MaxFaults /\ faults' = faults + 1                 \* bound

Init ==
    /\ plan = "draft"
    /\ stamps = [r \in Records |-> NoRecord]
    /\ inventory = Inventory /\ objects = DOMAIN Inventory
    /\ made = [r \in Records |-> 0]
    /\ exec = [e \in Executors |-> Idle]
    /\ roll = [b \in Rollbackers |-> Idle]
    /\ faults = 0

-----------------------------------------------------------------------------
(* Operators build the plan. *)

\* The plan's form and API take any status; nobody sets "stamping" by hand.  "review"
\* and "completed" are as good as draft: no handler acts on them.
SetStatus(status) ==
    /\ CanStart
    /\ plan' = status
    /\ UNCHANGED <<stamps, netbox, exec, roll, faults>>

OfType(types) == {o \in objects : inventory[o].type \in types}

\* What the forms offer a record of a kind to refer to.
Subjects(kind) ==
    CASE kind = "spatial"                        -> OfType(Scopes)
      [] kind = "rack_population"                -> OfType({"rack"})
      [] kind \in {"assembly_passive", "vacant"} -> OfType(Scopes \cup {"rack"})
      [] kind = "breakout"                       -> OfType({"device"})
      [] OTHER                                   -> {NoObject}

Insert(r, record) ==
    /\ CanStart
    /\ stamps[r].status = "absent"                                   \* bound
    /\ \A s \in Records : s < r => stamps[s].status # "absent"
    /\ stamps' = [stamps EXCEPT ![r] = record]

\* "Add to plan" in a stamp wizard; the status of the plan is not looked at.
AddToPlan(r, kind) ==
    /\ \E o \in Subjects(kind) :
          Insert(r, [status |-> "pending", kind |-> kind, subject |-> o, result |-> NoObject])
    /\ UNCHANGED <<plan, netbox, exec, roll, faults>>

\* The object that the stamp of a record has created last, and the next one.
Own(r) == [by |-> r, nth |-> made[r]]
New(r) == [by |-> r, nth |-> made[r] + 1]

\* The places around what is put into one.
Around(place) == IF place = NoObject THEN {} ELSE {place} \cup inventory[place].inside

\* The stamps of these records put their objects into NetBox.
Create(makers) ==
    /\ made' = [r \in Records |-> IF r \in makers THEN made[r] + 1 ELSE made[r]]
    /\ objects' = objects \cup {New(r) : r \in makers}
    /\ inventory' =
          [o \in DOMAIN inventory \cup {New(r) : r \in makers} |->
              IF o \in DOMAIN inventory THEN inventory[o]
              ELSE [type |-> Makes[stamps'[o.by].kind], inside |-> Around(stamps'[o.by].subject)]]

Makers(records) == {r \in records : stamps[r].kind \in DOMAIN Makes}

ResultOf(r, kind, subject) == IF kind \in Assemblies THEN New(r) ELSE subject

\* "Execute now" in a wizard, or POST .../stamp/, with a plan for provenance: the
\* objects and the record are created in one transaction.
StampUnderPlan(r, kind) ==
    /\ kind \in DOMAIN Makes \cup {"vacant"}
    /\ \E o \in Subjects(kind) :
          Insert(r, [status |-> "stamped", kind |-> kind, subject |-> o,
                     result |-> ResultOf(r, kind, o)])
    /\ Create(IF kind \in DOMAIN Makes THEN {r} ELSE {})
    /\ UNCHANGED <<plan, exec, roll, faults>>

-----------------------------------------------------------------------------
(* execute_plan. *)

Goto(e, step) == exec' = [exec EXCEPT ![e] = step]

\* Rows and index entries an open transaction has written: other writers wait.
Held(r) == \E e \in Executors : exec[e].pc = "apply" /\ r \in exec[e].done
HeldAgainst(e, r) == \E f \in Executors \ {e} : exec[f].pc = "apply" /\ r \in exec[f].done

LoadToExecute(e) ==
    /\ CanStart
    /\ exec[e].pc = "idle"
    /\ plan = "approved"
    /\ Goto(e, [pc |-> "mark"])
    /\ UNCHANGED <<tables, roll, faults>>

MarkStamping(e) ==
    /\ exec[e].pc = "mark"
    /\ plan' = "stamping"
    /\ Goto(e, [pc |-> "list"])
    /\ UNCHANGED <<stamps, netbox, roll, faults>>

\* Seeded fault: the list is cut at the first record.
ListFirst(e) ==
    /\ exec[e].pc = "list"
    /\ Goto(e, [pc |-> "apply", done |-> {},
                todo |-> {r \in With("pending") : \A s \in With("pending") : r <= s}])
    /\ UNCHANGED <<tables, roll, faults>>

ListPending(e) ==
    /\ exec[e].pc = "list"
    /\ Goto(e, [pc |-> "apply", todo |-> With("pending"), done |-> {}])
    /\ UNCHANGED <<tables, roll, faults>>

\* _dispatch_record succeeds: what the record refers to still exists, and the names,
\* slugs and terminations of what it creates are not taken.  Child interfaces of a
\* breakout that exist already are skipped.
CanStamp(r) ==
    /\ stamps[r].subject \in objects \cup {NoObject}
    /\ stamps[r].kind \in DOMAIN Makes => Own(r) \notin objects

\* One turn of the loop, in the order of the primary keys.
StampNext(e) ==
    /\ exec[e].pc = "apply"
    /\ \E r \in exec[e].todo :
          /\ \A s \in exec[e].todo : r <= s
          /\ ~HeldAgainst(e, r)
          /\ CanStamp(r)
          /\ exec' = [exec EXCEPT ![e].todo = @ \ {r}, ![e].done = @ \cup {r}]
    /\ UNCHANGED <<tables, roll, faults>>

\* Seeded fault: the result is not stored on the record.
StampedOnly(e) ==
    [r \in Records |-> IF r \in exec[e].done THEN [stamps[r] EXCEPT !.status = "stamped"]
                       ELSE stamps[r]]

\* The result is the assembly that was created, or the scope, rack or device the stamp
\* was applied to.
Stamped(e) ==
    [r \in Records |-> IF r \in exec[e].done
                       THEN [stamps[r] EXCEPT !.status = "stamped",
                                              !.result = ResultOf(r, stamps[r].kind, stamps[r].subject)]
                       ELSE stamps[r]]

\* Foreign keys are checked at the commit: what was created must have its place still.
\* A breakout that skips all its interfaces, like a vacant stamp, has no such key.
CommitExecution(e) ==
    /\ exec[e].pc = "apply" /\ exec[e].todo = {}
    /\ \A r \in Makers(exec[e].done) : stamps[r].subject \in objects \cup {NoObject}
    /\ stamps' = Stamped(e)
    /\ Create(Makers(exec[e].done))
    /\ plan' = "active"
    /\ Goto(e, Idle)
    /\ UNCHANGED <<roll, faults>>

\* Seeded fault: without the transaction, what was created stays.
RaiseKeepsObjects(e) ==
    /\ exec[e].pc = "apply"
    /\ \E r \in exec[e].todo : /\ \A s \in exec[e].todo : r <= s
                               /\ Goto(e, [pc |-> "fail", culprit |-> r])
    /\ UNCHANGED stamps
    /\ Create(Makers(exec[e].done))
    /\ UNCHANGED <<plan, roll, faults>>

\* Any exception rolls the transaction back.  The culprit is the record the loop was
\* at, or its last one if it is the final save of the plan that raises.
RaiseInStamp(e) ==
    /\ exec[e].pc = "apply"
    /\ \E r \in exec[e].todo : /\ \A s \in exec[e].todo : r <= s
                               /\ ~HeldAgainst(e, r)
                               /\ Goto(e, [pc |-> "fail", culprit |-> r])
    /\ UNCHANGED <<tables, roll, faults>>

RaiseAfterLoop(e) ==
    /\ exec[e].pc = "apply" /\ exec[e].todo = {}
    /\ \/ exec[e].done = {} /\ Goto(e, [pc |-> "draft"])
       \/ \E r \in exec[e].done : /\ \A s \in exec[e].done : s <= r
                                  /\ Goto(e, [pc |-> "fail", culprit |-> r])
    /\ UNCHANGED <<tables, roll>>

RaiseAtCommit(e) == Fault /\ RaiseAfterLoop(e)

\* A rollback has deleted the place, or the device, of something created.
PlaceIsGone(e) ==
    /\ RaiseAfterLoop(e)
    /\ \E r \in exec[e].done : stamps[r].subject \notin objects \cup {NoObject}
    /\ UNCHANGED faults

\* save(update_fields=('status', 'error_detail'))
MarkFailed(e) ==
    /\ exec[e].pc = "fail"
    /\ ~Held(exec[e].culprit)
    /\ stamps' = [stamps EXCEPT ![exec[e].culprit].status = "failed"]
    /\ Goto(e, [pc |-> "draft"])
    /\ UNCHANGED <<plan, netbox, roll, faults>>

\* Seeded fault: the plan is not put back.
LeaveStamping(e) ==
    /\ exec[e].pc = "draft"
    /\ Goto(e, Idle)
    /\ UNCHANGED <<tables, roll, faults>>

BackToDraft(e) ==
    /\ exec[e].pc = "draft"
    /\ plan' = "draft"
    /\ Goto(e, Idle)
    /\ UNCHANGED <<stamps, netbox, roll, faults>>

ExecutionDies(e) ==
    /\ Fault
    /\ exec[e].pc # "idle"
    /\ Goto(e, Idle)
    /\ UNCHANGED <<tables, roll>>

ExecutionStep(e) ==
    \/ MarkStamping(e) \/ ListPending(e) \/ StampNext(e) \/ CommitExecution(e)
    \/ RaiseInStamp(e) \/ PlaceIsGone(e) \/ MarkFailed(e) \/ BackToDraft(e)

-----------------------------------------------------------------------------
(* rollback_plan. *)

LoadToRollBack(b) ==
    /\ CanStart
    /\ roll[b].pc = "idle"
    /\ plan \in {"active", "stamping"}
    /\ roll' = [roll EXCEPT ![b] = [pc |-> "list"]]
    /\ UNCHANGED <<tables, exec, faults>>

ListStamped(b) ==
    /\ roll[b].pc = "list"
    /\ roll' = [roll EXCEPT ![b] =
                  [pc |-> "apply", listed |-> {<<r, stamps[r].result>> : r \in With("stamped")}]]
    /\ UNCHANGED <<tables, exec, faults>>

(***************************************************************************)
(* The deletions of the transaction, by primary key and in the reverse      *)
(* order of the records, whoever else names the objects.  NetBox protects a *)
(* rack or location that holds a device and a site that holds racks or      *)
(* devices: the exception is swallowed.  The locations in a scope go with   *)
(* it, a rack outlives its location, a device takes its interfaces.         *)
(***************************************************************************)
Holds(place, type) == {o \in OfType({type}) : place \in inventory[o].inside}

\* What the records after r have deleted.
ItemsGone(listed, r) == {o \in OfType({"device", "cable"}) : \E p \in listed : p[1] > r /\ p[2] = o}

RacksGone(listed, r) ==
    {o \in OfType({"rack"}) : \E p \in listed :
        p[1] > r /\ p[2] = o /\ Holds(o, "device") \subseteq ItemsGone(listed, p[1])}

ScopesGone(listed) ==
    {o \in OfType(Scopes) : \E p \in listed :
        /\ p[2] \in OfType(Scopes) /\ p[2] \in {o} \cup inventory[o].inside
        /\ Holds(p[2], "device") \subseteq ItemsGone(listed, p[1])
        /\ p[2] \in OfType({"site"}) => Holds(p[2], "rack") \subseteq RacksGone(listed, p[1])}

Deletes(listed) == ItemsGone(listed, 0) \cup RacksGone(listed, 0) \cup ScopesGone(listed)

\* Seeded fault: a record whose result could not be deleted keeps its status.
MarkDeleted(b) == {p[1] : p \in {p \in roll[b].listed : p[2] \in Deletes(roll[b].listed)}}

MarkRolledBack(b) == {p[1] : p \in roll[b].listed}

RollBack(b) ==
    /\ roll[b].pc = "apply"
    /\ \A p \in roll[b].listed : ~Held(p[1])
    /\ objects' = objects \ Deletes(roll[b].listed)
    /\ stamps' = [r \in Records |-> IF r \in MarkRolledBack(b)
                                    THEN [stamps[r] EXCEPT !.status = "rolled_back"]
                                    ELSE stamps[r]]
    /\ plan' = "rolled_back"
    /\ roll' = [roll EXCEPT ![b] = Idle]
    /\ UNCHANGED <<inventory, made, exec, faults>>

\* The process dies, or a deletion breaks the transaction, which is rolled back.
RollbackDies(b) ==
    /\ Fault
    /\ roll[b].pc # "idle"
    /\ roll' = [roll EXCEPT ![b] = Idle]
    /\ UNCHANGED <<tables, exec>>

RollbackStep(b) == ListStamped(b) \/ RollBack(b)

-----------------------------------------------------------------------------
Build ==
    \/ \E status \in PlanStates \ {"stamping"} : SetStatus(status)
    \/ \E r \in Records, kind \in Kinds : AddToPlan(r, kind) \/ StampUnderPlan(r, kind)

Next ==
    \/ Build
    \/ \E e \in Executors : \/ LoadToExecute(e) \/ ExecutionStep(e)
                            \/ RaiseAtCommit(e) \/ ExecutionDies(e)
    \/ \E b \in Rollbackers : LoadToRollBack(b) \/ RollbackStep(b) \/ RollbackDies(b)

Spec == Init /\ [][Next]_vars

\* A handler that has started runs on.
Fairness == /\ \A e \in Executors : WF_vars(ExecutionStep(e))
            /\ \A b \in Rollbackers : WF_vars(RollbackStep(b))

FairSpec == Spec /\ Fairness

-----------------------------------------------------------------------------
(* Properties. *)

\* What a record may have as its result; a location is deleted with the scope it is in.
Results(r) ==
    IF stamps[r].kind \in Assemblies THEN {[by |-> r, nth |-> n] : n \in 1 .. made[r]}
    ELSE {stamps[r].subject}

TakenWith(o) == IF inventory[o].type \in Scopes THEN Around(o) ELSE {o}

\* Another record, that is done with, names the same object.
Shared(r) ==
    /\ stamps[r].kind \notin Assemblies
    /\ \E s \in Records \ {r} : /\ stamps[s].status \notin {"absent", "pending"}
                               /\ Results(s) \cap TakenWith(stamps[r].subject) # {}

\* Holds for every interleaving, with executions dying at any point.  What a record shown
\* as stamped points at stands: two executions of the same approval and two rollbacks
\* cannot leave an assembly behind as stamped whose object is gone or is another one, not
\* even if a breakout of the plan is applied to it.  Excluded, when handlers overlap, is a
\* scope, rack or device that several records name: a rollback that has listed one of them
\* deletes it under another that was stamped since (plan_execution.py:288, :298).
StampedHasResult ==
    \A r \in With("stamped") :
        \/ stamps[r].kind = "none"
        \/ stamps[r].result \in objects
        \/ Overlap /\ Shared(r)

\* Holds for every interleaving without faults.  A plan does not stay in "stamping": no
\* execution takes it from there, only a rollback or an operator who edits its status.
StampingEnds == plan = "stamping" ~> plan # "stamping"

\* One process, faults or not.  What a plan created for an assembly is on record, so
\* that a rollback will find it: no execution fails, or dies, half done.
MadeIsOnRecord ==
    \A r \in Records :
        stamps[r].kind \in Assemblies /\ Own(r) \in objects => stamps[r].status = "stamped"

\* One process: an execution that succeeds leaves no record pending.
ExecutesAllPending ==
    [][\A e \in Executors : CommitExecution(e) =>
          \A r \in Records : stamps'[r].status # "pending"]_vars

\* One process: a rollback leaves no record stamped.
RollbackReachesAll ==
    [][\A b \in Rollbackers : RollBack(b) =>
          \A r \in Records : stamps'[r].status # "stamped"]_vars
=============================================================================

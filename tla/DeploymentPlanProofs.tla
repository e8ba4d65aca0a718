------------------------ MODULE DeploymentPlanProofs ------------------------
(***************************************************************************)
(* What holds of DeploymentPlan for every value of its constants: any       *)
(* number of executions, rollbacks and records, with handlers dying at any  *)
(* point; and what holds besides when one process runs the handlers.        *)
(***************************************************************************)
EXTENDS DeploymentPlan, TLAPS

-----------------------------------------------------------------------------
(* What the label of a process tells about its record. *)

LEMMA ExecutionShape ==
    ASSUME NEW x \in {Idle} \cup Execution
    PROVE  /\ x.pc = "apply" => x \in [pc: {"apply"}, todo: SUBSET Records, done: SUBSET Records]
           /\ x.pc = "fail" => x \in [pc: {"fail"}, culprit: Records]
           /\ x.pc # "apply" => x.pc \in {"idle", "mark", "list", "draft", "fail"}
BY DEF Idle, Execution

LEMMA RollbackShape ==
    ASSUME NEW x \in {Idle} \cup Rollback
    PROVE  x.pc = "apply" =>
               x \in [pc: {"apply"}, listed: SUBSET (Records \X (Object \cup {NoObject}))]
BY DEF Idle, Rollback

\* Which kinds create what.
LEMMA MakesShape ==
    /\ DOMAIN Makes = {"spatial", "rack_population", "assembly_passive", "cable_assembly"}
    /\ \A k \in DOMAIN Makes : Makes[k] \in Types
    /\ \A k \in Assemblies : k \in DOMAIN Makes /\ Makes[k] \in {"device", "cable"}
BY DEF Makes, Types, Assemblies

-----------------------------------------------------------------------------
(* Type correctness. *)

LEMMA NewIsCreated ==
    ASSUME TypeOK, NEW r \in Records
    PROVE  New(r) \in Created /\ New(r) \in Object /\ New(r).by = r
BY DEF New, Created, Object, TypeOK

\* A stamp's objects get an entry of their own; the other entries stay.
LEMMA CreateType ==
    ASSUME TypeOK, NEW makers \in SUBSET Records, Create(makers),
           \A r \in makers : stamps'[r].kind \in DOMAIN Makes,
           \A r \in Records : stamps'[r].subject \in DOMAIN inventory \cup {NoObject}
    PROVE  /\ objects' \subseteq DOMAIN inventory' /\ DOMAIN inventory' \subseteq Object
           /\ \A o \in DOMAIN inventory' : inventory'[o] \in [type: Types, inside: SUBSET Object]
           /\ made' \in [Records -> Nat]
           /\ DOMAIN inventory' = DOMAIN inventory \cup {New(r) : r \in makers}
           /\ \A o \in DOMAIN inventory : inventory'[o] = inventory[o]
<1>1. DOMAIN inventory' = DOMAIN inventory \cup {New(r) : r \in makers}
  BY DEF Create
<1>2. \A o \in DOMAIN inventory : inventory'[o] = inventory[o]
  BY DEF Create
<1>3. DOMAIN inventory' \subseteq Object /\ objects' \subseteq DOMAIN inventory'
  BY <1>1, NewIsCreated DEF Create, TypeOK
<1>4. made' \in [Records -> Nat]
  BY DEF Create, TypeOK
<1>5. ASSUME NEW o \in DOMAIN inventory' PROVE inventory'[o] \in [type: Types, inside: SUBSET Object]
  <2>1. CASE o \in DOMAIN inventory
    BY <1>2, <2>1 DEF TypeOK
  <2>2. CASE o \notin DOMAIN inventory
    <3>1. PICK r \in makers : o = New(r)
      BY <1>1, <1>5, <2>2
    <3>2. o.by = r
      BY <3>1, NewIsCreated
    <3>3. inventory'[o] = [type |-> Makes[stamps'[r].kind], inside |-> Around(stamps'[r].subject)]
      BY <1>1, <2>2, <3>2 DEF Create
    <3>4. Makes[stamps'[r].kind] \in Types
      BY MakesShape
    <3>5. Around(stamps'[r].subject) \subseteq Object
      BY DEF Around, TypeOK
    <3>6. QED
      BY <3>3, <3>4, <3>5
  <2>3. QED
    BY <2>1, <2>2
<1>6. QED
  BY <1>1, <1>2, <1>3, <1>4, <1>5

LEMMA SubjectsStand ==
    ASSUME TypeOK, NEW kind, NEW o \in Subjects(kind)
    PROVE  o \in DOMAIN inventory \cup {NoObject} /\ o \in Object \cup {NoObject}
BY DEF Subjects, OfType, TypeOK

LEMMA ResultType ==
    ASSUME TypeOK, NEW r \in Records, NEW kind, NEW o \in Object \cup {NoObject}
    PROVE  ResultOf(r, kind, o) \in Object \cup {NoObject}
BY NewIsCreated DEF ResultOf

LEMMA BuildType ==
    ASSUME TypeOK, Build
    PROVE  TypeOK'
<1>1. ASSUME NEW status \in PlanStates \ {"stamping"}, SetStatus(status) PROVE TypeOK'
  BY <1>1 DEF SetStatus, TypeOK, PlanStates, netbox
<1>2. ASSUME NEW r \in Records, NEW kind \in Kinds, AddToPlan(r, kind) PROVE TypeOK'
  <2>1. PICK o \in Subjects(kind) :
           Insert(r, [status |-> "pending", kind |-> kind, subject |-> o, result |-> NoObject])
    BY <1>2 DEF AddToPlan
  <2>2. [status |-> "pending", kind |-> kind, subject |-> o, result |-> NoObject] \in StampRecord
    BY KindsAssumption, SubjectsStand DEF StampRecord
  <2>3. stamps' \in [Records -> StampRecord]
    BY <2>1, <2>2 DEF Insert, TypeOK
  <2>4. \A s \in Records : stamps'[s].subject \in DOMAIN inventory \cup {NoObject}
    BY <2>1, SubjectsStand DEF Insert, TypeOK
  <2>5. QED
    BY <1>2, <2>3, <2>4 DEF AddToPlan, TypeOK, netbox
<1>3. ASSUME NEW r \in Records, NEW kind \in Kinds, StampUnderPlan(r, kind) PROVE TypeOK'
  <2>1. PICK o \in Subjects(kind) :
           Insert(r, [status |-> "stamped", kind |-> kind, subject |-> o,
                      result |-> ResultOf(r, kind, o)])
    BY <1>3 DEF StampUnderPlan
  <2>2. [status |-> "stamped", kind |-> kind, subject |-> o, result |-> ResultOf(r, kind, o)]
            \in StampRecord
    BY KindsAssumption, SubjectsStand, ResultType DEF StampRecord
  <2>3. stamps' \in [Records -> StampRecord] /\ stamps'[r].kind = kind
    BY <2>1, <2>2 DEF Insert, TypeOK
  <2>4. \A s \in Records : stamps'[s].subject \in DOMAIN inventory \cup {NoObject}
    BY <2>1, SubjectsStand DEF Insert, TypeOK
  <2>5. PICK makers \in SUBSET Records :
           makers = (IF kind \in DOMAIN Makes THEN {r} ELSE {}) /\ Create(makers)
    BY <1>3 DEF StampUnderPlan
  <2>6. \A s \in makers : stamps'[s].kind \in DOMAIN Makes
    BY <2>3, <2>5
  <2>7. QED
    BY <1>3, <2>3, <2>4, <2>5, <2>6, CreateType DEF StampUnderPlan, TypeOK
<1>4. QED
  BY <1>1, <1>2, <1>3 DEF Build

LEMMA ExecutionType ==
    ASSUME TypeOK, NEW e \in Executors,
           LoadToExecute(e) \/ ExecutionStep(e) \/ RaiseAtCommit(e) \/ ExecutionDies(e)
    PROVE  TypeOK'
<1>1. CASE LoadToExecute(e)
  <2>1. [pc |-> "mark"] \in Execution
    BY DEF Execution
  <2>2. QED
    BY <1>1, <2>1 DEF LoadToExecute, Goto, TypeOK, tables, netbox
<1>2. CASE MarkStamping(e)
  <2>1. [pc |-> "list"] \in Execution
    BY DEF Execution
  <2>2. QED
    BY <1>2, <2>1 DEF MarkStamping, Goto, TypeOK, PlanStates, netbox
<1>3. CASE ListPending(e)
  <2>1. [pc |-> "apply", todo |-> With("pending"), done |-> {}] \in Execution
    BY DEF Execution, With
  <2>2. QED
    BY <1>3, <2>1 DEF ListPending, Goto, TypeOK, tables, netbox
<1>4. CASE StampNext(e)
  <2>1. exec[e] \in [pc: {"apply"}, todo: SUBSET Records, done: SUBSET Records]
    BY <1>4, ExecutionShape DEF StampNext, TypeOK
  <2>2. PICK r \in exec[e].todo :
           exec' = [exec EXCEPT ![e].todo = @ \ {r}, ![e].done = @ \cup {r}]
    BY <1>4 DEF StampNext
  <2>3. exec'[e] \in Execution /\ exec' = [exec EXCEPT ![e] = exec'[e]]
    BY <2>1, <2>2 DEF Execution, TypeOK
  <2>4. QED
    BY <1>4, <2>3 DEF StampNext, TypeOK, tables, netbox
<1>5. CASE CommitExecution(e)
  <2>1. stamps' \in [Records -> StampRecord]
    <3>1. ASSUME NEW r \in Records
          PROVE  ResultOf(r, stamps[r].kind, stamps[r].subject) \in Object \cup {NoObject}
      BY ResultType DEF TypeOK, StampRecord
    <3>2. ASSUME NEW r \in Records, NEW result \in Object \cup {NoObject}
          PROVE  [stamps[r] EXCEPT !.status = "stamped", !.result = result] \in StampRecord
      BY DEF TypeOK, StampRecord
    <3>3. \A r \in Records : stamps[r] \in StampRecord
      BY DEF TypeOK
    <3>4. stamps' = Stamped(e)
      BY <1>5 DEF CommitExecution
    <3>5. \A r \in Records : Stamped(e)[r] \in StampRecord
      BY <3>1, <3>2, <3>3 DEF Stamped
    <3>6. QED
      BY <3>4, <3>5 DEF Stamped
  <2>2. \A r \in Records : stamps'[r].kind = stamps[r].kind /\ stamps'[r].subject = stamps[r].subject
    BY <1>5 DEF CommitExecution, Stamped, TypeOK, StampRecord
  <2>3. exec[e] \in [pc: {"apply"}, todo: SUBSET Records, done: SUBSET Records]
    BY <1>5, ExecutionShape DEF CommitExecution, TypeOK
  <2>4. PICK makers \in SUBSET Records : makers = Makers(exec[e].done) /\ Create(makers)
    BY <1>5, <2>3 DEF CommitExecution, Makers
  <2>5. \A r \in makers : stamps'[r].kind \in DOMAIN Makes
    BY <2>2, <2>4 DEF Makers
  <2>6. \A r \in Records : stamps'[r].subject \in DOMAIN inventory \cup {NoObject}
    BY <2>2 DEF TypeOK
  <2>7. QED
    BY <1>5, <2>1, <2>2, <2>4, <2>5, <2>6, CreateType DEF CommitExecution, Goto, TypeOK, PlanStates
<1>6. CASE RaiseInStamp(e)
  <2>1. exec[e] \in [pc: {"apply"}, todo: SUBSET Records, done: SUBSET Records]
    BY <1>6, ExecutionShape DEF RaiseInStamp, TypeOK
  <2>2. \A r \in exec[e].todo : [pc |-> "fail", culprit |-> r] \in Execution
    BY <2>1 DEF Execution
  <2>3. QED
    BY <1>6, <2>2 DEF RaiseInStamp, Goto, TypeOK, tables, netbox
<1>7. CASE MarkFailed(e)
  <2>1. exec[e] \in [pc: {"fail"}, culprit: Records]
    BY <1>7, ExecutionShape DEF MarkFailed, TypeOK
  <2>2. [pc |-> "draft"] \in Execution
    BY DEF Execution
  <2>3. stamps' \in [Records -> StampRecord]
    BY <1>7, <2>1 DEF MarkFailed, TypeOK, StampRecord
  <2>4. \A r \in Records : stamps'[r].subject = stamps[r].subject
    BY <1>7, <2>1 DEF MarkFailed, TypeOK, StampRecord
  <2>5. QED
    BY <1>7, <2>2, <2>3, <2>4 DEF MarkFailed, Goto, TypeOK, netbox
<1>8. CASE BackToDraft(e)
  BY <1>8 DEF BackToDraft, Goto, TypeOK, PlanStates, netbox
<1>9. CASE RaiseAtCommit(e) \/ PlaceIsGone(e)
  <2>1. exec[e] \in [pc: {"apply"}, todo: SUBSET Records, done: SUBSET Records]
    BY <1>9, ExecutionShape DEF RaiseAtCommit, PlaceIsGone, RaiseAfterLoop, TypeOK
  <2>2. /\ [pc |-> "draft"] \in Execution
        /\ \A r \in exec[e].done : [pc |-> "fail", culprit |-> r] \in Execution
    BY <2>1 DEF Execution
  <2>3. faults' \in 0 .. MaxFaults
    BY <1>9, BoundsAssumption DEF RaiseAtCommit, PlaceIsGone, Fault, TypeOK
  <2>4. exec' \in [Executors -> {Idle} \cup Execution] /\ UNCHANGED <<tables, roll>>
    BY <1>9, <2>2 DEF RaiseAtCommit, PlaceIsGone, RaiseAfterLoop, Goto, TypeOK
  <2>5. QED
    BY <2>3, <2>4 DEF TypeOK, tables, netbox
<1>10. CASE ExecutionDies(e)
  BY <1>10, BoundsAssumption DEF ExecutionDies, Fault, Goto, TypeOK, tables, netbox
<1>11. QED
  BY <1>1, <1>2, <1>3, <1>4, <1>5, <1>6, <1>7, <1>8, <1>9, <1>10 DEF ExecutionStep

LEMMA RollbackType ==
    ASSUME TypeOK, NEW b \in Rollbackers,
           LoadToRollBack(b) \/ RollbackStep(b) \/ RollbackDies(b)
    PROVE  TypeOK'
<1>1. CASE LoadToRollBack(b)
  <2>1. [pc |-> "list"] \in Rollback
    BY DEF Rollback
  <2>2. QED
    BY <1>1, <2>1 DEF LoadToRollBack, TypeOK, tables, netbox
<1>2. CASE ListStamped(b)
  <2>1. {<<r, stamps[r].result>> : r \in With("stamped")}
            \in SUBSET (Records \X (Object \cup {NoObject}))
    BY DEF With, TypeOK, StampRecord
  <2>2. [pc |-> "apply", listed |-> {<<r, stamps[r].result>> : r \in With("stamped")}] \in Rollback
    BY <2>1 DEF Rollback
  <2>3. QED
    BY <1>2, <2>2 DEF ListStamped, TypeOK, tables, netbox
<1>3. CASE RollBack(b)
  <2>1. stamps' \in [Records -> StampRecord]
    BY <1>3 DEF RollBack, TypeOK, StampRecord
  <2>2. \A r \in Records : stamps'[r].subject = stamps[r].subject
    BY <1>3 DEF RollBack, TypeOK, StampRecord
  <2>3. QED
    BY <1>3, <2>1, <2>2 DEF RollBack, TypeOK, PlanStates
<1>4. CASE RollbackDies(b)
  BY <1>4, BoundsAssumption DEF RollbackDies, Fault, TypeOK, tables, netbox
<1>5. QED
  BY <1>1, <1>2, <1>3, <1>4 DEF RollbackStep

LEMMA InitType == Init => TypeOK
<1> SUFFICES ASSUME Init PROVE TypeOK
  OBVIOUS
<1>1. NoRecord \in StampRecord /\ NoRecord.subject = NoObject
  BY DEF NoRecord, StampRecord, AllKinds
<1>2. \A o \in DOMAIN inventory : inventory[o] \in [type: Types, inside: SUBSET Object]
  BY InventoryAssumption DEF Init, Entry, Object
<1>3. QED
  BY <1>1, <1>2, BoundsAssumption DEF Init, TypeOK, PlanStates, Object

LEMMA StepType == TypeOK /\ [Next]_vars => TypeOK'
<1> SUFFICES ASSUME TypeOK, [Next]_vars PROVE TypeOK'
  OBVIOUS
<1>1. CASE Next
  BY <1>1, BuildType, ExecutionType, RollbackType DEF Next
<1>2. CASE UNCHANGED vars
  BY <1>2 DEF vars, tables, netbox, TypeOK
<1>3. QED
  BY <1>1, <1>2

\* Every row and every process in flight has its type, however handlers interleave.
THEOREM TypeCorrect == Spec => []TypeOK
BY InitType, StepType, PTL DEF Spec

-----------------------------------------------------------------------------
(* One process. *)

\* At most one handler is in flight, and the list it works on is the current one.
OneAtATime ==
    /\ \A e, f \in Executors : exec[e].pc # "idle" /\ exec[f].pc # "idle" => e = f
    /\ \A b, c \in Rollbackers : roll[b].pc # "idle" /\ roll[c].pc # "idle" => b = c
    /\ \A e \in Executors, b \in Rollbackers : exec[e].pc = "idle" \/ roll[b].pc = "idle"

ListsAreCurrent ==
    /\ \A e \in Executors :
          /\ exec[e].pc = "apply" => exec[e].todo \cup exec[e].done = With("pending")
          /\ exec[e].pc = "fail" => stamps[exec[e].culprit].status = "pending"
    /\ \A b \in Rollbackers :
          roll[b].pc = "apply" => roll[b].listed = {<<r, stamps[r].result>> : r \in With("stamped")}

SerialInv == OneAtATime /\ ListsAreCurrent

LEMMA BuildSerial ==
    ASSUME ~Overlap, TypeOK, SerialInv, Build
    PROVE  SerialInv'
<1>1. AllIdle /\ UNCHANGED <<exec, roll>>
  BY DEF Build, SetStatus, AddToPlan, StampUnderPlan, Insert, CanStart
<1>2. QED
  BY <1>1 DEF AllIdle, SerialInv, OneAtATime, ListsAreCurrent

\* A handler that starts is the only one; it has no list yet.
LEMMA StartSerial ==
    ASSUME ~Overlap, TypeOK, SerialInv,
           \/ \E e \in Executors : LoadToExecute(e)
           \/ \E b \in Rollbackers : LoadToRollBack(b)
    PROVE  SerialInv'
<1>1. ASSUME NEW e \in Executors, LoadToExecute(e) PROVE SerialInv'
  <2>1. AllIdle /\ UNCHANGED <<stamps, roll>> /\ exec' = [exec EXCEPT ![e] = [pc |-> "mark"]]
    BY <1>1 DEF LoadToExecute, CanStart, Goto, tables
  <2>2. QED
    BY <2>1 DEF AllIdle, TypeOK, SerialInv, OneAtATime, ListsAreCurrent
<1>2. ASSUME NEW b \in Rollbackers, LoadToRollBack(b) PROVE SerialInv'
  <2>1. AllIdle /\ UNCHANGED <<stamps, exec>> /\ roll' = [roll EXCEPT ![b] = [pc |-> "list"]]
    BY <1>2 DEF LoadToRollBack, CanStart, tables
  <2>2. QED
    BY <2>1 DEF AllIdle, TypeOK, SerialInv, OneAtATime, ListsAreCurrent
<1>3. QED
  BY <1>1, <1>2

\* While one execution is in flight, the others and the rollbacks are idle.
LEMMA AloneExecuting ==
    ASSUME SerialInv, NEW e \in Executors, exec[e].pc # "idle"
    PROVE  /\ \A f \in Executors \ {e} : exec[f].pc = "idle"
           /\ \A b \in Rollbackers : roll[b].pc = "idle"
BY DEF SerialInv, OneAtATime

LEMMA AloneRollingBack ==
    ASSUME SerialInv, NEW b \in Rollbackers, roll[b].pc # "idle"
    PROVE  /\ \A c \in Rollbackers \ {b} : roll[c].pc = "idle"
           /\ \A e \in Executors : exec[e].pc = "idle"
BY DEF SerialInv, OneAtATime

LEMMA ExecutionSerial ==
    ASSUME TypeOK, SerialInv, NEW e \in Executors,
           ExecutionStep(e) \/ RaiseAtCommit(e) \/ ExecutionDies(e)
    PROVE  SerialInv'
<1>1. exec[e].pc # "idle" /\ UNCHANGED roll
  BY DEF ExecutionStep, MarkStamping, ListPending, StampNext, CommitExecution, RaiseInStamp,
     MarkFailed, BackToDraft, RaiseAtCommit, PlaceIsGone, RaiseAfterLoop, ExecutionDies
<1>2. /\ \A f \in Executors \ {e} : exec[f].pc = "idle"
      /\ \A b \in Rollbackers : roll[b].pc = "idle"
  BY <1>1, AloneExecuting
<1>3. SUFFICES /\ \A f \in Executors \ {e} : exec'[f] = exec[f]
               /\ exec'[e].pc = "apply" => exec'[e].todo \cup exec'[e].done = With("pending")'
               /\ exec'[e].pc = "fail" => stamps'[exec'[e].culprit].status = "pending"
  BY <1>1, <1>2 DEF SerialInv, OneAtATime, ListsAreCurrent
<1>4. CASE MarkStamping(e) \/ BackToDraft(e) \/ ExecutionDies(e) \/ CommitExecution(e)
  BY <1>4 DEF MarkStamping, BackToDraft, ExecutionDies, CommitExecution, Goto, TypeOK, Idle
<1>5. CASE ListPending(e)
  BY <1>5 DEF ListPending, Goto, TypeOK, With, tables
<1>6. CASE StampNext(e)
  <2>1. exec[e] \in [pc: {"apply"}, todo: SUBSET Records, done: SUBSET Records]
    BY <1>6, ExecutionShape DEF StampNext, TypeOK
  <2>2. PICK r \in exec[e].todo :
           exec' = [exec EXCEPT ![e].todo = @ \ {r}, ![e].done = @ \cup {r}]
    BY <1>6 DEF StampNext
  <2>3. /\ exec'[e].pc = "apply"
        /\ exec'[e].todo = exec[e].todo \ {r} /\ exec'[e].done = exec[e].done \cup {r}
        /\ \A f \in Executors \ {e} : exec'[f] = exec[f]
    BY <2>1, <2>2 DEF TypeOK
  <2>4. exec[e].todo \cup exec[e].done = With("pending")
    BY <2>1 DEF SerialInv, ListsAreCurrent
  <2>5. UNCHANGED stamps
    BY <1>6 DEF StampNext, tables
  <2>6. QED
    BY <2>2, <2>3, <2>4, <2>5 DEF With
<1>7. CASE RaiseInStamp(e)
  <2>1. PICK r \in exec[e].todo : exec' = [exec EXCEPT ![e] = [pc |-> "fail", culprit |-> r]]
    BY <1>7 DEF RaiseInStamp, Goto
  <2>2. r \in With("pending") /\ UNCHANGED stamps
    BY <1>7, <2>1 DEF RaiseInStamp, SerialInv, ListsAreCurrent, tables
  <2>3. QED
    BY <2>1, <2>2 DEF With, TypeOK
<1>8. CASE MarkFailed(e)
  BY <1>8 DEF MarkFailed, Goto, TypeOK
<1>9. CASE RaiseAtCommit(e) \/ PlaceIsGone(e)
  <2>1. exec[e].done \subseteq With("pending") /\ UNCHANGED stamps
    BY <1>9 DEF RaiseAtCommit, PlaceIsGone, RaiseAfterLoop, SerialInv, ListsAreCurrent, tables
  <2>2. \/ exec' = [exec EXCEPT ![e] = [pc |-> "draft"]]
        \/ \E r \in exec[e].done : exec' = [exec EXCEPT ![e] = [pc |-> "fail", culprit |-> r]]
    BY <1>9 DEF RaiseAtCommit, PlaceIsGone, RaiseAfterLoop, Goto
  <2>3. QED
    BY <2>1, <2>2 DEF With, TypeOK
<1>10. QED
  BY <1>4, <1>5, <1>6, <1>7, <1>8, <1>9 DEF ExecutionStep

LEMMA RollbackSerial ==
    ASSUME TypeOK, SerialInv, NEW b \in Rollbackers, RollbackStep(b) \/ RollbackDies(b)
    PROVE  SerialInv'
<1>1. roll[b].pc # "idle" /\ UNCHANGED exec
  BY DEF RollbackStep, ListStamped, RollBack, RollbackDies
<1>2. /\ \A c \in Rollbackers \ {b} : roll[c].pc = "idle"
      /\ \A e \in Executors : exec[e].pc = "idle"
  BY <1>1, AloneRollingBack
<1>3. SUFFICES /\ \A c \in Rollbackers \ {b} : roll'[c] = roll[c]
               /\ roll'[b].pc = "apply" =>
                     roll'[b].listed = {<<r, stamps'[r].result>> : r \in With("stamped")'}
  BY <1>1, <1>2 DEF SerialInv, OneAtATime, ListsAreCurrent
<1>4. CASE ListStamped(b)
  BY <1>4 DEF ListStamped, TypeOK, With, tables
<1>5. CASE RollBack(b) \/ RollbackDies(b)
  BY <1>5 DEF RollBack, RollbackDies, TypeOK, Idle
<1>6. QED
  BY <1>4, <1>5 DEF RollbackStep

LEMMA InitSerial == Init => SerialInv
BY DEF Init, SerialInv, OneAtATime, ListsAreCurrent, Idle

LEMMA StepSerial == ASSUME ~Overlap PROVE TypeOK /\ SerialInv /\ [Next]_vars => SerialInv'
<1> SUFFICES ASSUME TypeOK, SerialInv, [Next]_vars PROVE SerialInv'
  OBVIOUS
<1>1. CASE Next
  BY <1>1, BuildSerial, StartSerial, ExecutionSerial, RollbackSerial DEF Next
<1>2. CASE UNCHANGED vars
  BY <1>2 DEF vars, tables, SerialInv, OneAtATime, ListsAreCurrent, With
<1>3. QED
  BY <1>1, <1>2

-----------------------------------------------------------------------------
(* Records and objects. *)

\* The objects a record has created are numbered, and their types are that of its kind.
Numbered ==
    \A r \in Records, n \in Nat :
        [by |-> r, nth |-> n] \in DOMAIN inventory <=> n \in 1 .. made[r]

MadeTypes ==
    \A r \in Records : \A n \in 1 .. made[r] :
        inventory[[by |-> r, nth |-> n]].type = Makes[stamps[r].kind]

\* The result of a stamped record is what it created last, or what it was applied to.
RowsKnow ==
    \A r \in Records :
        /\ stamps[r].status = "absent" => made[r] = 0
        /\ stamps[r].subject = NoObject => stamps[r].kind \in {"none", "cable_assembly"}
        /\ stamps[r].status = "stamped" =>
              IF stamps[r].kind \in Assemblies THEN stamps[r].result = Own(r) /\ made[r] # 0
              ELSE stamps[r].result = stamps[r].subject

Books == Numbered /\ MadeTypes /\ RowsKnow

\* A record is never withdrawn, its kind and what it refers to stay, and so does what is
\* known of an object.
Grows ==
    /\ \A r \in Records : stamps[r].status # "absent" =>
          /\ stamps'[r].status # "absent"
          /\ stamps[r].status # "pending" => stamps'[r].status # "pending"
          /\ stamps'[r].kind = stamps[r].kind /\ stamps'[r].subject = stamps[r].subject
    /\ \A r \in Records : made'[r] \in Nat /\ made'[r] >= made[r]
    /\ DOMAIN inventory \subseteq DOMAIN inventory'
    /\ \A o \in DOMAIN inventory : inventory'[o] = inventory[o]

LEMMA CreateBooks ==
    ASSUME TypeOK, Books, NEW makers \in SUBSET Records, Create(makers),
           \A r \in makers : stamps'[r].kind \in DOMAIN Makes,
           \A r \in Records : stamps'[r].subject \in DOMAIN inventory \cup {NoObject},
           \A r \in Records : made[r] # 0 => stamps'[r].kind = stamps[r].kind
    PROVE  /\ Numbered' /\ MadeTypes'
           /\ \A r \in makers : /\ New(r) \notin DOMAIN inventory /\ New(r) \in objects'
                                /\ made'[r] # 0 /\ Own(r)' = New(r)
           /\ \A r \in Records : made'[r] \in Nat /\ made'[r] >= made[r]
           /\ \A r \in Records \ makers : made'[r] = made[r] /\ Own(r)' = Own(r)
           /\ objects \subseteq objects'
           /\ DOMAIN inventory \subseteq DOMAIN inventory'
           /\ \A o \in DOMAIN inventory : inventory'[o] = inventory[o]
<1>1. /\ DOMAIN inventory' = DOMAIN inventory \cup {New(r) : r \in makers}
      /\ \A o \in DOMAIN inventory : inventory'[o] = inventory[o]
  BY CreateType
<1>2. /\ \A r \in makers : made[r] \in Nat /\ made'[r] = made[r] + 1
      /\ \A r \in Records \ makers : made[r] \in Nat /\ made'[r] = made[r]
  BY DEF Create, TypeOK
<1>3. \A r \in makers : New(r) \notin DOMAIN inventory
  BY <1>2 DEF New, Books, Numbered
<1>4. ASSUME NEW r \in Records, NEW n \in Nat
      PROVE  [by |-> r, nth |-> n] \in DOMAIN inventory' <=> n \in 1 .. made'[r]
  <2>1. [by |-> r, nth |-> n] \in DOMAIN inventory <=> n \in 1 .. made[r]
    BY DEF Books, Numbered
  <2>2. [by |-> r, nth |-> n] \in {New(s) : s \in makers} <=> r \in makers /\ n = made[r] + 1
    BY DEF New
  <2>3. CASE r \in makers
    BY <1>1, <1>2, <2>1, <2>2, <2>3
  <2>4. CASE r \notin makers
    BY <1>1, <1>2, <2>1, <2>2, <2>4
  <2>5. QED
    BY <2>3, <2>4
<1>5. ASSUME NEW r \in Records, NEW n \in 1 .. made'[r]
      PROVE  inventory'[[by |-> r, nth |-> n]].type = Makes[stamps'[r].kind]
  <2>1. CASE n \in 1 .. made[r]
    <3>1. made[r] # 0 /\ n \in Nat
      BY <1>2, <2>1
    <3>2. [by |-> r, nth |-> n] \in DOMAIN inventory
      BY <2>1, <3>1 DEF Books, Numbered
    <3>3. QED
      BY <1>1, <2>1, <3>1, <3>2 DEF Books, MadeTypes
  <2>2. CASE n \notin 1 .. made[r]
    <3>1. r \in makers /\ n = made[r] + 1
      BY <1>2, <1>5, <2>2
    <3>2. PICK o : o = New(r)
      OBVIOUS
    <3>3. o \notin DOMAIN inventory /\ o \in DOMAIN inventory' /\ o.by = r
      BY <1>1, <1>3, <3>1, <3>2, NewIsCreated
    <3>4. inventory'[o].type = Makes[stamps'[o.by].kind]
      BY <1>1, <3>3 DEF Create
    <3>5. o = [by |-> r, nth |-> n]
      BY <3>1, <3>2 DEF New
    <3>6. QED
      BY <3>3, <3>4, <3>5
  <2>3. QED
    BY <2>1, <2>2
<1>6. /\ \A r \in makers : New(r) \in objects' /\ made'[r] # 0 /\ Own(r)' = New(r)
      /\ \A r \in Records \ makers : Own(r)' = Own(r)
      /\ objects \subseteq objects'
  <2>1. \A r \in makers : made'[r] # 0 /\ Own(r)' = New(r)
    BY <1>2 DEF Own, New
  <2>2. \A r \in Records \ makers : Own(r)' = Own(r)
    BY <1>2 DEF Own
  <2>3. objects' = objects \cup {New(r) : r \in makers}
    BY DEF Create
  <2>4. QED
    BY <2>1, <2>2, <2>3
<1>7. Numbered' /\ MadeTypes'
  BY <1>4, <1>5 DEF Numbered, MadeTypes
<1>8. \A r \in Records : made'[r] \in Nat /\ made'[r] >= made[r]
  BY <1>2
<1>9. QED
  BY <1>1, <1>2, <1>3, <1>6, <1>7, <1>8

\* The steps that touch the tables.
LEMMA TouchingSteps ==
    ASSUME [Next]_vars
    PROVE  \/ UNCHANGED <<stamps, netbox>>
           \/ \E r \in Records, kind \in Kinds : AddToPlan(r, kind) \/ StampUnderPlan(r, kind)
           \/ \E e \in Executors : CommitExecution(e) \/ MarkFailed(e)
           \/ \E b \in Rollbackers : RollBack(b)
BY DEF Next, vars, tables, Build, SetStatus, ExecutionStep, RollbackStep, LoadToExecute, MarkStamping,
   ListPending, StampNext, RaiseInStamp, BackToDraft, RaiseAtCommit, PlaceIsGone, RaiseAfterLoop,
   ExecutionDies, LoadToRollBack, ListStamped, RollbackDies

LEMMA AddedBooks ==
    ASSUME TypeOK, Books, NEW r \in Records, NEW kind \in Kinds, AddToPlan(r, kind)
    PROVE  Books' /\ Grows /\ UNCHANGED objects
<1>1. PICK o \in Subjects(kind) :
         Insert(r, [status |-> "pending", kind |-> kind, subject |-> o, result |-> NoObject])
  BY DEF AddToPlan
<1>2. /\ stamps[r].status = "absent"
      /\ stamps' = [stamps EXCEPT ![r] = [status |-> "pending", kind |-> kind, subject |-> o,
                                          result |-> NoObject]]
      /\ UNCHANGED <<objects, inventory, made>>
  BY <1>1 DEF Insert, AddToPlan, netbox
<1>3. o = NoObject => kind \in {"none", "cable_assembly"}
  BY KindsAssumption, InventoryAssumption DEF Subjects, OfType, TypeOK, Object, AllKinds
<1>4. made[r] = 0
  BY <1>2 DEF Books, RowsKnow
<1>5. RowsKnow'
  BY <1>2, <1>3, <1>4 DEF Books, RowsKnow, Own, TypeOK
<1>6. MadeTypes'
  <2>1. ASSUME NEW s \in Records, NEW n \in 1 .. made[s]
        PROVE  inventory[[by |-> s, nth |-> n]].type = Makes[stamps'[s].kind]
    <3>1. s # r
      BY <1>4
    <3>2. stamps'[s] = stamps[s]
      BY <1>2, <3>1 DEF TypeOK
    <3>3. QED
      BY <3>2 DEF Books, MadeTypes
  <2>2. QED
    BY <1>2, <2>1 DEF MadeTypes
<1>7. Numbered' /\ Grows
  BY <1>2 DEF Books, Numbered, Grows, TypeOK
<1>8. QED
  BY <1>2, <1>5, <1>6, <1>7 DEF Books

LEMMA StampedBooks ==
    ASSUME TypeOK, Books, NEW r \in Records, NEW kind \in Kinds, StampUnderPlan(r, kind)
    PROVE  /\ Books' /\ Grows /\ objects \subseteq objects'
           /\ \A s \in Records \ {r} : stamps'[s] = stamps[s]
           /\ IF kind \in Assemblies
              THEN Own(r)' \in objects' /\ Own(r)' \notin DOMAIN inventory
              ELSE stamps'[r].subject \in objects
           /\ stamps'[r].kind = kind /\ stamps[r].status = "absent"
<1>1. PICK o \in Subjects(kind) :
         Insert(r, [status |-> "stamped", kind |-> kind, subject |-> o,
                    result |-> ResultOf(r, kind, o)])
  BY DEF StampUnderPlan
<1>2. /\ stamps[r].status = "absent"
      /\ stamps' = [stamps EXCEPT ![r] = [status |-> "stamped", kind |-> kind, subject |-> o,
                                          result |-> ResultOf(r, kind, o)]]
  BY <1>1 DEF Insert
<1>3. /\ o = NoObject => kind \in {"none", "cable_assembly"}
      /\ o \in objects \cup {NoObject}
  BY KindsAssumption, InventoryAssumption DEF Subjects, OfType, TypeOK, Object, AllKinds
<1>4. made[r] = 0
  BY <1>2 DEF Books, RowsKnow
<1>5. /\ stamps'[r].kind = kind /\ stamps'[r].subject = o /\ stamps'[r].status = "stamped"
      /\ stamps'[r].result = ResultOf(r, kind, o)
      /\ \A s \in Records \ {r} : stamps'[s] = stamps[s]
  BY <1>2 DEF TypeOK
<1>6. PICK makers \in SUBSET Records :
         makers = (IF kind \in DOMAIN Makes THEN {r} ELSE {}) /\ Create(makers)
  BY DEF StampUnderPlan
<1>7. /\ \A s \in makers : stamps'[s].kind \in DOMAIN Makes
      /\ \A s \in Records : stamps'[s].subject \in DOMAIN inventory \cup {NoObject}
      /\ \A s \in Records : made[s] # 0 => stamps'[s].kind = stamps[s].kind
  BY <1>3, <1>4, <1>5, <1>6 DEF TypeOK
<1>8. /\ Numbered' /\ MadeTypes'
      /\ \A s \in makers : /\ New(s) \notin DOMAIN inventory /\ New(s) \in objects'
                           /\ made'[s] # 0 /\ Own(s)' = New(s)
      /\ \A s \in Records : made'[s] \in Nat /\ made'[s] >= made[s]
      /\ \A s \in Records \ makers : made'[s] = made[s] /\ Own(s)' = Own(s)
      /\ objects \subseteq objects'
      /\ DOMAIN inventory \subseteq DOMAIN inventory'
      /\ \A x \in DOMAIN inventory : inventory'[x] = inventory[x]
  BY <1>6, <1>7, CreateBooks
<1>9. kind \in Assemblies => r \in makers
  BY <1>6, MakesShape
<1>10. /\ kind \in DOMAIN Makes \cup {"vacant"}
       /\ kind \notin Assemblies => o \in objects
  BY <1>3 DEF StampUnderPlan, Makes, Assemblies
<1>11. RowsKnow'
  <2>1. ASSUME NEW s \in Records, s # r
        PROVE  /\ stamps'[s].status = "absent" => made'[s] = 0
               /\ stamps'[s].subject = NoObject => stamps'[s].kind \in {"none", "cable_assembly"}
               /\ stamps'[s].status = "stamped" =>
                     IF stamps'[s].kind \in Assemblies
                     THEN stamps'[s].result = Own(s)' /\ made'[s] # 0
                     ELSE stamps'[s].result = stamps'[s].subject
    <3>1. s \notin makers /\ stamps'[s] = stamps[s]
      BY <1>5, <1>6, <2>1
    <3>2. made'[s] = made[s] /\ Own(s)' = Own(s)
      BY <1>8, <3>1
    <3>3. QED
      BY <3>1, <3>2 DEF Books, RowsKnow
  <2>2. /\ stamps'[r].status = "stamped"
        /\ stamps'[r].subject = NoObject => stamps'[r].kind \in {"none", "cable_assembly"}
        /\ IF stamps'[r].kind \in Assemblies
           THEN stamps'[r].result = Own(r)' /\ made'[r] # 0
           ELSE stamps'[r].result = stamps'[r].subject
    BY <1>3, <1>5, <1>8, <1>9 DEF ResultOf
  <2>3. QED
    BY <2>1, <2>2 DEF RowsKnow
<1>12. Grows
  BY <1>2, <1>5, <1>8 DEF Grows
<1>13. QED
  BY <1>2, <1>5, <1>8, <1>9, <1>10, <1>11, <1>12 DEF Books

LEMMA CommitBooks ==
    ASSUME TypeOK, Books, NEW e \in Executors, CommitExecution(e)
    PROVE  /\ Books' /\ Grows /\ objects \subseteq objects'
           /\ \A r \in Records \ exec[e].done : stamps'[r] = stamps[r]
           /\ \A r \in exec[e].done : stamps[r].kind \in Assemblies =>
                 /\ Own(r)' \in objects' /\ Own(r)' \notin DOMAIN inventory
                 /\ stamps'[r].result = Own(r)'
<1>1. exec[e].done \subseteq Records
  BY ExecutionShape DEF CommitExecution, TypeOK
<1>2. /\ \A r \in Records \ exec[e].done : stamps'[r] = stamps[r]
      /\ \A r \in exec[e].done : /\ stamps'[r].status = "stamped"
                                 /\ stamps'[r].kind = stamps[r].kind
                                 /\ stamps'[r].subject = stamps[r].subject
                                 /\ stamps'[r].result = ResultOf(r, stamps[r].kind, stamps[r].subject)
  BY <1>1 DEF CommitExecution, Stamped, TypeOK, StampRecord
<1>3. PICK makers \in SUBSET Records : makers = Makers(exec[e].done) /\ Create(makers)
  BY <1>1 DEF CommitExecution, Makers
<1>4. /\ \A r \in makers : stamps'[r].kind \in DOMAIN Makes
      /\ \A r \in Records : stamps'[r].subject \in DOMAIN inventory \cup {NoObject}
      /\ \A r \in Records : made[r] # 0 => stamps'[r].kind = stamps[r].kind
  BY <1>1, <1>2, <1>3 DEF Makers, TypeOK
<1>5. /\ Numbered' /\ MadeTypes'
      /\ \A r \in makers : /\ New(r) \notin DOMAIN inventory /\ New(r) \in objects'
                           /\ made'[r] # 0 /\ Own(r)' = New(r)
      /\ \A r \in Records : made'[r] \in Nat /\ made'[r] >= made[r]
      /\ \A r \in Records \ makers : made'[r] = made[r] /\ Own(r)' = Own(r)
      /\ objects \subseteq objects'
      /\ DOMAIN inventory \subseteq DOMAIN inventory'
      /\ \A o \in DOMAIN inventory : inventory'[o] = inventory[o]
  BY <1>3, <1>4, CreateBooks
<1>6. \A r \in exec[e].done : stamps[r].kind \in Assemblies => r \in makers
  BY <1>1, <1>3, MakesShape DEF Makers
<1>7. makers \subseteq exec[e].done
  BY <1>3 DEF Makers
<1>8. RowsKnow'
  <2>1. ASSUME NEW r \in Records \ exec[e].done
        PROVE  /\ stamps'[r].status = "absent" => made'[r] = 0
               /\ stamps'[r].subject = NoObject => stamps'[r].kind \in {"none", "cable_assembly"}
               /\ stamps'[r].status = "stamped" =>
                     IF stamps'[r].kind \in Assemblies
                     THEN stamps'[r].result = Own(r)' /\ made'[r] # 0
                     ELSE stamps'[r].result = stamps'[r].subject
    BY <1>2, <1>5, <1>7 DEF Books, RowsKnow
  <2>2. ASSUME NEW r \in exec[e].done
        PROVE  /\ stamps'[r].status = "stamped"
               /\ stamps'[r].subject = NoObject => stamps'[r].kind \in {"none", "cable_assembly"}
               /\ IF stamps'[r].kind \in Assemblies
                  THEN stamps'[r].result = Own(r)' /\ made'[r] # 0
                  ELSE stamps'[r].result = stamps'[r].subject
    BY <1>1, <1>2, <1>5, <1>6 DEF Books, RowsKnow, ResultOf
  <2>3. QED
    BY <1>1, <2>1, <2>2 DEF RowsKnow
<1>9. Grows
  BY <1>1, <1>2, <1>5 DEF Grows
<1>10. \A r \in exec[e].done : stamps[r].kind \in Assemblies => stamps'[r].result = Own(r)'
  BY <1>2, <1>5, <1>6 DEF ResultOf
<1>11. QED
  BY <1>2, <1>5, <1>6, <1>8, <1>9, <1>10 DEF Books

LEMMA FailedBooks ==
    ASSUME TypeOK, Books, NEW e \in Executors, MarkFailed(e)
    PROVE  /\ Books' /\ Grows /\ UNCHANGED objects
           /\ \A r \in Records : stamps'[r].status = "stamped" => stamps'[r] = stamps[r]
<1>1. exec[e].culprit \in Records
  BY ExecutionShape DEF MarkFailed, TypeOK
<1>2. /\ \A r \in Records \ {exec[e].culprit} : stamps'[r] = stamps[r]
      /\ \A r \in Records : /\ stamps'[r].kind = stamps[r].kind
                            /\ stamps'[r].subject = stamps[r].subject
      /\ stamps'[exec[e].culprit].status = "failed"
      /\ UNCHANGED <<objects, inventory, made>>
  BY <1>1 DEF MarkFailed, TypeOK, StampRecord, netbox
<1>3. RowsKnow'
  BY <1>1, <1>2 DEF Books, RowsKnow, Own
<1>4. Numbered' /\ MadeTypes'
  BY <1>2 DEF Books, Numbered, MadeTypes
<1>5. Grows
  BY <1>1, <1>2 DEF Grows, TypeOK
<1>6. QED
  BY <1>1, <1>2, <1>3, <1>4, <1>5 DEF Books

LEMMA RolledBackBooks ==
    ASSUME TypeOK, Books, NEW b \in Rollbackers, RollBack(b)
    PROVE  /\ Books' /\ Grows
           /\ \A r \in Records : stamps'[r].status = "stamped" =>
                 stamps'[r] = stamps[r] /\ r \notin MarkRolledBack(b)
           /\ \A r \in MarkRolledBack(b) \cap Records : stamps'[r].status = "rolled_back"
<1>1. /\ \A r \in Records \ MarkRolledBack(b) : stamps'[r] = stamps[r]
      /\ \A r \in Records : /\ stamps'[r].kind = stamps[r].kind
                            /\ stamps'[r].subject = stamps[r].subject
      /\ \A r \in MarkRolledBack(b) \cap Records : stamps'[r].status = "rolled_back"
      /\ UNCHANGED <<inventory, made>>
  BY DEF RollBack, TypeOK, StampRecord
<1>2. RowsKnow'
  BY <1>1 DEF Books, RowsKnow, Own
<1>3. Numbered' /\ MadeTypes'
  BY <1>1 DEF Books, Numbered, MadeTypes
<1>4. Grows
  BY <1>1 DEF Grows, TypeOK
<1>5. QED
  BY <1>1, <1>2, <1>3, <1>4 DEF Books

LEMMA QuietBooks ==
    ASSUME TypeOK, Books, UNCHANGED <<stamps, netbox>>
    PROVE  Books' /\ Grows /\ UNCHANGED objects
BY DEF Books, Numbered, MadeTypes, RowsKnow, Own, Grows, netbox, TypeOK

LEMMA InitBooks == Init => Books
<1> SUFFICES ASSUME Init PROVE Books
  OBVIOUS
<1>1. \A r \in Records : stamps[r] = NoRecord /\ made[r] = 0
  BY DEF Init
<1>2. \A r \in Records, n \in Nat : [by |-> r, nth |-> n] \notin DOMAIN inventory
  BY InventoryAssumption DEF Init, Created
<1>3. \A r \in Records, n \in Nat : n \notin 1 .. made[r]
  BY <1>1
<1>4. Numbered
  BY <1>2, <1>3 DEF Numbered
<1>5. MadeTypes
  BY <1>1 DEF MadeTypes
<1>6. RowsKnow
  BY <1>1 DEF RowsKnow, NoRecord
<1>7. QED
  BY <1>4, <1>5, <1>6 DEF Books

LEMMA StepBooks == TypeOK /\ Books /\ [Next]_vars => Books' /\ Grows
BY TouchingSteps, AddedBooks, StampedBooks, CommitBooks, FailedBooks, RolledBackBooks, QuietBooks

-----------------------------------------------------------------------------
(* Stamped records. *)

\* What the record refers to stands, unless another record names it too.
Supported(r) ==
    stamps[r].kind \notin Assemblies =>
        \/ stamps[r].subject \in objects \cup {NoObject}
        \/ Overlap /\ Shared(r)

Standing ==
    \A r \in With("stamped") :
        /\ stamps[r].kind \in Assemblies => stamps[r].result \in objects
        /\ Supported(r)

\* The records of an open execution are rows of the plan; those it has stamped are supported.
Carried ==
    \A e \in Executors : exec[e].pc = "apply" =>
        /\ \A r \in exec[e].todo \cup exec[e].done : stamps[r].status # "absent"
        /\ \A r \in exec[e].done : Supported(r)

\* A list of results keeps up with the assemblies: whoever has one of its objects as the
\* result is on it.  An assembly that is stamped again has a new result.
Listed ==
    \A b \in Rollbackers : roll[b].pc = "apply" => \A p \in roll[b].listed :
        /\ stamps[p[1]].status \notin {"absent", "pending"}
        /\ p[2] \in Results(p[1])
        /\ p[2] \in DOMAIN inventory \cup {NoObject}
        /\ \A r \in With("stamped") :
              stamps[r].kind \in Assemblies /\ stamps[r].result = p[2]
                  => <<r, p[2]>> \in roll[b].listed

LEMMA ResultsGrow ==
    ASSUME TypeOK, Grows, NEW r \in Records, stamps[r].status # "absent"
    PROVE  Results(r) \subseteq Results(r)'
<1>1. stamps'[r].kind = stamps[r].kind /\ stamps'[r].subject = stamps[r].subject
  BY DEF Grows
<1>2. \A n \in 1 .. made[r] : n \in 1 .. made'[r]
  BY DEF Grows, TypeOK
<1>3. QED
  BY <1>1, <1>2 DEF Results

LEMMA SupportStays ==
    ASSUME TypeOK, Grows, NEW r \in Records, stamps[r].status # "absent",
           objects \subseteq objects', Supported(r)
    PROVE  Supported(r)'
<1>1. stamps'[r].kind = stamps[r].kind /\ stamps'[r].subject = stamps[r].subject
  BY DEF Grows
<1>2. CASE stamps[r].subject \in objects \cup {NoObject}
  BY <1>1, <1>2 DEF Supported
<1>3. CASE stamps[r].subject \notin objects \cup {NoObject} /\ stamps[r].kind \notin Assemblies
  <2>1. Overlap /\ Shared(r) /\ stamps[r].subject \in DOMAIN inventory
    BY <1>3 DEF Supported, TypeOK
  <2>2. TakenWith(stamps[r].subject)' = TakenWith(stamps[r].subject)
    BY <1>1, <2>1 DEF TakenWith, Around, Grows
  <2>3. PICK s \in Records \ {r} : /\ stamps[s].status \notin {"absent", "pending"}
                                  /\ Results(s) \cap TakenWith(stamps[r].subject) # {}
    BY <2>1 DEF Shared
  <2>4. stamps'[s].status \notin {"absent", "pending"} /\ Results(s) \subseteq Results(s)'
    BY <2>3, ResultsGrow DEF Grows
  <2>5. Shared(r)'
    BY <1>1, <1>3, <2>2, <2>3, <2>4 DEF Shared
  <2>6. QED
    BY <2>1, <2>5 DEF Supported
<1>4. CASE stamps[r].kind \in Assemblies
  BY <1>1, <1>4 DEF Supported
<1>5. QED
  BY <1>2, <1>3, <1>4

\* Every object a rollback deletes is a listed result, or a location in one.
LEMMA DeletedIsListed ==
    ASSUME TypeOK, NEW listed, NEW o \in Deletes(listed)
    PROVE  /\ o \in objects
           /\ \E p \in listed : /\ p[2] \in TakenWith(o)
                                /\ inventory[o].type \notin Scopes => p[2] = o
<1>1. o \in objects /\ o # NoObject
  BY InventoryAssumption DEF Deletes, ItemsGone, RacksGone, ScopesGone, OfType, TypeOK, Object
<1>2. CASE o \in ItemsGone(listed, 0) \/ o \in RacksGone(listed, 0)
  BY <1>1, <1>2 DEF ItemsGone, RacksGone, OfType, TakenWith, Scopes
<1>3. CASE o \in ScopesGone(listed)
  BY <1>1, <1>3 DEF ScopesGone, OfType, TakenWith, Around
<1>4. QED
  BY <1>1, <1>2, <1>3 DEF Deletes

\* How a record comes to be shown as stamped.
LEMMA NewlyStamped ==
    ASSUME TypeOK, Books, [Next]_vars, NEW r \in Records, stamps'[r].status = "stamped"
    PROVE  \/ stamps'[r] = stamps[r]
           \/ /\ objects \subseteq objects'
              /\ stamps'[r].kind \in Assemblies =>
                    /\ stamps'[r].result \in objects'
                    /\ stamps'[r].result \notin DOMAIN inventory \cup {NoObject}
              /\ stamps'[r].kind \notin Assemblies =>
                    \/ stamps'[r].subject \in objects
                    \/ \E e \in Executors : exec[e].pc = "apply" /\ r \in exec[e].done
<1>1. Own(r)' \in Created
  BY StepBooks DEF Own, Created, Grows
<1>2. Own(r)' # NoObject
  BY <1>1, InventoryAssumption
<1>3. CASE UNCHANGED <<stamps, netbox>>
  BY <1>3
<1>4. ASSUME NEW q \in Records, NEW kind \in Kinds, AddToPlan(q, kind) PROVE stamps'[r] = stamps[r]
  BY <1>4 DEF AddToPlan, Insert, TypeOK
<1>5. ASSUME NEW q \in Records, NEW kind \in Kinds, StampUnderPlan(q, kind), q # r
      PROVE  stamps'[r] = stamps[r]
  BY <1>5, StampedBooks
<1>6. ASSUME NEW kind \in Kinds, StampUnderPlan(r, kind)
      PROVE  /\ objects \subseteq objects'
             /\ stamps'[r].kind \in Assemblies =>
                   /\ stamps'[r].result \in objects'
                   /\ stamps'[r].result \notin DOMAIN inventory \cup {NoObject}
             /\ stamps'[r].kind \notin Assemblies => stamps'[r].subject \in objects
  <2>1. /\ Books' /\ objects \subseteq objects' /\ stamps'[r].kind = kind
        /\ kind \in Assemblies => Own(r)' \in objects' /\ Own(r)' \notin DOMAIN inventory
        /\ kind \notin Assemblies => stamps'[r].subject \in objects
    BY <1>6, StampedBooks
  <2>2. stamps'[r].kind \in Assemblies => stamps'[r].result = Own(r)'
    BY <2>1 DEF Books, RowsKnow
  <2>3. QED
    BY <1>2, <2>1, <2>2
<1>7. ASSUME NEW e \in Executors, CommitExecution(e), stamps'[r] # stamps[r]
      PROVE  /\ objects \subseteq objects' /\ exec[e].pc = "apply" /\ r \in exec[e].done
             /\ stamps'[r].kind \in Assemblies =>
                   /\ stamps'[r].result \in objects'
                   /\ stamps'[r].result \notin DOMAIN inventory \cup {NoObject}
  <2>1. /\ objects \subseteq objects' /\ r \in exec[e].done
        /\ stamps[r].kind \in Assemblies => /\ Own(r)' \in objects' /\ Own(r)' \notin DOMAIN inventory
                                            /\ stamps'[r].result = Own(r)'
    BY <1>7, CommitBooks
  <2>2. exec[e].pc = "apply" /\ stamps'[r].kind = stamps[r].kind
    BY <1>7 DEF CommitExecution, Stamped, TypeOK, StampRecord
  <2>3. QED
    BY <1>2, <2>1, <2>2
<1>8. ASSUME NEW e \in Executors, MarkFailed(e) PROVE stamps'[r] = stamps[r]
  BY <1>8, FailedBooks
<1>9. ASSUME NEW b \in Rollbackers, RollBack(b) PROVE stamps'[r] = stamps[r]
  BY <1>9, RolledBackBooks
<1>10. QED
  BY <1>3, <1>4, <1>5, <1>6, <1>7, <1>8, <1>9, TouchingSteps

\* Objects go only in a rollback.
LEMMA ObjectsStay ==
    ASSUME TypeOK, Books, [Next]_vars, \A b \in Rollbackers : ~RollBack(b)
    PROVE  objects \subseteq objects'
BY TouchingSteps, AddedBooks, StampedBooks, CommitBooks, FailedBooks, QuietBooks

\* What an execution carries along comes from the list or from the step it takes.
LEMMA CarriesOn ==
    ASSUME TypeOK, [Next]_vars, NEW e \in Executors, exec'[e].pc = "apply"
    PROVE  \/ exec[e].pc = "apply" /\ exec'[e] = exec[e]
           \/ exec'[e].done = {} /\ exec'[e].todo = With("pending") /\ UNCHANGED <<stamps, netbox>>
           \/ /\ exec[e].pc = "apply" /\ UNCHANGED <<stamps, netbox>>
              /\ \E r \in exec[e].todo : /\ CanStamp(r)
                                         /\ exec'[e].done = exec[e].done \cup {r}
                                         /\ exec'[e].todo = exec[e].todo \ {r}
<1>1. CASE UNCHANGED exec
  BY <1>1
<1>2. ASSUME NEW f \in Executors, f # e,
             LoadToExecute(f) \/ ExecutionStep(f) \/ RaiseAtCommit(f) \/ ExecutionDies(f)
      PROVE  exec'[e] = exec[e]
  <2>1. exec'[e] = exec[e] \/ StampNext(f)
    BY <1>2 DEF LoadToExecute, ExecutionStep, MarkStamping, ListPending, CommitExecution,
       RaiseInStamp, MarkFailed, BackToDraft, RaiseAtCommit, PlaceIsGone, RaiseAfterLoop, ExecutionDies,
       Goto, TypeOK
  <2>2. StampNext(f) => exec'[e] = exec[e]
    BY <1>2 DEF StampNext, TypeOK
  <2>3. QED
    BY <2>1, <2>2
<1>3. CASE ListPending(e)
  BY <1>3 DEF ListPending, Goto, TypeOK, tables
<1>4. CASE StampNext(e)
  <2>1. exec[e] \in [pc: {"apply"}, todo: SUBSET Records, done: SUBSET Records]
    BY <1>4, ExecutionShape DEF StampNext, TypeOK
  <2>2. PICK r \in exec[e].todo :
           CanStamp(r) /\ exec' = [exec EXCEPT ![e].todo = @ \ {r}, ![e].done = @ \cup {r}]
    BY <1>4 DEF StampNext
  <2>3. exec'[e].done = exec[e].done \cup {r} /\ exec'[e].todo = exec[e].todo \ {r}
    BY <2>1, <2>2 DEF TypeOK
  <2>4. QED
    BY <1>4, <2>1, <2>2, <2>3 DEF StampNext, tables
<1>5. CASE \/ LoadToExecute(e) \/ MarkStamping(e) \/ CommitExecution(e) \/ RaiseInStamp(e)
           \/ MarkFailed(e) \/ BackToDraft(e) \/ RaiseAtCommit(e) \/ PlaceIsGone(e) \/ ExecutionDies(e)
  <2>1. exec'[e].pc # "apply"
    BY <1>5 DEF LoadToExecute, MarkStamping, CommitExecution, RaiseInStamp, MarkFailed, BackToDraft,
       RaiseAtCommit, PlaceIsGone, RaiseAfterLoop, ExecutionDies, Goto, Idle, TypeOK
  <2>2. QED
    BY <2>1
<1>6. CASE Build \/ UNCHANGED vars \/ \E b \in Rollbackers :
              LoadToRollBack(b) \/ RollbackStep(b) \/ RollbackDies(b)
  BY <1>1, <1>6 DEF Build, SetStatus, AddToPlan, StampUnderPlan, vars, LoadToRollBack, RollbackStep,
     ListStamped, RollBack, RollbackDies
<1>7. QED
  BY <1>2, <1>3, <1>4, <1>5, <1>6 DEF Next, ExecutionStep

\* A rollback's list stays as it was taken.
LEMMA ListsOn ==
    ASSUME TypeOK, [Next]_vars, NEW b \in Rollbackers, roll'[b].pc = "apply"
    PROVE  \/ roll[b].pc = "apply" /\ roll'[b] = roll[b]
           \/ /\ UNCHANGED <<stamps, netbox>>
              /\ roll'[b].listed = {<<r, stamps[r].result>> : r \in With("stamped")}
<1>1. CASE UNCHANGED roll
  BY <1>1
<1>2. ASSUME NEW c \in Rollbackers, LoadToRollBack(c) \/ RollbackStep(c) \/ RollbackDies(c)
      PROVE  \/ roll'[b] = roll[b]
             \/ /\ UNCHANGED <<stamps, netbox>>
                /\ roll'[b].listed = {<<r, stamps[r].result>> : r \in With("stamped")}
  <2>1. CASE c # b
    BY <1>2, <2>1 DEF LoadToRollBack, RollbackStep, ListStamped, RollBack, RollbackDies, TypeOK
  <2>2. CASE c = b /\ ListStamped(b)
    BY <2>2 DEF ListStamped, TypeOK, tables
  <2>3. CASE LoadToRollBack(b) \/ RollBack(b) \/ RollbackDies(b)
    <3>1. roll'[b].pc # "apply"
      BY <2>3 DEF LoadToRollBack, RollBack, RollbackDies, Idle, TypeOK
    <3>2. QED
      BY <3>1
  <2>4. QED
    BY <1>2, <2>1, <2>2, <2>3 DEF RollbackStep
<1>3. CASE Build \/ UNCHANGED vars \/ \E e \in Executors :
              LoadToExecute(e) \/ ExecutionStep(e) \/ RaiseAtCommit(e) \/ ExecutionDies(e)
  BY <1>1, <1>3 DEF Build, SetStatus, AddToPlan, StampUnderPlan, vars, LoadToExecute, ExecutionStep,
     MarkStamping, ListPending, StampNext, CommitExecution, RaiseInStamp, MarkFailed, BackToDraft,
     RaiseAtCommit, PlaceIsGone, RaiseAfterLoop, ExecutionDies
<1>4. QED
  BY <1>2, <1>3 DEF Next

\* A rollback that takes away what a record refers to, and does not roll that record back,
\* has another record on its list that names it.
LEMMA RollBackSupport ==
    ASSUME TypeOK, Books, Listed, Overlap, NEW b \in Rollbackers, RollBack(b),
           NEW r \in Records, stamps[r].status # "absent", r \notin MarkRolledBack(b), Supported(r)
    PROVE  Supported(r)'
<1>1. Grows /\ stamps'[r].kind = stamps[r].kind /\ stamps'[r].subject = stamps[r].subject
  BY RolledBackBooks DEF Grows
<1>2. roll[b].pc = "apply" /\ objects' = objects \ Deletes(roll[b].listed)
  BY DEF RollBack
<1>3. CASE stamps[r].subject \in Deletes(roll[b].listed) /\ stamps[r].kind \notin Assemblies
  <2>1. PICK o \in Deletes(roll[b].listed) : o = stamps[r].subject
    BY <1>3
  <2>2. o \in objects /\ \E p \in roll[b].listed : p[2] \in TakenWith(o)
    BY <2>1, DeletedIsListed
  <2>3. PICK p \in roll[b].listed : p[2] \in TakenWith(o)
    BY <2>2
  <2>4. p \in Records \X (Object \cup {NoObject})
    BY <1>2, <2>3, RollbackShape DEF TypeOK
  <2>5. PICK s \in Records : s = p[1]
    BY <2>4
  <2>6. s # r
    BY <2>3, <2>5 DEF MarkRolledBack
  <2>7. stamps[s].status \notin {"absent", "pending"} /\ p[2] \in Results(s)
    BY <1>2, <2>3, <2>5 DEF Listed
  <2>8. stamps'[s].status \notin {"absent", "pending"} /\ p[2] \in Results(s)'
    BY <1>1, <2>7, ResultsGrow DEF Grows
  <2>9. TakenWith(stamps[r].subject)' = TakenWith(o)
    BY <1>1, <2>1, <2>2 DEF TakenWith, Around, Grows, TypeOK
  <2>10. Shared(r)'
    BY <1>1, <1>3, <2>3, <2>6, <2>8, <2>9 DEF Shared
  <2>11. QED
    BY <2>10 DEF Supported
<1>4. CASE stamps[r].subject \in (objects \cup {NoObject}) \ Deletes(roll[b].listed)
  BY <1>1, <1>2, <1>4 DEF Supported
<1>5. CASE stamps[r].kind \in Assemblies
  BY <1>1, <1>5 DEF Supported
<1>6. CASE stamps[r].subject \notin objects \cup {NoObject} /\ stamps[r].kind \notin Assemblies
  <2>1. Shared(r) /\ stamps[r].subject \in DOMAIN inventory
    BY <1>6 DEF Supported, TypeOK
  <2>2. TakenWith(stamps[r].subject)' = TakenWith(stamps[r].subject)
    BY <1>1, <2>1 DEF TakenWith, Around, Grows
  <2>3. PICK s \in Records \ {r} : /\ stamps[s].status \notin {"absent", "pending"}
                                  /\ Results(s) \cap TakenWith(stamps[r].subject) # {}
    BY <2>1 DEF Shared
  <2>4. stamps'[s].status \notin {"absent", "pending"} /\ Results(s) \subseteq Results(s)'
    BY <1>1, <2>3, ResultsGrow DEF Grows
  <2>5. Shared(r)'
    BY <1>1, <1>6, <2>2, <2>3, <2>4 DEF Shared
  <2>6. QED
    BY <2>5 DEF Supported
<1>7. QED
  BY <1>3, <1>4, <1>5, <1>6

\* A rollback does not delete the object of an assembly that stays stamped: were it the
\* result of a breakout on its list, the assembly would be on the list too.
LEMMA RollBackAssembly ==
    ASSUME TypeOK, Books, Listed, NEW b \in Rollbackers, RollBack(b), NEW r \in With("stamped"),
           stamps[r].kind \in Assemblies, stamps[r].result \in objects, r \notin MarkRolledBack(b)
    PROVE  stamps[r].result \in objects'
<1>1. r \in Records /\ stamps[r].result = Own(r) /\ made[r] \in 1 .. made[r]
  BY DEF With, Books, RowsKnow, TypeOK
<1>2. inventory[stamps[r].result].type \in {"device", "cable"}
  BY <1>1, MakesShape DEF Books, MadeTypes, Own
<1>3. SUFFICES ASSUME stamps[r].result \in Deletes(roll[b].listed) PROVE FALSE
  BY DEF RollBack
<1>4. PICK o \in Deletes(roll[b].listed) : o = stamps[r].result
  BY <1>3
<1>5. PICK p \in roll[b].listed : p[2] = o
  BY <1>2, <1>4, DeletedIsListed DEF Scopes
<1>6. roll[b].pc = "apply"
  BY DEF RollBack
<1>7. <<r, o>> \in roll[b].listed
  BY <1>4, <1>5, <1>6 DEF Listed
<1>8. QED
  BY <1>7 DEF MarkRolledBack

LEMMA StepStanding ==
    ASSUME TypeOK, Books, Carried, Listed, Standing, Overlap \/ SerialInv, [Next]_vars
    PROVE  Standing'
<1>1. Grows
  BY StepBooks
<1>2. SUFFICES ASSUME NEW r \in Records, stamps'[r].status = "stamped"
               PROVE  /\ stamps'[r].kind \in Assemblies => stamps'[r].result \in objects'
                      /\ Supported(r)'
  BY DEF Standing, With
<1>3. CASE \E b \in Rollbackers : RollBack(b)
  <2>1. PICK b \in Rollbackers : RollBack(b)
    BY <1>3
  <2>2. stamps'[r] = stamps[r] /\ r \notin MarkRolledBack(b)
    BY <1>2, <2>1, RolledBackBooks
  <2>3. r \in With("stamped")
    BY <1>2, <2>2 DEF With
  <2>4. Overlap
    <3>1. SUFFICES ASSUME SerialInv PROVE FALSE
      OBVIOUS
    <3>2. roll[b].listed = {<<s, stamps[s].result>> : s \in With("stamped")}
      BY <2>1, <3>1 DEF RollBack, SerialInv, ListsAreCurrent
    <3>3. <<r, stamps[r].result>> \in roll[b].listed
      BY <2>3, <3>2
    <3>4. QED
      BY <2>2, <3>3 DEF MarkRolledBack
  <2>5. Supported(r) /\ (stamps[r].kind \in Assemblies => stamps[r].result \in objects)
    BY <2>3 DEF Standing
  <2>6. Supported(r)'
    BY <2>1, <2>2, <2>3, <2>4, <2>5, RollBackSupport DEF With
  <2>7. QED
    BY <2>1, <2>2, <2>3, <2>5, <2>6, RollBackAssembly
<1>4. CASE \A b \in Rollbackers : ~RollBack(b)
  <2>1. objects \subseteq objects'
    BY <1>4, ObjectsStay
  <2>2. CASE stamps'[r] = stamps[r]
    <3>1. r \in With("stamped") /\ stamps[r].status # "absent"
      BY <1>2, <2>2 DEF With
    <3>2. QED
      BY <1>1, <2>1, <2>2, <3>1, SupportStays DEF Standing
  <2>3. CASE stamps'[r] # stamps[r] /\ stamps'[r].kind \in Assemblies
    BY <1>2, <2>3, NewlyStamped DEF Supported
  <2>4. CASE stamps'[r] # stamps[r] /\ stamps'[r].kind \notin Assemblies
    <3>1. CASE stamps'[r].subject \in objects
      BY <2>1, <2>4, <3>1 DEF Supported
    <3>2. ASSUME NEW e \in Executors, exec[e].pc = "apply", r \in exec[e].done PROVE Supported(r)'
      <4>1. stamps[r].status # "absent" /\ Supported(r)
        BY <3>2 DEF Carried
      <4>2. QED
        BY <1>1, <2>1, <4>1, SupportStays
    <3>3. QED
      BY <1>2, <2>4, <3>1, <3>2, NewlyStamped
  <2>5. QED
    BY <2>2, <2>3, <2>4
<1>5. QED
  BY <1>3, <1>4

LEMMA StepCarried ==
    ASSUME TypeOK, Books, Carried, Listed, Overlap \/ SerialInv, [Next]_vars
    PROVE  Carried'
<1>1. Grows
  BY StepBooks
<1>2. SUFFICES ASSUME NEW e \in Executors, exec'[e].pc = "apply"
               PROVE  /\ \A r \in exec'[e].todo \cup exec'[e].done : stamps'[r].status # "absent"
                      /\ \A r \in exec'[e].done : Supported(r)'
  BY DEF Carried
<1>3. CASE exec[e].pc = "apply" /\ exec'[e] = exec[e]
  <2>1. exec[e].todo \subseteq Records /\ exec[e].done \subseteq Records
    BY <1>3, ExecutionShape DEF TypeOK
  <2>2. /\ \A r \in exec[e].todo \cup exec[e].done : stamps[r].status # "absent"
        /\ \A r \in exec[e].done : Supported(r)
    BY <1>3 DEF Carried
  <2>3. \A r \in exec[e].todo \cup exec[e].done : stamps'[r].status # "absent"
    BY <1>1, <2>1, <2>2 DEF Grows
  <2>4. ASSUME NEW r \in exec[e].done PROVE Supported(r)'
    <3>1. r \in Records /\ stamps[r].status # "absent" /\ Supported(r)
      BY <2>1, <2>2
    <3>2. CASE \A b \in Rollbackers : ~RollBack(b)
      BY <1>1, <3>1, <3>2, ObjectsStay, SupportStays
    <3>3. CASE \E b \in Rollbackers : RollBack(b)
      <4>1. PICK b \in Rollbackers : RollBack(b)
        BY <3>3
      <4>2. Overlap
        BY <1>3, <4>1 DEF RollBack, SerialInv, OneAtATime
      <4>3. r \notin MarkRolledBack(b)
        BY <1>3, <4>1 DEF RollBack, Held, MarkRolledBack
      <4>4. QED
        BY <3>1, <4>1, <4>2, <4>3, RollBackSupport
    <3>4. QED
      BY <3>2, <3>3
  <2>5. QED
    BY <1>3, <2>3, <2>4
<1>4. CASE exec'[e].done = {} /\ exec'[e].todo = With("pending") /\ UNCHANGED <<stamps, netbox>>
  BY <1>4 DEF With
<1>5. ASSUME exec[e].pc = "apply", UNCHANGED <<stamps, netbox>>,
             NEW q \in exec[e].todo, CanStamp(q), exec'[e].done = exec[e].done \cup {q},
             exec'[e].todo = exec[e].todo \ {q}
      PROVE  /\ \A r \in exec'[e].todo \cup exec'[e].done : stamps'[r].status # "absent"
             /\ \A r \in exec'[e].done : Supported(r)'
  <2>1. exec[e].todo \subseteq Records /\ exec[e].done \subseteq Records
    BY <1>5, ExecutionShape DEF TypeOK
  <2>2. /\ \A r \in exec[e].todo \cup exec[e].done : stamps[r].status # "absent"
        /\ \A r \in exec[e].done : Supported(r)
    BY <1>5 DEF Carried
  <2>3. Supported(q)
    BY <1>5 DEF CanStamp, Supported
  <2>4. ASSUME NEW r \in exec'[e].done PROVE Supported(r)'
    <3>1. r \in Records /\ stamps[r].status # "absent" /\ Supported(r)
      BY <1>5, <2>1, <2>2, <2>3
    <3>2. QED
      BY <1>1, <1>5, <3>1, SupportStays DEF netbox
  <2>5. QED
    BY <1>5, <2>2, <2>4
<1>6. QED
  BY <1>2, <1>3, <1>4, <1>5, CarriesOn

LEMMA StepListed ==
    ASSUME TypeOK, Books, Listed, [Next]_vars
    PROVE  Listed'
<1>1. Grows
  BY StepBooks
<1>2. SUFFICES ASSUME NEW b \in Rollbackers, roll'[b].pc = "apply", NEW p \in roll'[b].listed
               PROVE  /\ stamps'[p[1]].status \notin {"absent", "pending"}
                      /\ p[2] \in Results(p[1])'
                      /\ p[2] \in DOMAIN inventory' \cup {NoObject}
                      /\ \A r \in Records :
                            stamps'[r].status = "stamped" /\ stamps'[r].kind \in Assemblies
                              /\ stamps'[r].result = p[2] => <<r, p[2]>> \in roll'[b].listed
  BY DEF Listed, With
<1>3. CASE roll[b].pc = "apply" /\ roll'[b] = roll[b]
  <2>1. p \in roll[b].listed /\ p \in Records \X (Object \cup {NoObject})
    BY <1>3, RollbackShape DEF TypeOK
  <2>2. PICK s \in Records : s = p[1]
    BY <2>1
  <2>3. /\ stamps[s].status \notin {"absent", "pending"} /\ p[2] \in Results(s)
        /\ p[2] \in DOMAIN inventory \cup {NoObject}
        /\ \A r \in With("stamped") : stamps[r].kind \in Assemblies /\ stamps[r].result = p[2]
                                          => <<r, p[2]>> \in roll[b].listed
    BY <1>3, <2>1, <2>2 DEF Listed
  <2>4. /\ stamps'[s].status \notin {"absent", "pending"} /\ p[2] \in Results(s)'
        /\ p[2] \in DOMAIN inventory' \cup {NoObject}
    BY <1>1, <2>3, ResultsGrow DEF Grows
  <2>5. ASSUME NEW r \in Records, stamps'[r].status = "stamped", stamps'[r].kind \in Assemblies,
               stamps'[r].result = p[2]
        PROVE  <<r, p[2]>> \in roll[b].listed
    <3>1. stamps'[r] = stamps[r]
      BY <2>3, <2>5, NewlyStamped
    <3>2. QED
      BY <2>3, <2>5, <3>1 DEF With
  <2>6. QED
    BY <1>3, <2>2, <2>4, <2>5
<1>4. CASE /\ UNCHANGED <<stamps, netbox>>
           /\ roll'[b].listed = {<<r, stamps[r].result>> : r \in With("stamped")}
  <2>1. PICK s \in With("stamped") : p = <<s, stamps[s].result>>
    BY <1>2, <1>4
  <2>2. s \in Records /\ stamps[s].status = "stamped" /\ p[1] = s /\ p[2] = stamps[s].result
    BY <2>1 DEF With
  <2>3. p[2] \in Results(s) /\ p[2] \in DOMAIN inventory \cup {NoObject}
    <3>1. CASE stamps[s].kind \in Assemblies
      <4>1. p[2] = [by |-> s, nth |-> made[s]] /\ made[s] \in Nat /\ made[s] # 0
        BY <2>2, <3>1 DEF Books, RowsKnow, Own, TypeOK
      <4>2. made[s] \in 1 .. made[s]
        BY <4>1
      <4>3. QED
        BY <2>2, <3>1, <4>1, <4>2 DEF Results, Books, Numbered
    <3>2. CASE stamps[s].kind \notin Assemblies
      BY <2>2, <3>2 DEF Books, RowsKnow, Results, TypeOK
    <3>3. QED
      BY <3>1, <3>2
  <2>4. Results(s)' = Results(s)
    BY <1>4 DEF Results, netbox
  <2>5. QED
    BY <1>4, <2>2, <2>3, <2>4 DEF With, netbox
<1>5. QED
  BY <1>2, <1>3, <1>4, ListsOn

PlanInv ==
    /\ TypeOK /\ Books /\ Carried /\ Listed /\ Standing
    /\ Overlap \/ SerialInv

LEMMA PlanInvariant == Spec => []PlanInv
<1>1. Init => PlanInv
  BY InitType, InitBooks, InitSerial DEF PlanInv, Init, Carried, Listed, Standing, With, NoRecord, Idle
<1>2. PlanInv /\ [Next]_vars => PlanInv'
  <2>1. Overlap' = Overlap
    OBVIOUS
  <2>2. QED
    BY StepType, StepBooks, StepCarried, StepListed, StepStanding, StepSerial DEF PlanInv
<1>3. QED
  BY <1>1, <1>2, PTL DEF Spec

\* A stamped record points at an object that stands, however executions and rollbacks of
\* the plan interleave and wherever they die; only if handlers overlap, and another record
\* has named the same scope, rack or device, may that be gone.  The object of a stamped
\* assembly stands always.
THEOREM StampedRecordsHaveResults == Spec => []StampedHasResult
<1>1. PlanInv => StampedHasResult
  <2>1. SUFFICES ASSUME PlanInv, NEW r \in With("stamped"), stamps[r].kind # "none",
                        stamps[r].result \notin objects
                 PROVE  Overlap /\ Shared(r)
    BY DEF StampedHasResult
  <2>2. stamps[r].kind \notin Assemblies /\ Supported(r)
    BY <2>1 DEF PlanInv, Standing
  <2>3. stamps[r].result = stamps[r].subject /\ stamps[r].subject # NoObject
    BY <2>1, <2>2 DEF PlanInv, Books, RowsKnow, With, Assemblies
  <2>4. QED
    BY <2>1, <2>2, <2>3 DEF Supported
<1>2. QED
  BY <1>1, PlanInvariant, PTL

-----------------------------------------------------------------------------
(* What one process has created. *)

\* What stands of a record that creates nothing stood before.
LEMMA OldObject ==
    ASSUME TypeOK, NEW makers \in SUBSET Records, Create(makers), NEW r \in Records \ makers,
           Own(r)' \in objects'
    PROVE  Own(r)' = Own(r) /\ Own(r) \in objects
<1>1. Own(r)' = Own(r)
  BY DEF Create, Own
<1>2. ASSUME NEW s \in makers, Own(r) = New(s) PROVE FALSE
  <2>1. Own(r).by = r /\ New(s).by = s
    BY DEF Own, New
  <2>2. QED
    BY <1>2, <2>1
<1>3. objects' = objects \cup {New(s) : s \in makers}
  BY DEF Create
<1>4. QED
  BY <1>1, <1>2, <1>3

LEMMA StepOnRecord ==
    ASSUME TypeOK, Books, SerialInv, MadeIsOnRecord, [Next]_vars
    PROVE  MadeIsOnRecord'
<1>1. SUFFICES ASSUME NEW r \in Records, stamps'[r].kind \in Assemblies, Own(r)' \in objects'
               PROVE  stamps'[r].status = "stamped"
  BY DEF MadeIsOnRecord
<1>2. ASSUME stamps'[r].kind = stamps[r].kind, Own(r) \in objects PROVE stamps[r].status = "stamped"
  BY <1>1, <1>2 DEF MadeIsOnRecord
<1>3. CASE UNCHANGED <<stamps, netbox>>
  BY <1>1, <1>2, <1>3 DEF netbox, Own
<1>4. ASSUME NEW q \in Records, NEW kind \in Kinds, AddToPlan(q, kind)
      PROVE  stamps'[r].status = "stamped"
  <2>1. Own(r) \in objects
    BY <1>1, <1>4 DEF AddToPlan, netbox, Own
  <2>2. stamps[r].status # "absent"
    <3>1. SUFFICES ASSUME made[r] = 0 PROVE FALSE
      BY DEF Books, RowsKnow
    <3>2. Own(r) = [by |-> r, nth |-> 0] /\ 0 \notin 1 .. made[r]
      BY <3>1 DEF Own
    <3>3. QED
      BY <2>1, <3>2 DEF Books, Numbered, TypeOK
  <2>3. stamps'[r] = stamps[r]
    BY <1>4, <2>2 DEF AddToPlan, Insert, TypeOK
  <2>4. QED
    BY <1>2, <2>1, <2>3
<1>5. ASSUME NEW q \in Records, NEW kind \in Kinds, StampUnderPlan(q, kind)
      PROVE  stamps'[r].status = "stamped"
  <2>1. CASE r = q
    BY <1>5, <2>1 DEF StampUnderPlan, Insert, TypeOK
  <2>2. CASE r # q
    <3>1. stamps'[r] = stamps[r]
      BY <1>5, <2>2 DEF StampUnderPlan, Insert, TypeOK
    <3>2. PICK makers \in SUBSET Records : Create(makers) /\ r \notin makers
      BY <1>5, <2>2 DEF StampUnderPlan
    <3>3. QED
      BY <1>1, <1>2, <3>1, <3>2, OldObject
  <2>3. QED
    BY <2>1, <2>2
<1>6. ASSUME NEW e \in Executors, CommitExecution(e) PROVE stamps'[r].status = "stamped"
  <2>1. CASE r \in exec[e].done
    BY <1>6, <2>1 DEF CommitExecution, Stamped, TypeOK, StampRecord
  <2>2. CASE r \notin exec[e].done
    <3>1. exec[e].done \subseteq Records
      BY <1>6, ExecutionShape DEF CommitExecution, TypeOK
    <3>2. stamps'[r] = stamps[r]
      BY <1>6, <2>2 DEF CommitExecution, Stamped
    <3>3. PICK makers \in SUBSET Records : Create(makers) /\ r \notin makers
      BY <1>6, <2>2, <3>1 DEF CommitExecution, Makers
    <3>4. QED
      BY <1>1, <1>2, <3>2, <3>3, OldObject
  <2>3. QED
    BY <2>1, <2>2
<1>7. ASSUME NEW e \in Executors, MarkFailed(e) PROVE stamps'[r].status = "stamped"
  <2>1. exec[e].pc = "fail" /\ exec[e].culprit \in Records
    BY <1>7, ExecutionShape DEF MarkFailed, TypeOK
  <2>2. stamps[exec[e].culprit].status = "pending"
    BY <2>1 DEF SerialInv, ListsAreCurrent
  <2>3. /\ stamps'[r].kind = stamps[r].kind /\ Own(r) \in objects
        /\ r # exec[e].culprit => stamps'[r] = stamps[r]
    BY <1>1, <1>7, <2>1 DEF MarkFailed, TypeOK, StampRecord, netbox, Own
  <2>4. QED
    BY <1>2, <2>2, <2>3
<1>8. ASSUME NEW b \in Rollbackers, RollBack(b) PROVE FALSE
  <2>1. /\ objects' = objects \ Deletes(roll[b].listed)
        /\ stamps'[r].kind = stamps[r].kind /\ Own(r)' = Own(r)
    BY <1>8 DEF RollBack, TypeOK, StampRecord, Own
  <2>2. r \in With("stamped") /\ Own(r) \in objects \ Deletes(roll[b].listed)
    BY <1>1, <1>2, <2>1 DEF With
  <2>3. stamps[r].result = Own(r) /\ made[r] \in 1 .. made[r]
    BY <1>1, <2>1, <2>2 DEF With, Books, RowsKnow, TypeOK
  <2>4. inventory[Own(r)].type \in {"device", "cable"}
    BY <1>1, <2>1, <2>3, MakesShape DEF Books, MadeTypes, Own
  <2>5. roll[b].listed = {<<s, stamps[s].result>> : s \in With("stamped")}
    BY <1>8 DEF RollBack, SerialInv, ListsAreCurrent
  <2>6. <<r, Own(r)>> \in roll[b].listed
    BY <2>2, <2>3, <2>5
  <2>7. PICK p \in roll[b].listed : p[1] = r /\ p[2] = Own(r)
    BY <2>6
  <2>8. r > 0
    BY BoundsAssumption DEF Records
  <2>9. Own(r) \in ItemsGone(roll[b].listed, 0)
    BY <2>2, <2>4, <2>7, <2>8 DEF ItemsGone, OfType
  <2>10. QED
    BY <2>2, <2>9 DEF Deletes
<1>9. QED
  BY <1>3, <1>4, <1>5, <1>6, <1>7, <1>8, TouchingSteps

\* One process, faults or not: what a plan created for an assembly and still stands is the
\* result of a record shown as stamped, so that a rollback will list it.
THEOREM SerialMadeIsOnRecord == ASSUME ~Overlap PROVE Spec => []MadeIsOnRecord
<1>1. Init => MadeIsOnRecord
  BY DEF Init, MadeIsOnRecord, NoRecord, Assemblies
<1>2. PlanInv /\ MadeIsOnRecord /\ [Next]_vars => MadeIsOnRecord'
  BY StepOnRecord DEF PlanInv
<1>3. QED
  BY <1>1, <1>2, PlanInvariant, PTL DEF Spec

-----------------------------------------------------------------------------
(* Lists of one process. *)

\* One process: an execution that succeeds leaves no record pending, because the list
\* it took is still the list of the pending records when it commits.
THEOREM SerialExecutesAll == ASSUME ~Overlap PROVE Spec => ExecutesAllPending
<1>1. ASSUME TypeOK, SerialInv, NEW e \in Executors, CommitExecution(e), NEW r \in Records
      PROVE  stamps'[r].status # "pending"
  <2>1. exec[e].done = With("pending")
    BY <1>1 DEF CommitExecution, SerialInv, ListsAreCurrent
  <2>2. QED
    BY <1>1, <2>1 DEF CommitExecution, Stamped, With, TypeOK, StampRecord
<1>2. TypeOK /\ SerialInv /\ [Next]_vars
          => [\A e \in Executors : CommitExecution(e) =>
                 \A r \in Records : stamps'[r].status # "pending"]_vars
  BY <1>1
<1>3. QED
  BY <1>2, InitType, StepType, InitSerial, StepSerial, PTL DEF Spec, ExecutesAllPending

\* One process: a rollback reaches every stamped record.
THEOREM SerialRollbackReachesAll == ASSUME ~Overlap PROVE Spec => RollbackReachesAll
<1>1. ASSUME TypeOK, SerialInv, NEW b \in Rollbackers, RollBack(b), NEW r \in Records
      PROVE  stamps'[r].status # "stamped"
  <2>1. roll[b].listed = {<<s, stamps[s].result>> : s \in With("stamped")}
    BY <1>1 DEF RollBack, SerialInv, ListsAreCurrent
  <2>2. \A s \in With("stamped") : s \in MarkRolledBack(b)
    <3>1. ASSUME NEW s \in With("stamped") PROVE s \in MarkRolledBack(b)
      <4>1. <<s, stamps[s].result>> \in roll[b].listed
        BY <2>1
      <4>2. QED
        BY <4>1 DEF MarkRolledBack
    <3>2. QED
      BY <3>1
  <2>3. QED
    BY <1>1, <2>2 DEF RollBack, With, TypeOK, StampRecord
<1>2. TypeOK /\ SerialInv /\ [Next]_vars
          => [\A b \in Rollbackers : RollBack(b) =>
                 \A r \in Records : stamps'[r].status # "stamped"]_vars
  BY <1>1
<1>3. QED
  BY <1>2, InitType, StepType, InitSerial, StepSerial, PTL DEF Spec, RollbackReachesAll

=============================================================================

--------------------------- MODULE FindingLedger ---------------------------
(***************************************************************************)
(* What the audit workflow promises about a finding, one step per effect:   *)
(* a finding has a status and may be muted (it has an active suppression).  *)
(* Operators move it between the active statuses, resolve and reopen it; it *)
(* becomes suppressed only while it is muted, and is released only once it  *)
(* no longer is.  The run of an audit completes in one step that opens what *)
(* is reported, brings back what was resolved (as suppressed if muted, else *)
(* as open), resolves what is no longer reported and leaves every other     *)
(* status alone; deleting runs changes no finding.                          *)
(***************************************************************************)
CONSTANTS Findings, Runs

VARIABLES status, muted, completed

ledger == <<status, muted, completed>>

Init == /\ status = [f \in Findings |-> "none"]
        /\ muted = [f \in Findings |-> FALSE]
        /\ completed = {}

Move(f, from, to) == /\ status[f] \in from
                     /\ status' = [status EXCEPT ![f] = to]
                     /\ UNCHANGED <<muted, completed>>

Active == {"open", "acknowledged", "in_progress", "suppressed"}

Acknowledge(f) == Move(f, Active, "acknowledged")
StartRemediation(f) == Move(f, Active, "in_progress")
Resolve(f) == Move(f, Active, "resolved")
Reopen(f) == Move(f, Active \cup {"resolved"}, "open")

Mute(f) == /\ status[f] # "none" /\ ~muted[f]
           /\ muted' = [muted EXCEPT ![f] = TRUE]
           /\ UNCHANGED <<status, completed>>

Unmute(f) == /\ muted[f]
             /\ muted' = [muted EXCEPT ![f] = FALSE]
             /\ UNCHANGED <<status, completed>>

Suppress(f) == muted[f] /\ Move(f, Active \cup {"resolved"}, "suppressed")
Release(f) == ~muted[f] /\ Move(f, Active, "open")

Audit(run, reported) ==
    /\ run \notin completed
    /\ completed' = completed \cup {run}
    /\ status' = [f \in Findings |->
          IF f \notin reported
          THEN IF status[f] \in Active THEN "resolved" ELSE status[f]
          ELSE IF status[f] \in Active THEN status[f]
          ELSE IF status[f] = "resolved" /\ muted[f] THEN "suppressed" ELSE "open"]
    /\ UNCHANGED muted

Delete(old) == /\ completed' = completed \ old
               /\ UNCHANGED <<status, muted>>

Next ==
    \/ \E f \in Findings : \/ Acknowledge(f) \/ StartRemediation(f) \/ Resolve(f) \/ Reopen(f)
                           \/ Mute(f) \/ Unmute(f) \/ Suppress(f) \/ Release(f)
    \/ \E run \in Runs, reported \in SUBSET Findings : Audit(run, reported)
    \/ \E old \in SUBSET Runs : Delete(old)

Spec == Init /\ [][Next]_ledger
=============================================================================

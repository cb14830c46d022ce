----------------------------- MODULE TaskLedger -----------------------------
(***************************************************************************)
(* What the task run history promises to the admin who reads it, without   *)
(* agents, calls or clocks: one run at a time, started at most once and    *)
(* only after it was handed out, ended once, and a result that says the    *)
(* command ran only when it did.  TaskRuns implements it.                  *)
(***************************************************************************)
EXTENDS Naturals

CONSTANT RunIds

VARIABLES
    status,   \* what the history shows of a run
    starts    \* how often its command was started on the host

Init ==
    /\ status = [r \in RunIds |-> "absent"]
    /\ starts = [r \in RunIds |-> 0]

Ask(r) ==
    /\ status[r] = "absent"
    /\ \A s \in RunIds : status[s] \notin {"queued", "running"}
    /\ status' = [status EXCEPT ![r] = "queued"]
    /\ UNCHANGED starts

HandOut(r) ==
    /\ status[r] = "queued"
    /\ status' = [status EXCEPT ![r] = "running"]
    /\ UNCHANGED starts

\* The host starts the command.  It may do so after the history gave the run
\* up as lost, or forgot it, but never without or before the hand out.
Begin(r) ==
    /\ status[r] \notin {"absent", "queued", "expired"}
    /\ starts[r] = 0
    /\ starts' = [starts EXCEPT ![r] = 1]
    /\ UNCHANGED status

Expire(r) ==
    /\ status[r] = "queued"
    /\ status' = [status EXCEPT ![r] = "expired"]
    /\ UNCHANGED starts

Conclude(r, result) ==
    /\ status[r] = "running"
    /\ result \in {"succeeded", "timed_out"} => starts[r] = 1
    /\ status' = [status EXCEPT ![r] = result]
    /\ UNCHANGED starts

\* Old runs are purged, and a removed host takes all of its runs along.
Forget(gone) ==
    /\ \A r \in gone : status[r] # "absent"
    /\ status' = [r \in RunIds |-> IF r \in gone THEN "deleted" ELSE status[r]]
    /\ UNCHANGED starts

Next ==
    \/ \E r \in RunIds : \/ Ask(r) \/ HandOut(r) \/ Begin(r) \/ Expire(r)
                         \/ \E result \in {"succeeded", "failed", "timed_out", "lost"} :
                               Conclude(r, result)
    \/ \E gone \in SUBSET RunIds : Forget(gone)

Spec == Init /\ [][Next]_<<status, starts>>

=============================================================================

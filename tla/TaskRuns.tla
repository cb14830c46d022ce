------------------------------ MODULE TaskRuns ------------------------------
(***************************************************************************)
(* Host tasks: the runs of one host.  An admin asks for a run, the host's  *)
(* agent waits for it in NextTask, executes it when its tasks file agrees, *)
(* and reports back.  The collector keeps the runs in its store.           *)
(*                                                                         *)
(*   internal/store/tasks.go  the rows, their guards and the transactions  *)
(*   internal/api/tasks.go    NextTask handlers, the waiters, the requests *)
(*   agent/tasks.go           the runner, its reports and the update lock  *)
(*   collector/tasks.go       the sweeper                                  *)
(*                                                                         *)
(* Every statement of the store filters on the host, and hosts share       *)
(* nothing but the id sequence, so one host is modelled.  Time passes in   *)
(* Tick; a run has one age, counted from requested_at while it is queued   *)
(* and from started_at while it is running.  A call that fails, is given   *)
(* up on or loses its answer is an ordinary step.                          *)
(***************************************************************************)
EXTENDS Integers, Sequences, FiniteSets

CONSTANTS
    RunIds,         \* ids of task_runs, never reused
    Calls,          \* NextTask calls the collector can hold open at once
    Names,          \* task names
    Commands,       \* task commands
    Timeouts,       \* TimeoutSeconds values, in ticks
    PickupWindow,   \* taskPickupWindow
    LostAfter,      \* taskLostAfter
    EndTries,       \* taskEndTries
    OutputLimit,    \* taskOutputLimit and TaskOutputLimit, in chunks
    MaxPrinted,     \* bound: chunks one run may print
    NoRun, NoCall, NoOffer

ASSUME TaskRunsAssumption ==
    /\ NoRun \notin RunIds
    /\ NoCall \notin Calls
    /\ Timeouts \subseteq Nat \ {0}
    /\ PickupWindow \in Nat \ {0}
    /\ LostAfter \in Nat \ {0}
    /\ EndTries \in Nat \ {0}
    /\ OutputLimit \in Nat
    /\ MaxPrinted \in Nat
    /\ NoOffer \notin [command : Commands, timeout : Timeouts]

\* A task as a tasks file lists it, and as a run copies it.
Offers == [command : Commands, timeout : Timeouts]
TaskList == [Names -> Offers \cup {NoOffer}]
Requested == [name : Names, command : Commands, timeout : Timeouts]

Reported == {"succeeded", "failed", "timed_out"}
Final == Reported \cup {"expired", "lost"}
Active == {"queued", "running"}
\* "absent" has no row yet, "deleted" had one.
Statuses == Active \cup Final \cup {"absent", "deleted"}

VARIABLES
    \* the store
    known,      \* the host has a row in hosts
    hostTasks,  \* hosts.tasks
    status,     \* task_runs.status
    asked,      \* the name, command and timeout a run was asked for with
    age,        \* ticks since requested_at, or since started_at once running
    output,     \* task_runs.output, a sequence of chunks
    truncated,  \* task_runs.truncated
    \* the collector process
    handler,    \* where each NextTask call is
    closed,     \* its woken channel is closed
    locked,     \* rows its open claim transaction has marked lost
    tooOld,     \* queued rows past the window when that transaction began
    holding,    \* the run its reply carries
    waking,     \* runs inserted by RequestTaskRun, the wake up still to come
    \* the agent process
    pc, call, current, working, limit, procAge, acked, reporting, tries,
    \* the host
    file,       \* the tasks file
    \* what really happened, for the properties
    starts,     \* how often a run's command was started
    printed,    \* chunks the run's process printed
    outcome     \* how the agent's attempt at a run ended

storeVars == <<known, hostTasks, status, asked, age, output, truncated>>
callVars == <<handler, closed, locked, tooOld, holding, waking>>
agentVars == <<pc, call, current, working, limit, procAge, acked, reporting, tries>>
historyVars == <<starts, printed, outcome>>
vars == <<storeVars, callVars, agentVars, file, historyVars>>

Phases == {"none", "registered", "claiming", "waiting", "woken", "reclaiming", "replying"}
AgentStates == {"down", "idle", "asking", "assigned", "running", "ending"}

StoreTypeOK ==
    /\ known \in BOOLEAN
    /\ hostTasks \in TaskList
    /\ status \in [RunIds -> Statuses]
    /\ asked \in [RunIds -> Requested \cup {NoOffer}]
    /\ age \in [RunIds -> Nat]
    /\ output \in [RunIds -> Seq(Nat)]
    /\ truncated \in [RunIds -> BOOLEAN]

CallTypeOK ==
    /\ handler \in [Calls -> Phases]
    /\ closed \in [Calls -> BOOLEAN]
    /\ locked \in [Calls -> SUBSET RunIds]
    /\ tooOld \in [Calls -> SUBSET RunIds]
    /\ holding \in [Calls -> RunIds \cup {NoRun}]
    /\ waking \subseteq RunIds

AgentTypeOK ==
    /\ pc \in AgentStates
    /\ call \in Calls \cup {NoCall}
    /\ current \in RunIds \cup {NoRun}
    /\ working \in {"free", "runner", "updater"}
    /\ limit \in Nat
    /\ procAge \in Nat
    /\ acked \in Nat
    /\ reporting \in BOOLEAN
    /\ tries \in Nat
    /\ file \in TaskList

HistoryTypeOK ==
    /\ starts \in [RunIds -> Nat]
    /\ printed \in [RunIds -> Nat]
    /\ outcome \in [RunIds -> Reported \cup {"none"}]

\* The type of the store's rows, the collector's calls, the agent's state and
\* the history: every handler leaves its variables in their range.
TypeOK == StoreTypeOK /\ CallTypeOK /\ AgentTypeOK /\ HistoryTypeOK

NoTasks == [n \in Names |-> NoOffer]

Init ==
    /\ known = TRUE
    /\ hostTasks = NoTasks
    /\ status = [r \in RunIds |-> "absent"]
    /\ asked = [r \in RunIds |-> NoOffer]
    /\ age = [r \in RunIds |-> 0]
    /\ output = [r \in RunIds |-> <<>>]
    /\ truncated = [r \in RunIds |-> FALSE]
    /\ handler = [h \in Calls |-> "none"]
    /\ closed = [h \in Calls |-> FALSE]
    /\ locked = [h \in Calls |-> {}]
    /\ tooOld = [h \in Calls |-> {}]
    /\ holding = [h \in Calls |-> NoRun]
    /\ waking = {}
    /\ pc = "down"
    /\ call = NoCall
    /\ current = NoRun
    /\ working = "free"
    /\ limit = 0
    /\ procAge = 0
    /\ acked = 0
    /\ reporting = TRUE
    /\ tries = 0
    /\ file \in TaskList
    /\ starts = [r \in RunIds |-> 0]
    /\ printed = [r \in RunIds |-> 0]
    /\ outcome = [r \in RunIds |-> "none"]

-----------------------------------------------------------------------------
(* The store *)

WithStatus(s) == {r \in RunIds : status[r] = s}

\* Rows an open claim transaction has updated: any other statement on them,
\* and an insert the unique index would refuse because of them, waits.
LockedRows == UNION {locked[h] : h \in Calls}

\* The unique index task_runs_one_active: a second queued or running run is
\* refused with ErrTaskBusy.
HostBusy == \E r \in RunIds : status[r] \in Active

\* RequestTaskRun: the insert copies the task from the host's list.  The wake
\* up follows in WakeHost.
RequestTaskRun(r, n) ==
    /\ known
    /\ hostTasks[n] # NoOffer
    /\ status[r] = "absent"
    /\ ~HostBusy
    /\ status' = [status EXCEPT ![r] = "queued"]
    /\ asked' = [asked EXCEPT ![r] = [name |-> n, command |-> hostTasks[n].command,
                                      timeout |-> hostTasks[n].timeout]]
    /\ waking' = waking \cup {r}
    /\ UNCHANGED <<known, hostTasks, age, output, truncated, handler, closed, locked,
                   tooOld, holding, agentVars, file, historyVars>>

\* Write and taskOutputLimit: the agent keeps the first OutputLimit chunks.
Kept(r) == IF printed[r] < OutputLimit THEN printed[r] ELSE OutputLimit

\* Mutant: the agent does not note that it dropped output.
Dropped_Never(r) == FALSE

Dropped(r) == printed[r] > OutputLimit
\* progress.Output: what was kept and no report has been acknowledged for.
Unsent(r) == [i \in 1 .. Kept(r) - acked |-> acked + i]

\* SQL left(text, n)
Left(text, n) == SubSeq(text, 1, IF n < Len(text) THEN n ELSE Len(text))

\* output and truncated as AppendTaskOutput and FinishTaskRun write them.
AddOutput(r, text) ==
    /\ output' = [output EXCEPT ![r] = @ \o Left(text, OutputLimit - Len(@))]
    /\ truncated' = [truncated EXCEPT
                        ![r] = @ \/ Dropped(r) \/ Len(output[r]) + Len(text) > OutputLimit]

\* A row either statement matches: WHERE status = 'running'.
Reportable(r) == status[r] = "running" /\ r \notin LockedRows
NotReportable(r) == status[r] # "running"

\* Mutant: the margin is off by one.
Silent_TooSoon(r) == status[r] = "running" /\ age[r] >= asked[r].timeout + LostAfter
\* Mutant: runs that are going are left alone.
Silent_Never(r) == FALSE

\* A run past its pickup window, and one that has been going for longer than
\* the timeout it was asked for with and a margin.
NotPickedUp(r) == status[r] = "queued" /\ age[r] >= PickupWindow
Silent(r) == status[r] = "running" /\ age[r] > asked[r].timeout + LostAfter

\* Mutants: a guess where the agent was never heard; a second chance.
SweptAs_Guess(r) ==
    IF NotPickedUp(r) THEN "expired" ELSE IF Silent(r) THEN "timed_out" ELSE status[r]
SweptAs_Requeue(r) ==
    IF NotPickedUp(r) THEN "expired" ELSE IF Silent(r) THEN "queued" ELSE status[r]

\* What SweepTaskRuns makes of a run.
SweptAs(r) ==
    IF NotPickedUp(r) THEN "expired" ELSE IF Silent(r) THEN "lost" ELSE status[r]

SweepTaskRuns ==
    /\ \E r \in RunIds : SweptAs(r) # status[r]
    /\ \A r \in LockedRows : SweptAs(r) = status[r]
    /\ status' = [r \in RunIds |-> SweptAs(r)]
    /\ age' = [r \in RunIds |-> IF SweptAs(r) = status[r] THEN age[r] ELSE 0]
    /\ UNCHANGED <<known, hostTasks, asked, output, truncated, callVars, agentVars, file,
                   historyVars>>

\* PurgeTaskRuns: the age limit is in days, so any finished run may be past it.
PurgeTaskRuns(r) ==
    /\ status[r] \in Final
    /\ status' = [status EXCEPT ![r] = "deleted"]
    /\ UNCHANGED <<known, hostTasks, asked, age, output, truncated, callVars, agentVars,
                   file, historyVars>>

\* RemoveHost: the runs go with the host (ON DELETE CASCADE).
RemoveHost ==
    /\ known
    /\ LockedRows = {}
    /\ known' = FALSE
    /\ hostTasks' = NoTasks
    /\ status' = [r \in RunIds |-> IF status[r] = "absent" THEN "absent" ELSE "deleted"]
    /\ age' = [r \in RunIds |-> 0]
    /\ UNCHANGED <<asked, output, truncated, callVars, agentVars, file, historyVars>>

AddHost ==
    /\ ~known
    /\ known' = TRUE
    /\ UNCHANGED <<hostTasks, status, asked, age, output, truncated, callVars, agentVars,
                   file, historyVars>>

-----------------------------------------------------------------------------
(* NextTask handlers and the waiters *)

\* The calls that took a channel and may still look at it.  "waiting" begins with
\* the look that found nothing.
Listening(h) == handler[h] \in {"registered", "claiming", "waiting"}

\* Mutant: NextTask takes its channel after it looked, so a call that has looked
\* may not have one yet.
WakeHost_AfterLook(r) ==
    /\ r \in waking
    /\ waking' = waking \ {r}
    /\ \E taken \in SUBSET {h \in Calls : handler[h] = "waiting"} :
          closed' = [h \in Calls |-> closed[h] \/ h \in taken]
    /\ UNCHANGED <<storeVars, handler, locked, tooOld, holding, agentVars, file, historyVars>>

\* wake: close the channel of every call of the host that may still listen.
\* wait hands all of them the same one, and starts a new one after a wake up.
WakeHost(r) ==
    /\ r \in waking
    /\ waking' = waking \ {r}
    /\ closed' = [h \in Calls |-> closed[h] \/ Listening(h)]
    /\ UNCHANGED <<storeVars, handler, locked, tooOld, holding, agentVars, file, historyVars>>

\* ClaimTaskRun, first statement: the running rows are marked lost.  now() is
\* the transaction's start, so which queued rows are too old is settled here.
ClaimBegin(h) ==
    /\ handler[h] \in {"registered", "woken"}
    /\ WithStatus("running") \cap LockedRows = {}
    /\ handler' = [handler EXCEPT ![h] = IF @ = "registered" THEN "claiming" ELSE "reclaiming"]
    /\ locked' = [locked EXCEPT ![h] = WithStatus("running")]
    /\ tooOld' = [tooOld EXCEPT ![h] = {r \in WithStatus("queued") : age[r] >= PickupWindow}]
    /\ UNCHANGED <<storeVars, closed, holding, waking, agentVars, file, historyVars>>

\* Mutant: a run still marked running is handed out again.
Claimable_Again(h) == (WithStatus("queued") \cup WithStatus("running")) \ tooOld[h]

\* The runs the second statement of a claim matches.
Claimable(h) == WithStatus("queued") \ tooOld[h]

\* ClaimTaskRun, second statement and commit: it sees what was committed since
\* the first one.  With nothing to hand out, the first look goes on to wait
\* and the second one answers empty.
ClaimCommit(h) ==
    /\ handler[h] \in {"claiming", "reclaiming"}
    /\ LET claimed == Claimable(h)
       IN  /\ status' = [r \in RunIds |-> IF r \in locked[h] THEN "lost"
                                          ELSE IF r \in claimed THEN "running"
                                          ELSE status[r]]
           /\ age' = [r \in RunIds |-> IF r \in locked[h] \cup claimed THEN 0 ELSE age[r]]
           /\ \/ /\ claimed = {}
                 /\ handler' = [handler EXCEPT ![h] = IF @ = "claiming" THEN "waiting"
                                                      ELSE "replying"]
                 /\ UNCHANGED holding
              \/ /\ \E r \in claimed : holding' = [holding EXCEPT ![h] = r]
                 /\ handler' = [handler EXCEPT ![h] = "replying"]
    /\ locked' = [locked EXCEPT ![h] = {}]
    /\ tooOld' = [tooOld EXCEPT ![h] = {}]
    /\ UNCHANGED <<known, hostTasks, asked, output, truncated, closed, waking, agentVars,
                   file, historyVars>>

\* case <-woken
WokenUp(h) ==
    /\ handler[h] = "waiting"
    /\ closed[h]
    /\ handler' = [handler EXCEPT ![h] = "woken"]
    /\ closed' = [closed EXCEPT ![h] = FALSE]
    /\ UNCHANGED <<storeVars, locked, tooOld, holding, waking, agentVars, file,
                   historyVars>>

\* case <-timer.C: an empty reply
WaitOver(h) ==
    /\ handler[h] = "waiting"
    /\ handler' = [handler EXCEPT ![h] = "replying"]
    /\ UNCHANGED <<storeVars, closed, locked, tooOld, holding, waking, agentVars, file,
                   historyVars>>

HandlerGone(h) ==
    /\ handler' = [handler EXCEPT ![h] = "none"]
    /\ closed' = [closed EXCEPT ![h] = FALSE]
    /\ locked' = [locked EXCEPT ![h] = {}]
    /\ tooOld' = [tooOld EXCEPT ![h] = {}]
    /\ holding' = [holding EXCEPT ![h] = NoRun]

\* The call ends with an error: the request never arrived, the context is done,
\* or a statement failed and the transaction is rolled back.
NextTaskFails(h) ==
    /\ handler[h] \notin {"none", "replying"}
    /\ HandlerGone(h)
    /\ pc' = IF call = h THEN "idle" ELSE pc
    /\ call' = IF call = h THEN NoCall ELSE call
    /\ UNCHANGED <<storeVars, waking, current, working, limit, procAge, acked, reporting,
                   tries, file, historyVars>>

\* The reply arrives at the agent, or at nobody when it has given up the call.
Reply(h) ==
    /\ handler[h] = "replying"
    /\ HandlerGone(h)
    /\ IF call = h
       THEN /\ pc' = IF holding[h] = NoRun THEN "idle" ELSE "assigned"
            /\ current' = holding[h]
            /\ call' = NoCall
       ELSE UNCHANGED <<pc, current, call>>
    /\ UNCHANGED <<storeVars, waking, working, limit, procAge, acked, reporting, tries,
                   file, historyVars>>

\* The collector process restarts.  The store is what survives.
CollectorRestarts ==
    /\ handler' = [h \in Calls |-> "none"]
    /\ closed' = [h \in Calls |-> FALSE]
    /\ locked' = [h \in Calls |-> {}]
    /\ tooOld' = [h \in Calls |-> {}]
    /\ holding' = [h \in Calls |-> NoRun]
    /\ waking' = {}
    /\ pc' = IF pc = "asking" THEN "idle" ELSE pc
    /\ call' = NoCall
    /\ UNCHANGED <<storeVars, current, working, limit, procAge, acked, reporting, tries,
                   file, historyVars>>

-----------------------------------------------------------------------------
(* The agent *)

\* step: an agent whose file lists tasks calls NextTask, and the handler takes
\* its channel before it looks.
AskForTask(h) ==
    /\ pc = "idle"
    /\ file # NoTasks
    /\ handler[h] = "none"
    /\ pc' = "asking"
    /\ call' = h
    /\ handler' = [handler EXCEPT ![h] = "registered"]
    /\ closed' = [closed EXCEPT ![h] = FALSE]
    /\ UNCHANGED <<storeVars, locked, tooOld, holding, waking, current, working, limit,
                   procAge, acked, reporting, tries, file, historyVars>>

\* The deadline passes or the connection breaks.  The collector may notice late.
GiveUpAsking ==
    /\ pc = "asking"
    /\ pc' = "idle"
    /\ call' = NoCall
    /\ UNCHANGED <<storeVars, callVars, current, working, limit, procAge, acked, reporting,
                   tries, file, historyVars>>

\* Mutant: the command is not compared.
Agrees_ByName(r) == file[asked[r].name] # NoOffer

\* What run finds in the tasks file for the assignment.
Agrees(r) ==
    LET task == file[asked[r].name]
    IN  task # NoOffer /\ task.command = asked[r].command

\* run, up to the refusal: the file disagrees, or the command cannot start.
RefuseRun ==
    /\ pc = "assigned"
    /\ working = "free"
    /\ working' = "runner"
    /\ pc' = "ending"
    /\ outcome' = [outcome EXCEPT ![current] = "failed"]
    /\ UNCHANGED <<storeVars, callVars, call, current, limit, procAge, acked, reporting,
                   tries, file, starts, printed>>

\* run, up to cmd.Start: the timeout is the one the file has now.
StartRun ==
    /\ pc = "assigned"
    /\ working = "free"
    /\ Agrees(current)
    /\ working' = "runner"
    /\ pc' = "running"
    /\ starts' = [starts EXCEPT ![current] = @ + 1]
    /\ limit' = file[asked[current].name].timeout
    /\ UNCHANGED <<storeVars, callVars, call, current, procAge, acked, reporting, tries,
                   file, printed, outcome>>

PrintOutput ==
    /\ pc = "running"
    /\ printed[current] < MaxPrinted
    /\ printed' = [printed EXCEPT ![current] = @ + 1]
    /\ UNCHANGED <<storeVars, callVars, agentVars, file, starts, outcome>>

\* The ticker's report: one try with what no report has delivered.  The store
\* may have taken it although the answer does not arrive, so acked lags.
ReportOutput ==
    /\ pc = "running"
    /\ reporting
    /\ Unsent(current) # <<>>
    /\ \/ /\ Reportable(current)
          /\ AddOutput(current, Unsent(current))
          /\ acked' \in {acked, Kept(current)}
          /\ UNCHANGED reporting
       \/ /\ NotReportable(current)
          /\ reporting' = FALSE
          /\ UNCHANGED <<output, truncated, acked>>
    /\ UNCHANGED <<known, hostTasks, status, asked, age, callVars, pc, call, current,
                   working, limit, procAge, tries, file, historyVars>>

\* run returns and lets go of the lock.
RunOver ==
    /\ pc' = "idle"
    /\ working' = "free"
    /\ current' = NoRun
    /\ acked' = 0
    /\ reporting' = TRUE
    /\ tries' = 0

\* The loop of report: try again, or give up after taskEndTries.
AnotherTry ==
    IF tries + 1 < EndTries
    THEN tries' = tries + 1 /\ UNCHANGED <<pc, working, current, acked, reporting>>
    ELSE RunOver

\* run's end, with the ways cmd.Wait can return; a run the collector gave up on
\* ends quietly.
RunEnds(result) ==
    /\ pc = "running"
    /\ result = "timed_out" => procAge >= limit
    /\ outcome' = [outcome EXCEPT ![current] = result]
    /\ limit' = 0
    /\ procAge' = 0
    /\ IF reporting
       THEN pc' = "ending" /\ UNCHANGED <<working, current, acked, reporting, tries>>
       ELSE RunOver
    /\ UNCHANGED <<storeVars, callVars, call, file, starts, printed>>

\* report with taskEndTries: FinishTaskRun took it, with or without the answer
\* arriving, or the run is not going any more, or nothing arrived.
ReportEnd ==
    /\ pc = "ending"
    /\ \/ /\ Reportable(current)
          /\ AddOutput(current, Unsent(current))
          /\ status' = [status EXCEPT ![current] = outcome[current]]
          /\ age' = [age EXCEPT ![current] = 0]
          /\ RunOver \/ AnotherTry
       \/ /\ NotReportable(current)
          /\ RunOver
          /\ UNCHANGED <<status, age, output, truncated>>
       \/ /\ AnotherTry
          /\ UNCHANGED <<status, age, output, truncated>>
    /\ UNCHANGED <<known, hostTasks, asked, callVars, call, limit, procAge, file, historyVars>>

\* A stop or restart ends the task as well, systemd stops all the agent started.
AgentForgets(next) ==
    /\ pc' = next
    /\ call' = NoCall
    /\ current' = NoRun
    /\ working' = "free"
    /\ limit' = 0
    /\ procAge' = 0
    /\ acked' = 0
    /\ reporting' = TRUE
    /\ tries' = 0
    /\ UNCHANGED <<storeVars, callVars, file, historyVars>>

AgentStops == pc # "down" /\ AgentForgets("down")
AgentStarts == pc = "down" /\ AgentForgets("idle")

\* sendPing, as far as tasks go: the list of the file is saved.
Ping ==
    /\ pc # "down"
    /\ known
    /\ hostTasks' = file
    /\ UNCHANGED <<known, status, asked, age, output, truncated, callVars, agentVars, file,
                   historyVars>>

\* Mutant: the update does not wait for the lock.
UpdateBegins_Always ==
    /\ pc # "down"
    /\ working # "updater"
    /\ working' = "updater"
    /\ UNCHANGED <<storeVars, callVars, pc, call, current, limit, procAge, acked, reporting,
                   tries, file, historyVars>>

\* whenIdle(updates.handle): TryLock, then install and restart, or fail.
UpdateBegins ==
    /\ pc # "down"
    /\ working = "free"
    /\ working' = "updater"
    /\ UNCHANGED <<storeVars, callVars, pc, call, current, limit, procAge, acked, reporting,
                   tries, file, historyVars>>

UpdateFails ==
    /\ working = "updater"
    /\ working' = "free"
    /\ UNCHANGED <<storeVars, callVars, pc, call, current, limit, procAge, acked, reporting,
                   tries, file, historyVars>>

UpdateRestarts == working = "updater" /\ AgentForgets("idle")

-----------------------------------------------------------------------------
(* The host's admin and the clock *)

EditFile ==
    /\ file' \in TaskList
    /\ UNCHANGED <<storeVars, callVars, agentVars, historyVars>>

\* Ages stop where no guard tells them apart any more.
OldAge(r) ==
    IF status[r] = "queued" THEN PickupWindow
    ELSE IF status[r] = "running" THEN asked[r].timeout + LostAfter + 1
    ELSE 0

\* The context kills a process that has reached its timeout, so time does not
\* pass with such a process.
Tick ==
    /\ ~(pc = "running" /\ procAge >= limit)
    /\ age' = [r \in RunIds |-> IF age[r] < OldAge(r) THEN age[r] + 1 ELSE age[r]]
    /\ procAge' = IF pc = "running" THEN procAge + 1 ELSE procAge
    /\ UNCHANGED <<known, hostTasks, status, asked, output, truncated, callVars, pc, call,
                   current, working, limit, acked, reporting, tries, file, historyVars>>

-----------------------------------------------------------------------------
CollectorNext ==
    \/ \E r \in RunIds, n \in Names : RequestTaskRun(r, n)
    \/ \E r \in RunIds : WakeHost(r) \/ PurgeTaskRuns(r)
    \/ \E h \in Calls : \/ ClaimBegin(h) \/ ClaimCommit(h) \/ WokenUp(h) \/ WaitOver(h)
                        \/ NextTaskFails(h) \/ Reply(h)
    \/ SweepTaskRuns
    \/ RemoveHost \/ AddHost
    \/ CollectorRestarts

AgentNext ==
    \/ \E h \in Calls : AskForTask(h)
    \/ GiveUpAsking
    \/ StartRun \/ RefuseRun
    \/ PrintOutput \/ ReportOutput
    \/ \E result \in Reported : RunEnds(result)
    \/ ReportEnd
    \/ AgentStops \/ AgentStarts
    \/ Ping
    \/ UpdateBegins \/ UpdateFails \/ UpdateRestarts

Next == CollectorNext \/ AgentNext \/ EditFile \/ Tick

Spec == Init /\ [][Next]_vars

\* Nobody edits the tasks file.
StaticSpec == Init /\ [][CollectorNext \/ AgentNext \/ Tick]_vars

\* The clock runs, a transaction commits or is rolled back, and a task that
\* reached its timeout is killed.  The sweeper ticks every 30 seconds and then
\* queues for the row locks, so claims that come and go do not keep it out.
\* Nothing is assumed of the agent's calls or of the network.
Fairness ==
    /\ WF_vars(Tick)
    /\ SF_vars(SweepTaskRuns)
    /\ \A h \in Calls : WF_vars(ClaimCommit(h))
    /\ WF_vars(RunEnds("timed_out"))

FairSpec == Spec /\ Fairness

-----------------------------------------------------------------------------
(* Properties *)

\* A host has at most one run waiting or going, whatever requests, claims,
\* sweeps and restarts do ("A host runs one task at a time").
OneActive ==
    \A r, s \in RunIds : status[r] \in Active /\ status[s] \in Active => r = s

\* A run's command is started at most once, although claims are repeated,
\* replies get lost and agents restart between claim, start and report.
StartedAtMostOnce == \A r \in RunIds : starts[r] <= 1

\* A run that expired never started ("nothing runs by surprise when a host
\* comes back"), and a run still queued has not been started by anybody.
ExpiredNeverStarted ==
    \A r \in RunIds : status[r] \in {"absent", "queued", "expired"} => starts[r] = 0

\* succeeded, failed and timed_out are what really happened to that run on the
\* host, however often and late the agent reported.
ResultTruthful ==
    \A r \in RunIds : status[r] \in Reported =>
        /\ status[r] = outcome[r]
        /\ status[r] # "failed" => starts[r] = 1

\* A call does not sit waiting while a run it could claim is queued and its
\* wake up is past: NextTask takes its channel before it looks.
NoMissedWake ==
    \A r \in RunIds, h \in Calls :
        (status[r] = "queued" /\ age[r] < PickupWindow /\ r \notin waking)
            => ~(handler[h] = "waiting" /\ ~closed[h])

\* What the agent starts is a run the store handed out, with the command the
\* admin confirmed, whatever happened to the file and the host's list since.
RunsWhatWasConfirmed ==
    [][\A r \in RunIds : starts'[r] > starts[r] =>
          /\ status[r] \notin {"absent", "queued", "expired"}
          /\ file[asked[r].name] # NoOffer
          /\ file[asked[r].name].command = asked[r].command]_vars

IsSubsequence(s, t) ==
    \E f \in [1 .. Len(s) -> 1 .. Len(t)] :
        /\ \A i \in 1 .. Len(s) : t[f[i]] = s[i]
        /\ \A i, j \in 1 .. Len(s) : i < j => f[i] < f[j]

\* A reported run shows everything it printed, in order, or says that it was
\* cut: what a failed report did not deliver goes with a later one.
CompleteOrTruncated ==
    \A r \in RunIds : status[r] \in Reported =>
        \/ truncated[r]
        \/ IsSubsequence([i \in 1 .. printed[r] |-> i], output[r])

\* A run never keeps more output than the limit, resent output included.
OutputBounded == \A r \in RunIds : Len(output[r]) <= OutputLimit

\* An update restarts the agent only while no task is executing or being
\* reported: whenIdle holds the lock run takes.
UpdateSparesTask ==
    [][working = "updater" /\ working' = "free" => pc \notin {"running", "ending"}]_vars

\* The sweeper marks a run lost only when its process is over, because the host
\* went away or the report was lost ("still running well past their timeout because
\* the host went away"), or began more than taskLostAfter after its claim.
SweptRunsAreOver ==
    [][SweepTaskRuns => \A r \in RunIds :
          status[r] = "running" /\ status'[r] = "lost" /\ pc = "running" /\ current = r
              => age[r] - procAge > LostAfter]_vars

\* A claim marks a run lost only when the agent is not executing it ("An agent
\* asks while it is running nothing, so a run still marked as running was lost").
ClaimedOverRunsAreOver ==
    [][\A h \in Calls : ClaimCommit(h) =>
          ~(pc = "running" /\ current \in locked[h])]_vars

Ledger == INSTANCE TaskLedger WITH RunIds <- RunIds, status <- status, starts <- starts

\* The detailed system, with its calls, transactions, retries and restarts,
\* implements the run history of TaskLedger.
ImplementsLedger == Ledger!Spec

\* No run stays queued or running for ever, so a host can always be asked
\* again, even if its agent never comes back.
ActiveRunsEnd == \A r \in RunIds : status[r] \in Active ~> status[r] \notin Active

=============================================================================

--------------------------- MODULE TaskRunsProofs ---------------------------
(***************************************************************************)
(* The invariants of TaskRuns, for every set of runs, calls and tasks, and *)
(* that TaskRuns implements TaskLedger: every step of the collector and of *)
(* the agent is a step of the run history or leaves it alone.  The         *)
(* refinement rests on the inductive invariant: with two runs going at     *)
(* once, one sweep or claim could end both, and without HandedOutFirst and *)
(* AgentConsistent a start or a report could come from an agent the run    *)
(* was never handed to.                                                    *)
(***************************************************************************)
EXTENDS TaskRunsInvariant, TLAPS

-----------------------------------------------------------------------------
(* A part of the state a step leaves alone keeps its type *)

LEMMA StoreKept ==
    ASSUME StoreTypeOK, UNCHANGED storeVars
    PROVE  StoreTypeOK'
BY Zenon DEF StoreTypeOK, storeVars

LEMMA CallsKept ==
    ASSUME CallTypeOK, UNCHANGED callVars
    PROVE  CallTypeOK'
BY Zenon DEF CallTypeOK, callVars

LEMMA AgentKept ==
    ASSUME AgentTypeOK, UNCHANGED <<agentVars, file>>
    PROVE  AgentTypeOK'
BY DEF AgentTypeOK, agentVars

LEMMA HistoryKept ==
    ASSUME HistoryTypeOK, UNCHANGED historyVars
    PROVE  HistoryTypeOK'
BY DEF HistoryTypeOK, historyVars

-----------------------------------------------------------------------------
(* Requests and the NextTask calls: one lemma per action, one step per part   *)
(* of the invariant it can disturb                                            *)

LEMMA RequestTaskRunStep ==
    ASSUME Inv, NEW r \in RunIds, NEW n \in Names, RequestTaskRun(r, n)
    PROVE  Inv'
<1> DEFINE new == [name |-> n, command |-> hostTasks[n].command, timeout |-> hostTasks[n].timeout]
<1>1. new \in Requested
  <2>1. hostTasks[n] \in Offers
    BY Zenon DEF Inv, TypeOK, StoreTypeOK, TaskList, RequestTaskRun
  <2> QED BY <2>1, Zenon DEF Offers, Requested
<1>2. /\ status' = [status EXCEPT ![r] = "queued"]
      /\ asked' = [asked EXCEPT ![r] = new]
      /\ waking' = waking \cup {r}
      /\ status[r] = "absent"
      /\ \A s \in RunIds : status[s] \notin Active
  BY Zenon DEF RequestTaskRun, HostBusy
<1>3. UNCHANGED <<known, hostTasks, age, output, truncated, handler, closed, locked, tooOld,
                  holding, agentVars, file, historyVars>>
  BY Zenon DEF RequestTaskRun
<1> HIDE DEF new
<1>4. (StoreTypeOK /\ CallTypeOK)'
  BY <1>1, <1>2, <1>3, Zenon DEF Inv, TypeOK, StoreTypeOK, CallTypeOK, Statuses, Active
<1>5. (AgentTypeOK /\ HistoryTypeOK)'
  BY <1>3, AgentKept, HistoryKept, Zenon DEF Inv, TypeOK
<1>6. (OneActive /\ AskedFor)'
  BY <1>1, <1>2, Zenon DEF Inv, TypeOK, StoreTypeOK, OneActive, AskedFor
<1>7. HandedOutFirst'
  BY <1>2, <1>3, Zenon DEF Inv, TypeOK, StoreTypeOK, HandedOutFirst, agentVars, historyVars
<1>8. (RepliesCarry /\ LocksHeld /\ LeftOutIsOld)'
  BY <1>2, <1>3 DEF Inv, TypeOK, StoreTypeOK, RepliesCarry, LocksHeld, LeftOutIsOld
<1>9. (OneHolder /\ AgentConsistent)'
  BY <1>2, <1>3 DEF Inv, TypeOK, StoreTypeOK, OneHolder, AgentConsistent, Reported, agentVars,
     historyVars
<1>10. (StartedAtMostOnce /\ ResultTruthful)'
  BY <1>2, <1>3, Zenon DEF Inv, TypeOK, StoreTypeOK, StartedAtMostOnce, ResultTruthful, Reported,
     historyVars
<1>11. (NoMissedWake /\ OutputBounded)'
  BY <1>2, <1>3, Zenon DEF Inv, TypeOK, StoreTypeOK, NoMissedWake, OutputBounded
<1> QED BY <1>4, <1>5, <1>6, <1>7, <1>8, <1>9, <1>10, <1>11, Zenon DEF Inv, TypeOK

LEMMA WakeHostStep ==
    ASSUME Inv, NEW r \in RunIds, WakeHost(r)
    PROVE  Inv'
<1>1. CallTypeOK'
  BY Zenon DEF Inv, TypeOK, CallTypeOK, WakeHost, Listening
<1>2. NoMissedWake'
  BY Zenon DEF Inv, TypeOK, CallTypeOK, NoMissedWake, WakeHost, Listening, storeVars
<1>3. (StoreTypeOK /\ AgentTypeOK /\ HistoryTypeOK)'
  BY StoreKept, AgentKept, HistoryKept, Zenon DEF Inv, TypeOK, WakeHost, Listening
<1>4. (OneActive /\ AskedFor /\ HandedOutFirst /\ RepliesCarry /\ LocksHeld /\ LeftOutIsOld)'
  BY DEF Inv, OneActive, AskedFor, HandedOutFirst, RepliesCarry, LocksHeld, LeftOutIsOld,
     WakeHost, Listening, storeVars, agentVars, historyVars
<1>5. (OneHolder /\ AgentConsistent /\ StartedAtMostOnce /\ ResultTruthful /\ OutputBounded)'
  BY Zenon DEF Inv, OneHolder, AgentConsistent, StartedAtMostOnce, ResultTruthful, OutputBounded,
     WakeHost, Listening, storeVars, agentVars, historyVars
<1> QED BY <1>1, <1>2, <1>3, <1>4, <1>5, Zenon DEF Inv, TypeOK

LEMMA ClaimBeginStep ==
    ASSUME Inv, NEW h \in Calls, ClaimBegin(h)
    PROVE  Inv'
<1>1. /\ locked' = [locked EXCEPT ![h] = WithStatus("running")]
      /\ tooOld' = [tooOld EXCEPT ![h] = {r \in WithStatus("queued") : age[r] >= PickupWindow}]
      /\ handler' \in {[handler EXCEPT ![h] = "claiming"], [handler EXCEPT ![h] = "reclaiming"]}
      /\ handler[h] \in {"registered", "woken"}
  BY Zenon DEF ClaimBegin
<1>0. \A g \in Calls : \A r \in locked[g] : status[r] # "running"
  BY DEF ClaimBegin, LockedRows, WithStatus, Inv, TypeOK, CallTypeOK
<1>2. UNCHANGED <<storeVars, closed, holding, waking, agentVars, file, historyVars>>
  BY Zenon DEF ClaimBegin
<1>3. CallTypeOK'
  BY <1>1, <1>2, Zenon DEF Inv, TypeOK, CallTypeOK, WithStatus, Phases
<1>4. (StoreTypeOK /\ AgentTypeOK /\ HistoryTypeOK)'
  BY <1>2, StoreKept, AgentKept, HistoryKept, Zenon DEF Inv, TypeOK
<1>5. RepliesCarry'
  BY <1>1, <1>2, Zenon DEF Inv, TypeOK, CallTypeOK, RepliesCarry
<1>6. LocksHeld'
  BY <1>0, <1>1, <1>2 DEF Inv, TypeOK, CallTypeOK, LocksHeld, WithStatus, storeVars
<1>7. LeftOutIsOld'
  BY <1>1, <1>2, Zenon DEF Inv, TypeOK, CallTypeOK, LeftOutIsOld, WithStatus, storeVars
<1>8. NoMissedWake'
  BY <1>1, <1>2, Zenon DEF Inv, TypeOK, CallTypeOK, NoMissedWake, storeVars
<1>9. (OneActive /\ AskedFor /\ HandedOutFirst /\ OneHolder)'
  BY <1>2, Zenon DEF Inv, OneActive, AskedFor, HandedOutFirst, OneHolder, storeVars, agentVars,
     historyVars
<1>10. (AgentConsistent /\ StartedAtMostOnce /\ ResultTruthful /\ OutputBounded)'
  BY <1>2, Zenon DEF Inv, AgentConsistent, StartedAtMostOnce, ResultTruthful, OutputBounded, storeVars,
     agentVars, historyVars
<1> QED BY <1>3, <1>4, <1>5, <1>6, <1>7, <1>8, <1>9, <1>10, Zenon DEF Inv, TypeOK

\* A claim hands out a queued run that nobody holds, and gives up on the runs
\* it locked.
LEMMA ClaimCommitStep ==
    ASSUME Inv, NEW h \in Calls, ClaimCommit(h)
    PROVE  Inv'
<1> DEFINE claimed == Claimable(h)
<1>1. /\ status' = [r \in RunIds |-> IF r \in locked[h] THEN "lost"
                                     ELSE IF r \in claimed THEN "running" ELSE status[r]]
      /\ age' = [r \in RunIds |-> IF r \in locked[h] \cup claimed THEN 0 ELSE age[r]]
      /\ locked' = [locked EXCEPT ![h] = {}]
      /\ tooOld' = [tooOld EXCEPT ![h] = {}]
  BY Zenon DEF ClaimCommit
<1>2. \/ /\ claimed = {}
         /\ holding' = holding
         /\ handler' \in {[handler EXCEPT ![h] = "waiting"], [handler EXCEPT ![h] = "replying"]}
      \/ /\ \E r \in claimed : holding' = [holding EXCEPT ![h] = r]
         /\ handler' = [handler EXCEPT ![h] = "replying"]
  BY Zenon DEF ClaimCommit
<1>3. holding[h] = NoRun
  BY Zenon DEF Inv, ClaimCommit, RepliesCarry
<1>4. UNCHANGED <<known, hostTasks, asked, output, truncated, closed, waking, agentVars, file,
                  historyVars>>
  BY Zenon DEF ClaimCommit
<1>5. /\ claimed \subseteq RunIds
      /\ \A r \in RunIds : r \in claimed <=> status[r] = "queued" /\ r \notin tooOld[h]
  BY DEF WithStatus, Claimable
<1> HIDE DEF claimed
<1>6. \A r \in RunIds :
         \/ status'[r] = status[r] /\ age'[r] = age[r] /\ r \notin claimed /\ r \notin locked[h]
         \/ status[r] = "running" /\ status'[r] = "lost" /\ r \in locked[h]
         \/ status[r] = "queued" /\ status'[r] = "running" /\ r \in claimed
  BY <1>1, <1>5, Zenon DEF Inv, LocksHeld
<1>7. StoreTypeOK'
  BY <1>1, <1>4, Zenon DEF Inv, TypeOK, StoreTypeOK, Statuses, Active, Final
<1>8. CallTypeOK'
  BY <1>1, <1>2, <1>4, <1>5 DEF Inv, TypeOK, CallTypeOK, Phases
<1>9. (AgentTypeOK /\ HistoryTypeOK)'
  BY <1>4, AgentKept, HistoryKept, Zenon DEF Inv, TypeOK
<1>10. (OneActive /\ AskedFor)'
  BY <1>4, <1>6, Zenon DEF Inv, OneActive, AskedFor, Active
<1>11. HandedOutFirst'
  BY <1>2, <1>4, <1>5, <1>6 DEF Inv, TypeOK, CallTypeOK, HandedOutFirst, agentVars, historyVars
<1>12. RepliesCarry'
  BY <1>2, <1>3, Zenon DEF Inv, TypeOK, CallTypeOK, RepliesCarry
<1>13. LocksHeld'
  BY <1>1, <1>6 DEF Inv, TypeOK, CallTypeOK, LocksHeld
<1>14. LeftOutIsOld'
  BY <1>1, <1>6, Zenon DEF Inv, TypeOK, CallTypeOK, LeftOutIsOld
<1>15. OneHolder'
  <2>1. \A r \in RunIds : status'[r] \in Reported => status[r] \in Reported
    BY <1>6, Zenon DEF Reported
  <2>2. CASE holding' = holding
    BY <1>4, <2>1, <2>2, Zenon DEF Inv, TypeOK, CallTypeOK, OneHolder, agentVars, historyVars
  <2>3. CASE \E r \in claimed : holding' = [holding EXCEPT ![h] = r]
    <3> PICK r \in claimed : holding' = [holding EXCEPT ![h] = r]
      BY <2>3, Zenon
    <3>1. /\ r \in RunIds /\ status[r] = "queued" /\ starts[r] = 0 /\ current # r
          /\ \A g \in Calls : holding[g] # r
      BY <1>5, Zenon DEF Inv, HandedOutFirst
    <3>2. status'[r] \notin Reported
      BY <2>1, <3>1, Zenon DEF Reported
    <3> QED BY <1>4, <2>1, <3>1, <3>2, Zenon DEF Inv, TypeOK, CallTypeOK, OneHolder, agentVars, historyVars
  <2> QED BY <1>2, <2>2, <2>3, Zenon
<1>16. AgentConsistent'
  BY <1>4, <1>6, Zenon DEF Inv, TypeOK, AgentTypeOK, AgentConsistent, Reported, agentVars, historyVars
<1>17. (StartedAtMostOnce /\ ResultTruthful /\ OutputBounded)'
  BY <1>4, <1>6, Zenon DEF Inv, StartedAtMostOnce, ResultTruthful, OutputBounded, Reported, historyVars
<1>18. NoMissedWake'
  <2> SUFFICES ASSUME NEW r \in RunIds, NEW k \in Calls,
                      status'[r] = "queued", age'[r] < PickupWindow, r \notin waking'
               PROVE  ~(handler'[k] = "waiting" /\ ~closed'[k])
    BY Zenon DEF NoMissedWake
  <2>1. status[r] = "queued" /\ age[r] = age'[r] /\ r \in tooOld[h]
    BY <1>5, <1>6, Zenon
  <2>2. age[r] >= PickupWindow
    BY <2>1, Zenon DEF Inv, LeftOutIsOld
  <2> QED BY <2>1, <2>2, TaskRunsAssumption DEF Inv, TypeOK, StoreTypeOK
<1> QED BY <1>7, <1>8, <1>9, <1>10, <1>11, <1>12, <1>13, <1>14, <1>15, <1>16, <1>17, <1>18, Zenon
   DEF Inv, TypeOK

LEMMA WokenUpStep ==
    ASSUME Inv, NEW h \in Calls, WokenUp(h)
    PROVE  Inv'
<1>0. UNCHANGED <<storeVars, locked, tooOld, holding, agentVars, file, historyVars>>
  BY DEF WokenUp
<1>1. CallTypeOK'
  BY Zenon DEF Inv, TypeOK, CallTypeOK, Phases, WokenUp
<1>2. RepliesCarry'
  BY Zenon DEF Inv, TypeOK, CallTypeOK, RepliesCarry, WokenUp
<1>3. NoMissedWake'
  BY Zenon DEF Inv, TypeOK, CallTypeOK, NoMissedWake, WokenUp, storeVars
<1>4. (StoreTypeOK /\ AgentTypeOK /\ HistoryTypeOK)'
  BY <1>0, StoreKept, AgentKept, HistoryKept, Zenon DEF Inv, TypeOK
<1>5. (OneActive /\ AskedFor /\ HandedOutFirst /\ LocksHeld /\ LeftOutIsOld)'
  BY <1>0, Zenon DEF Inv, OneActive, AskedFor, HandedOutFirst, LocksHeld, LeftOutIsOld, storeVars,
     agentVars, historyVars
<1>6. (OneHolder /\ AgentConsistent /\ StartedAtMostOnce /\ ResultTruthful /\ OutputBounded)'
  BY <1>0, Zenon DEF Inv, OneHolder, AgentConsistent, StartedAtMostOnce, ResultTruthful, OutputBounded,
     storeVars, agentVars, historyVars
<1> QED BY <1>1, <1>2, <1>3, <1>4, <1>5, <1>6, Zenon DEF Inv, TypeOK

LEMMA WaitOverStep ==
    ASSUME Inv, NEW h \in Calls, WaitOver(h)
    PROVE  Inv'
<1>1. CallTypeOK'
  BY Zenon DEF Inv, TypeOK, CallTypeOK, Phases, WaitOver
<1>2. RepliesCarry'
  BY Zenon DEF Inv, TypeOK, CallTypeOK, RepliesCarry, WaitOver
<1>3. NoMissedWake'
  BY Zenon DEF Inv, TypeOK, CallTypeOK, NoMissedWake, WaitOver, storeVars
<1>4. (StoreTypeOK /\ AgentTypeOK /\ HistoryTypeOK)'
  BY StoreKept, AgentKept, HistoryKept, Zenon DEF Inv, TypeOK, WaitOver
<1>5. (OneActive /\ AskedFor /\ HandedOutFirst /\ LocksHeld /\ LeftOutIsOld)'
  BY Zenon DEF Inv, OneActive, AskedFor, HandedOutFirst, LocksHeld, LeftOutIsOld, WaitOver, storeVars,
     agentVars, historyVars
<1>6. (OneHolder /\ AgentConsistent /\ StartedAtMostOnce /\ ResultTruthful /\ OutputBounded)'
  BY Zenon DEF Inv, OneHolder, AgentConsistent, StartedAtMostOnce, ResultTruthful, OutputBounded,
     WaitOver, storeVars, agentVars, historyVars
<1> QED BY <1>1, <1>2, <1>3, <1>4, <1>5, <1>6, Zenon DEF Inv, TypeOK

LEMMA NextTaskFailsStep ==
    ASSUME Inv, NEW h \in Calls, NextTaskFails(h)
    PROVE  Inv'
<1>1. CallTypeOK'
  BY Zenon DEF Inv, TypeOK, CallTypeOK, Phases, NextTaskFails, HandlerGone
<1>2. AgentTypeOK'
  BY Zenon DEF Inv, TypeOK, AgentTypeOK, AgentStates, NextTaskFails, HandlerGone
<1>3. HandedOutFirst'
  BY TaskRunsAssumption DEF Inv, TypeOK, AgentTypeOK, CallTypeOK, HistoryTypeOK, StoreTypeOK,
     HandedOutFirst, NextTaskFails, HandlerGone, storeVars, historyVars
<1>4. RepliesCarry'
  BY Zenon DEF Inv, TypeOK, CallTypeOK, RepliesCarry, NextTaskFails, HandlerGone
<1>5. LocksHeld'
  BY Zenon DEF Inv, TypeOK, CallTypeOK, StoreTypeOK, LocksHeld, NextTaskFails, HandlerGone, storeVars
<1>6. LeftOutIsOld'
  BY Zenon DEF Inv, TypeOK, CallTypeOK, StoreTypeOK, LeftOutIsOld, NextTaskFails, HandlerGone,
     storeVars
<1>7. OneHolder'
  BY TaskRunsAssumption, SMTT(20) DEF Inv, TypeOK, AgentTypeOK, CallTypeOK, HistoryTypeOK, StoreTypeOK,
     OneHolder, NextTaskFails, HandlerGone, storeVars, historyVars
<1>8. AgentConsistent'
  BY TaskRunsAssumption, Zenon DEF Inv, TypeOK, AgentTypeOK, HistoryTypeOK, StoreTypeOK,
     AgentConsistent, NextTaskFails, HandlerGone, storeVars, historyVars
<1>9. NoMissedWake'
  BY Zenon DEF Inv, TypeOK, CallTypeOK, StoreTypeOK, NoMissedWake, NextTaskFails, HandlerGone,
     storeVars
<1>10. (StoreTypeOK /\ HistoryTypeOK)'
  BY StoreKept, HistoryKept, Zenon DEF Inv, TypeOK, NextTaskFails, HandlerGone
<1>11. (OneActive /\ AskedFor)'
  BY Zenon DEF Inv, OneActive, AskedFor, NextTaskFails, HandlerGone, storeVars
<1>12. (StartedAtMostOnce /\ ResultTruthful /\ OutputBounded)'
  BY Zenon DEF Inv, StartedAtMostOnce, ResultTruthful, OutputBounded, NextTaskFails, HandlerGone,
     storeVars, historyVars
<1> QED BY <1>1, <1>2, <1>3, <1>4, <1>5, <1>6, <1>7, <1>8, <1>9, <1>10, <1>11, <1>12, Zenon DEF Inv,
   TypeOK

LEMMA ReplyStep ==
    ASSUME Inv, NEW h \in Calls, Reply(h)
    PROVE  Inv'
<1>1. CallTypeOK'
  BY Zenon DEF Inv, TypeOK, CallTypeOK, Phases, Reply, HandlerGone
<1>2. AgentTypeOK'
  BY Zenon DEF Inv, TypeOK, AgentTypeOK, AgentStates, CallTypeOK, Reply, HandlerGone
<1>3. HandedOutFirst'
  BY TaskRunsAssumption DEF Inv, TypeOK, AgentTypeOK, CallTypeOK, HistoryTypeOK, StoreTypeOK,
     HandedOutFirst, Reply, HandlerGone, storeVars, historyVars
<1>4. RepliesCarry'
  BY Zenon DEF Inv, TypeOK, CallTypeOK, RepliesCarry, Reply, HandlerGone
<1>5. LocksHeld'
  BY Zenon DEF Inv, TypeOK, CallTypeOK, StoreTypeOK, LocksHeld, Reply, HandlerGone, storeVars
<1>6. LeftOutIsOld'
  BY Zenon DEF Inv, TypeOK, CallTypeOK, StoreTypeOK, LeftOutIsOld, Reply, HandlerGone, storeVars
<1>7. OneHolder'
  BY TaskRunsAssumption, SMTT(20) DEF Inv, TypeOK, AgentTypeOK, CallTypeOK, HistoryTypeOK, StoreTypeOK,
     OneHolder, Reply, HandlerGone, storeVars, historyVars
<1>8. AgentConsistent'
  BY TaskRunsAssumption DEF Inv, TypeOK, AgentTypeOK, HistoryTypeOK, StoreTypeOK,
     AgentConsistent, OneHolder, Reply, HandlerGone, storeVars, historyVars
<1>9. NoMissedWake'
  BY Zenon DEF Inv, TypeOK, CallTypeOK, StoreTypeOK, NoMissedWake, Reply, HandlerGone, storeVars
<1>10. (StoreTypeOK /\ HistoryTypeOK)'
  BY StoreKept, HistoryKept, Zenon DEF Inv, TypeOK, Reply, HandlerGone
<1>11. (OneActive /\ AskedFor)'
  BY Zenon DEF Inv, OneActive, AskedFor, Reply, HandlerGone, storeVars
<1>12. (StartedAtMostOnce /\ ResultTruthful /\ OutputBounded)'
  BY Zenon DEF Inv, StartedAtMostOnce, ResultTruthful, OutputBounded, Reply, HandlerGone, storeVars,
     historyVars
<1> QED BY <1>1, <1>2, <1>3, <1>4, <1>5, <1>6, <1>7, <1>8, <1>9, <1>10, <1>11, <1>12, Zenon DEF Inv,
   TypeOK

LEMMA CollectorRestartsStep ==
    ASSUME Inv, CollectorRestarts
    PROVE  Inv'
<1>0. UNCHANGED <<storeVars, historyVars>>
  BY Zenon DEF CollectorRestarts
<1>1. CallTypeOK'
  BY Zenon DEF Inv, TypeOK, CallTypeOK, Phases, CollectorRestarts
<1>2. AgentTypeOK'
  BY Zenon DEF Inv, TypeOK, AgentTypeOK, AgentStates, CollectorRestarts
<1>3. HandedOutFirst'
  BY TaskRunsAssumption, Zenon DEF Inv, TypeOK, AgentTypeOK, CallTypeOK, HistoryTypeOK, StoreTypeOK,
     HandedOutFirst, CollectorRestarts, storeVars, historyVars
<1>4. RepliesCarry'
  BY Zenon DEF Inv, TypeOK, CallTypeOK, RepliesCarry, CollectorRestarts
<1>5. LocksHeld'
  BY Zenon DEF Inv, TypeOK, CallTypeOK, StoreTypeOK, LocksHeld, CollectorRestarts, storeVars
<1>6. LeftOutIsOld'
  BY Zenon DEF Inv, TypeOK, CallTypeOK, StoreTypeOK, LeftOutIsOld, CollectorRestarts, storeVars
<1>7. OneHolder'
  BY TaskRunsAssumption, Zenon DEF Inv, TypeOK, AgentTypeOK, CallTypeOK, HistoryTypeOK, StoreTypeOK,
     OneHolder, CollectorRestarts, storeVars, historyVars
<1>8. AgentConsistent'
  BY TaskRunsAssumption, Zenon DEF Inv, TypeOK, AgentTypeOK, HistoryTypeOK, StoreTypeOK,
     AgentConsistent, CollectorRestarts, storeVars, historyVars
<1>9. NoMissedWake'
  BY Zenon DEF Inv, TypeOK, CallTypeOK, StoreTypeOK, NoMissedWake, CollectorRestarts, storeVars
<1>10. (StoreTypeOK /\ HistoryTypeOK)'
  BY <1>0, StoreKept, HistoryKept DEF Inv, TypeOK
<1>11. (OneActive /\ AskedFor)'
  BY <1>0, Zenon DEF Inv, OneActive, AskedFor, storeVars
<1>12. (StartedAtMostOnce /\ ResultTruthful /\ OutputBounded)'
  BY <1>0, Zenon DEF Inv, StartedAtMostOnce, ResultTruthful, OutputBounded, storeVars, historyVars
<1> QED BY <1>1, <1>2, <1>3, <1>4, <1>5, <1>6, <1>7, <1>8, <1>9, <1>10, <1>11, <1>12, Zenon DEF Inv,
   TypeOK

-----------------------------------------------------------------------------
(* The output a report adds *)

LEMMA AppendBounded ==
    ASSUME NEW s \in Seq(Nat), Len(s) <= OutputLimit, NEW t \in Seq(Nat)
    PROVE  /\ s \o Left(t, OutputLimit - Len(s)) \in Seq(Nat)
           /\ Len(s \o Left(t, OutputLimit - Len(s))) <= OutputLimit
<1> DEFINE n == OutputLimit - Len(s)
<1> DEFINE m == IF n < Len(t) THEN n ELSE Len(t)
<1>1. n \in Nat /\ m \in 0 .. Len(t) /\ m <= n
  BY TaskRunsAssumption
<1>2. SubSeq(t, 1, m) \in Seq(Nat) /\ Len(SubSeq(t, 1, m)) = m
  BY <1>1
<1>3. Left(t, n) = SubSeq(t, 1, m)
  BY DEF Left
<1> HIDE DEF m
<1>4. Len(s \o SubSeq(t, 1, m)) = Len(s) + m
  BY <1>2
<1>5. s \o SubSeq(t, 1, m) \in Seq(Nat)
  BY <1>2
<1>6. Len(s) + m <= OutputLimit
  BY <1>1, TaskRunsAssumption
<1> QED BY <1>3, <1>4, <1>5, <1>6, Zenon

LEMMA UnsentText ==
    ASSUME TypeOK, NEW r \in RunIds
    PROVE  Unsent(r) \in Seq(Nat)
<1> DEFINE n == Kept(r) - acked
<1>1. Kept(r) \in Nat /\ acked \in Nat
  BY TaskRunsAssumption, Zenon DEF TypeOK, AgentTypeOK, HistoryTypeOK, Kept
<1>2. CASE n \in Nat
  <2>1. Unsent(r) \in [1 .. n -> Nat]
    BY <1>1 DEF Unsent
  <2> QED BY <1>2, <2>1
<1>3. CASE n \notin Nat
  <2>1. 1 .. n = 1 .. 0
    BY <1>1, <1>3
  <2>2. Unsent(r) \in [1 .. 0 -> Nat]
    BY <1>1, <2>1 DEF Unsent
  <2> QED BY <2>2
<1> QED BY <1>2, <1>3

LEMMA OutputAdded ==
    ASSUME TypeOK, OutputBounded, NEW r \in RunIds, AddOutput(r, Unsent(r))
    PROVE  /\ output' \in [RunIds -> Seq(Nat)]
           /\ truncated' \in [RunIds -> BOOLEAN]
           /\ OutputBounded'
<1>1. output[r] \in Seq(Nat) /\ Len(output[r]) <= OutputLimit
  BY DEF TypeOK, StoreTypeOK, OutputBounded
<1> DEFINE new == output[r] \o Left(Unsent(r), OutputLimit - Len(output[r]))
<1>2. new \in Seq(Nat) /\ Len(new) <= OutputLimit
  BY <1>1, UnsentText, AppendBounded, Zenon
<1>3. output' = [output EXCEPT ![r] = new]
  BY Zenon DEF AddOutput
<1>4. output' \in [RunIds -> Seq(Nat)] /\ OutputBounded'
  BY <1>2, <1>3, Zenon DEF TypeOK, StoreTypeOK, OutputBounded
<1>5. truncated' \in [RunIds -> BOOLEAN]
  <2> DEFINE b == truncated[r] \/ Dropped(r) \/ Len(output[r]) + Len(Unsent(r)) > OutputLimit
  <2>1. truncated' = [truncated EXCEPT ![r] = b]
    BY Zenon DEF AddOutput
  <2>2. b \in BOOLEAN
    OBVIOUS
  <2> HIDE DEF b
  <2> QED BY <2>1, <2>2 DEF TypeOK, StoreTypeOK
<1> QED BY <1>4, <1>5

-----------------------------------------------------------------------------
(* One lemma per action, one step per part of the invariant it can disturb *)

\* The run in hand has not been started, and from here on it has.
LEMMA StartRunStep ==
    ASSUME Inv, StartRun
    PROVE  Inv'
<1>1. /\ current \in RunIds /\ starts[current] = 0 /\ pc = "assigned"
      /\ status[current] \notin {"absent", "queued", "expired"}
      /\ status[current] \notin Reported
      /\ \A h \in Calls : holding[h] # current
  BY Zenon DEF Inv, TypeOK, AgentTypeOK, CallTypeOK, AgentConsistent, HandedOutFirst, OneHolder, StartRun
<1>2. /\ starts' = [starts EXCEPT ![current] = 1]
      /\ pc' = "running" /\ working' = "runner"
  <2>1. starts' = [starts EXCEPT ![current] = starts[current] + 1]
    BY Zenon DEF StartRun
  <2>2. starts[current] + 1 = 1
    BY <1>1
  <2> QED BY <2>1, <2>2, Zenon DEF StartRun
<1>3. UNCHANGED <<storeVars, callVars, call, current, procAge, acked, reporting, tries, file,
                  printed, outcome>>
  BY Zenon DEF StartRun
<1>4. AgentTypeOK'
  <2>1. asked[current] \in Requested
    BY <1>1, Zenon DEF Inv, AskedFor
  <2>2. file[asked[current].name] \in Offers
    BY <2>1, Zenon DEF Inv, TypeOK, AgentTypeOK, TaskList, Requested, StartRun, Agrees
  <2>3. limit' \in Nat
    BY <2>2, TaskRunsAssumption, Zenon DEF StartRun, Offers
  <2> QED BY <1>2, <1>3, <2>3, Zenon DEF Inv, TypeOK, AgentTypeOK, AgentStates
<1>5. (StoreTypeOK /\ CallTypeOK /\ HistoryTypeOK)'
  BY <1>2, <1>3, Zenon DEF Inv, TypeOK, StoreTypeOK, CallTypeOK, HistoryTypeOK, storeVars, callVars
<1>6. HandedOutFirst'
  BY <1>1, <1>2, <1>3, Zenon DEF Inv, TypeOK, HistoryTypeOK, HandedOutFirst, storeVars, callVars
<1>7. OneHolder'
  BY <1>1, <1>2, <1>3, Zenon DEF Inv, TypeOK, HistoryTypeOK, CallTypeOK, OneHolder, storeVars, callVars
<1>8. AgentConsistent'
  BY <1>1, <1>2, <1>3, Zenon DEF Inv, TypeOK, HistoryTypeOK, AgentConsistent, storeVars
<1>9. (StartedAtMostOnce /\ ResultTruthful)'
  BY <1>1, <1>2, <1>3 DEF Inv, TypeOK, HistoryTypeOK, StartedAtMostOnce, ResultTruthful, storeVars
<1>10. (OneActive /\ AskedFor /\ RepliesCarry /\ LocksHeld /\ LeftOutIsOld)'
  BY <1>3, Zenon DEF Inv, OneActive, AskedFor, RepliesCarry, LocksHeld, LeftOutIsOld, storeVars, callVars
<1>11. (NoMissedWake /\ OutputBounded)'
  BY <1>3, Zenon DEF Inv, NoMissedWake, OutputBounded, storeVars, callVars
<1> QED BY <1>4, <1>5, <1>6, <1>7, <1>8, <1>9, <1>10, <1>11, Zenon DEF Inv, TypeOK

LEMMA ReportOutputStep ==
    ASSUME Inv, ReportOutput
    PROVE  Inv'
<1>1. current \in RunIds
  BY Zenon DEF Inv, TypeOK, AgentTypeOK, AgentConsistent, ReportOutput
<1>2. /\ output' \in [RunIds -> Seq(Nat)] /\ truncated' \in [RunIds -> BOOLEAN]
      /\ OutputBounded'
  BY <1>1, OutputAdded, Zenon DEF Inv, TypeOK, StoreTypeOK, OutputBounded, ReportOutput
<1>3. acked' \in Nat /\ reporting' \in BOOLEAN
  BY <1>1, TaskRunsAssumption, Zenon DEF Inv, TypeOK, AgentTypeOK, HistoryTypeOK, ReportOutput, Kept
<1>4. UNCHANGED <<known, hostTasks, status, asked, age, callVars, pc, call, current,
                  working, limit, procAge, tries, file, historyVars>>
  BY Zenon DEF ReportOutput
<1>5. TypeOK'
  BY <1>2, <1>3, <1>4, Zenon DEF Inv, TypeOK, StoreTypeOK, CallTypeOK, AgentTypeOK, HistoryTypeOK, callVars,
     historyVars
<1>6. (OneActive /\ AskedFor /\ HandedOutFirst /\ RepliesCarry /\ LocksHeld /\ LeftOutIsOld)'
  BY <1>4, Zenon DEF Inv, OneActive, AskedFor, HandedOutFirst, RepliesCarry, LocksHeld, LeftOutIsOld,
     callVars, historyVars
<1>7. (OneHolder /\ AgentConsistent /\ StartedAtMostOnce /\ ResultTruthful /\ NoMissedWake)'
  BY <1>4, Zenon DEF Inv, OneHolder, AgentConsistent, StartedAtMostOnce, ResultTruthful, NoMissedWake,
     callVars, historyVars
<1> QED BY <1>2, <1>5, <1>6, <1>7, Zenon DEF Inv

LEMMA RunEndsStep ==
    ASSUME Inv, NEW result \in Reported, RunEnds(result)
    PROVE  Inv'
<1>1. /\ current \in RunIds /\ starts[current] = 1 /\ pc = "running"
      /\ status[current] \notin Reported
      /\ status[current] \notin {"absent", "queued", "expired"}
  BY Zenon DEF Inv, TypeOK, AgentTypeOK, AgentConsistent, HandedOutFirst, RunEnds
<1>2. \/ pc' = "ending" /\ UNCHANGED <<working, current, acked, reporting, tries>>
      \/ /\ pc' = "idle" /\ working' = "free" /\ current' = NoRun
         /\ acked' = 0 /\ reporting' = TRUE /\ tries' = 0
  BY Zenon DEF RunEnds, RunOver
<1>3. /\ outcome' = [outcome EXCEPT ![current] = result] /\ limit' = 0 /\ procAge' = 0
      /\ UNCHANGED <<storeVars, callVars, call, file, starts, printed>>
  BY DEF RunEnds
<1>4. AgentTypeOK'
  <2>1. reporting' \in BOOLEAN
    BY Zenon, <1>2 DEF Inv, TypeOK, AgentTypeOK
  <2> QED BY <1>2, <1>3, <2>1 DEF Inv, TypeOK, AgentTypeOK, AgentStates
<1>5. (StoreTypeOK /\ CallTypeOK /\ HistoryTypeOK)'
  BY <1>3, Zenon DEF Inv, TypeOK, StoreTypeOK, CallTypeOK, HistoryTypeOK, storeVars, callVars
<1>6. HandedOutFirst'
  BY <1>1, <1>2, <1>3, TaskRunsAssumption DEF Inv, TypeOK, HistoryTypeOK, HandedOutFirst, storeVars,
     callVars
<1>7. OneHolder'
  BY <1>2, <1>3, TaskRunsAssumption, Zenon DEF Inv, TypeOK, CallTypeOK, OneHolder, storeVars, callVars
<1>8. AgentConsistent'
  <2>1. outcome'[current] = result
    BY <1>1, <1>3, Zenon DEF Inv, TypeOK, HistoryTypeOK
  <2> QED BY <1>1, <1>2, <1>3, <2>1, TaskRunsAssumption, Zenon DEF Inv, AgentConsistent, storeVars
<1>9. (StartedAtMostOnce /\ ResultTruthful)'
  BY <1>1, <1>3, Zenon DEF Inv, TypeOK, HistoryTypeOK, StartedAtMostOnce, ResultTruthful, storeVars
<1>10. (OneActive /\ AskedFor /\ RepliesCarry /\ LocksHeld /\ LeftOutIsOld)'
  BY <1>3, Zenon DEF Inv, OneActive, AskedFor, RepliesCarry, LocksHeld, LeftOutIsOld, storeVars, callVars
<1>11. (NoMissedWake /\ OutputBounded)'
  BY <1>3, Zenon DEF Inv, NoMissedWake, OutputBounded, storeVars, callVars
<1> QED BY <1>4, <1>5, <1>6, <1>7, <1>8, <1>9, <1>10, <1>11, Zenon DEF Inv, TypeOK

\* A report of the end takes effect at most once, on the run it is about.
LEMMA ReportEndStep ==
    ASSUME Inv, ReportEnd
    PROVE  Inv'
<1>1. /\ current \in RunIds /\ outcome[current] \in Reported
      /\ outcome[current] # "failed" => starts[current] = 1
  BY Zenon DEF Inv, TypeOK, AgentTypeOK, AgentConsistent, ReportEnd
<1>2. \/ /\ status[current] = "running" /\ \A h \in Calls : current \notin locked[h]
         /\ status' = [status EXCEPT ![current] = outcome[current]]
         /\ age' = [age EXCEPT ![current] = 0]
      \/ UNCHANGED <<status, age>>
  BY Zenon DEF ReportEnd, Reportable, LockedRows
<1>3. /\ output' \in [RunIds -> Seq(Nat)] /\ truncated' \in [RunIds -> BOOLEAN]
      /\ OutputBounded'
  BY <1>1, OutputAdded, Zenon DEF Inv, TypeOK, StoreTypeOK, OutputBounded, ReportEnd
<1>4. \/ /\ pc' = "idle" /\ working' = "free" /\ current' = NoRun
         /\ acked' = 0 /\ reporting' = TRUE /\ tries' = 0
      \/ UNCHANGED <<pc, working, current, acked, reporting>> /\ tries' = tries + 1
  BY Zenon DEF ReportEnd, RunOver, AnotherTry
<1>5. UNCHANGED <<known, hostTasks, asked, callVars, call, limit, procAge, file, historyVars>>
      /\ pc = "ending"
  BY Zenon DEF ReportEnd
<1>6. \A r \in RunIds :
         \/ status'[r] = status[r] /\ age'[r] = age[r]
         \/ /\ r = current /\ status[r] = "running" /\ status'[r] = outcome[r]
            /\ \A h \in Calls : r \notin locked[h]
  BY <1>1, <1>2 DEF Inv, TypeOK, StoreTypeOK
<1>7. StoreTypeOK'
  <2>1. outcome[current] \in Statuses
    BY <1>1 DEF Statuses, Final
  <2>2. status' \in [RunIds -> Statuses] /\ age' \in [RunIds -> Nat]
    <3>1. status \in [RunIds -> Statuses] /\ age \in [RunIds -> Nat]
      BY DEF Inv, TypeOK, StoreTypeOK
    <3>2. CASE UNCHANGED <<status, age>>
      BY <3>1, <3>2
    <3>3. CASE /\ status' = [status EXCEPT ![current] = outcome[current]]
               /\ age' = [age EXCEPT ![current] = 0]
      BY <2>1, <3>1, <3>3, Zenon
    <3> QED BY <1>2, <3>2, <3>3, Zenon
  <2> QED BY <1>3, <1>5, <2>2, Zenon DEF Inv, TypeOK, StoreTypeOK
<1>8. AgentTypeOK'
  <2>1. reporting' \in BOOLEAN
    BY Zenon, <1>4 DEF Inv, TypeOK, AgentTypeOK
  <2> QED BY <1>4, <1>5, <2>1 DEF Inv, TypeOK, AgentTypeOK, AgentStates
<1>9. (CallTypeOK /\ HistoryTypeOK)'
  BY <1>5, CallsKept, HistoryKept, Zenon DEF Inv, TypeOK
<1>10. (OneActive /\ AskedFor)'
  BY <1>1, <1>5, <1>6, Zenon DEF Inv, OneActive, AskedFor, Active, Reported
<1>11. HandedOutFirst'
  <2>1. \A r \in RunIds : status'[r] \in {"absent", "queued", "expired"} => status'[r] = status[r]
    BY <1>1, <1>6, Zenon DEF Reported
  <2> QED BY <1>4, <1>5, <2>1, TaskRunsAssumption DEF Inv, HandedOutFirst, callVars, historyVars
<1>12. (RepliesCarry /\ LocksHeld)'
  BY <1>5, <1>6, Zenon DEF Inv, TypeOK, CallTypeOK, RepliesCarry, LocksHeld, callVars
<1>13. LeftOutIsOld'
  BY <1>1, <1>5, <1>6, SMTT(20) DEF Inv, TypeOK, CallTypeOK, LeftOutIsOld, Reported, callVars
<1>14. OneHolder'
  BY <1>4, <1>5, <1>6, TaskRunsAssumption, Zenon DEF Inv, TypeOK, CallTypeOK, OneHolder, callVars,
     historyVars
<1>15. AgentConsistent'
  BY <1>4, <1>5, Zenon DEF Inv, AgentConsistent, historyVars
<1>16. (StartedAtMostOnce /\ ResultTruthful)'
  BY <1>1, <1>5, <1>6, Zenon DEF Inv, StartedAtMostOnce, ResultTruthful, historyVars
<1>17. NoMissedWake'
  BY <1>1, <1>5, <1>6, Zenon DEF Inv, NoMissedWake, Reported, callVars
<1> QED BY <1>3, <1>7, <1>8, <1>9, <1>10, <1>11, <1>12, <1>13, <1>14, <1>15, <1>16, <1>17, Zenon
   DEF Inv, TypeOK

-----------------------------------------------------------------------------
(* The rest of what the agent does *)

LEMMA RefuseRunStep ==
    ASSUME Inv, RefuseRun
    PROVE  Inv'
<1>1. AgentTypeOK'
  BY Zenon DEF Inv, TypeOK, AgentTypeOK, AgentStates, RefuseRun
<1>2. HistoryTypeOK'
  BY Zenon DEF Inv, TypeOK, HistoryTypeOK, Reported, RefuseRun
<1>3. HandedOutFirst'
  BY Zenon DEF Inv, TypeOK, HistoryTypeOK, HandedOutFirst, AgentConsistent, Reported, RefuseRun,
     storeVars, callVars
<1>4. AgentConsistent'
  BY Zenon DEF Inv, TypeOK, AgentTypeOK, HistoryTypeOK, AgentConsistent, Reported, RefuseRun,
     storeVars
<1>5. ResultTruthful'
  BY Zenon DEF Inv, TypeOK, HistoryTypeOK, ResultTruthful, AgentConsistent, Reported, RefuseRun,
     storeVars
<1>6. (StoreTypeOK /\ CallTypeOK)'
  BY StoreKept, CallsKept, Zenon DEF Inv, TypeOK, RefuseRun
<1>7. (OneActive /\ AskedFor /\ RepliesCarry /\ LocksHeld /\ LeftOutIsOld)'
  BY Zenon DEF Inv, OneActive, AskedFor, RepliesCarry, LocksHeld, LeftOutIsOld, RefuseRun, storeVars,
     callVars
<1>8. (OneHolder /\ StartedAtMostOnce /\ NoMissedWake /\ OutputBounded)'
  BY Zenon DEF Inv, OneHolder, StartedAtMostOnce, NoMissedWake, OutputBounded, RefuseRun, storeVars,
     callVars
<1> QED BY <1>1, <1>2, <1>3, <1>4, <1>5, <1>6, <1>7, <1>8, Zenon DEF Inv, TypeOK

LEMMA PrintOutputStep ==
    ASSUME Inv, PrintOutput
    PROVE  Inv'
<1>1. HistoryTypeOK'
  BY SMTT(20) DEF Inv, TypeOK, HistoryTypeOK, AgentConsistent, AgentTypeOK, PrintOutput
<1>2. (StoreTypeOK /\ CallTypeOK /\ AgentTypeOK)'
  BY StoreKept, CallsKept, AgentKept, Zenon DEF Inv, TypeOK, PrintOutput
<1>3. (OneActive /\ AskedFor /\ HandedOutFirst /\ RepliesCarry /\ LocksHeld /\ LeftOutIsOld)'
  BY DEF Inv, OneActive, AskedFor, HandedOutFirst, RepliesCarry, LocksHeld, LeftOutIsOld,
     PrintOutput, storeVars, callVars, agentVars
<1>4. (OneHolder /\ AgentConsistent /\ StartedAtMostOnce /\ ResultTruthful /\ NoMissedWake /\
      OutputBounded)'
  BY Zenon DEF Inv, OneHolder, AgentConsistent, StartedAtMostOnce, ResultTruthful, NoMissedWake,
     OutputBounded, PrintOutput, storeVars, callVars, agentVars
<1> QED BY <1>1, <1>2, <1>3, <1>4, Zenon DEF Inv, TypeOK

LEMMA AskForTaskStep ==
    ASSUME Inv, NEW h \in Calls, AskForTask(h)
    PROVE  Inv'
<1>1. CallTypeOK'
  BY Zenon DEF Inv, TypeOK, CallTypeOK, Phases, AskForTask
<1>2. AgentTypeOK'
  BY Zenon DEF Inv, TypeOK, AgentTypeOK, AgentStates, AskForTask
<1>3. RepliesCarry'
  BY Zenon DEF Inv, TypeOK, CallTypeOK, RepliesCarry, AskForTask
<1>4. AgentConsistent'
  BY TaskRunsAssumption, Zenon DEF Inv, TypeOK, AgentTypeOK, AgentConsistent, AskForTask, storeVars,
     historyVars
<1>5. NoMissedWake'
  BY Zenon DEF Inv, TypeOK, CallTypeOK, NoMissedWake, AskForTask, storeVars
<1>6. (StoreTypeOK /\ HistoryTypeOK)'
  BY StoreKept, HistoryKept, Zenon DEF Inv, TypeOK, AskForTask
<1>7. (OneActive /\ AskedFor /\ HandedOutFirst /\ LocksHeld /\ LeftOutIsOld)'
  BY Zenon DEF Inv, OneActive, AskedFor, HandedOutFirst, LocksHeld, LeftOutIsOld, AskForTask,
     storeVars, historyVars
<1>8. (OneHolder /\ StartedAtMostOnce /\ ResultTruthful /\ OutputBounded)'
  BY Zenon DEF Inv, OneHolder, StartedAtMostOnce, ResultTruthful, OutputBounded, AskForTask,
     storeVars, historyVars
<1> QED BY <1>1, <1>2, <1>3, <1>4, <1>5, <1>6, <1>7, <1>8, Zenon DEF Inv, TypeOK

\* Steps of the agent or the host that leave the store, the calls and what
\* happened alone, and at most drop the run in hand.
LEMMA AgentOnly ==
    ASSUME Inv, AgentTypeOK', AgentConsistent', UNCHANGED <<storeVars, callVars, historyVars>>,
           current' \in {current, NoRun}
    PROVE  Inv'
<1>1. (OneActive /\ AskedFor /\ RepliesCarry /\ LocksHeld /\ LeftOutIsOld)'
  BY Zenon DEF Inv, OneActive, AskedFor, RepliesCarry, LocksHeld, LeftOutIsOld, storeVars, callVars
<1>2. HandedOutFirst'
  BY TaskRunsAssumption, SMTT(20) DEF Inv, HandedOutFirst, storeVars, callVars, historyVars
<1>3. OneHolder'
  <2>1. \A h \in Calls : holding[h] # NoRun => current' # holding[h]
    BY Zenon DEF Inv, OneHolder
  <2> QED BY <2>1, Zenon DEF Inv, OneHolder, storeVars, callVars, historyVars
<1>4. (StartedAtMostOnce /\ ResultTruthful /\ NoMissedWake /\ OutputBounded)'
  BY Zenon DEF Inv, StartedAtMostOnce, ResultTruthful, NoMissedWake, OutputBounded, storeVars, callVars,
     historyVars
<1>5. TypeOK'
  BY StoreKept, CallsKept, HistoryKept, Zenon DEF Inv, TypeOK
<1> QED BY <1>1, <1>2, <1>3, <1>4, <1>5, Zenon DEF Inv

LEMMA GiveUpAskingStep ==
    ASSUME Inv, GiveUpAsking
    PROVE  Inv'
<1>1. AgentTypeOK'
  BY Zenon DEF Inv, TypeOK, AgentTypeOK, GiveUpAsking, AgentStates, agentVars
<1>2. AgentConsistent' /\ current' \in {current, NoRun}
  BY Zenon DEF Inv, AgentConsistent, GiveUpAsking, storeVars, agentVars, historyVars
<1>3. UNCHANGED <<storeVars, callVars, historyVars>>
  BY DEF GiveUpAsking
<1> QED BY <1>1, <1>2, <1>3, AgentOnly, Zenon

LEMMA AgentStopsStep ==
    ASSUME Inv, AgentStops
    PROVE  Inv'
<1>1. AgentTypeOK'
  BY Zenon DEF Inv, TypeOK, AgentTypeOK, AgentStops, AgentForgets, AgentStates, agentVars
<1>2. AgentConsistent' /\ current' \in {current, NoRun}
  BY Zenon DEF Inv, AgentConsistent, AgentStops, AgentForgets, storeVars, agentVars, historyVars
<1>3. UNCHANGED <<storeVars, callVars, historyVars>>
  BY DEF AgentStops, AgentForgets
<1> QED BY <1>1, <1>2, <1>3, AgentOnly, Zenon

LEMMA AgentStartsStep ==
    ASSUME Inv, AgentStarts
    PROVE  Inv'
<1>1. AgentTypeOK'
  BY Zenon DEF Inv, TypeOK, AgentTypeOK, AgentStarts, AgentForgets, AgentStates, agentVars
<1>2. AgentConsistent' /\ current' \in {current, NoRun}
  BY Zenon DEF Inv, AgentConsistent, AgentStarts, AgentForgets, storeVars, agentVars, historyVars
<1>3. UNCHANGED <<storeVars, callVars, historyVars>>
  BY DEF AgentStarts, AgentForgets
<1> QED BY <1>1, <1>2, <1>3, AgentOnly, Zenon

LEMMA UpdateBeginsStep ==
    ASSUME Inv, UpdateBegins
    PROVE  Inv'
<1>1. AgentTypeOK'
  BY Zenon DEF Inv, TypeOK, AgentTypeOK, UpdateBegins, AgentStates, agentVars
<1>2. AgentConsistent' /\ current' \in {current, NoRun}
  BY Zenon DEF Inv, AgentConsistent, UpdateBegins, storeVars, agentVars, historyVars
<1>3. UNCHANGED <<storeVars, callVars, historyVars>>
  BY DEF UpdateBegins
<1> QED BY <1>1, <1>2, <1>3, AgentOnly, Zenon

LEMMA UpdateFailsStep ==
    ASSUME Inv, UpdateFails
    PROVE  Inv'
<1>1. AgentTypeOK'
  BY Zenon DEF Inv, TypeOK, AgentTypeOK, UpdateFails, AgentStates, agentVars
<1>2. AgentConsistent' /\ current' \in {current, NoRun}
  BY Zenon DEF Inv, AgentConsistent, UpdateFails, storeVars, agentVars, historyVars
<1>3. UNCHANGED <<storeVars, callVars, historyVars>>
  BY DEF UpdateFails
<1> QED BY <1>1, <1>2, <1>3, AgentOnly, Zenon

LEMMA UpdateRestartsStep ==
    ASSUME Inv, UpdateRestarts
    PROVE  Inv'
<1>1. AgentTypeOK'
  BY Zenon DEF Inv, TypeOK, AgentTypeOK, UpdateRestarts, AgentForgets, AgentStates, agentVars
<1>2. AgentConsistent' /\ current' \in {current, NoRun}
  BY Zenon DEF Inv, AgentConsistent, UpdateRestarts, AgentForgets, storeVars, agentVars, historyVars
<1>3. UNCHANGED <<storeVars, callVars, historyVars>>
  BY DEF UpdateRestarts, AgentForgets
<1> QED BY <1>1, <1>2, <1>3, AgentOnly, Zenon

-----------------------------------------------------------------------------
(* The sweeper, the clock, the host and its pings *)

LEMMA SweepTaskRunsStep ==
    ASSUME Inv, SweepTaskRuns
    PROVE  Inv'
<1>1. \A r \in RunIds :
         /\ status'[r] = SweptAs(r)
         /\ age'[r] = IF SweptAs(r) = status[r] THEN age[r] ELSE 0
         /\ SweptAs(r) # status[r] =>
               \/ status[r] = "queued" /\ SweptAs(r) = "expired"
               \/ status[r] = "running" /\ SweptAs(r) = "lost"
  BY Zenon DEF SweepTaskRuns, SweptAs, NotPickedUp, Silent
<1>2. \A h \in Calls : \A r \in locked[h] : SweptAs(r) = status[r]
  BY Zenon DEF SweepTaskRuns, LockedRows
<1>3. UNCHANGED <<known, hostTasks, asked, output, truncated, callVars, agentVars, file,
                  historyVars>>
  BY Zenon DEF SweepTaskRuns
<1>4. TypeOK'
  <2>1. /\ status' = [r \in RunIds |-> status'[r]]
        /\ age' = [r \in RunIds |-> age'[r]]
    BY Zenon DEF SweepTaskRuns
  <2>2. status' \in [RunIds -> Statuses] /\ age' \in [RunIds -> Nat]
    <3>1. \A r \in RunIds : status'[r] \in Statuses
      BY <1>1, Zenon DEF Inv, TypeOK, StoreTypeOK, Statuses, Active, Final
    <3>2. \A r \in RunIds : age'[r] \in Nat
      BY <1>1 DEF Inv, TypeOK, StoreTypeOK
    <3> QED BY <2>1, <3>1, <3>2
  <2>3. StoreTypeOK'
    BY <1>3, <2>2, Zenon DEF Inv, TypeOK, StoreTypeOK
  <2>4. (CallTypeOK /\ AgentTypeOK /\ HistoryTypeOK)'
    BY <1>3, CallsKept, AgentKept, HistoryKept, Zenon DEF Inv, TypeOK
  <2> QED BY <2>3, <2>4 DEF TypeOK
<1>5. (OneActive /\ AskedFor)'
  BY <1>1, <1>3 DEF Inv, OneActive, AskedFor, Active
<1>6. (HandedOutFirst /\ RepliesCarry)'
  BY <1>1, <1>3 DEF Inv, HandedOutFirst, RepliesCarry, callVars, agentVars, historyVars
<1>7. LocksHeld' /\ LeftOutIsOld'
  <2>1. LocksHeld'
    BY <1>1, <1>2, <1>3 DEF Inv, TypeOK, CallTypeOK, LocksHeld, callVars
  <2>2. LeftOutIsOld'
    BY <1>1, <1>3, Zenon DEF Inv, TypeOK, CallTypeOK, LeftOutIsOld, callVars
  <2> QED BY <2>1, <2>2
<1>10. OneHolder'
  BY <1>1, <1>3, Zenon DEF Inv, TypeOK, CallTypeOK, OneHolder, Reported, callVars, agentVars, historyVars
<1>11. AgentConsistent'
  BY <1>1, <1>3, Zenon DEF Inv, TypeOK, AgentTypeOK, AgentConsistent, Reported, agentVars, historyVars
<1>8. (StartedAtMostOnce /\ ResultTruthful /\ OutputBounded)'
  BY <1>1, <1>3, Zenon DEF Inv, StartedAtMostOnce, ResultTruthful, OutputBounded, Reported, historyVars
<1>9. NoMissedWake'
  BY <1>1, <1>3 DEF Inv, NoMissedWake, callVars
<1> QED BY <1>4, <1>5, <1>6, <1>7, <1>8, <1>9, <1>10, <1>11, Zenon DEF Inv

LEMMA TickStep ==
    ASSUME Inv, Tick
    PROVE  Inv'
<1>1. age' \in [RunIds -> Nat] /\ procAge' \in Nat
  BY DEF Inv, TypeOK, StoreTypeOK, AgentTypeOK, Tick
<1>2. \A r \in RunIds : age'[r] >= age[r]
  BY DEF Inv, TypeOK, StoreTypeOK, Tick
<1>3. UNCHANGED <<known, hostTasks, status, asked, output, truncated, callVars, pc, call,
                  current, working, limit, acked, reporting, tries, file, historyVars>>
  BY Zenon DEF Tick
<1>4. (StoreTypeOK /\ AgentTypeOK)'
  BY <1>1, <1>3, Zenon DEF Inv, TypeOK, StoreTypeOK, AgentTypeOK
<1>5. (CallTypeOK /\ HistoryTypeOK)'
  BY <1>3, CallsKept, HistoryKept, Zenon DEF Inv, TypeOK
<1>6. (OneActive /\ AskedFor /\ HandedOutFirst /\ RepliesCarry /\ LocksHeld)'
  BY <1>3, Zenon DEF Inv, OneActive, AskedFor, HandedOutFirst, RepliesCarry, LocksHeld, callVars,
     historyVars
<1>7. (OneHolder /\ AgentConsistent /\ StartedAtMostOnce /\ ResultTruthful /\ OutputBounded)'
  BY <1>3, Zenon DEF Inv, OneHolder, AgentConsistent, StartedAtMostOnce, ResultTruthful, OutputBounded,
     callVars, historyVars
<1>8. LeftOutIsOld'
  <2> SUFFICES ASSUME NEW h \in Calls, NEW r \in tooOld'[h]
               PROVE  status'[r] # "absent" /\ (status'[r] = "queued" => age'[r] >= PickupWindow)
    BY Zenon DEF LeftOutIsOld
  <2>1. r \in RunIds /\ r \in tooOld[h] /\ status'[r] = status[r]
    BY <1>3, Zenon DEF Inv, TypeOK, CallTypeOK, callVars
  <2>2. age[r] \in Nat /\ age'[r] \in Nat /\ age'[r] >= age[r]
    BY <1>1, <1>2, <2>1, Zenon DEF Inv, TypeOK, StoreTypeOK
  <2> QED BY <2>1, <2>2, TaskRunsAssumption DEF Inv, LeftOutIsOld
<1>9. NoMissedWake'
  <2> SUFFICES ASSUME NEW r \in RunIds, NEW h \in Calls,
                      status'[r] = "queued", age'[r] < PickupWindow, r \notin waking'
               PROVE  ~(handler'[h] = "waiting" /\ ~closed'[h])
    BY DEF NoMissedWake
  <2>1. age[r] \in Nat /\ age'[r] \in Nat /\ age'[r] >= age[r]
    BY <1>1, <1>2, Zenon DEF Inv, TypeOK, StoreTypeOK
  <2>2. age[r] < PickupWindow
    <3>1. PickupWindow \in Nat
      BY TaskRunsAssumption
    <3> QED BY <2>1, <3>1
  <2> QED BY <1>3, <2>2, Zenon DEF Inv, NoMissedWake, callVars
<1> QED BY <1>4, <1>5, <1>6, <1>7, <1>8, <1>9, Zenon DEF Inv, TypeOK

LEMMA PurgeTaskRunsStep ==
    ASSUME Inv, NEW r \in RunIds, PurgeTaskRuns(r)
    PROVE  Inv'
<1>1. StoreTypeOK'
  BY Zenon DEF Inv, TypeOK, StoreTypeOK, Final, Reported, Active, Statuses, PurgeTaskRuns
<1>2. OneActive'
  BY Zenon DEF Inv, TypeOK, StoreTypeOK, OneActive, Final, Reported, Active, PurgeTaskRuns
<1>3. AskedFor'
  BY Zenon DEF Inv, TypeOK, StoreTypeOK, AskedFor, Final, Reported, Active, PurgeTaskRuns
<1>4. HandedOutFirst'
  BY Zenon DEF Inv, TypeOK, StoreTypeOK, HandedOutFirst, Final, Reported, Active, PurgeTaskRuns,
     callVars, agentVars, historyVars
<1>5. LocksHeld'
  <2>1. \A q \in RunIds : status[q] = "running" => status'[q] = "running"
    BY Zenon DEF Inv, TypeOK, StoreTypeOK, Final, Reported, PurgeTaskRuns
  <2>2. locked' = locked /\ locked \in [Calls -> SUBSET RunIds]
    BY Zenon DEF Inv, TypeOK, CallTypeOK, PurgeTaskRuns, callVars
  <2> QED BY <2>1, <2>2, Zenon DEF Inv, LocksHeld
<1>6. LeftOutIsOld'
  <2>1. \A q \in RunIds : /\ status[q] # "absent" => status'[q] # "absent"
                          /\ status'[q] = "queued" => status[q] = "queued"
    BY Zenon DEF Inv, TypeOK, StoreTypeOK, PurgeTaskRuns
  <2>2. age' = age /\ tooOld' = tooOld /\ tooOld \in [Calls -> SUBSET RunIds]
    BY Zenon DEF Inv, TypeOK, CallTypeOK, PurgeTaskRuns, callVars
  <2> QED BY <2>1, <2>2, Zenon DEF Inv, LeftOutIsOld
<1>7. OneHolder'
  <2>1. \A q \in RunIds : status'[q] = status[q] \/ status'[q] = "deleted"
    BY Zenon DEF Inv, TypeOK, StoreTypeOK, PurgeTaskRuns
  <2>2. "deleted" \notin Reported
    BY DEF Reported
  <2>3. /\ holding' = holding /\ starts' = starts /\ current' = current
        /\ holding \in [Calls -> RunIds \cup {NoRun}]
    BY Zenon DEF Inv, TypeOK, CallTypeOK, PurgeTaskRuns, callVars, agentVars, historyVars
  <2> QED BY <2>1, <2>2, <2>3, Zenon DEF Inv, OneHolder
<1>8. AgentConsistent'
  <2>1. \A q \in RunIds : status'[q] = status[q] \/ status'[q] = "deleted"
    BY Zenon DEF Inv, TypeOK, StoreTypeOK, PurgeTaskRuns
  <2>2. "deleted" \notin Reported
    BY DEF Reported
  <2>3. UNCHANGED <<agentVars, historyVars>> /\ (current = NoRun \/ current \in RunIds)
    BY Zenon DEF Inv, TypeOK, AgentTypeOK, PurgeTaskRuns
  <2> QED BY <2>1, <2>2, <2>3, Zenon DEF Inv, AgentConsistent, agentVars, historyVars
<1>9. ResultTruthful'
  BY Zenon DEF Inv, TypeOK, StoreTypeOK, ResultTruthful, Final, Reported, Active, PurgeTaskRuns,
     historyVars
<1>10. NoMissedWake'
  BY Zenon DEF Inv, TypeOK, StoreTypeOK, NoMissedWake, Final, Reported, Active, PurgeTaskRuns,
     callVars
<1>11. (CallTypeOK /\ AgentTypeOK /\ HistoryTypeOK)'
  BY CallsKept, AgentKept, HistoryKept, Zenon DEF Inv, TypeOK, PurgeTaskRuns
<1>12. RepliesCarry'
  BY Zenon DEF Inv, RepliesCarry, PurgeTaskRuns, callVars
<1>13. (StartedAtMostOnce /\ OutputBounded)'
  BY Zenon DEF Inv, StartedAtMostOnce, OutputBounded, PurgeTaskRuns, historyVars
<1> QED BY <1>1, <1>2, <1>3, <1>4, <1>5, <1>6, <1>7, <1>8, <1>9, <1>10, <1>11, <1>12, <1>13, Zenon DEF
   Inv, TypeOK

LEMMA RemoveHostStep ==
    ASSUME Inv, RemoveHost
    PROVE  Inv'
<1>1. StoreTypeOK'
  BY Zenon DEF Inv, TypeOK, StoreTypeOK, NoTasks, TaskList, Statuses, Final, RemoveHost
<1>2. OneActive'
  BY Zenon DEF Inv, TypeOK, StoreTypeOK, OneActive, Reported, Active, RemoveHost
<1>3. AskedFor'
  BY Zenon DEF Inv, TypeOK, StoreTypeOK, AskedFor, Reported, Active, RemoveHost
<1>4. HandedOutFirst'
  BY Zenon DEF Inv, TypeOK, AgentTypeOK, CallTypeOK, HistoryTypeOK, StoreTypeOK, HandedOutFirst,
     Reported, Active, RemoveHost, callVars, agentVars, historyVars
<1>5. LocksHeld'
  BY DEF Inv, TypeOK, CallTypeOK, StoreTypeOK, LocksHeld, LockedRows, Reported, Active,
     RemoveHost, callVars
<1>6. LeftOutIsOld'
  BY Zenon DEF Inv, TypeOK, CallTypeOK, StoreTypeOK, LeftOutIsOld, Reported, Active, RemoveHost,
     callVars
<1>7. OneHolder'
  BY Zenon DEF Inv, TypeOK, AgentTypeOK, CallTypeOK, HistoryTypeOK, StoreTypeOK, OneHolder, Reported,
     Active, RemoveHost, callVars, agentVars, historyVars
<1>8. AgentConsistent'
  BY Zenon DEF Inv, TypeOK, AgentTypeOK, HistoryTypeOK, StoreTypeOK, AgentConsistent, Reported,
     Active, RemoveHost, agentVars, historyVars
<1>9. ResultTruthful'
  BY Zenon DEF Inv, TypeOK, HistoryTypeOK, StoreTypeOK, ResultTruthful, Reported, Active, RemoveHost,
     historyVars
<1>10. NoMissedWake'
  BY Zenon DEF Inv, TypeOK, CallTypeOK, StoreTypeOK, NoMissedWake, Reported, Active, RemoveHost,
     callVars
<1>11. (CallTypeOK /\ AgentTypeOK /\ HistoryTypeOK)'
  BY CallsKept, AgentKept, HistoryKept, Zenon DEF Inv, TypeOK, RemoveHost
<1>12. RepliesCarry'
  BY Zenon DEF Inv, RepliesCarry, RemoveHost, callVars
<1>13. (StartedAtMostOnce /\ OutputBounded)'
  BY Zenon DEF Inv, StartedAtMostOnce, OutputBounded, RemoveHost, historyVars
<1> QED BY <1>1, <1>2, <1>3, <1>4, <1>5, <1>6, <1>7, <1>8, <1>9, <1>10, <1>11, <1>12, <1>13, Zenon DEF
   Inv, TypeOK

LEMMA AddHostStep ==
    ASSUME Inv, AddHost
    PROVE  Inv'
<1>1. StoreTypeOK'
  BY Zenon DEF Inv, TypeOK, StoreTypeOK, AddHost
<1>2. (CallTypeOK /\ AgentTypeOK /\ HistoryTypeOK)'
  BY CallsKept, AgentKept, HistoryKept, Zenon DEF Inv, TypeOK, AddHost
<1>3. (OneActive /\ AskedFor /\ HandedOutFirst /\ RepliesCarry /\ LocksHeld /\ LeftOutIsOld)'
  BY DEF Inv, OneActive, AskedFor, HandedOutFirst, RepliesCarry, LocksHeld, LeftOutIsOld,
     AddHost, callVars, agentVars, historyVars
<1>4. (OneHolder /\ AgentConsistent /\ StartedAtMostOnce /\ ResultTruthful /\ NoMissedWake /\
      OutputBounded)'
  BY Zenon DEF Inv, OneHolder, AgentConsistent, StartedAtMostOnce, ResultTruthful, NoMissedWake,
     OutputBounded, AddHost, callVars, agentVars, historyVars
<1> QED BY <1>1, <1>2, <1>3, <1>4, Zenon DEF Inv, TypeOK

LEMMA PingStep ==
    ASSUME Inv, Ping
    PROVE  Inv'
<1>0. UNCHANGED <<known, status, asked, age, output, callVars, agentVars, file, historyVars>>
  BY DEF Ping
<1>1. StoreTypeOK'
  BY Zenon DEF Inv, TypeOK, StoreTypeOK, AgentTypeOK, Ping
<1>2. (CallTypeOK /\ AgentTypeOK /\ HistoryTypeOK)'
  BY <1>0, CallsKept, AgentKept, HistoryKept, Zenon DEF Inv, TypeOK
<1>3. (OneActive /\ AskedFor /\ HandedOutFirst /\ RepliesCarry /\ LocksHeld /\ LeftOutIsOld)'
  BY <1>0 DEF Inv, OneActive, AskedFor, HandedOutFirst, RepliesCarry, LocksHeld, LeftOutIsOld,
     callVars, agentVars, historyVars
<1>4. (OneHolder /\ AgentConsistent /\ StartedAtMostOnce /\ ResultTruthful /\ NoMissedWake /\
      OutputBounded)'
  BY <1>0, Zenon DEF Inv, OneHolder, AgentConsistent, StartedAtMostOnce, ResultTruthful, NoMissedWake,
     OutputBounded, callVars, agentVars, historyVars
<1> QED BY <1>1, <1>2, <1>3, <1>4, Zenon DEF Inv, TypeOK

LEMMA EditFileStep ==
    ASSUME Inv, EditFile
    PROVE  Inv'
<1>1. AgentTypeOK'
  BY Zenon DEF Inv, TypeOK, AgentTypeOK, EditFile, AgentStates, agentVars
<1>2. AgentConsistent' /\ current' \in {current, NoRun}
  BY Zenon DEF Inv, AgentConsistent, EditFile, storeVars, agentVars, historyVars
<1>3. UNCHANGED <<storeVars, callVars, historyVars>>
  BY DEF EditFile
<1> QED BY <1>1, <1>2, <1>3, AgentOnly, Zenon

-----------------------------------------------------------------------------

\* The initial states satisfy the inductive invariant.
THEOREM InitInv == Init => Inv
<1> SUFFICES ASSUME Init PROVE Inv
  OBVIOUS
<1>1. TypeOK
  <2>1. NoTasks \in TaskList
    BY DEF NoTasks, TaskList
  <2>2. output \in [RunIds -> Seq(Nat)]
    BY SMTT(20) DEF Init
  <2> QED BY <2>1, <2>2, Zenon DEF Init, TypeOK, StoreTypeOK, CallTypeOK, AgentTypeOK, HistoryTypeOK,
           Statuses, Phases, AgentStates
<1>2. /\ OneActive /\ AskedFor /\ HandedOutFirst /\ RepliesCarry /\ LocksHeld /\ LeftOutIsOld
      /\ OneHolder /\ AgentConsistent
  BY TaskRunsAssumption, Zenon DEF Init, OneActive, AskedFor, HandedOutFirst, RepliesCarry, LocksHeld,
     LeftOutIsOld, OneHolder, AgentConsistent, Active
<1>3. StartedAtMostOnce /\ ResultTruthful /\ NoMissedWake
  BY DEF Init, StartedAtMostOnce, ResultTruthful, NoMissedWake, Reported
<1>4. OutputBounded
  BY TaskRunsAssumption, SMTT(20) DEF Init, OutputBounded
<1> QED BY <1>1, <1>2, <1>3, <1>4 DEF Inv

\* Every step of the collector, the agent, the host and the clock keeps it.
THEOREM NextInv == Inv /\ [Next]_vars => Inv'
<1> SUFFICES ASSUME Inv, [Next]_vars PROVE Inv'
  OBVIOUS
<1>1. CASE \E r \in RunIds, n \in Names : RequestTaskRun(r, n)
  BY <1>1, RequestTaskRunStep
<1>2. CASE \E r \in RunIds : WakeHost(r)
  BY <1>2, WakeHostStep
<1>3. CASE \E r \in RunIds : PurgeTaskRuns(r)
  BY <1>3, PurgeTaskRunsStep
<1>4. CASE \E h \in Calls : ClaimBegin(h)
  BY <1>4, ClaimBeginStep
<1>5. CASE \E h \in Calls : ClaimCommit(h)
  BY <1>5, ClaimCommitStep
<1>6. CASE \E h \in Calls : WokenUp(h)
  BY <1>6, WokenUpStep
<1>7. CASE \E h \in Calls : WaitOver(h)
  BY <1>7, WaitOverStep
<1>8. CASE \E h \in Calls : NextTaskFails(h)
  BY <1>8, NextTaskFailsStep
<1>9. CASE \E h \in Calls : Reply(h)
  BY <1>9, ReplyStep
<1>10. CASE SweepTaskRuns
  BY <1>10, SweepTaskRunsStep
<1>11. CASE RemoveHost
  BY <1>11, RemoveHostStep
<1>12. CASE AddHost
  BY <1>12, AddHostStep
<1>13. CASE CollectorRestarts
  BY <1>13, CollectorRestartsStep
<1>14. CASE \E h \in Calls : AskForTask(h)
  BY <1>14, AskForTaskStep
<1>15. CASE GiveUpAsking
  BY <1>15, GiveUpAskingStep
<1>16. CASE StartRun
  BY <1>16, StartRunStep
<1>17. CASE RefuseRun
  BY <1>17, RefuseRunStep
<1>18. CASE PrintOutput
  BY <1>18, PrintOutputStep
<1>19. CASE ReportOutput
  BY <1>19, ReportOutputStep
<1>20. CASE \E result \in Reported : RunEnds(result)
  BY <1>20, RunEndsStep
<1>21. CASE ReportEnd
  BY <1>21, ReportEndStep
<1>22. CASE AgentStops
  BY <1>22, AgentStopsStep
<1>23. CASE AgentStarts
  BY <1>23, AgentStartsStep
<1>24. CASE Ping
  BY <1>24, PingStep
<1>25. CASE UpdateBegins
  BY <1>25, UpdateBeginsStep
<1>26. CASE UpdateFails
  BY <1>26, UpdateFailsStep
<1>27. CASE UpdateRestarts
  BY <1>27, UpdateRestartsStep
<1>28. CASE EditFile
  BY <1>28, EditFileStep
<1>29. CASE Tick
  BY <1>29, TickStep
<1>30. CASE UNCHANGED vars
  <2>1. AgentTypeOK'
    BY <1>30, AgentKept DEF Inv, TypeOK, vars
  <2>2. AgentConsistent'
    BY <1>30, Zenon DEF Inv, AgentConsistent, vars, storeVars, agentVars, historyVars
  <2> QED BY <1>30, <2>1, <2>2, AgentOnly, Zenon DEF vars, agentVars
<1> QED BY <1>1, <1>2, <1>3, <1>4, <1>5, <1>6, <1>7, <1>8, <1>9, <1>10, <1>11, <1>12, <1>13,
   <1>14, <1>15, <1>16, <1>17, <1>18, <1>19, <1>20, <1>21, <1>22, <1>23, <1>24, <1>25, <1>26,
   <1>27, <1>28, <1>29, <1>30 DEF Next, CollectorNext, AgentNext

\* The inductive invariant holds in every behaviour.
THEOREM Invariance == Spec => []Inv
BY InitInv, NextInv, PTL DEF Spec

\* TaskRuns is type correct for every choice of runs, calls, tasks and bounds.
THEOREM TypeCorrect == Spec => []TypeOK
BY Invariance, PTL DEF Inv

\* A host has at most one run waiting or going, whatever requests, claims,
\* sweeps, removals and restarts do.
THEOREM OneRunAtATime == Spec => []OneActive
BY Invariance, PTL DEF Inv

\* No run's command is started twice, although agents and collectors restart
\* and calls, replies and reports are lost or repeated at any point.
THEOREM StartedOnce == Spec => []StartedAtMostOnce
BY Invariance, PTL DEF Inv

\* A result the agent reported is what happened to that run.
THEOREM ReportedIsTrue == Spec => []ResultTruthful
BY Invariance, PTL DEF Inv

\* A run that was not handed out in its window is never started.
THEOREM NoLateStart == Spec => []ExpiredNeverStarted
<1>1. Inv => ExpiredNeverStarted
  BY DEF Inv, HandedOutFirst, ExpiredNeverStarted
<1> QED BY <1>1, Invariance, PTL

\* No NextTask call sleeps through a request.
THEOREM NoLostWakeup == Spec => []NoMissedWake
BY Invariance, PTL DEF Inv

\* The stored output stays within its limit.
THEOREM OutputWithinLimit == Spec => []OutputBounded
BY Invariance, PTL DEF Inv

-----------------------------------------------------------------------------
(* What a step never does *)

\* Only StartRun starts a command, and only of the run in hand.
LEMMA OneStarts ==
    ASSUME Inv, [Next]_vars, NEW r \in RunIds, starts'[r] > starts[r]
    PROVE  StartRun /\ r = current
<1>1. starts' # starts
  <2>1. starts[r] \in Nat
    BY Zenon DEF Inv, TypeOK, HistoryTypeOK
  <2> QED BY <2>1
<1>2. ~CollectorNext
  BY <1>1, Zenon DEF CollectorNext, RequestTaskRun, WakeHost, PurgeTaskRuns, ClaimBegin, ClaimCommit, WokenUp,
     WaitOver, NextTaskFails, Reply, SweepTaskRuns, RemoveHost, AddHost, CollectorRestarts, historyVars
<1>3. AgentNext => StartRun
  BY <1>1, Zenon DEF AgentNext, AskForTask, GiveUpAsking, RefuseRun, PrintOutput, ReportOutput, RunEnds, ReportEnd,
     AgentStops, AgentStarts, AgentForgets, Ping, UpdateBegins, UpdateFails, UpdateRestarts, historyVars
<1>4. ~EditFile /\ ~Tick /\ ~UNCHANGED vars
  BY <1>1, Zenon DEF EditFile, Tick, vars, historyVars
<1>5. StartRun
  BY <1>2, <1>3, <1>4, Zenon DEF Next
<1>6. starts' = [starts EXCEPT ![current] = @ + 1] /\ starts \in [RunIds -> Nat]
  BY <1>5, Zenon DEF StartRun, Inv, TypeOK, HistoryTypeOK
<1>7. r = current
  BY <1>6
<1> QED BY <1>5, <1>7

\* A command is started for a run the store handed out, and it is the one the
\* admin confirmed: run compares the assignment with the file it reads.
THEOREM ConfirmedCommandsOnly == Spec => RunsWhatWasConfirmed
<1>1. ASSUME Inv, [Next]_vars, NEW r \in RunIds, starts'[r] > starts[r]
      PROVE  /\ status[r] \notin {"absent", "queued", "expired"}
             /\ file[asked[r].name] # NoOffer
             /\ file[asked[r].name].command = asked[r].command
  <2>1. StartRun /\ r = current
    BY <1>1, OneStarts
  <2>2. status[r] \notin {"absent", "queued", "expired"}
    BY <2>1, <1>1, Zenon DEF Inv, HandedOutFirst
  <2>3. Agrees(r)
    BY <2>1, Zenon DEF StartRun
  <2> QED BY <2>2, <2>3, Zenon DEF Agrees
<1>2. Inv /\ [Next]_vars =>
        [\A r \in RunIds : starts'[r] > starts[r] =>
          /\ status[r] \notin {"absent", "queued", "expired"}
          /\ file[asked[r].name] # NoOffer
          /\ file[asked[r].name].command = asked[r].command]_vars
  BY <1>1, Zenon
<1> QED BY <1>2, Invariance, PTL DEF Spec, RunsWhatWasConfirmed

\* An update restarts the agent, or gives up, only while no task is executing or
\* being reported: run holds the lock for as long as it has a task.
THEOREM UpdatesWaitForTasks == Spec => UpdateSparesTask
<1>1. Inv => (working = "updater" => pc \notin {"running", "ending"})
  BY Zenon DEF Inv, AgentConsistent
<1>2. Inv /\ [Next]_vars =>
        [working = "updater" /\ working' = "free" => pc \notin {"running", "ending"}]_vars
  BY <1>1
<1> QED BY <1>2, Invariance, PTL DEF Spec, UpdateSparesTask

-----------------------------------------------------------------------------
(* Sweeps, while nobody edits the tasks file *)

\* A step of StaticSpec is a step of Spec.
LEMMA StaticInvariance == StaticSpec => []Inv
<1>1. [CollectorNext \/ AgentNext \/ Tick]_vars => [Next]_vars
  BY DEF Next
<1> QED BY <1>1, InitInv, NextInv, PTL DEF StaticSpec

\* The agent's process and its deadline, in the steps that touch neither.
LEMMA ProcessKept ==
    ASSUME Inv, StaticInv, UNCHANGED <<pc, current, limit, procAge, asked, file>>
    PROVE  /\ pc' = "running" => limit' = asked'[current'].timeout /\ procAge' <= limit'
           /\ pc' # "running" => procAge' = 0
BY Zenon DEF StaticInv

\* A run is asked for with what the host's list has, which is what the file has.
LEMMA StaticRequest ==
    ASSUME Inv, StaticInv, NEW r \in RunIds, NEW n \in Names, RequestTaskRun(r, n)
    PROVE  StaticInv'
<1> DEFINE new == [name |-> n, command |-> hostTasks[n].command, timeout |-> hostTasks[n].timeout]
<1>1. /\ status' = [status EXCEPT ![r] = "queued"]
      /\ asked' = [asked EXCEPT ![r] = new]
      /\ status[r] = "absent"
      /\ hostTasks[n] # NoOffer
      /\ UNCHANGED <<hostTasks, file, pc, current, limit, procAge>>
  BY Zenon DEF RequestTaskRun, agentVars
<1>2. new.timeout = file[new.name].timeout
  BY <1>1, Zenon DEF StaticInv
<1> HIDE DEF new
<1>3. status \in [RunIds -> Statuses] /\ asked \in [RunIds -> Requested \cup {NoOffer}]
  BY Zenon DEF Inv, TypeOK, StoreTypeOK
<1>4. \A s \in RunIds : status'[s] # "absent" => asked'[s].timeout = file[asked'[s].name].timeout
  BY <1>1, <1>2, <1>3, Zenon DEF StaticInv
<1>5. pc = "running" => asked'[current] = asked[current]
  <2>1. current # r
    BY <1>1, Zenon DEF Inv, HandedOutFirst
  <2>2. pc = "running" => current \in RunIds
    BY Zenon DEF Inv, TypeOK, AgentTypeOK, AgentConsistent
  <2> QED BY <1>1, <1>3, <2>1, <2>2, Zenon
<1> QED BY <1>1, <1>4, <1>5 DEF StaticInv

\* Steps that may give runs another status, and leave the agent alone.
LEMMA StaticStore ==
    ASSUME Inv, StaticInv, UNCHANGED <<asked, file, pc, current, limit, procAge>>,
           \A n \in Names : hostTasks'[n] \in {NoOffer, hostTasks[n], file[n]},
           \A r \in RunIds : status'[r] # "absent" => status[r] # "absent"
    PROVE  StaticInv'
<1>1. \A n \in Names : hostTasks'[n] \in {NoOffer, file'[n]}
  BY Zenon DEF StaticInv
<1>2. \A r \in RunIds : status'[r] # "absent" => asked'[r].timeout = file'[asked'[r].name].timeout
  BY Zenon DEF StaticInv
<1> QED BY <1>1, <1>2, ProcessKept, Zenon DEF StaticInv

\* Steps after which no process runs.
LEMMA StaticIdle ==
    ASSUME Inv, StaticInv, UNCHANGED <<hostTasks, asked, file>>, pc' # "running", procAge' = 0,
           \A r \in RunIds : status'[r] # "absent" => status[r] # "absent"
    PROVE  StaticInv'
BY Zenon DEF StaticInv

LEMMA StaticCollector ==
    ASSUME Inv, StaticInv, CollectorNext
    PROVE  StaticInv'
<1>1. CASE \E r \in RunIds, n \in Names : RequestTaskRun(r, n)
  BY <1>1, StaticRequest
<1>2. CASE \/ \E r \in RunIds : WakeHost(r)
           \/ \E h \in Calls : ClaimBegin(h) \/ WokenUp(h) \/ WaitOver(h)
           \/ AddHost
  <2>1. UNCHANGED <<hostTasks, status, asked, file, pc, current, limit, procAge>>
    BY <1>2, Zenon DEF WakeHost, ClaimBegin, WokenUp, WaitOver, AddHost, storeVars, agentVars
  <2> QED BY <2>1, StaticStore
<1>3. CASE \/ SweepTaskRuns \/ RemoveHost
           \/ \E r \in RunIds : PurgeTaskRuns(r)
           \/ \E h \in Calls : ClaimCommit(h)
  <2>1. /\ UNCHANGED <<asked, file, pc, current, limit, procAge>>
        /\ hostTasks' \in {hostTasks, NoTasks}
    BY <1>3, Zenon DEF SweepTaskRuns, RemoveHost, PurgeTaskRuns, ClaimCommit, agentVars
  <2>2. \A n \in Names : hostTasks'[n] \in {NoOffer, hostTasks[n], file[n]}
    BY <2>1, Zenon DEF NoTasks
  <2>3. status \in [RunIds -> Statuses]
    BY Zenon DEF Inv, TypeOK, StoreTypeOK
  <2>4. \A h \in Calls : \A r \in locked[h] : status[r] # "absent"
    BY Zenon DEF Inv, LocksHeld
  <2>5. \A r \in RunIds : status'[r] # "absent" => status[r] # "absent"
    <3>1. CASE SweepTaskRuns
      BY <3>1, Zenon DEF SweepTaskRuns, SweptAs, NotPickedUp, Silent
    <3>2. CASE RemoveHost
      BY <3>2, Zenon DEF RemoveHost
    <3>3. CASE \E r \in RunIds : PurgeTaskRuns(r)
      BY <2>3, <3>3, Zenon DEF PurgeTaskRuns, Final, Reported
    <3>4. CASE \E h \in Calls : ClaimCommit(h)
      <4>1. PICK h \in Calls : ClaimCommit(h)
        BY <3>4
      <4>2. status' = [r \in RunIds |-> IF r \in locked[h] THEN "lost"
                                       ELSE IF r \in Claimable(h) THEN "running"
                                       ELSE status[r]]
        BY <4>1, Zenon DEF ClaimCommit
      <4>3. \A r \in Claimable(h) : status[r] = "queued"
        BY Zenon DEF Claimable, WithStatus
      <4>4. \A r \in RunIds : status[r] = "absent" => r \notin locked[h] /\ r \notin Claimable(h)
        BY <2>4, <4>3, Zenon
      <4> QED BY <4>2, <4>4, Zenon
    <3> QED BY <1>3, <3>1, <3>2, <3>3, <3>4, Zenon
  <2> QED BY <2>1, <2>2, <2>5, StaticStore, Zenon
<1>4. CASE \/ CollectorRestarts
           \/ \E h \in Calls : NextTaskFails(h) \/ Reply(h)
  <2>1. UNCHANGED <<hostTasks, status, asked, file, limit, procAge>>
    BY <1>4, Zenon DEF CollectorRestarts, NextTaskFails, Reply, storeVars
  <2>2. CASE UNCHANGED <<pc, current>>
    BY <2>1, <2>2, StaticStore, Zenon
  <2>3. CASE ~UNCHANGED <<pc, current>>
    <3>1. pc = "asking"
      <4>1. \A h \in Calls : h # NoCall
        BY TaskRunsAssumption
      <4> QED BY <1>4, <2>3, <4>1, Zenon DEF CollectorRestarts, NextTaskFails, Reply, Inv, AgentConsistent
    <3>2. pc' # "running" /\ procAge' = 0
      BY <1>4, <2>1, <3>1, Zenon DEF CollectorRestarts, NextTaskFails, Reply, StaticInv
    <3> QED BY <2>1, <3>2, StaticIdle, Zenon
  <2> QED BY <2>2, <2>3
<1> QED BY <1>1, <1>2, <1>3, <1>4, Zenon DEF CollectorNext

LEMMA TimeoutIsNat ==
    ASSUME Inv, NEW r \in RunIds, status[r] # "absent"
    PROVE  asked[r].timeout \in Nat
<1>1. asked[r] \in Requested
  BY Zenon DEF Inv, AskedFor
<1>2. asked[r].timeout \in Timeouts
  BY <1>1, Zenon DEF Requested
<1>3. Timeouts \subseteq Nat \ {0}
  BY TaskRunsAssumption, Zenon
<1> QED BY <1>2, <1>3, Zenon

LEMMA StaticAgent ==
    ASSUME Inv, StaticInv, AgentNext
    PROVE  StaticInv'
<1>1. CASE Ping
  BY <1>1, StaticStore, Zenon DEF Ping, agentVars
<1>2. CASE PrintOutput \/ ReportOutput \/ UpdateBegins \/ UpdateFails
  <2>1. UNCHANGED <<hostTasks, status, asked, file, pc, current, limit, procAge>>
    BY <1>2, Zenon DEF PrintOutput, ReportOutput, UpdateBegins, UpdateFails, storeVars, agentVars
  <2> QED BY <2>1, StaticStore, Zenon
<1>3. CASE \/ \E h \in Calls : AskForTask(h)
           \/ GiveUpAsking \/ RefuseRun
  <2>1. UNCHANGED <<hostTasks, status, asked, file>> /\ pc' # "running" /\ procAge' = 0
    BY <1>3, Zenon DEF AskForTask, GiveUpAsking, RefuseRun, storeVars, StaticInv
  <2> QED BY <2>1, StaticIdle, Zenon
<1>4. CASE \/ AgentStops \/ AgentStarts \/ UpdateRestarts
           \/ \E result \in Reported : RunEnds(result)
  <2>1. UNCHANGED <<hostTasks, status, asked, file>> /\ pc' # "running" /\ procAge' = 0
    BY <1>4, Zenon DEF AgentStops, AgentStarts, UpdateRestarts, AgentForgets, RunEnds, RunOver, storeVars
  <2> QED BY <2>1, StaticIdle, Zenon
<1>5. CASE ReportEnd
  <2>1. UNCHANGED <<hostTasks, asked, file>> /\ pc' # "running" /\ procAge' = 0
    BY <1>5, Zenon DEF ReportEnd, AnotherTry, RunOver, StaticInv
  <2>2. status \in [RunIds -> Statuses]
    BY Zenon DEF Inv, TypeOK, StoreTypeOK
  <2>3. \A r \in RunIds : status'[r] # "absent" => status[r] # "absent"
    BY <1>5, <2>2, Zenon DEF ReportEnd, Reportable
  <2> QED BY <2>1, <2>3, StaticIdle, Zenon
<1>6. CASE StartRun
  <2>1. /\ UNCHANGED <<hostTasks, status, asked, file, current, procAge>>
        /\ pc = "assigned" /\ pc' = "running"
        /\ limit' = file[asked[current].name].timeout
    BY <1>6, Zenon DEF StartRun, storeVars
  <2>2. current \in RunIds /\ status[current] # "absent"
    BY <2>1, Zenon DEF Inv, TypeOK, AgentTypeOK, AgentConsistent, HandedOutFirst
  <2>3. limit' = asked[current].timeout /\ procAge = 0
    BY <2>1, <2>2, Zenon DEF StaticInv
  <2>4. asked[current].timeout \in Nat
    BY <2>2, TimeoutIsNat
  <2> QED BY <2>1, <2>3, <2>4 DEF StaticInv
<1> QED BY <1>1, <1>2, <1>3, <1>4, <1>5, <1>6, Zenon DEF AgentNext

\* Time does not pass with a process that has reached its deadline.
LEMMA StaticTick ==
    ASSUME Inv, StaticInv, Tick
    PROVE  StaticInv'
<1>1. /\ UNCHANGED <<hostTasks, status, asked, file, pc, current, limit>>
      /\ ~(pc = "running" /\ procAge >= limit)
      /\ procAge' = IF pc = "running" THEN procAge + 1 ELSE procAge
  BY Zenon DEF Tick
<1>2. limit \in Nat /\ procAge \in Nat
  BY Zenon DEF Inv, TypeOK, AgentTypeOK
<1> QED BY <1>1, <1>2 DEF StaticInv

\* While nobody edits the tasks file, a sweep calls a run lost only when its
\* process is over, or began more than taskLostAfter after the claim.
THEOREM SweepsSpareRuns == StaticSpec => SweptRunsAreOver
<1>1. Init => StaticInv
  BY DEF Init, NoTasks, StaticInv
<1>2. Inv /\ StaticInv /\ [CollectorNext \/ AgentNext \/ Tick]_vars => StaticInv'
  <2>1. ASSUME Inv, StaticInv, UNCHANGED vars PROVE StaticInv'
    BY <2>1, StaticStore, Zenon DEF vars, storeVars, agentVars
  <2> QED BY <2>1, StaticCollector, StaticAgent, StaticTick
<1>3. ASSUME Inv, StaticInv, SweepTaskRuns, NEW r \in RunIds,
             status[r] = "running", status'[r] = "lost", pc = "running", current = r
      PROVE  age[r] - procAge > LostAfter
  <2>1. age[r] > asked[r].timeout + LostAfter
    BY <1>3, Zenon DEF SweepTaskRuns, SweptAs, Silent, NotPickedUp
  <2>2. procAge <= asked[r].timeout
    BY <1>3, Zenon DEF StaticInv
  <2>3. age[r] \in Nat /\ procAge \in Nat /\ asked[r].timeout \in Nat /\ LostAfter \in Nat
    <3>1. age[r] \in Nat /\ procAge \in Nat
      BY <1>3, Zenon DEF Inv, TypeOK, StoreTypeOK, AgentTypeOK
    <3>2. asked[r].timeout \in Nat
      BY <1>3, TimeoutIsNat
    <3> QED BY <3>1, <3>2, TaskRunsAssumption, Zenon
  <2> QED BY <2>1, <2>2, <2>3
<1>4. Inv /\ StaticInv =>
        [SweepTaskRuns => \A r \in RunIds :
          status[r] = "running" /\ status'[r] = "lost" /\ pc = "running" /\ current = r
              => age[r] - procAge > LostAfter]_vars
  BY <1>3
<1> QED BY <1>1, <1>2, <1>4, StaticInvariance, PTL DEF StaticSpec, SweptRunsAreOver

-----------------------------------------------------------------------------
(* What a reported run shows *)

Firsts(n) == [i \in 1 .. n |-> i]

\* f takes the elements of s to places of t, in order.
Places(f, s, t) ==
    /\ f \in [1 .. Len(s) -> 1 .. Len(t)]
    /\ \A i \in 1 .. Len(s) : t[f[i]] = s[i]
    /\ \A i, j \in 1 .. Len(s) : i < j => f[i] < f[j]

LEMMA PlacesSuffice ==
    ASSUME NEW f, NEW s, NEW t, Places(f, s, t)
    PROVE  IsSubsequence(s, t)
BY Zenon DEF Places, IsSubsequence

LEMMA FirstsSequence ==
    ASSUME NEW n \in Nat
    PROVE  /\ Firsts(n) \in Seq(Nat) /\ Len(Firsts(n)) = n
           /\ \A i \in 1 .. n : Firsts(n)[i] = i
BY DEF Firsts

LEMMA Joined ==
    ASSUME NEW t \in Seq(Nat), NEW u \in Seq(Nat)
    PROVE  /\ Len(t) \in Nat /\ Len(u) \in Nat
           /\ t \o u \in Seq(Nat) /\ Len(t \o u) = Len(t) + Len(u)
           /\ \A i \in 1 .. Len(t) : (t \o u)[i] = t[i]
           /\ \A i \in 1 .. Len(u) : (t \o u)[Len(t) + i] = u[i]
OBVIOUS

\* A text that goes on where the row's output left off.
LEMMA OutputGrows ==
    ASSUME NEW t \in Seq(Nat), NEW a \in Nat, NEW n \in Nat, NEW u \in Seq(Nat),
           Len(u) = n, \A i \in 1 .. n : u[i] = a + i,
           IsSubsequence(Firsts(a), t)
    PROVE  IsSubsequence(Firsts(a), t \o u) /\ IsSubsequence(Firsts(a + n), t \o u)
<1>1. PICK v : v = t \o u
  BY Zenon
<1>2. /\ v \in Seq(Nat) /\ Len(v) = Len(t) + n
      /\ \A i \in 1 .. Len(t) : v[i] = t[i]
      /\ \A i \in 1 .. n : v[Len(t) + i] = a + i
  BY <1>1, Joined, Zenon
<1>3. PICK k : k = Len(t) /\ k \in Nat
  BY Joined, Zenon
<1>4. PICK f : /\ f \in [1 .. a -> 1 .. k]
               /\ \A i \in 1 .. a : t[f[i]] = i
               /\ \A i, j \in 1 .. a : i < j => f[i] < f[j]
  <2>1. PICK f : Places(f, Firsts(a), t)
    BY Zenon DEF Places, IsSubsequence
  <2> QED BY <1>3, <2>1, FirstsSequence, Zenon DEF Places
<1>5. \A i \in 1 .. a : f[i] \in 1 .. k /\ v[f[i]] = i
  BY <1>2, <1>3, <1>4, Zenon
<1>6. IsSubsequence(Firsts(a), v)
  <2>1. f \in [1 .. a -> 1 .. Len(v)]
    <3>1. \A i \in 1 .. a : f[i] \in 1 .. Len(v)
      BY <1>2, <1>3, <1>5
    <3> QED BY <1>4, <3>1, Zenon
  <2>2. Places(f, Firsts(a), v)
    BY <1>4, <1>5, <2>1, FirstsSequence, Zenon DEF Places
  <2> QED BY <2>2, PlacesSuffice, Zenon
<1>7. IsSubsequence(Firsts(a + n), v)
  <2>1. PICK b : b = a + n /\ b \in Nat
    OBVIOUS
  <2>2. PICK g : g = [i \in 1 .. b |-> IF i <= a THEN f[i] ELSE k + (i - a)]
    BY Zenon
  <2>3. \A i \in 1 .. b : g[i] = IF i <= a THEN f[i] ELSE k + (i - a)
    BY <2>2
  <2>4. ASSUME NEW i \in 1 .. b
        PROVE  g[i] \in 1 .. Len(v) /\ v[g[i]] = i /\ (i <= a => g[i] <= k) /\ (i > a => g[i] = k + (i - a))
    <3>1. CASE i <= a
      <4>1. i \in 1 .. a /\ g[i] = f[i]
        BY <2>1, <2>3, <3>1
      <4>2. f[i] \in 1 .. k /\ v[f[i]] = i
        BY <1>5, <4>1, Zenon
      <4> QED BY <1>2, <1>3, <2>1, <3>1, <4>1, <4>2
    <3>2. CASE i > a
      <4>1. i - a \in 1 .. n /\ g[i] = k + (i - a) /\ a + (i - a) = i
        BY <2>1, <2>3, <3>2
      <4>2. v[k + (i - a)] = i
        BY <1>2, <1>3, <4>1, Zenon
      <4>3. k + (i - a) \in 1 .. Len(v)
        BY <1>2, <1>3, <2>1, <4>1
      <4> QED BY <2>1, <3>2, <4>1, <4>2, <4>3
    <3> QED BY <2>1, <3>1, <3>2
  <2>5. ASSUME NEW i \in 1 .. b, NEW j \in 1 .. b, i < j
        PROVE  g[i] < g[j]
    <3>1. CASE j <= a
      <4>1. i \in 1 .. a /\ j \in 1 .. a /\ g[i] = f[i] /\ g[j] = f[j]
        BY <2>1, <2>3, <2>5, <3>1
      <4> QED BY <1>4, <2>5, <4>1, Zenon
    <3>2. CASE j > a
      <4>1. g[j] = k + (j - a) /\ g[i] \in 1 .. Len(v)
        BY <2>4, <3>2, Zenon
      <4>2. CASE i <= a
        <5>1. g[i] <= k
          BY <2>4, <4>2, Zenon
        <5> QED BY <1>2, <1>3, <2>1, <3>2, <4>1, <5>1
      <4>3. CASE i > a
        <5>1. g[i] = k + (i - a)
          BY <2>4, <4>3, Zenon
        <5> QED BY <1>3, <2>1, <2>5, <4>1, <5>1
      <4> QED BY <2>1, <4>2, <4>3
    <3> QED BY <2>1, <3>1, <3>2
  <2>6. g \in [1 .. b -> 1 .. Len(v)]
    BY <2>2, <2>4
  <2>7. Places(g, Firsts(b), v)
    BY <2>1, <2>4, <2>5, <2>6, FirstsSequence, Zenon DEF Places
  <2> QED BY <2>1, <2>7, PlacesSuffice, Zenon
<1> QED BY <1>1, <1>6, <1>7, Zenon

\* Nothing has been delivered of a run nothing was acknowledged for.
LEMMA NothingYet ==
    ASSUME NEW r
    PROVE  Delivered(r, 0)
<1>1. 1 .. 0 = {} /\ Len(Firsts(0)) = 0
  BY FirstsSequence
<1>2. PICK f : f = [i \in {} |-> i]
  BY Zenon
<1>3. Places(f, Firsts(0), output[r])
  BY <1>1, <1>2, Zenon DEF Places
<1> QED BY <1>3, PlacesSuffice, Zenon DEF Delivered, Firsts

\* Steps that leave the output of the runs alone and report none.
LEMMA OutputKept ==
    ASSUME OutputInv, UNCHANGED <<output, truncated, printed>>,
           \A r \in RunIds : status'[r] \in Reported => status[r] \in Reported,
           \/ /\ UNCHANGED <<acked, current>>
              /\ pc' \in {"running", "ending"} <=> pc \in {"running", "ending"}
           \/ acked' = 0 /\ pc' \notin {"running", "ending"}
    PROVE  OutputInv'
<1>1. CompleteOrTruncated'
  BY Zenon DEF OutputInv, CompleteOrTruncated
<1>2. /\ pc' \in {"running", "ending"} => acked' <= Kept(current)' /\ Delivered(current, acked)'
      /\ pc' \notin {"running", "ending"} => acked' = 0
  BY Zenon DEF OutputInv, Kept, Delivered
<1> QED BY <1>1, <1>2, Zenon DEF OutputInv

LEMMA CollectorKeepsOutput ==
    ASSUME Inv, OutputInv, CollectorNext
    PROVE  OutputInv'
<1>1. UNCHANGED <<output, truncated, printed, acked>>
  BY Zenon DEF CollectorNext, RequestTaskRun, WakeHost, PurgeTaskRuns, ClaimBegin, ClaimCommit, WokenUp,
     WaitOver, NextTaskFails, Reply, SweepTaskRuns, RemoveHost, AddHost, CollectorRestarts,
     storeVars, agentVars, historyVars
<1>2. status \in [RunIds -> Statuses]
  BY Zenon DEF Inv, TypeOK, StoreTypeOK
<1>3. \A r \in RunIds : status'[r] \in Reported => status[r] \in Reported
  <2>1. CASE \E r \in RunIds, n \in Names : RequestTaskRun(r, n)
    BY <1>2, <2>1, Zenon DEF RequestTaskRun, Reported
  <2>2. CASE \E r \in RunIds : PurgeTaskRuns(r)
    BY <1>2, <2>2, Zenon DEF PurgeTaskRuns, Reported
  <2>3. CASE SweepTaskRuns
    BY <2>3, Zenon DEF SweepTaskRuns, SweptAs, Reported
  <2>4. CASE RemoveHost
    BY <2>4, Zenon DEF RemoveHost, Reported
  <2>5. CASE \E h \in Calls : ClaimCommit(h)
    BY <2>5, Zenon DEF ClaimCommit, Reported
  <2>6. CASE \/ \E r \in RunIds : WakeHost(r)
             \/ \E h \in Calls : ClaimBegin(h) \/ WokenUp(h) \/ WaitOver(h) \/ NextTaskFails(h) \/ Reply(h)
             \/ AddHost \/ CollectorRestarts
    BY <2>6, Zenon DEF WakeHost, ClaimBegin, WokenUp, WaitOver, NextTaskFails, Reply, AddHost,
       CollectorRestarts, storeVars
  <2> QED BY <2>1, <2>2, <2>3, <2>4, <2>5, <2>6, Zenon DEF CollectorNext
<1>4. CASE UNCHANGED <<pc, current>>
  BY <1>1, <1>3, <1>4, OutputKept, Zenon
<1>5. CASE ~UNCHANGED <<pc, current>>
  <2>1. \/ CollectorRestarts
        \/ \E h \in Calls : NextTaskFails(h) \/ Reply(h)
    BY <1>5, Zenon DEF CollectorNext, RequestTaskRun, WakeHost, PurgeTaskRuns, ClaimBegin, ClaimCommit,
       WokenUp, WaitOver, SweepTaskRuns, RemoveHost, AddHost, agentVars
  <2>2. pc = "asking"
    <3>1. \A h \in Calls : h # NoCall
      BY TaskRunsAssumption
    <3> QED BY <1>5, <2>1, <3>1, Zenon DEF CollectorRestarts, NextTaskFails, Reply, Inv, AgentConsistent
  <2>3. pc' \notin {"running", "ending"} /\ acked' = 0
    BY <1>1, <2>1, <2>2, Zenon DEF CollectorRestarts, NextTaskFails, Reply, OutputInv
  <2> QED BY <1>1, <1>3, <2>3, OutputKept, Zenon
<1> QED BY <1>4, <1>5

\* left() of a text no longer than what it may keep.
LEMMA LeftAll ==
    ASSUME NEW t \in Seq(Nat), NEW n \in Nat, Len(t) <= n
    PROVE  Left(t, n) = t
<1>1. Left(t, n) = SubSeq(t, 1, Len(t))
  BY DEF Left
<1>2. SubSeq(t, 1, Len(t)) = t
  OBVIOUS
<1> QED BY <1>1, <1>2

LEMMA UnsentIs ==
    ASSUME Inv, NEW r \in RunIds, acked <= Kept(r)
    PROVE  /\ Kept(r) \in Nat /\ acked \in Nat /\ Kept(r) - acked \in Nat
           /\ Unsent(r) \in Seq(Nat) /\ Len(Unsent(r)) = Kept(r) - acked
           /\ \A i \in 1 .. (Kept(r) - acked) : Unsent(r)[i] = acked + i
<1>1. printed[r] \in Nat /\ OutputLimit \in Nat /\ acked \in Nat
  BY TaskRunsAssumption, Zenon DEF Inv, TypeOK, AgentTypeOK, HistoryTypeOK
<1>2. Kept(r) \in Nat
  BY <1>1, Zenon DEF Kept
<1>3. PICK n : n = Kept(r) - acked /\ n \in Nat
  BY <1>1, <1>2
<1>4. Unsent(r) = [i \in 1 .. n |-> acked + i]
  BY <1>3, Zenon DEF Unsent
<1>5. PICK u : u = Unsent(r)
  BY Zenon
<1>6. u \in Seq(Nat) /\ Len(u) = n /\ \A i \in 1 .. n : u[i] = acked + i
  BY <1>1, <1>3, <1>4, <1>5
<1> QED BY <1>1, <1>2, <1>3, <1>5, <1>6, Zenon

\* A report the store took: the row has all the agent kept of the run, or says it was cut.
LEMMA ReportDelivers ==
    ASSUME Inv, NEW r \in RunIds, acked <= Kept(r), Delivered(r, acked), AddOutput(r, Unsent(r))
    PROVE  \/ truncated'[r]
           \/ /\ IsSubsequence(Firsts(acked), output'[r])
              /\ IsSubsequence(Firsts(Kept(r)), output'[r])
              /\ Kept(r) = printed[r]
<1> SUFFICES ASSUME ~truncated'[r]
             PROVE  /\ IsSubsequence(Firsts(acked), output'[r])
                    /\ IsSubsequence(Firsts(Kept(r)), output'[r])
                    /\ Kept(r) = printed[r]
  BY Zenon
<1>1. /\ output \in [RunIds -> Seq(Nat)] /\ truncated \in [RunIds -> BOOLEAN]
      /\ printed[r] \in Nat /\ OutputLimit \in Nat /\ Len(output[r]) <= OutputLimit
  BY TaskRunsAssumption, Zenon DEF Inv, TypeOK, StoreTypeOK, HistoryTypeOK, OutputBounded
<1>2. ~truncated[r] /\ ~Dropped(r) /\ ~(Len(output[r]) + Len(Unsent(r)) > OutputLimit)
  BY <1>1, Zenon DEF AddOutput
<1>3. Kept(r) = printed[r]
  BY <1>1, <1>2 DEF Dropped, Kept
<1>4. PICK n : n = Kept(r) - acked
  BY Zenon
<1>5. PICK u : u = Unsent(r)
  BY Zenon
<1>6. /\ Kept(r) \in Nat /\ acked \in Nat /\ n \in Nat /\ u \in Seq(Nat) /\ Len(u) = n
      /\ \A i \in 1 .. n : u[i] = acked + i
  BY <1>4, <1>5, UnsentIs, Zenon
<1>7. output[r] \in Seq(Nat) /\ Len(output[r]) \in Nat
  BY <1>1, Joined, Zenon
<1>8. OutputLimit - Len(output[r]) \in Nat /\ n <= OutputLimit - Len(output[r])
  <2>1. ~(Len(output[r]) + n > OutputLimit)
    BY <1>2, <1>5, <1>6, Zenon
  <2> QED BY <1>1, <1>6, <1>7, <2>1
<1>9. Left(u, OutputLimit - Len(output[r])) = u
  BY <1>6, <1>8, LeftAll, Zenon
<1>10. output'[r] = output[r] \o u
  BY <1>1, <1>5, <1>9, Zenon DEF AddOutput
<1>11. IsSubsequence(Firsts(acked), output[r])
  BY <1>2, Zenon DEF Delivered, Firsts
<1>12. IsSubsequence(Firsts(acked), output[r] \o u) /\ IsSubsequence(Firsts(acked + n), output[r] \o u)
  BY <1>6, <1>7, <1>11, OutputGrows, Zenon
<1>13. acked + n = Kept(r)
  BY <1>4, <1>6
<1> QED BY <1>3, <1>10, <1>12, <1>13, Zenon

\* Only the row of the run reported changes.
LEMMA OthersKeepOutput ==
    ASSUME Inv, NEW r \in RunIds, NEW text, AddOutput(r, text)
    PROVE  \A s \in RunIds : s # r => output'[s] = output[s] /\ truncated'[s] = truncated[s]
BY Zenon DEF Inv, TypeOK, StoreTypeOK, AddOutput

LEMMA ReportOutputShows ==
    ASSUME Inv, OutputInv, ReportOutput
    PROVE  OutputInv'
<1>1. /\ current \in RunIds /\ pc = "running" /\ acked <= Kept(current) /\ Delivered(current, acked)
      /\ status[current] \notin Reported
  BY Zenon DEF Inv, TypeOK, AgentTypeOK, AgentConsistent, ReportOutput, OutputInv
<1>2. UNCHANGED <<status, pc, current, printed>>
  BY Zenon DEF ReportOutput, historyVars
<1>3. CASE UNCHANGED <<output, truncated, acked>>
  BY <1>2, <1>3, OutputKept, Zenon
<1>4. CASE AddOutput(current, Unsent(current)) /\ acked' \in {acked, Kept(current)}
  <2>1. /\ Kept(current)' = Kept(current) /\ Kept(current) \in Nat /\ acked \in Nat
    BY <1>1, <1>2, UnsentIs, Zenon DEF Kept
  <2>2. acked' <= Kept(current)
    <3>1. Kept(current) <= Kept(current)
      BY <2>1
    <3> QED BY <1>1, <1>4, <3>1, Zenon
  <2>3. Delivered(current, acked)'
    BY <1>1, <1>2, <1>4, ReportDelivers, Zenon DEF Delivered, Firsts
  <2>4. CompleteOrTruncated'
    BY <1>1, <1>2, <1>4, OthersKeepOutput, Zenon DEF OutputInv, CompleteOrTruncated
  <2> QED BY <1>1, <1>2, <2>1, <2>2, <2>3, <2>4, Zenon DEF OutputInv
<1> QED BY <1>3, <1>4, Zenon DEF ReportOutput

LEMMA ReportEndShows ==
    ASSUME Inv, OutputInv, ReportEnd
    PROVE  OutputInv'
<1>1. /\ current \in RunIds /\ pc = "ending" /\ acked <= Kept(current) /\ Delivered(current, acked)
  BY Zenon DEF Inv, TypeOK, AgentTypeOK, AgentConsistent, ReportEnd, OutputInv
<1>2. \/ pc' = "idle" /\ acked' = 0
      \/ UNCHANGED <<pc, current, acked>>
  BY Zenon DEF ReportEnd, RunOver, AnotherTry
<1>3. UNCHANGED printed
  BY Zenon DEF ReportEnd, historyVars
<1>4. CASE UNCHANGED <<status, output, truncated>>
  BY <1>1, <1>2, <1>3, <1>4, OutputKept, Zenon
<1>5. CASE /\ AddOutput(current, Unsent(current))
           /\ status' = [status EXCEPT ![current] = outcome[current]]
  <2>1. \/ truncated'[current]
        \/ /\ IsSubsequence(Firsts(acked), output'[current])
           /\ IsSubsequence(Firsts(printed[current]), output'[current])
    BY <1>1, <1>5, ReportDelivers, Zenon
  <2>2. CompleteOrTruncated'
    <3>1. \A s \in RunIds : s # current => /\ output'[s] = output[s] /\ truncated'[s] = truncated[s]
                                           /\ status'[s] = status[s]
      BY <1>1, <1>5, OthersKeepOutput, Zenon DEF Inv, TypeOK, StoreTypeOK
    <3> QED BY <1>3, <2>1, <3>1, Zenon DEF OutputInv, CompleteOrTruncated, Firsts
  <2>3. pc' \in {"running", "ending"} =>
           acked' <= Kept(current)' /\ Delivered(current, acked)'
    BY <1>1, <1>2, <1>3, <2>1, Zenon DEF Kept, Delivered, Firsts
  <2> QED BY <1>1, <1>2, <2>2, <2>3, Zenon DEF OutputInv
<1> QED BY <1>4, <1>5, Zenon DEF ReportEnd

LEMMA PrintOutputShows ==
    ASSUME Inv, OutputInv, PrintOutput
    PROVE  OutputInv'
<1>1. /\ current \in RunIds /\ pc = "running" /\ acked <= Kept(current) /\ Delivered(current, acked)
      /\ status[current] \notin Reported /\ printed \in [RunIds -> Nat] /\ acked \in Nat
      /\ OutputLimit \in Nat
  BY TaskRunsAssumption, Zenon DEF Inv, TypeOK, AgentTypeOK, HistoryTypeOK, AgentConsistent, PrintOutput,
     OutputInv
<1>2. /\ UNCHANGED <<status, output, truncated, acked, current, pc>>
      /\ printed' = [printed EXCEPT ![current] = @ + 1]
  BY Zenon DEF PrintOutput, storeVars, agentVars
<1>3. \A s \in RunIds : s # current => printed'[s] = printed[s]
  BY <1>1, <1>2, Zenon
<1>4. CompleteOrTruncated'
  BY <1>1, <1>2, <1>3, Zenon DEF OutputInv, CompleteOrTruncated
<1>5. acked' <= Kept(current)'
  <2>1. printed'[current'] = printed[current] + 1
    BY <1>1, <1>2, Zenon
  <2> QED BY <1>1, <1>2, <2>1 DEF Kept
<1>6. Delivered(current, acked)'
  BY <1>1, <1>2, Zenon DEF Delivered
<1> QED BY <1>1, <1>2, <1>4, <1>5, <1>6, Zenon DEF OutputInv

LEMMA AgentShowsOutput ==
    ASSUME Inv, OutputInv, AgentNext
    PROVE  OutputInv'
<1>1. CASE StartRun \/ RefuseRun
  <2>1. /\ UNCHANGED <<status, output, truncated, printed, acked, current>>
        /\ pc = "assigned" /\ pc' \in {"running", "ending"}
    BY <1>1, Zenon DEF StartRun, RefuseRun, storeVars
  <2>2. acked' = 0 /\ current \in RunIds
    BY <2>1, Zenon DEF OutputInv, Inv, TypeOK, AgentTypeOK, AgentConsistent
  <2>3. CompleteOrTruncated'
    BY <2>1, Zenon DEF OutputInv, CompleteOrTruncated
  <2>4. acked' <= Kept(current)'
    <3>1. printed[current] \in Nat /\ OutputLimit \in Nat
      BY <2>2, TaskRunsAssumption, Zenon DEF Inv, TypeOK, HistoryTypeOK
    <3> QED BY <2>1, <2>2, <3>1 DEF Kept
  <2>5. Delivered(current, acked)'
    <3>1. Delivered(current, 0)
      BY NothingYet
    <3> QED BY <2>1, <2>2, <3>1, Zenon DEF Delivered
  <2> QED BY <2>1, <2>3, <2>4, <2>5, Zenon DEF OutputInv
<1>2. CASE \E result \in Reported : RunEnds(result)
  <2>1. /\ UNCHANGED <<status, output, truncated, printed>> /\ pc = "running"
        /\ \/ pc' = "ending" /\ UNCHANGED <<current, acked>>
           \/ pc' = "idle" /\ acked' = 0
    BY <1>2, Zenon DEF RunEnds, RunOver, storeVars
  <2> QED BY <2>1, OutputKept, Zenon
<1>3. CASE \/ \E h \in Calls : AskForTask(h)
           \/ GiveUpAsking
  <2>1. /\ UNCHANGED <<status, output, truncated, printed, acked, current>>
        /\ pc \notin {"running", "ending"} /\ pc' \notin {"running", "ending"}
    BY <1>3, Zenon DEF AskForTask, GiveUpAsking, storeVars, historyVars
  <2> QED BY <2>1, OutputKept, Zenon
<1>4. CASE AgentStops \/ AgentStarts \/ UpdateRestarts
  <2>1. /\ UNCHANGED <<status, output, truncated, printed>>
        /\ pc' \notin {"running", "ending"} /\ acked' = 0
    BY <1>4, Zenon DEF AgentStops, AgentStarts, UpdateRestarts, AgentForgets, storeVars, historyVars
  <2> QED BY <2>1, OutputKept, Zenon
<1>5. CASE Ping \/ UpdateBegins \/ UpdateFails
  <2>1. UNCHANGED <<status, output, truncated, printed, acked, current, pc>>
    BY <1>5, Zenon DEF Ping, UpdateBegins, UpdateFails, storeVars, agentVars, historyVars
  <2> QED BY <2>1, OutputKept, Zenon
<1> QED BY <1>1, <1>2, <1>3, <1>4, <1>5, ReportOutputShows, ReportEndShows, PrintOutputShows, Zenon
   DEF AgentNext

\* A reported run shows everything it printed, in order, or says that it was cut,
\* however often a report's answer was lost and its output sent again.
THEOREM NoOutputMissing == Spec => []CompleteOrTruncated
<1>1. Init => OutputInv
  BY Zenon DEF Init, OutputInv, CompleteOrTruncated, Reported
<1>2. Inv /\ OutputInv /\ [Next]_vars => OutputInv'
  <2> SUFFICES ASSUME Inv, OutputInv, [Next]_vars PROVE OutputInv'
    OBVIOUS
  <2>1. CASE EditFile \/ Tick \/ UNCHANGED vars
    <3>1. UNCHANGED <<status, output, truncated, printed, acked, current, pc>>
      BY <2>1, Zenon DEF EditFile, Tick, vars, storeVars, agentVars, historyVars
    <3> QED BY <3>1, OutputKept, Zenon
  <2> QED BY <2>1, CollectorKeepsOutput, AgentShowsOutput, Zenon DEF Next
<1>3. OutputInv => CompleteOrTruncated
  BY DEF OutputInv
<1> QED BY <1>1, <1>2, <1>3, Invariance, PTL DEF Spec

-----------------------------------------------------------------------------
(* TaskRuns implements TaskLedger *)

ledgerVars == <<status, starts>>

(* The steps that change the history *)

\* The insert of RequestTaskRun asks for a run.
LEMMA RequestIsAsk ==
    ASSUME Inv, NEW r \in RunIds, NEW n \in Names, RequestTaskRun(r, n)
    PROVE  Ledger!Ask(r)
BY Zenon DEF RequestTaskRun, HostBusy, Active, historyVars, Ledger!Ask

\* A claim ends the run that was going as lost, or hands out the one that is queued.
LEMMA ClaimIsHandOut ==
    ASSUME Inv, NEW h \in Calls, ClaimCommit(h)
    PROVE  Ledger!Next \/ UNCHANGED ledgerVars
<1>1. /\ status \in [RunIds -> Statuses]
      /\ locked[h] \subseteq RunIds
      /\ \A r \in locked[h] : status[r] = "running"
  BY Zenon DEF Inv, TypeOK, StoreTypeOK, CallTypeOK, LocksHeld
<1>2. /\ status' = [r \in RunIds |-> IF r \in locked[h] THEN "lost"
                                     ELSE IF r \in Claimable(h) THEN "running"
                                     ELSE status[r]]
      /\ UNCHANGED starts
  BY Zenon DEF ClaimCommit, historyVars
<1>3. \A r \in RunIds : r \in Claimable(h) => status[r] = "queued"
  BY DEF Claimable, WithStatus
<1>4. \A r, s \in RunIds : status[r] \in {"queued", "running"} /\ status[s] \in {"queued", "running"} => r = s
  BY DEF Inv, OneActive, Active
<1>5. CASE \E r \in locked[h] : TRUE
  <2>1. PICK r \in locked[h] : TRUE
    BY <1>5
  <2>2. r \in RunIds /\ status[r] = "running"
    BY <1>1, <2>1
  <2>3. status' = [status EXCEPT ![r] = "lost"]
    BY <1>1, <1>2, <1>3, <1>4, <2>1, <2>2, Zenon
  <2>4. Ledger!Conclude(r, "lost")
    BY <1>2, <2>2, <2>3, Zenon DEF Ledger!Conclude
  <2> QED BY <2>2, <2>4 DEF Ledger!Next
<1>6. CASE locked[h] = {} /\ \E r \in Claimable(h) : TRUE
  <2>1. PICK r \in Claimable(h) : TRUE
    BY <1>6
  <2>2. r \in RunIds /\ status[r] = "queued"
    BY <1>3, <2>1 DEF Claimable, WithStatus
  <2>3. status' = [status EXCEPT ![r] = "running"]
    BY <1>1, <1>2, <1>3, <1>4, <1>6, <2>1, <2>2, Zenon
  <2>4. Ledger!HandOut(r)
    BY <1>2, <2>2, <2>3, Zenon DEF Ledger!HandOut
  <2> QED BY <2>2, <2>4 DEF Ledger!Next
<1>7. CASE locked[h] = {} /\ Claimable(h) = {}
  <2>1. status' = status
    BY <1>1, <1>2, <1>7
  <2> QED BY <1>2, <2>1 DEF ledgerVars
<1> QED BY <1>5, <1>6, <1>7

\* A sweep finds one run at most to end, as expired or lost.
LEMMA SweepEndsOne ==
    ASSUME Inv, SweepTaskRuns
    PROVE  Ledger!Next
<1>1. status \in [RunIds -> Statuses]
  BY DEF Inv, TypeOK, StoreTypeOK
<1>2. /\ status' = [r \in RunIds |-> SweptAs(r)]
      /\ UNCHANGED starts
  BY Zenon DEF SweepTaskRuns, historyVars
<1>3. \A r \in RunIds : SweptAs(r) # status[r] =>
         \/ status[r] = "queued" /\ SweptAs(r) = "expired"
         \/ status[r] = "running" /\ SweptAs(r) = "lost"
  BY Zenon DEF SweptAs, NotPickedUp, Silent
<1>4. PICK r \in RunIds : SweptAs(r) # status[r]
  BY Zenon DEF SweepTaskRuns
<1>5. \A s \in RunIds : s # r => SweptAs(s) = status[s]
  BY <1>3, <1>4, Zenon DEF Inv, OneActive, Active
<1>6. status' = [status EXCEPT ![r] = SweptAs(r)]
  BY <1>1, <1>2, <1>5, Zenon
<1>7. CASE status[r] = "queued" /\ SweptAs(r) = "expired"
  <2>1. Ledger!Expire(r)
    BY <1>2, <1>6, <1>7, Zenon DEF Ledger!Expire
  <2> QED BY <2>1 DEF Ledger!Next
<1>8. CASE status[r] = "running" /\ SweptAs(r) = "lost"
  <2>1. Ledger!Conclude(r, "lost")
    BY <1>2, <1>6, <1>8, Zenon DEF Ledger!Conclude
  <2> QED BY <2>1 DEF Ledger!Next
<1> QED BY <1>3, <1>4, <1>7, <1>8, Zenon

\* A purge forgets one run, the removal of the host all of them.
LEMMA PurgeForgets ==
    ASSUME Inv, NEW r \in RunIds, PurgeTaskRuns(r)
    PROVE  Ledger!Next
<1>1. /\ status \in [RunIds -> Statuses]
      /\ status[r] # "absent"
      /\ status' = [status EXCEPT ![r] = "deleted"]
      /\ UNCHANGED starts
  BY Zenon DEF Inv, TypeOK, StoreTypeOK, PurgeTaskRuns, Final, Reported, historyVars
<1>2. Ledger!Forget({r})
  BY <1>1, Zenon DEF Ledger!Forget
<1> QED BY <1>2 DEF Ledger!Next

LEMMA RemoveForgets ==
    ASSUME Inv, RemoveHost
    PROVE  Ledger!Next
<1> DEFINE gone == {r \in RunIds : status[r] # "absent"}
<1>1. /\ status' = [r \in RunIds |-> IF status[r] = "absent" THEN "absent" ELSE "deleted"]
      /\ UNCHANGED starts
  BY DEF RemoveHost, historyVars
<1>2. Ledger!Forget(gone)
  BY <1>1 DEF Ledger!Forget
<1> QED BY <1>2 DEF Ledger!Next

\* The agent starts a command for a run that was handed to it and not started before.
LEMMA StartIsBegin ==
    ASSUME Inv, StartRun
    PROVE  Ledger!Next
<1>1. current \in RunIds /\ starts[current] = 0 /\ starts \in [RunIds -> Nat]
  BY Zenon DEF Inv, TypeOK, AgentTypeOK, HistoryTypeOK, AgentConsistent, StartRun
<1>2. status[current] \notin {"absent", "queued", "expired"}
  BY <1>1 DEF Inv, HandedOutFirst
<1>3. /\ starts' = [starts EXCEPT ![current] = 1]
      /\ UNCHANGED status
  BY <1>1 DEF StartRun, storeVars
<1>4. Ledger!Begin(current)
  BY <1>1, <1>2, <1>3 DEF Ledger!Begin
<1> QED BY <1>1, <1>4 DEF Ledger!Next

\* A report the store takes ends the run with what happened to it.
LEMMA ReportConcludes ==
    ASSUME Inv, ReportEnd
    PROVE  Ledger!Next \/ UNCHANGED ledgerVars
<1>1. /\ current \in RunIds
      /\ outcome[current] \in Reported
      /\ outcome[current] # "failed" => starts[current] = 1
      /\ UNCHANGED starts
  BY Zenon DEF Inv, TypeOK, AgentTypeOK, AgentConsistent, ReportEnd, historyVars
<1>2. CASE /\ Reportable(current)
           /\ status' = [status EXCEPT ![current] = outcome[current]]
  <2>1. Ledger!Conclude(current, outcome[current])
    BY <1>1, <1>2, Zenon DEF Ledger!Conclude, Reportable
  <2>2. outcome[current] \in {"succeeded", "failed", "timed_out", "lost"}
    BY <1>1 DEF Reported
  <2> QED BY <1>1, <2>1, <2>2, Zenon DEF Ledger!Next
<1>3. CASE UNCHANGED status
  BY <1>1, <1>3 DEF ledgerVars
<1> QED BY <1>2, <1>3, Zenon DEF ReportEnd

-----------------------------------------------------------------------------
\* Every other step leaves the history alone.
LEMMA StepOfLedger ==
    ASSUME Inv, [Next]_vars
    PROVE  [Ledger!Next]_ledgerVars
<1>1. CASE \E r \in RunIds, n \in Names : RequestTaskRun(r, n)
  BY <1>1, RequestIsAsk DEF Ledger!Next
<1>2. CASE \E h \in Calls : ClaimCommit(h)
  BY <1>2, ClaimIsHandOut
<1>3. CASE SweepTaskRuns
  BY <1>3, SweepEndsOne
<1>4. CASE RemoveHost \/ \E r \in RunIds : PurgeTaskRuns(r)
  BY <1>4, PurgeForgets, RemoveForgets
<1>5. CASE StartRun
  BY <1>5, StartIsBegin
<1>6. CASE ReportEnd
  BY <1>6, ReportConcludes
<1>7. CASE \/ \E r \in RunIds : WakeHost(r)
           \/ \E h \in Calls : ClaimBegin(h) \/ WokenUp(h) \/ WaitOver(h) \/ NextTaskFails(h) \/ Reply(h)
           \/ AddHost \/ CollectorRestarts
  BY <1>7, Zenon DEF WakeHost, ClaimBegin, WokenUp, WaitOver, NextTaskFails, Reply, AddHost, CollectorRestarts,
     storeVars, historyVars, ledgerVars
<1>8. CASE \/ \E h \in Calls : AskForTask(h)
           \/ GiveUpAsking \/ RefuseRun \/ PrintOutput \/ ReportOutput
           \/ \E result \in Reported : RunEnds(result)
  BY <1>8, Zenon DEF AskForTask, GiveUpAsking, RefuseRun, PrintOutput, ReportOutput, RunEnds, storeVars,
     historyVars, ledgerVars
<1>9. CASE \/ AgentStops \/ AgentStarts \/ Ping \/ UpdateBegins \/ UpdateFails \/ UpdateRestarts
           \/ EditFile \/ Tick \/ UNCHANGED vars
  BY <1>9, Zenon DEF AgentStops, AgentStarts, AgentForgets, Ping, UpdateBegins, UpdateFails, UpdateRestarts,
     EditFile, Tick, vars, storeVars, historyVars, ledgerVars
<1> QED BY <1>1, <1>2, <1>3, <1>4, <1>5, <1>6, <1>7, <1>8, <1>9, Zenon DEF Next, CollectorNext, AgentNext

\* The system of calls, transactions, retries and restarts implements the run
\* history that TaskLedger promises, for any number of runs, calls and tasks.
THEOREM Implementation == Spec => ImplementsLedger
<1>1. Init => Ledger!Init
  BY Zenon DEF Init, Ledger!Init
<1>2. Inv /\ [Next]_vars => [Ledger!Next]_ledgerVars
  BY StepOfLedger
<1> QED BY <1>1, <1>2, Invariance, PTL DEF Spec, ImplementsLedger, Ledger!Spec, ledgerVars

=============================================================================

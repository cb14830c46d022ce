------------------------- MODULE TaskRunsInvariant --------------------------
(* The inductive invariant of TaskRuns, in named parts. *)
EXTENDS TaskRuns

\* Before a run is handed out nobody holds it and nothing of it has happened.
HandedOutFirst ==
    \A r \in RunIds : status[r] \in {"absent", "queued", "expired"} =>
        /\ starts[r] = 0
        /\ outcome[r] = "none"
        /\ current # r
        /\ \A h \in Calls : holding[h] # r

\* A run is asked for with a task of the host's list.
AskedFor == \A r \in RunIds : status[r] # "absent" => asked[r] \in Requested

\* Only a reply carries a run.
RepliesCarry == \A h \in Calls : holding[h] # NoRun => handler[h] = "replying"

\* An open claim transaction has locked runs that are going, and no row is
\* locked twice.
LocksHeld ==
    \A h \in Calls :
        /\ \A r \in locked[h] : status[r] = "running"
        /\ \A g \in Calls : g # h => \A r \in locked[h] : r \notin locked[g]

\* What a claim left out as too old stays too old.
LeftOutIsOld ==
    \A h \in Calls : \A r \in tooOld[h] :
        status[r] # "absent" /\ (status[r] = "queued" => age[r] >= PickupWindow)

\* A run handed out is in one place: one reply, or the agent's hands, or started.
OneHolder ==
    /\ \A h \in Calls : holding[h] # NoRun =>
          /\ starts[holding[h]] = 0
          /\ status[holding[h]] \notin Reported
          /\ current # holding[h]
    /\ \A g, h \in Calls : holding[g] = holding[h] /\ holding[h] # NoRun => g = h

\* What the agent has in hand, by where it is.
AgentConsistent ==
    /\ pc \in {"assigned", "running", "ending"} <=> current # NoRun
    /\ pc = "assigned" => starts[current] = 0
    /\ pc = "running" => starts[current] = 1
    /\ pc \in {"assigned", "running"} => status[current] \notin Reported
    /\ pc = "ending" => /\ outcome[current] \in Reported
                        /\ outcome[current] # "failed" => starts[current] = 1
    /\ working = "runner" <=> pc \in {"running", "ending"}
    /\ pc = "asking" <=> call # NoCall

Inv ==
    /\ TypeOK
    /\ OneActive
    /\ HandedOutFirst
    /\ AskedFor
    /\ RepliesCarry
    /\ LocksHeld
    /\ LeftOutIsOld
    /\ OneHolder
    /\ AgentConsistent
    /\ StartedAtMostOnce
    /\ ResultTruthful
    /\ NoMissedWake
    /\ OutputBounded

\* While nobody edits the tasks file, a run is asked for with the timeout the
\* file has, and its process is killed when it reaches that one.
StaticInv ==
    /\ \A n \in Names : hostTasks[n] \in {NoOffer, file[n]}
    /\ \A r \in RunIds : status[r] # "absent" => asked[r].timeout = file[asked[r].name].timeout
    /\ pc = "running" => limit = asked[current].timeout /\ procAge <= limit
    /\ pc # "running" => procAge = 0

\* The first n chunks a run printed are in its row, or the row says it was cut.
Delivered(r, n) == truncated[r] \/ IsSubsequence([i \in 1 .. n |-> i], output[r])

\* What a report was acknowledged for has been delivered.
OutputInv ==
    /\ CompleteOrTruncated
    /\ pc \in {"running", "ending"} => acked <= Kept(current) /\ Delivered(current, acked)
    /\ pc \notin {"running", "ending"} => acked = 0

=============================================================================

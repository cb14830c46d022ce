------------------------- MODULE NotificationsProofs -------------------------
(***************************************************************************)
(* Notifications, for any alerts, channels, waits and sizes of a batch:    *)
(* messages about an alert reach a channel in order, an alert is one       *)
(* incident or one message, and its resolution goes to every channel that  *)
(* heard about it.                                                         *)
(***************************************************************************)
EXTENDS Notifications, TLAPS

Statuses == {"pending", "sent", "failed", "deleted"}
StoredRows ==
    [alert : AlertIds, channel : Channels, event : Events, status : Statuses, attempts : Nat, wait : Nat,
     ref : BOOLEAN]
Items == [row : Nat, on : BOOLEAN, ref : BOOLEAN]
Pairs == AlertIds \X Channels

QueueTypeOK ==
    /\ channels \in [Channels -> Options \cup {None}]
    /\ told \in [AlertIds -> Events \cup {None}]
    /\ rows \in Seq(StoredRows)
    /\ queueing \in Notices \cup {None}

DeliveryTypeOK ==
    /\ batch \in Seq(Items)
    /\ answer \in Answers \cup {None}
    /\ answer # None => batch # <<>>
    /\ last \in [Pairs -> Nat]
    /\ posts \in [Pairs -> 0 .. 2]

\* The foreign keys of notifications: a row has its channel and its alert.
RowsHaveOwners ==
    /\ \A c \in Channels : c \notin used => channels[c] = None
    /\ \A i \in DOMAIN rows :
          rows[i].status # "deleted" => channels[rows[i].channel] # None /\ rows[i].alert \in alive

\* Nothing later about the alert was received, and nothing earlier is waiting.
InTurn(i) ==
    /\ i \in DOMAIN rows
    /\ last[Pair(i)] <= i
    /\ \A j \in 1 .. i - 1 : Pair(j) = Pair(i) => rows[j].status # "pending"

LastIsOfPair == \A p \in Pairs : last[p] # 0 => last[p] \in DOMAIN rows /\ Pair(last[p]) = p
PendingNotOvertaken == \A i \in DOMAIN rows : rows[i].status = "pending" => last[Pair(i)] <= i
BatchInTurn ==
    /\ \A k \in DOMAIN batch : InTurn(batch[k].row)
    /\ \A k, l \in DOMAIN batch : Pair(batch[k].row) = Pair(batch[l].row) => k = l

OrderOK == LastIsOfPair /\ PendingNotOvertaken /\ BatchInTurn

\* A resolution is the last thing said of an alert.
ResolvedIsLast ==
    /\ \A i \in DOMAIN rows : rows[i].event = "resolved" => told[rows[i].alert] = "resolved"
    /\ \A i, j \in DOMAIN rows : i < j /\ Pair(i) = Pair(j) => rows[i].event # "resolved"
    /\ queueing # None =>
          /\ told[queueing.alert] = queueing.event
          /\ \A i \in DOMAIN rows : rows[i].alert = queueing.alert => rows[i].event # "resolved"

OneIncident ==
    /\ \A p \in Pairs : posts[p] # 0 => last[p] # 0
    /\ \A p \in Pairs : Kind[p[2]] = "pagerduty" => posts[p] <= 1

\* A message that was posted has left its ref, and rows read after it know.
RowsStay == \A i \in DOMAIN rows : rows[i].status # "deleted"
RefsSent == \A i \in DOMAIN rows : rows[i].ref => i <= last[Pair(i)] /\ rows[i].status # "pending"
SentIsLast == answer = "ok" => last[Pair(batch[1].row)] = batch[1].row
RefOfPost ==
    \A p \in Pairs : Kind[p[2]] = "slack" /\ posts[p] # 0 =>
        \/ \E i \in DOMAIN rows : Pair(i) = p /\ rows[i].ref
        \/ answer = "ok" /\ Pair(batch[1].row) = p
BatchKnowsRef ==
    \A k \in DOMAIN batch : Kind[rows[batch[k].row].channel] = "slack" /\ posts[Pair(batch[k].row)] # 0 =>
        batch[k].ref \/ (k = 1 /\ answer # None)
OneSlackPost == \A p \in Pairs : Kind[p[2]] = "slack" => posts[p] <= 1

RefsKnown == ~lossy => RowsStay /\ RefsSent /\ SentIsLast /\ RefOfPost /\ BatchKnowsRef /\ OneSlackPost

\* The channels that heard about an alert are there and on, and are told the end.
ChannelsOn == \A i \in DOMAIN rows : channels[rows[i].channel].on
AlertsStay == \A a \in AlertIds : told[a] # None => a \in alive
NoticeFits ==
    queueing # None =>
        /\ Insertable
        /\ \A c \in queueing.picked : channels[c].on
        /\ queueing.event = "resolved" =>
              \A i \in DOMAIN rows : rows[i].alert = queueing.alert => rows[i].channel \in queueing.picked
EndIsTold ==
    \A i \in DOMAIN rows : told[rows[i].alert] = "resolved" =>
        \/ queueing # None /\ queueing.alert = rows[i].alert
        \/ \E j \in DOMAIN rows : Pair(j) = Pair(i) /\ rows[j].event = "resolved"

ChannelsHear == ~lossy => ChannelsOn /\ AlertsStay /\ NoticeFits /\ EndIsTold

NotesInv ==
    /\ QueueTypeOK /\ DeliveryTypeOK
    /\ RowsHaveOwners /\ OrderOK /\ ResolvedIsLast /\ OneIncident /\ RefsKnown /\ ChannelsHear

-----------------------------------------------------------------------------
(* What the statements do to the rows *)

LEMMA Concatenated ==
    ASSUME NEW S, NEW s \in Seq(S), NEW t \in Seq(S)
    PROVE  /\ s \o t \in Seq(S)
           /\ Len(s \o t) = Len(s) + Len(t)
           /\ \A i \in 1 .. Len(s) + Len(t) : (s \o t)[i] = IF i <= Len(s) THEN s[i] ELSE t[i - Len(s)]
OBVIOUS

LEMMA AscendingType ==
    ASSUME NotificationsAssumption, NEW set, NEW order \in Ascending(set)
    PROVE  \E n \in Nat : /\ order \in [1 .. n -> set]
                          /\ \A x \in set : \E p \in 1 .. n : order[p] = x
                          /\ \A p, q \in 1 .. n : p < q => order[p] < order[q]
<1>1. PICK n \in 0 .. MaxRows : order \in [1 .. n -> set]
  BY Zenon DEF Ascending
<1>2. n \in Nat
  BY DEF NotificationsAssumption
<1>3. DOMAIN order = 1 .. n
  BY <1>1
<1> QED
  BY <1>1, <1>2, <1>3, Zenon DEF Ascending

LEMMA PairOfRow ==
    ASSUME QueueTypeOK, NEW i \in DOMAIN rows
    PROVE  Pair(i) \in Pairs /\ rows[i] \in StoredRows
<1>1. rows[i] \in StoredRows
  BY DEF QueueTypeOK
<1> QED
  BY <1>1 DEF StoredRows, Pair, Pairs

\* The rows stay what they are about.
SameRows ==
    /\ rows' \in Seq(StoredRows)
    /\ Len(rows') = Len(rows)
    /\ \A i \in DOMAIN rows :
          Pair(i)' = Pair(i) /\ rows'[i].alert = rows[i].alert /\ rows'[i].channel = rows[i].channel
            /\ rows'[i].event = rows[i].event

LEMMA RowsDeleted ==
    ASSUME QueueTypeOK, NEW gone, rows' = WithoutRows(gone)
    PROVE  /\ SameRows
           /\ \A i \in DOMAIN rows : IF i \in gone THEN rows'[i].status = "deleted" ELSE rows'[i] = rows[i]
<1>1. rows \in Seq(StoredRows) /\ DOMAIN rows = 1 .. Len(rows) /\ Len(rows) \in Nat
  BY DEF QueueTypeOK
<1>2. \A i \in DOMAIN rows : rows[i] \in StoredRows
  BY <1>1
<1>3. \A i \in DOMAIN rows :
         [rows[i] EXCEPT !.status = "deleted", !.attempts = 0, !.wait = 0, !.ref = FALSE] \in StoredRows
  BY <1>2, Zenon DEF StoredRows, Statuses
<1>4. DOMAIN rows' = 1 .. Len(rows)
  BY <1>1, Zenon DEF WithoutRows
<1>5. \A i \in DOMAIN rows : IF i \in gone THEN rows'[i] = [rows[i] EXCEPT !.status = "deleted", !.attempts = 0, !.wait = 0, !.ref = FALSE]
                             ELSE rows'[i] = rows[i]
  BY Zenon DEF WithoutRows
<1>6. rows' \in [1 .. Len(rows) -> StoredRows]
  BY <1>1, <1>2, <1>3, Zenon DEF WithoutRows
<1>7. rows' \in Seq(StoredRows) /\ Len(rows') = Len(rows)
  BY <1>1, <1>6
<1> QED
  BY <1>2, <1>5, <1>7, ZenonT(30) DEF SameRows, Pair, StoredRows

LEMMA RowsTicked ==
    ASSUME QueueTypeOK, Tick
    PROVE  /\ SameRows
           /\ \A i \in DOMAIN rows : rows'[i].status = rows[i].status /\ rows'[i].ref = rows[i].ref
<1>1. rows \in Seq(StoredRows) /\ DOMAIN rows = 1 .. Len(rows) /\ Len(rows) \in Nat
  BY DEF QueueTypeOK
<1>2. \A i \in DOMAIN rows : rows[i] \in StoredRows
  BY <1>1
<1>3. \A i \in DOMAIN rows : \E w \in Nat : rows'[i] = [rows[i] EXCEPT !.wait = w]
  <2> SUFFICES ASSUME NEW i \in DOMAIN rows
               PROVE  \E w \in Nat : rows'[i] = [rows[i] EXCEPT !.wait = w]
    BY Zenon
  <2> DEFINE w == IF rows[i].wait > 0 THEN rows[i].wait - 1 ELSE 0
  <2>1. rows'[i] = [rows[i] EXCEPT !.wait = w]
    BY DEF Tick
  <2>2. w \in Nat
    BY <1>2 DEF StoredRows
  <2> QED
    BY <2>1, <2>2
<1>4. \A i \in DOMAIN rows : rows'[i] \in StoredRows
  BY <1>2, <1>3, ZenonT(30) DEF StoredRows
<1>5. rows' \in Seq(StoredRows) /\ Len(rows') = Len(rows)
  <2>1. rows' \in [1 .. Len(rows) -> StoredRows]
    BY <1>1, <1>4, Zenon DEF Tick
  <2> QED
    BY <1>1, <2>1
<1> QED
  BY <1>2, <1>3, <1>5, Zenon DEF SameRows, Pair, StoredRows

\* The head of the batch is marked, unless it is gone.
LEMMA RowsMarked ==
    ASSUME NotificationsAssumption, QueueTypeOK, DeliveryTypeOK, BatchInTurn, Mark
    PROVE  LET h == batch[1].row
           IN  /\ SameRows
               /\ batch # <<>> /\ h \in DOMAIN rows
               /\ \A i \in DOMAIN rows : i # h => rows'[i] = rows[i]
               /\ rows[h].status = "deleted" => rows'[h] = rows[h]
               /\ rows[h].status # "deleted" /\ answer = "ok" =>
                     rows'[h].status = "sent" /\ rows'[h].ref = (Kind[rows[h].channel] = "slack")
               /\ rows[h].status # "deleted" /\ answer # "ok" =>
                     rows'[h].status \in {rows[h].status, "failed"} /\ rows'[h].ref = rows[h].ref
<1> DEFINE h == batch[1].row
<1>1. rows \in Seq(StoredRows) /\ DOMAIN rows = 1 .. Len(rows) /\ Len(rows) \in Nat
  BY DEF QueueTypeOK
<1>2. batch # <<>> /\ batch \in Seq(Items) /\ Head(batch) = batch[1] /\ 1 \in DOMAIN batch
  BY DEF DeliveryTypeOK, Mark
<1>3. h \in DOMAIN rows
  BY <1>2, Zenon DEF BatchInTurn, InTurn
<1>4. rows[h] \in StoredRows
  BY <1>1, <1>3
<1>5. rows' = [rows EXCEPT ![h] = Marked(rows[h])]
  BY <1>2, Zenon DEF Mark
<1>6. /\ Marked(rows[h]) \in StoredRows
      /\ Marked(rows[h]).alert = rows[h].alert /\ Marked(rows[h]).channel = rows[h].channel
      /\ Marked(rows[h]).event = rows[h].event
  <2>1. ASSUME NEW st \in Statuses, NEW n \in Nat, NEW w \in Nat, NEW ref \in BOOLEAN,
               Marked(rows[h]) = [rows[h] EXCEPT !.status = st, !.attempts = n, !.wait = w, !.ref = ref]
        PROVE  /\ Marked(rows[h]) \in StoredRows
               /\ Marked(rows[h]).alert = rows[h].alert /\ Marked(rows[h]).channel = rows[h].channel
               /\ Marked(rows[h]).event = rows[h].event
    BY <1>4, <2>1, ZenonT(30) DEF StoredRows
  <2>2. rows[h].attempts + 1 \in Nat
    BY <1>4 DEF StoredRows
  <2>3. CASE rows[h].status = "deleted"
    BY <1>4, <2>3, Zenon DEF Marked
  <2>4. CASE rows[h].status # "deleted" /\ answer = "ok"
    <3>1. (Kind[rows[h].channel] = "slack") \in BOOLEAN
      BY Zenon
    <3>2. Marked(rows[h]) =
            [rows[h] EXCEPT !.status = "sent", !.attempts = rows[h].attempts + 1, !.wait = rows[h].wait,
                            !.ref = (Kind[rows[h].channel] = "slack")]
      BY <1>4, <2>4, Zenon DEF Marked, MarkSent, StoredRows
    <3> QED
      BY <1>4, <2>1, <2>2, <3>1, <3>2, ZenonT(30) DEF StoredRows, Statuses
  <2>5. CASE rows[h].status # "deleted" /\ answer # "ok" /\ answer = "error" /\ Again(rows[h].attempts + 1)
    <3>1. RetryWaits[rows[h].attempts + 1] \in Nat
      <4>1. RetryWaits \in Seq(Nat \ {0})
        BY DEF NotificationsAssumption
      <4>2. rows[h].attempts + 1 \in 1 .. Len(RetryWaits)
        BY <1>4, <2>5, <4>1, SMTT(30) DEF Again, StoredRows
      <4> QED
        BY <4>1, <4>2
    <3>2. Marked(rows[h]) = [rows[h] EXCEPT !.attempts = rows[h].attempts + 1, !.wait = RetryWaits[rows[h].attempts + 1]]
      BY <2>5, Zenon DEF Marked, MarkRetry
    <3> QED
      BY <1>4, <2>2, <3>1, <3>2, ZenonT(30) DEF StoredRows
  <2>6. CASE rows[h].status # "deleted" /\ answer # "ok" /\ ~(answer = "error" /\ Again(rows[h].attempts + 1))
    <3>1. Marked(rows[h]) = [rows[h] EXCEPT !.status = "failed", !.attempts = rows[h].attempts + 1]
      BY <2>6, Zenon DEF Marked, MarkFailed
    <3> QED
      BY <1>4, <2>2, <3>1, ZenonT(30) DEF StoredRows, Statuses
  <2> QED
    BY <2>3, <2>4, <2>5, <2>6, Zenon
<1>7. rows' \in Seq(StoredRows) /\ Len(rows') = Len(rows) /\ rows'[h] = Marked(rows[h])
      /\ \A i \in DOMAIN rows : i # h => rows'[i] = rows[i]
  BY <1>1, <1>3, <1>5, <1>6
<1>8. SameRows
  BY <1>6, <1>7, Zenon DEF SameRows, Pair
<1>9. /\ rows[h].status = "deleted" => rows'[h] = rows[h]
      /\ rows[h].status # "deleted" /\ answer = "ok" =>
            rows'[h].status = "sent" /\ rows'[h].ref = (Kind[rows[h].channel] = "slack")
      /\ rows[h].status # "deleted" /\ answer # "ok" =>
            rows'[h].status \in {rows[h].status, "failed"} /\ rows'[h].ref = rows[h].ref
  BY <1>4, <1>7, SMTT(30) DEF Marked, MarkSent, MarkRetry, MarkFailed, StoredRows
<1> QED
  BY <1>2, <1>3, <1>7, <1>8, <1>9, Zenon

\* QueueNotifications adds a row for each channel it picked, each of another channel.
LEMMA RowsQueued ==
    ASSUME NotificationsAssumption, QueueTypeOK, QueueNotifications
    PROVE  /\ rows' \in Seq(StoredRows)
           /\ Len(rows) <= Len(rows')
           /\ \A i \in DOMAIN rows : i \in DOMAIN rows' /\ rows'[i] = rows[i]
           /\ \A i \in DOMAIN rows' \ DOMAIN rows :
                 /\ i > Len(rows)
                 /\ rows'[i].alert = queueing.alert /\ rows'[i].channel \in queueing.picked
                 /\ rows'[i].event = queueing.event
                 /\ rows'[i].status = "pending" /\ rows'[i].ref = FALSE
           /\ \A i, j \in DOMAIN rows' \ DOMAIN rows : i < j => rows'[i].channel # rows'[j].channel
           /\ \A c \in queueing.picked : \E i \in DOMAIN rows' \ DOMAIN rows : rows'[i].channel = c
<1>1. rows \in Seq(StoredRows) /\ DOMAIN rows = 1 .. Len(rows) /\ Len(rows) \in Nat
  BY DEF QueueTypeOK
<1>2. queueing.alert \in AlertIds /\ queueing.event \in Events /\ queueing.picked \subseteq Channels
  BY Zenon DEF QueueTypeOK, QueueNotifications, Notices
<1>3. PICK order \in Ascending(queueing.picked) : rows' = rows \o NewRows(order)
  BY Zenon DEF QueueNotifications
<1>4. PICK n \in Nat : /\ order \in [1 .. n -> queueing.picked]
                       /\ \A x \in queueing.picked : \E p \in 1 .. n : order[p] = x
                       /\ \A p, q \in 1 .. n : p < q => order[p] < order[q]
  BY AscendingType, Zenon
<1>5. queueing.picked \subseteq Nat
  BY <1>2, Zenon DEF NotificationsAssumption
<1> DEFINE New(p) == [alert |-> queueing.alert, channel |-> order[p], event |-> queueing.event,
                      status |-> "pending", attempts |-> 0, wait |-> 0, ref |-> FALSE]
<1>6. \A p \in 1 .. n : New(p) \in StoredRows
  BY <1>2, <1>4, Zenon DEF StoredRows, Statuses
<1>7. NewRows(order) = [p \in 1 .. n |-> New(p)]
  BY <1>4, Zenon DEF NewRows
<1>8. NewRows(order) \in Seq(StoredRows) /\ Len(NewRows(order)) = n
  <2>1. NewRows(order) \in [1 .. n -> StoredRows]
    BY <1>6, <1>7
  <2> QED
    BY <1>4, <2>1
<1>9. /\ rows' \in Seq(StoredRows) /\ Len(rows') = Len(rows) + n
      /\ \A i \in 1 .. Len(rows) : rows'[i] = rows[i]
      /\ \A i \in Len(rows) + 1 .. Len(rows) + n : rows'[i] = NewRows(order)[i - Len(rows)]
  <2>1. /\ rows \o NewRows(order) \in Seq(StoredRows)
        /\ Len(rows \o NewRows(order)) = Len(rows) + Len(NewRows(order))
        /\ \A i \in 1 .. Len(rows) + Len(NewRows(order)) :
              (rows \o NewRows(order))[i] = IF i <= Len(rows) THEN rows[i] ELSE NewRows(order)[i - Len(rows)]
    BY <1>1, <1>8, Concatenated, ZenonT(30)
  <2> QED
    BY <1>1, <1>3, <1>4, <1>8, <2>1, SMTT(30)
<1>10. DOMAIN rows' = 1 .. Len(rows) + n
  BY <1>9
<1> HIDE DEF New
<1>11. ASSUME NEW i \in DOMAIN rows' \ DOMAIN rows
       PROVE  /\ i \in Nat /\ i > Len(rows) /\ i - Len(rows) \in 1 .. n
              /\ rows'[i] = New(i - Len(rows))
  <2>1. i \in Nat /\ i > Len(rows) /\ i - Len(rows) \in 1 .. n /\ i \in Len(rows) + 1 .. Len(rows) + n
    BY <1>1, <1>4, <1>10
  <2> QED
    BY <1>7, <1>9, <2>1, Zenon
<1>12. \A p \in 1 .. n : /\ New(p).alert = queueing.alert /\ New(p).channel = order[p]
                          /\ New(p).event = queueing.event /\ New(p).status = "pending"
  BY Zenon DEF New
<1>13. \A p \in 1 .. n : New(p).ref = FALSE
  BY Zenon DEF New
<1>14. \A i, j \in DOMAIN rows' \ DOMAIN rows : i < j => rows'[i].channel # rows'[j].channel
  <2> SUFFICES ASSUME NEW i \in DOMAIN rows' \ DOMAIN rows, NEW j \in DOMAIN rows' \ DOMAIN rows, i < j
               PROVE  rows'[i].channel # rows'[j].channel
    BY Zenon
  <2>1. order[i - Len(rows)] < order[j - Len(rows)]
    BY <1>1, <1>4, <1>5, <1>11, <1>12, SMTT(30)
  <2>2. order[i - Len(rows)] \in Nat /\ order[j - Len(rows)] \in Nat
    BY <1>4, <1>5, <1>11, <1>12
  <2> QED
    BY <1>11, <1>12, <2>1, <2>2, SMTT(30)
<1>15. \A c \in queueing.picked : \E i \in DOMAIN rows' \ DOMAIN rows : rows'[i].channel = c
  <2> SUFFICES ASSUME NEW c \in queueing.picked
               PROVE  \E i \in DOMAIN rows' \ DOMAIN rows : rows'[i].channel = c
    BY Zenon
  <2>1. PICK p \in 1 .. n : order[p] = c
    BY <1>4, Zenon
  <2>2. Len(rows) + p \in DOMAIN rows' \ DOMAIN rows /\ Len(rows) + p - Len(rows) = p
    BY <1>1, <1>4, <1>10
  <2> QED
    BY <1>11, <1>12, <2>1, <2>2, SMTT(30)
<1>16. \A i \in DOMAIN rows' \ DOMAIN rows : rows'[i].channel \in queueing.picked
  BY <1>4, <1>11, <1>12
<1>17. Len(rows) <= Len(rows') /\ \A i \in DOMAIN rows : i \in DOMAIN rows' /\ rows'[i] = rows[i]
  BY <1>1, <1>4, <1>9, <1>10
<1> QED
  BY <1>9, <1>11, <1>12, <1>13, <1>14, <1>15, <1>16, <1>17, SMTT(30)

-----------------------------------------------------------------------------
(* Types and foreign keys *)

LEMMA QueueTypeStep ==
    ASSUME NotificationsAssumption, QueueTypeOK, DeliveryTypeOK, BatchInTurn, [Next]_vars
    PROVE  QueueTypeOK'
<1>1. UNCHANGED queueVars => (rows \in Seq(StoredRows) /\ told \in [AlertIds -> Events \cup {None}]
                                /\ queueing \in Notices \cup {None})'
  BY Zenon DEF QueueTypeOK, queueVars
<1>2. CASE CreateNext \/ UpdateNext
  BY <1>1, <1>2 DEF CreateNext, UpdateNext, CreateChannel, UpdateChannel, QueueTypeOK
<1>3. CASE DeleteNext \/ \E a \in AlertIds : DeleteAlert(a)
  <2>1. rows' \in Seq(StoredRows)
    BY <1>3, RowsDeleted, Zenon DEF DeleteNext, DeleteChannel, DeleteAlert, SameRows
  <2> QED
    BY <1>3, <2>1, Zenon DEF DeleteNext, DeleteChannel, DeleteAlert, QueueTypeOK
<1>4. ASSUME NEW a \in AlertIds, NEW event \in Events, NEW severity \in Severities, NEW picks \in SUBSET Channels,
             QueueNotice(a, event, severity, picks)
      PROVE  QueueTypeOK'
  <2>1. pickChannels(picks, a, event, severity) \subseteq Channels
    BY Zenon DEF pickChannels
  <2>2. queueing' \in Notices
    BY <1>4, <2>1, Zenon DEF QueueNotice, Notices
  <2> QED
    BY <1>4, <2>2, Zenon DEF QueueNotice, QueueTypeOK
<1>5. CASE QueueNotifications
  BY <1>5, RowsQueued, Zenon DEF QueueNotifications, QueueTypeOK, adminVars
<1>6. CASE QueueRefused \/ QueueFails \/ CollectorRestarts
  BY <1>6, Zenon DEF QueueRefused, QueueFails, CollectorRestarts, QueueTypeOK, adminVars
<1>7. CASE Mark
  <2>1. rows' \in Seq(StoredRows)
    BY <1>7, RowsMarked, Zenon DEF SameRows
  <2> QED
    BY <1>7, <2>1, Zenon DEF Mark, QueueTypeOK, adminVars
<1>8. CASE Tick
  BY <1>8, RowsTicked, Zenon DEF Tick, QueueTypeOK, SameRows, adminVars
<1>9. CASE DeliverDue \/ Deliver \/ SendUnanswered \/ MarkFails
  BY <1>1, <1>9, Zenon DEF DeliverDue, Deliver, Send, ChannelOff, SendFails, SendUnanswered, MarkFails, QueueTypeOK, adminVars
<1>10. CASE UNCHANGED vars
  BY <1>1, <1>10, Zenon DEF vars, adminVars, QueueTypeOK
<1> QED
  BY <1>2, <1>3, <1>4, <1>5, <1>6, <1>7, <1>8, <1>9, <1>10, Zenon
  DEF Next, KeptNext, QueueNext, DeliverNext, FaultNext

\* The batch is the rows that are due, in the order of their ids, as many as it takes.
LEMMA BatchRead ==
    ASSUME NotificationsAssumption, QueueTypeOK, RowsHaveOwners, DeliverDue
    PROVE  /\ batch' \in Seq(Items)
           /\ \A k \in DOMAIN batch' : batch'[k].row \in Due /\ batch'[k].ref = PreviousRef(batch'[k].row)
           /\ \A k, l \in DOMAIN batch' : k < l => batch'[k].row < batch'[l].row
<1>1. rows \in Seq(StoredRows) /\ DOMAIN rows = 1 .. Len(rows) /\ Len(rows) \in Nat
  BY DEF QueueTypeOK
<1>2. PICK due \in Ascending(Due) : batch' = DueNotifications(due)
  BY Zenon DEF DeliverDue
<1>3. Due \subseteq 1 .. Len(rows)
  BY <1>1, Zenon DEF Due
<1>4. PICK n \in Nat : /\ due \in [1 .. n -> Due]
                       /\ \A p, q \in 1 .. n : p < q => due[p] < due[q]
  BY AscendingType, Zenon
<1> DEFINE m == IF n <= Batch THEN n ELSE Batch
<1>5. m \in Nat /\ {q \in DOMAIN due : q <= Batch} = 1 .. m /\ 1 .. m \subseteq 1 .. n
  BY <1>4 DEF NotificationsAssumption
<1> HIDE DEF m
<1> DEFINE Item(p) == [row |-> due[p], on |-> channels[rows[due[p]].channel].on, ref |-> PreviousRef(due[p])]
<1>6. batch' = [p \in 1 .. m |-> Item(p)]
  BY <1>2, <1>5, Zenon DEF DueNotifications
<1>7. ASSUME NEW p \in 1 .. m
      PROVE  Item(p) \in Items
  <2>1. due[p] \in Due /\ due[p] \in DOMAIN rows
    BY <1>1, <1>3, <1>4, <1>5, Zenon
  <2>2. channels[rows[due[p]].channel].on \in BOOLEAN
    <3>1. rows[due[p]].channel \in Channels /\ channels[rows[due[p]].channel] # None
      BY <2>1, PairOfRow, Zenon DEF Due, IsDue, RowsHaveOwners, StoredRows
    <3>2. channels[rows[due[p]].channel] \in Options
      BY <3>1, Zenon DEF QueueTypeOK
    <3> QED
      BY <3>2, Zenon DEF NotificationsAssumption
  <2>3. PreviousRef(due[p]) \in BOOLEAN
    BY Zenon DEF PreviousRef
  <2>4. due[p] \in Nat
    BY <1>1, <2>1
  <2> QED
    BY <2>2, <2>3, <2>4, Zenon DEF Items
<1>8. batch' \in Seq(Items) /\ DOMAIN batch' = 1 .. m
  <2>1. batch' \in [1 .. m -> Items]
    BY <1>6, <1>7, Zenon
  <2> QED
    BY <1>5, <2>1
<1>9. \A k \in 1 .. m : batch'[k].row = due[k] /\ batch'[k].ref = PreviousRef(due[k])
  BY <1>6, Zenon
<1> QED
  BY <1>4, <1>5, <1>8, <1>9

LEMMA DeliveryTypeStep ==
    ASSUME NotificationsAssumption, QueueTypeOK, DeliveryTypeOK, RowsHaveOwners, BatchInTurn, [Next]_vars
    PROVE  DeliveryTypeOK'
<1>1. CASE UNCHANGED <<deliveryVars, historyVars>>
  BY <1>1, Zenon DEF deliveryVars, historyVars, DeliveryTypeOK
<1>2. CASE DeliverDue
  <2>1. answer' = None
    BY <1>2, Zenon DEF DeliverDue, DeliveryTypeOK
  <2> QED
    BY <1>2, <2>1, BatchRead, Zenon DEF DeliverDue, historyVars, DeliveryTypeOK
<1>3. CASE Send \/ SendUnanswered
  <2>1. batch # <<>> /\ UNCHANGED batch /\ answer' \in {"ok", "error"} /\ Taken
    BY <1>3, Zenon DEF Send, SendUnanswered, Sending
  <2> DEFINE i == Head(batch).row
  <2>2. i \in DOMAIN rows
    BY <2>1 DEF DeliveryTypeOK, BatchInTurn, InTurn
  <2>3. i \in Nat /\ Pair(i) \in Pairs
    BY <2>2, PairOfRow DEF QueueTypeOK
  <2>4. last' \in [Pairs -> Nat]
    BY <2>1, <2>3, Zenon DEF Taken, DeliveryTypeOK
  <2>5. posts' \in [Pairs -> 0 .. 2]
    <3>1. PICK x \in {1, 2} : posts' = posts \/ posts' = [posts EXCEPT ![Pair(i)] = x]
      <4>1. posts' = posts \/ posts' = [posts EXCEPT ![Pair(i)] = IF @ = 0 THEN 1 ELSE 2]
        BY <2>1, Zenon DEF Taken
      <4>2. (IF posts[Pair(i)] = 0 THEN 1 ELSE 2) \in {1, 2}
        OBVIOUS
      <4> QED
        BY <4>1, <4>2, Zenon
    <3>2. x \in 0 .. 2
      OBVIOUS
    <3>3. posts \in [Pairs -> 0 .. 2]
      BY Zenon DEF DeliveryTypeOK
    <3> HIDE DEF i
    <3> QED
      BY <2>3, <3>1, <3>2, <3>3, Zenon
  <2> QED
    BY <2>1, <2>4, <2>5, Zenon DEF DeliveryTypeOK, Answers
<1>4. CASE ChannelOff \/ SendFails
  BY <1>4, Zenon DEF ChannelOff, SendFails, Sending, historyVars, DeliveryTypeOK, Answers
<1>5. CASE Mark \/ MarkFails
  <2>1. batch # <<>>
    BY <1>5, Zenon DEF Mark, MarkFails, DeliveryTypeOK
  <2>2. Tail(batch) \in Seq(Items)
    BY <2>1 DEF DeliveryTypeOK
  <2> QED
    BY <1>5, <2>2, Zenon DEF Mark, MarkFails, historyVars, DeliveryTypeOK
<1>6. CASE CollectorRestarts
  BY <1>6 DEF CollectorRestarts, historyVars, DeliveryTypeOK
<1> QED
  BY <1>1, <1>2, <1>3, <1>4, <1>5, <1>6, Zenon
  DEF Next, KeptNext, CreateNext, UpdateNext, DeleteNext, QueueNext, DeliverNext, FaultNext, Deliver, CreateChannel,
      UpdateChannel, DeleteChannel, DeleteAlert, QueueNotice, QueueNotifications, QueueRefused, QueueFails, Tick, vars

\* ON DELETE CASCADE and Insertable keep the foreign keys.
LEMMA OwnersStep ==
    ASSUME NotificationsAssumption, QueueTypeOK, DeliveryTypeOK, BatchInTurn, RowsHaveOwners, [Next]_vars
    PROVE  RowsHaveOwners'
<1>0. \A i \in DOMAIN rows : rows[i].channel \in Channels /\ rows[i].alert \in AlertIds
  BY PairOfRow, Zenon DEF StoredRows
<1>1. ASSUME NEW c \in Channels, NEW options \in Options, CreateChannel(c, options) \/ UpdateChannel(c, options)
      PROVE  RowsHaveOwners'
  <2>1. channels' = [channels EXCEPT ![c] = options] /\ options # None /\ UNCHANGED <<rows, alive>>
    BY <1>1, Zenon DEF CreateChannel, UpdateChannel, queueVars, NotificationsAssumption
  <2>2. \A d \in Channels : channels[d] # None => channels'[d] # None
    BY <2>1, Zenon DEF QueueTypeOK
  <2>3. \A d \in Channels : d \notin used' => channels'[d] = None
    BY <1>1, <2>1, Zenon DEF CreateChannel, UpdateChannel, RowsHaveOwners, QueueTypeOK
  <2> QED
    BY <1>0, <2>1, <2>2, <2>3, Zenon DEF RowsHaveOwners
<1>2. ASSUME NEW c \in Channels, DeleteChannel(c)
      PROVE  RowsHaveOwners'
  <2>1. SameRows /\ \A i \in DOMAIN rows : IF rows[i].channel = c THEN rows'[i].status = "deleted" ELSE rows'[i] = rows[i]
    BY <1>2, RowsDeleted DEF DeleteChannel
  <2>2. DOMAIN rows' = DOMAIN rows
    BY <2>1 DEF SameRows, QueueTypeOK
  <2>3. \A d \in Channels : channels'[d] = IF d = c THEN None ELSE channels[d]
    BY <1>2, Zenon DEF DeleteChannel, QueueTypeOK
  <2>4. \A d \in Channels : d \notin used => channels'[d] = None
    <3>1. \A d \in Channels : d \notin used => channels[d] = None
      BY Zenon DEF RowsHaveOwners
    <3> QED
      BY <2>3, <3>1, Zenon
  <2>5. ASSUME NEW i \in DOMAIN rows, rows'[i].status # "deleted"
        PROVE  channels'[rows'[i].channel] # None /\ rows'[i].alert \in alive
    <3>1. rows[i].channel # c /\ rows'[i] = rows[i]
      BY <2>1, <2>5, Zenon
    <3> QED
      BY <1>0, <2>3, <2>5, <3>1, Zenon DEF RowsHaveOwners
  <2> QED
    BY <1>2, <2>2, <2>4, <2>5, Zenon DEF DeleteChannel, RowsHaveOwners
<1>3. ASSUME NEW a \in AlertIds, DeleteAlert(a)
      PROVE  RowsHaveOwners'
  <2>1. SameRows /\ \A i \in DOMAIN rows : IF rows[i].alert = a THEN rows'[i].status = "deleted" ELSE rows'[i] = rows[i]
    BY <1>3, RowsDeleted DEF DeleteAlert
  <2>2. DOMAIN rows' = DOMAIN rows
    BY <2>1 DEF SameRows, QueueTypeOK
  <2> QED
    BY <1>0, <1>3, <2>1, <2>2, ZenonT(30) DEF DeleteAlert, RowsHaveOwners, SameRows
<1>4. ASSUME NEW a \in AlertIds, NEW event \in Events, NEW severity \in Severities, NEW picks \in SUBSET Channels,
             QueueNotice(a, event, severity, picks)
      PROVE  RowsHaveOwners'
  BY <1>4, Zenon DEF QueueNotice, RowsHaveOwners
<1>5. CASE QueueNotifications
  <2>1. queueing \in Notices
    BY <1>5, Zenon DEF QueueNotifications, QueueTypeOK
  <2>2. ASSUME NEW i \in DOMAIN rows', rows'[i].status # "deleted"
        PROVE  channels[rows'[i].channel] # None /\ rows'[i].alert \in alive
    <3>1. CASE i \in DOMAIN rows
      <4>1. rows'[i] = rows[i]
        BY <1>5, <3>1, RowsQueued, Zenon
      <4> QED
        BY <2>2, <3>1, <4>1, Zenon DEF RowsHaveOwners
    <3>2. CASE i \notin DOMAIN rows
      <4>1. rows'[i].alert = queueing.alert /\ rows'[i].channel \in queueing.picked
        BY <1>5, <3>2, RowsQueued, Zenon
      <4> QED
        BY <1>5, <4>1, Zenon DEF QueueNotifications, Insertable
    <3> QED
      BY <3>1, <3>2, Zenon
  <2> QED
    BY <1>5, <2>2, Zenon DEF QueueNotifications, adminVars, RowsHaveOwners
<1>6. ASSUME SameRows, UNCHANGED adminVars, \A i \in DOMAIN rows : rows[i].status = "deleted" => rows'[i].status = "deleted"
      PROVE  RowsHaveOwners'
  <2>1. DOMAIN rows' = DOMAIN rows
    BY <1>6 DEF SameRows, QueueTypeOK
  <2> QED
    BY <1>6, <2>1, Zenon DEF adminVars, RowsHaveOwners, SameRows
<1>7. CASE Mark
  <2>1. \A i \in DOMAIN rows : rows[i].status = "deleted" => rows'[i].status = "deleted"
    BY <1>7, RowsMarked, Zenon
  <2>2. SameRows
    BY <1>7, RowsMarked, Zenon
  <2> QED
    BY <1>6, <1>7, <2>1, <2>2, Zenon DEF Mark
<1>8. CASE Tick
  BY <1>6, <1>8, RowsTicked, Zenon DEF Tick
<1>9. CASE UNCHANGED <<adminVars, rows>>
  BY <1>9, Zenon DEF adminVars, RowsHaveOwners
<1> QED
  BY <1>1, <1>2, <1>3, <1>4, <1>5, <1>7, <1>8, <1>9, Zenon
  DEF Next, KeptNext, CreateNext, UpdateNext, DeleteNext, QueueNext, DeliverNext, FaultNext, Deliver, QueueRefused,
      QueueFails, DeliverDue, Send, ChannelOff, SendFails, SendUnanswered, MarkFails, CollectorRestarts, queueVars, vars
-----------------------------------------------------------------------------
(* Order and resolutions *)

\* What no step does to rows that are there.
RowsGoOn ==
    /\ SameRows
    /\ \A i \in DOMAIN rows : rows[i].status # "pending" => rows'[i].status # "pending"

\* What is left of a batch.
BatchGoesOn ==
    \E s \in Nat : \A k \in DOMAIN batch' : k \in Nat /\ k + s \in DOMAIN batch /\ batch'[k] = batch[k + s]

LEMMA RestOfBatch ==
    ASSUME DeliveryTypeOK, batch' = batch \/ batch' = <<>> \/ (batch # <<>> /\ batch' = Tail(batch))
    PROVE  BatchGoesOn
<1>1. batch \in Seq(Items)
  BY DEF DeliveryTypeOK
<1>2. CASE batch' = batch
  <2>1. \A k \in DOMAIN batch' : k \in Nat /\ k + 0 \in DOMAIN batch /\ batch'[k] = batch[k + 0]
    BY <1>1, <1>2
  <2> QED
    BY <2>1, Zenon DEF BatchGoesOn
<1>3. CASE batch' = <<>>
  <2>1. \A k \in DOMAIN batch' : k \in Nat /\ k + 0 \in DOMAIN batch /\ batch'[k] = batch[k + 0]
    BY <1>3
  <2> QED
    BY <2>1 DEF BatchGoesOn
<1>4. CASE batch # <<>> /\ batch' = Tail(batch)
  <2>1. \A k \in DOMAIN batch' : k \in Nat /\ k + 1 \in DOMAIN batch /\ batch'[k] = batch[k + 1]
    BY <1>1, <1>4
  <2> QED
    BY <2>1 DEF BatchGoesOn
<1> QED
  BY <1>2, <1>3, <1>4

LEMMA OrderKept ==
    ASSUME QueueTypeOK, DeliveryTypeOK, OrderOK, RowsGoOn, BatchGoesOn, UNCHANGED last
    PROVE  OrderOK'
<1>1. /\ DOMAIN rows' = DOMAIN rows /\ DOMAIN rows = 1 .. Len(rows)
      /\ \A i \in DOMAIN rows : Pair(i)' = Pair(i) /\ Pair(i) \in Pairs
  BY PairOfRow DEF RowsGoOn, SameRows, QueueTypeOK
<1>2. LastIsOfPair'
  BY <1>1, Zenon DEF OrderOK, LastIsOfPair
<1>3. PendingNotOvertaken'
  BY <1>1, Zenon DEF OrderOK, PendingNotOvertaken, RowsGoOn
<1>4. ASSUME NEW i, InTurn(i)
      PROVE  InTurn(i)'
  <2>1. i \in 1 .. Len(rows) /\ \A j \in 1 .. i - 1 : j \in DOMAIN rows
    BY <1>1, <1>4 DEF InTurn, QueueTypeOK
  <2> QED
    BY <1>1, <1>4, <2>1, Zenon DEF InTurn, RowsGoOn
<1>5. PICK s \in Nat : \A k \in DOMAIN batch' : k \in Nat /\ k + s \in DOMAIN batch /\ batch'[k] = batch[k + s]
  BY Zenon DEF BatchGoesOn
<1>6. \A k \in DOMAIN batch' : InTurn(batch'[k].row)
  BY <1>5, Zenon DEF OrderOK, BatchInTurn
<1>7. \A k \in DOMAIN batch' : InTurn(batch[k].row)'
  BY <1>4, <1>6
<1>8. \A k, l \in DOMAIN batch' : Pair(batch'[k].row) = Pair(batch'[l].row) => k = l
  BY <1>5 DEF OrderOK, BatchInTurn
<1>9. \A k \in DOMAIN batch' : Pair(batch[k].row)' = Pair(batch'[k].row)
  BY <1>1, <1>6, Zenon DEF InTurn
<1> QED
  BY <1>2, <1>3, <1>7, <1>8, <1>9, Zenon DEF OrderOK, BatchInTurn

LEMMA ResolvedKept ==
    ASSUME QueueTypeOK, ResolvedIsLast, SameRows, queueing' = queueing \/ queueing' = None, UNCHANGED told
    PROVE  ResolvedIsLast'
<1>1. DOMAIN rows' = DOMAIN rows
  BY DEF SameRows, QueueTypeOK
<1> QED
  BY <1>1 DEF SameRows, ResolvedIsLast

\* The steps that neither queue, read nor send leave the order alone.
LEMMA GoesOn ==
    ASSUME NotificationsAssumption, QueueTypeOK, DeliveryTypeOK, OrderOK, [Next]_vars,
           ~QueueNext \/ QueueRefused, ~DeliverDue, ~Send, ~SendUnanswered
    PROVE  /\ RowsGoOn /\ BatchGoesOn
           /\ UNCHANGED <<last, posts, told>>
           /\ queueing' = queueing \/ queueing' = None
<1>1. UNCHANGED rows => RowsGoOn
  BY Zenon DEF RowsGoOn, SameRows, QueueTypeOK, Pair
<1>2. CASE CreateNext \/ UpdateNext
  BY <1>1, <1>2, RestOfBatch, Zenon DEF CreateNext, UpdateNext, CreateChannel, UpdateChannel, queueVars, deliveryVars, historyVars
<1>3. CASE DeleteNext \/ \E a \in AlertIds : DeleteAlert(a)
  <2>1. RowsGoOn
    BY <1>3, RowsDeleted, Zenon DEF DeleteNext, DeleteChannel, DeleteAlert, RowsGoOn
  <2> QED
    BY <1>3, <2>1, RestOfBatch, Zenon DEF DeleteNext, DeleteChannel, DeleteAlert, deliveryVars, historyVars
<1>4. CASE QueueRefused \/ QueueFails \/ CollectorRestarts
  BY <1>1, <1>4, RestOfBatch, Zenon DEF QueueRefused, QueueFails, CollectorRestarts, deliveryVars, historyVars
<1>5. CASE ChannelOff \/ SendFails
  BY <1>1, <1>5, RestOfBatch, Zenon DEF ChannelOff, SendFails, queueVars, historyVars
<1>6. CASE Mark
  <2>1. RowsGoOn
    <3>1. SameRows
      BY <1>6, RowsMarked, Zenon DEF OrderOK
    <3>2. \A i \in DOMAIN rows : rows'[i].status \in {rows[i].status, "sent", "failed"}
      BY <1>6, RowsMarked, Zenon DEF OrderOK
    <3> QED
      BY <3>1, <3>2, Zenon DEF RowsGoOn
  <2> QED
    BY <1>6, <2>1, RestOfBatch, Zenon DEF Mark, historyVars, DeliveryTypeOK
<1>7. CASE MarkFails
  BY <1>1, <1>7, RestOfBatch, Zenon DEF MarkFails, queueVars, historyVars, DeliveryTypeOK
<1>8. CASE Tick
  <2>1. RowsGoOn
    BY <1>8, RowsTicked, Zenon DEF RowsGoOn
  <2> QED
    BY <1>8, <2>1, RestOfBatch, Zenon DEF Tick, deliveryVars, historyVars
<1>9. CASE UNCHANGED vars
  BY <1>1, <1>9, RestOfBatch, Zenon DEF vars, queueVars, deliveryVars, historyVars
<1> QED
  BY <1>2, <1>3, <1>4, <1>5, <1>6, <1>7, <1>8, <1>9, Zenon
  DEF Next, KeptNext, QueueNext, DeliverNext, FaultNext, Deliver

\* A service takes the head of the batch.
LEMMA MessageTaken ==
    ASSUME NotificationsAssumption, QueueTypeOK, DeliveryTypeOK, OrderOK, Send \/ SendUnanswered
    PROVE  LET h == batch[1].row
               p == Pair(h)
           IN  /\ UNCHANGED <<adminVars, queueVars, batch>>
               /\ 1 \in DOMAIN batch /\ answer = None
               /\ h \in DOMAIN rows /\ p \in Pairs /\ InTurn(h)
               /\ last'[p] = h /\ \A q \in Pairs : q # p => last'[q] = last[q]
               /\ \A q \in Pairs : q # p => posts'[q] = posts[q]
               /\ Adds(h, batch[1].ref) => posts'[p] = IF posts[p] = 0 THEN 1 ELSE 2
               /\ ~Adds(h, batch[1].ref) => posts'[p] = posts[p]
<1> DEFINE h == batch[1].row
<1>1. /\ UNCHANGED <<adminVars, queueVars, batch>>
      /\ batch # <<>> /\ answer = None /\ Taken
  BY Zenon DEF Send, SendUnanswered, Sending
<1>2. 1 \in DOMAIN batch /\ Head(batch) = batch[1]
  BY <1>1 DEF DeliveryTypeOK
<1>3. InTurn(h) /\ h \in DOMAIN rows /\ Pair(h) \in Pairs
  BY <1>2, PairOfRow, Zenon DEF OrderOK, BatchInTurn, InTurn
<1>4. last \in [Pairs -> Nat] /\ posts \in [Pairs -> 0 .. 2]
  BY Zenon DEF DeliveryTypeOK
<1>5. last' = [last EXCEPT ![Pair(h)] = h]
  BY <1>1, <1>2, Zenon DEF Taken
<1>6. PICK x : x = IF posts[Pair(h)] = 0 THEN 1 ELSE 2
  BY Zenon
<1>7. posts' = IF Adds(h, batch[1].ref) THEN [posts EXCEPT ![Pair(h)] = x] ELSE posts
  BY <1>1, <1>2, <1>6, Zenon DEF Taken
<1> HIDE DEF h
<1>8. last'[Pair(h)] = h /\ \A q \in Pairs : q # Pair(h) => last'[q] = last[q]
  BY <1>3, <1>4, <1>5, Zenon
<1>9. /\ \A q \in Pairs : q # Pair(h) => posts'[q] = posts[q]
      /\ Adds(h, batch[1].ref) => posts'[Pair(h)] = x
      /\ ~Adds(h, batch[1].ref) => posts'[Pair(h)] = posts[Pair(h)]
  BY <1>3, <1>4, <1>7, Zenon
<1> QED
  BY <1>1, <1>2, <1>3, <1>6, <1>8, <1>9, Zenon DEF h

LEMMA OrderStep ==
    ASSUME NotificationsAssumption, QueueTypeOK, DeliveryTypeOK, RowsHaveOwners, OrderOK, [Next]_vars
    PROVE  OrderOK'
<1>0. DOMAIN rows = 1 .. Len(rows) /\ Len(rows) \in Nat
  BY DEF QueueTypeOK
<1>1. ASSUME NEW a \in AlertIds, NEW event \in Events, NEW severity \in Severities, NEW picks \in SUBSET Channels,
             QueueNotice(a, event, severity, picks)
      PROVE  OrderOK'
  <2>1. UNCHANGED <<rows, batch, last>>
    BY <1>1, Zenon DEF QueueNotice, deliveryVars, historyVars
  <2> QED
    BY <2>1, Zenon DEF OrderOK, LastIsOfPair, PendingNotOvertaken, BatchInTurn, InTurn, Pair
<1>2. CASE QueueNotifications
  <2>1. UNCHANGED <<batch, last>>
    BY <1>2, Zenon DEF QueueNotifications, deliveryVars, historyVars
  <2>2. \A i \in DOMAIN rows : i \in DOMAIN rows' /\ rows'[i] = rows[i] /\ Pair(i)' = Pair(i) /\ Pair(i) \in Pairs
    <3>1. \A i \in DOMAIN rows : i \in DOMAIN rows' /\ rows'[i] = rows[i]
      BY <1>2, RowsQueued, Zenon
    <3> QED
      BY <3>1, PairOfRow, Zenon DEF Pair
  <2>3. \A i \in DOMAIN rows' : rows'[i] \in StoredRows /\ i \in Nat
    <3>1. rows' \in Seq(StoredRows)
      BY <1>2, RowsQueued, Zenon
    <3> QED
      BY <3>1
  <2>4. \A i \in DOMAIN rows' : Pair(i)' \in Pairs /\ i \in Nat
    BY <2>3, Zenon DEF StoredRows, Pair, Pairs
  <2>5. LastIsOfPair'
    BY <2>1, <2>2, Zenon DEF OrderOK, LastIsOfPair
  <2>6. \A p \in Pairs : last[p] \in Nat /\ last[p] <= Len(rows)
    BY <1>0 DEF OrderOK, LastIsOfPair, DeliveryTypeOK
  <2>7. PendingNotOvertaken'
    <3> SUFFICES ASSUME NEW i \in DOMAIN rows', rows'[i].status = "pending"
                 PROVE  last[Pair(i)'] <= i
      BY <2>1, Zenon DEF PendingNotOvertaken
    <3>1. CASE i \in DOMAIN rows
      BY <2>2, <3>1, Zenon DEF OrderOK, PendingNotOvertaken
    <3>2. CASE i \notin DOMAIN rows
      <4>1. i > Len(rows)
        BY <1>2, <3>2, RowsQueued, Zenon
      <4> QED
        BY <1>0, <2>4, <2>6, <4>1
    <3> QED
      BY <3>1, <3>2, Zenon
  <2>8. ASSUME NEW i, InTurn(i)
        PROVE  InTurn(i)' /\ Pair(i)' = Pair(i)
    <3>1. i \in DOMAIN rows /\ \A j \in 1 .. i - 1 : j \in DOMAIN rows
      BY <1>0, <2>8 DEF InTurn
    <3> QED
      BY <2>1, <2>2, <2>8, <3>1, Zenon DEF InTurn
  <2>9. BatchInTurn'
    BY <2>1, <2>8 DEF OrderOK, BatchInTurn
  <2> QED
    BY <2>5, <2>7, <2>9 DEF OrderOK
<1>3. CASE DeliverDue
  <2>1. UNCHANGED <<rows, last>>
    BY <1>3, Zenon DEF DeliverDue, queueVars, historyVars
  <2>2. LastIsOfPair' /\ PendingNotOvertaken'
    BY <2>1, Zenon DEF OrderOK, LastIsOfPair, PendingNotOvertaken, Pair
  <2>3. ASSUME NEW i \in Due
        PROVE  InTurn(i)
    <3>1. i \in DOMAIN rows /\ rows[i].status = "pending" /\ \A j \in Earlier(i) : rows[j].status # "pending"
      BY Zenon DEF Due, IsDue
    <3>2. ASSUME NEW j \in 1 .. i - 1, Pair(j) = Pair(i)
          PROVE  rows[j].status # "pending"
      BY <3>1, <3>2, Zenon DEF Earlier
    <3> QED
      BY <3>1, <3>2, Zenon DEF InTurn, OrderOK, PendingNotOvertaken
  <2>4. /\ batch' \in Seq(Items)
        /\ \A k \in DOMAIN batch' : batch'[k].row \in Due
        /\ \A k, l \in DOMAIN batch' : k < l => batch'[k].row < batch'[l].row
    BY <1>3, BatchRead, Zenon
  <2>5. ASSUME NEW k \in DOMAIN batch', NEW l \in DOMAIN batch', k < l
        PROVE  Pair(batch'[k].row) # Pair(batch'[l].row)
    <3>1. batch'[k].row \in Due /\ batch'[l].row \in Due /\ batch'[k].row < batch'[l].row
      BY <2>4, <2>5, Zenon
    <3>2. batch'[k].row \in 1 .. batch'[l].row - 1 /\ rows[batch'[k].row].status = "pending"
      BY <1>0, <3>1 DEF Due, IsDue
    <3> QED
      BY <2>3, <3>1, <3>2, Zenon DEF InTurn
  <2>6. DOMAIN batch' \subseteq Nat
    BY <2>4
  <2>7. \A k, l \in DOMAIN batch' : Pair(batch'[k].row) = Pair(batch'[l].row) => k = l
    BY <2>5, <2>6
  <2>8. BatchInTurn'
    BY <2>1, <2>3, <2>4, <2>7, Zenon DEF BatchInTurn, InTurn, Pair
  <2> QED
    BY <2>2, <2>8 DEF OrderOK
<1>4. CASE Send \/ SendUnanswered
  <2> DEFINE h == batch[1].row
             p == Pair(h)
  <2>1. /\ UNCHANGED <<rows, batch>>
        /\ 1 \in DOMAIN batch
        /\ h \in DOMAIN rows /\ p \in Pairs /\ InTurn(h)
        /\ last'[p] = h /\ \A q \in Pairs : q # p => last'[q] = last[q]
    BY <1>4, MessageTaken, Zenon DEF queueVars
  <2> HIDE DEF h, p
  <2>2. \A i : Pair(i)' = Pair(i)
    BY <2>1, Zenon DEF Pair
  <2>3. \A i \in DOMAIN rows : Pair(i) \in Pairs
    BY PairOfRow, Zenon
  <2>4. Pair(h) = p
    BY DEF p
  <2>5. LastIsOfPair'
    BY <2>1, <2>2, <2>4, Zenon DEF OrderOK, LastIsOfPair
  <2>6. PendingNotOvertaken'
    <3> SUFFICES ASSUME NEW i \in DOMAIN rows, rows[i].status = "pending"
                 PROVE  last'[Pair(i)] <= i
      BY <2>1, <2>2, Zenon DEF PendingNotOvertaken
    <3>1. CASE Pair(i) = p
      <4>1. i \notin 1 .. h - 1
        BY <2>1, <2>4, <3>1, Zenon DEF InTurn
      <4> QED
        BY <1>0, <2>1, <3>1, <4>1
    <3>2. CASE Pair(i) # p
      BY <2>1, <2>3, <3>2, Zenon DEF OrderOK, PendingNotOvertaken
    <3> QED
      BY <3>1, <3>2, Zenon
  <2>7. ASSUME NEW k \in DOMAIN batch
        PROVE  InTurn(batch[k].row)'
    <3>1. InTurn(batch[k].row)
      BY Zenon DEF OrderOK, BatchInTurn
    <3>2. CASE k = 1
      BY <1>0, <2>1, <2>2, <2>4, <3>1, <3>2 DEF InTurn, h
    <3>3. CASE k # 1
      <4>1. Pair(batch[k].row) # p
        BY <2>1, <3>3, Zenon DEF OrderOK, BatchInTurn, p, h
      <4> QED
        BY <2>1, <2>2, <2>3, <3>1, <4>1, Zenon DEF InTurn
    <3> QED
      BY <3>2, <3>3, Zenon
  <2>8. BatchInTurn'
    BY <2>1, <2>2, <2>7, Zenon DEF OrderOK, BatchInTurn
  <2> QED
    BY <2>5, <2>6, <2>8 DEF OrderOK
<1>5. CASE (~QueueNext \/ QueueRefused) /\ ~DeliverDue /\ ~Send /\ ~SendUnanswered
  BY <1>5, GoesOn, OrderKept, Zenon
<1> QED
  BY <1>1, <1>2, <1>3, <1>4, <1>5, Zenon DEF QueueNext

\* An alert is resolved once, so nothing about it is queued after its resolution.
LEMMA ResolvedStep ==
    ASSUME NotificationsAssumption, QueueTypeOK, DeliveryTypeOK, OrderOK, ResolvedIsLast, [Next]_vars
    PROVE  ResolvedIsLast'
<1>0. \A i \in DOMAIN rows : rows[i].alert \in AlertIds
  BY PairOfRow, Zenon DEF StoredRows
<1>1. ASSUME NEW a \in AlertIds, NEW event \in Events, NEW severity \in Severities, NEW picks \in SUBSET Channels,
             QueueNotice(a, event, severity, picks)
      PROVE  ResolvedIsLast'
  <2>1. UNCHANGED rows /\ queueing'.alert = a /\ queueing'.event = event /\ told' = [told EXCEPT ![a] = event]
    BY <1>1, Zenon DEF QueueNotice
  <2>2. told[a] # "resolved"
    BY <1>1, Zenon DEF QueueNotice, Follows, NotificationsAssumption, Events
  <2>3. \A i \in DOMAIN rows : rows[i].alert = a => rows[i].event # "resolved"
    BY <2>2, Zenon DEF ResolvedIsLast
  <2>4. \A b \in AlertIds : told'[b] = IF b = a THEN event ELSE told[b]
    BY <2>1, Zenon DEF QueueTypeOK
  <2>5. \A i \in DOMAIN rows : rows[i].event = "resolved" => told'[rows[i].alert] = "resolved"
    BY <1>0, <2>3, <2>4, Zenon DEF ResolvedIsLast
  <2>6. \A i, j \in DOMAIN rows : i < j /\ Pair(i)' = Pair(j)' => rows[i].event # "resolved"
    BY <2>1, Zenon DEF ResolvedIsLast, Pair
  <2> QED
    BY <2>1, <2>3, <2>4, <2>5, <2>6 DEF ResolvedIsLast
<1>2. CASE QueueNotifications
  <2>1. queueing \in Notices /\ UNCHANGED told /\ queueing' = None
    BY <1>2, Zenon DEF QueueNotifications, QueueTypeOK
  <2>2. \A i \in DOMAIN rows : i \in DOMAIN rows' /\ rows'[i] = rows[i] /\ Pair(i)' = Pair(i)
    BY <1>2, RowsQueued, Zenon DEF Pair
  <2>3. ASSUME NEW i \in DOMAIN rows' \ DOMAIN rows
        PROVE  /\ i > Len(rows) /\ rows'[i].alert = queueing.alert /\ rows'[i].event = queueing.event
    BY <1>2, RowsQueued, Zenon
  <2>4. \A i \in DOMAIN rows' : rows'[i].event = "resolved" => told[rows'[i].alert] = "resolved"
    BY <1>2, <2>2, <2>3 DEF QueueNotifications, ResolvedIsLast
  <2>5. DOMAIN rows' \subseteq Nat /\ DOMAIN rows = 1 .. Len(rows) /\ Len(rows) \in Nat
    <3>1. rows' \in Seq(StoredRows)
      BY <1>2, RowsQueued, Zenon
    <3> QED
      BY <3>1 DEF QueueTypeOK
  <2>6. ASSUME NEW i \in DOMAIN rows', NEW j \in DOMAIN rows', i < j, Pair(i)' = Pair(j)'
        PROVE  rows'[i].event # "resolved"
    <3>1. CASE j \in DOMAIN rows
      <4>1. i \in DOMAIN rows
        BY <2>3, <2>5, <2>6, <3>1
      <4> QED
        BY <2>2, <2>6, <3>1, <4>1, Zenon DEF ResolvedIsLast
    <3>2. CASE j \notin DOMAIN rows /\ i \in DOMAIN rows
      <4>1. rows[i].alert = queueing.alert
        BY <2>2, <2>3, <2>6, <3>2, Zenon DEF Pair
      <4> QED
        BY <1>2, <2>2, <3>2, <4>1 DEF QueueNotifications, ResolvedIsLast
    <3>3. CASE j \notin DOMAIN rows /\ i \notin DOMAIN rows
      <4>1. rows'[i].channel # rows'[j].channel
        BY <1>2, <2>6, <3>3, RowsQueued, Zenon
      <4> QED
        BY <2>6, <4>1 DEF Pair
    <3> QED
      BY <3>1, <3>2, <3>3, Zenon
  <2> QED
    BY <2>1, <2>4, <2>6, Zenon DEF ResolvedIsLast
<1>3. CASE DeliverDue \/ Send \/ SendUnanswered
  BY <1>3 DEF DeliverDue, Send, SendUnanswered, queueVars, ResolvedIsLast, Pair
<1>4. CASE (~QueueNext \/ QueueRefused) /\ ~DeliverDue /\ ~Send /\ ~SendUnanswered
  BY <1>4, GoesOn, ResolvedKept, Zenon DEF RowsGoOn
<1> QED
  BY <1>1, <1>2, <1>3, <1>4, Zenon DEF QueueNext

\* An incident is added only for the first event about its alert.
LEMMA IncidentStep ==
    ASSUME NotificationsAssumption, QueueTypeOK, DeliveryTypeOK, OrderOK, ResolvedIsLast, OneIncident, [Next]_vars
    PROVE  OneIncident'
<1>1. CASE UNCHANGED <<last, posts>>
  BY <1>1, Zenon DEF OneIncident
<1>2. CASE Send \/ SendUnanswered
  <2> DEFINE h == batch[1].row
             p == Pair(h)
  <2>1. /\ h \in DOMAIN rows /\ p \in Pairs /\ InTurn(h)
        /\ last'[p] = h /\ \A q \in Pairs : q # p => last'[q] = last[q]
        /\ \A q \in Pairs : q # p => posts'[q] = posts[q]
        /\ Adds(h, batch[1].ref) => posts'[p] = IF posts[p] = 0 THEN 1 ELSE 2
        /\ ~Adds(h, batch[1].ref) => posts'[p] = posts[p]
    BY <1>2, MessageTaken, Zenon
  <2>2. p = <<rows[h].alert, rows[h].channel>> /\ p[2] = rows[h].channel
    BY Zenon DEF Pair
  <2>3. h # 0
    BY <2>1 DEF QueueTypeOK
  <2> HIDE DEF h, p
  <2>4. \A q \in Pairs : posts'[q] # 0 => last'[q] # 0
    BY <2>1, <2>3, Zenon DEF OneIncident
  <2>5. ASSUME Kind[p[2]] = "pagerduty", Adds(h, batch[1].ref)
        PROVE  posts[p] = 0
    <3>1. rows[h].event # "resolved" /\ (last[p] = 0 \/ rows[last[p]].event = "resolved")
      BY <2>2, <2>5, Zenon DEF Adds, pagerDutyAdds, p
    <3>2. ASSUME last[p] # 0
          PROVE  FALSE
      <4>1. last[p] \in DOMAIN rows /\ Pair(last[p]) = p /\ last[p] <= h
        BY <2>1, <3>2, Zenon DEF OrderOK, LastIsOfPair, InTurn, p
      <4>2. last[p] < h
        BY <2>1, <3>1, <3>2, <4>1 DEF QueueTypeOK
      <4> QED
        BY <2>1, <3>1, <3>2, <4>1, <4>2, Zenon DEF ResolvedIsLast, p
    <3> QED
      BY <2>1, <3>2, Zenon DEF OneIncident
  <2>6. \A q \in Pairs : Kind[q[2]] = "pagerduty" => posts'[q] <= 1
    BY <2>1, <2>5 DEF OneIncident
  <2> QED
    BY <2>4, <2>6, Zenon DEF OneIncident
<1>3. CASE ~Send /\ ~SendUnanswered
  <2>1. CASE QueueNext \/ DeliverDue
    BY <1>1, <2>1 DEF QueueNext, QueueNotice, QueueNotifications, QueueRefused, DeliverDue, historyVars
  <2> QED
    BY <1>1, <1>3, <2>1, GoesOn, Zenon
<1> QED
  BY <1>2, <1>3
-----------------------------------------------------------------------------
(* One message, and the resolution, where nothing is lost *)

LEMMA LossyStays ==
    ASSUME [Next]_vars
    PROVE  UNCHANGED lossy /\ (~lossy => KeptNext \/ UNCHANGED vars)
<1>1. lossy' = lossy
  BY Zenon DEF Next, KeptNext, CreateNext, UpdateNext, DeleteNext, QueueNext, DeliverNext, FaultNext, Deliver, CreateChannel,
         UpdateChannel, DeleteChannel, DeleteAlert, QueueNotice, QueueNotifications, QueueRefused, QueueFails, DeliverDue,
         Send, ChannelOff, SendFails, SendUnanswered, Mark, MarkFails, Tick, CollectorRestarts, adminVars, vars
<1> QED
  BY <1>1 DEF Next

\* With the same refs and statuses, and no message taken or marked, nothing changes.
LEMMA RefsKept ==
    ASSUME QueueTypeOK, RefsKnown, SameRows, UNCHANGED <<batch, answer, last, posts, lossy>>,
           \A k \in DOMAIN batch : batch[k].row \in DOMAIN rows,
           answer = "ok" => 1 \in DOMAIN batch,
           \A i \in DOMAIN rows : rows'[i].status = rows[i].status /\ rows'[i].ref = rows[i].ref
    PROVE  RefsKnown'
<1>1. DOMAIN rows' = DOMAIN rows
  BY DEF SameRows, QueueTypeOK
<1>2. \A i \in DOMAIN rows : Pair(i)' = Pair(i) /\ rows'[i].channel = rows[i].channel
  BY Zenon DEF SameRows
<1>3. SUFFICES ASSUME ~lossy
               PROVE  RefsKnown'
  BY Zenon DEF RefsKnown
<1>4. RowsStay /\ RefsSent /\ SentIsLast /\ RefOfPost /\ BatchKnowsRef /\ OneSlackPost
  BY <1>3 DEF RefsKnown
<1>5. RowsStay'
  BY <1>1, <1>4, Zenon DEF RowsStay
<1>6. RefsSent'
  BY <1>1, <1>2, <1>4, Zenon DEF RefsSent
<1>7. SentIsLast'
  BY <1>2, <1>4, Zenon DEF SentIsLast
<1>8. RefOfPost'
  BY <1>1, <1>2, <1>4, Zenon DEF RefOfPost
<1>9. BatchKnowsRef'
  BY <1>2, <1>4, Zenon DEF BatchKnowsRef
<1>10. OneSlackPost'
  BY <1>4, Zenon DEF OneSlackPost
<1> QED
  BY <1>5, <1>6, <1>7, <1>8, <1>9, <1>10, Zenon DEF RefsKnown

LEMMA RefsStep ==
    ASSUME NotificationsAssumption, QueueTypeOK, DeliveryTypeOK, RowsHaveOwners, OrderOK, RefsKnown, [Next]_vars
    PROVE  RefsKnown'
<1>0. SUFFICES ASSUME ~lossy, KeptNext \/ UNCHANGED vars
               PROVE  RefsKnown'
  BY LossyStays, Zenon DEF RefsKnown
<1>1. UNCHANGED lossy
  BY LossyStays
<1>a. RowsStay /\ RefsSent /\ SentIsLast /\ RefOfPost /\ BatchKnowsRef /\ OneSlackPost
  BY <1>0 DEF RefsKnown
<1>b. (RowsStay /\ RefsSent /\ SentIsLast /\ RefOfPost /\ BatchKnowsRef /\ OneSlackPost)' => RefsKnown'
  BY Zenon DEF RefsKnown
<1>2. /\ \A k \in DOMAIN batch : batch[k].row \in DOMAIN rows /\ Pair(batch[k].row) \in Pairs
      /\ answer = "ok" => 1 \in DOMAIN batch
      /\ \A i \in DOMAIN rows : Pair(i) \in Pairs
  <2>1. \A i \in DOMAIN rows : Pair(i) \in Pairs
    BY PairOfRow
  <2>2. \A k \in DOMAIN batch : batch[k].row \in DOMAIN rows
    BY Zenon DEF OrderOK, BatchInTurn, InTurn
  <2>3. answer = "ok" => 1 \in DOMAIN batch
    <3>1. "ok" # None
      BY Zenon DEF NotificationsAssumption, Answers
    <3>2. answer # None => batch # <<>> /\ batch \in Seq(Items)
      BY Zenon DEF DeliveryTypeOK
    <3> QED
      BY <3>1, <3>2
  <2> QED
    BY <2>1, <2>2, <2>3, Zenon
<1>3. ASSUME UNCHANGED <<rows, batch, answer, last, posts>>
      PROVE  RefsKnown'
  <2>1. SameRows
    BY <1>3, Zenon DEF SameRows, QueueTypeOK, Pair
  <2> QED
    BY <1>1, <1>2, <1>3, <2>1, RefsKept, Zenon
<1>4. CASE CreateNext \/ UpdateNext \/ QueueRefused \/ UNCHANGED vars
  BY <1>3, <1>4, Zenon DEF CreateNext, UpdateNext, CreateChannel, UpdateChannel, QueueRefused, vars, queueVars, deliveryVars,
                    historyVars
<1>5. ASSUME NEW a \in AlertIds, NEW event \in Events, NEW severity \in Severities, NEW picks \in SUBSET Channels,
             QueueNotice(a, event, severity, picks)
      PROVE  RefsKnown'
  BY <1>3, <1>5, Zenon DEF QueueNotice, deliveryVars, historyVars
<1>6. CASE Tick
  BY <1>1, <1>2, <1>6, RowsTicked, RefsKept, Zenon DEF Tick, deliveryVars, historyVars
<1>7. CASE QueueNotifications
  <2>1. UNCHANGED <<batch, answer, last, posts>>
    BY <1>7, Zenon DEF QueueNotifications, deliveryVars, historyVars
  <2>2. \A i \in DOMAIN rows : i \in DOMAIN rows' /\ rows'[i] = rows[i] /\ Pair(i)' = Pair(i)
    BY <1>7, RowsQueued, Zenon DEF Pair
  <2>3. \A i \in DOMAIN rows' \ DOMAIN rows : rows'[i].status = "pending" /\ rows'[i].ref = FALSE
    BY <1>7, RowsQueued, Zenon
  <2>4. RowsStay'
    BY <1>a, <2>2, <2>3, Zenon DEF RowsStay
  <2>5. RefsSent'
    BY <1>a, <2>1, <2>2, <2>3, Zenon DEF RefsSent
  <2>6. ASSUME NEW k \in DOMAIN batch
        PROVE  Pair(batch[k].row)' = Pair(batch[k].row) /\ rows'[batch[k].row].channel = rows[batch[k].row].channel
    <3>1. batch[k].row \in DOMAIN rows
      BY <1>2, Zenon
    <3>2. rows'[batch[k].row] = rows[batch[k].row]
      BY <2>2, <3>1, Zenon
    <3> QED
      BY <2>1, <3>2, Zenon DEF Pair
  <2>7. SentIsLast' /\ (answer = "ok" => Pair(batch[1].row)' = Pair(batch[1].row))
    <3>1. answer = "ok" => Pair(batch[1].row)' = Pair(batch[1].row)
      BY <1>2, <2>6, Zenon
    <3> QED
      BY <1>a, <2>1, <3>1, Zenon DEF SentIsLast
  <2>8. RefOfPost'
    <3>1. ASSUME NEW p \in Pairs, Kind[p[2]] = "slack", posts[p] # 0
          PROVE  \/ \E i \in DOMAIN rows' : Pair(i)' = p /\ rows'[i].ref
                 \/ answer = "ok" /\ Pair(batch[1].row)' = p
      <4>1. (\E i \in DOMAIN rows : Pair(i) = p /\ rows[i].ref) \/ (answer = "ok" /\ Pair(batch[1].row) = p)
        BY <1>a, <3>1, Zenon DEF RefOfPost
      <4> QED
        BY <2>2, <2>7, <4>1, Zenon
    <3> QED
      BY <2>1, <3>1, Zenon DEF RefOfPost
  <2>9. BatchKnowsRef'
    BY <1>a, <2>1, <2>6, Zenon DEF BatchKnowsRef
  <2>10. OneSlackPost'
    BY <1>a, <2>1, Zenon DEF OneSlackPost
  <2> QED
    BY <1>b, <2>4, <2>5, <2>7, <2>8, <2>9, <2>10, Zenon
<1>8. CASE ChannelOff \/ SendFails
  <2>1. UNCHANGED <<rows, batch, last, posts>> /\ answer = None /\ answer' \in {"no retry", "error"} /\ answer' # None
    BY <1>8, Zenon DEF ChannelOff, SendFails, Sending, queueVars, historyVars, NotificationsAssumption, Answers
  <2>2. \A i : Pair(i)' = Pair(i)
    BY <2>1, Zenon DEF Pair
  <2>3. answer # "ok" /\ answer' # "ok"
    BY <2>1, Zenon DEF NotificationsAssumption, Answers
  <2> QED
    <3>1. RowsStay' /\ RefsSent' /\ SentIsLast' /\ OneSlackPost'
      BY <1>a, <2>1, <2>2, <2>3, Zenon DEF RowsStay, RefsSent, SentIsLast, OneSlackPost
    <3>2. RefOfPost' /\ BatchKnowsRef'
      BY <1>a, <2>1, <2>2, <2>3, Zenon DEF RefOfPost, BatchKnowsRef
    <3> QED
      BY <1>b, <3>1, <3>2, Zenon
<1>9. CASE DeliverDue
  <2>1. UNCHANGED <<rows, answer, last, posts>> /\ batch = <<>>
    BY <1>9, Zenon DEF DeliverDue, queueVars, historyVars
  <2>2. \A i : Pair(i)' = Pair(i)
    BY <2>1 DEF Pair
  <2>3. answer # "ok"
    BY <1>2, <2>1
  <2>4. ASSUME NEW k \in DOMAIN batch', Kind[rows[batch'[k].row].channel] = "slack", posts[Pair(batch'[k].row)] # 0
        PROVE  batch'[k].ref
    <3> DEFINE i == batch'[k].row
    <3>1. i \in Due /\ batch'[k].ref = PreviousRef(i)
      BY <1>9, BatchRead, Zenon
    <3>2. i \in DOMAIN rows /\ rows[i].status = "pending" /\ Pair(i) \in Pairs /\ Pair(i)[2] = rows[i].channel
      BY <1>2, <3>1, Zenon DEF Due, IsDue, Pair
    <3> HIDE DEF i
    <3>3. PICK j \in DOMAIN rows : Pair(j) = Pair(i) /\ rows[j].ref
      BY <1>a, <2>3, <2>4, <3>2, Zenon DEF RefOfPost, i
    <3>4. j <= last[Pair(i)] /\ rows[j].status # "pending" /\ rows[j].status # "deleted"
      BY <1>a, <3>3, Zenon DEF RowsStay, RefsSent
    <3>5. last[Pair(i)] <= i /\ last[Pair(i)] \in Nat
      BY <3>2, Zenon DEF OrderOK, PendingNotOvertaken, DeliveryTypeOK
    <3>6. j \in 1 .. i - 1
      <4>1. j \in Nat /\ i \in Nat /\ j >= 1 /\ j # i
        BY <3>2, <3>3, <3>4 DEF QueueTypeOK
      <4> QED
        BY <3>4, <3>5, <4>1
    <3>7. PreviousRef(i)
      BY <3>3, <3>4, <3>6, Zenon DEF PreviousRef, Earlier
    <3> QED
      BY <3>1, <3>7 DEF i
  <2> QED
    <3>1. RowsStay' /\ RefsSent' /\ OneSlackPost'
      BY <1>a, <2>1, <2>2, Zenon DEF RowsStay, RefsSent, OneSlackPost
    <3>2. SentIsLast' /\ RefOfPost'
      BY <1>a, <2>1, <2>2, <2>3, Zenon DEF SentIsLast, RefOfPost
    <3>3. BatchKnowsRef'
      BY <2>1, <2>2, <2>4, Zenon DEF BatchKnowsRef
    <3> QED
      BY <1>b, <3>1, <3>2, <3>3, Zenon
<1>10. CASE Send
  <2> DEFINE h == batch[1].row
             p == Pair(h)
  <2>1. /\ UNCHANGED <<rows, batch>> /\ answer = None /\ answer' = "ok"
        /\ 1 \in DOMAIN batch /\ h \in DOMAIN rows /\ p \in Pairs /\ InTurn(h)
        /\ last'[p] = h /\ \A q \in Pairs : q # p => last'[q] = last[q]
        /\ \A q \in Pairs : q # p => posts'[q] = posts[q]
        /\ Adds(h, batch[1].ref) => posts'[p] = IF posts[p] = 0 THEN 1 ELSE 2
        /\ ~Adds(h, batch[1].ref) => posts'[p] = posts[p]
    BY <1>10, MessageTaken, Zenon DEF Send, queueVars
  <2>2. p = Pair(h) /\ p[2] = rows[h].channel /\ h = batch[1].row /\ \A i : Pair(i)' = Pair(i)
    BY <2>1, Zenon DEF Pair
  <2> HIDE DEF h, p
  <2>3. "ok" # None
    BY Zenon DEF NotificationsAssumption, Answers
  <2>4. \A i \in DOMAIN rows : rows[i].ref => i <= last'[Pair(i)]
    <3> SUFFICES ASSUME NEW i \in DOMAIN rows, rows[i].ref
                 PROVE  i <= last'[Pair(i)]
      BY Zenon
    <3>1. i <= last[Pair(i)]
      BY <1>a, Zenon DEF RefsSent
    <3>2. CASE Pair(i) = p
      <4>1. last[p] <= h /\ last[p] \in Nat /\ h \in Nat /\ i \in Nat
        BY <2>1, <2>2 DEF InTurn, DeliveryTypeOK, QueueTypeOK
      <4> QED
        BY <2>1, <3>1, <3>2, <4>1
    <3>3. CASE Pair(i) # p
      BY <1>2, <2>1, <3>1, <3>3, Zenon
    <3> QED
      BY <3>2, <3>3, Zenon
  <2>5. ASSUME NEW q \in Pairs, Kind[q[2]] = "slack", posts'[q] # 0, q # p
        PROVE  \E i \in DOMAIN rows : Pair(i) = q /\ rows[i].ref
    BY <1>a, <2>1, <2>3, <2>5, Zenon DEF RefOfPost
  <2>6. ASSUME NEW k \in DOMAIN batch, k # 1, Kind[rows[batch[k].row].channel] = "slack", posts'[Pair(batch[k].row)] # 0
        PROVE  batch[k].ref
    <3>1. Pair(batch[k].row) # p
      BY <2>1, <2>2, <2>6 DEF OrderOK, BatchInTurn
    <3>2. posts[Pair(batch[k].row)] # 0
      BY <1>2, <2>1, <2>6, <3>1, Zenon
    <3> QED
      BY <1>a, <2>1, <2>6, <3>2, Zenon DEF BatchKnowsRef
  <2>7. Kind[p[2]] = "slack" => posts'[p] <= 1
    <3> SUFFICES ASSUME Kind[p[2]] = "slack"
                 PROVE  posts'[p] <= 1
      BY Zenon
    <3>1. posts[p] <= 1
      BY <1>a, <2>1, Zenon DEF OneSlackPost
    <3>2. CASE Adds(h, batch[1].ref)
      <4>1. ~batch[1].ref
        BY <2>2, <3>2, Zenon DEF Adds, slackAdds
      <4>2. posts[p] = 0
        BY <1>a, <2>1, <2>2, <4>1, Zenon DEF BatchKnowsRef
      <4> QED
        BY <2>1, <3>2, <4>2
    <3> QED
      BY <2>1, <3>1, <3>2, Zenon
  <2>8. OneSlackPost'
    <3>1. \A q \in Pairs : Kind[q[2]] = "slack" => posts'[q] <= 1
      BY <1>a, <2>1, <2>7, Zenon DEF OneSlackPost
    <3> QED
      BY <3>1, Zenon DEF OneSlackPost
  <2>9. RowsStay' /\ RefsSent'
    BY <1>a, <2>1, <2>2, <2>4, Zenon DEF RowsStay, RefsSent
  <2>10. RefOfPost'
    <3>1. \A q \in Pairs : Kind[q[2]] = "slack" /\ posts'[q] # 0 =>
             (\E i \in DOMAIN rows : Pair(i) = q /\ rows[i].ref) \/ Pair(batch[1].row) = q
      BY <2>2, <2>5, Zenon
    <3> QED
      BY <2>1, <2>2, <3>1, Zenon DEF RefOfPost
  <2>11. BatchKnowsRef'
    <3>1. answer' # None
      BY <2>1, <2>3, Zenon
    <3> QED
      BY <2>1, <2>2, <2>6, <3>1, Zenon DEF BatchKnowsRef
  <2>12. SentIsLast'
    BY <2>1, <2>2, Zenon DEF SentIsLast
  <2> QED
    BY <1>b, <2>8, <2>9, <2>10, <2>11, <2>12, Zenon
<1>11. CASE Mark
  <2> DEFINE h == batch[1].row
  <2>0. SameRows /\ batch # <<>> /\ h \in DOMAIN rows
    BY <1>11, RowsMarked, Zenon DEF OrderOK
  <2>1. /\ h \in DOMAIN rows
        /\ \A i \in DOMAIN rows : i # h => rows'[i] = rows[i]
        /\ rows[h].status = "deleted" => rows'[h] = rows[h]
        /\ rows[h].status # "deleted" /\ answer = "ok" =>
              rows'[h].status = "sent" /\ rows'[h].ref = (Kind[rows[h].channel] = "slack")
        /\ rows[h].status # "deleted" /\ answer # "ok" =>
              rows'[h].status \in {rows[h].status, "failed"} /\ rows'[h].ref = rows[h].ref
    BY <1>11, RowsMarked, Zenon DEF OrderOK
  <2>2. UNCHANGED <<last, posts>> /\ answer # None /\ answer' = None /\ batch' = Tail(batch)
    BY <1>11, Zenon DEF Mark, historyVars
  <2>3. \A k \in DOMAIN batch' : k \in Nat /\ k >= 1 /\ k + 1 \in DOMAIN batch /\ batch'[k] = batch[k + 1]
    BY <2>0, <2>2 DEF DeliveryTypeOK
  <2>4. answer' # "ok"
    BY <2>2, Zenon DEF NotificationsAssumption, Answers
  <2>5. DOMAIN rows' = DOMAIN rows /\ \A i \in DOMAIN rows : Pair(i)' = Pair(i) /\ rows'[i].channel = rows[i].channel
    BY <2>0 DEF SameRows, QueueTypeOK
  <2>6. rows[h].status # "deleted" /\ Pair(h)[2] = rows[h].channel
    BY <1>a, <2>0, Zenon DEF RowsStay, Pair
  <2>7. answer = "ok" => last[Pair(h)] = h
    BY <1>a, Zenon DEF SentIsLast
  <2> HIDE DEF h
  <2>8. \A i \in DOMAIN rows : rows'[i].status # "deleted"
    BY <1>a, <2>1, <2>6, Zenon DEF RowsStay
  <2>9. ASSUME NEW i \in DOMAIN rows, rows'[i].ref
        PROVE  i <= last[Pair(i)] /\ rows'[i].status # "pending"
    <3>1. CASE i = h /\ answer = "ok"
      BY <2>1, <2>6, <2>7, <3>1 DEF QueueTypeOK
    <3>2. CASE ~(i = h /\ answer = "ok")
      <4>1. rows[i].ref /\ rows'[i].status \in {rows[i].status, "failed"}
        BY <2>1, <2>6, <2>9, <3>2, Zenon
      <4> QED
        BY <1>a, <4>1, Zenon DEF RefsSent
    <3> QED
      BY <3>1, <3>2, Zenon
  <2>10. ASSUME NEW p \in Pairs, Kind[p[2]] = "slack", posts[p] # 0
         PROVE  \E i \in DOMAIN rows : Pair(i) = p /\ rows'[i].ref
    <3>1. CASE answer = "ok" /\ Pair(h) = p
      <4>1. rows'[h].ref
        BY <2>1, <2>6, <2>10, <3>1, Zenon
      <4> QED
        BY <2>1, <3>1, <4>1, Zenon
    <3>2. CASE ~(answer = "ok" /\ Pair(h) = p)
      <4>1. PICK i \in DOMAIN rows : Pair(i) = p /\ rows[i].ref
        BY <1>a, <2>10, <3>2, Zenon DEF RefOfPost, h
      <4>2. rows'[i].ref
        BY <2>1, <2>6, <3>2, <4>1, Zenon
      <4> QED
        BY <4>1, <4>2, Zenon
    <3> QED
      BY <3>1, <3>2, Zenon
  <2>11. ASSUME NEW k \in DOMAIN batch', Kind[rows[batch'[k].row].channel] = "slack", posts[Pair(batch'[k].row)] # 0
         PROVE  batch'[k].ref
    BY <1>a, <2>3, <2>11 DEF BatchKnowsRef
  <2>12. \A k \in DOMAIN batch' : batch'[k].row \in DOMAIN rows
    BY <1>2, <2>3, Zenon
  <2>13. OneSlackPost'
    BY <1>a, <2>2, Zenon DEF OneSlackPost
  <2>14. BatchKnowsRef'
    <3>1. \A k \in DOMAIN batch' : /\ rows'[batch'[k].row].channel = rows[batch'[k].row].channel
                                   /\ Pair(batch[k].row)' = Pair(batch'[k].row)
      BY <2>5, <2>12, Zenon
    <3> QED
      BY <2>2, <2>11, <3>1, Zenon DEF BatchKnowsRef
  <2>15. RowsStay' /\ RefsSent'
    BY <2>2, <2>5, <2>8, <2>9, Zenon DEF RowsStay, RefsSent
  <2>16. RefOfPost' /\ SentIsLast'
    BY <2>2, <2>4, <2>5, <2>10, Zenon DEF RefOfPost, SentIsLast
  <2> QED
    BY <1>b, <2>13, <2>14, <2>15, <2>16, Zenon
<1> QED
  BY <1>0, <1>4, <1>5, <1>6, <1>7, <1>8, <1>9, <1>10, <1>11, Zenon DEF KeptNext, QueueNext, DeliverNext, Deliver

\* The channels of an alert's rows stay, and stay on, so its resolution is for all of them.
LEMMA ChannelsStep ==
    ASSUME NotificationsAssumption, QueueTypeOK, DeliveryTypeOK, RowsHaveOwners, OrderOK, ResolvedIsLast, RefsKnown,
           ChannelsHear, [Next]_vars
    PROVE  ChannelsHear'
<1>0. SUFFICES ASSUME ~lossy, KeptNext \/ UNCHANGED vars
               PROVE  ChannelsHear'
  BY LossyStays, Zenon DEF ChannelsHear
<1>a. RowsStay /\ ChannelsOn /\ AlertsStay /\ NoticeFits /\ EndIsTold
  BY <1>0, Zenon DEF RefsKnown, ChannelsHear
<1>b. (ChannelsOn /\ AlertsStay /\ NoticeFits /\ EndIsTold)' => ChannelsHear'
  BY Zenon DEF ChannelsHear
<1>1. \A i \in DOMAIN rows : /\ rows[i].status # "deleted" /\ channels[rows[i].channel] # None
                             /\ rows[i].channel \in Channels /\ rows[i].alert \in AlertIds
                             /\ channels[rows[i].channel].on
  <2>1. \A i \in DOMAIN rows : rows[i].status # "deleted" /\ channels[rows[i].channel] # None
                                 /\ channels[rows[i].channel].on
    BY <1>a, Zenon DEF RowsStay, RowsHaveOwners, ChannelsOn
  <2>2. \A i \in DOMAIN rows : rows[i].channel \in Channels /\ rows[i].alert \in AlertIds
    BY PairOfRow, Zenon DEF StoredRows
  <2> QED
    BY <2>1, <2>2, Zenon
<1>2. queueing # None =>
         /\ queueing \in Notices
         /\ queueing.alert \in alive
         /\ \A c \in queueing.picked : c \in Channels /\ channels[c] # None /\ channels[c].on
         /\ queueing.event = "resolved" =>
               \A i \in DOMAIN rows : rows[i].alert = queueing.alert => rows[i].channel \in queueing.picked
  <2>1. queueing # None => queueing \in Notices
    BY Zenon DEF QueueTypeOK
  <2>2. queueing # None => queueing.picked \subseteq Channels
    BY <2>1, Zenon DEF Notices
  <2> QED
    BY <1>a, <2>1, <2>2, Zenon DEF NoticeFits, Insertable
<1>3. \A i \in DOMAIN rows : told[rows[i].alert] = "resolved" =>
         \/ queueing # None /\ queueing.alert = rows[i].alert
         \/ \E j \in DOMAIN rows : Pair(j) = Pair(i) /\ rows[j].event = "resolved"
  BY <1>a, Zenon DEF EndIsTold
<1>4. ASSUME SameRows, UNCHANGED <<channels, alive, told, queueing>>
      PROVE  ChannelsHear'
  <2>1. DOMAIN rows' = DOMAIN rows
    BY <1>4 DEF SameRows, QueueTypeOK
  <2>2. \A i \in DOMAIN rows : /\ Pair(i)' = Pair(i) /\ rows'[i].alert = rows[i].alert
                               /\ rows'[i].channel = rows[i].channel /\ rows'[i].event = rows[i].event
    BY <1>4, Zenon DEF SameRows
  <2>3. ChannelsOn' /\ AlertsStay'
    BY <1>4, <1>a, <2>1, <2>2, Zenon DEF ChannelsOn, AlertsStay
  <2>4. NoticeFits'
    BY <1>4, <1>a, <2>1, <2>2, Zenon DEF NoticeFits, Insertable
  <2>5. EndIsTold'
    <3>1. ASSUME NEW i \in DOMAIN rows, told[rows[i].alert] = "resolved",
                 ~(queueing # None /\ queueing.alert = rows[i].alert)
          PROVE  \E j \in DOMAIN rows : Pair(j)' = Pair(i)' /\ rows'[j].event = "resolved"
      <4>1. PICK j \in DOMAIN rows : Pair(j) = Pair(i) /\ rows[j].event = "resolved"
        BY <1>3, <3>1, Zenon
      <4> QED
        BY <2>2, <4>1
    <3> QED
      BY <1>4, <2>1, <2>2, <3>1 DEF EndIsTold
  <2> QED
    BY <1>b, <2>3, <2>4, <2>5, Zenon
<1>5. UNCHANGED rows => SameRows
  BY Zenon DEF SameRows, QueueTypeOK, Pair
<1>6. CASE DeliverDue \/ Deliver \/ UNCHANGED vars
  BY <1>4, <1>5, <1>6, Zenon DEF DeliverDue, Deliver, Send, ChannelOff, SendFails, vars, adminVars, queueVars
<1>7. CASE Mark
  <2>1. SameRows
    BY <1>7, RowsMarked, Zenon DEF OrderOK
  <2> QED
    BY <1>4, <1>7, <2>1, Zenon DEF Mark, adminVars
<1>8. CASE Tick
  BY <1>4, <1>8, RowsTicked, Zenon DEF Tick, adminVars
<1>9. ASSUME NEW c \in Channels, NEW options \in Options, CreateChannel(c, options) \/ UpdateChannel(c, options)
      PROVE  ChannelsHear'
  <2>1. channels' = [channels EXCEPT ![c] = options] /\ UNCHANGED <<alive, rows, told, queueing>> /\ options # None
    BY <1>9, Zenon DEF CreateChannel, UpdateChannel, queueVars, NotificationsAssumption
  <2>2. channels[c] # None /\ channels[c].on => options.on
    BY <1>0, <1>9, Zenon DEF CreateChannel, UpdateChannel, RowsHaveOwners
  <2>3. \A d \in Channels : channels[d] # None /\ channels[d].on => channels'[d] # None /\ channels'[d].on
    BY <2>1, <2>2, Zenon DEF QueueTypeOK
  <2>4. \A i : Pair(i)' = Pair(i)
    BY <2>1, Zenon DEF Pair
  <2>5. \A i \in DOMAIN rows : channels'[rows[i].channel].on
    BY <1>1, <2>3, Zenon
  <2>6. queueing # None => Insertable' /\ \A d \in queueing.picked : channels'[d].on
    BY <1>2, <2>1, <2>3, Zenon DEF Insertable
  <2> QED
    <3>1. ChannelsOn' /\ AlertsStay'
      BY <1>a, <2>1, <2>5, Zenon DEF ChannelsOn, AlertsStay
    <3>2. NoticeFits'
      BY <1>a, <2>1, <2>6, Zenon DEF NoticeFits
    <3>3. EndIsTold'
      BY <1>a, <2>1, <2>4, Zenon DEF EndIsTold
    <3> QED
      BY <1>b, <3>1, <3>2, <3>3, Zenon
<1>10. CASE QueueRefused
  BY <1>2, <1>10, Zenon DEF QueueRefused, Insertable
<1>11. ASSUME NEW a \in AlertIds, NEW event \in Events, NEW severity \in Severities, NEW picks \in SUBSET Channels,
              QueueNotice(a, event, severity, picks)
       PROVE  ChannelsHear'
  <2> DEFINE picked == pickChannels(picks, a, event, severity)
  <2>1. /\ queueing = None /\ UNCHANGED <<channels, rows, lossy>>
        /\ queueing' = [alert |-> a, event |-> event, picked |-> picked]
        /\ told' = [told EXCEPT ![a] = event]
        /\ alive' = IF event = "opened" THEN alive \cup {a} ELSE alive
        /\ Follows(told[a], event)
    BY <1>11, Zenon DEF QueueNotice
  <2>2. a \in alive' /\ alive \subseteq alive'
    <3>1. event # "opened" => told[a] # None
      BY <2>1, Zenon DEF Follows, NotificationsAssumption, Events
    <3> QED
      BY <1>a, <2>1, <3>1, Zenon DEF AlertsStay
  <2>3. \A c \in picked : channels[c] # None /\ channels[c].on
    BY Zenon DEF pickChannels
  <2>4. ASSUME event = "resolved", NEW i \in DOMAIN rows, rows[i].alert = a
        PROVE  rows[i].channel \in picked
    <3>1. rows[i].channel \in NotifiedChannels(a)
      BY <1>1, <2>4, Zenon DEF NotifiedChannels
    <3> QED
      BY <1>1, <2>4, <3>1, Zenon DEF pickChannels
  <2> HIDE DEF picked
  <2>5. queueing'.alert = a /\ queueing'.event = event /\ queueing'.picked = picked /\ queueing' # None
    <3>1. queueing' \in Notices
      BY <2>1, Zenon DEF Notices, pickChannels, picked
    <3> QED
      BY <2>1, <3>1, Zenon DEF NotificationsAssumption
  <2>6. Insertable'
    BY <2>1, <2>2, <2>3, <2>5, Zenon DEF Insertable
  <2>7. AlertsStay'
    BY <1>a, <2>1, <2>2, Zenon DEF QueueTypeOK, AlertsStay
  <2>8. \A i : Pair(i)' = Pair(i)
    BY <2>1, Zenon DEF Pair
  <2>9. \A i \in DOMAIN rows : told'[rows[i].alert] = "resolved" =>
           rows[i].alert = a \/ \E j \in DOMAIN rows : Pair(j) = Pair(i) /\ rows[j].event = "resolved"
    BY <1>1, <1>3, <2>1, Zenon DEF QueueTypeOK
  <2> QED
    <3>1. ChannelsOn'
      BY <1>a, <2>1, Zenon DEF ChannelsOn
    <3>2. NoticeFits'
      BY <2>1, <2>3, <2>4, <2>5, <2>6, Zenon DEF NoticeFits
    <3>3. EndIsTold'
      BY <2>1, <2>5, <2>8, <2>9, Zenon DEF EndIsTold
    <3> QED
      BY <1>b, <2>7, <3>1, <3>2, <3>3, Zenon
<1>12. CASE QueueNotifications
  <2>1. UNCHANGED <<channels, alive, told>> /\ queueing # None /\ queueing' = None
    BY <1>12, Zenon DEF QueueNotifications, adminVars
  <2>2. \A i \in DOMAIN rows : i \in DOMAIN rows' /\ rows'[i] = rows[i] /\ Pair(i)' = Pair(i)
    <3>1. \A i \in DOMAIN rows : i \in DOMAIN rows' /\ rows'[i] = rows[i]
      BY <1>12, RowsQueued, Zenon
    <3> QED
      BY <3>1, Zenon DEF Pair
  <2>3. /\ \A i \in DOMAIN rows' \ DOMAIN rows :
              rows'[i].alert = queueing.alert /\ rows'[i].event = queueing.event /\ rows'[i].channel \in queueing.picked
        /\ \A c \in queueing.picked : \E i \in DOMAIN rows' \ DOMAIN rows : rows'[i].channel = c
    BY <1>12, RowsQueued, Zenon
  <2>4. \A i \in DOMAIN rows' : channels[rows'[i].channel].on
    BY <1>1, <1>2, <2>1, <2>2, <2>3, Zenon
  <2>5. told[queueing.alert] = queueing.event
    BY <2>1, Zenon DEF ResolvedIsLast
  <2>6. ASSUME NEW i \in DOMAIN rows', told[rows'[i].alert] = "resolved"
        PROVE  \E j \in DOMAIN rows' : Pair(j)' = Pair(i)' /\ rows'[j].event = "resolved"
    <3>1. CASE i \notin DOMAIN rows
      BY <2>3, <2>5, <2>6, <3>1, SMTT(30)
    <3>2. CASE i \in DOMAIN rows /\ rows[i].alert # queueing.alert
      <4>1. PICK j \in DOMAIN rows : Pair(j) = Pair(i) /\ rows[j].event = "resolved"
        BY <1>3, <2>2, <2>6, <3>2
      <4> QED
        BY <2>2, <3>2, <4>1, Zenon
    <3>3. CASE i \in DOMAIN rows /\ rows[i].alert = queueing.alert
      <4>1. queueing.event = "resolved" /\ rows[i].channel \in queueing.picked
        BY <1>2, <2>1, <2>2, <2>5, <2>6, <3>3, Zenon
      <4>2. PICK j \in DOMAIN rows' \ DOMAIN rows : rows'[j].channel = rows[i].channel
        BY <2>3, <4>1, Zenon
      <4>3. rows'[j].alert = queueing.alert /\ rows'[j].event = "resolved"
        BY <2>3, <4>1, <4>2, Zenon
      <4>4. Pair(j)' = Pair(i)'
        BY <2>2, <3>3, <4>2, <4>3, Zenon DEF Pair
      <4> QED
        BY <4>2, <4>3, <4>4, Zenon
    <3> QED
      BY <3>1, <3>2, <3>3, Zenon
  <2> QED
    <3>1. ChannelsOn' /\ AlertsStay' /\ NoticeFits'
      BY <1>a, <2>1, <2>4, Zenon DEF ChannelsOn, AlertsStay, NoticeFits
    <3>2. EndIsTold'
      BY <2>1, <2>6, Zenon DEF EndIsTold
    <3> QED
      BY <1>b, <3>1, <3>2, Zenon
<1> QED
  BY <1>0, <1>6, <1>7, <1>8, <1>9, <1>10, <1>11, <1>12, Zenon DEF KeptNext, CreateNext, UpdateNext, QueueNext, DeliverNext
-----------------------------------------------------------------------------
LEMMA NotesInvStep ==
    ASSUME NotificationsAssumption, NotesInv, [Next]_vars
    PROVE  NotesInv'
BY QueueTypeStep, DeliveryTypeStep, OwnersStep, OrderStep, ResolvedStep, IncidentStep, RefsStep, ChannelsStep, Zenon
DEF NotesInv, OrderOK

LEMMA NotesInvInitially ==
    ASSUME NotificationsAssumption, Init
    PROVE  NotesInv
<1>1. rows = <<>> /\ batch = <<>> /\ answer = None /\ queueing = None /\ DOMAIN rows = {} /\ DOMAIN batch = {}
  BY DEF Init
<1>2. \A p \in Pairs : last[p] = 0 /\ posts[p] = 0
  BY Zenon DEF Init, Pairs
<1>3. QueueTypeOK /\ DeliveryTypeOK
  BY DEF Init, QueueTypeOK, DeliveryTypeOK, Pairs
<1>4. RowsHaveOwners
  BY <1>1, Zenon DEF Init, RowsHaveOwners
<1>5. OrderOK /\ OneIncident
  BY <1>1, <1>2 DEF OrderOK, LastIsOfPair, PendingNotOvertaken, BatchInTurn, OneIncident
<1>6. ResolvedIsLast
  BY <1>1 DEF ResolvedIsLast
<1>7. "ok" # None
  BY Zenon DEF NotificationsAssumption, Answers
<1>8. RefsKnown
  BY <1>1, <1>2, <1>7 DEF RefsKnown, RowsStay, RefsSent, SentIsLast, RefOfPost, BatchKnowsRef, OneSlackPost
<1>9. ChannelsHear
  BY <1>1, Zenon DEF Init, ChannelsHear, ChannelsOn, AlertsStay, NoticeFits, EndIsTold
<1> QED
  BY <1>3, <1>4, <1>5, <1>6, <1>8, <1>9 DEF NotesInv

\* The inductive invariant of the channels, the queue and the delivery.
THEOREM NotesInvariance == Spec => []NotesInv
<1>1. Init => NotesInv
  BY NotificationsAssumption, NotesInvInitially
<1>2. NotesInv /\ [Next]_vars => NotesInv'
  BY NotificationsAssumption, NotesInvStep
<1> QED
  BY <1>1, <1>2, PTL DEF Spec

\* DueNotifications holds a row back while an earlier one of its alert and channel is
\* pending: for any alerts, channels and sizes of a batch, a channel that received a
\* later message about an alert never receives an earlier one, whatever is retried,
\* sent twice, lost or restarted.
THEOREM MessagesInOrder == Spec => InOrder
<1>1. NotesInv /\ [Next]_vars => [\A p \in AlertIds \X Channels : last'[p] >= last[p]]_vars
  <2> SUFFICES ASSUME NotesInv, [Next]_vars, NEW p \in Pairs
               PROVE  last'[p] >= last[p]
    BY DEF Pairs
  <2>0. last[p] \in Nat
    BY DEF NotesInv, DeliveryTypeOK
  <2>1. CASE Send \/ SendUnanswered
    <3> DEFINE h == batch[1].row
    <3>1. /\ InTurn(h) /\ last'[Pair(h)] = h /\ h \in DOMAIN rows
          /\ \A q \in Pairs : q # Pair(h) => last'[q] = last[q]
      BY <2>1, MessageTaken, NotificationsAssumption, Zenon DEF NotesInv
    <3>2. h \in Nat
      BY <3>1 DEF NotesInv, QueueTypeOK
    <3> HIDE DEF h
    <3> QED
      BY <2>0, <3>1, <3>2 DEF InTurn
  <2>2. CASE QueueNext \/ DeliverDue
    BY <2>0, <2>2 DEF QueueNext, QueueNotice, QueueNotifications, QueueRefused, DeliverDue, historyVars
  <2>3. CASE ~QueueNext /\ ~DeliverDue /\ ~Send /\ ~SendUnanswered
    BY <2>0, <2>3, GoesOn, NotificationsAssumption DEF NotesInv
  <2> QED
    BY <2>1, <2>2, <2>3
<1> QED
  BY <1>1, NotesInvariance, PTL DEF Spec, InOrder

\* A PagerDuty channel gets one incident about an alert, whatever is retried, sent twice,
\* lost or restarted, since its events have one key and none follows the resolution;
\* where nothing is lost a Slack channel gets one posted message about an alert, since
\* every later one finds its ref.
THEOREM OneMessagePerAlert == Spec => []OneMessage
<1>1. NotesInv => OneMessage
  BY Zenon DEF NotesInv, OneIncident, RefsKnown, OneSlackPost, OneMessage, Pairs
<1> QED
  BY <1>1, NotesInvariance, PTL

\* pickChannels takes the channels notified about the alert, not those the rule picks
\* now: where nothing is deleted, switched off or lost, the resolution is queued for every
\* channel that has a message about the alert.
THEOREM ResolutionReachesAll == Spec => []ResolutionFollows
<1>1. NotesInv => ResolutionFollows
  BY Zenon DEF NotesInv, ChannelsHear, EndIsTold, ResolutionFollows
<1> QED
  BY <1>1, NotesInvariance, PTL

=============================================================================

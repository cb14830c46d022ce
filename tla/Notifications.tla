---------------------------- MODULE Notifications ----------------------------
(***************************************************************************)
(* Notification channels and the queue.  When an alert opens, changes or   *)
(* resolves, queueNotice adds one row per channel to notifications.  A     *)
(* loop reads a batch of due rows, sends them one after the other, and     *)
(* records each as sent, to be tried again, or given up on.  Admins add,   *)
(* change, switch and delete channels meanwhile, services fail or answer   *)
(* too late, and the collector restarts.                                   *)
(*                                                                         *)
(*   collector/notify.go              queueNotice, deliverDue              *)
(*   internal/store/notifications.go  the statements                       *)
(*   internal/notify/                 the senders                          *)
(*                                                                         *)
(* The two reads of queueNotice are one step: only this loop adds rows     *)
(* about an alert, and a channel deleted between them is deleted before.   *)
(* Rows are the queue in id order; a row taken by a cascade is "deleted".  *)
(***************************************************************************)
EXTENDS Naturals, Sequences

CONSTANTS
    AlertIds,
    Channels,     \* ids of notification_channels, never reused, in the order of the names
    Kind,         \* of each channel, which stays
    Options,      \* what else a channel is saved with
    RetryWaits,   \* the waits after each failed try, retryWaits
    Batch,        \* rows in one batch, deliverBatch
    MaxRows,      \* bound: rows ever queued
    None

Events == {"opened", "changed", "resolved"}
Answers == {"ok", "error", "no retry"}
Notices == [alert : AlertIds, event : Events, picked : SUBSET Channels]

ASSUME NotificationsAssumption ==
    /\ Channels \subseteq Nat
    /\ Kind \in [Channels -> {"email", "slack", "pagerduty", "webhook"}]
    /\ Options \subseteq [on : BOOLEAN, default : BOOLEAN, skips : BOOLEAN]
    /\ RetryWaits \in Seq(Nat \ {0})
    /\ Batch \in Nat \ {0}
    /\ MaxRows \in Nat
    /\ None \notin Options /\ None \notin Events \cup Answers /\ None \notin Notices

Severities == 0 .. 2   \* a resolution carries 0, normal
Critical == 2

VARIABLES
    channels,   \* notification_channels: options, None without a row
    used,       \* channel ids given out
    alive,      \* alerts with a row
    lossy,      \* whether anything is deleted, switched off or lost, which stays
    told,       \* the last event the evaluator passed on about an alert
    rows,       \* notifications
    queueing,   \* what queueNotice is about to insert
    batch,      \* what is left of the batch deliverDue read
    answer,     \* how sending the batch's head went, None before
    last,       \* history: the newest row a channel received about an alert
    posts       \* history: messages or incidents a service added about an alert; 2 is two or more

adminVars == <<channels, used, alive, lossy>>
queueVars == <<told, rows, queueing>>
deliveryVars == <<batch, answer>>
historyVars == <<last, posts>>
vars == <<adminVars, queueVars, deliveryVars, historyVars>>

RowIds == 1 .. MaxRows

Init ==
    /\ channels = [c \in Channels |-> None]
    /\ used = {}
    /\ alive = {}
    /\ lossy \in BOOLEAN
    /\ told = [a \in AlertIds |-> None]
    /\ rows = <<>>
    /\ queueing = None
    /\ batch = <<>>
    /\ answer = None
    /\ last = [p \in AlertIds \X Channels |-> 0]
    /\ posts = [p \in AlertIds \X Channels |-> 0]

-----------------------------------------------------------------------------
(* The dashboard, and what takes alerts away *)

CreateChannel(c, options) ==
    /\ c \notin used
    /\ used' = used \cup {c}
    /\ channels' = [channels EXCEPT ![c] = options]
    /\ UNCHANGED <<alive, lossy, queueVars, deliveryVars, historyVars>>

UpdateChannel(c, options) ==
    /\ channels[c] # None
    /\ channels[c].on /\ ~lossy => options.on
    /\ channels' = [channels EXCEPT ![c] = options]
    /\ UNCHANGED <<used, alive, lossy, queueVars, deliveryVars, historyVars>>

\* ON DELETE CASCADE
WithoutRows(gone) ==
    [i \in DOMAIN rows |-> IF i \in gone
                           THEN [rows[i] EXCEPT !.status = "deleted", !.attempts = 0, !.wait = 0,
                                                !.ref = FALSE]
                           ELSE rows[i]]

\* DeleteChannel: its notifications go with it.
DeleteChannel(c) ==
    /\ channels[c] # None
    /\ channels' = [channels EXCEPT ![c] = None]
    /\ rows' = WithoutRows({i \in DOMAIN rows : rows[i].channel = c})
    /\ UNCHANGED <<used, alive, lossy, told, queueing, deliveryVars, historyVars>>

\* The alert's host is removed, or the alert purged.
DeleteAlert(a) ==
    /\ a \in alive
    /\ alive' = alive \ {a}
    /\ rows' = WithoutRows({i \in DOMAIN rows : rows[i].alert = a})
    /\ UNCHANGED <<channels, used, lossy, told, queueing, deliveryVars, historyVars>>

-----------------------------------------------------------------------------
(* Queueing *)

\* What the evaluator may say of an alert next.
Follows(before, event) ==
    IF event = "opened" THEN before = None ELSE before \in {"opened", "changed"}

\* ruleWants: the channels the rule picks, or the default ones.
RuleWants(picks, c) == IF picks = {} THEN channels[c].default ELSE c \in picks

\* NotifiedChannels
NotifiedChannels(a) ==
    {rows[i].channel : i \in {j \in DOMAIN rows : rows[j].alert = a /\ rows[j].status # "deleted"}}

\* Mutant: channels that skip warnings miss resolutions as well.
pickChannels_Skips(picks, a, event, severity) ==
    {c \in Channels :
        /\ channels[c] # None
        /\ channels[c].on
        /\ IF event = "resolved" THEN c \in NotifiedChannels(a) ELSE RuleWants(picks, c)
        /\ channels[c].skips => severity >= Critical}

pickChannels(picks, a, event, severity) ==
    {c \in Channels :
        /\ channels[c] # None
        /\ channels[c].on
        /\ IF event = "resolved" THEN c \in NotifiedChannels(a)
           ELSE RuleWants(picks, c) /\ (channels[c].skips => severity >= Critical)}

\* queueNotice, up to its insert.  The evaluator has written the alert.
QueueNotice(a, event, severity, picks) ==
    /\ queueing = None
    /\ Follows(told[a], event)
    /\ event = "resolved" <=> severity = 0
    /\ alive' = IF event = "opened" THEN alive \cup {a} ELSE alive
    /\ told' = [told EXCEPT ![a] = event]
    /\ queueing' = [alert |-> a, event |-> event, picked |-> pickChannels(picks, a, event, severity)]
    /\ UNCHANGED <<channels, used, lossy, rows, deliveryVars, historyVars>>

\* The ways to list a set of at most MaxRows numbers, smallest first: there is one.
Ascending(set) ==
    {order \in UNION {[1 .. n -> set] : n \in 0 .. MaxRows} :
        /\ \A x \in set : \E p \in DOMAIN order : order[p] = x
        /\ \A p, q \in DOMAIN order : p < q => order[p] < order[q]}

\* A row for each channel picked.
NewRows(order) ==
    [i \in DOMAIN order |->
        [alert |-> queueing.alert, channel |-> order[i], event |-> queueing.event,
         status |-> "pending", attempts |-> 0, wait |-> 0, ref |-> FALSE]]

Insertable == queueing.alert \in alive /\ \A c \in queueing.picked : channels[c] # None

\* QueueNotifications: one transaction.
QueueNotifications ==
    /\ queueing # None
    /\ Insertable
    /\ \E order \in Ascending(queueing.picked) : rows' = rows \o NewRows(order)
    /\ Len(rows') <= MaxRows
    /\ queueing' = None
    /\ UNCHANGED <<adminVars, told, deliveryVars, historyVars>>

\* The channel or the alert of one of the rows is gone, so none is inserted.
QueueRefused ==
    /\ queueing # None
    /\ ~Insertable
    /\ queueing' = None
    /\ UNCHANGED <<adminVars, told, rows, deliveryVars, historyVars>>

\* The store fails; the error is logged.
QueueFails ==
    /\ queueing # None
    /\ queueing' = None
    /\ UNCHANGED <<adminVars, told, rows, deliveryVars, historyVars>>

-----------------------------------------------------------------------------
(* Delivery *)

Pair(i) == <<rows[i].alert, rows[i].channel>>
Earlier(i) == {j \in 1 .. i - 1 : Pair(j) = Pair(i) /\ rows[j].status # "deleted"}

\* Mutant: earlier rows are not waited for.
IsDue_AnyOrder(i) == rows[i].status = "pending" /\ rows[i].wait = 0

IsDue(i) ==
    /\ rows[i].status = "pending"
    /\ rows[i].wait = 0
    /\ \A j \in Earlier(i) : rows[j].status # "pending"

\* Mutant: the ref is taken from the row before, even when it has none.
PreviousRef_Newest(i) ==
    \E j \in Earlier(i) : rows[j].ref /\ \A k \in Earlier(i) : k <= j

\* Whether an earlier message left a ref to update.
PreviousRef(i) == \E j \in Earlier(i) : rows[j].ref

Due == {i \in DOMAIN rows : IsDue(i)}

\* The first Batch rows that are due.
DueNotifications(due) ==
    [p \in {q \in DOMAIN due : q <= Batch} |->
        [row |-> due[p], on |-> channels[rows[due[p]].channel].on, ref |-> PreviousRef(due[p])]]

DeliverDue ==
    /\ batch = <<>>
    /\ Due # {}
    /\ \E due \in Ascending(Due) : batch' = DueNotifications(due)
    /\ UNCHANGED <<adminVars, queueVars, answer, historyVars>>

Sending == batch # <<>> /\ answer = None

\* deliverOne for a channel that was off when the batch was read.
ChannelOff ==
    /\ Sending
    /\ ~Head(batch).on
    /\ answer' = "no retry"
    /\ UNCHANGED <<adminVars, queueVars, batch, historyVars>>

\* "The first message about an alert is posted, and later ones update it."
slackAdds(i, ref) == ~ref

\* "One incident per alert": its events have one key, and one that triggers adds an
\* incident unless that of the key is open.
pagerDutyAdds(i, ref) ==
    /\ rows[i].event # "resolved"
    /\ last[Pair(i)] = 0 \/ rows[last[Pair(i)]].event = "resolved"

\* Every email and every webhook is a message of its own.
Adds(i, ref) ==
    /\ Kind[rows[i].channel] = "slack" => slackAdds(i, ref)
    /\ Kind[rows[i].channel] = "pagerduty" => pagerDutyAdds(i, ref)

\* The service takes the message.
Taken ==
    LET i == Head(batch).row
    IN  /\ last' = [last EXCEPT ![Pair(i)] = i]
        /\ posts' = IF Adds(i, Head(batch).ref) THEN [posts EXCEPT ![Pair(i)] = IF @ = 0 THEN 1 ELSE 2] ELSE posts

Send ==
    /\ Sending
    /\ Head(batch).on
    /\ Taken
    /\ answer' = "ok"
    /\ UNCHANGED <<adminVars, queueVars, batch>>

\* The service takes the message and its answer is lost.
SendUnanswered ==
    /\ Sending
    /\ Head(batch).on
    /\ Taken
    /\ answer' = "error"
    /\ UNCHANGED <<adminVars, queueVars, batch>>

SendFails ==
    /\ Sending
    /\ Head(batch).on
    /\ answer' = "error"
    /\ UNCHANGED <<adminVars, queueVars, batch, historyVars>>

\* retryAfter: there is a wait after this many failures.
Again(failures) == failures <= Len(RetryWaits)

\* Only Slack's Send returns a ref.
MarkSent(row) == [row EXCEPT !.status = "sent", !.attempts = @ + 1, !.ref = Kind[row.channel] = "slack"]

\* Mutant: the try is not counted.
MarkRetry_Uncounted(row) == [row EXCEPT !.wait = RetryWaits[row.attempts + 1]]

MarkRetry(row) == [row EXCEPT !.attempts = @ + 1, !.wait = RetryWaits[row.attempts + 1]]

MarkFailed(row) == [row EXCEPT !.status = "failed", !.attempts = @ + 1]

\* What becomes of the row; an update by id does nothing to one that is gone.
Marked(row) ==
    IF row.status = "deleted" THEN row
    ELSE IF answer = "ok" THEN MarkSent(row)
    ELSE IF answer = "error" /\ Again(row.attempts + 1) THEN MarkRetry(row)
    ELSE MarkFailed(row)

Mark ==
    /\ answer # None
    /\ rows' = [rows EXCEPT ![Head(batch).row] = Marked(@)]
    /\ batch' = Tail(batch)
    /\ answer' = None
    /\ UNCHANGED <<adminVars, told, queueing, historyVars>>

\* The result cannot be recorded; the loop goes on.
MarkFails ==
    /\ answer # None
    /\ batch' = Tail(batch)
    /\ answer' = None
    /\ UNCHANGED <<adminVars, queueVars, historyVars>>

Tick ==
    /\ \E i \in DOMAIN rows : rows[i].wait > 0
    /\ rows' = [i \in DOMAIN rows |-> [rows[i] EXCEPT !.wait = IF @ > 0 THEN @ - 1 ELSE 0]]
    /\ UNCHANGED <<adminVars, told, queueing, deliveryVars, historyVars>>

CollectorRestarts ==
    /\ queueing' = None
    /\ batch' = <<>>
    /\ answer' = None
    /\ UNCHANGED <<adminVars, told, rows, historyVars>>

-----------------------------------------------------------------------------
QueueNext ==
    \/ \E a \in AlertIds, event \in Events, severity \in Severities, picks \in SUBSET Channels :
          QueueNotice(a, event, severity, picks)
    \/ QueueNotifications
    \/ QueueRefused

CreateNext == \E c \in Channels, options \in Options : CreateChannel(c, options)
UpdateNext == \E c \in Channels, options \in Options : UpdateChannel(c, options)
DeleteNext == \E c \in Channels : DeleteChannel(c)

Deliver == Send \/ ChannelOff \/ SendFails

DeliverNext ==
    \/ DeliverDue
    \/ Deliver
    \/ Mark
    \/ Tick

FaultNext ==
    \/ QueueFails
    \/ SendUnanswered
    \/ MarkFails
    \/ CollectorRestarts

\* What is not lost.
KeptNext == CreateNext \/ UpdateNext \/ QueueNext \/ DeliverNext

Next ==
    \/ KeptNext
    \/ lossy /\ DeleteNext
    \/ lossy /\ \E a \in AlertIds : DeleteAlert(a)
    \/ lossy /\ FaultNext

Spec == Init /\ [][Next]_vars

\* Delivery keeps going: the loop's ticker, the clock, and sends that time out.
Fairness ==
    /\ WF_vars(DeliverDue)
    /\ WF_vars(Deliver)
    /\ WF_vars(Mark)
    /\ WF_vars(Tick)

-----------------------------------------------------------------------------
(* Properties *)

\* "Messages about one alert go out in order": a channel that received a later
\* message about an alert never receives an earlier one, whatever is retried,
\* sent twice, lost or restarted.
InOrder == [][\A p \in AlertIds \X Channels : last'[p] >= last[p]]_vars

\* "Each alert is one message, updated when it changes and resolves": a Slack
\* channel gets at most one posted message about an alert, when nothing is lost.
\* A PagerDuty channel gets at most one incident about an alert, whatever is
\* retried, sent twice, lost or restarted.
OneMessage ==
    \A p \in AlertIds \X Channels :
        Kind[p[2]] = "pagerduty" \/ (Kind[p[2]] = "slack" /\ ~lossy) => posts[p] <= 1

\* "A resolved alert goes to the channels that heard about it": once its notice
\* was queued, every channel that has a message about the alert has the
\* resolution, when nothing is lost or switched off.
ResolutionFollows ==
    ~lossy /\ queueing = None => \A i \in DOMAIN rows :
        told[rows[i].alert] = "resolved" =>
            \E j \in DOMAIN rows : Pair(j) = Pair(i) /\ rows[j].event = "resolved"

\* Every notification is sent, given up on or deleted in the end, also with more
\* rows due than a batch takes.
EverySettles ==
    \A i \in RowIds : i \in DOMAIN rows ~> (i \in DOMAIN rows /\ rows[i].status # "pending")

=============================================================================

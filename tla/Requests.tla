------------------------------ MODULE Requests ------------------------------
(***************************************************************************)
(* The changes admins make on the dashboard's rule and channel pages.  A   *)
(* request goes from the browser through the dashboard to a handler of the *)
(* collector, which reads and writes the database in separate statements,  *)
(* so that the statements of two requests interleave; its answer comes     *)
(* back as a grpc status and then as an HTTP one, or not at all.           *)
(*                                                                         *)
(*   client/internal/server/rules.go, notifications.go, server.go          *)
(*   internal/api/rules.go, notifications.go, api.go (toStatus)            *)
(*   internal/alerts/rules.go    Validate                                  *)
(*   internal/notify/            Parse, KeepSecrets, validate of each kind *)
(*   internal/store/rules.go, notifications.go                             *)
(*                                                                         *)
(* Of a rule's or a channel's fields only whether they are filled in as    *)
(* the checks want is kept (right), and a channel's secrets.               *)
(***************************************************************************)
EXTENDS Integers, FiniteSets

CONSTANTS
    Slots,          \* bound: requests at one time
    RuleForms,      \* what is sent as a rule: [name, metric, right, channels, on]
    ChannelForms,   \* what is sent as a channel: [name, kind, right, secret], a value for each secret
    Blank,          \* a secret left empty
    MaxRules,       \* bound: rules ever saved
    MaxChannels     \* bound: channels ever saved

\* Validate knows every metric that is right, a channel's form has its four fields,
\* and its secrets a value each.
ASSUME RequestsAssumption ==
    /\ MaxRules \in Nat /\ MaxChannels \in Nat
    /\ \A f \in RuleForms : "known MetricName" \notin f.right
    /\ \A f \in ChannelForms :
          /\ f = [name |-> f.name, kind |-> f.kind, right |-> f.right, secret |-> f.secret]
          /\ f.secret = [s \in DOMAIN f.secret |-> f.secret[s]]

VARIABLES
    savedRules,      \* alert_rules, by id
    savedChannels,   \* notification_channels, by id
    ruleIds, channelIds,   \* the last ids given out
    request,         \* each request: what it asks and where its handler is
    answered,        \* history: the answer given in the last step
    excused          \* history: channels picked by an import, or deleted while a rule that picks them was saved

requestVars == <<savedRules, savedChannels, ruleIds, channelIds, request, answered, excused>>

Idle == [op |-> "none", at |-> "none"]
NoAnswer == [code |-> 0, done |-> FALSE, saved |-> 0]

NameOf(c) == savedChannels[c].name
ChannelNames == {NameOf(c) : c \in DOMAIN savedChannels}
With(rows, id, row) == [i \in DOMAIN rows \cup {id} |-> IF i = id THEN row ELSE rows[i]]
Without(rows, id) == [i \in DOMAIN rows \ {id} |-> rows[i]]
Taken(rows, name, id) == \E i \in DOMAIN rows \ {id} : rows[i].name = name

-----------------------------------------------------------------------------
(* The checks *)

\* The fields Validate checks, by kind of metric: procUsage and swap are like memory,
\* disk_forecast like disks, kube_workload and kube_pending like kube_node.
Needs(metric) ==
    CASE metric = "disks" -> {"Disk", "Servers", "Op"}
      [] metric = "services" -> {"Service", "Servers", "Op"}
      [] metric = "ping" -> {"Servers"}
      [] metric = "endpoint" -> {"Endpoint", "Method", "ExpectedHTTPCode", "CertDays"}
      [] metric = "kube_node" -> {"Cluster"}
      [] metric = "kube_restarts" -> {"Cluster", "Op"}
      [] metric = "custom" -> {"MetricName", "Servers", "Op"}
      [] metric = "memory" -> {"Servers", "Op"}
      [] OTHER -> {"known MetricName"}

Validate(form) == {"Name", "TriggerIntveral", "Channels"} \cup Needs(form.metric) \subseteq form.right

\* "the settings never sent back to the dashboard", by kind
secrets == [email |-> {"password"}, slack |-> {"token"}, pagerduty |-> {"routingKey"}, webhook |-> {"url", "headerValue"}]

Secret(form, s) == IF s \in DOMAIN form.secret THEN form.secret[s] ELSE Blank

\* validate of each kind of sender; a secret that is filled in is a good one.
emailSender(form) ==
    /\ {"host", "port", "to", "from"} \subseteq form.right
    /\ "user" \in form.right => Secret(form, "password") # Blank

slackSender(form) == Secret(form, "token") # Blank /\ "channel" \in form.right

pagerDutySender(form) == Secret(form, "routingKey") # Blank

webhookSender(form) ==
    /\ Secret(form, "url") # Blank
    /\ Secret(form, "headerValue") # Blank => "headerName" \in form.right

\* "Unknown fields are errors": a setting of another kind, too.
Parse(form) ==
    /\ form.kind \in DOMAIN secrets
    /\ DOMAIN form.secret \subseteq secrets[form.kind]
    /\ CASE form.kind = "email" -> emailSender(form)
         [] form.kind = "slack" -> slackSender(form)
         [] form.kind = "pagerduty" -> pagerDutySender(form)
         [] form.kind = "webhook" -> webhookSender(form)

checkChannelName(form) == "name" \in form.right

\* "blanks a channel's secrets, for showing its settings"
Redact(form) == [form EXCEPT !.secret = [s \in DOMAIN form.secret |-> Blank]]

\* "fills the secrets left empty in next with the ones in current"
KeepSecrets(current, next) ==
    [next EXCEPT !.secret =
        [s \in DOMAIN next.secret \cup DOMAIN current.secret |->
            IF Secret(next, s) = Blank /\ s \in secrets[next.kind] THEN Secret(current, s) ELSE Secret(next, s)]]

-----------------------------------------------------------------------------
(* Answers *)

toStatus(err) ==
    CASE err = "ErrNotFound" -> "NotFound"
      [] err \in {"ErrRuleExists", "ErrChannelExists"} -> "AlreadyExists"
      [] err = "ErrInvalid" -> "InvalidArgument"
      [] err = "canceled" -> "Canceled"
      [] err = "deadline" -> "DeadlineExceeded"
      [] OTHER -> "Internal"

writeGRPCError(status) ==
    CASE status = "Canceled" -> 499
      [] status = "NotFound" -> 404
      [] status \in {"AlreadyExists", "FailedPrecondition"} -> 409
      [] status = "InvalidArgument" -> 400
      [] status \in {"Unavailable", "DeadlineExceeded"} -> 502
      [] OTHER -> 500

Failed(err) == writeGRPCError(toStatus(err))

\* The handler returns.  Nobody learns what it did when the browser went away (499)
\* or the call to the collector failed or timed out (502) in the meantime.
Ends(r, code, done) ==
    /\ request' = [request EXCEPT ![r] = Idle]
    /\ \/ answered' = [code |-> code, done |-> done, saved |-> request[r].saved]
       \/ answered' = NoAnswer

Continues(r, next) ==
    /\ request' = [request EXCEPT ![r] = next]
    /\ answered' = NoAnswer

\* What saveRule, saveChannel and the others answer a request that worked.
Worked(r) == IF request[r].id = 0 THEN 201 ELSE 200

-----------------------------------------------------------------------------
(* The dashboard *)

\* A request arrives: saving a rule or a channel, with id 0 for another one, deleting
\* one or testing a channel.
Arrives(r, op, id, form) ==
    /\ request[r] = Idle
    /\ Continues(r, [op |-> op, id |-> id, form |-> form, at |-> "begin", kept |-> FALSE, saved |-> 0])
    /\ UNCHANGED <<savedRules, savedChannels, ruleIds, channelIds, excused>>

\* One whose body is not JSON or cannot be read, or whose id is none, ends there.
Refused(r, code) ==
    /\ request[r] = Idle
    /\ answered' = [NoAnswer EXCEPT !.code = code]
    /\ UNCHANGED <<savedRules, savedChannels, ruleIds, channelIds, request, excused>>

\* SaveChannel wrote its channel and only reads it again.
Wrote(r) == request[r].at = "reread"

\* A statement fails, or is canceled; what was written before stays written.
StatementFails(r, err) ==
    /\ request[r] # Idle
    /\ Ends(r, Failed(err), Wrote(r))
    /\ UNCHANGED <<savedRules, savedChannels, ruleIds, channelIds, excused>>

Handles(r, op, at) == request[r].op = op /\ request[r].at = at

-----------------------------------------------------------------------------
(* Rules *)

Deleting(n) == \E r \in Slots : Handles(r, "DeleteChannel", "write") /\ request[r].form.name = n
Saving(n) == \E r \in Slots : Handles(r, "SaveRule", "write") /\ n \in request[r].form.channels

\* Mutant: any channel may be picked.
checkRuleChannels_Any(form) == TRUE

checkRuleChannels(form) == form.channels \subseteq ChannelNames

SaveRuleChecks(r) ==
    /\ Handles(r, "SaveRule", "begin")
    /\ IF checkRuleChannels(request[r].form) THEN Continues(r, [request[r] EXCEPT !.at = "write"])
       ELSE Ends(r, writeGRPCError("InvalidArgument"), FALSE)
    /\ UNCHANGED <<savedRules, savedChannels, ruleIds, channelIds, excused>>

RuleError(form, id) ==
    IF ~Validate(form) THEN "ErrInvalid"
    ELSE IF id # 0 /\ id \notin DOMAIN savedRules THEN "ErrNotFound"
    ELSE IF Taken(savedRules, form.name, id) THEN "ErrRuleExists"
    ELSE "none"

\* CreateRule or UpdateRule
SaveRuleWrites(r) ==
    /\ Handles(r, "SaveRule", "write")
    /\ LET form == request[r].form
           id == IF request[r].id = 0 THEN ruleIds + 1 ELSE request[r].id
           err == RuleError(form, request[r].id)
       IN  IF err # "none"
           THEN Ends(r, Failed(err), FALSE) /\ UNCHANGED <<savedRules, ruleIds, excused>>
           ELSE /\ id <= MaxRules
                /\ Ends(r, Worked(r), TRUE)
                /\ savedRules' = With(savedRules, id, form)
                /\ ruleIds' = IF request[r].id = 0 THEN id ELSE ruleIds
                /\ excused' = excused \cup {n \in form.channels : Deleting(n)}
    /\ UNCHANGED <<savedChannels, channelIds>>

DeleteRuleWrites(r) ==
    /\ Handles(r, "DeleteRule", "begin")
    /\ IF request[r].id \in DOMAIN savedRules
       THEN savedRules' = Without(savedRules, request[r].id) /\ Ends(r, 200, TRUE)
       ELSE UNCHANGED savedRules /\ Ends(r, Failed("ErrNotFound"), FALSE)
    /\ UNCHANGED <<savedChannels, ruleIds, channelIds, excused>>

\* A file of rules, which are all right and have names of their own.
ParseRules(file) == \A f, g \in file : Validate(f) /\ (f.name = g.name => f = g)

\* "enabled ones only, since the file format has no way to switch a rule off"
exportRules == {savedRules[i] : i \in {i \in DOMAIN savedRules : savedRules[i].on}}

\* The command line adds a rule, or replaces the one of its name, and leaves whether
\* its channels exist to whoever wrote the file.
ImportRules(form) ==
    /\ ParseRules({form})
    /\ LET named == {i \in DOMAIN savedRules : savedRules[i].name = form.name}
           id == IF named = {} THEN ruleIds + 1 ELSE CHOOSE i \in named : TRUE
       IN  /\ id <= MaxRules
           /\ savedRules' = With(savedRules, id, form)
           /\ ruleIds' = IF named = {} THEN id ELSE ruleIds
    /\ excused' = excused \cup {n \in form.channels : n \notin ChannelNames \/ Deleting(n)}
    /\ answered' = NoAnswer
    /\ UNCHANGED <<savedChannels, channelIds, request>>

-----------------------------------------------------------------------------
(* Channels *)

\* The channel is read, its name and kind stay, secrets left empty are filled in from
\* it, and the settings are checked as the sender would read them.
SaveChannelReads(r) ==
    /\ Handles(r, "SaveChannel", "begin")
    /\ LET id == request[r].id
           form == IF id = 0 THEN request[r].form
                   ELSE KeepSecrets(savedChannels[id], [request[r].form EXCEPT !.name = NameOf(id), !.kind = savedChannels[id].kind])
       IN  IF id # 0 /\ id \notin DOMAIN savedChannels
           THEN Ends(r, Failed("ErrNotFound"), FALSE)
           ELSE IF ~checkChannelName(form) \/ ~Parse(form)
           THEN Ends(r, writeGRPCError("InvalidArgument"), FALSE)
           ELSE Continues(r, [request[r] EXCEPT !.at = "write", !.kept = Redact(request[r].form) = request[r].form, !.form = form])
    /\ UNCHANGED <<savedRules, savedChannels, ruleIds, channelIds, excused>>

ChannelError(form, id) ==
    CASE id = 0 /\ Taken(savedChannels, form.name, 0) -> "ErrChannelExists"
      [] id # 0 /\ id \notin DOMAIN savedChannels -> "ErrNotFound"
      [] OTHER -> "none"

\* CreateChannel or UpdateChannel
SaveChannelWrites(r) ==
    /\ Handles(r, "SaveChannel", "write")
    /\ LET form == request[r].form
           id == IF request[r].id = 0 THEN channelIds + 1 ELSE request[r].id
           err == ChannelError(form, request[r].id)
       IN  IF err # "none"
           THEN Ends(r, Failed(err), FALSE) /\ UNCHANGED <<savedChannels, channelIds>>
           ELSE /\ id <= MaxChannels
                /\ Continues(r, [request[r] EXCEPT !.at = "reread", !.saved = id, !.form = Blank, !.kept = FALSE])
                /\ savedChannels' = With(savedChannels, id, form)
                /\ channelIds' = IF request[r].id = 0 THEN id ELSE channelIds
    /\ UNCHANGED <<savedRules, ruleIds, excused>>

\* The answer is the channel as it is now, which may be gone again.
SaveChannelRereads(r) ==
    /\ Handles(r, "SaveChannel", "reread")
    /\ Ends(r, IF request[r].saved \in DOMAIN savedChannels THEN Worked(r) ELSE Failed("ErrNotFound"), TRUE)
    /\ UNCHANGED <<savedRules, savedChannels, ruleIds, channelIds, excused>>

\* The channel is read, and then the rules: what changes in between, the second
\* statement or the write notices.
DeleteChannelReads(r) ==
    /\ Handles(r, "DeleteChannel", "begin")
    /\ LET id == request[r].id
       IN  IF id \notin DOMAIN savedChannels THEN Ends(r, Failed("ErrNotFound"), FALSE)
           ELSE IF \E i \in DOMAIN savedRules : NameOf(id) \in savedRules[i].channels
           THEN Ends(r, writeGRPCError("FailedPrecondition"), FALSE)
           ELSE Continues(r, [request[r] EXCEPT !.at = "write", !.form = savedChannels[id]])
    /\ UNCHANGED <<savedRules, savedChannels, ruleIds, channelIds, excused>>

\* Mutant: a channel that is gone by now is not noticed.
DeleteChannelWrites_Blind(r) ==
    /\ Handles(r, "DeleteChannel", "write")
    /\ savedChannels' = Without(savedChannels, request[r].id)
    /\ Ends(r, 200, request[r].id \in DOMAIN savedChannels)
    /\ excused' = excused \cup {n \in {request[r].form.name} : Saving(n)}
    /\ UNCHANGED <<savedRules, ruleIds, channelIds>>

DeleteChannelWrites(r) ==
    /\ Handles(r, "DeleteChannel", "write")
    /\ IF request[r].id \in DOMAIN savedChannels
       THEN savedChannels' = Without(savedChannels, request[r].id) /\ Ends(r, 200, TRUE)
       ELSE UNCHANGED savedChannels /\ Ends(r, Failed("ErrNotFound"), FALSE)
    /\ excused' = excused \cup {n \in {request[r].form.name} : Saving(n)}
    /\ UNCHANGED <<savedRules, ruleIds, channelIds>>

\* The saved channel is read, and a test is sent to its service.
TestChannelReads(r) ==
    /\ Handles(r, "TestChannel", "begin")
    /\ IF request[r].id \notin DOMAIN savedChannels THEN Ends(r, Failed("ErrNotFound"), FALSE)
       ELSE IF ~Parse(savedChannels[request[r].id])
       THEN Ends(r, 200, TRUE)
       ELSE Continues(r, [request[r] EXCEPT !.at = "send"])
    /\ UNCHANGED <<savedRules, savedChannels, ruleIds, channelIds, excused>>

\* "A failed test is an answer, not an error": 200 says that there was a test.
TestChannelSends(r) ==
    /\ Handles(r, "TestChannel", "send")
    /\ Ends(r, 200, TRUE)
    /\ UNCHANGED <<savedRules, savedChannels, ruleIds, channelIds, excused>>

\* What the page of channels shows.
channelInfo(c) == Redact(savedChannels[c])
NotificationChannels == [c \in DOMAIN savedChannels |-> channelInfo(c)]
toChannel(info, admin) == IF admin THEN info ELSE [info EXCEPT !.right = {}, !.secret = <<>>]
getChannels(admin) == [c \in DOMAIN NotificationChannels |-> toChannel(NotificationChannels[c], admin)]

-----------------------------------------------------------------------------
RequestsInit ==
    /\ \E form \in {f \in ChannelForms : checkChannelName(f) /\ Parse(f)}, n \in {0, 1} :
          /\ savedChannels = [c \in 1 .. n |-> form]
          /\ channelIds = n
    /\ \E form \in {f \in RuleForms : Validate(f) /\ checkRuleChannels(f)}, n \in {0, 1} :
          /\ savedRules = [i \in 1 .. n |-> form]
          /\ ruleIds = n
    /\ request = [r \in Slots |-> Idle]
    /\ answered = NoAnswer
    /\ excused = {}

\* The requests there are: no form goes with those that take an id only.
Asks(r) ==
    \/ \E id \in 0 .. MaxRules, form \in RuleForms : Arrives(r, "SaveRule", id, form)
    \/ \E id \in 0 .. MaxChannels, form \in ChannelForms : Arrives(r, "SaveChannel", id, form)
    \/ \E id \in 1 .. MaxRules : Arrives(r, "DeleteRule", id, Blank)
    \/ \E op \in {"DeleteChannel", "TestChannel"}, id \in 1 .. MaxChannels : Arrives(r, op, id, Blank)

Handler(r) ==
    \/ SaveRuleChecks(r) \/ SaveRuleWrites(r) \/ DeleteRuleWrites(r)
    \/ SaveChannelReads(r) \/ SaveChannelWrites(r) \/ SaveChannelRereads(r)
    \/ DeleteChannelReads(r) \/ DeleteChannelWrites(r)
    \/ TestChannelReads(r)
    \/ TestChannelSends(r)

RequestsNext ==
    \/ \E r \in Slots : Asks(r)
    \/ \E r \in Slots : Handler(r)
    \/ \E r \in Slots, code \in {400, 404, 415} : Refused(r, code)
    \/ \E r \in Slots, err \in {"canceled", "deadline", "other"} : StatementFails(r, err)
    \/ \E form \in RuleForms : ImportRules(form)

RequestsSpec == RequestsInit /\ [][RequestsNext]_requestVars

-----------------------------------------------------------------------------
(* Properties *)

\* toStatus and writeGRPCError after any interleaving of handlers: a request that
\* is answered 200 or 201 did what it asks, one that is answered that it
\* is wrong (400, 409, 415) did nothing, and 404 after a channel was saved says that
\* the channel is gone again.
AnswersTrue ==
    /\ answered.code \in {200, 201} => answered.done
    /\ answered.code \in {400, 409, 415} => ~answered.done
    /\ answered.code = 404 /\ answered.done => answered.saved \notin DOMAIN savedChannels

\* The fields the evaluator reads of a rule (ruleTarget, ruleHosts, getAlertType, evaluateCluster).
Judges(metric) ==
    CASE metric = "disks" -> {"Disk", "Servers", "Op"}
      [] metric = "services" -> {"Service", "Servers", "Op"}
      [] metric = "ping" -> {"Servers"}
      [] metric = "endpoint" -> {"Endpoint", "ExpectedHTTPCode", "CertDays"}
      [] metric = "kube_node" -> {"Cluster"}
      [] metric = "kube_restarts" -> {"Cluster", "Op"}
      [] OTHER -> {"Servers", "Op"}

\* Validate, checkRuleChannels, DeleteChannel, KeepSecrets, Redact and Parse: whichever
\* edits follow or overlap one another, every saved rule has what the evaluator reads
\* of it, the channels it picks exist, unless it came from a file or the channel was
\* deleted while the rule was being saved, no two rules or channels have one name, and
\* exported rules can be imported.  Every saved channel has what its sender needs, so
\* that no delivery fails over its settings, and what the page shows of it has no
\* secret and, saved as it is, changes nothing.
SavedWork ==
    /\ \A i \in DOMAIN savedRules :
          /\ Judges(savedRules[i].metric) \subseteq savedRules[i].right
          /\ savedRules[i].channels \subseteq ChannelNames \cup excused
          /\ \A j \in DOMAIN savedRules : savedRules[i].name = savedRules[j].name => i = j
    /\ ParseRules(exportRules)
    /\ \A c \in DOMAIN savedChannels :
          /\ Parse(savedChannels[c])
          /\ \A s \in DOMAIN getChannels(TRUE)[c].secret : getChannels(TRUE)[c].secret[s] = Blank
          /\ KeepSecrets(savedChannels[c], getChannels(TRUE)[c]) = savedChannels[c]
          /\ \A d \in DOMAIN savedChannels : NameOf(c) = NameOf(d) => c = d

\* "A secret left empty keeps the saved one.": saveChannel's comment.
SecretsKept ==
    [][\A r \in Slots, c \in DOMAIN savedChannels :
          Handles(r, "SaveChannel", "write") /\ request[r].id = c /\ request[r].kept
          /\ request'[r].at = "reread" =>
              savedChannels'[c].secret = savedChannels[c].secret]_requestVars

=============================================================================

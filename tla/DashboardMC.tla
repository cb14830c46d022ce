----------------------------- MODULE DashboardMC ----------------------------
(***************************************************************************)
(* Sessions and Requests for TLC.  They share no state: a behaviour is one *)
(* of the sessions or one of the admins' requests.                         *)
(***************************************************************************)
EXTENDS Sessions, Requests, TLC

CONSTANTS disk, up, ops, s1, s2

VARIABLE part

allVars == <<vars, requestVars, part>>

Complete(metric) == {"Name", "TriggerIntveral", "Channels"} \cup Judges(metric)

RuleForm(name, metric, right, channels) ==
    [name |-> name, metric |-> metric, right |-> right, channels |-> channels, on |-> TRUE]

\* A disk rule, one without its disk, and one that picks a channel.
MCRuleForms ==
    {RuleForm(disk, "disks", Complete("disks"), {}),
     RuleForm(disk, "disks", Complete("disks") \ {"Disk"}, {}),
     RuleForm(up, "ping", Complete("ping"), {ops})}

\* A webhook's URL is a secret, and so is its header; a Slack channel's token is one.
Webhook(url, value) ==
    [name |-> ops, kind |-> "webhook", right |-> {"name", "headerName"}, secret |-> [url |-> url, headerValue |-> value]]
Slack(token) == [name |-> ops, kind |-> "slack", right |-> {"name", "channel"}, secret |-> [token |-> token]]

MCChannelForms == {Webhook(s1, s2), Webhook(Blank, Blank), Slack(s1)}
TwoSecrets == {Webhook(s1, s2), Webhook(Blank, Blank), Webhook(s2, s1)}

-----------------------------------------------------------------------------
DashboardInit ==
    /\ part \in {"sessions", "requests"}
    /\ Init
    /\ RequestsInit
    /\ part = "sessions" => ruleIds = 0 /\ channelIds = 0

SessionsPart == part = "sessions" /\ Next /\ UNCHANGED <<requestVars, part>>

RequestsPart == part = "requests" /\ RequestsNext /\ UNCHANGED <<vars, part>>

DashboardSpec == DashboardInit /\ [][SessionsPart \/ RequestsPart]_allVars

\* Only the admins' requests.
AdminsSpec == DashboardInit /\ part = "requests" /\ [][RequestsPart]_allVars

\* The requests have the names of the calls.
Symmetry == Permutations(Tokens) \cup Permutations(Calls)

=============================================================================

------------------------------- MODULE Fleet --------------------------------
(***************************************************************************)
(* How a host joins the fleet and how its agent is kept up to date.  A     *)
(* token from the command line is traded for the host's own key; every     *)
(* ping of the agent then says who it is, which version runs and how its   *)
(* last update went, and its answer may carry an update an admin asked     *)
(* for.  Answers get lost after the collector committed, calls are given   *)
(* up and handled later, agents crash at any step of an update, and the    *)
(* dashboard's downloads change while they are being fetched.              *)
(*                                                                         *)
(*   internal/store/enrollment.go, hosts.go, agents.go   the statements    *)
(*   internal/api/api.go, auth.go     Enroll, InitAgent, HandlePing        *)
(*   agent/main.go                    -enroll, starting, pinging           *)
(*   agent/update.go                  the updater                          *)
(*   client/internal/server/agents.go the update request                   *)
(*                                                                         *)
(* One machine per host name.  A build is its version, a signature the     *)
(* version of the build it was made for.                                   *)
(***************************************************************************)
EXTENDS Naturals, Sequences, FiniteSets

CONSTANTS
    Hosts,          \* host names
    Tokens,         \* enrollment tokens
    Calls,          \* Enroll calls the collector can be busy with
    Uses,           \* -uses of a token
    Versions,       \* versions of the dashboard and its downloads: 1 .. the newest
    MaxTime,        \* bound: the last second an update is requested in
    MaxKeys,        \* bound: keys given out
    MaxCrashes,     \* bound: times agents crash
    None

\* A call to Enroll: -enroll may have stopped waiting for it.
Enrolls == [host : Hosts, token : Tokens, phase : {"open", "answered"}, key : Nat \cup {None}, waited : BOOLEAN]

\* An update a host is asked for, by the version and the second of the request.
Updates == [version : Versions, at : Nat]

ASSUME FleetAssumption ==
    /\ Uses \in Nat \ {0}
    /\ MaxTime \in Nat /\ MaxKeys \in Nat /\ MaxCrashes \in Nat
    /\ Versions \subseteq Nat \ {0} /\ 1 \in Versions
    /\ None \notin Hosts \cup Tokens \cup Nat \cup Enrolls \cup Updates

VARIABLES
    \* the store
    tokens,     \* enrollment_tokens: uses left, None without a row
    hosts,      \* hosts with agent_credentials, None without a row
    \* calls the collector is busy with, and what they have locked
    enrolls,
    late,       \* a ping its agent gave up that the collector has yet to handle
    \* each machine
    keyFile,    \* AgentKeyPath
    exe,        \* the agent's file: the version in it
    agent,      \* the agent process
    \* the dashboard: its version, its build and the build's signature
    downloads,
    \* the clock, the bounds and history
    now,
    crashes,
    issued,     \* for each key given out, the token it was for: keys are random,
                \* and so numbered as they are made
    lost        \* hosts whose key was given out and never saved

storeVars == <<tokens, hosts>>
machineVars == <<keyFile, exe, agent>>
vars == <<storeVars, enrolls, late, machineVars, downloads, now, crashes, issued, lost>>

NewRow == [key |-> None, version |-> None, update |-> None, error |-> FALSE]

\* A process that has just started: it reads its key once, and has tried nothing.
Started(h) == [phase |-> "idle", version |-> exe[h], key |-> keyFile[h], tried |-> 0, error |-> FALSE,
               update |-> None, build |-> None, sig |-> None]

Init ==
    /\ tokens = [t \in Tokens |-> None]
    /\ hosts = [h \in Hosts |-> None]
    /\ enrolls = [c \in Calls |-> None]
    /\ late = [h \in Hosts |-> None]
    /\ keyFile = [h \in Hosts |-> None]
    /\ exe = [h \in Hosts |-> 1]
    /\ agent = [h \in Hosts |-> Started(h)]
    /\ downloads = [dashboard |-> 1, build |-> 1, sig |-> 1]
    /\ now = 1
    /\ crashes = 0
    /\ issued = <<>>
    /\ lost = {}

-----------------------------------------------------------------------------
(* Tokens and enrollment *)

Open(c) == enrolls[c] # None /\ enrolls[c].phase = "open"

IssuedFor(t) == {k \in DOMAIN issued : issued[k] = t}

CreateEnrollmentToken(t) ==
    /\ tokens[t] = None
    /\ IssuedFor(t) = {}
    /\ tokens' = [tokens EXCEPT ![t] = Uses]
    /\ UNCHANGED <<hosts, enrolls, late, machineVars, downloads, now, crashes, issued, lost>>

\* The token expires, or PurgeEnrollmentTokens deletes one that is used up.  A row
\* that a transaction holds stays until it is over.
TokenGone(t) ==
    /\ tokens[t] # None
    /\ \A c \in Calls : Open(c) => enrolls[c].token # t
    /\ tokens' = [tokens EXCEPT ![t] = None]
    /\ UNCHANGED <<hosts, enrolls, late, machineVars, downloads, now, crashes, issued, lost>>

\* Mutant: the token is read without FOR UPDATE.
Usable_Unlocked(t) == tokens[t] # None /\ tokens[t] > 0

\* SELECT ... WHERE uses_left > 0 FOR UPDATE
Usable(t) ==
    /\ tokens[t] # None /\ tokens[t] > 0
    /\ \A c \in Calls : Open(c) => enrolls[c].token # t

Waiting(h) == {c \in Calls : enrolls[c] # None /\ enrolls[c].host = h /\ enrolls[c].waited}

\* agent -enroll: the call begins its transaction and locks the token.  A machine
\* runs one -enroll at a time.
EnrollBegins(c, h, t) ==
    /\ enrolls[c] = None
    /\ Waiting(h) = {}
    /\ Usable(t)
    /\ enrolls' = [enrolls EXCEPT ![c] = [host |-> h, token |-> t, phase |-> "open", key |-> None,
                                          waited |-> TRUE]]
    /\ UNCHANGED <<storeVars, late, machineVars, downloads, now, crashes, issued, lost>>

\* Mutant: a host that has a key keeps it.
WithKey_First(row, k) ==
    IF row = None THEN [NewRow EXCEPT !.key = k] ELSE IF row.key = None THEN [row EXCEPT !.key = k] ELSE row

\* A new host, or one that is there already, with its new key.
WithKey(row, k) == [(IF row = None THEN NewRow ELSE row) EXCEPT !.key = k]

\* The host, its key and the use are committed together.
EnrollCommits(c) ==
    /\ Open(c)
    /\ Len(issued) < MaxKeys
    /\ LET h == enrolls[c].host
           t == enrolls[c].token
           k == Len(issued) + 1
       IN  /\ hosts' = [hosts EXCEPT ![h] = WithKey(@, k)]
           /\ tokens' = [tokens EXCEPT ![t] = @ - 1]
           /\ issued' = Append(issued, t)
           /\ lost' = IF enrolls[c].waited THEN lost \ {h} ELSE lost \cup {h}
           /\ enrolls' = [enrolls EXCEPT ![c] = IF enrolls[c].waited
                                                THEN [@ EXCEPT !.phase = "answered", !.key = k]
                                                ELSE None]
    /\ UNCHANGED <<late, machineVars, downloads, now, crashes>>

\* A statement fails and the transaction is rolled back.
EnrollFails(c) ==
    /\ Open(c)
    /\ enrolls' = [enrolls EXCEPT ![c] = None]
    /\ UNCHANGED <<storeVars, late, machineVars, downloads, now, crashes, issued, lost>>

\* The answer arrives and the key is written.
EnrollAnswered(c) ==
    /\ enrolls[c] # None /\ enrolls[c].phase = "answered"
    /\ keyFile' = [keyFile EXCEPT ![enrolls[c].host] = enrolls[c].key]
    /\ enrolls' = [enrolls EXCEPT ![c] = None]
    /\ UNCHANGED <<storeVars, late, exe, agent, downloads, now, crashes, issued, lost>>

\* The key is not written in full: an empty file is like none.
WriteKeyFails(c) ==
    /\ enrolls[c] # None /\ enrolls[c].phase = "answered"
    /\ keyFile' = [keyFile EXCEPT ![enrolls[c].host] = None]
    /\ enrolls' = [enrolls EXCEPT ![c] = None]
    /\ lost' = lost \cup {enrolls[c].host}
    /\ UNCHANGED <<storeVars, late, exe, agent, downloads, now, crashes, issued>>

\* -enroll ends before its answer arrives.  What the collector is doing goes on.
EnrollGivenUp(c) ==
    /\ enrolls[c] # None /\ enrolls[c].waited
    /\ lost' = IF enrolls[c].phase = "answered" THEN lost \cup {enrolls[c].host} ELSE lost
    /\ enrolls' = [enrolls EXCEPT ![c] = IF @.phase = "open" THEN [@ EXCEPT !.waited = FALSE] ELSE None]
    /\ UNCHANGED <<storeVars, late, machineVars, downloads, now, crashes, issued>>

\* InitAgent with the shared key
AddHost(h) ==
    /\ hosts[h] = None
    /\ hosts' = [hosts EXCEPT ![h] = NewRow]
    /\ UNCHANGED <<tokens, enrolls, late, machineVars, downloads, now, crashes, issued, lost>>

\* -remove-agent: the key goes with the host.
RemoveHost(h) ==
    /\ hosts[h] # None
    /\ hosts' = [hosts EXCEPT ![h] = None]
    /\ UNCHANGED <<tokens, enrolls, late, machineVars, downloads, now, crashes, issued, lost>>

-----------------------------------------------------------------------------
(* Pings *)

\* AuthInterceptor: an agent key has to be the one the host has now, and without
\* one the shared key lets the host say its name.
Accepted(h, key) == hosts[h] # None /\ (key # None => hosts[h].key = key)

\* Mutant: an update is over once it was handed out.
CheckedIn_Once(row, ping) ==
    [row EXCEPT !.version = ping.version, !.update = IF row.version = ping.version THEN None ELSE @,
                !.error = ping.error]

\* AgentCheckIn: an update is over once its version runs, and otherwise the error
\* is what the agent reports.
CheckedIn(row, ping) ==
    IF row.update # None /\ row.update.version = ping.version
    THEN [row EXCEPT !.version = ping.version, !.update = None, !.error = FALSE]
    ELSE [row EXCEPT !.version = ping.version, !.error = ping.error]

Phase(h) == agent[h].phase
Ping(h) == [key |-> agent[h].key, version |-> agent[h].version, error |-> agent[h].error]

\* sendPing: the request is on its way.
sendPing(h) ==
    /\ Phase(h) = "idle"
    /\ agent' = [agent EXCEPT ![h].phase = "pinging"]
    /\ UNCHANGED <<storeVars, enrolls, late, keyFile, exe, downloads, now, crashes, issued, lost>>

\* HandlePing: the answer carries the update as the row has it after the check-in.
HandlePing(h) ==
    /\ Phase(h) = "pinging"
    /\ Accepted(h, agent[h].key)
    /\ hosts' = [hosts EXCEPT ![h] = CheckedIn(@, Ping(h))]
    /\ agent' = [agent EXCEPT ![h].phase = "answered",
                              ![h].update = CheckedIn(hosts[h], Ping(h)).update]
    /\ UNCHANGED <<tokens, enrolls, late, keyFile, exe, downloads, now, crashes, issued, lost>>

\* The host is not registered, its key is not known, or the call fails on its way.
PingFails(h) ==
    /\ Phase(h) = "pinging"
    /\ agent' = [agent EXCEPT ![h].phase = "idle"]
    /\ UNCHANGED <<storeVars, enrolls, late, keyFile, exe, downloads, now, crashes, issued, lost>>

\* The agent gives up a call that reaches the collector later.
PingGivenUp(h) ==
    /\ Phase(h) = "pinging"
    /\ late[h] = None
    /\ late' = [late EXCEPT ![h] = Ping(h)]
    /\ agent' = [agent EXCEPT ![h].phase = "idle"]
    /\ UNCHANGED <<storeVars, enrolls, keyFile, exe, downloads, now, crashes, issued, lost>>

HandleLatePing(h) ==
    /\ late[h] # None
    /\ hosts' = IF Accepted(h, late[h].key) THEN [hosts EXCEPT ![h] = CheckedIn(@, late[h])] ELSE hosts
    /\ late' = [late EXCEPT ![h] = None]
    /\ UNCHANGED <<tokens, enrolls, machineVars, downloads, now, crashes, issued, lost>>

-----------------------------------------------------------------------------
(* Updates *)

\* The dashboard is upgraded: its own version, the build and the signature in the
\* downloads folder change one after the other.
Upgrade(part, v) ==
    /\ downloads[part] < v
    /\ downloads' = [downloads EXCEPT ![part] = v]
    /\ UNCHANGED <<storeVars, enrolls, late, machineVars, now, crashes, issued, lost>>

\* WHERE agent_arch <> '' AND agent_version <> the dashboard's: the agent has
\* pinged, and runs another version.
Asks(h) == hosts[h] # None /\ hosts[h].version # None /\ hosts[h].version # downloads.dashboard

Requested(row) == [row EXCEPT !.update = [version |-> downloads.dashboard, at |-> now], !.error = FALSE]

RequestAgentUpdate(h) ==
    /\ Asks(h)
    /\ hosts' = [hosts EXCEPT ![h] = Requested(@)]
    /\ UNCHANGED <<tokens, enrolls, late, machineVars, downloads, now, crashes, issued, lost>>

\* handle: an update to another version that was not tried before.
Handles(h) ==
    /\ agent[h].update # None
    /\ agent[h].update.version # agent[h].version
    /\ agent[h].update.at # agent[h].tried

\* The answer has no update to try, or a task is running and whenIdle drops it.
AnswerDropped(h) ==
    /\ Phase(h) = "answered"
    /\ agent' = [agent EXCEPT ![h].phase = "idle", ![h].update = None]
    /\ UNCHANGED <<storeVars, enrolls, late, keyFile, exe, downloads, now, crashes, issued, lost>>

\* The request is noted as tried before anything is fetched.
UpdateBegins(h) ==
    /\ Phase(h) = "answered"
    /\ Handles(h)
    /\ agent' = [agent EXCEPT ![h].phase = "fetching", ![h].tried = agent[h].update.at]
    /\ UNCHANGED <<storeVars, enrolls, late, keyFile, exe, downloads, now, crashes, issued, lost>>

\* fetchBuild: the build, then its signature.
DownloadBuild(h) ==
    /\ Phase(h) = "fetching"
    /\ agent' = [agent EXCEPT ![h].phase = "fetched", ![h].build = downloads.build]
    /\ UNCHANGED <<storeVars, enrolls, late, keyFile, exe, downloads, now, crashes, issued, lost>>

DownloadSignature(h) ==
    /\ Phase(h) = "fetched"
    /\ agent' = [agent EXCEPT ![h].phase = "checking", ![h].sig = downloads.sig]
    /\ UNCHANGED <<storeVars, enrolls, late, keyFile, exe, downloads, now, crashes, issued, lost>>

\* Verify
Verify(h) == agent[h].sig = agent[h].build

\* installBuild: the build is signed and says it is the version asked for.
Installable(h) == Verify(h) /\ agent[h].build = agent[h].update.version

\* The build takes the place of the agent's file.
InstallBuild(h) ==
    /\ Phase(h) = "checking"
    /\ Installable(h)
    /\ exe' = [exe EXCEPT ![h] = agent[h].build]
    /\ agent' = [agent EXCEPT ![h].phase = "installed"]
    /\ UNCHANGED <<storeVars, enrolls, late, keyFile, downloads, now, crashes, issued, lost>>

\* Mutant: the error is not kept for the next ping.
Failed_Silent(h) == [agent[h] EXCEPT !.phase = "idle", !.update = None, !.build = None, !.sig = None]

Failed(h) == [agent[h] EXCEPT !.phase = "idle", !.error = TRUE, !.update = None, !.build = None, !.sig = None]

\* A download fails or is refused, a build does not check out, or exec fails: the
\* error waits for the next ping.
UpdateFails(h) ==
    /\ Phase(h) \in {"fetching", "fetched", "checking", "installed"}
    /\ agent' = [agent EXCEPT ![h] = Failed(h)]
    /\ UNCHANGED <<storeVars, enrolls, late, keyFile, exe, downloads, now, crashes, issued, lost>>

\* exec: the process becomes the new build.
Restart(h) ==
    /\ Phase(h) = "installed"
    /\ agent' = [agent EXCEPT ![h] = Started(h)]
    /\ UNCHANGED <<storeVars, enrolls, late, keyFile, exe, downloads, now, crashes, issued, lost>>

\* The agent crashes or is restarted by hand, at any step, and systemd starts it.
Crash(h) ==
    /\ crashes < MaxCrashes
    /\ crashes' = crashes + 1
    /\ agent' = [agent EXCEPT ![h] = Started(h)]
    /\ UNCHANGED <<storeVars, enrolls, late, keyFile, exe, downloads, now, issued, lost>>

Tick ==
    /\ now < MaxTime
    /\ now' = now + 1
    /\ UNCHANGED <<storeVars, enrolls, late, machineVars, downloads, crashes, issued, lost>>

-----------------------------------------------------------------------------
EnrollNext ==
    \/ \E t \in Tokens : CreateEnrollmentToken(t) \/ TokenGone(t)
    \/ \E c \in Calls : \/ \E h \in Hosts, t \in Tokens : EnrollBegins(c, h, t)
                        \/ EnrollCommits(c)
                        \/ EnrollFails(c)
                        \/ EnrollAnswered(c)
                        \/ WriteKeyFails(c)
                        \/ EnrollGivenUp(c)
    \/ \E h \in Hosts : AddHost(h) \/ RemoveHost(h)

Updating(h) ==
    \/ DownloadBuild(h)
    \/ DownloadSignature(h)
    \/ InstallBuild(h)
    \/ UpdateFails(h)
    \/ Restart(h)

PingNext ==
    \E h \in Hosts :
        \/ sendPing(h)
        \/ HandlePing(h)
        \/ PingFails(h)
        \/ PingGivenUp(h)
        \/ HandleLatePing(h)
        \/ AnswerDropped(h)
        \/ UpdateBegins(h)
        \/ Updating(h)

AdminNext ==
    \/ \E part \in {"dashboard", "build", "sig"}, v \in Versions : Upgrade(part, v)
    \/ \E h \in Hosts : RequestAgentUpdate(h)

Next ==
    \/ EnrollNext
    \/ PingNext
    \/ AdminNext
    \/ \E h \in Hosts : Crash(h)
    \/ Tick

Spec == Init /\ [][Next]_vars

\* The ping loop's ticker, calls that end, an update's timeout, a network that gets
\* a ping through now and then, and a host that is not running a task each time.
Fairness ==
    \A h \in Hosts :
        /\ WF_vars(sendPing(h))
        /\ WF_vars(HandlePing(h) \/ PingFails(h))
        /\ SF_vars(HandlePing(h))
        /\ WF_vars(AnswerDropped(h) \/ UpdateBegins(h))
        /\ SF_vars(UpdateBegins(h))
        /\ WF_vars(Updating(h))

FairSpec == Spec /\ Fairness

-----------------------------------------------------------------------------
(* Properties *)

\* "lock the token so two hosts cannot both use its last use": a token never gives
\* out more keys than it has uses, whatever calls overlap, fail or are given up.
TokenUses == \A t \in Tokens : Cardinality(IssuedFor(t)) <= Uses

\* Enroll "returns the host's new credential, which replaces any earlier one": the
\* key the collector takes from a host is in the machine's key file or on its way
\* there, unless an answer was lost after its commit.
KeyOnMachine ==
    \A h \in Hosts :
        hosts[h] # None /\ hosts[h].key # None =>
            \/ keyFile[h] = hosts[h].key
            \/ \E c \in Waiting(h) : enrolls[c].key = hosts[h].key
            \/ h \in lost

\* "An update clears once the agent runs the version asked for": the request goes
\* only when the machine has that build, or with a newer request or the host.
ClearsWhenInstalled ==
    [][\A h \in Hosts :
          hosts[h] # None /\ hosts[h].update # None /\ hosts'[h] # None /\ hosts'[h].update = None =>
              exe[h] = hosts[h].update.version]_vars

Settled(h) == hosts[h] = None \/ hosts[h].update = None \/ hosts[h].error

\* An update that was asked for ends: the agent runs the version, the admin has an
\* error to read, or the host is gone or has no working key.
UpdateSettles ==
    \A h \in Hosts : [](~Settled(h) => <>(Settled(h) \/ ~Accepted(h, agent[h].key)))

=============================================================================

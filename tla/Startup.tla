------------------------------- MODULE Startup ------------------------------
(***************************************************************************)
(* Collectors that start at once on one database: each applies the         *)
(* migrations that are missing, replaces the retention policies with its   *)
(* own and sets up the alert rules, unless that was done.  Any step may    *)
(* fail, and the service manager starts a collector that ended again.      *)
(*                                                                         *)
(*   internal/store/store.go      Migrate, ApplyRetention                  *)
(*   internal/store/rules.go      RulesSetUp, SetupRules                   *)
(*   collector/main.go, rules.go  main, setupRules                         *)
(***************************************************************************)
EXTENDS Naturals, Sequences, FiniteSets

CONSTANTS
    Collectors,
    Migrations,     \* how many migrations there are
    Tables,         \* how many tables have a retention policy
    FileRules,      \* the names of the rules in alerts.json
    Heartbeats,     \* those of them that are ping rules of every host
    Heartbeat,      \* DefaultHeartbeat's name
    MaxFailures     \* bound: steps that fail for a reason of their own

ASSUME StartupAssumption ==
    /\ {Migrations, Tables, MaxFailures} \subseteq Nat
    /\ Heartbeats \subseteq FileRules

VARIABLES
    \* the database
    applied,    \* schema_migrations, in the order of its rows
    policies,   \* tables with a retention policy
    rules,      \* alert_rules, by name
    setup,      \* rule_setup has a row
    \* each collector: what it does, and the migration or table it is at
    collector,
    \* a bound, and history
    failures,
    deleted     \* rules an admin deleted

startupVars == <<applied, policies, rules, setup, collector, failures, deleted>>

Begins == [phase |-> "migrate", at |-> 1]

StartupInit ==
    /\ applied = <<>>
    /\ policies = {}
    /\ rules = {}
    /\ setup = FALSE
    /\ collector = [c \in Collectors |-> Begins]
    /\ failures = 0
    /\ deleted = {}

Phase(c) == collector[c].phase
At(c) == collector[c].at
Goes(c, phase, at) == collector' = [collector EXCEPT ![c] = [phase |-> phase, at |-> at]]

\* log.Fatal
Exits(c) == Goes(c, "ended", 0)

Applied(m) == \E i \in DOMAIN applied : applied[i] = m

-----------------------------------------------------------------------------
(* Migrate *)

\* applyMigration asks for the version outside the transaction.
CheckMigration(c) ==
    /\ Phase(c) = "migrate"
    /\ IF At(c) > Migrations THEN Goes(c, "retention", 1)
       ELSE IF Applied(At(c)) THEN Goes(c, "migrate", At(c) + 1)
       ELSE Goes(c, "apply", At(c))
    /\ UNCHANGED <<applied, policies, rules, setup, failures, deleted>>

\* Mutant: versions are not unique, and the statements can be run twice.
ApplyMigration_Twice(c) ==
    /\ Phase(c) = "apply"
    /\ applied' = Append(applied, At(c))
    /\ Goes(c, "migrate", At(c) + 1)
    /\ UNCHANGED <<policies, rules, setup, failures, deleted>>

\* The statements and the version are committed together.  When another collector
\* committed the version since the check, the statements or the primary key fail.
ApplyMigration(c) ==
    /\ Phase(c) = "apply"
    /\ IF Applied(At(c))
       THEN Exits(c) /\ UNCHANGED applied
       ELSE applied' = Append(applied, At(c)) /\ Goes(c, "migrate", At(c) + 1)
    /\ UNCHANGED <<policies, rules, setup, failures, deleted>>

-----------------------------------------------------------------------------
(* ApplyRetention: each table's policy is removed, and then added *)

\* Mutant: the policy that is there is not removed.
RemovePolicy_Kept(c) ==
    /\ Phase(c) = "retention"
    /\ Goes(c, IF At(c) > Tables THEN "rules" ELSE "add", At(c))
    /\ UNCHANGED <<applied, policies, rules, setup, failures, deleted>>

RemovePolicy(c) ==
    /\ Phase(c) = "retention"
    /\ IF At(c) > Tables
       THEN Goes(c, "rules", 0) /\ UNCHANGED policies
       ELSE policies' = policies \ {At(c)} /\ Goes(c, "add", At(c))
    /\ UNCHANGED <<applied, rules, setup, failures, deleted>>

\* add_retention_policy fails on a table that has one.
AddPolicy(c) ==
    /\ Phase(c) = "add"
    /\ IF At(c) \in policies
       THEN Exits(c) /\ UNCHANGED policies
       ELSE policies' = policies \cup {At(c)} /\ Goes(c, "retention", At(c) + 1)
    /\ UNCHANGED <<applied, rules, setup, failures, deleted>>

-----------------------------------------------------------------------------
(* setupRules *)

RulesSetUp(c) ==
    /\ Phase(c) = "rules"
    /\ Goes(c, IF setup THEN "serve" ELSE "setup", 0)
    /\ UNCHANGED <<applied, policies, rules, setup, failures, deleted>>

\* Mutant: what was seen before the lock is taken as still true.
SetupDone_Before(c) == FALSE

\* "two collectors starting at once set up the rules only once"
SetupDone(c) == setup

\* The file's rules, and the default heartbeat rule unless the file has one for every
\* host or one of its name.
FirstRules == FileRules \cup (IF Heartbeats = {} /\ Heartbeat \notin FileRules THEN {Heartbeat} ELSE {})

\* The rules are inserted; a name that is taken fails them all.
SetupRules(c) ==
    /\ Phase(c) = "setup"
    /\ IF SetupDone(c) THEN Goes(c, "serve", 0) /\ UNCHANGED <<rules, setup>>
       ELSE IF rules \cap FirstRules # {} THEN Exits(c) /\ UNCHANGED <<rules, setup>>
       ELSE rules' = rules \cup FirstRules /\ setup' = TRUE /\ Goes(c, "serve", 0)
    /\ UNCHANGED <<applied, policies, failures, deleted>>

\* An admin deletes a rule on the dashboard, which needs a collector.
DeleteRule(r) ==
    /\ \E c \in Collectors : Phase(c) = "serve"
    /\ r \in rules
    /\ rules' = rules \ {r}
    /\ deleted' = deleted \cup {r}
    /\ UNCHANGED <<applied, policies, setup, collector, failures>>

\* The database cannot be reached, alerts.json is broken, or the process is killed;
\* what was not committed is rolled back.
CollectorEnds(c) ==
    /\ Phase(c) # "ended"
    /\ failures < MaxFailures
    /\ failures' = failures + 1
    /\ Exits(c)
    /\ UNCHANGED <<applied, policies, rules, setup, deleted>>

CollectorStarts(c) ==
    /\ Phase(c) = "ended"
    /\ collector' = [collector EXCEPT ![c] = Begins]
    /\ UNCHANGED <<applied, policies, rules, setup, failures, deleted>>

-----------------------------------------------------------------------------
Starting(c) ==
    \/ CheckMigration(c)
    \/ ApplyMigration(c)
    \/ RemovePolicy(c)
    \/ AddPolicy(c)
    \/ RulesSetUp(c)
    \/ SetupRules(c)
    \/ CollectorStarts(c)

StartupNext ==
    \/ \E c \in Collectors : Starting(c) \/ CollectorEnds(c)
    \/ \E r \in FirstRules : DeleteRule(r)

\* A collector's own steps follow one another, and systemd or docker start it again.
StartupFairness == \A c \in Collectors : WF_startupVars(Starting(c))

StartupSpec == StartupInit /\ [][StartupNext]_startupVars

-----------------------------------------------------------------------------
(* Properties *)

\* Migrate "applies the embedded migrations that have not run yet", in the order of
\* their names: whatever collectors start at once, no migration runs twice or
\* before an earlier one.
MigratedInOrder == \A i \in DOMAIN applied : applied[i] = i

\* "moves the alert rules into the database once": a rule an admin deleted does not
\* come back with a collector that starts.
DeletedStaysDeleted == rules \cap deleted = {}

\* Collectors that start together can make each other's steps fail, since a
\* migration is looked up before its transaction and a policy is removed and added
\* in two; in the end every one of them serves and every table has its policy.
AllServe == <>[](policies = 1 .. Tables /\ \A c \in Collectors : Phase(c) = "serve")

=============================================================================

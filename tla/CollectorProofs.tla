--------------------------- MODULE CollectorProofs --------------------------
(***************************************************************************)
(* Properties of the collector's parts, for any number of collectors,      *)
(* migrations, rules, user names, calls and devices: what collectors that  *)
(* start at once do to the schema and the rules, what endpoint checks that *)
(* come late do to a rule's status, what overlapping password checks do to *)
(* the limit on wrong passwords, and what snapshots, pages and charts      *)
(* show.                                                                   *)
(***************************************************************************)
EXTENDS Startup, Endpoints, Lockout, Snapshots, Charts, FiniteSetTheorems, WellFoundedInduction, TLAPS

-----------------------------------------------------------------------------
(* Startup: migrations *)

Migrating(c) == Phase(c) \in {"migrate", "apply"}

\* A collector is never further than the first migration that is missing: it only
\* goes on from one that it saw, or made, a row of.
MigrationsInv ==
    /\ applied \in Seq(Nat)
    /\ \A i \in 1 .. Len(applied) : applied[i] = i
    /\ DOMAIN collector = Collectors
    /\ \A c \in Collectors : Migrating(c) => At(c) \in 1 .. Len(applied) + 1

\* Where a collector goes, the others stay, and CollectorStarts is such a step too.
LEMMA CollectorMoves ==
    ASSUME DOMAIN collector = Collectors, NEW c \in Collectors, NEW phase, NEW at, Goes(c, phase, at)
    PROVE  /\ DOMAIN collector' = Collectors
           /\ Phase(c)' = phase /\ At(c)' = at
           /\ \A d \in Collectors \ {c} : Phase(d)' = Phase(d) /\ At(d)' = At(d)
BY Zenon DEF Goes, Phase, At

\* A collector's step that leaves the migrations alone keeps MigrationsInv when the
\* collector is out of Migrate, or at its first migration.
LEMMA MigrationsUntouched ==
    ASSUME MigrationsInv, NEW c \in Collectors, NEW phase, NEW at, Goes(c, phase, at), UNCHANGED applied,
           phase \in {"migrate", "apply"} => at \in 1 .. Len(applied) + 1
    PROVE  MigrationsInv'
<1>1. /\ DOMAIN collector' = Collectors
      /\ Phase(c)' = phase /\ At(c)' = at
      /\ \A d \in Collectors \ {c} : Phase(d)' = Phase(d) /\ At(d)' = At(d)
  BY CollectorMoves, Zenon DEF MigrationsInv
<1>2. \A d \in Collectors : Migrating(d)' => At(d)' \in 1 .. Len(applied') + 1
  BY <1>1, Zenon DEF MigrationsInv, Migrating
<1> QED
  BY <1>1, <1>2, Zenon DEF MigrationsInv

LEMMA MigrationsStep ==
    ASSUME StartupAssumption, MigrationsInv, [StartupNext]_startupVars
    PROVE  MigrationsInv'
<1>1. ASSUME NEW c \in Collectors, CheckMigration(c)
      PROVE  MigrationsInv'
  <2>1. /\ Phase(c) = "migrate" /\ At(c) \in 1 .. Len(applied) + 1
        /\ UNCHANGED applied /\ Len(applied) \in Nat
    BY <1>1 DEF CheckMigration, MigrationsInv, Migrating
  <2>2. CASE At(c) > Migrations
    BY <1>1, <2>1, <2>2, MigrationsUntouched, Zenon DEF CheckMigration
  <2>3. CASE ~(At(c) > Migrations) /\ Applied(At(c))
    <3>1. At(c) \in 1 .. Len(applied)
      BY <2>3 DEF Applied, MigrationsInv
    <3> QED
      BY <1>1, <2>1, <2>3, <3>1, MigrationsUntouched DEF CheckMigration
  <2>4. CASE ~(At(c) > Migrations) /\ ~Applied(At(c))
    BY <1>1, <2>1, <2>4, MigrationsUntouched, Zenon DEF CheckMigration
  <2> QED
    BY <2>2, <2>3, <2>4, Zenon
<1>2. ASSUME NEW c \in Collectors, ApplyMigration(c)
      PROVE  MigrationsInv'
  <2>1. CASE Applied(At(c))
    BY <1>2, <2>1, MigrationsUntouched, Zenon DEF ApplyMigration, Exits
  <2>2. CASE ~Applied(At(c))
    <3>1. At(c) = Len(applied) + 1
      <4>1. At(c) \in 1 .. Len(applied) + 1
        BY <1>2, Zenon DEF ApplyMigration, MigrationsInv, Migrating
      <4>2. applied \in Seq(Nat) /\ \A i \in 1 .. Len(applied) : applied[i] = i
        BY Zenon DEF MigrationsInv
      <4>3. DOMAIN applied = 1 .. Len(applied) /\ Len(applied) \in Nat
        BY <4>2
      <4>4. At(c) \notin 1 .. Len(applied)
        BY <2>2, <4>2, <4>3, Zenon DEF Applied
      <4> QED
        BY <4>1, <4>3, <4>4
    <3>2. /\ applied' = Append(applied, At(c)) /\ Goes(c, "migrate", At(c) + 1)
          /\ applied \in Seq(Nat) /\ Len(applied) \in Nat
      BY <1>2, <2>2 DEF ApplyMigration, MigrationsInv
    <3>3. /\ applied' \in Seq(Nat) /\ Len(applied') = Len(applied) + 1
          /\ \A i \in 1 .. Len(applied') : applied'[i] = i
      BY <3>1, <3>2 DEF MigrationsInv
    <3>4. /\ DOMAIN collector' = Collectors
          /\ At(c)' = Len(applied') + 1
          /\ \A d \in Collectors \ {c} : Phase(d)' = Phase(d) /\ At(d)' = At(d)
      BY <3>1, <3>2, <3>3, CollectorMoves, Zenon DEF MigrationsInv
    <3>5. ASSUME NEW d \in Collectors, Migrating(d)'
          PROVE  At(d)' \in 1 .. Len(applied') + 1
      <4>1. CASE d = c
        BY <3>2, <3>3, <3>4, <4>1
      <4>2. CASE d # c
        <5>1. At(d)' = At(d) /\ At(d) \in 1 .. Len(applied) + 1
          BY <3>4, <3>5, <4>2, Zenon DEF MigrationsInv, Migrating
        <5> QED
          BY <3>2, <3>3, <5>1
      <4> QED
        BY <4>1, <4>2
    <3> QED
      BY <3>3, <3>4, <3>5, Zenon DEF MigrationsInv
  <2> QED
    BY <2>1, <2>2
<1>3. ASSUME NEW c \in Collectors, RemovePolicy(c) \/ AddPolicy(c) \/ RulesSetUp(c) \/ SetupRules(c)
      PROVE  MigrationsInv'
  <2>1. /\ UNCHANGED applied
        /\ \E phase \in {"rules", "add", "retention", "ended", "serve", "setup"}, at \in {0, At(c), At(c) + 1} :
              Goes(c, phase, at)
    BY <1>3, Zenon DEF RemovePolicy, AddPolicy, RulesSetUp, SetupRules, Exits
  <2> QED
    BY <2>1, MigrationsUntouched, Zenon
<1>4. ASSUME NEW c \in Collectors, CollectorEnds(c)
      PROVE  MigrationsInv'
  BY <1>4, MigrationsUntouched, Zenon DEF CollectorEnds, Exits
<1>5. ASSUME NEW c \in Collectors, CollectorStarts(c)
      PROVE  MigrationsInv'
  <2>1. Goes(c, "migrate", 1) /\ UNCHANGED applied
    BY <1>5, Zenon DEF CollectorStarts, Begins, Goes
  <2>2. 1 \in 1 .. Len(applied) + 1
    BY DEF MigrationsInv
  <2> QED
    BY <2>1, <2>2, MigrationsUntouched, Zenon
<1>6. CASE (\E r \in FirstRules : DeleteRule(r)) \/ UNCHANGED startupVars
  <2>1. UNCHANGED <<applied, collector>>
    BY <1>6, Zenon DEF DeleteRule, startupVars
  <2> QED
    BY <2>1, Zenon DEF MigrationsInv, Migrating, Phase, At
<1> QED
  BY <1>1, <1>2, <1>3, <1>4, <1>5, <1>6, Zenon DEF StartupNext, Starting

\* Migrate, of any number of collectors that start, fail and start again on one
\* database: no migration runs twice, or before an earlier one.
THEOREM MigrationsInOrder == StartupSpec => []MigratedInOrder
<1>1. StartupInit => MigrationsInv
  BY DEF StartupInit, MigrationsInv, Migrating, Phase, At, Begins
<1>2. MigrationsInv /\ [StartupNext]_startupVars => MigrationsInv'
  BY StartupAssumption, MigrationsStep
<1>3. MigrationsInv => MigratedInOrder
  BY DEF MigrationsInv, MigratedInOrder
<1> QED
  BY <1>1, <1>2, <1>3, PTL DEF StartupSpec

-----------------------------------------------------------------------------
(* Startup: rules *)

\* A rule is deleted only on a dashboard, whose collector set the rules up before.
RulesInv ==
    /\ DOMAIN collector = Collectors
    /\ rules \cap deleted = {}
    /\ \A c \in Collectors : Phase(c) = "serve" => setup = TRUE
    /\ setup = TRUE \/ deleted = {}

\* The lock of SetupRules makes a second setup see the first one.
LEMMA RulesStep ==
    ASSUME RulesInv, [StartupNext]_startupVars
    PROVE  RulesInv'
<1>1. ASSUME NEW c \in Collectors, NEW phase, NEW at, Goes(c, phase, at), UNCHANGED <<rules, setup, deleted>>,
             phase = "serve" => setup = TRUE
      PROVE  RulesInv'
  <2>1. /\ DOMAIN collector' = Collectors
        /\ Phase(c)' = phase
        /\ \A d \in Collectors \ {c} : Phase(d)' = Phase(d)
    BY <1>1, CollectorMoves, Zenon DEF RulesInv
  <2> QED
    BY <1>1, <2>1, Zenon DEF RulesInv
<1>2. ASSUME NEW c \in Collectors,
             CheckMigration(c) \/ ApplyMigration(c) \/ RemovePolicy(c) \/ AddPolicy(c) \/ CollectorEnds(c)
      PROVE  RulesInv'
  <2>1. /\ UNCHANGED <<rules, setup, deleted>>
        /\ \E phase \in {"retention", "migrate", "apply", "ended", "rules", "add"}, at \in {0, 1, At(c), At(c) + 1} :
              Goes(c, phase, at)
    BY <1>2, Zenon DEF CheckMigration, ApplyMigration, RemovePolicy, AddPolicy, CollectorEnds, Exits
  <2> QED
    BY <2>1, <1>1, Zenon
<1>3. ASSUME NEW c \in Collectors, RulesSetUp(c)
      PROVE  RulesInv'
  <2>1. CASE setup = TRUE
    BY <1>3, <2>1, <1>1, Zenon DEF RulesSetUp
  <2>2. CASE setup # TRUE
    <3>1. Goes(c, IF setup THEN "serve" ELSE "setup", 0) /\ UNCHANGED <<rules, setup, deleted>>
      BY <1>3, Zenon DEF RulesSetUp
    <3> QED
      BY <3>1, <2>2, <1>1, Zenon
  <2> QED
    BY <2>1, <2>2, Zenon
<1>4. ASSUME NEW c \in Collectors, SetupRules(c)
      PROVE  RulesInv'
  <2>0. UNCHANGED deleted
    BY <1>4, Zenon DEF SetupRules
  <2>1. CASE UNCHANGED <<rules, setup>>
    BY <1>4, <2>0, <2>1, <1>1, Zenon DEF SetupRules, SetupDone, Exits
  <2>2. CASE ~SetupDone(c) /\ rules' = rules \cup FirstRules /\ setup' = TRUE /\ Goes(c, "serve", 0)
    <3>1. DOMAIN collector' = Collectors
      BY <2>2, CollectorMoves, Zenon DEF RulesInv
    <3> QED
      BY <2>0, <2>2, <3>1, Zenon DEF RulesInv, SetupDone
  <2> QED
    BY <1>4, <2>1, <2>2, Zenon DEF SetupRules
<1>5. ASSUME NEW c \in Collectors, CollectorStarts(c)
      PROVE  RulesInv'
  <2>1. Goes(c, "migrate", 1) /\ UNCHANGED <<rules, setup, deleted>>
    BY <1>5, Zenon DEF CollectorStarts, Begins, Goes
  <2> QED
    BY <2>1, <1>1, Zenon
<1>6. ASSUME NEW r \in FirstRules, DeleteRule(r)
      PROVE  RulesInv'
  BY <1>6, Zenon DEF DeleteRule, RulesInv, Phase
<1>7. CASE UNCHANGED startupVars
  BY <1>7, Zenon DEF RulesInv, startupVars, Phase
<1> QED
  BY <1>2, <1>3, <1>4, <1>5, <1>6, <1>7, Zenon DEF StartupNext, Starting

\* SetupRules, of any number of collectors: a rule that an admin deleted does not come
\* back with a collector that starts, even with one that saw no rules before.
THEOREM DeletedRulesStayDeleted == StartupSpec => []DeletedStaysDeleted
<1>1. StartupInit => RulesInv
  BY DEF StartupInit, RulesInv, Phase, Begins
<1>2. RulesInv /\ [StartupNext]_startupVars => RulesInv'
  BY RulesStep
<1>3. RulesInv => DeletedStaysDeleted
  BY DEF RulesInv, DeletedStaysDeleted
<1> QED
  BY <1>1, <1>2, <1>3, PTL DEF StartupSpec

-----------------------------------------------------------------------------
(* Endpoints *)

Check == [url : URLs, time : Nat]

EndpointsTypeOK ==
    /\ rule \in [RuleNames -> [url : URLs, on : BOOLEAN] \cup {NoRule}]
    /\ saved \in [RuleNames -> SUBSET Check]
    /\ round \subseteq [name : RuleNames, check : Check]
    /\ clock \in Nat
    /\ edited \in [RuleNames -> Nat]

\* No check or edit is of the future.
NothingAhead ==
    /\ \A n \in RuleNames : edited[n] <= clock /\ \A s \in saved[n] : s.time <= clock
    /\ \A c \in round : c.check.time <= clock

\* A check on its way that began after its rule's last change asks the rule's URL.
RoundAsksOwnURL ==
    \A c \in round : c.check.time > edited[c.name] => rule[c.name] # NoRule /\ c.check.url = rule[c.name].url

EndpointsInv == EndpointsTypeOK /\ NothingAhead /\ RoundAsksOwnURL /\ JudgedByOwnURL

\* An edit that touches the names in which the rules differ afterwards, whatever checks
\* they keep, leaves no check younger than it.
LEMMA EditKeepsInv ==
    ASSUME EndpointsInv, NEW names \in SUBSET RuleNames, Edited(names),
           rule' \in [RuleNames -> [url : URLs, on : BOOLEAN] \cup {NoRule}],
           \A n \in RuleNames \ names : rule'[n] = rule[n] /\ saved'[n] = saved[n],
           saved' \in [RuleNames -> SUBSET Check],
           \A n \in RuleNames : \A s \in saved'[n] : \E m \in RuleNames : s \in saved[m],
           UNCHANGED <<round, clock>>
    PROVE  EndpointsInv'
<1>1. /\ edited' \in [RuleNames -> Nat]
      /\ \A n \in names : edited'[n] = clock
      /\ \A n \in RuleNames \ names : edited'[n] = edited[n]
  BY Zenon DEF Edited, EndpointsInv, EndpointsTypeOK
<1>2. EndpointsTypeOK'
  BY <1>1, Zenon DEF EndpointsInv, EndpointsTypeOK
<1>3. NothingAhead'
  BY <1>1 DEF EndpointsInv, EndpointsTypeOK, NothingAhead
<1>4. RoundAsksOwnURL'
  <2> SUFFICES ASSUME NEW c \in round, c.check.time > edited'[c.name]
               PROVE  rule'[c.name] # NoRule /\ c.check.url = rule'[c.name].url
    BY Zenon DEF RoundAsksOwnURL
  <2>1. /\ c.check.time <= clock /\ c.check.time \in Nat /\ clock \in Nat
        /\ c.name \in RuleNames
    BY Zenon DEF EndpointsInv, EndpointsTypeOK, NothingAhead, Check
  <2>2. c.name \notin names
    BY <1>1, <2>1
  <2> QED
    BY <1>1, <2>1, <2>2, Zenon DEF EndpointsInv, RoundAsksOwnURL
<1>5. JudgedByOwnURL'
  <2> SUFFICES ASSUME NEW n \in RuleNames, rule'[n] # NoRule, NEW s \in saved'[n], s.time > edited'[n]
               PROVE  s.url = rule'[n].url
    BY Zenon DEF JudgedByOwnURL, Defined, LatestEndpointCheck
  <2>1. s.time <= clock /\ s \in Check /\ clock \in Nat
    BY Zenon DEF EndpointsInv, EndpointsTypeOK, NothingAhead
  <2>2. n \notin names
    BY <1>1, <2>1 DEF Check
  <2> QED
    BY <1>1, <2>2 DEF EndpointsInv, JudgedByOwnURL, Defined, LatestEndpointCheck
<1> QED
  BY <1>2, <1>3, <1>4, <1>5, Zenon DEF EndpointsInv

LEMMA NewestIsSubset == \A S : Newest(S) \subseteq S
BY DEF Newest

LEMMA EndpointsStep ==
    ASSUME EndpointsInv, [EndpointsNext]_endpointVars
    PROVE  EndpointsInv'
<1> USE DEF EndpointsInv, EndpointsTypeOK
<1>1. ASSUME NEW n \in RuleNames, NEW url \in URLs, CreateRule(n, url)
      PROVE  EndpointsInv'
  BY <1>1, EditKeepsInv, Zenon DEF CreateRule
<1>2. ASSUME NEW n \in RuleNames, NEW url \in URLs, NEW on \in BOOLEAN, UpdateRule(n, url, on)
      PROVE  EndpointsInv'
  <2>1. CASE url = rule[n].url
    <3>1. /\ rule' \in [RuleNames -> [url : URLs, on : BOOLEAN] \cup {NoRule}]
          /\ UNCHANGED <<saved, round, clock, edited>>
          /\ \A m \in RuleNames : rule[m] # NoRule => rule'[m].url = rule[m].url
          /\ \A m \in RuleNames : rule'[m] # NoRule <=> rule[m] # NoRule
      BY <1>2, <2>1, EndpointsAssumption DEF UpdateRule, Defined
    <3> QED
      BY <3>1, Zenon DEF NothingAhead, RoundAsksOwnURL, JudgedByOwnURL, Defined, LatestEndpointCheck
  <2>2. CASE url # rule[n].url
    BY <1>2, <2>2, EditKeepsInv, Zenon DEF UpdateRule
  <2> QED
    BY <2>1, <2>2, Zenon
<1>3. ASSUME NEW old \in RuleNames, NEW new \in RuleNames, RenameRule(old, new)
      PROVE  EndpointsInv'
  <2>1. old # new /\ Newest(saved[old] \cup saved[new]) \subseteq saved[old] \cup saved[new]
    BY <1>3, NewestIsSubset, Zenon DEF RenameRule
  <2>2. /\ rule' \in [RuleNames -> [url : URLs, on : BOOLEAN] \cup {NoRule}]
        /\ saved' \in [RuleNames -> SUBSET Check]
        /\ \A n \in RuleNames \ {old, new} : rule'[n] = rule[n] /\ saved'[n] = saved[n]
        /\ \A n \in RuleNames : \A s \in saved'[n] : \E m \in RuleNames : s \in saved[m]
    BY <1>3, <2>1, Zenon DEF RenameRule
  <2>3. Edited({old, new}) /\ UNCHANGED <<round, clock>> /\ {old, new} \in SUBSET RuleNames
    BY <1>3, Zenon DEF RenameRule
  <2> QED
    BY <2>2, <2>3, EditKeepsInv, Zenon
<1>4. ASSUME NEW n \in RuleNames, DeleteRuleOf(n)
      PROVE  EndpointsInv'
  BY <1>4, EditKeepsInv, Zenon DEF DeleteRuleOf
<1>5. CASE runEndpointChecks
  <2>1. /\ UNCHANGED <<rule, saved, clock, edited>>
        /\ \A c \in round' : /\ c \in [name : RuleNames, check : Check]
                             /\ rule[c.name] # NoRule
                             /\ c.check.url = rule[c.name].url /\ c.check.time = clock
    BY <1>5 DEF runEndpointChecks, EnabledRules, Defined, Check
  <2>2. EndpointsTypeOK' /\ NothingAhead'
    BY <2>1 DEF NothingAhead
  <2>3. RoundAsksOwnURL'
    BY <2>1, Zenon DEF RoundAsksOwnURL
  <2>4. JudgedByOwnURL'
    BY <2>1, Zenon DEF JudgedByOwnURL, Defined, LatestEndpointCheck
  <2> QED
    BY <2>2, <2>3, <2>4, Zenon
<1>6. ASSUME NEW c \in round, checkEndpoint(c)
      PROVE  EndpointsInv'
  <2>1. /\ UNCHANGED <<rule, clock, edited>> /\ round' \subseteq round
        /\ c.name \in RuleNames /\ c.check \in Check
        /\ saved' = [saved EXCEPT ![c.name] = Newest(saved[c.name] \cup {c.check})]
    BY <1>6, Zenon DEF checkEndpoint, SaveEndpointCheck
  <2>2. Newest(saved[c.name] \cup {c.check}) \subseteq saved[c.name] \cup {c.check}
    BY NewestIsSubset, Zenon
  <2>3. /\ saved' \in [RuleNames -> SUBSET Check]
        /\ \A n \in RuleNames : \A s \in saved'[n] : s \in saved[n] \/ (n = c.name /\ s = c.check)
    BY <2>1, <2>2, Zenon
  <2> QED
    BY <2>1, <2>3 DEF NothingAhead, RoundAsksOwnURL, JudgedByOwnURL, Defined, LatestEndpointCheck
<1>7. CASE (\E c \in round : CheckNotSaved(c)) \/ RoundLost \/ UNCHANGED endpointVars
  <2>1. UNCHANGED <<rule, saved, clock, edited>> /\ round' \subseteq round
    BY <1>7, Zenon DEF CheckNotSaved, RoundLost, endpointVars
  <2> QED
    BY <2>1, Zenon DEF NothingAhead, RoundAsksOwnURL, JudgedByOwnURL, Defined, LatestEndpointCheck
<1>8. CASE ClockTicks
  BY <1>8 DEF ClockTicks, NothingAhead, RoundAsksOwnURL, JudgedByOwnURL, Defined, LatestEndpointCheck, Check
<1> QED
  BY <1>1, <1>2, <1>3, <1>4, <1>5, <1>6, <1>7, <1>8, Zenon DEF EndpointsNext

\* SaveEndpointCheck keeps the time a check began at, so that a late answer of the URL
\* a rule had, or of another rule of its name, is never the newest after the change:
\* for any number of rules and URLs, and rounds of any length.
THEOREM RulesJudgedByOwnURL == EndpointsSpec => []JudgedByOwnURL
<1>1. EndpointsInit => EndpointsInv
  BY DEF EndpointsInit, EndpointsInv, EndpointsTypeOK, NothingAhead, RoundAsksOwnURL, JudgedByOwnURL, Defined,
         LatestEndpointCheck
<1>2. EndpointsInv /\ [EndpointsNext]_endpointVars => EndpointsInv'
  BY EndpointsStep
<1>3. EndpointsInv => JudgedByOwnURL
  BY DEF EndpointsInv
<1> QED
  BY <1>1, <1>2, <1>3, PTL DEF EndpointsSpec

-----------------------------------------------------------------------------
(* Lockout *)

\* The calls that are checking a password of n.
Checking(n) == {k \in Checks : checks[k] = n}

LockoutTypeOK ==
    /\ failed \in [Names -> [count : Nat, age : Nat]]
    /\ checks \in [Checks -> Names \cup {NoCheck}]

\* A call that begins while a name has fewer than LoginLimit wrong passwords may still
\* add one, so the calls under way count as if they had failed.
RoomForChecks ==
    \A n \in Names : ~Over(n) => failed[n].count + Cardinality(Checking(n)) <= LoginLimit - 1 + Cardinality(Checks)

LockoutInv == LockoutTypeOK /\ RoomForChecks

LEMMA CheckingIsFinite ==
    ASSUME LockoutAssumption, NEW n
    PROVE  /\ Cardinality(Checks) \in Nat
           /\ IsFiniteSet(Checking(n)) /\ Cardinality(Checking(n)) \in Nat
           /\ Cardinality(Checking(n)) <= Cardinality(Checks)
           /\ \A k \in Checks : /\ Cardinality(Checking(n) \ {k}) \in Nat
                                /\ Cardinality(Checking(n) \ {k}) <= Cardinality(Checking(n))
                                /\ k \in Checking(n) => Cardinality(Checking(n) \ {k}) = Cardinality(Checking(n)) - 1
<1>1. IsFiniteSet(Checks) /\ Checking(n) \subseteq Checks
  BY DEF LockoutAssumption, Checking
<1>2. /\ IsFiniteSet(Checking(n)) /\ Cardinality(Checks) \in Nat /\ Cardinality(Checking(n)) \in Nat
      /\ Cardinality(Checking(n)) <= Cardinality(Checks)
  BY <1>1, FS_Subset, FS_CardinalityType, Zenon
<1>3. ASSUME NEW k \in Checks
      PROVE  /\ Cardinality(Checking(n) \ {k}) \in Nat
             /\ Cardinality(Checking(n) \ {k}) <= Cardinality(Checking(n))
             /\ k \in Checking(n) => Cardinality(Checking(n) \ {k}) = Cardinality(Checking(n)) - 1
  <2>1. Checking(n) \ {k} \subseteq Checking(n)
    OBVIOUS
  <2>2. Cardinality(Checking(n) \ {k}) \in Nat /\ Cardinality(Checking(n) \ {k}) <= Cardinality(Checking(n))
    BY <1>2, <2>1, FS_Subset, FS_CardinalityType, Zenon
  <2>3. k \in Checking(n) => Cardinality(Checking(n) \ {k}) = Cardinality(Checking(n)) - 1
    BY <1>2, FS_RemoveElement, Zenon
  <2> QED
    BY <2>2, <2>3, Zenon
<1> QED
  BY <1>2, <1>3, Zenon

\* A call that returns leaves the other calls checking.
LEMMA CallReturns ==
    ASSUME LockoutTypeOK, NEW k \in Checks, checks' = [checks EXCEPT ![k] = NoCheck], LockoutAssumption
    PROVE  /\ checks' \in [Checks -> Names \cup {NoCheck}]
           /\ \A n \in Names : Checking(n)' = Checking(n) \ {k}
<1>1. checks' \in [Checks -> Names \cup {NoCheck}]
  BY Zenon DEF LockoutTypeOK
<1>2. ASSUME NEW n \in Names
      PROVE  Checking(n)' = Checking(n) \ {k}
  BY <1>1, Zenon DEF Checking, LockoutTypeOK, LockoutAssumption
<1> QED
  BY <1>1, <1>2, Zenon

LEMMA LockoutStep ==
    ASSUME LockoutAssumption, LockoutInv, [LockoutNext]_lockoutVars
    PROVE  LockoutInv'
<1>0. LockoutTypeOK /\ RoomForChecks /\ LoginLimit \in Nat \ {0} /\ LoginWindow \in Nat \ {0}
  BY DEF LockoutInv, LockoutAssumption
<1>1. ASSUME NEW k \in Checks, NEW n \in Names, CheckBegins(k, n)
      PROVE  LockoutInv'
  <2>1. checks' \in [Checks -> Names \cup {NoCheck}] /\ UNCHANGED failed /\ LockoutTypeOK'
    BY <1>0, <1>1, Zenon DEF CheckBegins, LockoutTypeOK
  <2>2. ASSUME NEW m \in Names, ~Over(m)
        PROVE  failed[m].count + Cardinality(Checking(m)') <= LoginLimit - 1 + Cardinality(Checks)
    <3>1. CASE m = n
      <4>1. failed[n].count \in Nat /\ failed[n].count <= LoginLimit - 1
        BY <1>0, <1>1, <2>2, <3>1 DEF CheckBegins, blocked, LockoutTypeOK
      <4>2. Checking(m)' \subseteq Checks /\ IsFiniteSet(Checks)
        BY DEF Checking, LockoutAssumption
      <4>3. Cardinality(Checking(m)') <= Cardinality(Checks) /\ Cardinality(Checks) \in Nat /\ Cardinality(Checking(m)') \in Nat
        BY <4>2, FS_Subset, FS_CardinalityType, Zenon
      <4> QED
        BY <1>0, <3>1, <4>1, <4>3
    <3>2. CASE m # n
      <4>1. Checking(m)' = Checking(m)
        BY <1>0, <1>1, <3>2, Zenon DEF CheckBegins, Checking, LockoutTypeOK, LockoutAssumption
      <4> QED
        BY <1>0, <2>2, <4>1, Zenon DEF RoomForChecks
    <3> QED
      BY <3>1, <3>2, Zenon
  <2> QED
    BY <2>1, <2>2, Zenon DEF LockoutInv, RoomForChecks, Over
<1>2. ASSUME NEW k \in Checks, fail(k)
      PROVE  LockoutInv'
  <2> DEFINE u == checks[k]
  <2>1. u \in Names /\ failed' = Counted(u) /\ checks' = [checks EXCEPT ![k] = NoCheck] /\ k \in Checking(u)
    BY <1>0, <1>2, Zenon DEF fail, LockoutTypeOK, Checking
  <2>2. checks' \in [Checks -> Names \cup {NoCheck}] /\ \A n \in Names : Checking(n)' = Checking(n) \ {k}
    BY <1>0, <2>1, CallReturns, Zenon
  <2>3. /\ failed' \in [Names -> [count : Nat, age : Nat]]
        /\ Over(u) => failed'[u].count = 1
        /\ ~Over(u) => failed'[u].count = failed[u].count + 1
        /\ \A m \in Names \ {u} : failed'[m] \in {failed[m], NoWindow}
    BY <1>0, <2>1 DEF Counted, NoWindow, LockoutTypeOK
  <2>4. ASSUME NEW m \in Names, ~Over(m)'
        PROVE  failed'[m].count + Cardinality(Checking(m)') <= LoginLimit - 1 + Cardinality(Checks)
    <3>0. /\ failed[m].count \in Nat /\ Checking(m)' = Checking(m) \ {k}
          /\ Cardinality(Checks) \in Nat /\ Cardinality(Checking(m)) \in Nat
          /\ Cardinality(Checking(m)) <= Cardinality(Checks)
          /\ Cardinality(Checking(m) \ {k}) \in Nat
          /\ Cardinality(Checking(m) \ {k}) <= Cardinality(Checking(m))
          /\ k \in Checking(m) => Cardinality(Checking(m) \ {k}) = Cardinality(Checking(m)) - 1
      BY <1>0, <2>2, CheckingIsFinite, Zenon DEF LockoutTypeOK
    <3>1. CASE m = u /\ Over(m)
      BY <1>0, <2>1, <2>3, <3>0, <3>1
    <3>2. CASE m = u /\ ~Over(m)
      <4>1. failed[m].count + Cardinality(Checking(m)) <= LoginLimit - 1 + Cardinality(Checks)
        BY <1>0, <3>2, Zenon DEF RoomForChecks
      <4> QED
        BY <1>0, <2>1, <2>3, <3>0, <3>2, <4>1
    <3>3. CASE m # u
      <4>1. failed'[m] = failed[m] /\ ~Over(m)
        BY <1>0, <2>3, <2>4, <3>3 DEF Over, NoWindow
      <4>2. failed[m].count + Cardinality(Checking(m)) <= LoginLimit - 1 + Cardinality(Checks)
        BY <1>0, <4>1, Zenon DEF RoomForChecks
      <4> QED
        BY <1>0, <3>0, <4>1, <4>2
    <3> QED
      BY <3>1, <3>2, <3>3, Zenon
  <2> QED
    BY <2>2, <2>3, <2>4, Zenon DEF LockoutInv, LockoutTypeOK, RoomForChecks
<1>3. ASSUME NEW k \in Checks, clear(k) \/ CheckFails(k)
      PROVE  LockoutInv'
  <2>1. /\ checks' = [checks EXCEPT ![k] = NoCheck]
        /\ failed' \in [Names -> [count : Nat, age : Nat]]
        /\ \A m \in Names : failed'[m] \in {failed[m], NoWindow}
    BY <1>0, <1>3 DEF clear, CheckFails, LockoutTypeOK, NoWindow
  <2>2. checks' \in [Checks -> Names \cup {NoCheck}] /\ \A n \in Names : Checking(n)' = Checking(n) \ {k}
    BY <1>0, <2>1, CallReturns, Zenon
  <2>3. ASSUME NEW m \in Names, ~Over(m)'
        PROVE  failed'[m].count + Cardinality(Checking(m)') <= LoginLimit - 1 + Cardinality(Checks)
    <3>1. failed'[m] = failed[m] /\ ~Over(m)
      BY <1>0, <2>1, <2>3 DEF Over, NoWindow
    <3>2. failed[m].count + Cardinality(Checking(m)) <= LoginLimit - 1 + Cardinality(Checks)
      BY <1>0, <3>1, Zenon DEF RoomForChecks
    <3>3. /\ Cardinality(Checks) \in Nat /\ Cardinality(Checking(m)) \in Nat /\ failed[m].count \in Nat
          /\ Cardinality(Checking(m) \ {k}) \in Nat
          /\ Cardinality(Checking(m) \ {k}) <= Cardinality(Checking(m))
      BY <1>0, CheckingIsFinite, Zenon DEF LockoutTypeOK
    <3>4. Checking(m)' = Checking(m) \ {k} /\ failed'[m].count = failed[m].count /\ LoginLimit \in Nat
      BY <1>0, <2>2, <3>1, Zenon
    <3> QED
      BY <3>2, <3>3, <3>4
  <2> QED
    BY <2>1, <2>2, <2>3, Zenon DEF LockoutInv, LockoutTypeOK, RoomForChecks
<1>4. CASE FailuresForgotten
  BY <1>0, <1>4 DEF FailuresForgotten, LockoutInv, LockoutTypeOK, RoomForChecks, Over, NoWindow
<1>5. CASE TimePasses
  <2>1. /\ failed' \in [Names -> [count : Nat, age : Nat]]
        /\ \A m \in Names : failed'[m].count = failed[m].count /\ (~Over(m)' => ~Over(m))
    BY <1>0, <1>5 DEF TimePasses, LockoutTypeOK, Over
  <2>2. \A m \in Names : Checking(m)' = Checking(m)
    BY <1>5 DEF TimePasses, Checking
  <2> QED
    BY <1>0, <1>5, <2>1, <2>2, Zenon DEF TimePasses, LockoutInv, LockoutTypeOK, RoomForChecks
<1>6. CASE UNCHANGED lockoutVars
  BY <1>6, Zenon DEF lockoutVars, LockoutInv, LockoutTypeOK, RoomForChecks, Over, Checking
<1> QED
  BY <1>1, <1>2, <1>3, <1>4, <1>5, <1>6, Zenon DEF LockoutNext

\* checkLogin, with any number of calls that overlap: a name gets fewer than loginLimit
\* wrong passwords in a window, and one for each call that was let through before.
THEOREM WrongPasswordsLimited == LockoutSpec => []LoginsLimited
<1>1. LockoutInit => LockoutInv
  BY LockoutAssumption DEF LockoutAssumption, LockoutInit, LockoutInv, LockoutTypeOK, RoomForChecks, Over, NoWindow
<1>2. LockoutInv /\ [LockoutNext]_lockoutVars => LockoutInv'
  BY LockoutAssumption, LockoutStep
<1>3. LockoutInv => LoginsLimited
  <2> SUFFICES ASSUME LockoutInv, NEW n \in Names, ~Over(n)
               PROVE  failed[n].count < LoginLimit + Cardinality(Checks)
    BY Zenon DEF LoginsLimited
  <2>1. Cardinality(Checks) \in Nat /\ Cardinality(Checking(n)) \in Nat /\ LoginLimit \in Nat
    BY LockoutAssumption, CheckingIsFinite, Zenon DEF LockoutAssumption
  <2> QED
    BY <2>1 DEF LockoutInv, LockoutTypeOK, RoomForChecks
<1> QED
  BY <1>1, <1>2, <1>3, PTL DEF LockoutSpec

-----------------------------------------------------------------------------
(* The greatest element of a set of naturals *)

\* A set of naturals that is not empty has a least element.
LEMMA LeastNatural ==
    ASSUME NEW T, T \subseteq Nat, T # {}
    PROVE  \E x \in T : \A y \in T : x <= y
<1>1. PICK x \in T : \A y \in T : ~(<<y, x>> \in OpToRel(<, Nat))
  BY NatLessThanWellFounded, WFMin, Zenon
<1>2. \A y \in T : ~(y < x)
  <2> SUFFICES ASSUME NEW y \in T, y < x PROVE FALSE
    OBVIOUS
  <2>1. <<y, x>> \in Nat \X Nat
    OBVIOUS
  <2>2. <<y, x>> \in OpToRel(<, Nat)
    BY <2>1 DEF OpToRel
  <2> QED BY <1>1, <2>2, Zenon
<1> QED BY <1>2

\* A finite set of naturals that is not empty has a greatest element: otherwise take
\* the smallest number of elements of a subset that has none, and take one away.
LEMMA GreatestNatural ==
    ASSUME NEW S, S \subseteq Nat, IsFiniteSet(S), S # {}
    PROVE  \E x \in S : \A y \in S : y <= x
<1> DEFINE Greatest(U) == \E x \in U : \A y \in U : y <= x
           sizes == {k \in Nat : \E U \in SUBSET S : U # {} /\ ~Greatest(U) /\ Cardinality(U) = k}
<1> SUFFICES ASSUME ~Greatest(S) PROVE FALSE
  OBVIOUS
<1>1. Cardinality(S) \in sizes
  BY FS_CardinalityType, Zenon
<1>2. PICK k \in sizes : \A j \in sizes : k <= j
  BY <1>1, LeastNatural, Zenon
<1>3. PICK U \in SUBSET S : U # {} /\ ~Greatest(U) /\ Cardinality(U) = k
  BY <1>2, Zenon
<1>4. IsFiniteSet(U)
  BY <1>3, FS_Subset, Zenon
<1>5. PICK u \in U : TRUE
  BY <1>3, Zenon
<1>6. IsFiniteSet(U \ {u}) /\ Cardinality(U \ {u}) = k - 1
  BY <1>3, <1>4, <1>5, FS_RemoveElement, Zenon
<1>9. k - 1 \in Nat
  BY <1>6, FS_CardinalityType, Zenon
<1>7. CASE U \ {u} = {}
  <2>1. Greatest(U)
    BY <1>3, <1>5, <1>7
  <2> QED BY <1>3, <2>1
<1>8. CASE U \ {u} # {}
  <2>1. k - 1 \notin sizes
    BY <1>2, <1>9
  <2>2. Greatest(U \ {u})
    BY <1>3, <1>6, <1>8, <1>9, <2>1, Zenon
  <2>3. PICK x \in U \ {u} : \A y \in U \ {u} : y <= x
    BY <2>2
  <2>4. Greatest(U)
    <3>1. x \in Nat /\ u \in Nat /\ \A y \in U : y \in Nat
      BY <1>3, <1>5, <2>3
    <3>2. CASE u <= x
      BY <2>3, <3>2
    <3>3. CASE x <= u
      BY <1>5, <2>3, <3>1, <3>3
    <3> QED BY <3>1, <3>2, <3>3
  <2> QED BY <1>3, <2>4
<1> QED BY <1>7, <1>8

LEMMA MaxIsGreatest ==
    ASSUME NEW S, S \subseteq Nat, IsFiniteSet(S), S # {}
    PROVE  Max(S) \in S /\ \A y \in S : y <= Max(S)
<1>1. \E x \in S : \A y \in S : x >= y
  BY GreatestNatural, Zenon
<1> QED BY <1>1, Zenon DEF Max

-----------------------------------------------------------------------------
(* Snapshots: rates *)

Times == 0 .. MaxTicks

\* What the device moved only grows, and nothing is moved after now.
MovedOK ==
    /\ moved \in [Times -> Nat]
    /\ \A s, t \in Times : s <= t => moved[s] <= moved[t]
    /\ \A t \in Times : t >= tick => moved[t] = moved[tick]

\* The counter has not counted more since the reading the agent remembers than the
\* device moved since then: it went on, or began again at 0.
ReadingOK ==
    prev # Absent =>
        /\ prev \in Nat
        /\ prevTime <= collected
        /\ counter # Absent => counter <= prev + (moved[tick] - moved[prevTime])

\* A snapshot is of a time at which the agent collected, and so is the reading its rate begins with.
SnapshotOK(snapshot) ==
    /\ snapshot.time \in 0 .. collected
    /\ snapshot.rate # Absent =>
          /\ snapshot.rate.over \in 0 .. snapshot.time
          /\ snapshot.rate.by \in Int
    /\ RateTrue(snapshot)

RatesTypeOK ==
    /\ tick \in Times /\ collected \in 0 .. tick /\ prevTime \in Times
    /\ counter \in Nat \cup {Absent}
    /\ reader \in {"networks", "diskIO", "containers"}

RatesInv ==
    /\ RatesTypeOK
    /\ MovedOK
    /\ ReadingOK
    /\ \A snapshot \in sent : SnapshotOK(snapshot)
    /\ latest # Absent => SnapshotOK(latest)

\* A snapshot that was right stays right: what was moved up to its time does not change.
LEMMA SnapshotStays ==
    ASSUME SnapshotsAssumption, RatesTypeOK, collected' \in Nat, collected <= collected', NEW snapshot, SnapshotOK(snapshot),
           \A t \in Times : t <= collected => moved'[t] = moved[t]
    PROVE  SnapshotOK(snapshot)'
<1>1. snapshot.time \in Times /\ snapshot.time <= collected /\ snapshot.time \in 0 .. collected'
  BY DEF SnapshotsAssumption, RatesTypeOK, SnapshotOK, Times
<1>2. CASE snapshot.rate = Absent
  BY <1>1, <1>2, Zenon DEF SnapshotOK, RateTrue
<1>3. CASE snapshot.rate # Absent
  <2>1. /\ snapshot.time - snapshot.rate.over \in Times
        /\ snapshot.time - snapshot.rate.over <= collected
    BY <1>1, <1>3 DEF SnapshotsAssumption, RatesTypeOK, SnapshotOK, Times
  <2> QED BY <1>1, <1>3, <2>1, Zenon DEF SnapshotOK, RateTrue
<1> QED BY <1>2, <1>3, Zenon

LEMMA MovesStep ==
    ASSUME SnapshotsAssumption, RatesInv, Moves
    PROVE  RatesInv'
<1>1. /\ tick \in Nat /\ tick \in Times /\ MaxTicks \in Nat /\ collected \in Nat /\ collected < tick
      /\ counter \in Nat /\ moved \in [Times -> Nat]
      /\ UNCHANGED <<reader, prev, prevTime, version, collected, latest, sent, tick>>
  BY DEF SnapshotsAssumption, RatesInv, RatesTypeOK, MovedOK, Times, Moves, agentVars, hostVars
<1>2. /\ counter' = counter + 1
      /\ moved' = [t \in Times |-> IF t >= tick THEN moved[tick] + 1 ELSE moved[t]]
  BY Zenon DEF Moves, Times
<1>3. RatesTypeOK'
  BY <1>1, <1>2 DEF RatesInv, RatesTypeOK
<1>4. MovedOK'
  <2>1. moved' \in [Times -> Nat]
    BY <1>1, <1>2
  <2>2. \A t \in Times : t \in Nat
    BY <1>1 DEF Times
  <2>3. \A s, t \in Times : s <= t => moved'[s] <= moved'[t]
    BY <1>1, <1>2, <2>2 DEF RatesInv, MovedOK
  <2>4. \A t \in Times : t >= tick' => moved'[t] = moved'[tick']
    BY <1>1, <1>2
  <2> QED BY <2>1, <2>3, <2>4, Zenon DEF MovedOK
<1>5. \A t \in Times : t <= collected => moved'[t] = moved[t]
  BY <1>1, <1>2 DEF Times
<1>6. ReadingOK'
  <2> SUFFICES ASSUME prev # Absent
               PROVE  prev' \in Nat /\ prevTime' <= collected' /\ counter' <= prev' + (moved'[tick'] - moved'[prevTime'])
    BY <1>1, Zenon DEF ReadingOK
  <2>1. /\ prev \in Nat /\ prevTime <= collected /\ counter <= prev + (moved[tick] - moved[prevTime])
        /\ prevTime \in Times
    BY <1>1, Zenon DEF RatesInv, ReadingOK, RatesTypeOK, SnapshotsAssumption
  <2>2. moved'[tick] = moved[tick] + 1 /\ moved'[prevTime] = moved[prevTime]
    BY <1>1, <1>2, <1>5, <2>1
  <2>3. moved[tick] \in Nat /\ moved[prevTime] \in Nat
    BY <1>1, <2>1, Zenon
  <2> QED BY <1>1, <1>2, <2>1, <2>2, <2>3
<1>7. collected' \in Nat /\ collected <= collected'
  BY <1>1
<1>8. (\A snapshot \in sent : SnapshotOK(snapshot))'
  BY <1>1, <1>5, <1>7, SnapshotStays, Zenon DEF RatesInv
<1>9. (latest # Absent => SnapshotOK(latest))'
  BY <1>1, <1>5, <1>7, SnapshotStays, Zenon DEF RatesInv
<1> QED BY <1>3, <1>4, <1>6, <1>8, <1>9, Zenon DEF RatesInv

\* What each reader reports and remembers: a rate of no more than the counter counted,
\* and the reading itself, or what was remembered before, or nothing.
LEMMA ReadersSound ==
    ASSUME SnapshotsAssumption, RatesInv, collected < tick, NEW read \in {counter, Unread},
           NEW known \in BOOLEAN, NEW answered \in BOOLEAN
    PROVE  LET reading == Reads(read, known, answered)
           IN  /\ \/ reading.prev = Absent /\ reading.time \in {tick, prevTime}
                  \/ reading.prev = prev /\ reading.time = prevTime
                  \/ read = counter /\ counter # Absent /\ reading.prev = counter /\ reading.time = tick
               /\ \/ reading.rate = Absent
                  \/ /\ prev # Absent /\ counter # Absent
                     /\ reading.rate.over = tick - prevTime
                     /\ reading.rate.by \in {0, counter - prev}
<1>0. counter # Unread /\ Absent # Unread
  BY Zenon DEF SnapshotsAssumption, RatesInv, RatesTypeOK
<1> DEFINE Sound(reading) ==
             /\ \/ reading.prev = Absent /\ reading.time \in {tick, prevTime}
                \/ reading.prev = prev /\ reading.time = prevTime
                \/ read = counter /\ counter # Absent /\ reading.prev = counter /\ reading.time = tick
             /\ \/ reading.rate = Absent
                \/ /\ prev # Absent /\ counter # Absent
                   /\ reading.rate.over = tick - prevTime
                   /\ reading.rate.by \in {0, counter - prev}
<1>1. Sound(networks(read))
  BY <1>0, Zenon DEF networks, networkRates, Per
<1>2. Sound(diskIO(read))
  BY <1>0 DEF diskIO, RatesSince, Per, RatesInv, ReadingOK
<1>3. \A unnamed \in BOOLEAN : Sound(containers(read, unnamed))
  BY <1>0 DEF containers, RatesSince, Per, RatesInv, ReadingOK
<1>4. Unnamed(known, answered) \in BOOLEAN
  BY Zenon DEF Unnamed
<1>5. Reads(read, known, answered) \in {networks(read), diskIO(read), containers(read, Unnamed(known, answered))}
  BY Zenon DEF Reads, RatesInv, RatesTypeOK
<1> HIDE DEF Sound
<1>6. Sound(Reads(read, known, answered))
  BY <1>1, <1>2, <1>3, <1>4, <1>5, Zenon
<1> QED BY <1>6, Zenon DEF Sound

LEMMA CollectStep ==
    ASSUME SnapshotsAssumption, RatesInv, NEW read, NEW known \in BOOLEAN, NEW answered \in BOOLEAN,
           NEW disks, NEW ignored, Collect(read, known, answered, disks, ignored)
    PROVE  RatesInv'
<1>0. PICK reading, new :
         /\ reading = Reads(read, known, answered)
         /\ new = [time |-> tick, rate |-> reading.rate, version |-> version, disks |-> KeptDisks(disks, ignored)]
  BY Zenon
<1>1. /\ read \in {counter, Unread} /\ collected < tick
      /\ prev' = reading.prev /\ prevTime' = reading.time /\ sent' = sent \cup {new}
      /\ collected' = tick
      /\ UNCHANGED <<reader, counter, moved, latest, tick>>
  BY <1>0, Zenon DEF Collect, deviceVars, hostVars
<1>2. /\ tick \in Nat /\ tick \in Times /\ MaxTicks \in Nat /\ collected \in Nat /\ prevTime \in Times
      /\ counter \in Nat \cup {Absent} /\ moved \in [Times -> Nat]
      /\ \A s, t \in Times : s <= t => moved[s] <= moved[t]
  BY DEF SnapshotsAssumption, RatesInv, RatesTypeOK, MovedOK, Times
<1>3. /\ \/ prev' = Absent /\ prevTime' \in {tick, prevTime}
         \/ prev' = prev /\ prevTime' = prevTime
         \/ counter # Absent /\ prev' = counter /\ prevTime' = tick
      /\ \/ reading.rate = Absent
         \/ /\ prev # Absent /\ counter # Absent
            /\ reading.rate.over = tick - prevTime
            /\ reading.rate.by \in {0, counter - prev}
  BY <1>0, <1>1, ReadersSound, Zenon
<1>4. RatesTypeOK' /\ MovedOK'
  <2>1. prevTime' \in Times
    BY <1>2, <1>3, Zenon
  <2> QED BY <1>1, <1>2, <2>1 DEF RatesInv, RatesTypeOK, MovedOK
<1>5. ReadingOK'
  <2>1. CASE prev' = Absent
    BY <2>1, Zenon DEF ReadingOK
  <2>2. CASE prev' = prev /\ prevTime' = prevTime
    BY <1>1, <1>2, <2>2 DEF RatesInv, ReadingOK, Times
  <2>3. CASE counter # Absent /\ prev' = counter /\ prevTime' = tick
    <3>1. counter \in Nat /\ moved[tick] \in Nat
      BY <1>2, <2>3, Zenon
    <3> QED BY <1>1, <1>2, <2>3, <3>1 DEF ReadingOK
  <2> QED BY <1>3, <2>1, <2>2, <2>3, Zenon
<1>6. SnapshotOK(new)'
  <2>1. new.time = tick /\ new.rate = reading.rate
    BY <1>0, Zenon
  <2>2. CASE reading.rate = Absent
    BY <1>1, <1>2, <2>1, <2>2 DEF SnapshotOK, RateTrue
  <2>3. CASE reading.rate # Absent
    <3>1. /\ prev \in Nat /\ counter \in Nat /\ prevTime \in 0 .. tick
          /\ counter <= prev + (moved[tick] - moved[prevTime])
          /\ reading.rate.over = tick - prevTime
          /\ reading.rate.by \in {0, counter - prev}
      BY <1>1, <1>2, <1>3, <2>3 DEF RatesInv, ReadingOK, Times
    <3>2. moved[tick] \in Nat /\ moved[prevTime] \in Nat /\ moved[prevTime] <= moved[tick]
      BY <1>2, <3>1
    <3>3. reading.rate.over \in 0 .. tick /\ reading.rate.by \in Int /\ tick - reading.rate.over = prevTime
      BY <1>2, <3>1
    <3>4. reading.rate.by <= moved[tick] - moved[tick - reading.rate.over]
      BY <3>1, <3>2, <3>3
    <3>5. new.time \in 0 .. collected' /\ moved' = moved /\ new.time = tick /\ new.rate = reading.rate
      BY <1>1, <1>2, <2>1
    <3> QED BY <3>3, <3>4, <3>5, Zenon DEF SnapshotOK, RateTrue
  <2> QED BY <2>2, <2>3, Zenon
<1>7. collected' \in Nat /\ collected <= collected'
  BY <1>1, <1>2
<1>8. \A snapshot : SnapshotOK(snapshot) => SnapshotOK(snapshot)'
  BY <1>1, <1>7, SnapshotStays, Zenon DEF RatesInv
<1>9. (\A snapshot \in sent : SnapshotOK(snapshot))'
  BY <1>1, <1>6, <1>8, Zenon DEF RatesInv
<1>10. (latest # Absent => SnapshotOK(latest))'
  BY <1>1, <1>7, SnapshotStays, Zenon DEF RatesInv
<1> QED BY <1>4, <1>5, <1>9, <1>10, Zenon DEF RatesInv

\* Steps that leave the device and the agent alone, and bring no new snapshot.
LEMMA SnapshotsMove ==
    ASSUME SnapshotsAssumption, RatesInv,
           UNCHANGED <<reader, moved, collected, prev, prevTime, counter, tick>>,
           \A snapshot \in sent' : snapshot \in sent,
           latest' \in sent \cup {latest, Absent}
    PROVE  RatesInv'
<1>1. RatesTypeOK' /\ MovedOK' /\ ReadingOK'
  BY Zenon DEF RatesInv, RatesTypeOK, MovedOK, ReadingOK
<1>2. \A snapshot : SnapshotOK(snapshot)' <=> SnapshotOK(snapshot)
  BY Zenon DEF SnapshotOK, RateTrue
<1>3. latest' # Absent => SnapshotOK(latest')
  BY Zenon DEF RatesInv
<1>4. latest' # Absent => SnapshotOK(latest)'
  BY <1>3, Zenon DEF SnapshotOK, RateTrue
<1> QED BY <1>1, <1>2, <1>4, Zenon DEF RatesInv

LEMMA RatesStep ==
    ASSUME SnapshotsAssumption, RatesInv, [SnapshotsNext]_snapshotVars
    PROVE  RatesInv'
<1>1. CASE Moves
  BY <1>1, MovesStep, Zenon
<1>2. CASE \E read \in {counter, Unread}, known, answered \in BOOLEAN, disks, ignored \in Readings :
             Collect(read, known, answered, disks, ignored)
  BY <1>2, CollectStep
<1>3. CASE DeviceGoes \/ DeviceComes
  <2>1. /\ UNCHANGED <<reader, moved, prev, prevTime, collected, latest, sent, tick>>
        /\ counter' \in {0, Absent}
    BY <1>3, Zenon DEF DeviceGoes, DeviceComes, agentVars, hostVars
  <2>2. ReadingOK'
    <3> SUFFICES ASSUME prev # Absent, counter' # Absent
                 PROVE  prev \in Nat /\ prevTime <= collected /\ counter' <= prev + (moved[tick] - moved[prevTime])
      BY <2>1, Zenon DEF RatesInv, ReadingOK
    <3>1. prev \in Nat /\ prevTime <= collected /\ tick \in Times /\ prevTime \in Times /\ collected \in 0 .. tick
      BY Zenon DEF RatesInv, RatesTypeOK, ReadingOK
    <3>2. prevTime <= tick
      BY <3>1 DEF Times, SnapshotsAssumption
    <3>3. moved[tick] \in Nat /\ moved[prevTime] \in Nat /\ moved[prevTime] <= moved[tick]
      BY <3>1, <3>2, Zenon DEF RatesInv, MovedOK
    <3> QED BY <2>1, <3>1, <3>3
  <2>3. RatesTypeOK' /\ MovedOK'
    BY <2>1 DEF RatesInv, RatesTypeOK, MovedOK
  <2>4. \A snapshot : SnapshotOK(snapshot)' <=> SnapshotOK(snapshot)
    BY <2>1, Zenon DEF SnapshotOK, RateTrue
  <2>5. (latest # Absent => SnapshotOK(latest))'
    BY <2>1, Zenon DEF RatesInv, SnapshotOK, RateTrue
  <2> QED BY <2>1, <2>2, <2>3, <2>4, <2>5, Zenon DEF RatesInv
<1>4. CASE TickPasses
  <2>1. /\ UNCHANGED <<reader, counter, moved, prev, prevTime, collected, latest, sent>>
        /\ tick < MaxTicks /\ tick' = tick + 1
    BY <1>4, Zenon DEF TickPasses, deviceVars, agentVars, hostVars
  <2>2. tick \in Nat /\ MaxTicks \in Nat /\ collected \in 0 .. tick /\ tick' \in Times /\ tick \in Times
    BY <2>1 DEF RatesInv, RatesTypeOK, Times, SnapshotsAssumption
  <2>3. moved'[tick'] = moved[tick]
    BY <2>1, <2>2 DEF RatesInv, MovedOK
  <2>4. RatesTypeOK' /\ MovedOK' /\ ReadingOK'
    <3>1. RatesTypeOK'
      BY <2>1, <2>2 DEF RatesInv, RatesTypeOK
    <3>2. MovedOK'
      BY <2>1, <2>2, <2>3 DEF RatesInv, MovedOK, Times
    <3>3. ReadingOK'
      BY <2>1, <2>3, Zenon DEF RatesInv, ReadingOK
    <3> QED BY <3>1, <3>2, <3>3
  <2>5. \A snapshot : SnapshotOK(snapshot)' <=> SnapshotOK(snapshot)
    BY <2>1, Zenon DEF SnapshotOK, RateTrue
  <2>6. (latest # Absent => SnapshotOK(latest))'
    BY <2>1, Zenon DEF RatesInv, SnapshotOK, RateTrue
  <2> QED BY <2>1, <2>4, <2>5, <2>6, Zenon DEF RatesInv
<1>5. CASE \E v \in Versions : AgentRestarts(v)
  <2>1. /\ UNCHANGED <<reader, counter, moved, collected, latest, sent, tick>>
        /\ prev' = Absent /\ prevTime' = 0
    BY <1>5, Zenon DEF AgentRestarts, deviceVars, hostVars
  <2>2. RatesTypeOK' /\ MovedOK' /\ ReadingOK'
    BY <2>1 DEF RatesInv, RatesTypeOK, MovedOK, ReadingOK, Times, SnapshotsAssumption
  <2>3. \A snapshot : SnapshotOK(snapshot)' <=> SnapshotOK(snapshot)
    BY <2>1, Zenon DEF SnapshotOK, RateTrue
  <2>4. (latest # Absent => SnapshotOK(latest))'
    BY <2>1, Zenon DEF RatesInv, SnapshotOK, RateTrue
  <2> QED BY <2>1, <2>2, <2>3, <2>4, Zenon DEF RatesInv
<1>6. CASE \/ StoreNext
           \/ UNCHANGED snapshotVars
  <2>1. /\ UNCHANGED <<reader, moved, collected, prev, prevTime, counter, tick>>
        /\ \A snapshot \in sent' : snapshot \in sent
        /\ latest' \in sent \cup {latest, Absent}
    BY <1>6, Zenon DEF StoreNext, HandleMonitorData, SaveSnapshot, Upsert, SnapshotLost, HandleCustomMonitorData,
       SaveCustomMetric, HandlePing, RemoveHost, AddHost, snapshotVars, deviceVars, agentVars, hostVars
  <2> QED BY <2>1, SnapshotsMove, Zenon
<1> QED BY <1>1, <1>2, <1>3, <1>4, <1>5, <1>6, Zenon DEF SnapshotsNext, AgentNext, DeviceNext

\* networkRates, diskIO and containers, for any readings that fail, devices that go and
\* come back, agents that restart and snapshots that overtake one another: no rate that
\* is on its way or kept says more than the device moved in the time it is given for.
THEOREM RatesNeverTooHigh == SnapshotsSpec => []RatesTrue
<1>1. SnapshotsInit => RatesInv
  BY SnapshotsAssumption DEF SnapshotsAssumption, SnapshotsInit, RatesInv, RatesTypeOK, MovedOK, ReadingOK, Times
<1>2. RatesInv /\ [SnapshotsNext]_snapshotVars => RatesInv'
  BY SnapshotsAssumption, RatesStep, Zenon
<1>3. RatesInv => RatesTrue
  BY Zenon DEF RatesInv, RatesTrue, SnapshotOK
<1> QED BY <1>1, <1>2, <1>3, PTL DEF SnapshotsSpec

-----------------------------------------------------------------------------
(* Snapshots: the pages *)

\* A snapshot as the agent makes them.
Whole(snapshot) == snapshot \in SnapshotForms /\ IsFiniteSet(snapshot.disks)

\* What the store keeps is whole, its time is that of the newest snapshot it took, and
\* no value of a custom metric is of a time to come.
PagesInv ==
    /\ version \in Versions
    /\ \A snapshot \in sent : Whole(snapshot)
    /\ latest # Absent => Whole(latest)
    /\ newestSaved = IF latest = Absent THEN Absent ELSE latest.time
    /\ custom \subseteq 0 .. tick

LEMMA RateIsRate ==
    ASSUME SnapshotsAssumption, RatesInv, NEW read \in {counter, Unread}, NEW known \in BOOLEAN, NEW answered \in BOOLEAN
    PROVE  Reads(read, known, answered).rate \in Rates
<1>1. /\ Absent \in Rates
      /\ \A by, over \in Int : [by |-> by, over |-> over] \in Rates
  BY Zenon DEF Rates
<1>2. /\ tick - prevTime \in Int
      /\ prev # Absent => prev \in Int
      /\ read \notin {Absent, Unread} => read \in Int
  BY DEF SnapshotsAssumption, RatesInv, RatesTypeOK, ReadingOK, Times
<1>3. \A from, to, elapsed \in Int : Per(elapsed, from, to) \in Rates
  BY <1>1 DEF Per
<1>4. \A from, to, elapsed \in Int : networkRates(from, to, elapsed) \in Rates /\ RatesSince(from, to, elapsed) \in Rates
  BY <1>1, <1>3, Zenon DEF networkRates, RatesSince
<1>5. networks(read).rate \in Rates
  BY <1>1, <1>2, <1>4, Zenon DEF networks
<1>6. diskIO(read).rate \in Rates
  BY <1>1, <1>2, <1>4, Zenon DEF diskIO
<1>7. \A unnamed : containers(read, unnamed).rate \in Rates
  BY <1>1, <1>2, <1>4, Zenon DEF containers
<1>8. Reads(read, known, answered) \in {networks(read), diskIO(read), containers(read, Unnamed(known, answered))}
  BY Zenon DEF Reads, RatesInv, RatesTypeOK
<1> QED BY <1>5, <1>6, <1>7, <1>8, Zenon

LEMMA PagesStep ==
    ASSUME SnapshotsAssumption, RatesInv, PagesInv, [SnapshotsNext]_snapshotVars
    PROVE  PagesInv'
<1>0. tick \in Nat
  BY DEF SnapshotsAssumption, RatesInv, RatesTypeOK, Times
<1>1. CASE \E read \in {counter, Unread}, known, answered \in BOOLEAN, disks, ignored \in Readings :
             Collect(read, known, answered, disks, ignored)
  <2>1. PICK read \in {counter, Unread}, known \in BOOLEAN, answered \in BOOLEAN, disks \in Readings, ignored \in Readings :
             Collect(read, known, answered, disks, ignored)
    BY <1>1, Zenon
  <2>2. PICK new : new = [time |-> tick, rate |-> Reads(read, known, answered).rate, version |-> version,
                          disks |-> KeptDisks(disks, ignored)]
    BY Zenon
  <2>3. sent' = sent \cup {new} /\ UNCHANGED <<version, latest, newestSaved, custom, tick>>
    BY <2>1, <2>2, Zenon DEF Collect, hostVars
  <2>4. Whole(new)
    <3>1. Reads(read, known, answered).rate \in Rates
      BY RateIsRate, Zenon
    <3>2. KeptDisks(disks, ignored) \subseteq disks
      BY Zenon DEF KeptDisks
    <3>3. disks \subseteq Nat \cup {Unread} /\ IsFiniteSet(disks)
      BY Zenon DEF SnapshotsAssumption
    <3>4. IsFiniteSet(KeptDisks(disks, ignored)) /\ KeptDisks(disks, ignored) \in SUBSET (Nat \cup {Unread})
      BY <3>2, <3>3, FS_Subset, Zenon
    <3> QED BY <1>0, <2>2, <3>1, <3>4, Zenon DEF Whole, SnapshotForms, PagesInv
  <2> QED BY <2>3, <2>4, Zenon DEF PagesInv, Whole
<1>2. CASE \E snapshot \in sent : HandleMonitorData(snapshot)
  <2>1. PICK snapshot \in sent : HandleMonitorData(snapshot)
    BY <1>2
  <2>2. sent' = sent \ {snapshot} /\ UNCHANGED <<version, tick, custom>>
    BY <2>1, Zenon DEF HandleMonitorData, agentVars, hostVars, SaveSnapshot
  <2>3. CASE UNCHANGED <<latest, newestSaved>>
    BY <2>2, <2>3, Zenon DEF PagesInv, Whole
  <2>4. CASE /\ latest' = Upsert(snapshot)
             /\ newestSaved' = IF newestSaved # Absent /\ newestSaved > snapshot.time THEN newestSaved ELSE snapshot.time
    <3>1. Whole(snapshot) /\ snapshot # Absent
      BY Zenon DEF PagesInv, Whole, SnapshotsAssumption
    <3>2. latest # Absent => Whole(latest) /\ newestSaved = latest.time /\ latest.time # Absent
      BY Zenon DEF PagesInv, Whole, SnapshotForms, SnapshotsAssumption
    <3>3. latest = Absent => newestSaved = Absent
      BY Zenon DEF PagesInv
    <3>4. latest' # Absent /\ Whole(latest)' /\ newestSaved' = latest'.time
      BY <2>4, <3>1, <3>2, <3>3, Zenon DEF Upsert, Whole
    <3> QED BY <2>2, <3>4, Zenon DEF PagesInv, Whole
  <2> QED BY <2>1, <2>3, <2>4, Zenon DEF HandleMonitorData, SaveSnapshot, hostVars
<1>3. CASE \E at \in {tick, tick - 1} \cap Nat : HandleCustomMonitorData(at)
  <2>1. PICK at \in {tick, tick - 1} \cap Nat : HandleCustomMonitorData(at)
    BY <1>3
  <2>2. custom' = custom \cup {at} /\ UNCHANGED <<version, sent, latest, newestSaved, tick>>
    BY <2>1, Zenon DEF HandleCustomMonitorData, SaveCustomMetric, agentVars
  <2>3. at \in 0 .. tick
    BY <1>0
  <2> QED BY <2>2, <2>3, Zenon DEF PagesInv, Whole
<1>4. CASE RemoveHost
  <2>1. latest' = Absent /\ newestSaved' = Absent /\ custom' = {} /\ UNCHANGED <<version, sent, tick>>
    BY <1>4, Zenon DEF RemoveHost, agentVars
  <2> QED BY <2>1, Zenon DEF PagesInv, Whole
<1>5. CASE TickPasses
  <2>1. tick' = tick + 1 /\ UNCHANGED <<version, sent, latest, newestSaved, custom>>
    BY <1>5, Zenon DEF TickPasses, agentVars, hostVars
  <2>2. custom \subseteq 0 .. tick'
    BY <1>0, <2>1 DEF PagesInv
  <2> QED BY <2>1, <2>2, Zenon DEF PagesInv, Whole
<1>6. CASE \/ \E v \in Versions : AgentRestarts(v)
           \/ Moves \/ DeviceGoes \/ DeviceComes
           \/ \E snapshot \in sent : SnapshotLost(snapshot)
           \/ HandlePing \/ AddHost
           \/ UNCHANGED snapshotVars
  <2>1. /\ version' \in Versions
        /\ \A snapshot \in sent' : snapshot \in sent
        /\ UNCHANGED <<latest, newestSaved, custom, tick>>
    BY <1>6, Zenon DEF AgentRestarts, Moves, DeviceGoes, DeviceComes, SnapshotLost, HandlePing, AddHost, snapshotVars,
       agentVars, hostVars, PagesInv
  <2> QED BY <2>1, Zenon DEF PagesInv, Whole
<1> QED BY <1>1, <1>2, <1>3, <1>4, <1>5, <1>6, Zenon DEF SnapshotsNext, AgentNext, DeviceNext, StoreNext

\* The newest value of a custom metric in the window is the newest there is.
LEMMA NewestCustomValue ==
    ASSUME SnapshotsAssumption, tick \in Nat, custom \subseteq 0 .. tick, LatestCustomValues # Absent
    PROVE  \A t \in custom : t <= LatestCustomValues
<1> DEFINE recent == {t \in custom : t >= tick - CustomWindow}
<1>1. CustomWindow \in Nat
  BY Zenon DEF SnapshotsAssumption
<1>2. recent # {} /\ LatestCustomValues = Max(recent)
  BY Zenon DEF LatestCustomValues
<1>3. IsFiniteSet(0 .. tick)
  <2>1. 0 \in Int /\ tick \in Int
    OBVIOUS
  <2> QED BY <2>1, FS_Interval, Zenon
<1>4. recent \subseteq Nat /\ IsFiniteSet(recent)
  <2>1. recent \subseteq 0 .. tick
    BY Zenon
  <2>2. IsFiniteSet(recent)
    BY <1>3, <2>1, FS_Subset, Zenon
  <2> QED BY <2>1, <2>2
<1>5. Max(recent) \in recent /\ \A t \in recent : t <= Max(recent)
  BY <1>2, <1>4, MaxIsGreatest, Zenon
<1>6. ASSUME NEW t \in custom, t \notin recent PROVE t <= Max(recent)
  <2>1. t \in Nat /\ Max(recent) \in Nat
    BY <1>4, <1>5
  <2>2. ~(t >= tick - CustomWindow) /\ Max(recent) >= tick - CustomWindow
    BY <1>5, <1>6, Zenon
  <2> QED BY <1>1, <2>1, <2>2
<1> QED BY <1>2, <1>5, <1>6, Zenon

\* The fleet's disk is the fullest one that can be read.
LEMMA FullestDisk ==
    ASSUME SnapshotsAssumption, NEW data, Whole(data)
    PROVE  /\ \A pct \in parsePercent(data.disks) : pct <= fillSummary(data).disk
           /\ fillSummary(data).disk \in parsePercent(data.disks) \cup {0}
<1>1. data.disks \in SUBSET (Nat \cup {Unread}) /\ IsFiniteSet(data.disks)
  BY Zenon DEF Whole, SnapshotForms
<1>2. parsePercent(data.disks) \subseteq Nat /\ IsFiniteSet(parsePercent(data.disks))
  <2>1. parsePercent(data.disks) \subseteq data.disks
    BY Zenon DEF parsePercent
  <2> QED BY <1>1, <2>1, FS_Subset, Zenon DEF parsePercent
<1>3. fillSummary(data).disk = IF parsePercent(data.disks) = {} THEN 0 ELSE Max(parsePercent(data.disks))
  BY Zenon DEF fillSummary
<1> QED BY <1>2, <1>3, MaxIsGreatest, Zenon

\* SaveSnapshot and the pages, for any snapshots that overtake one another, are lost or
\* come from a host that was removed meanwhile: the fleet and the host page show the
\* newest snapshot the store took, agree with /metrics on whether the host is up, on its
\* fullest disk and on the newest value of a custom metric, and /metrics has nothing of
\* a host that is down.
THEOREM NewestIsShown == SnapshotsSpec => []PagesShowNewest
<1>1. SnapshotsInit => RatesInv /\ PagesInv
  <2>1. SnapshotsInit => RatesInv
    BY SnapshotsAssumption DEF SnapshotsAssumption, SnapshotsInit, RatesInv, RatesTypeOK, MovedOK, ReadingOK, Times
  <2>2. SnapshotsInit => PagesInv
    BY Zenon DEF SnapshotsInit, PagesInv
  <2> QED BY <2>1, <2>2
<1>2. RatesInv /\ PagesInv /\ [SnapshotsNext]_snapshotVars => RatesInv' /\ PagesInv'
  BY SnapshotsAssumption, RatesStep, PagesStep, Zenon
<1>3. RatesInv /\ PagesInv => PagesShowNewest
  <2> SUFFICES ASSUME RatesInv, PagesInv, host # Absent PROVE PagesShowNewest
    BY Zenon DEF PagesShowNewest
  <2>1. tick \in Nat /\ custom \subseteq 0 .. tick
    BY SnapshotsAssumption DEF SnapshotsAssumption, RatesInv, RatesTypeOK, PagesInv, Times
  <2>2. getFleet.time = newestSaved /\ getFleet.up = isUp(host.seen) /\ getMetrics.up = isUp(host.seen)
    BY Zenon DEF getFleet, Fleet, FleetSummary, getMetrics, Snapshots, LatestSnapshots, PagesInv
  <2>3. getHost # Absent => getHost.up = isUp(host.seen) /\ getHost.time = newestSaved
    BY Zenon DEF getHost, Snapshot, LatestSnapshot, PagesInv
  <2>4. getMetrics.custom # Absent => getFleet.up /\ \A t \in custom : t <= getMetrics.custom
    <3> SUFFICES ASSUME getMetrics.custom # Absent
                 PROVE  getFleet.up /\ \A t \in custom : t <= getMetrics.custom
      OBVIOUS
    <3>1. isUp(host.seen) /\ getMetrics.custom = LatestCustomValues
      BY Zenon DEF getMetrics, Snapshots, LatestSnapshots
    <3> QED BY <2>1, <2>2, <3>1, NewestCustomValue, SnapshotsAssumption, Zenon
  <2>5. ASSUME getMetrics.values # Absent
        PROVE  /\ getFleet.up
               /\ \A pct \in getMetrics.values.disks : pct <= getFleet.disk
               /\ getFleet.disk \in getMetrics.values.disks \cup {0}
    <3>1. isUp(host.seen) /\ latest # Absent /\ getMetrics.values = addHostMetrics(latest)
      BY <2>5, Zenon DEF getMetrics, Snapshots, LatestSnapshots
    <3>2. getMetrics.values.disks = parsePercent(latest.disks)
      <4>1. addHostMetrics(latest).disks = parsePercent(latest.disks)
        BY DEF addHostMetrics
      <4> QED BY <3>1, <4>1, Zenon
    <3>3. getFleet.disk = fillSummary(latest).disk
      BY <3>1, Zenon DEF getFleet, Fleet, FleetSummary
    <3>4. Whole(latest)
      BY <3>1, Zenon DEF PagesInv
    <3> QED BY <2>2, <3>1, <3>2, <3>3, <3>4, FullestDisk, SnapshotsAssumption, Zenon
  <2> QED BY <2>2, <2>3, <2>4, <2>5, Zenon DEF PagesShowNewest
<1> QED BY <1>1, <1>2, <1>3, PTL DEF SnapshotsSpec

-----------------------------------------------------------------------------
(* Charts: the points *)

\* What dividing by a step leaves.
LEMMA DivBounds ==
    ASSUME NEW a \in Int, NEW s \in Nat \ {0}
    PROVE  (a \div s) \in Int /\ (a \div s) * s <= a /\ a < ((a \div s) + 1) * s
  BY SMT

LEMMA CancelLess ==
    ASSUME NEW a \in Int, NEW b \in Int, NEW s \in Nat \ {0}, a * s < b * s
    PROVE  a < b
  BY SMT

LEMMA CancelAtMost ==
    ASSUME NEW a \in Nat, NEW b \in Nat, NEW s \in Nat \ {0}, a * s <= b * s
    PROVE  a <= b
  BY SMT

LEMMA TimesMonotonic ==
    ASSUME NEW a \in Int, NEW b \in Int, NEW s \in Nat, a <= b
    PROVE  s * a <= s * b
  BY SMT

\* A range in steps that are no finer than max points want is at most one point more:
\* the steps begin at the epoch.
LEMMA PointsFit ==
    ASSUME NEW from \in Int, NEW to \in Int, from < to, NEW max \in Nat \ {0},
           NEW step \in Int, (to - from) \div max + 1 <= step
    PROVE  step \in Nat \ {0} /\ (to - 1) \div step - from \div step + 1 <= max + 1
<1>1. PICK d : d = (to - from) \div max
  OBVIOUS
<1>2. d \in Int /\ to - from < (d + 1) * max /\ d * max <= to - from
  BY <1>1, DivBounds
<1>3. d >= 0
  <2>1. 0 * max < (d + 1) * max
    BY <1>2
  <2>2. 0 < d + 1
    BY <1>2, <2>1, CancelLess
  <2> QED BY <1>2, <2>2
<1>4. step \in Nat \ {0} /\ d + 1 <= step
  BY <1>1, <1>2, <1>3
<1>5. PICK a : a = (to - 1) \div step
  OBVIOUS
<1>6. PICK b : b = from \div step
  OBVIOUS
<1>7. a \in Int /\ a * step <= to - 1
  BY <1>4, <1>5, DivBounds
<1>8. b \in Int /\ from < (b + 1) * step
  BY <1>4, <1>6, DivBounds
<1>9. max * (d + 1) <= max * step
  BY <1>2, <1>4, TimesMonotonic
<1>10. a * step - (b + 1) * step < max * step
  <2>1. PICK u, v, w, x : u = a * step /\ v = (b + 1) * step /\ w = max * step /\ x = (d + 1) * max
    OBVIOUS
  <2>2. u \in Int /\ v \in Int /\ w \in Int /\ x \in Int
    BY <1>2, <1>4, <1>7, <1>8, <2>1
  <2>3. x = max * (d + 1)
    BY <1>2, <2>1
  <2>4. u <= to - 1 /\ from < v /\ to - from < x /\ x <= w
    BY <1>2, <1>7, <1>8, <1>9, <2>1, <2>3
  <2>5. u - v < w
    BY <2>2, <2>4
  <2> QED BY <2>1, <2>5
<1>11. (a - b - 1) * step < max * step
  <2>1. (a - b - 1) * step = a * step - (b + 1) * step
    BY <1>4, <1>7, <1>8
  <2> QED BY <1>10, <2>1
<1>12. a - b - 1 < max
  BY <1>4, <1>7, <1>8, <1>11, CancelLess
<1>13. a - b + 1 <= max + 1
  BY <1>7, <1>8, <1>12
<1> QED BY <1>4, <1>5, <1>6, <1>13

LEMMA RoundedUp ==
    ASSUME NEW d \in Int, NEW unit \in Nat \ {0}
    PROVE  roundUp(d, unit) \in Int /\ d <= roundUp(d, unit)
<1>1. CASE d <= unit
  BY <1>1 DEF roundUp
<1>2. CASE ~(d <= unit)
  <2>1. PICK k : k = (d + unit - 1) \div unit
    OBVIOUS
  <2>2. k \in Int /\ d + unit - 1 < (k + 1) * unit
    BY <2>1, DivBounds
  <2>3. (k + 1) * unit = k * unit + unit /\ k * unit \in Int
    BY <2>2
  <2>4. d <= k * unit
    <3>1. PICK x : x = k * unit
      OBVIOUS
    <3>2. x \in Int /\ d + unit - 1 < x + unit
      BY <2>2, <2>3, <3>1
    <3>3. d <= x
      BY <3>2
    <3> QED BY <3>1, <3>3
  <2>5. roundUp(d, unit) = k * unit
    BY <1>2, <2>1 DEF roundUp
  <2> QED BY <2>3, <2>4, <2>5
<1> QED BY <1>1, <1>2

\* A request with its parameters filled in.
RangeAsked(q, of) ==
    /\ q = [of |-> of, from |-> q.from, to |-> q.to, max |-> q.max]
    /\ q.from \in Int /\ q.to \in Int /\ q.max \in Nat

LEMMA RangeOfRequest ==
    ASSUME ChartsAssumption, NEW asked \in Asked, NEW now \in Int
    PROVE  RangeAsked(timeRange(asked, now), asked.of)
<1>1. PICK o, f, t, m : asked = [of |-> o, from |-> f, to |-> t, max |-> m] /\ m \in 0 .. MaxPoints
                        /\ f \in {NotGiven} \cup {-n * Day : n \in 0 .. 2} /\ t \in {NotGiven} \cup ChartEnds
  BY Zenon DEF Asked
<1>2. Hour \in Int /\ Day \in Int /\ ChartEnds \subseteq Int /\ MaxPoints \in Nat
  BY DEF ChartsAssumption
<1>3. m \in Nat /\ (f # NotGiven => f \in Int) /\ (t # NotGiven => t \in Int)
  <2>1. m \in Nat
    BY <1>1, <1>2
  <2>2. ASSUME f # NotGiven PROVE f \in Int
    <3>1. PICK n \in 0 .. 2 : f = -n * Day
      BY <1>1, <2>2, Zenon
    <3> QED BY <1>2, <3>1
  <2>3. t # NotGiven => t \in Int
    BY <1>1, <1>2, Zenon
  <2> QED BY <2>1, <2>2, <2>3, Zenon
<1>4. PICK to : to = IF t = NotGiven THEN now ELSE t
  OBVIOUS
<1>5. PICK from : from = IF f = NotGiven THEN to - Hour ELSE f
  OBVIOUS
<1>6. to \in Int /\ from \in Int
  BY <1>2, <1>3, <1>4, <1>5
<1>7. asked.of = o /\ asked.from = f /\ asked.to = t
  BY <1>1
<1>8. timeRange(asked, now) = [asked EXCEPT !.to = to, !.from = from]
  BY <1>4, <1>5, <1>7 DEF timeRange
<1>9. [asked EXCEPT !.to = to, !.from = from] = [of |-> o, from |-> from, to |-> to, max |-> m]
  <2>1. [asked EXCEPT !.to = to, !.from = from] = [[asked EXCEPT !.to = to] EXCEPT !.from = from]
    BY <1>1
  <2>2. PICK e : e = [asked EXCEPT !.to = to]
    BY Zenon
  <2>3. e = [of |-> o, from |-> f, to |-> to, max |-> m]
    BY <1>1, <2>2
  <2>4. [e EXCEPT !.from = from] = [of |-> o, from |-> from, to |-> to, max |-> m]
    BY <2>3
  <2> QED BY <2>1, <2>2, <2>4, Zenon
<1>10. PICK q : q = timeRange(asked, now)
  OBVIOUS
<1>11. q = [of |-> o, from |-> from, to |-> to, max |-> m]
  BY <1>8, <1>9, <1>10, Zenon
<1>12. q.of = o /\ q.from = from /\ q.to = to /\ q.max = m
  BY <1>11
<1>13. RangeAsked(q, asked.of)
  BY <1>3, <1>6, <1>7, <1>11, <1>12, Zenon DEF RangeAsked
<1> QED BY <1>10, <1>13, Zenon

LEMMA MaxGiven ==
    ASSUME ChartsAssumption, NEW q, NEW of, RangeAsked(q, of), NEW w, w = WithMaxPoints(q)
    PROVE  w.from = q.from /\ w.to = q.to /\ w.max \in Nat \ {0}
<1>1. PICK f, t, m : q = [of |-> of, from |-> f, to |-> t, max |-> m]
  BY Zenon DEF RangeAsked
<1>2. q.from = f /\ q.to = t /\ q.max = m /\ m \in Nat
  BY <1>1 DEF RangeAsked
<1>3. DefaultMaxPoints \in Nat \ {0}
  BY DEF ChartsAssumption
<1>4. CASE m > 0
  BY <1>2, <1>4 DEF WithMaxPoints
<1>5. CASE ~(m > 0)
  <2>1. w = [q EXCEPT !.max = DefaultMaxPoints]
    BY <1>2, <1>5 DEF WithMaxPoints
  <2>2. w.from = f /\ w.to = t /\ w.max = DefaultMaxPoints
    BY <1>1, <2>1
  <2> QED BY <1>2, <1>3, <2>2
<1> QED BY <1>4, <1>5

LEMMA StepIsInt ==
    ASSUME ChartsAssumption, NEW q, NEW of, RangeAsked(q, of)
    PROVE  Step(WithMaxPoints(q)) \in Int /\ Step(WithMaxPoints(q)) <= Step(WithMaxPoints(q))
<1>1. PICK w : w = WithMaxPoints(q)
  OBVIOUS
<1>2. w.from = q.from /\ w.to = q.to /\ w.max \in Nat \ {0}
  BY <1>1, MaxGiven
<1>3. PICK d : d = w.to - w.from
  OBVIOUS
<1>4. d \in Int
  BY <1>2, <1>3 DEF RangeAsked
<1>5. d \div w.max \in Int
  BY <1>2, <1>4, DivBounds
<1>6. Step(w) \in Int
  BY <1>3, <1>5 DEF Step
<1>7. \A i \in Int : i <= i
  OBVIOUS
<1> QED BY <1>1, <1>6, <1>7, Zenon

\* A chart's points, and the source pickSource picks for it.
FitsChart(q, picked) == Points(q, picked.step) <= WithMaxPoints(q).max + 1

LEMMA StepFits ==
    ASSUME ChartsAssumption, NEW q, NEW of, RangeAsked(q, of), q.from <= 0, 0 < q.to,
           NEW picked, picked.step \in Int, Step(WithMaxPoints(q)) <= picked.step
    PROVE  FitsChart(q, picked)
<1>1. PICK w : w = WithMaxPoints(q)
  OBVIOUS
<1>2. w.from = q.from /\ w.to = q.to /\ w.max \in Nat \ {0}
  BY <1>1, MaxGiven
<1>3. PICK f, t, m, s : f = q.from /\ t = q.to /\ m = w.max /\ s = picked.step
  OBVIOUS
<1>4. f \in Int /\ t \in Int /\ f < t /\ m \in Nat \ {0} /\ s \in Int
  BY <1>2, <1>3 DEF RangeAsked
<1>5. (t - f) \div m + 1 <= s
  BY <1>1, <1>2, <1>3 DEF Step
<1>6. (t - 1) \div s - f \div s + 1 <= m + 1
  BY <1>4, <1>5, PointsFit, Zenon
<1> QED BY <1>1, <1>3, <1>6 DEF FitsChart, Points

\* The source still has the bucket, or is the one that keeps it longest.
StillKept(q, of, now, source) ==
    \/ source = "raw" /\ (of = "cpu_core" \/ q.from >= now - Kept("raw"))
    \/ source = "1m" /\ q.from >= now - Kept("1m")
    \/ source = "1h"

PicksFor(q, of, now) == pickSource(of = "cpu_core", WithMaxPoints(q), now)

LEMMA SourcePicked ==
    ASSUME ChartsAssumption, NEW q, NEW of, RangeAsked(q, of), q.from <= 0, 0 < q.to, NEW now,
           NEW picked, picked = PicksFor(q, of, now)
    PROVE  FitsChart(q, picked) /\ StillKept(q, of, now, picked.source)
<1>1. PICK w : w = WithMaxPoints(q)
  OBVIOUS
<1>2. w.from = q.from /\ w.to = q.to /\ w.max \in Nat \ {0}
  BY <1>1, MaxGiven
<1>3. PICK s : s = Step(w)
  OBVIOUS
<1>4. s \in Int
  BY <1>1, <1>3, StepIsInt, Zenon
<1>5. Minute \in Nat \ {0} /\ Hour \in Nat \ {0}
  BY DEF ChartsAssumption
<1>6. PICK x, y : x = roundUp(s, Minute) /\ y = roundUp(s, Hour)
  OBVIOUS
<1>7. x \in Int /\ s <= x /\ y \in Int /\ s <= y
  BY <1>4, <1>5, <1>6, RoundedUp
<1>8. \/ picked = [source |-> "raw", step |-> s] /\ (of = "cpu_core" \/ q.from >= now - Kept("raw"))
      \/ picked = [source |-> "1m", step |-> x] /\ q.from >= now - Kept("1m")
      \/ picked = [source |-> "1h", step |-> y]
  BY <1>1, <1>2, <1>3, <1>6, Zenon DEF PicksFor, pickSource
<1>9. /\ picked.step \in Int /\ s <= picked.step
      /\ \/ picked.source = "raw" /\ (of = "cpu_core" \/ q.from >= now - Kept("raw"))
         \/ picked.source = "1m" /\ q.from >= now - Kept("1m")
         \/ picked.source = "1h"
  <2>1. CASE picked = [source |-> "raw", step |-> s] /\ (of = "cpu_core" \/ q.from >= now - Kept("raw"))
    <3>1. picked.source = "raw" /\ picked.step = s /\ s <= s
      BY <1>4, <2>1
    <3> QED BY <1>4, <2>1, <3>1, Zenon
  <2>2. CASE picked = [source |-> "1m", step |-> x] /\ q.from >= now - Kept("1m")
    <3>1. picked.source = "1m" /\ picked.step = x
      BY <2>2
    <3> QED BY <1>7, <2>2, <3>1, Zenon
  <2>3. CASE picked = [source |-> "1h", step |-> y]
    <3>1. picked.source = "1h" /\ picked.step = y
      BY <2>3
    <3> QED BY <1>7, <3>1, Zenon
  <2> QED BY <1>8, <2>1, <2>2, <2>3, Zenon
<1>10. FitsChart(q, picked)
  BY <1>1, <1>3, <1>9, StepFits, Zenon
<1> QED BY <1>9, <1>10, Zenon DEF StillKept

-----------------------------------------------------------------------------
(* Charts: the rows *)

\* A table has the samples that arrived in time as long as it keeps them, and so does a
\* rollup that is as new as what it is made from.
ChartsInv ==
    /\ age \in Nat
    /\ retention \in [{"raw"} \cup Rollups -> Nat]
    /\ MinuteWindow <= retention["raw"] /\ HourWindow <= retention["1m"]
    /\ DOMAIN rows = Sources
    /\ age <= retention["raw"] => onTime \subseteq rows["raw"]
    /\ age <= retention["1h"] => onTime \subseteq rows["long"]
    /\ ~ToRefresh("1m") /\ age <= retention["1m"] => onTime \subseteq rows["1m"]
    /\ ~ToRefresh("1m") /\ ~ToRefresh("1h") /\ age <= retention["1h"] => onTime \subseteq rows["1h"]

LEMMA ChartsInvInitially ==
    ASSUME ChartsAssumption, ChartsInit
    PROVE  ChartsInv
<1>1. retention \in [{"raw"} \cup Rollups -> Days] /\ retention["1m"] >= 3
  BY Zenon DEF ChartsInit, openStore
<1>2. retention["raw"] \in Days
  BY <1>1, Zenon
<1>3. Days \subseteq Nat \ {0} /\ MinuteWindow \in Nat /\ HourWindow \in Nat /\ MinuteWindow <= 1 /\ HourWindow <= 3
  BY Zenon DEF ChartsAssumption
<1>4. retention \in [{"raw"} \cup Rollups -> Nat]
  BY <1>1, <1>3, Zenon
<1>5. MinuteWindow <= retention["raw"] /\ HourWindow <= retention["1m"]
  <2>1. retention["1m"] \in Nat
    BY <1>4, Zenon DEF Rollups
  <2>2. PICK x, y : x = retention["raw"] /\ y = retention["1m"]
    BY Zenon
  <2>3. x \in Nat \ {0} /\ y \in Nat /\ y >= 3
    BY <1>1, <1>2, <1>3, <2>1, <2>2, Zenon
  <2>4. MinuteWindow <= x /\ HourWindow <= y
    BY <1>3, <2>3
  <2> QED BY <2>2, <2>4, Zenon
<1>6. age \in Nat /\ DOMAIN rows = Sources /\ onTime = {}
  BY DEF ChartsInit
<1> QED BY <1>4, <1>5, <1>6, Zenon DEF ChartsInv

LEMMA ChartsStep ==
    ASSUME ChartsAssumption, ChartsInv, [ChartsNext]_chartVars
    PROVE  ChartsInv'
<1>1. /\ age \in Nat /\ MinuteWindow \in Nat /\ HourWindow \in Nat
      /\ retention["raw"] \in Nat /\ retention["1m"] \in Nat /\ retention["1h"] \in Nat
      /\ {"raw", "long", "1m", "1h"} = Sources
  BY Zenon DEF ChartsInv, ChartsAssumption, Rollups, Sources
<1>2. ASSUME NEW s \in Samples, SampleArrives(s) PROVE ChartsInv'
  <2>1. /\ rows'["raw"] = rows["raw"] \cup {s} /\ rows'["long"] = rows["long"] \cup {s} /\ DOMAIN rows' = Sources
        /\ onTime' \subseteq onTime \cup {s} /\ "1m" \in stale' /\ UNCHANGED <<retention, age>>
    BY <1>1, <1>2, Zenon DEF SampleArrives, ChartsInv
  <2> QED BY <2>1, Zenon DEF ChartsInv, ToRefresh
<1>3. CASE Refresh("1m")
  <2>1. /\ age <= MinuteWindow /\ rows'["1m"] = rows["raw"] /\ rows'["raw"] = rows["raw"]
        /\ rows'["long"] = rows["long"] /\ DOMAIN rows' = Sources /\ "1h" \in stale'
        /\ UNCHANGED <<retention, age, onTime>>
    BY <1>1, <1>3, Zenon DEF Refresh, Sees, MadeFrom, Windows, ChartsInv
  <2>2. age <= retention["raw"]
    BY <1>1, <2>1 DEF ChartsInv
  <2> QED BY <2>1, <2>2, Zenon DEF ChartsInv, ToRefresh
<1>4. CASE Refresh("1h")
  <2>1. /\ age <= HourWindow /\ rows'["1h"] = Sees1m /\ rows'["raw"] = rows["raw"]
        /\ rows'["long"] = rows["long"] /\ rows'["1m"] = rows["1m"] /\ DOMAIN rows' = Sources
        /\ UNCHANGED <<retention, age, onTime>>
        /\ made' = made \cup {"1h"} /\ stale' = stale \ {"1h"}
    BY <1>1, <1>4, Zenon DEF Refresh, Sees, MadeFrom, Windows, ChartsInv
  <2>2. age <= retention["1m"]
    BY <1>1, <2>1 DEF ChartsInv
  <2>3. ToRefresh("1m")' = ToRefresh("1m")
    BY <2>1, Zenon DEF ToRefresh
  <2>4. ~ToRefresh("1m") => rows'["1h"] = rows["1m"]
    BY <2>1, Zenon DEF ToRefresh, Sees1m
  <2> QED BY <2>1, <2>2, <2>3, <2>4, Zenon DEF ChartsInv
<1>5. ASSUME NEW source \in Sources, Drop(source) PROVE ChartsInv'
  <2>1. /\ age > DaysKept(source) /\ DOMAIN rows' = Sources
        /\ \A other \in Sources : other # source => rows'[other] = rows[other]
        /\ UNCHANGED <<retention, age, onTime, made, stale>>
    BY <1>5, Zenon DEF Drop, ChartsInv
  <2>2. /\ source = "raw" => ~(age <= retention["raw"])
        /\ source = "1m" => ~(age <= retention["1m"])
        /\ source \in {"1h", "long"} => ~(age <= retention["1h"])
    BY <1>1, <2>1 DEF DaysKept
  <2> QED BY <1>1, <2>1, <2>2, Zenon DEF ChartsInv, ToRefresh
<1>6. CASE DayPasses
  <2>1. age' \in Nat /\ \A n \in Nat : age' <= n => age <= n
    <3>1. age' = age + 1
      BY <1>6, Zenon DEF DayPasses
    <3> QED BY <1>1, <3>1
  <2> QED BY <1>1, <1>6, <2>1, Zenon DEF DayPasses, ChartsInv, ToRefresh
<1>7. CASE UNCHANGED chartVars
  BY <1>7, Zenon DEF chartVars, ChartsInv, ToRefresh
<1> QED BY <1>2, <1>3, <1>4, <1>5, <1>6, <1>7, Zenon DEF ChartsNext, Rollups

LEMMA ChartsInvShows ==
    ASSUME ChartsAssumption, ChartsInv
    PROVE  ChartShows
<1> SUFFICES ASSUME NEW s \in onTime, NEW asked \in Asked, NEW q, q = timeRange(asked, age * Day),
                    NEW picked, picked = Chart(asked, age * Day), q.from <= 0, 0 < q.to
             PROVE  /\ Points(q, picked.step) <= WithMaxPoints(q).max + 1
                    /\ Current(picked.source) =>
                          \/ s \in Sees(picked.source)
                          \/ /\ q.of = "cpu_core" \/ picked.source \in {"1h", "long"}
                             /\ age > DaysKept(picked.source)
  BY Zenon DEF ChartShows
<1>1. age \in Nat /\ Day \in Nat \ {0} /\ age * Day \in Int
  BY DEF ChartsInv, ChartsAssumption
<1>2. RangeAsked(q, asked.of)
  BY <1>1, RangeOfRequest, Zenon
<1>3. q.of = asked.of
  <2>1. PICK o, f, t, m : q = [of |-> o, from |-> f, to |-> t, max |-> m] /\ o = asked.of
    BY <1>2, Zenon DEF RangeAsked
  <2>2. q.of = o
    BY <2>1
  <2> QED BY <2>1, <2>2, Zenon
<1>4. PICK now : now = age * Day
  BY Zenon
<1>5. \A k \in Nat : q.from >= now - k * Day => age <= k
  <2> SUFFICES ASSUME NEW k \in Nat, q.from >= now - k * Day PROVE age <= k
    OBVIOUS
  <2>1. PICK x : x = k * Day
    OBVIOUS
  <2>2. x \in Int /\ q.from \in Int /\ now \in Int
    BY <1>1, <1>2, <1>4, <2>1 DEF RangeAsked
  <2>3. now <= x
    BY <2>1, <2>2
  <2> QED BY <1>1, <1>4, <2>1, <2>3, CancelAtMost
<1>6. CASE asked.of \in {"endpoint", "cluster"}
  <2>1. picked = [source |-> "long", step |-> Step(WithMaxPoints(q))]
    BY <1>4, <1>6, Zenon DEF Chart, getEndpointSeries, getClusterSeries, EndpointSeries, ClusterSeries
  <2>2. picked.source = "long" /\ picked.step = Step(WithMaxPoints(q))
    <3>1. PICK step : step = Step(WithMaxPoints(q))
      BY Zenon
    <3>2. picked = [source |-> "long", step |-> step]
      BY <2>1, <3>1, Zenon
    <3>3. picked.source = "long" /\ picked.step = step
      BY <3>2
    <3> QED BY <3>1, <3>3, Zenon
  <2>3. Step(WithMaxPoints(q)) \in Int /\ Step(WithMaxPoints(q)) <= Step(WithMaxPoints(q))
    BY <1>2, StepIsInt
  <2>4. FitsChart(q, picked)
    BY <1>2, <2>2, <2>3, StepFits, Zenon
  <2>5. age <= retention["1h"] => s \in Sees("long")
    BY Zenon DEF ChartsInv, Sees
  <2>6. ~(age <= retention["1h"]) => age > DaysKept("long")
    <3>1. retention["1h"] \in Nat
      BY Zenon DEF ChartsInv, Rollups
    <3> QED BY <1>1, <3>1 DEF DaysKept
  <2> QED BY <2>2, <2>4, <2>5, <2>6, Zenon DEF FitsChart
<1>7. CASE asked.of \notin {"endpoint", "cluster"}
  <2>1. picked = pickSource(asked.of = "cpu_core", WithMaxPoints(q), now)
    BY <1>3, <1>4, <1>7, Zenon DEF Chart, getSeries, QuerySeries
  <2>2. PICK of : of = asked.of
    BY Zenon
  <2>3. /\ FitsChart(q, picked)
        /\ \/ picked.source = "raw" /\ (of = "cpu_core" \/ q.from >= now - Kept("raw"))
           \/ picked.source = "1m" /\ q.from >= now - Kept("1m")
           \/ picked.source = "1h"
    <3>1. picked = PicksFor(q, of, now) /\ RangeAsked(q, of)
      BY <1>2, <2>1, <2>2, Zenon DEF PicksFor
    <3>2. FitsChart(q, picked) /\ StillKept(q, of, now, picked.source)
      BY <3>1, SourcePicked, Zenon
    <3> QED BY <3>2, Zenon DEF StillKept
  <2>4. retention["raw"] \in Nat /\ retention["1m"] \in Nat /\ retention["1h"] \in Nat
    BY Zenon DEF ChartsInv, Rollups
  <2>5. /\ ~(age <= retention["raw"]) => age > DaysKept("raw")
        /\ ~(age <= retention["1h"]) => age > DaysKept("1h")
    BY <1>1, <2>4 DEF DaysKept
  <2>6. CASE picked.source = "raw" /\ (of = "cpu_core" \/ q.from >= now - Kept("raw"))
    <3>1. of = "cpu_core" \/ age <= retention["raw"]
      BY <1>5, <2>4, <2>6, Zenon DEF Kept
    <3>2. age <= retention["raw"] => s \in Sees("raw")
      BY Zenon DEF ChartsInv, Sees
    <3> QED BY <1>3, <2>2, <2>3, <2>5, <2>6, <3>1, <3>2, Zenon DEF FitsChart
  <2>7. CASE picked.source = "1m" /\ q.from >= now - Kept("1m")
    <3>1. age <= retention["1m"]
      BY <1>5, <2>4, <2>7, Zenon DEF Kept
    <3>2. ~ToRefresh("1m") => s \in Sees("1m")
      BY <3>1, Zenon DEF ChartsInv, Sees, Sees1m, ToRefresh
    <3>3. Current("1m") => ~ToRefresh("1m")
      BY Zenon DEF Current
    <3> QED BY <2>3, <2>7, <3>2, <3>3, Zenon DEF FitsChart
  <2>8. CASE picked.source = "1h"
    <3>1. Current("1h") => ~ToRefresh("1m") /\ ~ToRefresh("1h")
      BY Zenon DEF Current
    <3>2. ~ToRefresh("1m") /\ ~ToRefresh("1h") /\ age <= retention["1h"] => s \in Sees("1h")
      BY Zenon DEF ChartsInv, Sees, ToRefresh
    <3> QED BY <2>3, <2>5, <2>8, <3>1, <3>2, Zenon DEF FitsChart
  <2> QED BY <2>3, <2>6, <2>7, <2>8, Zenon
<1> QED BY <1>6, <1>7, Zenon

\* Whatever samples arrive when, for every retention openStore allows and every chart:
\* pickSource picks a source that still has what arrived in time, in as many points
\* as were asked for and at most one more.
THEOREM ChartsShow == ChartsSpec => []ChartShows
<1>1. ChartsInit => ChartsInv
  BY ChartsAssumption, ChartsInvInitially, Zenon
<1>2. ChartsInv /\ [ChartsNext]_chartVars => ChartsInv'
  BY ChartsAssumption, ChartsStep, Zenon
<1>3. ChartsInv => ChartShows
  BY ChartsAssumption, ChartsInvShows, Zenon
<1> QED BY <1>1, <1>2, <1>3, PTL DEF ChartsSpec

=============================================================================

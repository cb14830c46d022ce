----------------------------- MODULE FleetProofs ----------------------------
(***************************************************************************)
(* Enrollment and updates, for any number of hosts, tokens, uses,          *)
(* overlapping calls and versions: a token gives out no more keys than it  *)
(* has uses, the key the collector takes from a host is on the host's      *)
(* machine, on its way there, or known to be lost, and a request for an    *)
(* update goes only once the machine has the build.                        *)
(***************************************************************************)
EXTENDS Fleet, FiniteSetTheorems, TLAPS

-----------------------------------------------------------------------------
(* Tokens *)

EnrollTypeOK ==
    /\ tokens \in [Tokens -> Nat \cup {None}]
    /\ issued \in Seq(Tokens)
    /\ enrolls \in [Calls -> Enrolls \cup {None}]

\* The row a transaction read FOR UPDATE is its own: it is there, with a use left.
TokensLocked ==
    \A c \in Calls : Open(c) => /\ tokens[enrolls[c].token] \in Nat \ {0}
                                /\ \A d \in Calls : Open(d) /\ enrolls[d].token = enrolls[c].token => d = c

UsesLeft(t) == IF tokens[t] = None THEN 0 ELSE tokens[t]

\* A use is either left or was for a key.
UsesAddUp == \A t \in Tokens : Cardinality(IssuedFor(t)) + UsesLeft(t) <= Uses

TokensInv == EnrollTypeOK /\ TokensLocked /\ UsesAddUp

LEMMA IssuedIsFinite ==
    ASSUME EnrollTypeOK, NEW t
    PROVE  /\ IsFiniteSet(IssuedFor(t)) /\ Cardinality(IssuedFor(t)) \in Nat
           /\ Len(issued) \in Nat /\ DOMAIN issued = 1 .. Len(issued)
<1>1. Len(issued) \in Nat /\ DOMAIN issued = 1 .. Len(issued)
  BY DEF EnrollTypeOK
<1>2. IsFiniteSet(1 .. Len(issued))
  BY <1>1, FS_Interval
<1>3. IssuedFor(t) \subseteq 1 .. Len(issued)
  BY <1>1 DEF IssuedFor
<1> QED
  BY <1>1, <1>2, <1>3, FS_Subset, FS_CardinalityType

\* A step that makes no key, and under which no call is opened and no token gains uses,
\* or loses its row while a call holds it.
LEMMA TokensUntouched ==
    ASSUME FleetAssumption, TokensInv, UNCHANGED issued,
           tokens' \in [Tokens -> Nat \cup {None}],
           enrolls' \in [Calls -> Enrolls \cup {None}],
           \A c \in Calls : Open(c)' => Open(c) /\ enrolls'[c].token = enrolls[c].token
                                        /\ tokens'[enrolls[c].token] = tokens[enrolls[c].token],
           \A t \in Tokens : tokens'[t] = tokens[t] \/ tokens'[t] = None
    PROVE  TokensInv'
<1>1. EnrollTypeOK'
  BY Zenon DEF TokensInv, EnrollTypeOK
<1>2. TokensLocked'
  BY Zenon DEF TokensInv, TokensLocked
<1>3. UsesAddUp'
  <2> SUFFICES ASSUME NEW t \in Tokens
               PROVE  Cardinality(IssuedFor(t)') + UsesLeft(t)' <= Uses
    BY Zenon DEF UsesAddUp
  <2>1. IssuedFor(t)' = IssuedFor(t) /\ Cardinality(IssuedFor(t)) \in Nat
    BY IssuedIsFinite, Zenon DEF IssuedFor, TokensInv
  <2>2. UsesLeft(t)' \in Nat /\ UsesLeft(t) \in Nat /\ UsesLeft(t)' <= UsesLeft(t)
    BY DEF UsesLeft, TokensInv, EnrollTypeOK
  <2>3. Cardinality(IssuedFor(t)) + UsesLeft(t) <= Uses /\ Uses \in Nat
    BY Zenon DEF TokensInv, UsesAddUp, FleetAssumption
  <2> QED
    BY <2>1, <2>2, <2>3
<1> QED
  BY <1>1, <1>2, <1>3, Zenon DEF TokensInv

LEMMA TokensStep ==
    ASSUME FleetAssumption, TokensInv, [Next]_vars
    PROVE  TokensInv'
<1>0. EnrollTypeOK /\ TokensLocked /\ UsesAddUp /\ Uses \in Nat \ {0} /\ None \notin Nat /\ None \notin Enrolls
  BY DEF TokensInv, FleetAssumption
<1>1. ASSUME NEW t \in Tokens, CreateEnrollmentToken(t)
      PROVE  TokensInv'
  <2>1. tokens[t] = None /\ IssuedFor(t) = {} /\ tokens' = [tokens EXCEPT ![t] = Uses] /\ UNCHANGED <<enrolls, issued>>
    BY <1>1, Zenon DEF CreateEnrollmentToken
  <2>2. EnrollTypeOK'
    BY <1>0, <2>1, Zenon DEF EnrollTypeOK
  <2>3. TokensLocked'
    BY <1>0, <2>1 DEF EnrollTypeOK, TokensLocked, Open, Enrolls
  <2>4. UsesAddUp'
    <3> SUFFICES ASSUME NEW u \in Tokens
                 PROVE  Cardinality(IssuedFor(u)') + UsesLeft(u)' <= Uses
      BY Zenon DEF UsesAddUp
    <3>1. IssuedFor(u)' = IssuedFor(u)
      BY <2>1 DEF IssuedFor
    <3>2. CASE u = t
      <4>1. Cardinality(IssuedFor(u)') = 0
        BY <2>1, <3>1, <3>2, FS_EmptySet, Zenon
      <4>2. UsesLeft(u)' = Uses
        BY <1>0, <2>1, <3>2, Zenon DEF UsesLeft, EnrollTypeOK
      <4> QED
        BY <1>0, <4>1, <4>2
    <3>3. CASE u # t
      <4>1. UsesLeft(u)' = UsesLeft(u)
        BY <1>0, <2>1, <3>3, Zenon DEF UsesLeft, EnrollTypeOK
      <4> QED
        BY <1>0, <3>1, <4>1, Zenon DEF UsesAddUp
    <3> QED
      BY <3>2, <3>3
  <2> QED
    BY <2>2, <2>3, <2>4 DEF TokensInv
<1>2. ASSUME NEW t \in Tokens, TokenGone(t)
      PROVE  TokensInv'
  <2>1. /\ tokens' = [tokens EXCEPT ![t] = None] /\ UNCHANGED <<enrolls, issued>>
        /\ \A c \in Calls : Open(c) => enrolls[c].token # t
    BY <1>2, Zenon DEF TokenGone
  <2>2. /\ tokens' \in [Tokens -> Nat \cup {None}]
        /\ \A u \in Tokens : tokens'[u] = tokens[u] \/ tokens'[u] = None
        /\ \A u \in Tokens : u # t => tokens'[u] = tokens[u]
    BY <1>0, <2>1, Zenon DEF EnrollTypeOK
  <2>3. \A c \in Calls : Open(c)' => Open(c) /\ enrolls'[c].token = enrolls[c].token
                                     /\ tokens'[enrolls[c].token] = tokens[enrolls[c].token]
    BY <1>0, <2>1, <2>2 DEF EnrollTypeOK, Open, Enrolls
  <2> QED
    BY <1>0, <2>1, <2>2, <2>3, TokensUntouched, Zenon DEF EnrollTypeOK
<1>3. ASSUME NEW c \in Calls, NEW h \in Hosts, NEW t \in Tokens, EnrollBegins(c, h, t)
      PROVE  TokensInv'
  <2> DEFINE e == [host |-> h, token |-> t, phase |-> "open", key |-> None, waited |-> TRUE]
  <2>1. Usable(t) /\ enrolls' = [enrolls EXCEPT ![c] = e] /\ UNCHANGED <<tokens, issued>> /\ e \in Enrolls
    BY <1>3, Zenon DEF EnrollBegins, Enrolls, storeVars
  <2>2. EnrollTypeOK'
    BY <1>0, <2>1, Zenon DEF EnrollTypeOK
  <2>3. \A d \in Calls \ {c} : (Open(d)' <=> Open(d)) /\ enrolls'[d] = enrolls[d]
    BY <1>0, <2>1, Zenon DEF EnrollTypeOK, Open
  <2>4. enrolls'[c].token = t /\ \A d \in Calls \ {c} : Open(d) => enrolls[d].token # t
    BY <1>0, <2>1, Zenon DEF EnrollTypeOK, Usable
  <2>5. tokens[t] \in Nat \ {0}
    BY <1>0, <2>1 DEF EnrollTypeOK, Usable
  <2>6. TokensLocked'
    BY <1>0, <2>1, <2>3, <2>4, <2>5 DEF TokensLocked
  <2>7. UsesAddUp'
    BY <1>0, <2>1, Zenon DEF UsesAddUp, UsesLeft, IssuedFor
  <2> QED
    BY <2>2, <2>6, <2>7 DEF TokensInv
<1>4. ASSUME NEW c \in Calls, EnrollCommits(c)
      PROVE  TokensInv'
  <2> DEFINE t == enrolls[c].token
             n == Len(issued) + 1
  <2>1. /\ Open(c) /\ enrolls[c] \in Enrolls /\ t \in Tokens
        /\ tokens' = [tokens EXCEPT ![t] = tokens[t] - 1] /\ issued' = Append(issued, t)
        /\ enrolls' = [enrolls EXCEPT ![c] = IF enrolls[c].waited
                                              THEN [enrolls[c] EXCEPT !.phase = "answered", !.key = n]
                                              ELSE None]
    BY <1>0, <1>4, Zenon DEF EnrollCommits, EnrollTypeOK, Open, Enrolls
  <2>2. Len(issued) \in Nat /\ DOMAIN issued = 1 .. Len(issued) /\ tokens[t] \in Nat \ {0}
    BY <1>0, <2>1, IssuedIsFinite, Zenon DEF TokensLocked
  <2>3. EnrollTypeOK'
    <3>1. tokens' \in [Tokens -> Nat \cup {None}] /\ issued' \in Seq(Tokens)
      BY <1>0, <2>1, <2>2 DEF EnrollTypeOK
    <3>2. ASSUME NEW e \in Enrolls, NEW k \in Nat
          PROVE  [e EXCEPT !.phase = "answered", !.key = k] \in Enrolls
      BY <3>2, Zenon DEF Enrolls
    <3>3. [enrolls[c] EXCEPT !.phase = "answered", !.key = n] \in Enrolls
      <4>1. n \in Nat
        BY <2>2
      <4> HIDE DEF n
      <4> QED
        BY <2>1, <3>2, <4>1, Zenon
    <3>4. PICK x \in Enrolls \cup {None} : enrolls' = [enrolls EXCEPT ![c] = x]
      BY <2>1, <3>3, Zenon
    <3>5. enrolls' \in [Calls -> Enrolls \cup {None}]
      BY <1>0, <3>4, Zenon DEF EnrollTypeOK
    <3> QED
      BY <3>1, <3>5 DEF EnrollTypeOK
  <2>4. ~Open(c)'
    BY <1>0, <2>1, Zenon DEF EnrollTypeOK, Open, Enrolls
  <2>5. \A d \in Calls \ {c} : (Open(d)' <=> Open(d)) /\ enrolls'[d] = enrolls[d]
    BY <1>0, <2>1, Zenon DEF EnrollTypeOK, Open
  <2>6. \A d \in Calls \ {c} : Open(d) => enrolls[d].token # t /\ enrolls[d].token \in Tokens
    BY <1>0, <2>1, Zenon DEF TokensLocked, EnrollTypeOK, Open, Enrolls
  <2>7. \A u \in Tokens \ {t} : tokens'[u] = tokens[u]
    BY <1>0, <2>1, Zenon DEF EnrollTypeOK
  <2>8. TokensLocked'
    BY <1>0, <2>4, <2>5, <2>6, <2>7 DEF TokensLocked
  <2>9. UsesAddUp'
    <3> SUFFICES ASSUME NEW u \in Tokens
                 PROVE  Cardinality(IssuedFor(u)') + UsesLeft(u)' <= Uses
      BY DEF UsesAddUp
    <3>1. IsFiniteSet(IssuedFor(u)) /\ Cardinality(IssuedFor(u)) \in Nat
      BY <1>0, IssuedIsFinite, Zenon
    <3>2. Cardinality(IssuedFor(u)) + UsesLeft(u) <= Uses
      BY <1>0 DEF UsesAddUp
    <3>3. DOMAIN issued' = 1 .. n /\ issued'[n] = t /\ \A i \in 1 .. Len(issued) : issued'[i] = issued[i]
      BY <1>0, <2>1, <2>2 DEF EnrollTypeOK
    <3>4. CASE u = t
      <4>1. IssuedFor(u)' = IssuedFor(u) \cup {n} /\ n \notin IssuedFor(u)
        BY <2>2, <3>3, <3>4 DEF IssuedFor
      <4>2. Cardinality(IssuedFor(u)') = Cardinality(IssuedFor(u)) + 1
        BY <3>1, <4>1, FS_AddElement, Zenon
      <4>3. UsesLeft(u)' = tokens[u] - 1 /\ UsesLeft(u) = tokens[u] /\ tokens[u] \in Nat \ {0}
        BY <1>0, <2>1, <2>2, <3>4 DEF UsesLeft, EnrollTypeOK
      <4> QED
        BY <1>0, <3>1, <3>2, <4>2, <4>3
    <3>5. CASE u # t
      <4>1. IssuedFor(u)' = IssuedFor(u)
        BY <2>2, <3>3, <3>5 DEF IssuedFor
      <4>2. UsesLeft(u)' = UsesLeft(u)
        BY <2>7, <3>5 DEF UsesLeft
      <4> QED
        BY <3>2, <4>1, <4>2
    <3> QED
      BY <3>4, <3>5, Zenon
  <2> QED
    BY <2>3, <2>8, <2>9 DEF TokensInv
<1>5. ASSUME NEW c \in Calls, EnrollFails(c) \/ EnrollAnswered(c) \/ WriteKeyFails(c)
      PROVE  TokensInv'
  <2>1. UNCHANGED <<tokens, issued>> /\ enrolls' = [enrolls EXCEPT ![c] = None]
    BY <1>5, Zenon DEF EnrollFails, EnrollAnswered, WriteKeyFails, storeVars
  <2>2. /\ enrolls' \in [Calls -> Enrolls \cup {None}]
        /\ \A d \in Calls : Open(d)' => Open(d) /\ enrolls'[d].token = enrolls[d].token
    BY <1>0, <2>1, Zenon DEF EnrollTypeOK, Open
  <2> QED
    BY <1>0, <2>1, <2>2, TokensUntouched, Zenon DEF EnrollTypeOK
<1>6. ASSUME NEW c \in Calls, EnrollGivenUp(c)
      PROVE  TokensInv'
  <2>1. /\ UNCHANGED <<tokens, issued>> /\ enrolls[c] \in Enrolls
        /\ enrolls' = [enrolls EXCEPT ![c] = IF enrolls[c].phase = "open"
                                              THEN [enrolls[c] EXCEPT !.waited = FALSE] ELSE None]
    BY <1>0, <1>6, Zenon DEF EnrollGivenUp, EnrollTypeOK, storeVars
  <2>2. [enrolls[c] EXCEPT !.waited = FALSE] \in Enrolls /\ [enrolls[c] EXCEPT !.waited = FALSE].token = enrolls[c].token
    BY <2>1, Zenon DEF Enrolls
  <2>3. /\ enrolls' \in [Calls -> Enrolls \cup {None}]
        /\ \A d \in Calls : Open(d)' => Open(d) /\ enrolls'[d].token = enrolls[d].token
    BY <1>0, <2>1, <2>2, Zenon DEF EnrollTypeOK, Open
  <2> QED
    BY <1>0, <2>1, <2>3, TokensUntouched, Zenon DEF EnrollTypeOK
<1>7. ASSUME UNCHANGED <<tokens, enrolls, issued>>
      PROVE  TokensInv'
  BY <1>7, <1>0, Zenon DEF TokensInv, EnrollTypeOK, TokensLocked, UsesAddUp, UsesLeft, IssuedFor, Open
<1>8. CASE \E h \in Hosts : AddHost(h) \/ RemoveHost(h) \/ Crash(h)
  BY <1>7, <1>8, Zenon DEF AddHost, RemoveHost, Crash, storeVars
<1>9. CASE PingNext
  BY <1>7, <1>9 DEF PingNext, sendPing, HandlePing, PingFails, PingGivenUp, HandleLatePing, AnswerDropped, UpdateBegins,
         Updating, DownloadBuild, DownloadSignature, InstallBuild, UpdateFails, Restart, storeVars
<1>10. CASE AdminNext \/ Tick \/ UNCHANGED vars
  BY <1>7, <1>10, Zenon DEF AdminNext, Upgrade, RequestAgentUpdate, Tick, vars, storeVars
<1> QED
  BY <1>1, <1>2, <1>3, <1>4, <1>5, <1>6, <1>8, <1>9, <1>10, Zenon DEF Next, EnrollNext

LEMMA TokensInvInitially ==
    ASSUME Init
    PROVE  TokensInv
<1>1. EnrollTypeOK /\ TokensLocked
  BY DEF Init, EnrollTypeOK, TokensLocked, Open
<1>2. ASSUME NEW t \in Tokens
      PROVE  Cardinality(IssuedFor(t)) + UsesLeft(t) <= Uses
  <2>1. IssuedFor(t) = {} /\ UsesLeft(t) = 0
    BY DEF Init, IssuedFor, UsesLeft
  <2> QED
    BY <2>1, FS_EmptySet, FleetAssumption DEF FleetAssumption
<1> QED
  BY <1>1, <1>2 DEF TokensInv, UsesAddUp

\* "lock the token so two hosts cannot both use its last use": Enroll never gives out
\* more keys for a token than it has uses, for any number of calls and tokens.
THEOREM TokenUsesKept == Spec => []TokenUses
<1>1. Init => TokensInv
  BY TokensInvInitially
<1>2. TokensInv /\ [Next]_vars => TokensInv'
  BY FleetAssumption, TokensStep
<1>3. TokensInv => TokenUses
  <2> SUFFICES ASSUME TokensInv, NEW t \in Tokens
               PROVE  Cardinality(IssuedFor(t)) <= Uses
    BY DEF TokenUses
  <2>1. Cardinality(IssuedFor(t)) \in Nat /\ UsesLeft(t) \in Nat /\ Uses \in Nat
    BY IssuedIsFinite, FleetAssumption, Zenon DEF TokensInv, EnrollTypeOK, UsesLeft, FleetAssumption
  <2> QED
    BY <2>1 DEF TokensInv, UsesAddUp
<1> QED
  BY <1>1, <1>2, <1>3, PTL DEF Spec

-----------------------------------------------------------------------------
(* Keys *)

KeysTypeOK ==
    /\ TokensInv
    /\ DOMAIN hosts = Hosts
    /\ \A h \in Hosts : hosts[h] # None => "key" \in DOMAIN hosts[h]
    /\ DOMAIN keyFile = Hosts
    /\ \A c \in Calls : enrolls[c] # None => (enrolls[c].phase = "answered" <=> enrolls[c].key # None)

\* A machine waits for one call at most, and whose answer is on its way is waited for.
OneWaits ==
    \A c, d \in Calls :
        /\ enrolls[c] # None /\ enrolls[c].phase = "answered" => enrolls[c].waited
        /\ enrolls[c] # None /\ enrolls[d] # None /\ enrolls[c].waited /\ enrolls[d].waited
              /\ enrolls[c].host = enrolls[d].host => c = d

\* The key on its way to a machine is the one the collector takes, unless a call that
\* nobody waited for replaced it or the host was removed.
AnswerIsKey ==
    \A c \in Calls :
        enrolls[c] # None /\ enrolls[c].phase = "answered" =>
            LET h == enrolls[c].host
            IN  h \in lost \/ hosts[h] = None \/ hosts[h].key \in {None, enrolls[c].key}

KeysInv == KeysTypeOK /\ OneWaits /\ AnswerIsKey /\ KeyOnMachine

\* A step that takes no part in enrollment leaves every key as it is, or takes it away.
LEMMA KeysUntouched ==
    ASSUME KeysInv, TokensInv', UNCHANGED <<enrolls, keyFile, lost>>,
           DOMAIN hosts' = Hosts,
           \A h \in Hosts : hosts'[h] # None =>
               /\ "key" \in DOMAIN hosts'[h]
               /\ (hosts[h] # None /\ hosts'[h].key = hosts[h].key) \/ hosts'[h].key = None
    PROVE  KeysInv'
<1>1. KeysTypeOK' /\ OneWaits'
  BY Zenon DEF KeysInv, KeysTypeOK, OneWaits
<1>2. AnswerIsKey'
  <2> SUFFICES ASSUME NEW c \in Calls, enrolls[c] # None, enrolls[c].phase = "answered"
               PROVE  LET h == enrolls[c].host
                      IN  h \in lost \/ hosts'[h] = None \/ hosts'[h].key \in {None, enrolls[c].key}
    BY Zenon DEF AnswerIsKey
  <2>1. enrolls[c].host \in Hosts
    BY Zenon DEF KeysInv, KeysTypeOK, TokensInv, EnrollTypeOK, Enrolls
  <2> QED
    BY <2>1, Zenon DEF KeysInv, AnswerIsKey
<1>3. KeyOnMachine'
  <2>1. \A h \in Hosts : Waiting(h)' = Waiting(h)
    BY Zenon DEF Waiting
  <2> QED
    BY <2>1, Zenon DEF KeysInv, KeyOnMachine
<1> QED
  BY <1>1, <1>2, <1>3 DEF KeysInv

LEMMA CheckInKeepsKey ==
    ASSUME NEW row, NEW ping, "key" \in DOMAIN row
    PROVE  /\ "key" \in DOMAIN CheckedIn(row, ping) /\ CheckedIn(row, ping).key = row.key
           /\ "key" \in DOMAIN Requested(row) /\ Requested(row).key = row.key
BY DEF CheckedIn, Requested

\* A call ends, and the machine gets its key, another one or none.
LEMMA CallEnds ==
    ASSUME KeysInv, TokensInv', NEW c \in Calls, enrolls[c] # None, FleetAssumption,
           enrolls' = [enrolls EXCEPT ![c] = None], UNCHANGED hosts,
           DOMAIN keyFile' = Hosts,
           \A h \in Hosts : h # enrolls[c].host => keyFile'[h] = keyFile[h],
           lost \subseteq lost',
           \/ enrolls[c].phase = "open" /\ UNCHANGED keyFile
           \/ enrolls[c].host \in lost'
           \/ enrolls[c].phase = "answered" /\ keyFile'[enrolls[c].host] = enrolls[c].key
    PROVE  KeysInv'
<1>1. /\ enrolls \in [Calls -> Enrolls \cup {None}] /\ enrolls'[c] = None
      /\ \A d \in Calls \ {c} : enrolls'[d] = enrolls[d]
  BY DEF KeysInv, KeysTypeOK, TokensInv, EnrollTypeOK
<1>2. KeysTypeOK'
  BY <1>1, Zenon DEF KeysInv, KeysTypeOK
<1>3. OneWaits'
  BY <1>1 DEF KeysInv, OneWaits
<1>4. AnswerIsKey'
  BY <1>1, Zenon DEF KeysInv, AnswerIsKey
<1>5. KeyOnMachine'
  <2> SUFFICES ASSUME NEW h \in Hosts, hosts[h] # None, hosts[h].key # None
               PROVE  \/ keyFile'[h] = hosts[h].key
                      \/ \E d \in Waiting(h)' : enrolls'[d].key = hosts[h].key
                      \/ h \in lost'
    BY DEF KeyOnMachine
  <2>1. \/ keyFile[h] = hosts[h].key
        \/ \E d \in Waiting(h) : enrolls[d].key = hosts[h].key
        \/ h \in lost
    BY Zenon DEF KeysInv, KeyOnMachine
  <2>2. \A d \in Waiting(h) : d # c => d \in Waiting(h)' /\ enrolls'[d].key = enrolls[d].key
    BY <1>1, Zenon DEF Waiting
  <2>3. CASE h # enrolls[c].host
    <3>1. c \notin Waiting(h)
      BY <2>3, Zenon DEF Waiting
    <3> QED
      BY <2>1, <2>2, <2>3, <3>1, Zenon
  <2>4. CASE h = enrolls[c].host /\ enrolls[c].phase = "open" /\ UNCHANGED keyFile
    <3>1. enrolls[c].key = None
      BY <2>4, Zenon DEF KeysInv, KeysTypeOK
    <3> QED
      BY <2>1, <2>2, <2>4, <3>1, Zenon
  <2>5. CASE h = enrolls[c].host /\ enrolls[c].phase = "answered" /\ keyFile'[h] = enrolls[c].key
    BY <2>5, Zenon DEF KeysInv, AnswerIsKey
  <2> QED
    BY <2>3, <2>4, <2>5, Zenon
<1> QED
  BY <1>2, <1>3, <1>4, <1>5, Zenon DEF KeysInv

LEMMA KeysStep ==
    ASSUME FleetAssumption, KeysInv, [Next]_vars
    PROVE  KeysInv'
<1>0. TokensInv' /\ enrolls \in [Calls -> Enrolls \cup {None}] /\ None \notin Nat /\ None \notin Enrolls
  BY TokensStep, Zenon DEF KeysInv, KeysTypeOK, TokensInv, EnrollTypeOK, FleetAssumption
<1>1. ASSUME UNCHANGED <<hosts, enrolls, keyFile, lost>>
      PROVE  KeysInv'
  BY <1>0, <1>1, KeysUntouched, Zenon DEF KeysInv, KeysTypeOK
<1>2. ASSUME NEW h \in Hosts, NEW row, hosts' = [hosts EXCEPT ![h] = row], UNCHANGED <<enrolls, keyFile, lost>>,
             row # None => /\ "key" \in DOMAIN row
                           /\ (hosts[h] # None /\ row.key = hosts[h].key) \/ row.key = None
      PROVE  KeysInv'
  BY <1>0, <1>2, KeysUntouched, Zenon DEF KeysInv, KeysTypeOK
<1>3. ASSUME NEW h \in Hosts, AddHost(h) \/ RemoveHost(h)
      PROVE  KeysInv'
  <2>1. "key" \in DOMAIN NewRow /\ NewRow.key = None
    BY Zenon DEF NewRow
  <2> QED
    BY <1>2, <1>3, <2>1, Zenon DEF AddHost, RemoveHost, machineVars
<1>4. ASSUME NEW h \in Hosts, NEW ping, hosts[h] # None, UNCHANGED <<enrolls, keyFile, lost>>,
             hosts' = [hosts EXCEPT ![h] = CheckedIn(hosts[h], ping)] \/ hosts' = [hosts EXCEPT ![h] = Requested(hosts[h])]
      PROVE  KeysInv'
  <2>1. "key" \in DOMAIN hosts[h]
    BY <1>4, Zenon DEF KeysInv, KeysTypeOK
  <2> QED
    BY <1>2, <1>4, <2>1, CheckInKeepsKey, Zenon
<1>5. ASSUME NEW h \in Hosts, HandlePing(h)
      PROVE  KeysInv'
  BY <1>4, <1>5, Zenon DEF HandlePing, Accepted
<1>6. ASSUME NEW h \in Hosts, HandleLatePing(h)
      PROVE  KeysInv'
  <2>1. UNCHANGED <<enrolls, keyFile, lost>>
    BY <1>6, Zenon DEF HandleLatePing, machineVars
  <2>2. CASE Accepted(h, late[h].key)
    BY <1>4, <1>6, <2>1, <2>2, Zenon DEF HandleLatePing, Accepted
  <2>3. CASE ~Accepted(h, late[h].key)
    BY <1>1, <1>6, <2>1, <2>3, Zenon DEF HandleLatePing
  <2> QED
    BY <2>2, <2>3
<1>7. ASSUME NEW h \in Hosts, RequestAgentUpdate(h)
      PROVE  KeysInv'
  BY <1>4, <1>7, Zenon DEF RequestAgentUpdate, Asks, machineVars
<1>8. CASE \E h \in Hosts : sendPing(h) \/ PingFails(h) \/ PingGivenUp(h) \/ AnswerDropped(h) \/ UpdateBegins(h)
                            \/ Updating(h) \/ Crash(h)
  BY <1>1, <1>8, Zenon DEF sendPing, PingFails, PingGivenUp, AnswerDropped, UpdateBegins, Updating, DownloadBuild,
         DownloadSignature, InstallBuild, UpdateFails, Restart, Crash, storeVars
<1>9. CASE (\E part \in {"dashboard", "build", "sig"}, v \in Versions : Upgrade(part, v)) \/ Tick \/ UNCHANGED vars
  BY <1>1, <1>9, Zenon DEF Upgrade, Tick, vars, storeVars, machineVars
<1>10. CASE \E t \in Tokens : CreateEnrollmentToken(t) \/ TokenGone(t)
  BY <1>1, <1>10, Zenon DEF CreateEnrollmentToken, TokenGone, machineVars
<1>11. ASSUME NEW c \in Calls, NEW h \in Hosts, NEW t \in Tokens, EnrollBegins(c, h, t)
       PROVE  KeysInv'
  <2> DEFINE e == [host |-> h, token |-> t, phase |-> "open", key |-> None, waited |-> TRUE]
  <2>1. /\ enrolls[c] = None /\ Waiting(h) = {} /\ UNCHANGED <<hosts, keyFile, lost>>
        /\ enrolls'[c] = e /\ \A d \in Calls \ {c} : enrolls'[d] = enrolls[d]
    BY <1>0, <1>11, Zenon DEF EnrollBegins, storeVars, machineVars
  <2>2. KeysTypeOK'
    BY <1>0, <2>1 DEF KeysInv, KeysTypeOK
  <2>3. OneWaits'
    BY <2>1 DEF KeysInv, OneWaits, Waiting
  <2>4. AnswerIsKey'
    BY <2>1 DEF KeysInv, AnswerIsKey
  <2>5. \A g \in Hosts : \A d \in Waiting(g) : d \in Waiting(g)' /\ enrolls'[d].key = enrolls[d].key
    BY <2>1, Zenon DEF Waiting
  <2>6. KeyOnMachine'
    BY <2>1, <2>5 DEF KeysInv, KeyOnMachine
  <2> QED
    BY <2>2, <2>3, <2>4, <2>6 DEF KeysInv
<1>12. ASSUME NEW c \in Calls, EnrollCommits(c)
       PROVE  KeysInv'
  <2> DEFINE h == enrolls[c].host
             k == Len(issued) + 1
             e == enrolls[c]
  <2>1. /\ e # None /\ e \in Enrolls /\ e.phase = "open" /\ h \in Hosts
        /\ hosts' = [hosts EXCEPT ![h] = WithKey(hosts[h], k)] /\ UNCHANGED keyFile
        /\ lost' = IF e.waited THEN lost \ {h} ELSE lost \cup {h}
        /\ enrolls' = [enrolls EXCEPT ![c] = IF e.waited THEN [e EXCEPT !.phase = "answered", !.key = k] ELSE None]
    BY <1>0, <1>12, Zenon DEF EnrollCommits, Open, Enrolls, machineVars
  <2>2. k \in Nat /\ k # None
    BY <1>0, IssuedIsFinite DEF KeysInv, KeysTypeOK, TokensInv
  <2> HIDE DEF k
  <2>3. "key" \in DOMAIN WithKey(hosts[h], k) /\ WithKey(hosts[h], k).key = k
    BY <2>1, Zenon DEF WithKey, NewRow, KeysInv, KeysTypeOK
  <2>4. /\ DOMAIN hosts' = Hosts /\ hosts'[h] = WithKey(hosts[h], k)
        /\ \A g \in Hosts \ {h} : hosts'[g] = hosts[g]
    BY <2>1, Zenon DEF KeysInv, KeysTypeOK
  <2>5. \A d \in Calls \ {c} : enrolls'[d] = enrolls[d]
    BY <1>0, <2>1, Zenon
  <2>6. \A g \in Hosts \ {h} : (g \in lost' <=> g \in lost) /\ \A d \in Waiting(g) : d # c /\ d \in Waiting(g)'
    BY <2>1, <2>5, Zenon DEF Waiting
  <2>7. CASE e.waited
    <3>1. /\ enrolls'[c] # None /\ enrolls'[c].phase = "answered" /\ enrolls'[c].key = k /\ enrolls'[c].waited
          /\ enrolls'[c].host = h
      <4>1. enrolls'[c] = [e EXCEPT !.phase = "answered", !.key = k]
        BY <1>0, <2>1, <2>7, Zenon
      <4>2. enrolls' \in [Calls -> Enrolls \cup {None}]
        BY <1>0 DEF TokensInv, EnrollTypeOK
      <4>3. [e EXCEPT !.phase = "answered", !.key = k] \in Enrolls
        BY <2>1, <2>2, Zenon DEF Enrolls
      <4> QED
        BY <1>0, <2>1, <2>7, <4>1, <4>3, Zenon DEF Enrolls
    <3>2. \A d \in Calls \ {c} : enrolls[d] # None /\ enrolls[d].phase = "answered" => enrolls[d].host # h
      BY <2>1, <2>7, Zenon DEF KeysInv, OneWaits
    <3>3. KeysTypeOK'
      BY <1>0, <2>2, <2>3, <2>4, <2>5, <2>1, <3>1 DEF KeysInv, KeysTypeOK
    <3>4. OneWaits'
      BY <2>1, <2>5, <2>7, <3>1 DEF KeysInv, OneWaits
    <3>5. AnswerIsKey'
      <4> SUFFICES ASSUME NEW d \in Calls, enrolls'[d] # None, enrolls'[d].phase = "answered"
                   PROVE  \/ enrolls'[d].host \in lost' \/ hosts'[enrolls'[d].host] = None
                          \/ hosts'[enrolls'[d].host].key \in {None, enrolls'[d].key}
        BY Zenon DEF AnswerIsKey
      <4>1. CASE d = c
        BY <2>3, <2>4, <3>1, <4>1, Zenon
      <4>2. CASE d # c
        <5>1. enrolls'[d] = enrolls[d] /\ enrolls[d].host \in Hosts \ {h}
          BY <1>0, <2>5, <3>2, <4>2, Zenon DEF Enrolls
        <5> QED
          BY <2>4, <2>6, <5>1, Zenon DEF KeysInv, AnswerIsKey
      <4> QED
        BY <4>1, <4>2, Zenon
    <3>6. KeyOnMachine'
      <4>1. c \in Waiting(h)'
        BY <3>1, Zenon DEF Waiting
      <4> QED
        BY <2>1, <2>3, <2>4, <2>5, <2>6, <3>1, <4>1 DEF KeysInv, KeyOnMachine
    <3> QED
      BY <3>3, <3>4, <3>5, <3>6 DEF KeysInv
  <2>8. CASE ~e.waited
    <3>1. enrolls'[c] = None /\ h \in lost'
      BY <1>0, <2>1, <2>8, Zenon
    <3>2. KeysTypeOK'
      BY <1>0, <2>1, <2>3, <2>4, <2>5, <3>1 DEF KeysInv, KeysTypeOK
    <3>3. OneWaits'
      BY <2>5, <3>1 DEF KeysInv, OneWaits
    <3>4. AnswerIsKey'
      <4> SUFFICES ASSUME NEW d \in Calls, enrolls'[d] # None, enrolls'[d].phase = "answered"
                   PROVE  \/ enrolls'[d].host \in lost' \/ hosts'[enrolls'[d].host] = None
                          \/ hosts'[enrolls'[d].host].key \in {None, enrolls'[d].key}
        BY Zenon DEF AnswerIsKey
      <4>1. enrolls'[d] = enrolls[d] /\ enrolls[d].host \in Hosts
        BY <1>0, <2>5, <3>1, Zenon DEF Enrolls
      <4> QED
        BY <2>4, <2>6, <3>1, <4>1 DEF KeysInv, AnswerIsKey
    <3>5. KeyOnMachine'
      BY <2>1, <2>4, <2>5, <2>6, <3>1 DEF KeysInv, KeyOnMachine
    <3> QED
      BY <3>2, <3>3, <3>4, <3>5 DEF KeysInv
  <2> QED
    BY <2>7, <2>8
<1>13. ASSUME NEW c \in Calls, EnrollFails(c) \/ EnrollAnswered(c) \/ WriteKeyFails(c)
       PROVE  KeysInv'
  <2>1. DOMAIN keyFile = Hosts /\ enrolls[c] # None /\ enrolls[c].host \in Hosts
    BY <1>0, <1>13, Zenon DEF KeysInv, KeysTypeOK, EnrollFails, EnrollAnswered, WriteKeyFails, Open, Enrolls
  <2>2. CASE EnrollFails(c)
    BY <1>0, <2>1, <2>2, CallEnds, Zenon DEF EnrollFails, Open, storeVars, machineVars
  <2>3. CASE EnrollAnswered(c)
    BY <1>0, <2>1, <2>3, CallEnds, Zenon DEF EnrollAnswered, storeVars
  <2>4. CASE WriteKeyFails(c)
    BY <1>0, <2>1, <2>4, CallEnds, Zenon DEF WriteKeyFails, storeVars
  <2> QED
    BY <1>13, <2>2, <2>3, <2>4
<1>14. ASSUME NEW c \in Calls, EnrollGivenUp(c)
       PROVE  KeysInv'
  <2> DEFINE e == enrolls[c]
  <2>1. e # None /\ e \in Enrolls /\ UNCHANGED <<hosts, keyFile>> /\ DOMAIN keyFile = Hosts
    BY <1>0, <1>14, Zenon DEF EnrollGivenUp, storeVars, machineVars, KeysInv, KeysTypeOK
  <2>2. CASE e.phase = "answered"
    <3>1. enrolls' = [enrolls EXCEPT ![c] = None] /\ lost' = lost \cup {e.host}
      BY <1>14, <2>2 DEF EnrollGivenUp
    <3> QED
      BY <1>0, <2>1, <3>1, CallEnds, Zenon
  <2>3. CASE e.phase = "open"
    <3>1. /\ enrolls'[c] = [e EXCEPT !.waited = FALSE] /\ UNCHANGED lost
          /\ \A d \in Calls \ {c} : enrolls'[d] = enrolls[d]
      BY <1>0, <1>14, <2>3 DEF EnrollGivenUp
    <3>2. /\ enrolls'[c].phase = "open" /\ enrolls'[c].key = e.key /\ ~enrolls'[c].waited
          /\ e.key = None
      BY <2>1, <2>3, <3>1, Zenon DEF Enrolls, KeysInv, KeysTypeOK
    <3>3. KeysTypeOK'
      BY <1>0, <2>1, <3>1, <3>2, Zenon DEF KeysInv, KeysTypeOK
    <3>4. OneWaits'
      <4> SUFFICES ASSUME NEW a \in Calls, NEW b \in Calls
                   PROVE  /\ enrolls'[a] # None /\ enrolls'[a].phase = "answered" => enrolls'[a].waited
                          /\ enrolls'[a] # None /\ enrolls'[b] # None /\ enrolls'[a].waited /\ enrolls'[b].waited
                                /\ enrolls'[a].host = enrolls'[b].host => a = b
        BY Zenon DEF OneWaits
      <4>1. CASE a = c \/ b = c
        BY <3>1, <3>2, <4>1, Zenon DEF KeysInv, OneWaits
      <4>2. CASE a # c /\ b # c
        BY <3>1, <4>2 DEF KeysInv, OneWaits
      <4> QED
        BY <4>1, <4>2, Zenon
    <3>5. AnswerIsKey'
      BY <2>1, <3>1, <3>2, Zenon DEF KeysInv, AnswerIsKey
    <3>6. \A g \in Hosts : \A d \in Waiting(g) : d # c => d \in Waiting(g)'
      BY <3>1 DEF Waiting
    <3>7. \A d \in Calls : enrolls[d].key # None => d # c /\ enrolls'[d].key = enrolls[d].key
      BY <3>1, <3>2, Zenon
    <3>8. KeyOnMachine'
      <4>1. \A g \in Hosts : \A d \in Waiting(g) :
                enrolls[d].key # None => d \in Waiting(g)' /\ enrolls'[d].key = enrolls[d].key
        BY <3>6, <3>7, Zenon DEF Waiting
      <4> QED
        BY <2>1, <3>1, <4>1 DEF KeysInv, KeyOnMachine
    <3> QED
      BY <3>3, <3>4, <3>5, <3>8 DEF KeysInv
  <2> QED
    BY <2>1, <2>2, <2>3, Zenon DEF Enrolls
<1> QED
  BY <1>3, <1>5, <1>6, <1>7, <1>8, <1>9, <1>10, <1>11, <1>12, <1>13, <1>14, Zenon DEF Next, EnrollNext, PingNext, AdminNext

\* Enroll "returns the host's new credential, which replaces any earlier one": whatever
\* calls fail, overlap or are given up, the key the collector takes from a host is the
\* one on its machine or on its way there, or the loss of an answer is to blame.
THEOREM KeysOnMachines == Spec => []KeyOnMachine
<1>1. Init => KeysInv
  <2> SUFFICES ASSUME Init PROVE KeysInv
    OBVIOUS
  <2>1. TokensInv
    BY TokensInvInitially
  <2> QED
    BY <2>1, Zenon DEF Init, KeysInv, KeysTypeOK, OneWaits, AnswerIsKey, KeyOnMachine
<1>2. KeysInv /\ [Next]_vars => KeysInv'
  BY FleetAssumption, KeysStep
<1>3. KeysInv => KeyOnMachine
  BY DEF KeysInv
<1> QED
  BY <1>1, <1>2, <1>3, PTL DEF Spec

-----------------------------------------------------------------------------
(* Updates *)

Keys == Nat \cup {None}
Underway == {"fetching", "fetched", "checking", "installed"}

Rows == [key : Keys, version : Versions \cup {None}, update : Updates \cup {None}, error : BOOLEAN]
Pings == [key : Keys, version : Versions, error : BOOLEAN]
Agents == [phase : {"idle", "pinging", "answered"} \cup Underway, version : Versions, key : Keys, tried : Nat,
           error : BOOLEAN, update : Updates \cup {None}, build : Versions \cup {None}, sig : Versions \cup {None}]

UpdatesTypeOK ==
    /\ EnrollTypeOK
    /\ hosts \in [Hosts -> Rows \cup {None}]
    /\ late \in [Hosts -> Pings \cup {None}]
    /\ keyFile \in [Hosts -> Keys]
    /\ exe \in [Hosts -> Versions]
    /\ agent \in [Hosts -> Agents]
    /\ downloads \in [{"dashboard", "build", "sig"} -> Versions]
    /\ now \in Nat

\* What a machine runs and says is no newer than the build it has, the build it has no
\* newer than what it is asked for, and that no newer than the dashboard.
Forward(row, ping, x, a, dashboard) ==
    /\ a.version <= x /\ x <= dashboard
    /\ ping # None => ping.version <= x
    /\ a.phase \in Underway => a.update # None
    /\ a.update # None => x <= a.update.version /\ a.update.version <= dashboard
    /\ row # None /\ row.update # None =>
          /\ x <= row.update.version /\ row.update.version <= dashboard
          /\ a.update # None => a.update.version <= row.update.version

OnlyForward == \A h \in Hosts : Forward(hosts[h], late[h], exe[h], agent[h], downloads.dashboard)

UpdatesInv == TokensInv /\ UpdatesTypeOK /\ OnlyForward

\* An agent that only moves on to its next phase.
LEMMA AgentPhase ==
    ASSUME NEW a \in Agents, NEW p \in {"idle", "pinging", "answered"} \cup Underway
    PROVE  /\ [a EXCEPT !.phase = p] \in Agents /\ [a EXCEPT !.phase = p].phase = p
           /\ [a EXCEPT !.phase = p].version = a.version /\ [a EXCEPT !.phase = p].update = a.update
BY DEF Agents

LEMMA AgentUpdate ==
    ASSUME NEW a \in Agents, NEW u \in Updates \cup {None}
    PROVE  /\ [a EXCEPT !.update = u] \in Agents /\ [a EXCEPT !.update = u].phase = a.phase
           /\ [a EXCEPT !.update = u].version = a.version /\ [a EXCEPT !.update = u].update = u
BY DEF Agents

LEMMA AgentTried ==
    ASSUME NEW a \in Agents, NEW n \in Nat
    PROVE  /\ [a EXCEPT !.tried = n] \in Agents /\ [a EXCEPT !.tried = n].phase = a.phase
           /\ [a EXCEPT !.tried = n].version = a.version /\ [a EXCEPT !.tried = n].update = a.update
BY DEF Agents

LEMMA AgentBuild ==
    ASSUME NEW a \in Agents, NEW v \in Versions \cup {None}
    PROVE  /\ [a EXCEPT !.build = v] \in Agents /\ [a EXCEPT !.build = v].phase = a.phase
           /\ [a EXCEPT !.build = v].version = a.version /\ [a EXCEPT !.build = v].update = a.update
           /\ [a EXCEPT !.sig = v] \in Agents /\ [a EXCEPT !.sig = v].phase = a.phase
           /\ [a EXCEPT !.sig = v].version = a.version /\ [a EXCEPT !.sig = v].update = a.update
BY DEF Agents

\* The build of a process that starts is the one in its file.
LEMMA AgentStarts ==
    ASSUME UpdatesTypeOK, NEW h \in Hosts
    PROVE  /\ Started(h) \in Agents /\ Started(h).phase = "idle"
           /\ Started(h).version = exe[h] /\ Started(h).update = None
BY DEF UpdatesTypeOK, Started, Agents

LEMMA AgentFails ==
    ASSUME UpdatesTypeOK, NEW h \in Hosts
    PROVE  /\ Failed(h) \in Agents /\ Failed(h).phase = "idle"
           /\ Failed(h).version = agent[h].version /\ Failed(h).update = None
<1>1. PICK a \in Agents : a = agent[h]
  BY DEF UpdatesTypeOK
<1>2. PICK b : b = [a EXCEPT !.phase = "idle"]
  BY Zenon
<1>3. PICK c : c = [b EXCEPT !.error = TRUE]
  BY Zenon
<1>4. PICK d : d = [c EXCEPT !.update = None]
  BY Zenon
<1>5. PICK e : e = [d EXCEPT !.build = None]
  BY Zenon
<1>6. Failed(h) = [e EXCEPT !.sig = None]
  BY <1>1, <1>2, <1>3, <1>4, <1>5, Zenon DEF Failed
<1>7. b \in Agents /\ b.phase = "idle" /\ b.version = a.version
  BY <1>2, AgentPhase
<1>8. c \in Agents /\ c.phase = "idle" /\ c.version = a.version
  BY <1>3, <1>7, Zenon DEF Agents
<1>9. d \in Agents /\ d.phase = "idle" /\ d.version = a.version /\ d.update = None
  <2>1. None \in Updates \cup {None}
    OBVIOUS
  <2> QED
    BY <1>4, <1>8, <2>1, AgentUpdate, Zenon
<1>10. e \in Agents /\ e.phase = "idle" /\ e.version = a.version /\ e.update = None
  <2>1. None \in Versions \cup {None}
    OBVIOUS
  <2> QED
    BY <1>5, <1>9, <2>1, AgentBuild, Zenon
<1>11. PICK f : f = [e EXCEPT !.sig = None]
  BY Zenon
<1>12. f \in Agents /\ f.phase = "idle" /\ f.version = a.version /\ f.update = None
  <2>1. None \in Versions \cup {None}
    OBVIOUS
  <2> QED
    BY <1>10, <1>11, <2>1, AgentBuild, Zenon
<1> QED
  BY <1>1, <1>6, <1>11, <1>12, Zenon

\* What a check-in and a request do to a row.
LEMMA RowsOfCheckIn ==
    ASSUME NEW row \in Rows, NEW ping \in Pings
    PROVE  /\ CheckedIn(row, ping) \in Rows
           /\ CheckedIn(row, ping).update = row.update \/ CheckedIn(row, ping).update = None
           /\ row.update # None /\ CheckedIn(row, ping).update = None => row.update.version = ping.version
<1>1. CASE row.update # None /\ row.update.version = ping.version
  <2>1. PICK r : r = [row EXCEPT !.version = ping.version]
    BY Zenon
  <2>2. PICK s : s = [r EXCEPT !.update = None]
    BY Zenon
  <2>3. CheckedIn(row, ping) = [s EXCEPT !.error = FALSE]
    BY <1>1, <2>1, <2>2, Zenon DEF CheckedIn
  <2>4. r \in Rows
    BY <2>1 DEF Rows, Pings
  <2>5. s \in Rows /\ s.update = None
    BY <2>2, <2>4 DEF Rows
  <2> QED
    BY <1>1, <2>3, <2>5, Zenon DEF Rows
<1>2. CASE ~(row.update # None /\ row.update.version = ping.version)
  <2>1. PICK r : r = [row EXCEPT !.version = ping.version]
    BY Zenon
  <2>2. CheckedIn(row, ping) = [r EXCEPT !.error = ping.error]
    BY <1>2, <2>1 DEF CheckedIn
  <2>3. r \in Rows /\ r.update = row.update
    BY <2>1 DEF Rows, Pings
  <2> QED
    BY <1>2, <2>2, <2>3 DEF Rows, Pings
<1> QED
  BY <1>1, <1>2

LEMMA RowsOfRequest ==
    ASSUME UpdatesTypeOK, NEW row \in Rows
    PROVE  /\ Requested(row) \in Rows
           /\ Requested(row).update \in Updates
           /\ Requested(row).update.version = downloads.dashboard
<1>1. PICK u : u = [version |-> downloads.dashboard, at |-> now]
  BY Zenon
<1>2. u \in Updates /\ u.version = downloads.dashboard
  BY <1>1 DEF UpdatesTypeOK, Updates
<1>3. PICK r : r = [row EXCEPT !.update = u]
  BY Zenon
<1>4. Requested(row) = [r EXCEPT !.error = FALSE]
  BY <1>1, <1>3, Zenon DEF Requested
<1>5. r \in Rows /\ r.update = u
  BY <1>2, <1>3 DEF Rows
<1> QED
  BY <1>2, <1>4, <1>5, Zenon DEF Rows

LEMMA RowsOfKey ==
    ASSUME NEW row \in Rows \cup {None}, NEW k \in Nat
    PROVE  /\ WithKey(row, k) \in Rows
           /\ IF row = None THEN WithKey(row, k).update = None ELSE WithKey(row, k).update = row.update
<1>1. NewRow \in Rows /\ NewRow.update = None
  BY DEF NewRow, Rows, Keys
<1>2. CASE row = None
  <2>1. PICK new \in Rows : new = NewRow
    BY <1>1
  <2> QED
    BY <1>1, <1>2, <2>1 DEF WithKey, Rows, Keys
<1>3. CASE row # None
  BY <1>3 DEF WithKey, Rows, Keys
<1> QED
  BY <1>2, <1>3

\* A step of one machine leaves the others as they are.
LEMMA OneMoves ==
    ASSUME UpdatesInv, TokensInv', UpdatesTypeOK', UNCHANGED downloads, NEW h \in Hosts,
           Forward(hosts'[h], late'[h], exe'[h], agent'[h], downloads.dashboard),
           \A g \in Hosts : g # h => /\ hosts'[g] = hosts[g] /\ late'[g] = late[g]
                                     /\ exe'[g] = exe[g] /\ agent'[g] = agent[g]
    PROVE  UpdatesInv'
<1>1. \A g \in Hosts : Forward(hosts'[g], late'[g], exe'[g], agent'[g], downloads'.dashboard)
  BY Zenon DEF UpdatesInv, OnlyForward
<1> QED
  BY <1>1, Zenon DEF UpdatesInv, OnlyForward
LEMMA UpdatesStep ==
    ASSUME FleetAssumption, UpdatesInv, [Next]_vars
    PROVE  UpdatesInv'
<1>0. TokensInv' /\ UpdatesTypeOK /\ EnrollTypeOK' /\ None \notin Updates /\ Versions \subseteq Nat
  BY TokensStep, Zenon DEF UpdatesInv, TokensInv, FleetAssumption
<1>1. ASSUME UNCHANGED <<hosts, late, exe, agent, downloads>>, keyFile' \in [Hosts -> Keys], now' \in Nat
      PROVE  UpdatesInv'
  BY <1>0, <1>1, Zenon DEF UpdatesInv, UpdatesTypeOK, OnlyForward
<1>2. ASSUME NEW h \in Hosts, NEW row \in Rows \cup {None}, hosts' = [hosts EXCEPT ![h] = row],
             UNCHANGED <<late, keyFile, exe, agent, downloads, now>>,
             Forward(row, late[h], exe[h], agent[h], downloads.dashboard)
      PROVE  UpdatesInv'
  <2>1. /\ hosts' \in [Hosts -> Rows \cup {None}] /\ hosts'[h] = row
        /\ \A g \in Hosts : g # h => hosts'[g] = hosts[g]
    BY <1>0, <1>2 DEF UpdatesTypeOK
  <2>2. UpdatesTypeOK'
    BY <1>0, <1>2, <2>1, Zenon DEF UpdatesTypeOK
  <2> QED
    BY <1>0, <1>2, <2>1, <2>2, OneMoves, Zenon
<1>3. ASSUME NEW h \in Hosts, NEW a \in Agents, agent' = [agent EXCEPT ![h] = a],
             UNCHANGED <<hosts, late, keyFile, exe, downloads, now>>,
             Forward(hosts[h], late[h], exe[h], a, downloads.dashboard)
      PROVE  UpdatesInv'
  <2>1. /\ agent' \in [Hosts -> Agents] /\ agent'[h] = a
        /\ \A g \in Hosts : g # h => agent'[g] = agent[g]
    BY <1>0, <1>3 DEF UpdatesTypeOK
  <2>2. UpdatesTypeOK'
    BY <1>0, <1>3, <2>1, Zenon DEF UpdatesTypeOK
  <2> QED
    BY <1>0, <1>3, <2>1, <2>2, OneMoves, Zenon
<1>4. \A h \in Hosts : /\ agent[h] \in Agents /\ Forward(hosts[h], late[h], exe[h], agent[h], downloads.dashboard)
                       /\ hosts[h] \in Rows \cup {None} /\ late[h] \in Pings \cup {None}
                       /\ Ping(h) \in Pings /\ Ping(h).version = agent[h].version
                       /\ exe[h] \in Versions
  BY <1>0 DEF UpdatesInv, OnlyForward, UpdatesTypeOK, Ping, Pings, Agents
<1>5. ASSUME NEW h \in Hosts, AddHost(h) \/ RemoveHost(h)
      PROVE  UpdatesInv'
  <2>1. NewRow \in Rows /\ NewRow.update = None
    BY DEF NewRow, Rows, Keys
  <2>2. /\ Forward(NewRow, late[h], exe[h], agent[h], downloads.dashboard)
        /\ Forward(None, late[h], exe[h], agent[h], downloads.dashboard)
    BY <1>4, <2>1, Zenon DEF Forward
  <2> QED
    BY <1>2, <1>5, <2>1, <2>2, Zenon DEF AddHost, RemoveHost, machineVars
<1>6. ASSUME NEW c \in Calls, EnrollCommits(c)
      PROVE  UpdatesInv'
  <2>1. enrolls[c].host \in Hosts /\ Len(issued) + 1 \in Nat
    <3>1. issued \in Seq(Tokens)
      BY <1>0, Zenon DEF UpdatesTypeOK, EnrollTypeOK
    <3>2. Len(issued) + 1 \in Nat
      BY <3>1
    <3> QED
      BY <1>0, <1>6, <3>2, Zenon DEF EnrollCommits, Open, UpdatesTypeOK, EnrollTypeOK, Enrolls
  <2>2. PICK h \in Hosts, k \in Nat : h = enrolls[c].host /\ k = Len(issued) + 1
    BY <2>1, Zenon
  <2>3. /\ hosts' = [hosts EXCEPT ![h] = WithKey(hosts[h], k)]
        /\ UNCHANGED <<late, keyFile, exe, agent, downloads, now>>
    BY <1>6, <2>2, Zenon DEF EnrollCommits, machineVars
  <2>4. /\ WithKey(hosts[h], k) \in Rows
        /\ IF hosts[h] = None THEN WithKey(hosts[h], k).update = None
                              ELSE WithKey(hosts[h], k).update = hosts[h].update
    BY <1>4, <2>2, RowsOfKey, Zenon
  <2>5. Forward(WithKey(hosts[h], k), late[h], exe[h], agent[h], downloads.dashboard)
    BY <1>4, <2>4, Zenon DEF Forward
  <2> QED
    BY <1>2, <2>3, <2>4, <2>5, Zenon
<1>7. ASSUME NEW c \in Calls, EnrollAnswered(c) \/ WriteKeyFails(c)
      PROVE  UpdatesInv'
  <2>1. enrolls[c].host \in Hosts /\ enrolls[c].key \in Keys
    BY <1>0, <1>7, Zenon DEF EnrollAnswered, WriteKeyFails, UpdatesTypeOK, EnrollTypeOK, Enrolls, Keys
  <2>2. PICK h \in Hosts, k \in Keys : keyFile' = [keyFile EXCEPT ![h] = k]
    BY <1>7, <2>1, Zenon DEF EnrollAnswered, WriteKeyFails, Keys
  <2>3. keyFile' \in [Hosts -> Keys]
    BY <1>0, <2>2, Zenon DEF UpdatesTypeOK
  <2> QED
    BY <1>0, <1>1, <1>7, <2>3, Zenon DEF EnrollAnswered, WriteKeyFails, storeVars, UpdatesTypeOK
<1>8. ASSUME NEW h \in Hosts, NEW p \in {"idle", "pinging", "answered"} \cup Underway,
             agent' = [agent EXCEPT ![h].phase = p], UNCHANGED <<hosts, late, keyFile, exe, downloads, now>>,
             p \in Underway => agent[h].update # None
      PROVE  UpdatesInv'
  <2>1. PICK a : a = [agent[h] EXCEPT !.phase = p]
    BY Zenon
  <2>2. /\ a \in Agents /\ a.phase = p /\ a.version = agent[h].version /\ a.update = agent[h].update
        /\ agent' = [agent EXCEPT ![h] = a]
    BY <1>4, <1>8, <2>1, AgentPhase, Zenon
  <2>3. Forward(hosts[h], late[h], exe[h], a, downloads.dashboard)
    BY <1>4, <1>8, <2>2, Zenon DEF Forward
  <2> QED
    BY <1>3, <1>8, <2>2, <2>3, Zenon
<1>9. ASSUME NEW h \in Hosts, sendPing(h) \/ PingFails(h)
      PROVE  UpdatesInv'
  BY <1>8, <1>9, Zenon DEF sendPing, PingFails, storeVars, Underway
<1>10. ASSUME NEW h \in Hosts, HandlePing(h)
       PROVE  UpdatesInv'
  <2>1. PICK row : row = CheckedIn(hosts[h], Ping(h))
    BY Zenon
  <2>2. hosts[h] \in Rows /\ hosts[h] # None
    BY <1>4, <1>10, Zenon DEF HandlePing, Accepted
  <2>3. /\ row \in Rows
        /\ row.update = hosts[h].update \/ row.update = None
    BY <1>4, <2>1, <2>2, RowsOfCheckIn, Zenon
  <2>4. row.update \in Updates \cup {None}
    BY <2>3 DEF Rows
  <2>5. PICK b : b = [agent[h] EXCEPT !.phase = "answered"]
    BY Zenon
  <2>6. b \in Agents /\ b.phase = "answered" /\ b.version = agent[h].version
    BY <1>4, <2>5, AgentPhase, Zenon
  <2>7. PICK a : a = [b EXCEPT !.update = row.update]
    BY Zenon
  <2>8. a \in Agents /\ a.phase = "answered" /\ a.version = agent[h].version /\ a.update = row.update
    BY <2>4, <2>6, <2>7, AgentUpdate, Zenon
  <2>9. /\ hosts' = [hosts EXCEPT ![h] = row]
        /\ agent' = [agent EXCEPT ![h] = a]
        /\ UNCHANGED <<late, keyFile, exe, downloads, now>>
    <3>1. agent' = [agent EXCEPT ![h].phase = "answered", ![h].update = row.update]
      BY <1>10, <2>1, Zenon DEF HandlePing
    <3>2. agent' = [agent EXCEPT ![h] = a]
      BY <3>1, <2>5, <2>7, Zenon
    <3> QED
      BY <1>10, <2>1, <3>2, Zenon DEF HandlePing
  <2>10. Forward(row, late[h], exe[h], a, downloads.dashboard)
    <3>1. "answered" \notin Underway
      BY DEF Underway
    <3>2. a.update # None => a.update.version <= row.update.version
      <4>1. ASSUME a.update # None PROVE a.update.version \in Nat
        BY <1>0, <2>4, <2>8, <4>1, Zenon DEF Updates
      <4> QED
        BY <2>8, <4>1
    <3> QED
      BY <1>4, <2>2, <2>3, <2>8, <3>1, <3>2, Zenon DEF Forward
  <2>11. /\ hosts' \in [Hosts -> Rows \cup {None}] /\ hosts'[h] = row
         /\ \A g \in Hosts : g # h => hosts'[g] = hosts[g]
    BY <1>0, <2>3, <2>9 DEF UpdatesTypeOK
  <2>12. /\ agent' \in [Hosts -> Agents] /\ agent'[h] = a
         /\ \A g \in Hosts : g # h => agent'[g] = agent[g]
    BY <1>0, <2>8, <2>9 DEF UpdatesTypeOK
  <2>13. UpdatesTypeOK'
    BY <1>0, <2>9, <2>11, <2>12, Zenon DEF UpdatesTypeOK
  <2> QED
    BY <1>0, <2>9, <2>10, <2>11, <2>12, <2>13, OneMoves, Zenon
<1>11. ASSUME NEW h \in Hosts, PingGivenUp(h)
       PROVE  UpdatesInv'
  <2>1. PICK a : a = [agent[h] EXCEPT !.phase = "idle"]
    BY Zenon
  <2>2. "idle" \in {"idle", "pinging", "answered"} \cup Underway /\ "idle" \notin Underway
    BY DEF Underway
  <2>3. a \in Agents /\ a.phase = "idle" /\ a.version = agent[h].version /\ a.update = agent[h].update
    BY <1>4, <2>1, <2>2, AgentPhase, Zenon
  <2>4. PICK ping : ping = Ping(h)
    BY Zenon
  <2>5. ping \in Pings /\ ping.version = agent[h].version
    BY <1>4, <2>4, Zenon
  <2>6. /\ late' = [late EXCEPT ![h] = ping] /\ agent' = [agent EXCEPT ![h] = a]
        /\ UNCHANGED <<hosts, keyFile, exe, downloads, now>>
    BY <1>11, <2>1, <2>4, Zenon DEF PingGivenUp, storeVars
  <2>7. Forward(hosts[h], ping, exe[h], a, downloads.dashboard)
    BY <1>4, <2>2, <2>3, <2>5, Zenon DEF Forward
  <2>8. /\ late' \in [Hosts -> Pings \cup {None}] /\ late'[h] = ping
        /\ \A g \in Hosts : g # h => late'[g] = late[g]
    BY <1>0, <2>5, <2>6 DEF UpdatesTypeOK
  <2>9. /\ agent' \in [Hosts -> Agents] /\ agent'[h] = a
        /\ \A g \in Hosts : g # h => agent'[g] = agent[g]
    BY <1>0, <2>3, <2>6 DEF UpdatesTypeOK
  <2>10. UpdatesTypeOK'
    BY <1>0, <2>6, <2>8, <2>9, Zenon DEF UpdatesTypeOK
  <2> QED
    BY <1>0, <2>6, <2>7, <2>8, <2>9, <2>10, OneMoves, Zenon
<1>12. ASSUME NEW h \in Hosts, HandleLatePing(h)
       PROVE  UpdatesInv'
  <2>1. PICK row \in Rows \cup {None} :
           /\ hosts' = [hosts EXCEPT ![h] = row]
           /\ row # None /\ row.update # None => hosts[h] # None /\ row.update = hosts[h].update
    <3>1. CASE Accepted(h, late[h].key)
      <4>1. hosts[h] \in Rows /\ hosts[h] # None /\ late[h] \in Pings
        BY <1>4, <1>12, <3>1, Zenon DEF Accepted, HandleLatePing
      <4>2. /\ CheckedIn(hosts[h], late[h]) \in Rows
            /\ \/ CheckedIn(hosts[h], late[h]).update = hosts[h].update
               \/ CheckedIn(hosts[h], late[h]).update = None
        BY <4>1, RowsOfCheckIn, Zenon
      <4>3. PICK row \in Rows : row = CheckedIn(hosts[h], late[h])
        BY <4>2, Zenon
      <4>4. hosts' = [hosts EXCEPT ![h] = row]
        BY <1>12, <3>1, <4>3, Zenon DEF HandleLatePing
      <4> QED
        BY <4>1, <4>2, <4>3, <4>4, Zenon
    <3>2. CASE ~Accepted(h, late[h].key)
      <4>1. hosts' = hosts
        BY <1>12, <3>2, Zenon DEF HandleLatePing
      <4>2. hosts' = [hosts EXCEPT ![h] = hosts[h]]
        BY <1>0, <4>1, Zenon DEF UpdatesTypeOK
      <4> QED
        BY <1>4, <4>2, Zenon
    <3> QED
      BY <3>1, <3>2, Zenon
  <2>2. late' = [late EXCEPT ![h] = None] /\ UNCHANGED <<keyFile, exe, agent, downloads, now>>
    BY <1>12, Zenon DEF HandleLatePing, machineVars
  <2>3. Forward(row, None, exe[h], agent[h], downloads.dashboard)
    BY <1>4, <2>1, Zenon DEF Forward
  <2>4. /\ hosts' \in [Hosts -> Rows \cup {None}] /\ hosts'[h] = row
        /\ \A g \in Hosts : g # h => hosts'[g] = hosts[g]
    BY <1>0, <2>1 DEF UpdatesTypeOK
  <2>5. /\ late' \in [Hosts -> Pings \cup {None}] /\ late'[h] = None
        /\ \A g \in Hosts : g # h => late'[g] = late[g]
    BY <1>0, <2>2 DEF UpdatesTypeOK
  <2>6. UpdatesTypeOK'
    BY <1>0, <2>2, <2>4, <2>5, Zenon DEF UpdatesTypeOK
  <2> QED
    BY <1>0, <2>2, <2>3, <2>4, <2>5, <2>6, OneMoves, Zenon
<1>13. ASSUME NEW h \in Hosts, NEW a \in Agents, agent' = [agent EXCEPT ![h] = a], a.phase \notin Underway,
              a.version = agent[h].version \/ a.version = exe[h], a.update = None,
              UNCHANGED <<hosts, late, keyFile, exe, downloads, now>>
       PROVE  UpdatesInv'
  <2>1. exe[h] <= exe[h]
    <3>1. exe[h] \in Nat
      BY <1>0, <1>4, Zenon
    <3> QED
      BY <3>1
  <2>2. Forward(hosts[h], late[h], exe[h], a, downloads.dashboard)
    BY <1>4, <1>13, <2>1, Zenon DEF Forward
  <2> QED
    BY <1>3, <1>13, <2>2, Zenon
<1>14. "idle" \notin Underway
  BY DEF Underway
<1>15. ASSUME NEW h \in Hosts, AnswerDropped(h)
       PROVE  UpdatesInv'
  <2>1. PICK b : b = [agent[h] EXCEPT !.phase = "idle"]
    BY Zenon
  <2>2. b \in Agents /\ b.phase = "idle" /\ b.version = agent[h].version
    BY <1>4, <2>1, AgentPhase, Zenon
  <2>3. PICK a : a = [b EXCEPT !.update = None]
    BY Zenon
  <2>4. None \in Updates \cup {None}
    OBVIOUS
  <2>5. a \in Agents /\ a.phase = "idle" /\ a.version = agent[h].version /\ a.update = None
    BY <2>2, <2>3, <2>4, AgentUpdate, Zenon
  <2>6. agent' = [agent EXCEPT ![h] = a] /\ UNCHANGED <<hosts, late, keyFile, exe, downloads, now>>
    BY <1>15, <2>1, <2>3, Zenon DEF AnswerDropped, storeVars
  <2> QED
    BY <1>13, <1>14, <2>5, <2>6, Zenon
<1>16. ASSUME NEW h \in Hosts, Restart(h) \/ Crash(h) \/ UpdateFails(h)
       PROVE  UpdatesInv'
  <2>1. /\ Started(h) \in Agents /\ Started(h).phase \notin Underway
        /\ Started(h).version = exe[h] /\ Started(h).update = None
    BY <1>0, <1>14, AgentStarts, Zenon
  <2>2. /\ Failed(h) \in Agents /\ Failed(h).phase \notin Underway
        /\ Failed(h).version = agent[h].version /\ Failed(h).update = None
    BY <1>0, <1>14, AgentFails, Zenon
  <2>3. \/ agent' = [agent EXCEPT ![h] = Started(h)]
        \/ agent' = [agent EXCEPT ![h] = Failed(h)]
    BY <1>16, Zenon DEF Restart, Crash, UpdateFails
  <2>4. UNCHANGED <<hosts, late, keyFile, exe, downloads, now>>
    BY <1>16, Zenon DEF Restart, Crash, UpdateFails, storeVars
  <2> QED
    BY <1>13, <2>1, <2>2, <2>3, <2>4, Zenon
<1>17. ASSUME NEW h \in Hosts, NEW p \in Underway, NEW b \in Agents, agent' = [agent EXCEPT ![h] = [b EXCEPT !.phase = p]],
              b.version = agent[h].version, b.update = agent[h].update, b.update # None,
              UNCHANGED <<hosts, late, keyFile, exe, downloads, now>>
       PROVE  UpdatesInv'
  <2>1. PICK a : a = [b EXCEPT !.phase = p]
    BY Zenon
  <2>2. a \in Agents /\ a.phase = p /\ a.version = agent[h].version /\ a.update = agent[h].update
    BY <1>17, <2>1, AgentPhase, Zenon
  <2>3. Forward(hosts[h], late[h], exe[h], a, downloads.dashboard)
    BY <1>4, <1>17, <2>2, Zenon DEF Forward
  <2> QED
    BY <1>3, <1>17, <2>1, <2>2, <2>3, Zenon
<1>18. ASSUME NEW h \in Hosts, UpdateBegins(h)
       PROVE  UpdatesInv'
  <2>1. agent[h].update # None /\ agent[h].update \in Updates
    BY <1>4, <1>18, Zenon DEF UpdateBegins, Handles, Agents
  <2>2. agent[h].update.at \in Nat
    BY <2>1, Zenon DEF Updates
  <2>3. PICK b : b = [agent[h] EXCEPT !.tried = agent[h].update.at]
    BY Zenon
  <2>4. b \in Agents /\ b.version = agent[h].version /\ b.update = agent[h].update
    BY <1>4, <2>2, <2>3, AgentTried, Zenon
  <2>5. agent' = [agent EXCEPT ![h] = [b EXCEPT !.phase = "fetching"]]
    <3>1. [[agent[h] EXCEPT !.phase = "fetching"] EXCEPT !.tried = agent[h].update.at] = [b EXCEPT !.phase = "fetching"]
      BY <1>4, <2>3, Zenon DEF Agents
    <3>2. agent' = [agent EXCEPT ![h] = [[agent[h] EXCEPT !.phase = "fetching"] EXCEPT !.tried = agent[h].update.at]]
      BY <1>18, Zenon DEF UpdateBegins
    <3> QED
      BY <3>1, <3>2, Zenon
  <2>6. UNCHANGED <<hosts, late, keyFile, exe, downloads, now>> /\ "fetching" \in Underway
    BY <1>18, Zenon DEF UpdateBegins, storeVars, Underway
  <2> QED
    BY <1>17, <2>1, <2>4, <2>5, <2>6, Zenon
<1>19. ASSUME NEW h \in Hosts, DownloadBuild(h)
       PROVE  UpdatesInv'
  <2>1. downloads.build \in Versions \cup {None} /\ Phase(h) \in Underway
    BY <1>0, <1>19 DEF UpdatesTypeOK, DownloadBuild, Underway
  <2>2. PICK b : b = [agent[h] EXCEPT !.build = downloads.build]
    BY Zenon
  <2>3. /\ b \in Agents /\ b.version = agent[h].version /\ b.update = agent[h].update
        /\ b.update # None
    <3>1. b \in Agents /\ b.version = agent[h].version /\ b.update = agent[h].update
      BY <1>4, <2>1, <2>2, AgentBuild, Zenon
    <3> QED
      BY <1>4, <2>1, <3>1, Zenon DEF Forward, Phase
  <2>4. agent' = [agent EXCEPT ![h] = [b EXCEPT !.phase = "fetched"]]
    <3>1. [[agent[h] EXCEPT !.phase = "fetched"] EXCEPT !.build = downloads.build] = [b EXCEPT !.phase = "fetched"]
      BY <1>4, <2>2, Zenon DEF Agents
    <3>2. agent' = [agent EXCEPT ![h] = [[agent[h] EXCEPT !.phase = "fetched"] EXCEPT !.build = downloads.build]]
      BY <1>19, Zenon DEF DownloadBuild
    <3> QED
      BY <3>1, <3>2, Zenon
  <2>5. UNCHANGED <<hosts, late, keyFile, exe, downloads, now>> /\ "fetched" \in Underway
    BY <1>19, Zenon DEF DownloadBuild, storeVars, Underway
  <2> QED
    BY <1>17, <2>3, <2>4, <2>5, Zenon
<1>20. ASSUME NEW h \in Hosts, DownloadSignature(h)
       PROVE  UpdatesInv'
  <2>1. downloads.sig \in Versions \cup {None} /\ Phase(h) \in Underway
    BY <1>0, <1>20 DEF UpdatesTypeOK, DownloadSignature, Underway
  <2>2. PICK b : b = [agent[h] EXCEPT !.sig = downloads.sig]
    BY Zenon
  <2>3. /\ b \in Agents /\ b.version = agent[h].version /\ b.update = agent[h].update
        /\ b.update # None
    <3>1. b \in Agents /\ b.version = agent[h].version /\ b.update = agent[h].update
      BY <1>4, <2>1, <2>2, AgentBuild, Zenon
    <3> QED
      BY <1>4, <2>1, <3>1, Zenon DEF Forward, Phase
  <2>4. agent' = [agent EXCEPT ![h] = [b EXCEPT !.phase = "checking"]]
    <3>1. [[agent[h] EXCEPT !.phase = "checking"] EXCEPT !.sig = downloads.sig] = [b EXCEPT !.phase = "checking"]
      BY <1>4, <2>2, Zenon DEF Agents
    <3>2. agent' = [agent EXCEPT ![h] = [[agent[h] EXCEPT !.phase = "checking"] EXCEPT !.sig = downloads.sig]]
      BY <1>20, Zenon DEF DownloadSignature
    <3> QED
      BY <3>1, <3>2, Zenon
  <2>5. UNCHANGED <<hosts, late, keyFile, exe, downloads, now>> /\ "checking" \in Underway
    BY <1>20, Zenon DEF DownloadSignature, storeVars, Underway
  <2> QED
    BY <1>17, <2>3, <2>4, <2>5, Zenon
<1>21. ASSUME NEW h \in Hosts, InstallBuild(h)
       PROVE  UpdatesInv'
  <2>1. Phase(h) \in Underway /\ "installed" \in Underway
    BY <1>21 DEF InstallBuild, Underway
  <2>2. PICK a, v : a = [agent[h] EXCEPT !.phase = "installed"] /\ v = agent[h].update.version
    BY Zenon
  <2>3. a \in Agents /\ a.phase = "installed" /\ a.version = agent[h].version /\ a.update = agent[h].update
    BY <1>4, <2>1, <2>2, AgentPhase, Zenon
  <2>4. agent[h].update # None /\ agent[h].update \in Updates
    BY <1>4, <2>1, Zenon DEF Forward, Phase, Agents
  <2>5. v \in Versions
    BY <2>2, <2>4, Zenon DEF Updates
  <2>6. /\ exe' = [exe EXCEPT ![h] = v] /\ agent' = [agent EXCEPT ![h] = a]
        /\ UNCHANGED <<hosts, late, keyFile, downloads, now>>
    BY <1>21, <2>2, Zenon DEF InstallBuild, Installable, storeVars
  <2>7. Forward(hosts[h], late[h], v, a, downloads.dashboard)
    <3>1. exe[h] <= v /\ v <= downloads.dashboard /\ agent[h].version <= exe[h]
      BY <1>4, <2>2, <2>4, Zenon DEF Forward
    <3>2. /\ exe[h] \in Nat /\ v \in Nat /\ agent[h].version \in Nat
          /\ late[h] # None => late[h].version \in Nat /\ late[h].version <= exe[h]
      BY <1>0, <1>4, <2>5, Zenon DEF Forward, Agents, Pings
    <3>3. agent[h].version <= v /\ v <= v
      BY <3>1, <3>2
    <3>4. late[h] # None => late[h].version <= v
      BY <3>1, <3>2
    <3> QED
      BY <1>4, <2>2, <2>3, <2>4, <3>1, <3>3, <3>4, Zenon DEF Forward
  <2>8. /\ exe' \in [Hosts -> Versions] /\ exe'[h] = v
        /\ \A g \in Hosts : g # h => exe'[g] = exe[g]
    BY <1>0, <2>5, <2>6 DEF UpdatesTypeOK
  <2>9. /\ agent' \in [Hosts -> Agents] /\ agent'[h] = a
        /\ \A g \in Hosts : g # h => agent'[g] = agent[g]
    BY <1>0, <2>3, <2>6 DEF UpdatesTypeOK
  <2>10. UpdatesTypeOK'
    BY <1>0, <2>6, <2>8, <2>9, Zenon DEF UpdatesTypeOK
  <2> QED
    BY <1>0, <2>6, <2>7, <2>8, <2>9, <2>10, OneMoves, Zenon
<1>22. ASSUME NEW h \in Hosts, RequestAgentUpdate(h)
       PROVE  UpdatesInv'
  <2>1. hosts[h] \in Rows
    BY <1>4, <1>22, Zenon DEF RequestAgentUpdate, Asks
  <2>2. PICK row : row = Requested(hosts[h])
    BY Zenon
  <2>3. row \in Rows /\ row.update \in Updates /\ row.update.version = downloads.dashboard
    BY <1>0, <2>1, <2>2, RowsOfRequest, Zenon
  <2>4. downloads.dashboard \in Nat
    BY <1>0, Zenon DEF UpdatesTypeOK
  <2>5. downloads.dashboard <= downloads.dashboard
    BY <2>4
  <2>6. Forward(row, late[h], exe[h], agent[h], downloads.dashboard)
    BY <1>4, <2>3, <2>5, Zenon DEF Forward
  <2> QED
    BY <1>2, <1>22, <2>2, <2>3, <2>6, Zenon DEF RequestAgentUpdate, machineVars
<1>23. ASSUME NEW part \in {"dashboard", "build", "sig"}, NEW v \in Versions, Upgrade(part, v)
       PROVE  UpdatesInv'
  <2>1. /\ downloads' \in [{"dashboard", "build", "sig"} -> Versions]
        /\ downloads.dashboard \in Nat /\ downloads'.dashboard \in Nat
        /\ downloads.dashboard <= downloads'.dashboard
    <3>1. PICK d : d = downloads.dashboard
      BY Zenon
    <3>2. /\ downloads \in [{"dashboard", "build", "sig"} -> Versions] /\ d \in Nat /\ v \in Nat
          /\ downloads' = [downloads EXCEPT ![part] = v] /\ downloads[part] < v
      BY <1>0, <1>23, <3>1, Zenon DEF Upgrade, UpdatesTypeOK
    <3>3. downloads' \in [{"dashboard", "build", "sig"} -> Versions]
      BY <3>2, Zenon
    <3>4. CASE part = "dashboard"
      <4>1. downloads'.dashboard = v /\ d < v
        BY <3>1, <3>2, <3>4, Zenon
      <4>2. d <= v
        BY <3>2, <4>1
      <4> QED
        BY <3>1, <3>2, <3>3, <4>1, <4>2, Zenon
    <3>5. CASE part # "dashboard"
      <4>1. downloads'.dashboard = d
        BY <3>1, <3>2, <3>5, Zenon
      <4>2. d <= d
        BY <3>2
      <4> QED
        BY <3>1, <3>2, <3>3, <4>1, <4>2, Zenon
    <3> QED
      BY <3>4, <3>5, Zenon
  <2>2. UNCHANGED <<hosts, late, keyFile, exe, agent, now>>
    BY <1>23, Zenon DEF Upgrade, storeVars, machineVars
  <2>3. UpdatesTypeOK'
    BY <1>0, <2>1, <2>2, Zenon DEF UpdatesTypeOK
  <2>4. \A x \in Nat : x <= downloads.dashboard => x <= downloads'.dashboard
    BY <2>1
  <2>5. ASSUME NEW h \in Hosts
        PROVE  Forward(hosts[h], late[h], exe[h], agent[h], downloads'.dashboard)
    <3>1. exe[h] \in Nat
      BY <1>0, <1>4, Zenon
    <3>2. agent[h].update # None => agent[h].update.version \in Nat
      BY <1>0, <1>4, Zenon DEF Agents, Updates
    <3>3. hosts[h] # None /\ hosts[h].update # None => hosts[h].update.version \in Nat
      BY <1>0, <1>4, Zenon DEF Rows, Updates
    <3> QED
      BY <1>4, <2>4, <3>1, <3>2, <3>3, Zenon DEF Forward
  <2>6. OnlyForward'
    BY <2>2, <2>5, Zenon DEF OnlyForward
  <2> QED
    BY <1>0, <2>3, <2>6, Zenon DEF UpdatesInv
<1>24. CASE UNCHANGED vars
  BY <1>0, <1>1, <1>24, Zenon DEF vars, storeVars, machineVars, UpdatesTypeOK
<1>25. CASE Tick
  <2>1. now' \in Nat
    BY <1>0, <1>25 DEF Tick, UpdatesTypeOK
  <2> QED
    BY <1>0, <1>1, <1>25, <2>1, Zenon DEF Tick, storeVars, machineVars, UpdatesTypeOK
<1>26. ASSUME NEW t \in Tokens, CreateEnrollmentToken(t) \/ TokenGone(t)
       PROVE  UpdatesInv'
  BY <1>0, <1>1, <1>26, Zenon DEF CreateEnrollmentToken, TokenGone, machineVars, UpdatesTypeOK
<1>27. ASSUME NEW c \in Calls, \/ \E h \in Hosts, t \in Tokens : EnrollBegins(c, h, t)
                               \/ EnrollFails(c) \/ EnrollGivenUp(c)
       PROVE  UpdatesInv'
  BY <1>0, <1>1, <1>27, Zenon DEF EnrollBegins, EnrollFails, EnrollGivenUp, storeVars, machineVars, UpdatesTypeOK
<1> QED
  BY <1>5, <1>6, <1>7, <1>9, <1>10, <1>11, <1>12, <1>15, <1>16, <1>18, <1>19, <1>20, <1>21, <1>22, <1>23,
     <1>24, <1>25, <1>26, <1>27, Zenon DEF Next, EnrollNext, PingNext, AdminNext, Updating

\* A row's request only goes with a ping of its version.
LEMMA ClearedByPing ==
    ASSUME FleetAssumption, UpdatesInv, [Next]_vars, NEW h \in Hosts,
           hosts[h] # None, hosts[h].update # None, hosts'[h] # None, hosts'[h].update = None
    PROVE  exe[h] = hosts[h].update.version
<1>1. UpdatesTypeOK /\ None \notin Updates /\ Versions \subseteq Nat
  BY Zenon DEF UpdatesInv, FleetAssumption
<1>2. /\ hosts[h] \in Rows /\ Forward(hosts[h], late[h], exe[h], agent[h], downloads.dashboard)
      /\ Ping(h) \in Pings /\ Ping(h).version = agent[h].version /\ late[h] \in Pings \cup {None}
  BY <1>1 DEF UpdatesInv, OnlyForward, UpdatesTypeOK, Ping, Pings, Agents
<1>3. ASSUME NEW ping \in Pings, hosts' = [hosts EXCEPT ![h] = CheckedIn(hosts[h], ping)], ping.version <= exe[h]
      PROVE  exe[h] = hosts[h].update.version
  <2>1. hosts'[h] = CheckedIn(hosts[h], ping)
    BY <1>1, <1>3, Zenon DEF UpdatesTypeOK
  <2>2. hosts[h].update.version = ping.version
    BY <1>2, <2>1, RowsOfCheckIn, Zenon
  <2>3. exe[h] \in Nat /\ ping.version \in Nat /\ exe[h] <= ping.version
    BY <1>1, <1>2, <2>2, Zenon DEF Forward, UpdatesTypeOK, Pings
  <2>4. PICK x, v : x = exe[h] /\ v = ping.version
    BY Zenon
  <2>5. x = v
    BY <1>3, <2>3, <2>4
  <2> QED
    BY <2>2, <2>4, <2>5, Zenon
<1>4. ASSUME UNCHANGED hosts PROVE FALSE
  BY <1>4, Zenon
<1>5. ASSUME NEW g \in Hosts, AddHost(g) \/ RemoveHost(g) PROVE FALSE
  BY <1>1, <1>5, Zenon DEF AddHost, RemoveHost, UpdatesTypeOK
<1>6. ASSUME NEW g \in Hosts, HandlePing(g) PROVE exe[h] = hosts[h].update.version
  <2>1. hosts' = [hosts EXCEPT ![g] = CheckedIn(hosts[g], Ping(g))]
    BY <1>6, Zenon DEF HandlePing
  <2>2. g = h
    BY <1>1, <2>1, Zenon DEF UpdatesTypeOK
  <2>3. Ping(h).version <= exe[h]
    BY <1>2, Zenon DEF Forward
  <2> QED
    BY <1>2, <1>3, <2>1, <2>2, <2>3, Zenon
<1>7. ASSUME NEW g \in Hosts, HandleLatePing(g) PROVE exe[h] = hosts[h].update.version
  <2>1. hosts' = [hosts EXCEPT ![g] = CheckedIn(hosts[g], late[g])]
    BY <1>4, <1>7, Zenon DEF HandleLatePing
  <2>2. g = h
    BY <1>1, <2>1, Zenon DEF UpdatesTypeOK
  <2>3. late[h] \in Pings /\ late[h].version <= exe[h]
    BY <1>2, <1>7, <2>2, Zenon DEF Forward, HandleLatePing
  <2> QED
    BY <1>2, <1>3, <2>1, <2>2, <2>3, Zenon
<1>8. ASSUME NEW g \in Hosts, RequestAgentUpdate(g) PROVE FALSE
  <2>1. hosts' = [hosts EXCEPT ![g] = Requested(hosts[g])]
    BY <1>8, Zenon DEF RequestAgentUpdate
  <2>2. g = h
    BY <1>1, <2>1, Zenon DEF UpdatesTypeOK
  <2>3. hosts'[h] = Requested(hosts[h])
    BY <1>1, <2>1, <2>2, Zenon DEF UpdatesTypeOK
  <2> QED
    BY <1>1, <1>2, <2>3, RowsOfRequest, Zenon
<1>9. ASSUME NEW c \in Calls, EnrollCommits(c) PROVE FALSE
  <2>1. issued \in Seq(Tokens) /\ enrolls[c].host \in Hosts
    BY <1>1, <1>9, Zenon DEF EnrollCommits, Open, UpdatesTypeOK, EnrollTypeOK, Enrolls
  <2>2. Len(issued) + 1 \in Nat
    BY <2>1
  <2>3. PICK g \in Hosts, k \in Nat : g = enrolls[c].host /\ k = Len(issued) + 1
    BY <2>1, <2>2, Zenon
  <2>4. hosts' = [hosts EXCEPT ![g] = WithKey(hosts[g], k)]
    BY <1>9, <2>3, Zenon DEF EnrollCommits
  <2>5. g = h
    BY <1>1, <2>4, Zenon DEF UpdatesTypeOK
  <2>6. hosts'[h] = WithKey(hosts[h], k)
    BY <1>1, <2>4, <2>5, Zenon DEF UpdatesTypeOK
  <2>7. hosts[h] \in Rows \cup {None}
    BY <1>2, Zenon
  <2>8. WithKey(hosts[h], k).update = hosts[h].update
    BY <2>7, RowsOfKey, Zenon
  <2> QED
    BY <2>6, <2>8, Zenon
<1>10. CASE \E t \in Tokens : CreateEnrollmentToken(t) \/ TokenGone(t)
  BY <1>4, <1>10, Zenon DEF CreateEnrollmentToken, TokenGone
<1>11. ASSUME NEW c \in Calls, \/ \E g \in Hosts, t \in Tokens : EnrollBegins(c, g, t)
                               \/ EnrollFails(c) \/ EnrollAnswered(c) \/ WriteKeyFails(c) \/ EnrollGivenUp(c)
       PROVE  FALSE
  BY <1>4, <1>11, Zenon DEF EnrollBegins, EnrollFails, EnrollAnswered, WriteKeyFails, EnrollGivenUp, storeVars
<1>12. ASSUME NEW g \in Hosts, \/ sendPing(g) \/ PingFails(g) \/ PingGivenUp(g) \/ AnswerDropped(g)
                               \/ UpdateBegins(g) \/ Updating(g) \/ Crash(g)
       PROVE  FALSE
  BY <1>4, <1>12, Zenon DEF sendPing, PingFails, PingGivenUp, AnswerDropped, UpdateBegins, Updating, DownloadBuild,
     DownloadSignature, InstallBuild, UpdateFails, Restart, Crash, storeVars
<1>13. ASSUME \/ UNCHANGED vars \/ Tick
              \/ \E part \in {"dashboard", "build", "sig"}, v \in Versions : Upgrade(part, v)
       PROVE  FALSE
  BY <1>4, <1>13, Zenon DEF vars, Tick, Upgrade, storeVars
<1> QED
  BY <1>5, <1>6, <1>7, <1>8, <1>9, <1>10, <1>11, <1>12, <1>13, Zenon DEF Next, EnrollNext, PingNext, AdminNext

\* "An update clears once the agent runs the version asked for" (AgentCheckIn): whatever
\* pings are late or lost, whatever agents crash and exec fails, and however the
\* dashboard's downloads change, a host's request only goes when the machine has the
\* build it asked for, or with the host.
THEOREM UpdatesClear == Spec => ClearsWhenInstalled
<1>1. Init => UpdatesInv
  <2> SUFFICES ASSUME Init PROVE UpdatesInv
    OBVIOUS
  <2>1. TokensInv
    BY TokensInvInitially
  <2>2. 1 \in Versions /\ 1 \in Nat /\ 0 \in Nat /\ 1 <= 1
    BY FleetAssumption DEF FleetAssumption
  <2>3. UpdatesTypeOK
    <3>1. \A h \in Hosts : Started(h) \in Agents
      <4> TAKE h \in Hosts
      <4>1. exe[h] = 1 /\ keyFile[h] = None
        BY Zenon DEF Init
      <4> QED
        BY <2>2, <4>1 DEF Started, Agents, Keys
    <3>2. agent \in [Hosts -> Agents]
      BY <3>1, Zenon DEF Init
    <3>3. downloads \in [{"dashboard", "build", "sig"} -> Versions]
      BY <2>2 DEF Init
    <3>4. keyFile \in [Hosts -> Keys] /\ exe \in [Hosts -> Versions]
      BY <2>2, Zenon DEF Init, Keys
    <3> QED
      BY <2>1, <2>2, <3>2, <3>3, <3>4, Zenon DEF UpdatesTypeOK, TokensInv, Init
  <2>4. ASSUME NEW h \in Hosts
        PROVE  Forward(hosts[h], late[h], exe[h], agent[h], downloads.dashboard)
    <3>1. /\ hosts[h] = None /\ late[h] = None /\ exe[h] = 1 /\ downloads.dashboard = 1
          /\ agent[h].version = 1 /\ agent[h].phase = "idle" /\ agent[h].update = None
      BY DEF Init, Started
    <3>2. "idle" \notin Underway
      BY DEF Underway
    <3> QED
      BY <2>2, <3>1, <3>2, Zenon DEF Forward
  <2> QED
    BY <2>1, <2>3, <2>4, Zenon DEF UpdatesInv, OnlyForward
<1>2. UpdatesInv /\ [Next]_vars => UpdatesInv'
  BY FleetAssumption, UpdatesStep
<1>3. UpdatesInv /\ [Next]_vars =>
          [\A h \in Hosts :
              hosts[h] # None /\ hosts[h].update # None /\ hosts'[h] # None /\ hosts'[h].update = None =>
                  exe[h] = hosts[h].update.version]_vars
  BY FleetAssumption, ClearedByPing
<1> QED
  BY <1>1, <1>2, <1>3, PTL DEF Spec, ClearsWhenInstalled

=============================================================================

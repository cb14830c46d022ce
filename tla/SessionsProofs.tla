--------------------------- MODULE SessionsProofs ---------------------------
(***************************************************************************)
(* Sessions, for any number of users, tokens and calls: a new password     *)
(* ends the sessions of the old one; and what the steps of the store do to *)
(* the answers the dashboard has, on which AnswersProofs rests.            *)
(***************************************************************************)
EXTENDS Sessions, TLAPS

SessionRows ==
    [state : {"unused", "live", "over"}, user : Users \cup {None}, expires : Nat, password : Nat, late : BOOLEAN]
CacheRows == [user : Users, role : Roles, until : Nat]

StoreTypeOK ==
    /\ users \in [Users -> UserRows \cup {None}]
    /\ sessions \in [Tokens -> SessionRows]
    /\ newest \in Nat
    /\ now \in Nat
    /\ DOMAIN calls = Calls

\* A password that is being hashed is of a user; who changes their own has a session,
\* which stays theirs until it is over.
HashingOK ==
    \A k \in Calls :
        At(k, "hashing") =>
            /\ calls[k].user \in Users /\ calls[k].password \in Nat
            /\ calls[k].does = "change" => /\ calls[k].token \in Tokens
                                           /\ sessions[calls[k].token].state # "unused"
                                           /\ Live(calls[k].token) => UserOf(calls[k].token) = calls[k].user

LiveOfUsers == \A t \in Tokens : Live(t) => UserOf(t) \in Users

PasswordInv == StoreTypeOK /\ HashingOK /\ LiveOfUsers /\ SessionsFollowPassword

-----------------------------------------------------------------------------
(* Passwords *)

LEMMA EndedSessions ==
    ASSUME sessions \in [Tokens -> SessionRows], NEW gone
    PROVE  /\ Ended(gone) \in [Tokens -> SessionRows]
           /\ \A t \in Tokens : t \in gone => Ended(gone)[t].state = "over"
           /\ \A t \in Tokens : t \notin gone => Ended(gone)[t] = sessions[t]
<1>1. [Unused EXCEPT !.state = "over"] \in SessionRows /\ [Unused EXCEPT !.state = "over"].state = "over"
  BY Zenon DEF Unused, SessionRows
<1> QED
  BY <1>1, Zenon DEF Ended

\* Where one call goes on, the others stay.
LEMMA CallGoesOn ==
    ASSUME DOMAIN calls = Calls, NEW k \in Calls, NEW call, Becomes(k, call)
    PROVE  DOMAIN calls' = Calls /\ calls'[k] = call /\ \A j \in Calls \ {k} : calls'[j] = calls[j]
BY DEF Becomes

\* A step that leaves the store and the hashing calls alone, or ends some of them.
LEMMA PasswordsUntouched ==
    ASSUME PasswordInv, UNCHANGED storeVars, now' \in Nat, DOMAIN calls' = Calls,
           \A k \in Calls : At(k, "hashing")' => calls'[k] = calls[k]
    PROVE  PasswordInv'
<1>1. UNCHANGED <<users, sessions, newest>>
  BY DEF storeVars
<1>2. StoreTypeOK' /\ LiveOfUsers' /\ SessionsFollowPassword'
  BY <1>1, Zenon DEF PasswordInv, StoreTypeOK, LiveOfUsers, SessionsFollowPassword, Live, UserOf
<1>3. HashingOK'
  BY <1>1 DEF PasswordInv, HashingOK, At, Live, UserOf
<1> QED
  BY <1>2, <1>3 DEF PasswordInv

\* The hashing calls stay right while sessions only end.
LEMMA HashingStays ==
    ASSUME HashingOK,
           \A k \in Calls : At(k, "hashing")' => calls'[k] = calls[k],
           \A t \in Tokens : sessions[t].state # "unused" =>
               /\ sessions'[t].state # "unused"
               /\ Live(t)' => Live(t) /\ UserOf(t)' = UserOf(t)
    PROVE  HashingOK'
BY DEF HashingOK, At

LEMMA PasswordStep ==
    ASSUME SessionsAssumption, PasswordInv, [Next]_vars
    PROVE  PasswordInv'
<1>0. StoreTypeOK /\ HashingOK /\ LiveOfUsers /\ SessionsFollowPassword /\ None \notin UserRows /\ None \notin Users
  BY DEF PasswordInv, SessionsAssumption
<1>1. ASSUME NEW u \in Users, NEW role \in Roles, AddUser(u, role)
      PROVE  PasswordInv'
  <2>1. /\ users[u] = None /\ newest' \in Nat /\ UNCHANGED <<sessions, calls, now>>
        /\ users' = [users EXCEPT ![u] = [id |-> newest', password |-> newest', role |-> role]]
    BY <1>0, <1>1 DEF AddUser, NewPassword, StoreTypeOK
  <2>2. users' \in [Users -> UserRows \cup {None}] /\ \A v \in Users \ {u} : users'[v] = users[v]
    BY <1>0, <2>1, Zenon DEF StoreTypeOK, UserRows
  <2>3. \A t \in Tokens : Live(t) => UserOf(t) # u
    BY <1>0, <2>1, Zenon DEF SessionsFollowPassword
  <2>4. StoreTypeOK' /\ LiveOfUsers' /\ HashingOK'
    BY <1>0, <2>1, <2>2 DEF StoreTypeOK, LiveOfUsers, HashingOK, At, Live, UserOf
  <2>5. SessionsFollowPassword'
    BY <1>0, <2>1, <2>2, <2>3, Zenon DEF SessionsFollowPassword, LiveOfUsers, Live, UserOf
  <2> QED
    BY <2>4, <2>5, Zenon DEF PasswordInv
<1>2. ASSUME NEW u \in Users, SetPassword(u) \/ RemoveUser(u)
      PROVE  PasswordInv'
  <2>1. /\ sessions' = Ended(SessionsOf(u)) /\ UNCHANGED <<calls, now>> /\ newest' \in Nat /\ users[u] # None
        /\ \/ users' = [users EXCEPT ![u].password = newest']
           \/ users' = [users EXCEPT ![u] = None]
    BY <1>0, <1>2 DEF SetPassword, RemoveUser, NewPassword, StoreTypeOK
  <2>2. users' \in [Users -> UserRows \cup {None}] /\ \A v \in Users \ {u} : users'[v] = users[v]
    BY <1>0, <2>1 DEF StoreTypeOK, UserRows
  <2>3. /\ sessions' \in [Tokens -> SessionRows]
        /\ \A t \in Tokens : t \in SessionsOf(u) => sessions'[t].state = "over"
        /\ \A t \in Tokens : t \notin SessionsOf(u) => sessions'[t] = sessions[t]
    BY <1>0, <2>1, EndedSessions, Zenon DEF StoreTypeOK
  <2>4. \A t \in Tokens : Live(t)' => Live(t) /\ UserOf(t)' = UserOf(t) /\ UserOf(t) # u /\ sessions'[t] = sessions[t]
    BY <2>3, Zenon DEF SessionsOf, Live, UserOf
  <2>5. StoreTypeOK' /\ LiveOfUsers'
    BY <1>0, <2>1, <2>2, <2>3, <2>4 DEF StoreTypeOK, LiveOfUsers
  <2>6. HashingOK'
    BY <1>0, <2>1, <2>3, <2>4, HashingStays, Zenon
  <2>7. SessionsFollowPassword'
    BY <1>0, <2>2, <2>4 DEF SessionsFollowPassword, LiveOfUsers
  <2> QED
    BY <2>5, <2>6, <2>7 DEF PasswordInv
<1>3. ASSUME NEW u \in Users, NEW role \in Roles, SetRole(u, role)
      PROVE  PasswordInv'
  <2>1. users[u] # None /\ users' = [users EXCEPT ![u].role = role] /\ UNCHANGED <<sessions, newest, calls, now>>
    BY <1>3, Zenon DEF SetRole
  <2>2. /\ users' \in [Users -> UserRows \cup {None}]
        /\ \A v \in Users : users[v] # None => users'[v] # None /\ users'[v].password = users[v].password
    BY <1>0, <2>1 DEF StoreTypeOK, UserRows
  <2>3. StoreTypeOK' /\ LiveOfUsers' /\ HashingOK'
    BY <1>0, <2>1, <2>2 DEF StoreTypeOK, LiveOfUsers, HashingOK, At, Live, UserOf
  <2>4. SessionsFollowPassword'
    BY <1>0, <2>1, <2>2, Zenon DEF SessionsFollowPassword, LiveOfUsers, Live, UserOf
  <2> QED
    BY <2>3, <2>4 DEF PasswordInv
<1>4. ASSUME NEW gone, sessions' = Ended(gone), UNCHANGED <<users, newest, now>>, DOMAIN calls' = Calls,
             \A k \in Calls : At(k, "hashing")' => calls'[k] = calls[k]
      PROVE  PasswordInv'
  <2>1. /\ sessions' \in [Tokens -> SessionRows]
        /\ \A t \in Tokens : t \in gone => sessions'[t].state = "over"
        /\ \A t \in Tokens : t \notin gone => sessions'[t] = sessions[t]
    BY <1>0, <1>4, EndedSessions, Zenon DEF StoreTypeOK
  <2>2. \A t \in Tokens : Live(t)' => Live(t) /\ UserOf(t)' = UserOf(t) /\ sessions'[t] = sessions[t]
    BY <2>1, Zenon DEF Live, UserOf
  <2>3. StoreTypeOK' /\ LiveOfUsers'
    BY <1>0, <1>4, <2>1, <2>2 DEF StoreTypeOK, LiveOfUsers
  <2>4. HashingOK'
    BY <1>0, <1>4, <2>1, <2>2, HashingStays, Zenon
  <2>5. SessionsFollowPassword'
    BY <1>0, <1>4, <2>2 DEF SessionsFollowPassword
  <2> QED
    BY <2>3, <2>4, <2>5 DEF PasswordInv
<1>5. CASE PurgeSessions
  BY <1>0, <1>4, <1>5, Zenon DEF PurgeSessions, StoreTypeOK
<1>6. ASSUME NEW k \in Calls, Logout(k)
      PROVE  PasswordInv'
  <2>1. \E gone : sessions' = Ended(gone)
    BY <1>6, Zenon DEF Logout
  <2>2. DOMAIN calls' = Calls /\ \A j \in Calls : At(j, "hashing")' => calls'[j] = calls[j]
    BY <1>0, <1>6, CallGoesOn DEF Logout, Returns, StoreTypeOK, At
  <2> QED
    BY <1>4, <1>6, <2>1, <2>2, Zenon DEF Logout
<1>7. ASSUME NEW k \in Calls, NEW does \in {"login", "change"}, NEW u \in Users, NEW t, t = None \/ t \in Tokens,
             does = "change" => t \in Tokens, LoginBegins(k, does, u, t)
      PROVE  PasswordInv'
  <2> DEFINE call == [phase |-> "hashing", does |-> does, user |-> u, token |-> t,
                      id |-> users[u].id, password |-> users[u].password]
  <2>1. UNCHANGED <<users, sessions, newest, now>> /\ users[u] # None /\ Becomes(k, call)
    BY <1>7, Zenon DEF LoginBegins, storeVars
  <2>2. DOMAIN calls' = Calls /\ calls'[k] = call /\ \A j \in Calls \ {k} : calls'[j] = calls[j]
    BY <1>0, <2>1, CallGoesOn, Zenon DEF StoreTypeOK
  <2>3. StoreTypeOK' /\ LiveOfUsers' /\ SessionsFollowPassword'
    BY <1>0, <2>1, <2>2, Zenon DEF StoreTypeOK, LiveOfUsers, SessionsFollowPassword, Live, UserOf
  <2>4. /\ call.user \in Users /\ call.password \in Nat
        /\ does = "change" => Live(t) /\ UserOf(t) = u /\ sessions[t].state # "unused"
    BY <1>0, <1>7, <2>1, Zenon DEF StoreTypeOK, UserRows, LoginBegins, Valid, Live
  <2>5. HashingOK'
    <3> SUFFICES ASSUME NEW j \in Calls, At(j, "hashing")'
                 PROVE  /\ calls'[j].user \in Users /\ calls'[j].password \in Nat
                        /\ calls'[j].does = "change" =>
                              /\ calls'[j].token \in Tokens
                              /\ sessions[calls'[j].token].state # "unused"
                              /\ Live(calls'[j].token) => UserOf(calls'[j].token) = calls'[j].user
      BY <2>1, Zenon DEF HashingOK, Live, UserOf
    <3>1. CASE j = k
      BY <1>7, <2>2, <2>4, <3>1
    <3>2. CASE j # k
      BY <1>0, <2>2, <3>2 DEF HashingOK, At
    <3> QED
      BY <3>1, <3>2, Zenon
  <2> QED
    BY <2>3, <2>5 DEF PasswordInv
<1>8. ASSUME NEW k \in Calls, NEW t \in Tokens, Login(k, t)
      PROVE  PasswordInv'
  <2> DEFINE u == calls[k].user
             row == [state |-> "live", user |-> u, expires |-> now + SessionTTL,
                     password |-> calls[k].password, late |-> users[u].password # calls[k].password]
  <2>1. /\ sessions' = [sessions EXCEPT ![t] = row] /\ UNCHANGED <<users, newest, now>> /\ Becomes(k, None)
        /\ At(k, "hashing") /\ users[u] # None /\ sessions[t].state = "unused"
    BY <1>8 DEF Login, Returns, SameUser, Unused
  <2>2. DOMAIN calls' = Calls /\ \A j \in Calls : At(j, "hashing")' => calls'[j] = calls[j]
    BY <1>0, <2>1, CallGoesOn DEF StoreTypeOK, At
  <2>3. u \in Users /\ calls[k].password \in Nat
    BY <1>0, <2>1, Zenon DEF HashingOK
  <2>4. row \in SessionRows
    BY <1>0, <2>3 DEF SessionRows, StoreTypeOK, SessionsAssumption
  <2>5. sessions' \in [Tokens -> SessionRows] /\ sessions'[t] = row /\ \A s \in Tokens \ {t} : sessions'[s] = sessions[s]
    BY <1>0, <2>1, <2>4, Zenon DEF StoreTypeOK
  <2>6. StoreTypeOK' /\ LiveOfUsers'
    BY <1>0, <2>1, <2>2, <2>3, <2>5, Zenon DEF StoreTypeOK, LiveOfUsers, Live, UserOf
  <2>7. HashingOK'
    BY <1>0, <2>1, <2>2, <2>5, HashingStays, Zenon DEF Live, UserOf
  <2>8. SessionsFollowPassword'
    BY <1>0, <2>1, <2>5, Zenon DEF SessionsFollowPassword, Live, UserOf
  <2> QED
    BY <2>6, <2>7, <2>8 DEF PasswordInv
<1>9. ASSUME NEW k \in Calls, NEW u \in Users, NEW t \in Tokens, u = calls[k].user, t = calls[k].token,
             ChangePassword(k)
      PROVE  PasswordInv'
  <2> DEFINE others == SessionsOf(u) \ {t}
  <2>1. /\ At(k, "hashing") /\ newest' \in Nat /\ UNCHANGED now
        /\ Becomes(k, [phase |-> "forget", user |-> u, token |-> t])
    BY <1>0, <1>9 DEF ChangePassword, NewPassword, StoreTypeOK
  <2>2. DOMAIN calls' = Calls /\ \A j \in Calls : At(j, "hashing")' => calls'[j] = calls[j]
    BY <1>0, <2>1, CallGoesOn DEF StoreTypeOK, At
  <2>3. u \in Users /\ t \in Tokens /\ (Live(t) => UserOf(t) = u)
    BY <1>0, <1>9, <2>1, Zenon DEF HashingOK, ChangePassword
  <2>4. CASE SameUser(k)
    <3>1. /\ users[u] # None /\ users' = [users EXCEPT ![u].password = newest']
          /\ sessions' = [s \in Tokens |-> IF s = t /\ Live(t) THEN [sessions[t] EXCEPT !.password = newest']
                                           ELSE Ended(others)[s]]
      BY <1>9, <2>4, Zenon DEF ChangePassword, SameUser
    <3>2. /\ users' \in [Users -> UserRows \cup {None}] /\ users'[u] \in UserRows /\ users'[u].password = newest'
          /\ \A v \in Users \ {u} : users'[v] = users[v]
      BY <1>0, <2>1, <2>3, <3>1, Zenon DEF StoreTypeOK, UserRows
    <3>3. /\ Ended(others) \in [Tokens -> SessionRows]
          /\ \A s \in Tokens : s \in others => Ended(others)[s].state = "over"
          /\ \A s \in Tokens : s \notin others => Ended(others)[s] = sessions[s]
      BY <1>0, EndedSessions, Zenon DEF StoreTypeOK
    <3>4. [sessions[t] EXCEPT !.password = newest'] \in SessionRows
      BY <1>0, <2>1, <2>3 DEF StoreTypeOK, SessionRows
    <3>5. sessions' \in [Tokens -> SessionRows]
      BY <3>1, <3>3, <3>4, Zenon
    <3>a. \A s \in Tokens : s # t => sessions'[s] = Ended(others)[s]
      BY <3>1, Zenon
    <3>b. sessions'[t] = IF Live(t) THEN [sessions[t] EXCEPT !.password = newest'] ELSE Ended(others)[t]
      BY <2>3, <3>1, Zenon
    <3>c. Ended(others)[t] = sessions[t]
      BY <2>3, <3>3, Zenon
    <3>d. \A s \in Tokens : s \in others <=> Live(s) /\ UserOf(s) = u /\ s # t
      BY DEF SessionsOf
    <3> HIDE DEF others
    <3>6. \A s \in Tokens : s # t /\ Live(s)' => Live(s) /\ UserOf(s) # u /\ sessions'[s] = sessions[s]
      BY <3>3, <3>a, <3>d DEF Live
    <3>7. Live(t)' => Live(t) /\ sessions'[t].user = u /\ sessions'[t].password = newest'
      <4>1. CASE Live(t)
        <5>1. sessions'[t] = [sessions[t] EXCEPT !.password = newest'] /\ sessions[t] \in SessionRows
          BY <1>0, <2>3, <3>b, <4>1, Zenon DEF StoreTypeOK
        <5> QED
          BY <2>3, <4>1, <5>1, Zenon DEF UserOf, SessionRows
      <4>2. CASE ~Live(t)
        BY <3>b, <3>c, <4>2, Zenon DEF Live
      <4> QED
        BY <4>1, <4>2, Zenon
    <3>8. \A s \in Tokens : sessions[s].state # "unused" => sessions'[s].state # "unused"
      <4>1. sessions[t].state # "unused" => sessions'[t].state # "unused"
        <5>1. [sessions[t] EXCEPT !.password = newest'].state = sessions[t].state
          BY <1>0, <2>3 DEF StoreTypeOK, SessionRows
        <5> QED
          BY <3>b, <3>c, <5>1, Zenon
      <4> QED
        BY <3>3, <3>a, <4>1, Zenon
    <3>9. StoreTypeOK' /\ LiveOfUsers'
      BY <1>0, <2>1, <2>2, <2>3, <3>2, <3>5, <3>6, <3>7, Zenon DEF StoreTypeOK, LiveOfUsers, UserOf
    <3>10. \A s \in Tokens : Live(s)' => Live(s) /\ UserOf(s)' = UserOf(s)
      BY <2>3, <3>6, <3>7, Zenon DEF UserOf
    <3>11. HashingOK'
      BY <1>0, <2>2, <3>8, <3>10, HashingStays, Zenon
    <3>12. SessionsFollowPassword'
      <4> SUFFICES ASSUME NEW s \in Tokens, Live(s)'
                   PROVE  /\ users'[sessions'[s].user] # None
                          /\ sessions'[s].late \/ sessions'[s].password = users'[sessions'[s].user].password
        BY Zenon DEF SessionsFollowPassword, UserOf
      <4>1. CASE s = t
        BY <1>0, <3>2, <3>7, <4>1, Zenon
      <4>2. CASE s # t
        BY <1>0, <3>2, <3>6, <4>2 DEF SessionsFollowPassword, LiveOfUsers, UserOf
      <4> QED
        BY <4>1, <4>2, Zenon
    <3> QED
      BY <3>9, <3>11, <3>12 DEF PasswordInv
  <2>5. CASE ~SameUser(k)
    <3>1. UNCHANGED <<users, sessions>>
      BY <1>9, <2>5, Zenon DEF ChangePassword
    <3>2. StoreTypeOK' /\ LiveOfUsers' /\ SessionsFollowPassword'
      BY <1>0, <2>1, <2>2, <3>1, Zenon DEF StoreTypeOK, LiveOfUsers, SessionsFollowPassword, Live, UserOf
    <3>3. HashingOK'
      BY <1>0, <2>2, <3>1, HashingStays, Zenon DEF Live, UserOf
    <3> QED
      BY <3>2, <3>3, Zenon DEF PasswordInv
  <2> QED
    BY <2>4, <2>5
<1>10. ASSUME NEW k \in Calls, NEW call, Becomes(k, call), call = None \/ call.phase # "hashing",
              UNCHANGED <<storeVars, now>>
       PROVE  PasswordInv'
  <2>1. DOMAIN calls' = Calls /\ \A j \in Calls : At(j, "hashing")' => calls'[j] = calls[j]
    BY <1>0, <1>10, CallGoesOn DEF StoreTypeOK, At
  <2> QED
    BY <1>0, <1>10, <2>1, PasswordsUntouched, Zenon DEF StoreTypeOK
<1>11. ASSUME NEW k \in Calls, LoginFails(k) \/ forgetUser(k) \/ CallLost(k) \/ SaveReturns(k)
       PROVE  PasswordInv'
  BY <1>10, <1>11, Zenon DEF LoginFails, forgetUser, CallLost, SaveReturns, Returns
<1>12. ASSUME NEW k \in Calls, NEW t \in Tokens, Request(k, t) \/ forgetSession(k, t)
       PROVE  PasswordInv'
  <2>1. CASE Request(k, t)
    BY <1>10, <2>1, Zenon DEF Request
  <2>2. CASE forgetSession(k, t)
    BY <1>10, <2>2, Zenon DEF forgetSession
  <2> QED
    BY <1>12, <2>1, <2>2
<1>13. ASSUME NEW k \in Calls, NEW session, Passes(k, session) \/ Fails(k), UNCHANGED <<storeVars, now>>
       PROVE  PasswordInv'
  <2>1. \E call : Becomes(k, call) /\ (call = None \/ call.phase # "hashing")
    <3>1. CASE Returns(k)
      BY <3>1, Zenon DEF Returns
    <3>2. ASSUME NEW check, Goes(k, check)
          PROVE  \E call : Becomes(k, call) /\ (call = None \/ call.phase # "hashing")
      <4>1. [phase |-> "check", check |-> check, token |-> calls[k].token].phase # "hashing"
        BY Zenon
      <4> QED
        BY <3>2, <4>1, Zenon DEF Goes
    <3>3. ASSUME NEW by, Saves(k, by)
          PROVE  \E call : Becomes(k, call) /\ (call = None \/ call.phase # "hashing")
      <4>1. [phase |-> "save", token |-> calls[k].token, by |-> by].phase # "hashing"
        BY Zenon
      <4> QED
        BY <3>3, <4>1, Zenon DEF Saves
    <3> QED
      BY <1>13, <3>1, <3>2, <3>3, Zenon DEF Passes, Fails
  <2> QED
    BY <1>10, <1>13, <2>1, Zenon
<1>14. ASSUME NEW k \in Calls, CacheHit(k) \/ CheckSessionFails(k) \/ keepSession(k)
       PROVE  PasswordInv'
  BY <1>13, <1>14, Zenon DEF CacheHit, CheckSessionFails, keepSession
<1>15. ASSUME NEW k \in Calls, CheckSession(k)
       PROVE  PasswordInv'
  BY <1>10, <1>15, Zenon DEF CheckSession
<1>16. CASE DashboardRestarts \/ CollectorRestarts
  <2>1. DOMAIN calls' = Calls /\ \A j \in Calls : At(j, "hashing")' => calls'[j] = calls[j]
    BY <1>16, Zenon DEF DashboardRestarts, CollectorRestarts, At
  <2> QED
    BY <1>0, <1>16, <2>1, PasswordsUntouched, Zenon DEF DashboardRestarts, CollectorRestarts, StoreTypeOK
<1>17. CASE Tick \/ UNCHANGED vars
  <2>1. UNCHANGED <<storeVars, calls>> /\ now' \in Nat
    BY <1>0, <1>17 DEF Tick, vars, StoreTypeOK
  <2> QED
    BY <1>0, <2>1, PasswordsUntouched, Zenon DEF StoreTypeOK
<1> QED
  <2>1. CASE CommandLine
    BY <1>1, <1>2, <1>3, <1>5, <2>1, Zenon DEF CommandLine
  <2>2. CASE Logins
    <3>1. ASSUME NEW k \in Calls, ChangePassword(k)
          PROVE  PasswordInv'
      <4>1. calls[k].user \in Users /\ calls[k].token \in Tokens
        BY <1>0, <3>1, Zenon DEF ChangePassword, HashingOK
      <4> QED
        BY <1>9, <3>1, <4>1, Zenon
    <3> QED
      BY <1>0, <1>7, <1>8, <1>11, <2>2, <3>1, Zenon DEF Logins
  <2>3. CASE Browsing
    BY <1>6, <1>11, <1>12, <1>14, <1>15, <2>3, Zenon DEF Browsing
  <2> QED
    BY <1>16, <1>17, <2>1, <2>2, <2>3 DEF Next

LEMMA PasswordInvInitially ==
    ASSUME SessionsAssumption, Init
    PROVE  PasswordInv
<1>1. Unused \in SessionRows /\ Unused.state = "unused"
  BY Zenon DEF Unused, SessionRows
<1>2. StoreTypeOK
  BY <1>1, Zenon DEF Init, StoreTypeOK
<1>3. \A t \in Tokens : ~Live(t)
  BY <1>1 DEF Init, Live
<1>4. HashingOK
  BY Zenon DEF Init, HashingOK, At
<1> QED
  BY <1>2, <1>3, <1>4, Zenon DEF PasswordInv, LiveOfUsers, SessionsFollowPassword

\* SetPassword and ChangePassword end a user's sessions with the old password, in one
\* transaction: for any number of users and calls, a live session is of its user's
\* present password, or of a login that had read the row before the change.
THEOREM SessionsHavePassword == Spec => []SessionsFollowPassword
<1>1. Init => PasswordInv
  BY SessionsAssumption, PasswordInvInitially
<1>2. PasswordInv /\ [Next]_vars => PasswordInv'
  BY SessionsAssumption, PasswordStep
<1>3. PasswordInv => SessionsFollowPassword
  BY DEF PasswordInv
<1> QED
  BY <1>1, <1>2, <1>3, PTL DEF Spec

-----------------------------------------------------------------------------
(* What the dashboard was told *)

\* What a session says of itself is true.
TrueOf(t, session) == Live(t) /\ session.user = UserOf(t) /\ session.role = users[UserOf(t)].role

\* The token's user is an admin, or at is no later than age after the answer changed.
AdminUntil(t, at, age) == (Live(t) /\ users[UserOf(t)].role = "admin") \/ at <= changed[t] + age

Known(t) == t \in Tokens /\ sessions[t].state # "unused"

Kept(t, row) ==
    /\ row \in CacheRows /\ Known(t)
    /\ row.until <= now + CacheTTL
    /\ Live(t) => row.until <= sessions[t].expires
    /\ TrueOf(t, row) \/ row.until <= changed[t] + CacheTTL + CallTime

\* An answer on its way was true when it was given, and is used within CallTime.
Answered(call) ==
    /\ Known(call.token) /\ call.user \in Users /\ call.role \in Roles /\ call.expires \in Nat /\ call.since \in Nat
    /\ call.since <= now /\ now <= call.since + CallTime /\ call.since <= call.expires
    /\ Live(call.token) => call.expires = sessions[call.token].expires
    /\ TrueOf(call.token, call) \/ call.since <= changed[call.token]
    /\ call.check = "sign" => AdminUntil(call.token, call.since, CacheTTL + CallTime)

\* A request that passed requireAdmin did so with an answer the dashboard may use.
Checking(call) ==
    /\ Known(call.token)
    /\ call.check = "sign" => /\ Live(call.token) => now <= sessions[call.token].expires + CallTime
                              /\ AdminUntil(call.token, now, CacheTTL + CallTime)

SavesAsAdmin(call) ==
    /\ Known(call.token) /\ call.by \in Users \cup {None}
    /\ Live(call.token) => now <= sessions[call.token].expires + CallTime
    /\ AdminUntil(call.token, now, CacheTTL + 2 * CallTime)
    /\ call.by # None => \/ Live(call.token) /\ call.by = UserOf(call.token)
                         \/ now <= changed[call.token] + CacheTTL + 2 * CallTime

Sound(call) ==
    \/ call = None
    \/ /\ call.phase = "answered" => Answered(call)
       /\ call.phase = "check" => Checking(call)
       /\ call.phase = "save" => SavesAsAdmin(call)

CacheOK == \A t \in Tokens : cache[t] # None => Kept(t, cache[t])
CallsOK == \A k \in Calls : Sound(calls[k])

AnswersInv ==
    /\ PasswordInv
    /\ DOMAIN cache = Tokens /\ changed \in [Tokens -> Nat]
    /\ CacheOK /\ CallsOK

\* What a change of the store does to a token: nothing, or it marks the time, or it
\* deletes a session that had expired.
Follows(t) ==
    /\ sessions'[t].state # "unused"
    /\ Live(t)' => Live(t) /\ sessions'[t].user = sessions[t].user /\ sessions'[t].expires = sessions[t].expires
    /\ \/ changed'[t] = now
       \/ /\ changed'[t] = changed[t]
          /\ Live(t) => Live(t)' /\ users'[sessions[t].user].role = users[sessions[t].user].role
       \/ changed'[t] = sessions[t].expires /\ Live(t) /\ ~Live(t)'

\* What the token's answer is made of stays.
Stays(t) ==
    /\ changed'[t] = changed[t]
    /\ Live(t) => /\ Live(t)' /\ sessions'[t].user = sessions[t].user
                  /\ users'[sessions'[t].user].role = users[sessions[t].user].role

\* After it, a time that was within reach of the present is within reach of the change,
\* or what was true of the token is.
LEMMA TokenFollows ==
    ASSUME NEW t \in Tokens, Follows(t), NEW at \in Nat, NEW age \in Nat, now \in Nat,
           changed'[t] \in Nat, sessions[t].expires \in Nat,
           at <= now + age, Live(t) => at <= sessions[t].expires + age
    PROVE  at <= changed'[t] + age \/ Stays(t)
<1>1. CASE changed'[t] = now
  BY <1>1, Zenon
<1>2. CASE changed'[t] = sessions[t].expires /\ Live(t)
  BY <1>2, Zenon
<1>3. CASE changed'[t] = changed[t] /\ (Live(t) => Live(t)' /\ users'[sessions[t].user].role = users[sessions[t].user].role)
  BY <1>3, Zenon DEF Follows, Stays
<1> QED
  BY <1>1, <1>2, <1>3, Zenon DEF Follows

LEMMA StoreKeepsAnswers ==
    ASSUME SessionsAssumption, AnswersInv, PasswordInv', UNCHANGED <<cache, now>>, changed' \in [Tokens -> Nat],
           \A t \in Tokens : sessions[t].state # "unused" => Follows(t),
           \A k \in Calls : calls'[k] = calls[k] \/ Sound(calls[k])'
    PROVE  AnswersInv'
<1>0. /\ now \in Nat /\ CacheTTL \in Nat /\ CallTime \in Nat /\ CacheTTL + CallTime \in Nat
      /\ CacheTTL + 2 * CallTime \in Nat /\ changed \in [Tokens -> Nat] /\ sessions \in [Tokens -> SessionRows]
  BY DEF AnswersInv, PasswordInv, StoreTypeOK, SessionsAssumption
<1>1. ASSUME NEW t, Known(t)
      PROVE  /\ t \in Tokens /\ Follows(t) /\ changed[t] \in Nat /\ changed'[t] \in Nat /\ sessions[t].expires \in Nat
             /\ Known(t)'
  BY <1>0, <1>1, Zenon DEF Known, SessionRows, Follows
<1>2. CacheOK'
  <2> SUFFICES ASSUME NEW t \in Tokens, NEW row, cache[t] = row, row # None
               PROVE  Kept(t, row)'
    BY Zenon DEF CacheOK, Kept, TrueOf, Live, UserOf, Known
  <2>1. Kept(t, row) /\ row.until \in Nat
    BY Zenon DEF AnswersInv, CacheOK, Kept, CacheRows
  <2>2. Follows(t) /\ changed[t] \in Nat /\ changed'[t] \in Nat /\ sessions[t].expires \in Nat /\ Known(t)'
    BY <1>1, <2>1, Zenon DEF Kept
  <2>3. row.until <= changed'[t] + (CacheTTL + CallTime) \/ Stays(t)
    <3>1. row.until <= now + (CacheTTL + CallTime) /\ (Live(t) => row.until <= sessions[t].expires + (CacheTTL + CallTime))
      BY <1>0, <2>1, <2>2 DEF Kept
    <3> QED
      BY <1>0, <2>1, <2>2, <3>1, TokenFollows, Zenon
  <2>4. TrueOf(t, row)' \/ row.until <= changed'[t] + CacheTTL + CallTime
    <3>1. CASE Stays(t)
      BY <2>1, <3>1, Zenon DEF Kept, TrueOf, UserOf, Stays
    <3>2. CASE row.until <= changed'[t] + (CacheTTL + CallTime)
      BY <1>0, <2>1, <2>2, <3>2
    <3> QED
      BY <2>3, <3>1, <3>2, Zenon
  <2>5. Live(t)' => row.until <= sessions'[t].expires
    BY <2>1, <2>2, Zenon DEF Kept, Follows
  <2> QED
    BY <2>1, <2>2, <2>4, <2>5, Zenon DEF Kept
<1>3. CallsOK'
  <2> SUFFICES ASSUME NEW k \in Calls, NEW call, call = calls[k], calls'[k] = call
               PROVE  Sound(call)'
    BY Zenon DEF CallsOK
  <2>1. Sound(call)
    BY DEF AnswersInv, CallsOK
  <2> DEFINE t == call.token
  <2>2. ASSUME NEW at \in Nat, NEW age \in Nat, at <= now + age, Known(t), Live(t) => at <= sessions[t].expires + age
        PROVE  at <= changed'[t] + age \/ Stays(t)
    BY <1>0, <1>1, <2>2, TokenFollows, Zenon
  <2>3. ASSUME Known(t)
        PROVE  Live(t)' => Live(t) /\ sessions'[t].expires = sessions[t].expires
    BY <1>1, <2>3, Zenon DEF Follows
  <2>4. CASE call # None /\ call.phase = "answered"
    <3>1. Answered(call)
      BY <2>1, <2>4, Zenon DEF Sound
    <3>2. call.since \in Nat /\ Known(t) /\ changed[t] \in Nat /\ changed'[t] \in Nat /\ sessions[t].expires \in Nat /\ Known(t)'
      BY <1>1, <3>1, Zenon DEF Answered
    <3>3. TrueOf(t, call)' \/ call.since <= changed'[t]
      <4>1. call.since <= now + 0 /\ (Live(t) => call.since <= sessions[t].expires + 0)
        BY <1>0, <3>1, <3>2 DEF Answered
      <4>2. call.since <= changed'[t] + 0 \/ Stays(t)
        BY <2>2, <3>2, <4>1, Zenon
      <4> QED
        <5>1. CASE Stays(t)
          <6>1. TrueOf(t, call) \/ call.since <= changed[t]
            BY <3>1, Zenon DEF Answered
          <6> QED
            BY <5>1, <6>1, Zenon DEF TrueOf, UserOf, Stays
        <5>2. CASE call.since <= changed'[t] + 0
          BY <3>2, <5>2
        <5> QED
          BY <4>2, <5>1, <5>2, Zenon
    <3>4. call.check = "sign" => AdminUntil(t, call.since, CacheTTL + CallTime)'
      <4>1. /\ call.since <= now + (CacheTTL + CallTime)
            /\ Live(t) => call.since <= sessions[t].expires + (CacheTTL + CallTime)
        BY <1>0, <3>1, <3>2 DEF Answered
      <4>2. call.since <= changed'[t] + (CacheTTL + CallTime) \/ Stays(t)
        BY <1>0, <2>2, <3>2, <4>1, Zenon
      <4> QED
        <5>1. call.check = "sign" => AdminUntil(t, call.since, CacheTTL + CallTime)
          BY <3>1, Zenon DEF Answered
        <5> QED
          BY <4>2, <5>1, Zenon DEF AdminUntil, UserOf, Stays
    <3>5. Answered(call)'
      BY <2>3, <3>1, <3>2, <3>3, <3>4, Zenon DEF Answered
    <3> QED
      BY <2>4, <3>5, Zenon DEF Sound
  <2>5. CASE call # None /\ call.phase = "check"
    <3>1. Checking(call)
      BY <2>1, <2>5, Zenon DEF Sound
    <3>2. Known(t) /\ changed[t] \in Nat /\ changed'[t] \in Nat /\ sessions[t].expires \in Nat /\ Known(t)'
      BY <1>1, <3>1, Zenon DEF Checking
    <3>3. ASSUME call.check = "sign"
          PROVE  AdminUntil(t, now, CacheTTL + CallTime)'
      <4>1. now <= now + (CacheTTL + CallTime) /\ (Live(t) => now <= sessions[t].expires + (CacheTTL + CallTime))
        BY <1>0, <3>1, <3>2, <3>3 DEF Checking
      <4>2. now <= changed'[t] + (CacheTTL + CallTime) \/ Stays(t)
        BY <1>0, <2>2, <3>2, <4>1, Zenon
      <4> QED
        BY <3>1, <3>3, <4>2, Zenon DEF Checking, AdminUntil, UserOf, Stays
    <3>4. Checking(call)'
      BY <2>3, <3>1, <3>2, <3>3, Zenon DEF Checking
    <3> QED
      BY <2>5, <3>4, Zenon DEF Sound
  <2>6. CASE call # None /\ call.phase = "save"
    <3>1. SavesAsAdmin(call)
      BY <2>1, <2>6, Zenon DEF Sound
    <3>2. Known(t) /\ changed[t] \in Nat /\ changed'[t] \in Nat /\ sessions[t].expires \in Nat /\ Known(t)'
      BY <1>1, <3>1, Zenon DEF SavesAsAdmin
    <3>3. /\ now <= now + (CacheTTL + 2 * CallTime)
          /\ Live(t) => now <= sessions[t].expires + (CacheTTL + 2 * CallTime)
      BY <1>0, <3>1, <3>2 DEF SavesAsAdmin
    <3>4. now <= changed'[t] + (CacheTTL + 2 * CallTime) \/ Stays(t)
      BY <1>0, <2>2, <3>2, <3>3, Zenon
    <3>5. AdminUntil(t, now, CacheTTL + 2 * CallTime)'
      BY <3>1, <3>4, Zenon DEF SavesAsAdmin, AdminUntil, UserOf, Stays
    <3>6. call.by # None => (Live(t)' /\ call.by = sessions'[t].user) \/ now <= changed'[t] + CacheTTL + 2 * CallTime
      <4>1. CASE Stays(t)
        BY <3>1, <4>1, Zenon DEF SavesAsAdmin, UserOf, Stays
      <4>2. CASE now <= changed'[t] + (CacheTTL + 2 * CallTime)
        BY <1>0, <3>2, <4>2
      <4> QED
        BY <3>4, <4>1, <4>2, Zenon
    <3>7. SavesAsAdmin(call)'
      BY <2>3, <3>1, <3>2, <3>5, <3>6, Zenon DEF SavesAsAdmin, UserOf
    <3> QED
      BY <2>6, <3>7, Zenon DEF Sound
  <2> QED
    BY <2>4, <2>5, <2>6, Zenon DEF Sound
<1> QED
  BY <1>2, <1>3, Zenon DEF AnswersInv

\* A step of the dashboard or of a call, which leaves the store and the clock alone.
LEMMA CallKeepsAnswers ==
    ASSUME AnswersInv, PasswordInv', UNCHANGED <<storeVars, changed, now>>,
           DOMAIN cache' = Tokens,
           \A t \in Tokens : cache'[t] = cache[t] \/ cache'[t] = None \/ Kept(t, cache'[t]),
           \A k \in Calls : calls'[k] = calls[k] \/ Sound(calls'[k])
    PROVE  AnswersInv'
<1>1. UNCHANGED <<users, sessions>>
  BY DEF storeVars
<1>2. \A t \in Tokens : cache'[t] # None => Kept(t, cache'[t])
  BY Zenon DEF AnswersInv, CacheOK
<1>3. \A k \in Calls : Sound(calls'[k])
  BY Zenon DEF AnswersInv, CallsOK
<1>4. CacheOK'
  BY <1>1, <1>2, Zenon DEF CacheOK, Kept, Known, TrueOf, Live, UserOf
<1>5. CallsOK'
  <2> SUFFICES ASSUME NEW k \in Calls, NEW call, call = calls'[k]
               PROVE  Sound(call) => Sound(call)'
    BY <1>3, Zenon DEF CallsOK
  <2>1. Answered(call) => Answered(call)'
    BY <1>1, Zenon DEF Answered, AdminUntil, TrueOf, Live, UserOf, Known
  <2>2. Checking(call) => Checking(call)'
    BY <1>1, Zenon DEF Checking, AdminUntil, Live, UserOf, Known
  <2>3. SavesAsAdmin(call) => SavesAsAdmin(call)'
    BY <1>1, Zenon DEF SavesAsAdmin, AdminUntil, Live, UserOf, Known
  <2> QED
    BY <2>1, <2>2, <2>3, Zenon DEF Sound
<1> QED
  BY <1>4, <1>5, Zenon DEF AnswersInv

\* What sessionOf returned is used: for the page, for the next check or for the change.
LEMMA PassesSound ==
    ASSUME SessionsAssumption, NEW k \in Calls, NEW session, Passes(k, session), DOMAIN calls = Calls,
           now \in Nat, changed \in [Tokens -> Nat],
           Known(calls[k].token), session.user \in Users,
           TrueOf(calls[k].token, session) \/ now <= changed[calls[k].token] + CacheTTL + CallTime,
           Live(calls[k].token) => now <= sessions[calls[k].token].expires + CallTime,
           calls[k].check = "sign" => AdminUntil(calls[k].token, now, CacheTTL + 2 * CallTime)
    PROVE  \A j \in Calls : calls'[j] = calls[j] \/ Sound(calls'[j])
<1> DEFINE t == calls[k].token
<1>0. CacheTTL \in Nat /\ CallTime \in Nat /\ t \in Tokens /\ changed[t] \in Nat
  BY Zenon DEF SessionsAssumption, Known
<1>1. ASSUME NEW call, Becomes(k, call), Sound(call)
      PROVE  \A j \in Calls : calls'[j] = calls[j] \/ Sound(calls'[j])
  BY <1>1, CallGoesOn
<1>2. Sound(None)
  BY Zenon DEF Sound
<1>3. ASSUME Goes(k, "admin")
      PROVE  \A j \in Calls : calls'[j] = calls[j] \/ Sound(calls'[j])
  <2> DEFINE call == [phase |-> "check", check |-> "admin", token |-> t]
  <2>1. Sound(call)
    BY Zenon DEF Sound, Checking
  <2> QED
    BY <1>1, <1>3, <2>1, Zenon DEF Goes
<1>4. ASSUME Goes(k, "sign"), session.role = "admin"
      PROVE  \A j \in Calls : calls'[j] = calls[j] \/ Sound(calls'[j])
  <2> DEFINE call == [phase |-> "check", check |-> "sign", token |-> t]
  <2>1. AdminUntil(t, now, CacheTTL + CallTime)
    BY <1>0, <1>4 DEF AdminUntil, TrueOf
  <2>2. Sound(call)
    BY <2>1, Zenon DEF Sound, Checking
  <2> QED
    BY <1>1, <1>4, <2>2, Zenon DEF Goes
<1>5. ASSUME Saves(k, session.user), calls[k].check = "sign"
      PROVE  \A j \in Calls : calls'[j] = calls[j] \/ Sound(calls'[j])
  <2> DEFINE call == [phase |-> "save", token |-> t, by |-> session.user]
  <2>1. (Live(t) /\ session.user = UserOf(t)) \/ now <= changed[t] + CacheTTL + 2 * CallTime
    BY <1>0 DEF TrueOf
  <2>2. SavesAsAdmin(call)
    BY <1>5, <2>1, Zenon DEF SavesAsAdmin
  <2>3. Sound(call)
    BY <2>2, Zenon DEF Sound
  <2> QED
    BY <1>1, <1>5, <2>3, Zenon DEF Saves
<1>6. ASSUME Returns(k)
      PROVE  \A j \in Calls : calls'[j] = calls[j] \/ Sound(calls'[j])
  BY <1>1, <1>2, <1>6, Zenon DEF Returns
<1> QED
  BY <1>3, <1>4, <1>5, <1>6, Zenon DEF Passes

\* The steps that change the store.
LEMMA StoreStep ==
    ASSUME SessionsAssumption, AnswersInv, PasswordInv',
           \/ CommandLine
           \/ \E k \in Calls, t \in Tokens : Login(k, t)
           \/ \E k \in Calls : ChangePassword(k) \/ Logout(k)
    PROVE  AnswersInv'
<1>0. /\ StoreTypeOK /\ HashingOK /\ LiveOfUsers /\ SessionsFollowPassword /\ changed \in [Tokens -> Nat] /\ now \in Nat
      /\ sessions \in [Tokens -> SessionRows] /\ DOMAIN calls = Calls
  BY Zenon DEF AnswersInv, PasswordInv, StoreTypeOK
<1>1. ASSUME NEW which
      PROVE  /\ Changed(which) \in [Tokens -> Nat]
             /\ \A t \in Tokens : Changed(which)[t] = IF t \in which THEN now ELSE changed[t]
  BY <1>0, Zenon DEF Changed
\* The sessions of gone end, and other users' rows and sessions stay.
<1>2. ASSUME NEW gone, gone \subseteq Tokens, sessions' = Ended(gone), changed' = Changed(gone), UNCHANGED <<cache, now>>,
             \A k \in Calls : calls'[k] = calls[k] \/ calls'[k] = None,
             \A t \in Tokens \ gone : Live(t) => users'[sessions[t].user].role = users[sessions[t].user].role
      PROVE  AnswersInv'
  <2>1. /\ \A t \in Tokens : t \in gone => sessions'[t].state = "over"
        /\ \A t \in Tokens : t \notin gone => sessions'[t] = sessions[t]
    BY <1>0, <1>2, EndedSessions
  <2>2. \A t \in Tokens : sessions[t].state # "unused" => Follows(t)
    BY <1>1, <1>2, <2>1 DEF Follows, Live
  <2>3. \A k \in Calls : calls'[k] = calls[k] \/ Sound(calls[k])'
    BY <1>2, Zenon DEF Sound
  <2> QED
    BY <1>1, <1>2, <2>2, <2>3, StoreKeepsAnswers, Zenon
<1>3. ASSUME NEW u \in Users, SetPassword(u)
      PROVE  AnswersInv'
  <2>1. \A v \in Users : v # u => users'[v] = users[v]
    BY <1>0, <1>3, Zenon DEF SetPassword, StoreTypeOK
  <2> QED
    BY <1>0, <1>2, <1>3, <2>1 DEF SetPassword, SessionsOf, LiveOfUsers, UserOf
<1>4. ASSUME NEW u \in Users, RemoveUser(u)
      PROVE  AnswersInv'
  <2>1. \A v \in Users : v # u => users'[v] = users[v]
    BY <1>0, <1>4, Zenon DEF RemoveUser, StoreTypeOK
  <2> QED
    BY <1>0, <1>2, <1>4, <2>1 DEF RemoveUser, SessionsOf, LiveOfUsers, UserOf
<1>5. ASSUME NEW u \in Users, NEW role \in Roles, AddUser(u, role)
      PROVE  AnswersInv'
  <2>1. /\ users[u] = None /\ UNCHANGED <<sessions, cache, calls, now, changed>>
        /\ \A v \in Users : v # u => users'[v] = users[v]
    BY <1>0, <1>5, Zenon DEF AddUser, StoreTypeOK
  <2>2. \A t \in Tokens : Live(t) => users'[sessions[t].user] = users[sessions[t].user]
    BY <1>0, <2>1, Zenon DEF SessionsFollowPassword, LiveOfUsers, UserOf
  <2>3. \A t \in Tokens : sessions[t].state # "unused" => Follows(t)
    BY <2>1, <2>2, Zenon DEF Follows, Live
  <2> QED
    BY <1>0, <2>1, <2>3, StoreKeepsAnswers, Zenon
<1>6. ASSUME NEW u \in Users, NEW role \in Roles, SetRole(u, role)
      PROVE  AnswersInv'
  <2>1. /\ changed' = Changed(SessionsOf(u)) /\ UNCHANGED <<sessions, cache, calls, now>>
        /\ \A v \in Users : v # u => users'[v] = users[v]
    BY <1>0, <1>6, Zenon DEF SetRole, StoreTypeOK
  <2>2. \A t \in Tokens : sessions[t].state # "unused" => Follows(t)
    <3> SUFFICES ASSUME NEW t \in Tokens, sessions[t].state # "unused"
                 PROVE  Follows(t)
      BY Zenon
    <3>1. CASE t \in SessionsOf(u)
      BY <1>1, <2>1, <3>1, Zenon DEF Follows, Live
    <3>2. CASE t \notin SessionsOf(u)
      BY <1>0, <1>1, <2>1, <3>2 DEF Follows, Live, SessionsOf, LiveOfUsers, UserOf
    <3> QED
      BY <3>1, <3>2, Zenon
  <2> QED
    BY <1>1, <2>1, <2>2, StoreKeepsAnswers, Zenon
<1>7. CASE PurgeSessions
  <2>1. /\ \A t \in Tokens : t \in Expired => sessions'[t].state = "over"
        /\ \A t \in Tokens : t \notin Expired => sessions'[t] = sessions[t]
    BY <1>0, <1>7, EndedSessions, Zenon DEF PurgeSessions
  <2>2. /\ \A t \in Tokens : t \in Expired => changed'[t] = sessions[t].expires
        /\ \A t \in Tokens : t \notin Expired => changed'[t] = changed[t]
        /\ changed' \in [Tokens -> Nat]
    BY <1>0, <1>7, Zenon DEF PurgeSessions, SessionRows
  <2>3. \A t \in Tokens : sessions[t].state # "unused" => Follows(t)
    BY <1>7, <2>1, <2>2, Zenon DEF Follows, Live, Expired, PurgeSessions
  <2> QED
    BY <1>7, <2>2, <2>3, StoreKeepsAnswers, Zenon DEF PurgeSessions
<1>8. ASSUME NEW k \in Calls, NEW s \in Tokens, Login(k, s)
      PROVE  AnswersInv'
  <2>1. /\ sessions[s].state = "unused" /\ \A t \in Tokens : t # s => sessions'[t] = sessions[t]
        /\ UNCHANGED <<users, cache, now>> /\ changed' = Changed({s}) /\ Becomes(k, None)
    BY <1>0, <1>8 DEF Login, Unused, Returns
  <2>2. \A t \in Tokens : sessions[t].state # "unused" => Follows(t)
    BY <1>1, <2>1 DEF Follows, Live
  <2>3. \A j \in Calls : calls'[j] = calls[j] \/ Sound(calls[j])'
    BY <1>0, <2>1, CallGoesOn DEF Sound
  <2> QED
    BY <1>1, <2>1, <2>2, <2>3, StoreKeepsAnswers, Zenon
<1>9. ASSUME NEW k \in Calls, Logout(k)
      PROVE  AnswersInv'
  <2> DEFINE gone == {t \in Tokens : Live(t) /\ t = calls[k].token}
  <2>1. \A j \in Calls : calls'[j] = calls[j] \/ calls'[j] = None
    BY <1>0, <1>9, CallGoesOn, Zenon DEF Logout, Returns
  <2> QED
    BY <1>2, <1>9, <2>1, Zenon DEF Logout
<1>10. ASSUME NEW k \in Calls, NEW u \in Users, NEW s \in Tokens, u = calls[k].user, s = calls[k].token,
              ChangePassword(k)
       PROVE  AnswersInv'
  <2> DEFINE others == SessionsOf(u) \ {s}
             call == [phase |-> "forget", user |-> u, token |-> s]
  <2>1. \A j \in Calls : calls'[j] = calls[j] \/ Sound(calls[j])'
    <3>1. \A j \in Calls : calls'[j] = calls[j] \/ calls'[j].phase = "forget"
      <4>1. Becomes(k, call)
        BY <1>10, Zenon DEF ChangePassword
      <4> QED
        BY <1>0, <4>1, CallGoesOn
    <3> QED
      BY <3>1, Zenon DEF Sound
  <2>2. CASE SameUser(k)
    <3>1. /\ users[u] # None /\ users' = [users EXCEPT ![u].password = newest'] /\ UNCHANGED <<cache, now>>
          /\ sessions' = [t \in Tokens |-> IF t = s /\ Live(s) THEN [sessions[s] EXCEPT !.password = newest']
                                           ELSE Ended(others)[t]]
          /\ changed' = Changed(others)
      BY <1>10, <2>2, Zenon DEF ChangePassword, SameUser
    <3>2. \A v \in Users : users[v] # None => users'[v].role = users[v].role
      <4>1. users[u] \in UserRows
        BY <1>0, <3>1, Zenon DEF StoreTypeOK
      <4> QED
        BY <1>0, <3>1, <4>1, Zenon DEF StoreTypeOK, UserRows
    <3>3. /\ \A t \in Tokens : t \in others => Ended(others)[t].state = "over"
          /\ \A t \in Tokens : t \notin others => Ended(others)[t] = sessions[t]
      BY <1>0, EndedSessions, Zenon
    <3>4. \A t \in Tokens : t \in others => sessions'[t].state = "over" /\ changed'[t] = now
      BY <1>1, <3>1, <3>3, Zenon
    <3>5. [sessions[s] EXCEPT !.password = newest'].state = sessions[s].state /\ [sessions[s] EXCEPT !.password = newest'].user = sessions[s].user
          /\ [sessions[s] EXCEPT !.password = newest'].expires = sessions[s].expires
      BY <1>0 DEF SessionRows
    <3>6. sessions'[s].state = sessions[s].state /\ sessions'[s].user = sessions[s].user /\ sessions'[s].expires = sessions[s].expires
      <4>1. s \notin others /\ sessions'[s] = IF Live(s) THEN [sessions[s] EXCEPT !.password = newest'] ELSE Ended(others)[s]
        BY <3>1, Zenon
      <4> QED
        BY <3>3, <3>5, <4>1, Zenon
    <3>7. \A t \in Tokens : t \notin others /\ t # s => sessions'[t] = sessions[t]
      BY <3>1, <3>3, Zenon
    <3>8. \A t \in Tokens : t \notin others => changed'[t] = changed[t]
      BY <1>1, <3>1
    <3>9. \A t \in Tokens : Live(t) => users'[sessions[t].user].role = users[sessions[t].user].role
      BY <1>0, <3>2, Zenon DEF SessionsFollowPassword, LiveOfUsers, UserOf
    <3> HIDE DEF others
    <3>10. \A t \in Tokens : sessions[t].state # "unused" => Follows(t)
      <4> SUFFICES ASSUME NEW t \in Tokens, sessions[t].state # "unused"
                   PROVE  Follows(t)
        BY Zenon
      <4>1. CASE t \in others
        BY <3>4, <4>1, Zenon DEF Follows, Live
      <4>2. CASE t \notin others
        <5>1. sessions'[t].state = sessions[t].state /\ sessions'[t].user = sessions[t].user /\ sessions'[t].expires = sessions[t].expires
          BY <3>6, <3>7, <4>2, Zenon
        <5> QED
          BY <3>8, <3>9, <4>2, <5>1, Zenon DEF Follows, Live
      <4> QED
        BY <4>1, <4>2, Zenon
    <3> QED
      BY <1>1, <2>1, <3>1, <3>10, StoreKeepsAnswers, Zenon
  <2>3. CASE ~SameUser(k)
    <3>1. UNCHANGED <<users, sessions, changed, cache, now>>
      BY <1>10, <2>3, Zenon DEF ChangePassword
    <3>2. \A t \in Tokens : sessions[t].state # "unused" => Follows(t)
      BY <3>1, Zenon DEF Follows, Live
    <3> QED
      BY <1>0, <2>1, <3>1, <3>2, StoreKeepsAnswers, Zenon
  <2> QED
    BY <2>2, <2>3
<1>11. ASSUME NEW k \in Calls, ChangePassword(k)
       PROVE  AnswersInv'
  <2>1. calls[k].user \in Users /\ calls[k].token \in Tokens
    <3>1. At(k, "hashing") /\ calls[k].does = "change"
      BY <1>11, Zenon DEF ChangePassword
    <3> QED
      BY <1>0, <3>1, Zenon DEF HashingOK
  <2> QED
    BY <1>10, <1>11, <2>1, Zenon
<1> QED
  BY <1>3, <1>4, <1>5, <1>6, <1>7, <1>8, <1>9, <1>11, Zenon DEF CommandLine

=============================================================================

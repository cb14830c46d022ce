------------------------------ MODULE Sessions ------------------------------
(***************************************************************************)
(* Dashboard users and their sessions.  Users, password hashes and         *)
(* sessions are rows of the collector's database.  The dashboard is a      *)
(* process of its own: it asks the collector about a session cookie and    *)
(* trusts the answer for a while.  Logins, password changes, requests and  *)
(* the command line overlap, because a password is hashed between reading  *)
(* the user's row and acting on it, and because an answer of the collector *)
(* is kept some time after it was true.                                    *)
(*                                                                         *)
(*   internal/store/users.go            the statements                     *)
(*   internal/api/login.go              the collector's calls              *)
(*   client/internal/server/auth.go     the dashboard and its cache        *)
(*   client/internal/server/rules.go    requireAdmin, a change and its     *)
(*                                      author                             *)
(*   collector/users.go                 the command line                   *)
(*                                                                         *)
(* Passwords are numbered in the order they are set.  A user's id is the   *)
(* number of their first password.                                         *)
(***************************************************************************)
EXTENDS Integers

CONSTANTS
    Users,          \* user names
    Tokens,         \* session tokens, random and never reused
    Calls,          \* what the collector and the dashboard can be busy with at once
    SessionTTL,
    CacheTTL,       \* sessionCacheTTL
    CallTime,       \* how long a request waits for an answer of the collector
    MaxPasswords,   \* bound: passwords ever set
    MaxTime,        \* bound: the last moment
    None

Roles == {"admin", "viewer"}

\* A row of users.
UserRows == [id : Nat, password : Nat, role : Roles]

ASSUME SessionsAssumption ==
    /\ SessionTTL \in Nat \ {0}
    /\ {CacheTTL, CallTime, MaxPasswords, MaxTime} \subseteq Nat
    /\ None \notin Users \cup Tokens \cup UserRows

VARIABLES
    \* the store
    users,      \* users: id, password and role; None without a row
    sessions,   \* user_sessions: a token is unused, live or over
    newest,     \* the newest password set
    \* the dashboard's memory
    cache,      \* authCache.sessions
    \* calls to the collector and requests to the dashboard in progress
    calls,
    \* the clock, and history for the properties
    now,
    changed     \* when the answer to CheckSession for a token last changed

storeVars == <<users, sessions, newest>>
vars == <<storeVars, cache, calls, now, changed>>

Unused == [state |-> "unused", user |-> None, expires |-> 0, password |-> 0, late |-> FALSE]

Init ==
    /\ users = [u \in Users |-> None]
    /\ sessions = [t \in Tokens |-> Unused]
    /\ newest = 0
    /\ cache = [t \in Tokens |-> None]
    /\ calls = [k \in Calls |-> None]
    /\ now = 0
    /\ changed = [t \in Tokens |-> 0]

-----------------------------------------------------------------------------
(* The command line *)

Live(t) == sessions[t].state = "live"
UserOf(t) == sessions[t].user

\* DELETE FROM user_sessions, also by the cascade from users.
Ended(gone) ==
    [t \in Tokens |-> IF t \in gone THEN [Unused EXCEPT !.state = "over"] ELSE sessions[t]]

Changed(which) == [t \in Tokens |-> IF t \in which THEN now ELSE changed[t]]

SessionsOf(u) == {t \in Tokens : Live(t) /\ UserOf(t) = u}

NewPassword == newest < MaxPasswords /\ newest' = newest + 1

\* -add-user: an existing name is refused.
AddUser(u, role) ==
    /\ users[u] = None
    /\ NewPassword
    /\ users' = [users EXCEPT ![u] = [id |-> newest', password |-> newest', role |-> role]]
    /\ UNCHANGED <<sessions, cache, calls, now, changed>>

\* Mutant: the sessions are not ended.
SetPassword_Kept(u) ==
    /\ users[u] # None
    /\ NewPassword
    /\ users' = [users EXCEPT ![u].password = newest']
    /\ UNCHANGED <<sessions, cache, calls, now, changed>>

\* -reset-password: the password and the end of every session are one transaction.
SetPassword(u) ==
    /\ users[u] # None
    /\ NewPassword
    /\ users' = [users EXCEPT ![u].password = newest']
    /\ sessions' = Ended(SessionsOf(u))
    /\ changed' = Changed(SessionsOf(u))
    /\ UNCHANGED <<cache, calls, now>>

\* -set-role
SetRole(u, role) ==
    /\ users[u] # None
    /\ users[u].role # role
    /\ users' = [users EXCEPT ![u].role = role]
    /\ changed' = Changed(SessionsOf(u))
    /\ UNCHANGED <<sessions, newest, cache, calls, now>>

\* -remove-user: the sessions go with the row.
RemoveUser(u) ==
    /\ users[u] # None
    /\ users' = [users EXCEPT ![u] = None]
    /\ sessions' = Ended(SessionsOf(u))
    /\ changed' = Changed(SessionsOf(u))
    /\ UNCHANGED <<newest, cache, calls, now>>

Expired == {t \in Tokens : Live(t) /\ sessions[t].expires < now}

\* PurgeSessions: the answer for an expired session was "no" since it expired.
PurgeSessions ==
    /\ Expired # {}
    /\ sessions' = Ended(Expired)
    /\ changed' = [t \in Tokens |-> IF t \in Expired THEN sessions[t].expires ELSE changed[t]]
    /\ UNCHANGED <<users, newest, cache, calls, now>>

-----------------------------------------------------------------------------
(* The collector: logins and password changes *)

\* Session: a token is valid until it expires.
Valid(t) == Live(t) /\ sessions[t].expires > now

At(k, phase) == calls[k] # None /\ calls[k].phase = phase
Becomes(k, call) == calls' = [calls EXCEPT ![k] = call]
Returns(k) == Becomes(k, None)

\* Login and ChangePassword up to the hash.  The row that checkPassword read is
\* held while the password is hashed; a wrong password, a locked out name or a
\* session that is over ends the call here.
LoginBegins(k, does, u, t) ==
    /\ calls[k] = None
    /\ does = "change" => Valid(t) /\ UserOf(t) = u
    /\ users[u] # None
    /\ Becomes(k, [phase |-> "hashing", does |-> does, user |-> u, token |-> t,
                   id |-> users[u].id, password |-> users[u].password])
    /\ UNCHANGED <<storeVars, cache, now, changed>>

\* The new password is too short, the caller went away or the store fails.
LoginFails(k) ==
    /\ At(k, "hashing")
    /\ Returns(k)
    /\ UNCHANGED <<storeVars, cache, now, changed>>

SameUser(k) == users[calls[k].user] # None /\ users[calls[k].user].id = calls[k].id

\* Login: the session is inserted for the id that was read, if it still exists.
Login(k, t) ==
    /\ At(k, "hashing")
    /\ calls[k].does = "login"
    /\ SameUser(k)
    /\ sessions[t] = Unused
    /\ LET u == calls[k].user
       IN  sessions' = [sessions EXCEPT ![t] =
               [state |-> "live", user |-> u, expires |-> now + SessionTTL,
                password |-> calls[k].password, late |-> users[u].password # calls[k].password]]
    /\ changed' = Changed({t})
    /\ Returns(k)
    /\ UNCHANGED <<users, newest, cache, now>>

\* ChangePassword: the new hash is written for the id that was read, and the
\* user's other sessions end; in one batch.
ChangePassword(k) ==
    /\ At(k, "hashing")
    /\ calls[k].does = "change"
    /\ NewPassword
    /\ LET u == calls[k].user
           t == calls[k].token
           others == SessionsOf(u) \ {t}
       IN  /\ IF SameUser(k)
              THEN /\ users' = [users EXCEPT ![u].password = newest']
                   /\ sessions' = [s \in Tokens |->
                          IF s = t /\ Live(t) THEN [sessions[t] EXCEPT !.password = newest']
                          ELSE Ended(others)[s]]
                   /\ changed' = Changed(others)
              ELSE UNCHANGED <<users, sessions, changed>>
           /\ Becomes(k, [phase |-> "forget", user |-> u, token |-> t])
    /\ UNCHANGED <<cache, now>>

-----------------------------------------------------------------------------
(* The dashboard *)

\* postPassword, once ChangePassword answered.
forgetUser(k) ==
    /\ At(k, "forget")
    /\ cache' = [t \in Tokens |-> IF cache[t] # None /\ cache[t].user = calls[k].user
                                     /\ t # calls[k].token THEN None ELSE cache[t]]
    /\ Returns(k)
    /\ UNCHANGED <<storeVars, now, changed>>

\* postLogout: the dashboard forgets the session before the collector ends it.
forgetSession(k, t) ==
    /\ calls[k] = None
    /\ Live(t)
    /\ cache' = [cache EXCEPT ![t] = None]
    /\ Becomes(k, [phase |-> "logout", token |-> t])
    /\ UNCHANGED <<storeVars, now, changed>>

Logout(k) ==
    /\ At(k, "logout")
    /\ LET gone == {t \in Tokens : Live(t) /\ t = calls[k].token}
       IN  sessions' = Ended(gone) /\ changed' = Changed(gone)
    /\ Returns(k)
    /\ UNCHANGED <<users, newest, cache, now>>

\* The answer to ChangePassword is lost, or Logout never arrives.
CallLost(k) ==
    /\ At(k, "forget") \/ At(k, "logout")
    /\ Returns(k)
    /\ UNCHANGED <<storeVars, cache, now, changed>>

\* authCache.session
Cached(t) == cache[t] # None /\ now <= cache[t].until

Smaller(a, b) == IF a < b THEN a ELSE b

\* Mutant: an answer is kept as long as the session lasts.
Until_Expires(expires) == expires

Until(expires) == Smaller(now + CacheTTL, expires)

\* A browser's request with its cookie, at the first of its checks.  A cookie that
\* neither side takes is refused and changes nothing.
Request(k, t) ==
    /\ calls[k] = None
    /\ Valid(t) \/ Cached(t)
    /\ Becomes(k, [phase |-> "check", check |-> "login", token |-> t])
    /\ UNCHANGED <<storeVars, cache, now, changed>>

Goes(k, check) == Becomes(k, [phase |-> "check", check |-> check, token |-> calls[k].token])

\* The change to a rule, a channel, a task or an agent is on its way to the
\* collector, with its author.
Saves(k, by) == Becomes(k, [phase |-> "save", token |-> calls[k].token, by |-> by])

\* Mutant: the role is not looked at.
Passes_Anyone(k, session) ==
    \/ calls[k].check = "login" /\ Returns(k)
    \/ calls[k].check = "login" /\ Goes(k, "admin")
    \/ calls[k].check = "admin" /\ Goes(k, "sign")
    \/ calls[k].check = "sign" /\ Saves(k, session.user)

\* sessionOf returned a session.  requireLogin, requireAdmin and the handler of a
\* change each call it; what only reads is behind requireLogin.
Passes(k, session) ==
    \/ calls[k].check = "login" /\ Returns(k)
    \/ calls[k].check = "login" /\ Goes(k, "admin")
    \/ calls[k].check = "admin" /\ session.role # "admin" /\ Returns(k)
    \/ calls[k].check = "admin" /\ session.role = "admin" /\ Goes(k, "sign")
    \/ calls[k].check = "sign" /\ Saves(k, session.user)

\* sessionOf returned an error: the request is refused, but the handler of a
\* change goes on without a name.
Fails(k) == IF calls[k].check = "sign" THEN Saves(k, None) ELSE Returns(k)

CacheHit(k) ==
    /\ At(k, "check")
    /\ Cached(calls[k].token)
    /\ Passes(k, cache[calls[k].token])
    /\ UNCHANGED <<storeVars, cache, now, changed>>

\* sessionOf asks the collector.
CheckSession(k) ==
    /\ At(k, "check")
    /\ LET t == calls[k].token
       IN  /\ ~Cached(t)
           /\ Valid(t)
           /\ Becomes(k, [phase |-> "answered", check |-> calls[k].check, token |-> t,
                          user |-> UserOf(t), role |-> users[UserOf(t)].role,
                          expires |-> sessions[t].expires, since |-> now])
    /\ UNCHANGED <<storeVars, cache, now, changed>>

\* The session is not valid, or the collector cannot say.
CheckSessionFails(k) ==
    /\ At(k, "check")
    /\ ~Cached(calls[k].token)
    /\ Fails(k)
    /\ UNCHANGED <<storeVars, cache, now, changed>>

\* The answer arrives and is kept, whatever happened to the session meanwhile.
keepSession(k) ==
    /\ At(k, "answered")
    /\ cache' = [cache EXCEPT ![calls[k].token] =
                    [user |-> calls[k].user, role |-> calls[k].role, until |-> Until(calls[k].expires)]]
    /\ Passes(k, calls[k])
    /\ UNCHANGED <<storeVars, now, changed>>

\* The change is saved, refused or lost: the modules of what it changes say which.
SaveReturns(k) ==
    /\ At(k, "save")
    /\ Returns(k)
    /\ UNCHANGED <<storeVars, cache, now, changed>>

DashboardRestarts ==
    /\ cache' = [t \in Tokens |-> None]
    /\ calls' = [k \in Calls |-> IF At(k, "hashing") THEN calls[k] ELSE None]
    /\ UNCHANGED <<storeVars, now, changed>>

CollectorRestarts ==
    /\ calls' = [k \in Calls |-> IF At(k, "hashing") THEN None ELSE calls[k]]
    /\ UNCHANGED <<storeVars, cache, now, changed>>

\* A request waits for an answer for at most CallTime, and for nothing else.
Tick ==
    /\ now < MaxTime
    /\ \A k \in Calls : /\ ~At(k, "check") /\ ~At(k, "save")
                        /\ At(k, "answered") => now - calls[k].since < CallTime
    /\ now' = now + 1
    /\ UNCHANGED <<storeVars, cache, calls, changed>>

-----------------------------------------------------------------------------
CommandLine ==
    \/ \E u \in Users : \/ SetPassword(u)
                        \/ RemoveUser(u)
                        \/ \E role \in Roles : AddUser(u, role) \/ SetRole(u, role)
    \/ PurgeSessions

Logins ==
    \E k \in Calls :
        \/ \E u \in Users : \/ LoginBegins(k, "login", u, None)
                            \/ \E t \in Tokens : LoginBegins(k, "change", u, t)
        \/ LoginFails(k)
        \/ \E t \in Tokens : Login(k, t)
        \/ ChangePassword(k)
        \/ forgetUser(k)

Browsing ==
    \E k \in Calls :
        \/ \E t \in Tokens : Request(k, t) \/ forgetSession(k, t)
        \/ Logout(k)
        \/ CallLost(k)
        \/ CacheHit(k)
        \/ CheckSession(k)
        \/ CheckSessionFails(k)
        \/ keepSession(k)
        \/ SaveReturns(k)

Next ==
    \/ CommandLine
    \/ Logins
    \/ Browsing
    \/ DashboardRestarts
    \/ CollectorRestarts
    \/ Tick

Spec == Init /\ [][Next]_vars

-----------------------------------------------------------------------------
(* Properties *)

\* What a session says of itself was true until t at the latest.
TrueOrSince(t, session, age) ==
    \/ Live(t) /\ session.user = UserOf(t) /\ session.role = users[UserOf(t)].role
    \/ now <= changed[t] + age

\* "Logging out elsewhere or removing a user takes at most this long to lock a
\* browser or scraper out": whom the dashboard takes a cookie for stopped being
\* true no longer ago than the cache's time and the time the answer was on its
\* way, and a session that expired is no longer taken at all.
StaleAtMost ==
    \A t \in Tokens : Cached(t) => /\ TrueOrSince(t, cache[t], CacheTTL + CallTime)
                                   /\ Live(t) => now <= sessions[t].expires

\* "Set a new password ... and logged them out everywhere": a live session was
\* opened with its user's present password, or by a login that had read the row
\* before the password changed.
SessionsFollowPassword ==
    \A t \in Tokens :
        Live(t) => /\ users[UserOf(t)] # None
                   /\ sessions[t].late \/ sessions[t].password = users[UserOf(t)].password

\* "admins can change them": a change that is on its way to the collector carries
\* its session's user or no name, and comes from an admin, or from someone who was
\* one when the answers its checks used were given.
ChangesByAdmins ==
    \A k \in Calls :
        At(k, "save") => LET t == calls[k].token
                         IN  TrueOrSince(t, [user |-> IF calls[k].by = None THEN UserOf(t) ELSE calls[k].by,
                                             role |-> "admin"], CacheTTL + 2 * CallTime)

=============================================================================

--------------------------- MODULE AnswersProofs ----------------------------
(***************************************************************************)
(* Sessions, for any number of users, tokens and calls, and for every      *)
(* length of a session, of the cache's memory and of a call: an answer of  *)
(* the collector is not used longer than the dashboard may keep it, and    *)
(* who changes something is or was an admin no longer ago than that.       *)
(*                                                                         *)
(* Requests, for any number of requests at one time and every rule and     *)
(* channel that may be sent: a request is answered by what it did, and     *)
(* what is saved can be evaluated, delivered, shown and saved again.       *)
(***************************************************************************)
EXTENDS SessionsProofs, Requests


\* The steps of the dashboard and of the calls, and the clock.
LEMMA DashboardStep ==
    ASSUME SessionsAssumption, AnswersInv, PasswordInv', [Next]_vars,
           ~CommandLine, \A k \in Calls : ~ChangePassword(k) /\ ~Logout(k) /\ \A t \in Tokens : ~Login(k, t)
    PROVE  AnswersInv'
<1>0. /\ LiveOfUsers /\ SessionsFollowPassword /\ changed \in [Tokens -> Nat] /\ now \in Nat /\ DOMAIN cache = Tokens
      /\ sessions \in [Tokens -> SessionRows] /\ DOMAIN calls = Calls /\ users \in [Users -> UserRows \cup {None}]
      /\ CacheTTL \in Nat /\ CallTime \in Nat /\ CacheOK /\ CallsOK
  BY Zenon DEF AnswersInv, PasswordInv, StoreTypeOK, SessionsAssumption
<1>1. ASSUME NEW k \in Calls, NEW call, Becomes(k, call), Sound(call), UNCHANGED <<storeVars, changed, now>>,
             DOMAIN cache' = Tokens, \A t \in Tokens : cache'[t] = cache[t] \/ cache'[t] = None
      PROVE  AnswersInv'
  <2>1. \A j \in Calls : calls'[j] = calls[j] \/ Sound(calls'[j])
    BY <1>0, <1>1, CallGoesOn
  <2> QED
    BY <1>1, <2>1, CallKeepsAnswers, Zenon
<1>2. Sound(None)
  BY Zenon DEF Sound
<1>3. ASSUME NEW k \in Calls, NEW does, NEW u, NEW t, LoginBegins(k, does, u, t)
      PROVE  AnswersInv'
  <2> DEFINE call == [phase |-> "hashing", does |-> does, user |-> u, token |-> t,
                      id |-> users[u].id, password |-> users[u].password]
  <2>1. Sound(call)
    BY Zenon DEF Sound
  <2> QED
    BY <1>0, <1>1, <1>3, <2>1, Zenon DEF LoginBegins
<1>4. ASSUME NEW k \in Calls, LoginFails(k) \/ CallLost(k) \/ SaveReturns(k)
      PROVE  AnswersInv'
  BY <1>0, <1>1, <1>2, <1>4, Zenon DEF LoginFails, CallLost, SaveReturns, Returns
<1>5. ASSUME NEW k \in Calls, forgetUser(k)
      PROVE  AnswersInv'
  <2>1. DOMAIN cache' = Tokens /\ \A t \in Tokens : cache'[t] = cache[t] \/ cache'[t] = None
    BY <1>5, Zenon DEF forgetUser
  <2> QED
    BY <1>1, <1>2, <1>5, <2>1, Zenon DEF forgetUser, Returns
<1>6. ASSUME NEW k \in Calls, NEW t \in Tokens, forgetSession(k, t)
      PROVE  AnswersInv'
  <2>1. DOMAIN cache' = Tokens /\ \A s \in Tokens : cache'[s] = cache[s] \/ cache'[s] = None
    BY <1>0, <1>6, Zenon DEF forgetSession
  <2>2. Sound([phase |-> "logout", token |-> t])
    BY Zenon DEF Sound
  <2> QED
    BY <1>1, <1>6, <2>1, <2>2, Zenon DEF forgetSession
<1>7. ASSUME NEW k \in Calls, NEW t \in Tokens, Request(k, t)
      PROVE  AnswersInv'
  <2>1. Known(t)
    BY <1>0, <1>7, Zenon DEF Request, Valid, Cached, Live, CacheOK, Kept, Known
  <2>2. Sound([phase |-> "check", check |-> "login", token |-> t])
    BY <2>1, Zenon DEF Sound, Checking
  <2> QED
    BY <1>0, <1>1, <1>7, <2>2, Zenon DEF Request
<1>8. ASSUME NEW k \in Calls, At(k, "check")
      PROVE  Checking(calls[k]) /\ calls[k].token \in Tokens /\ changed[calls[k].token] \in Nat
             /\ sessions[calls[k].token].expires \in Nat
  BY <1>0, <1>8, Zenon DEF CallsOK, Sound, At, Checking, Known, SessionRows
<1>9. ASSUME NEW k \in Calls, CheckSessionFails(k)
      PROVE  AnswersInv'
  <2>1. At(k, "check") /\ Fails(k) /\ UNCHANGED <<storeVars, cache, now, changed>>
    BY <1>9, Zenon DEF CheckSessionFails
  <2>2. CASE calls[k].check = "sign"
    <3> DEFINE t == calls[k].token
               call == [phase |-> "save", token |-> t, by |-> None]
    <3>1. Known(t) /\ (Live(t) => now <= sessions[t].expires + CallTime) /\ AdminUntil(t, now, CacheTTL + CallTime)
      BY <1>8, <2>1, <2>2, Zenon DEF Checking
    <3>2. AdminUntil(t, now, CacheTTL + 2 * CallTime)
      BY <1>0, <1>8, <2>1, <3>1 DEF AdminUntil
    <3>3. SavesAsAdmin(call)
      BY <3>1, <3>2, Zenon DEF SavesAsAdmin
    <3>4. Sound(call) /\ Becomes(k, call)
      BY <2>1, <2>2, <3>3, Zenon DEF Sound, Fails, Saves
    <3> QED
      BY <1>0, <1>1, <2>1, <3>4, Zenon
  <2>3. CASE calls[k].check # "sign"
    BY <1>0, <1>1, <1>2, <2>1, <2>3, Zenon DEF Fails, Returns
  <2> QED
    BY <2>2, <2>3, Zenon
<1>10. ASSUME NEW k \in Calls, CheckSession(k)
       PROVE  AnswersInv'
  <2> DEFINE t == calls[k].token
             call == [phase |-> "answered", check |-> calls[k].check, token |-> t,
                      user |-> UserOf(t), role |-> users[UserOf(t)].role,
                      expires |-> sessions[t].expires, since |-> now]
  <2>1. /\ At(k, "check") /\ Live(t) /\ sessions[t].expires > now /\ Becomes(k, call)
        /\ UNCHANGED <<storeVars, cache, now, changed>>
    BY <1>10, Zenon DEF CheckSession, Valid
  <2>2. /\ Known(t) /\ sessions[t].expires \in Nat /\ t \in Tokens
        /\ calls[k].check = "sign" => AdminUntil(t, now, CacheTTL + CallTime)
    BY <1>8, <2>1, Zenon DEF Checking
  <2>3. UserOf(t) \in Users /\ users[UserOf(t)] \in UserRows
    BY <1>0, <2>1, <2>2, Zenon DEF LiveOfUsers, SessionsFollowPassword
  <2>4. UserOf(t) \in Users /\ users[UserOf(t)].role \in Roles
    BY <2>3, Zenon DEF UserRows
  <2>5. Answered(call)
    BY <1>0, <2>1, <2>2, <2>4 DEF Answered, TrueOf
  <2>6. Sound(call)
    BY <2>5, Zenon DEF Sound
  <2> QED
    BY <1>0, <1>1, <2>1, <2>6, Zenon
<1>11. ASSUME NEW k \in Calls, CacheHit(k)
       PROVE  AnswersInv'
  <2> DEFINE t == calls[k].token
  <2>1. At(k, "check") /\ Cached(t) /\ Passes(k, cache[t]) /\ UNCHANGED <<storeVars, cache, now, changed>>
    BY <1>11, Zenon DEF CacheHit
  <2>2. Checking(calls[k]) /\ t \in Tokens /\ changed[t] \in Nat /\ sessions[t].expires \in Nat
    BY <1>8, <2>1, Zenon
  <2>3. Kept(t, cache[t]) /\ now <= cache[t].until /\ cache[t].until \in Nat /\ cache[t].user \in Users
    BY <1>0, <2>1, <2>2, Zenon DEF Cached, CacheOK, Kept, CacheRows
  <2>4. TrueOf(t, cache[t]) \/ now <= changed[t] + CacheTTL + CallTime
    BY <1>0, <2>2, <2>3 DEF Kept
  <2>5. Live(t) => now <= sessions[t].expires + CallTime
    BY <1>0, <2>2, <2>3 DEF Kept
  <2>6. calls[k].check = "sign" => AdminUntil(t, now, CacheTTL + 2 * CallTime)
    BY <1>0, <2>2 DEF Checking, AdminUntil
  <2>7. \A j \in Calls : calls'[j] = calls[j] \/ Sound(calls'[j])
    BY <1>0, <2>1, <2>3, <2>4, <2>5, <2>6, PassesSound, Zenon DEF Kept
  <2> QED
    BY <1>0, <2>1, <2>7, CallKeepsAnswers, Zenon
<1>12. ASSUME NEW k \in Calls, keepSession(k)
       PROVE  AnswersInv'
  <2> DEFINE t == calls[k].token
             row == [user |-> calls[k].user, role |-> calls[k].role, until |-> Until(calls[k].expires)]
  <2>1. /\ At(k, "answered") /\ cache' = [cache EXCEPT ![t] = row] /\ Passes(k, calls[k])
        /\ UNCHANGED <<storeVars, now, changed>>
    BY <1>12, Zenon DEF keepSession
  <2>2. Answered(calls[k])
    BY <1>0, <2>1, Zenon DEF CallsOK, Sound, At
  <2>3. /\ Known(t) /\ t \in Tokens /\ changed[t] \in Nat /\ sessions[t].expires \in Nat
        /\ calls[k].since \in Nat /\ calls[k].expires \in Nat /\ calls[k].user \in Users /\ calls[k].role \in Roles
        /\ now <= calls[k].since + CallTime
    BY <1>0, <2>2, Zenon DEF Answered, Known, SessionRows
  <2>4. TrueOf(t, calls[k]) \/ calls[k].since <= changed[t]
    BY <2>2, Zenon DEF Answered
  <2>5. Live(t) => now <= sessions[t].expires + CallTime
    BY <1>0, <2>2, <2>3 DEF Answered
  <2>6. calls[k].check = "sign" => AdminUntil(t, now, CacheTTL + 2 * CallTime)
    BY <1>0, <2>2, <2>3 DEF Answered, AdminUntil
  <2>7. TrueOf(t, calls[k]) \/ now <= changed[t] + CacheTTL + CallTime
    BY <1>0, <2>3, <2>4
  <2>8. \A j \in Calls : calls'[j] = calls[j] \/ Sound(calls'[j])
    BY <1>0, <2>1, <2>3, <2>5, <2>6, <2>7, PassesSound, Zenon
  <2>9. /\ Until(calls[k].expires) \in Nat /\ Until(calls[k].expires) <= now + CacheTTL
        /\ Until(calls[k].expires) <= calls[k].expires
    BY <1>0, <2>3 DEF Until, Smaller
  <2>10. Kept(t, row)
    <3>1. row \in CacheRows
      BY <2>3, <2>9, Zenon DEF CacheRows
    <3>2. TrueOf(t, row) \/ row.until <= changed[t] + CacheTTL + CallTime
      BY <1>0, <2>3, <2>4, <2>9 DEF TrueOf
    <3>3. Live(t) => row.until <= sessions[t].expires
      BY <2>2, <2>3, <2>9, Zenon DEF Answered
    <3> QED
      BY <2>3, <2>9, <3>1, <3>2, <3>3, Zenon DEF Kept
  <2>11. DOMAIN cache' = Tokens /\ \A s \in Tokens : cache'[s] = cache[s] \/ Kept(s, cache'[s])
    BY <1>0, <2>1, <2>3, <2>10, Zenon
  <2> QED
    BY <2>1, <2>8, <2>11, CallKeepsAnswers, Zenon
<1>13. CASE DashboardRestarts
  <2>1. DOMAIN cache' = Tokens /\ \A t \in Tokens : cache'[t] = None
    BY <1>13, Zenon DEF DashboardRestarts
  <2>2. \A k \in Calls : calls'[k] = calls[k] \/ Sound(calls'[k])
    BY <1>2, <1>13, Zenon DEF DashboardRestarts
  <2> QED
    BY <1>13, <2>1, <2>2, CallKeepsAnswers, Zenon DEF DashboardRestarts
<1>14. CASE CollectorRestarts
  <2>1. \A k \in Calls : calls'[k] = calls[k] \/ Sound(calls'[k])
    BY <1>2, <1>14, Zenon DEF CollectorRestarts
  <2> QED
    BY <1>0, <1>14, <2>1, CallKeepsAnswers, Zenon DEF CollectorRestarts
<1>15. CASE Tick
  <2>1. UNCHANGED <<users, sessions, cache, calls, changed>> /\ now' = now + 1
    BY <1>15, Zenon DEF Tick, storeVars
  <2>2. CacheOK'
    <3> SUFFICES ASSUME NEW t \in Tokens, cache[t] # None
                 PROVE  Kept(t, cache[t])'
      BY <2>1, Zenon DEF CacheOK
    <3>1. Kept(t, cache[t]) /\ cache[t].until \in Nat
      BY <1>0, Zenon DEF CacheOK, Kept, CacheRows
    <3>2. cache[t].until <= now' + CacheTTL
      BY <1>0, <2>1, <3>1 DEF Kept
    <3> QED
      BY <2>1, <3>1, <3>2, Zenon DEF Kept, TrueOf, Live, UserOf, Known
  <2>3. CallsOK'
    <3> SUFFICES ASSUME NEW k \in Calls
                 PROVE  Sound(calls[k])'
      BY Zenon DEF CallsOK
    <3>1. CASE At(k, "answered")
      <4>1. Answered(calls[k]) /\ now - calls[k].since < CallTime
        BY <1>0, <1>15, <3>1, Zenon DEF CallsOK, Sound, At, Tick
      <4>2. calls[k].since <= now' /\ now' <= calls[k].since + CallTime
        BY <1>0, <2>1, <4>1 DEF Answered
      <4>3. Answered(calls[k])'
        BY <2>1, <4>1, <4>2, Zenon DEF Answered, AdminUntil, TrueOf, Live, UserOf, Known
      <4> QED
        BY <2>1, <3>1, <4>3, Zenon DEF Sound, At
    <3>2. CASE ~At(k, "answered")
      BY <1>15, <2>1, <3>2, Zenon DEF Sound, At, Tick
    <3> QED
      BY <3>1, <3>2
  <2> QED
    BY <1>0, <2>1, <2>2, <2>3, Zenon DEF AnswersInv
<1>16. CASE UNCHANGED vars
  BY <1>0, <1>16, CallKeepsAnswers, Zenon DEF vars
<1> QED
  <2>1. CASE Logins
    BY <1>3, <1>4, <1>5, <2>1, Zenon DEF Logins
  <2>2. CASE Browsing
    BY <1>4, <1>6, <1>7, <1>9, <1>10, <1>11, <1>12, <2>2, Zenon DEF Browsing
  <2> QED
    BY <1>13, <1>14, <1>15, <1>16, <2>1, <2>2, Zenon DEF Next

LEMMA AnswersStep ==
    ASSUME SessionsAssumption, AnswersInv, [Next]_vars
    PROVE  AnswersInv'
<1>1. PasswordInv'
  BY PasswordStep DEF AnswersInv
<1> QED
  BY <1>1, StoreStep, DashboardStep, Zenon

LEMMA AnswersInvInitially ==
    ASSUME SessionsAssumption, Init
    PROVE  AnswersInv
<1>1. PasswordInv
  BY PasswordInvInitially
<1>2. CacheOK /\ CallsOK /\ DOMAIN cache = Tokens /\ changed \in [Tokens -> Nat]
  BY Zenon DEF Init, CacheOK, CallsOK, Sound
<1> QED
  BY <1>1, <1>2 DEF AnswersInv

LEMMA AnswersAreFresh ==
    ASSUME SessionsAssumption, AnswersInv
    PROVE  StaleAtMost /\ ChangesByAdmins
<1>0. /\ changed \in [Tokens -> Nat] /\ now \in Nat /\ sessions \in [Tokens -> SessionRows]
      /\ CacheTTL \in Nat /\ CallTime \in Nat /\ CacheOK /\ CallsOK
  BY Zenon DEF AnswersInv, PasswordInv, StoreTypeOK, SessionsAssumption
<1>1. StaleAtMost
  <2> SUFFICES ASSUME NEW t \in Tokens, Cached(t)
               PROVE  /\ TrueOrSince(t, cache[t], CacheTTL + CallTime)
                      /\ Live(t) => now <= sessions[t].expires
    BY Zenon DEF StaleAtMost
  <2>1. Kept(t, cache[t]) /\ now <= cache[t].until /\ cache[t].until \in Nat
    BY <1>0, Zenon DEF Cached, CacheOK, Kept, CacheRows
  <2>2. changed[t] \in Nat /\ sessions[t].expires \in Nat
    BY <1>0, Zenon DEF SessionRows
  <2>3. TrueOrSince(t, cache[t], CacheTTL + CallTime)
    BY <1>0, <2>1, <2>2 DEF Kept, TrueOf, TrueOrSince
  <2>4. Live(t) => now <= sessions[t].expires
    BY <1>0, <2>1, <2>2 DEF Kept
  <2> QED
    BY <2>3, <2>4, Zenon
<1>2. ChangesByAdmins
  <2> SUFFICES ASSUME NEW k \in Calls, At(k, "save")
               PROVE  TrueOrSince(calls[k].token,
                                  [user |-> IF calls[k].by = None THEN UserOf(calls[k].token) ELSE calls[k].by,
                                   role |-> "admin"], CacheTTL + 2 * CallTime)
    BY Zenon DEF ChangesByAdmins
  <2> DEFINE t == calls[k].token
  <2>1. SavesAsAdmin(calls[k])
    BY <1>0, Zenon DEF CallsOK, Sound, At
  <2>2. changed[t] \in Nat
    BY <1>0, <2>1, Zenon DEF SavesAsAdmin, Known
  <2>3. now <= changed[t] + CacheTTL + 2 * CallTime => now <= changed[t] + (CacheTTL + 2 * CallTime)
    BY <1>0, <2>2
  <2>4. CASE now <= changed[t] + (CacheTTL + 2 * CallTime)
    BY <2>4, Zenon DEF TrueOrSince
  <2>5. CASE ~(now <= changed[t] + (CacheTTL + 2 * CallTime))
    <3>1. Live(t) /\ users[UserOf(t)].role = "admin" /\ (calls[k].by # None => calls[k].by = UserOf(t))
      BY <2>1, <2>3, <2>5, Zenon DEF SavesAsAdmin, AdminUntil
    <3> QED
      BY <3>1, Zenon DEF TrueOrSince
  <2> QED
    BY <2>4, <2>5, Zenon
<1> QED
  BY <1>1, <1>2

\* authCache keeps an answer of CheckSession for a while: for every length of that while,
\* of a call and of a session, whom the dashboard takes a cookie for stopped being true no
\* longer ago than the cache's time and a call's, and not at all past the session's end.
THEOREM AnswersAreStaleAtMost == Spec => []StaleAtMost
<1>1. Init => AnswersInv
  BY SessionsAssumption, AnswersInvInitially
<1>2. AnswersInv /\ [Next]_vars => AnswersInv'
  BY SessionsAssumption, AnswersStep
<1>3. AnswersInv => StaleAtMost
  BY SessionsAssumption, AnswersAreFresh
<1> QED
  BY <1>1, <1>2, <1>3, PTL DEF Spec

\* requireLogin, requireAdmin and the handler each ask sessionOf: a change that is sent to the
\* collector comes from an admin under their own name or none, or from someone who was one no
\* longer ago than the cache's time and two calls'.
THEOREM AdminsMakeChanges == Spec => []ChangesByAdmins
<1>1. Init => AnswersInv
  BY SessionsAssumption, AnswersInvInitially
<1>2. AnswersInv /\ [Next]_vars => AnswersInv'
  BY SessionsAssumption, AnswersStep
<1>3. AnswersInv => ChangesByAdmins
  BY SessionsAssumption, AnswersAreFresh
<1> QED
  BY <1>1, <1>2, <1>3, PTL DEF Spec

-----------------------------------------------------------------------------
(* Requests: the answers *)

\* The answers there are, by what went wrong.
LEMMA Codes ==
    /\ Failed("ErrNotFound") = 404 /\ Failed("ErrInvalid") = 400
    /\ Failed("ErrRuleExists") = 409 /\ Failed("ErrChannelExists") = 409
    /\ Failed("canceled") = 499 /\ Failed("deadline") = 502 /\ Failed("other") = 500
    /\ writeGRPCError("InvalidArgument") = 400 /\ writeGRPCError("FailedPrecondition") = 409
<1>1. /\ toStatus("ErrNotFound") = "NotFound" /\ toStatus("ErrInvalid") = "InvalidArgument"
      /\ toStatus("ErrRuleExists") = "AlreadyExists" /\ toStatus("ErrChannelExists") = "AlreadyExists"
      /\ toStatus("canceled") = "Canceled" /\ toStatus("deadline") = "DeadlineExceeded"
      /\ toStatus("other") = "Internal"
  BY Zenon DEF toStatus
<1>2. /\ writeGRPCError("NotFound") = 404 /\ writeGRPCError("InvalidArgument") = 400
      /\ writeGRPCError("AlreadyExists") = 409 /\ writeGRPCError("FailedPrecondition") = 409
      /\ writeGRPCError("Canceled") = 499 /\ writeGRPCError("DeadlineExceeded") = 502
      /\ writeGRPCError("Internal") = 500
  BY DEF writeGRPCError
<1> QED BY <1>1, <1>2 DEF Failed

LEMMA RuleErrors ==
    ASSUME NEW form, NEW id
    PROVE  /\ RuleError(form, id) \in {"ErrInvalid", "ErrNotFound", "ErrRuleExists", "none"}
           /\ RuleError(form, id) = "none" =>
                 /\ Validate(form) /\ ~Taken(savedRules, form.name, id)
                 /\ id = 0 \/ id \in DOMAIN savedRules
BY Zenon DEF RuleError

LEMMA ChannelErrors ==
    ASSUME NEW form, NEW id
    PROVE  /\ ChannelError(form, id) \in {"ErrChannelExists", "ErrNotFound", "none"}
           /\ ChannelError(form, id) = "none" =>
                 /\ id = 0 => ~Taken(savedChannels, form.name, 0)
                 /\ id # 0 => id \in DOMAIN savedChannels
BY Zenon DEF ChannelError

\* An answer that says no more than what was done.
Honest(code, done) ==
    /\ code \in {200, 201} => done
    /\ code \in {400, 404, 409, 415} => ~done

\* The answers to a request that failed, and to one that worked.
Refusals == {400, 404, 409}
Agreed == {200, 201}

LEMMA EndsHonestly ==
    ASSUME NEW r, NEW code, NEW done, Ends(r, code, done), Honest(code, done)
    PROVE  AnswersTrue'
<1>1. CASE answered' = [code |-> code, done |-> done, saved |-> request[r].saved]
  <2>1. answered'.code = code /\ answered'.done = done
    BY <1>1
  <2>2. /\ code \in {200, 201} => done
        /\ code \in {400, 409, 415} => ~done
        /\ ~(code = 404 /\ done)
    BY DEF Honest
  <2> QED BY <2>1, <2>2 DEF AnswersTrue
<1>2. CASE answered' = NoAnswer
  <2>1. answered'.code = 0
    BY <1>2, Zenon DEF NoAnswer
  <2> QED BY <2>1 DEF AnswersTrue
<1> QED BY <1>1, <1>2, Zenon DEF Ends

LEMMA EndsRefused ==
    ASSUME NEW r, NEW code \in Refusals, Ends(r, code, FALSE)
    PROVE  AnswersTrue'
<1>1. Honest(code, FALSE)
  BY DEF Honest, Refusals
<1> QED BY <1>1, EndsHonestly, Zenon

LEMMA EndsAgreed ==
    ASSUME NEW r, NEW code \in Agreed, Ends(r, code, TRUE)
    PROVE  AnswersTrue'
<1>1. Honest(code, TRUE)
  BY DEF Honest, Agreed
<1> QED BY <1>1, EndsHonestly, Zenon

LEMMA GoesOnSilently ==
    ASSUME answered' = NoAnswer
    PROVE  AnswersTrue'
<1>1. answered'.code = 0
  BY Zenon DEF NoAnswer
<1>2. 0 \notin {200, 201} /\ 0 \notin {400, 409, 415} /\ 0 # 404
  OBVIOUS
<1> QED BY <1>1, <1>2, Zenon DEF AnswersTrue

LEMMA AnswerGiven ==
    ASSUME RequestsNext
    PROVE  AnswersTrue'
<1>1. /\ Failed("ErrNotFound") \in Refusals /\ Failed("ErrInvalid") \in Refusals
      /\ Failed("ErrRuleExists") \in Refusals /\ Failed("ErrChannelExists") \in Refusals
      /\ writeGRPCError("InvalidArgument") \in Refusals /\ writeGRPCError("FailedPrecondition") \in Refusals
      /\ 200 \in Agreed
  BY Codes DEF Refusals, Agreed
<1>2. ASSUME NEW r \in Slots, NEW op, NEW id, NEW form, Arrives(r, op, id, form) PROVE AnswersTrue'
  BY <1>2, GoesOnSilently, Zenon DEF Arrives, Continues
<1>3. ASSUME NEW r, NEW next, Continues(r, next) PROVE AnswersTrue'
  BY <1>3, GoesOnSilently, Zenon DEF Continues
<1>4. ASSUME NEW r, Ends(r, Worked(r), TRUE) PROVE AnswersTrue'
  <2>1. Worked(r) \in Agreed
    BY DEF Worked, Agreed
  <2> QED BY <1>4, <2>1, EndsAgreed, Zenon
<1>5. ASSUME NEW r, Ends(r, 200, TRUE) PROVE AnswersTrue'
  <2>1. PICK code : code = 200
    BY Zenon
  <2>2. code \in Agreed
    BY <2>1 DEF Agreed
  <2>3. Ends(r, code, TRUE)
    BY <1>5, <2>1, Zenon
  <2> QED BY <2>2, <2>3, EndsAgreed, Zenon
<1>6. ASSUME NEW r, NEW code \in Refusals, Ends(r, code, FALSE) PROVE AnswersTrue'
  BY <1>6, EndsRefused, Zenon
<1>7. ASSUME NEW r \in Slots, SaveRuleChecks(r) \/ DeleteRuleWrites(r) \/ SaveChannelReads(r)
             \/ DeleteChannelReads(r) \/ DeleteChannelWrites(r) \/ TestChannelReads(r) \/ TestChannelSends(r)
      PROVE  AnswersTrue'
  <2>1. PICK ok : ok = 200
    BY Zenon
  <2>2. \/ \E next : Continues(r, next)
        \/ Ends(r, ok, TRUE)
        \/ \E code \in Refusals : Ends(r, code, FALSE)
    <3>1. CASE SaveRuleChecks(r)
      BY <1>1, <3>1, Zenon DEF SaveRuleChecks
    <3>2. CASE DeleteRuleWrites(r)
      BY <1>1, <2>1, <3>2, Zenon DEF DeleteRuleWrites
    <3>3. CASE SaveChannelReads(r)
      BY <1>1, <3>3, Zenon DEF SaveChannelReads
    <3>4. CASE DeleteChannelReads(r)
      BY <1>1, <3>4, Zenon DEF DeleteChannelReads
    <3>5. CASE DeleteChannelWrites(r)
      BY <1>1, <2>1, <3>5, Zenon DEF DeleteChannelWrites
    <3>6. CASE TestChannelReads(r)
      BY <1>1, <2>1, <3>6, Zenon DEF TestChannelReads
    <3>7. CASE TestChannelSends(r)
      BY <2>1, <3>7, Zenon DEF TestChannelSends
    <3> QED BY <1>7, <3>1, <3>2, <3>3, <3>4, <3>5, <3>6, <3>7, Zenon
  <2>3. Ends(r, ok, TRUE) => Ends(r, 200, TRUE)
    BY <2>1, Zenon
  <2> QED BY <1>3, <1>5, <1>6, <2>2, <2>3, Zenon
<1>8. ASSUME NEW r \in Slots, SaveRuleWrites(r) PROVE AnswersTrue'
  <2>1. PICK err : err = RuleError(request[r].form, request[r].id)
    BY Zenon
  <2>2. err # "none" => Failed(err) \in Refusals
    BY <1>1, <2>1, RuleErrors, Zenon
  <2>3. \/ err # "none" /\ Ends(r, Failed(err), FALSE)
        \/ Ends(r, Worked(r), TRUE)
    BY <1>8, <2>1, Zenon DEF SaveRuleWrites
  <2> QED BY <1>4, <1>6, <2>2, <2>3, Zenon
<1>9. ASSUME NEW r \in Slots, SaveChannelWrites(r) PROVE AnswersTrue'
  <2>1. PICK err : err = ChannelError(request[r].form, request[r].id)
    BY Zenon
  <2>2. err # "none" => Failed(err) \in Refusals
    BY <1>1, <2>1, ChannelErrors, Zenon
  <2>3. \/ err # "none" /\ Ends(r, Failed(err), FALSE)
        \/ answered' = NoAnswer
    BY <1>9, <2>1, Zenon DEF SaveChannelWrites, Continues
  <2> QED BY <1>6, <2>2, <2>3, GoesOnSilently, Zenon
<1>10. ASSUME NEW r \in Slots, SaveChannelRereads(r) PROVE AnswersTrue'
  <2>1. CASE request[r].saved \in DOMAIN savedChannels
    BY <1>4, <1>10, <2>1, Zenon DEF SaveChannelRereads
  <2>2. CASE request[r].saved \notin DOMAIN savedChannels
    <3>1. Ends(r, 404, TRUE) /\ savedChannels' = savedChannels
      BY <1>10, <2>2, Codes, Zenon DEF SaveChannelRereads
    <3>2. CASE answered' = NoAnswer
      BY <3>2, GoesOnSilently, Zenon
    <3>3. CASE answered' = [code |-> 404, done |-> TRUE, saved |-> request[r].saved]
      <4>1. answered'.code = 404 /\ answered'.saved = request[r].saved
        BY <3>3
      <4>2. 404 \notin {200, 201} /\ 404 \notin {400, 409, 415}
        OBVIOUS
      <4> QED BY <2>2, <3>1, <4>1, <4>2, Zenon DEF AnswersTrue
    <3> QED BY <3>1, <3>2, <3>3, Zenon DEF Ends
  <2> QED BY <2>1, <2>2, Zenon
<1>11. ASSUME NEW r \in Slots, NEW err \in {"canceled", "deadline", "other"}, StatementFails(r, err)
       PROVE  AnswersTrue'
  <2>1. Honest(Failed(err), Wrote(r))
    BY <1>11, Codes DEF Honest
  <2> QED BY <1>11, <2>1, EndsHonestly, Zenon DEF StatementFails
<1>12. ASSUME NEW r \in Slots, NEW code \in {400, 404, 415}, Refused(r, code) PROVE AnswersTrue'
  <2>1. answered'.code = code /\ answered'.done = FALSE
    BY <1>12 DEF Refused, NoAnswer
  <2>2. code \notin {200, 201}
    BY <1>12
  <2> QED BY <2>1, <2>2, Zenon DEF AnswersTrue
<1>13. ASSUME NEW form, ImportRules(form) PROVE AnswersTrue'
  BY <1>13, GoesOnSilently, Zenon DEF ImportRules
<1> QED BY <1>2, <1>7, <1>8, <1>9, <1>10, <1>11, <1>12, <1>13 DEF RequestsNext, Asks, Handler

\* Whatever handlers interleave: 200 and 201 say that it was done, 400, 409 and 415 that
\* nothing was, and 404 after a channel was saved that it is gone again.
THEOREM AnswersAreTrue == RequestsSpec => []AnswersTrue
<1>1. RequestsInit => AnswersTrue
  <2> SUFFICES ASSUME RequestsInit PROVE AnswersTrue
    OBVIOUS
  <2>1. answered.code = 0
    BY Zenon DEF RequestsInit, NoAnswer
  <2>2. 0 \notin {200, 201} /\ 0 \notin {400, 409, 415} /\ 0 # 404
    OBVIOUS
  <2> QED BY <2>1, <2>2, Zenon DEF AnswersTrue
<1>2. AnswersTrue /\ [RequestsNext]_requestVars => AnswersTrue'
  BY AnswerGiven DEF requestVars, AnswersTrue
<1> QED BY <1>1, <1>2, PTL DEF RequestsSpec

-----------------------------------------------------------------------------
(* Requests: what is saved *)

\* A channel's form: its fields, and a value for each of its secrets.
Formed(f) ==
    /\ f = [name |-> f.name, kind |-> f.kind, right |-> f.right, secret |-> f.secret]
    /\ f.secret = [s \in DOMAIN f.secret |-> f.secret[s]]

\* A request that is being handled.
Shaped(q) ==
    /\ q = [op |-> q.op, id |-> q.id, form |-> q.form, at |-> q.at, kept |-> q.kept, saved |-> q.saved]
    /\ q.id \in Nat

\* The channel q is about to write or to delete is the one it read: ids are never given
\* out twice and a channel keeps its name.
SameChannel(q) == q.id <= channelIds /\ (q.id \in DOMAIN savedChannels => q.form.name = NameOf(q.id))

\* No rule picks the channel that is about to be deleted, or it did so too late.
NotPicked(n) == \A i \in DOMAIN savedRules : n \in savedRules[i].channels => n \in excused

\* What a handler knows after its first statement.
Pending(q) ==
    /\ Shaped(q)
    /\ q.op = "SaveRule" => q.form \in RuleForms
    /\ q.op = "SaveRule" /\ q.at = "write" => q.form.channels \subseteq ChannelNames \cup excused
    /\ q.op = "SaveChannel" /\ q.at \in {"begin", "write"} => Formed(q.form)
    /\ q.op = "SaveChannel" /\ q.at = "write" => Parse(q.form) /\ SameChannel(q)
    /\ q.op = "DeleteChannel" /\ q.at = "write" => SameChannel(q) /\ NotPicked(q.form.name)

\* The saved rules.
RuleRows ==
    /\ ruleIds \in Nat /\ 0 \notin DOMAIN savedRules
    /\ \A i \in DOMAIN savedRules :
          /\ savedRules[i] \in RuleForms /\ Validate(savedRules[i])
          /\ savedRules[i].channels \subseteq ChannelNames \cup excused
          /\ \A j \in DOMAIN savedRules : savedRules[i].name = savedRules[j].name => i = j

\* The saved channels.
ChannelRows ==
    /\ channelIds \in Nat /\ DOMAIN savedChannels \subseteq 1 .. channelIds
    /\ \A c \in DOMAIN savedChannels :
          /\ Formed(savedChannels[c]) /\ Parse(savedChannels[c])
          /\ \A d \in DOMAIN savedChannels : NameOf(c) = NameOf(d) => c = d

\* The requests.
Underway ==
    /\ DOMAIN request = Slots
    /\ \A r \in Slots : request[r] = Idle \/ Pending(request[r])

RequestsInv == RuleRows /\ ChannelRows /\ Underway

-----------------------------------------------------------------------------
(* What the checks leave *)

\* Validate leaves no rule without a field the evaluator reads.
LEMMA JudgedIsValid ==
    ASSUME RequestsAssumption, NEW f \in RuleForms, Validate(f)
    PROVE  Judges(f.metric) \subseteq f.right
<1>1. "known MetricName" \notin f.right
  BY Zenon DEF RequestsAssumption
<1>2. Needs(f.metric) \subseteq f.right
  BY Zenon DEF Validate
<1>3. Judges(f.metric) \subseteq Needs(f.metric) \/ "known MetricName" \in Needs(f.metric)
  BY Zenon DEF Judges, Needs
<1> QED BY <1>1, <1>2, <1>3, Zenon

\* A page that is saved as it is shown changes nothing.
LEMMA ShownIsKept ==
    ASSUME NEW f, Formed(f), Parse(f)
    PROVE  /\ KeepSecrets(f, Redact(f)) = f
           /\ \A s \in DOMAIN Redact(f).secret : Redact(f).secret[s] = Blank
<1>1. PICK n, k, t, x : f = [name |-> n, kind |-> k, right |-> t, secret |-> x]
  BY Zenon DEF Formed
<1>2. f.name = n /\ f.kind = k /\ f.right = t /\ f.secret = x
  BY <1>1
<1>3. x = [s \in DOMAIN x |-> x[s]] /\ DOMAIN x \subseteq secrets[k]
  BY <1>2, Zenon DEF Formed, Parse
<1>4. PICK b : b = [s \in DOMAIN x |-> Blank]
  BY Zenon
<1>5. Redact(f) = [name |-> n, kind |-> k, right |-> t, secret |-> b]
  BY <1>1, <1>2, <1>4 DEF Redact
<1>6. PICK g : g = Redact(f)
  BY Zenon
<1>7. g.kind = k /\ g.secret = b /\ DOMAIN b = DOMAIN x /\ \A s \in DOMAIN x : b[s] = Blank
  BY <1>4, <1>5, <1>6
<1>8. \A s \in DOMAIN x : Secret(g, s) = Blank /\ Secret(f, s) = x[s] /\ s \in secrets[g.kind]
  BY <1>2, <1>3, <1>7, Zenon DEF Secret
<1>9. [s \in DOMAIN g.secret \cup DOMAIN f.secret |->
          IF Secret(g, s) = Blank /\ s \in secrets[g.kind] THEN Secret(f, s) ELSE Secret(g, s)] = x
  <2>1. DOMAIN g.secret \cup DOMAIN f.secret = DOMAIN x
    BY <1>2, <1>7, Zenon
  <2>2. \A s \in DOMAIN x :
          (IF Secret(g, s) = Blank /\ s \in secrets[g.kind] THEN Secret(f, s) ELSE Secret(g, s)) = x[s]
    BY <1>8, Zenon
  <2> QED BY <1>3, <2>1, <2>2
<1>10. KeepSecrets(f, g) = [g EXCEPT !.secret = x]
  BY <1>9, Zenon DEF KeepSecrets
<1>11. [g EXCEPT !.secret = x] = f
  BY <1>1, <1>5, <1>6
<1> QED BY <1>6, <1>7, <1>10, <1>11, Zenon

\* A channel that is filled in from the saved one is a channel of that name.
LEMMA FilledIn ==
    ASSUME NEW f, NEW g, Formed(f), NEW h, h = KeepSecrets(g, [f EXCEPT !.name = g.name, !.kind = g.kind])
    PROVE  Formed(h) /\ h.name = g.name
<1>1. PICK n, k, t, x : f = [name |-> n, kind |-> k, right |-> t, secret |-> x]
  BY Zenon DEF Formed
<1>2. PICK e : e = [f EXCEPT !.name = g.name, !.kind = g.kind]
  BY Zenon
<1>3. e = [name |-> g.name, kind |-> g.kind, right |-> t, secret |-> x]
  BY <1>1, <1>2, Zenon
<1>4. PICK S, F : F = [s \in S |-> IF Secret(e, s) = Blank /\ s \in secrets[e.kind] THEN Secret(g, s) ELSE Secret(e, s)]
                  /\ h = [e EXCEPT !.secret = F]
  BY <1>2, Zenon DEF KeepSecrets
<1>5. F = [s \in DOMAIN F |-> F[s]]
  <2>1. DOMAIN F = S
    BY <1>4, Zenon
  <2>2. \A s \in S : F[s] = IF Secret(e, s) = Blank /\ s \in secrets[e.kind] THEN Secret(g, s) ELSE Secret(e, s)
    BY <1>4, Zenon
  <2> QED BY <1>4, <2>1, <2>2, Zenon
<1>6. h = [name |-> g.name, kind |-> g.kind, right |-> t, secret |-> F]
  <2>1. h = [e EXCEPT !.secret = F]
    BY <1>4, Zenon
  <2> QED BY <1>3, <2>1
<1>7. h.name = g.name /\ h.kind = g.kind /\ h.right = t /\ h.secret = F
  <2>1. PICK a, b : a = g.name /\ b = g.kind
    BY Zenon
  <2>2. h = [name |-> a, kind |-> b, right |-> t, secret |-> F]
    BY <1>6, <2>1, Zenon
  <2>3. h.name = a /\ h.kind = b /\ h.right = t /\ h.secret = F
    BY <2>2
  <2> QED BY <2>1, <2>3, Zenon
<1> QED BY <1>5, <1>6, <1>7, Zenon DEF Formed

LEMMA InvSaves ==
    ASSUME RequestsAssumption, RequestsInv
    PROVE  SavedWork
<1>1. RuleRows /\ ChannelRows
  BY Zenon DEF RequestsInv
<1>2. \A i \in DOMAIN savedRules :
          /\ Judges(savedRules[i].metric) \subseteq savedRules[i].right
          /\ savedRules[i].channels \subseteq ChannelNames \cup excused
          /\ \A j \in DOMAIN savedRules : savedRules[i].name = savedRules[j].name => i = j
  BY <1>1, JudgedIsValid, Zenon DEF RuleRows
<1>3. ParseRules(exportRules)
  <2> SUFFICES ASSUME NEW f \in exportRules, NEW g \in exportRules
               PROVE  Validate(f) /\ (f.name = g.name => f = g)
    BY Zenon DEF ParseRules
  <2>1. PICK i \in DOMAIN savedRules : f = savedRules[i]
    BY Zenon DEF exportRules
  <2>2. PICK j \in DOMAIN savedRules : g = savedRules[j]
    BY Zenon DEF exportRules
  <2> QED BY <1>1, <2>1, <2>2, Zenon DEF RuleRows
<1>4. ASSUME NEW c \in DOMAIN savedChannels
      PROVE  /\ Parse(savedChannels[c])
             /\ \A s \in DOMAIN getChannels(TRUE)[c].secret : getChannels(TRUE)[c].secret[s] = Blank
             /\ KeepSecrets(savedChannels[c], getChannels(TRUE)[c]) = savedChannels[c]
             /\ \A d \in DOMAIN savedChannels : NameOf(c) = NameOf(d) => c = d
  <2>1. getChannels(TRUE)[c] = Redact(savedChannels[c])
    BY Zenon DEF getChannels, NotificationChannels, channelInfo, toChannel
  <2>2. Formed(savedChannels[c]) /\ Parse(savedChannels[c])
    BY <1>1, Zenon DEF ChannelRows
  <2>3. KeepSecrets(savedChannels[c], Redact(savedChannels[c])) = savedChannels[c]
    BY <2>2, ShownIsKept, Zenon
  <2>4. \A s \in DOMAIN Redact(savedChannels[c]).secret : Redact(savedChannels[c]).secret[s] = Blank
    BY <2>2, ShownIsKept, Zenon
  <2>5. \A d \in DOMAIN savedChannels : NameOf(c) = NameOf(d) => c = d
    BY <1>1, Zenon DEF ChannelRows
  <2> QED BY <2>1, <2>2, <2>3, <2>4, <2>5, Zenon
<1> QED BY <1>2, <1>3, <1>4, Zenon DEF SavedWork

-----------------------------------------------------------------------------
(* The steps *)

\* One request goes on or ends, and the others know what they knew.
LEMMA OthersWait ==
    ASSUME Underway, NEW next, next = Idle \/ Pending(next)',
           DOMAIN request' = Slots, \A s \in Slots : request'[s] = request[s] \/ request'[s] = next,
           \A q : (\E s \in Slots : q = request[s]) /\ Pending(q) => Pending(q)'
    PROVE  Underway'
<1>1. ASSUME NEW s \in Slots PROVE (request[s] = Idle \/ Pending(request[s]))'
  <2>1. PICK q : q = request'[s]
    BY Zenon
  <2>2. q = next \/ q = request[s]
    BY <2>1, Zenon
  <2>3. q = Idle \/ Pending(q)'
    BY <2>2, Zenon DEF Underway
  <2> QED BY <2>1, <2>3, Zenon DEF Pending, Shaped, SameChannel, NotPicked, ChannelNames, NameOf
<1> QED BY <1>1, Zenon DEF Underway

LEMMA OneChanges ==
    ASSUME Underway, NEW r \in Slots, NEW next, request' = [request EXCEPT ![r] = next]
    PROVE  DOMAIN request' = Slots /\ \A s \in Slots : request'[s] = request[s] \/ request'[s] = next
  BY Zenon DEF Underway

\* A step that writes nothing.
LEMMA NothingWritten ==
    ASSUME RequestsInv, UNCHANGED <<savedRules, savedChannels, ruleIds, channelIds, excused>>
    PROVE  RuleRows' /\ ChannelRows' /\ \A q : Pending(q) => Pending(q)'
<1>1. RuleRows'
  BY Zenon DEF RequestsInv, RuleRows, ChannelNames, NameOf
<1>2. ChannelRows'
  BY Zenon DEF RequestsInv, ChannelRows, NameOf
<1>3. ASSUME NEW q, Pending(q) PROVE Pending(q)'
  BY <1>3, Zenon DEF Pending, SameChannel, NotPicked, ChannelNames, NameOf
<1> QED BY <1>1, <1>2, <1>3, Zenon

LEMMA ReadsOnly ==
    ASSUME RequestsInv, UNCHANGED <<savedRules, savedChannels, ruleIds, channelIds, excused>>,
           NEW r \in Slots, NEW next, next = Idle \/ Pending(next),
           request' = [request EXCEPT ![r] = next]
    PROVE  RequestsInv'
<1>1. RuleRows' /\ ChannelRows' /\ \A q : Pending(q) => Pending(q)'
  BY NothingWritten, Zenon
<1>2. Underway
  BY Zenon DEF RequestsInv
<1>3. Underway'
  <2>1. DOMAIN request' = Slots /\ \A s \in Slots : request'[s] = request[s] \/ request'[s] = next
    BY <1>2, OneChanges, Zenon
  <2> QED BY <1>1, <1>2, <2>1, OthersWait, Zenon
<1> QED BY <1>1, <1>3, Zenon DEF RequestsInv

\* The next point of a handler.
Reaches(p, q, at, form) == Shaped(p) /\ p.op = q.op /\ p.id = q.id /\ p.form = form /\ p.at = at

LEMMA Reached ==
    ASSUME NEW q, Shaped(q), NEW at, NEW form, NEW kept, NEW saved
    PROVE  /\ Reaches([q EXCEPT !.at = at], q, at, q.form)
           /\ Reaches([q EXCEPT !.at = at, !.form = form], q, at, form)
           /\ Reaches([q EXCEPT !.at = at, !.kept = kept, !.form = form], q, at, form)
           /\ Reaches([q EXCEPT !.at = at, !.saved = saved, !.form = form, !.kept = kept], q, at, form)
<1>1. PICK o, i, f, a, k, d : q = [op |-> o, id |-> i, form |-> f, at |-> a, kept |-> k, saved |-> d]
  BY Zenon DEF Shaped
<1>2. q.op = o /\ q.id = i /\ q.form = f /\ i \in Nat
  BY <1>1 DEF Shaped
<1>3. ASSUME NEW p, NEW g, NEW l, NEW e,
             p = [op |-> o, id |-> i, form |-> g, at |-> at, kept |-> l, saved |-> e]
      PROVE  Reaches(p, q, at, g)
  <2>1. p.op = o /\ p.id = i /\ p.form = g /\ p.at = at /\ p.kept = l /\ p.saved = e
    BY <1>3
  <2>2. Shaped(p)
    BY <1>2, <1>3, <2>1, Zenon DEF Shaped
  <2> QED BY <1>2, <2>1, <2>2, Zenon DEF Reaches
<1>4. [q EXCEPT !.at = at] = [op |-> o, id |-> i, form |-> f, at |-> at, kept |-> k, saved |-> d]
  BY <1>1
<1>5. [q EXCEPT !.at = at, !.form = form] = [op |-> o, id |-> i, form |-> form, at |-> at, kept |-> k, saved |-> d]
  <2>1. [q EXCEPT !.at = at, !.form = form] = [[q EXCEPT !.at = at] EXCEPT !.form = form]
    BY <1>1
  <2>2. PICK p : p = [q EXCEPT !.at = at]
    BY Zenon
  <2>3. p = [op |-> o, id |-> i, form |-> f, at |-> at, kept |-> k, saved |-> d]
    BY <1>4, <2>2, Zenon
  <2>4. [p EXCEPT !.form = form] = [op |-> o, id |-> i, form |-> form, at |-> at, kept |-> k, saved |-> d]
    BY <2>3
  <2> QED BY <2>1, <2>2, <2>4, Zenon
<1>6. [q EXCEPT !.at = at, !.kept = kept, !.form = form]
      = [op |-> o, id |-> i, form |-> form, at |-> at, kept |-> kept, saved |-> d]
  <2>1. [q EXCEPT !.at = at, !.kept = kept, !.form = form] = [[q EXCEPT !.at = at, !.form = form] EXCEPT !.kept = kept]
    BY <1>1, Zenon
  <2>2. PICK p : p = [q EXCEPT !.at = at, !.form = form]
    BY Zenon
  <2>3. p = [op |-> o, id |-> i, form |-> form, at |-> at, kept |-> k, saved |-> d]
    BY <1>5, <2>2, Zenon
  <2>4. [p EXCEPT !.kept = kept] = [op |-> o, id |-> i, form |-> form, at |-> at, kept |-> kept, saved |-> d]
    BY <2>3
  <2> QED BY <2>1, <2>2, <2>4, Zenon
<1>7. [q EXCEPT !.at = at, !.saved = saved, !.form = form, !.kept = kept]
      = [op |-> o, id |-> i, form |-> form, at |-> at, kept |-> kept, saved |-> saved]
  <2>1. [q EXCEPT !.at = at, !.saved = saved, !.form = form, !.kept = kept]
        = [[q EXCEPT !.at = at, !.kept = kept, !.form = form] EXCEPT !.saved = saved]
    BY <1>1, Zenon
  <2>2. PICK p : p = [q EXCEPT !.at = at, !.kept = kept, !.form = form]
    BY Zenon
  <2>3. p = [op |-> o, id |-> i, form |-> form, at |-> at, kept |-> kept, saved |-> d]
    BY <1>6, <2>2, Zenon
  <2>4. [p EXCEPT !.saved = saved] = [op |-> o, id |-> i, form |-> form, at |-> at, kept |-> kept, saved |-> saved]
    BY <2>3
  <2> QED BY <2>1, <2>2, <2>4, Zenon
<1>8. f = q.form
  BY <1>2, Zenon
<1>9. Reaches([q EXCEPT !.at = at], q, at, q.form)
  BY <1>3, <1>4, <1>8, Zenon
<1>10. Reaches([q EXCEPT !.at = at, !.form = form], q, at, form)
  BY <1>3, <1>5, Zenon
<1>11. Reaches([q EXCEPT !.at = at, !.kept = kept, !.form = form], q, at, form)
  BY <1>3, <1>6, Zenon
<1>12. Reaches([q EXCEPT !.at = at, !.saved = saved, !.form = form, !.kept = kept], q, at, form)
  BY <1>3, <1>7, Zenon
<1> QED BY <1>9, <1>10, <1>11, <1>12, Zenon

\* A request that is at some point is one that is being handled.
LEMMA Handled ==
    ASSUME Underway, NEW r \in Slots, NEW at,
           NEW op \in {"SaveRule", "SaveChannel", "DeleteRule", "DeleteChannel", "TestChannel"},
           Handles(r, op, at)
    PROVE  Pending(request[r])
<1>1. request[r] # Idle
  <2>1. Idle.op = "none"
    BY Zenon DEF Idle
  <2> QED BY <2>1, Zenon DEF Handles
<1> QED BY <1>1, Zenon DEF Underway

\* A request that ends and wrote nothing.
LEMMA EndsUnwritten ==
    ASSUME RequestsInv, UNCHANGED <<savedRules, savedChannels, ruleIds, channelIds, excused>>,
           NEW r \in Slots, NEW code, NEW done, Ends(r, code, done)
    PROVE  RequestsInv'
  BY ReadsOnly, Zenon DEF Ends

LEMMA NaturalIds ==
    /\ \A m \in Nat : \A i \in 0 .. m : i \in Nat
    /\ \A m \in Nat : \A i \in 1 .. m : i \in Nat
  OBVIOUS

LEMMA ArrivesKeeps ==
    ASSUME RequestsAssumption, RequestsInv, NEW r \in Slots, Asks(r)
    PROVE  RequestsInv'
<1>1. ASSUME NEW op, NEW id, NEW form, Arrives(r, op, id, form), id \in Nat,
             op = "SaveRule" => form \in RuleForms, op = "SaveChannel" => form \in ChannelForms
      PROVE  RequestsInv'
  <2>1. PICK q : q = [op |-> op, id |-> id, form |-> form, at |-> "begin", kept |-> FALSE, saved |-> 0]
    BY Zenon
  <2>2. q.op = op /\ q.id = id /\ q.form = form /\ q.at = "begin" /\ q.kept = FALSE /\ q.saved = 0
    BY <2>1, Zenon
  <2>3. Shaped(q)
    BY <1>1, <2>1, <2>2, Zenon DEF Shaped
  <2>4. form \in ChannelForms => Formed(form)
    BY Zenon DEF RequestsAssumption, Formed
  <2>5. Pending(q)
    BY <1>1, <2>2, <2>3, <2>4, Zenon DEF Pending
  <2>6. request' = [request EXCEPT ![r] = q] /\ UNCHANGED <<savedRules, savedChannels, ruleIds, channelIds, excused>>
    BY <1>1, <2>1, Zenon DEF Arrives, Continues
  <2> QED BY <2>5, <2>6, ReadsOnly, Zenon
<1>2. /\ \A m \in Nat : \A i \in 0 .. m : i \in Nat
      /\ \A m \in Nat : \A i \in 1 .. m : i \in Nat
  BY NaturalIds, Zenon
<1>3. MaxRules \in Nat /\ MaxChannels \in Nat
  BY Zenon DEF RequestsAssumption
<1> QED BY <1>1, <1>2, <1>3, Zenon DEF Asks

LEMMA SaveRuleChecksKeeps ==
    ASSUME RequestsInv, NEW r \in Slots, SaveRuleChecks(r)
    PROVE  RequestsInv'
<1>1. CASE Ends(r, writeGRPCError("InvalidArgument"), FALSE)
  BY <1>1, EndsUnwritten, Zenon DEF SaveRuleChecks
<1>2. CASE checkRuleChannels(request[r].form) /\ Continues(r, [request[r] EXCEPT !.at = "write"])
  <2>1. PICK q : q = request[r]
    BY Zenon
  <2>2. PICK p : p = [q EXCEPT !.at = "write"]
    BY Zenon
  <2>3. Pending(q) /\ q.op = "SaveRule" /\ q.form.channels \subseteq ChannelNames
    BY <1>2, <2>1, Handled, Zenon DEF SaveRuleChecks, Handles, RequestsInv, checkRuleChannels
  <2>4. Reaches(p, q, "write", q.form)
    BY <2>2, <2>3, Reached, Zenon DEF Pending
  <2>5. Pending(p)
    BY <2>3, <2>4, Zenon DEF Pending, Reaches
  <2> QED BY <1>2, <2>1, <2>2, <2>5, ReadsOnly, Zenon DEF SaveRuleChecks, Continues
<1> QED BY <1>1, <1>2, Zenon DEF SaveRuleChecks

LEMMA SaveChannelReadsKeeps ==
    ASSUME RequestsInv, NEW r \in Slots, SaveChannelReads(r)
    PROVE  RequestsInv'
<1>1. PICK q : q = request[r]
  BY Zenon
<1>2. Pending(q) /\ q.op = "SaveChannel" /\ q.at = "begin" /\ ChannelRows
  BY <1>1, Handled, Zenon DEF SaveChannelReads, Handles, RequestsInv
<1>3. PICK form : form = IF q.id = 0 THEN q.form
                         ELSE KeepSecrets(savedChannels[q.id],
                                          [q.form EXCEPT !.name = NameOf(q.id), !.kind = savedChannels[q.id].kind])
  BY Zenon
<1>4. UNCHANGED <<savedRules, savedChannels, ruleIds, channelIds, excused>>
  BY Zenon DEF SaveChannelReads
<1>5. \/ \E code : Ends(r, code, FALSE)
      \/ /\ q.id = 0 \/ q.id \in DOMAIN savedChannels
         /\ Parse(form)
         /\ Continues(r, [q EXCEPT !.at = "write", !.kept = Redact(q.form) = q.form, !.form = form])
  BY <1>1, <1>3, Zenon DEF SaveChannelReads
<1>6. CASE \E code : Ends(r, code, FALSE)
  BY <1>4, <1>6, EndsUnwritten, Zenon
<1>7. CASE /\ q.id = 0 \/ q.id \in DOMAIN savedChannels
           /\ Parse(form)
           /\ Continues(r, [q EXCEPT !.at = "write", !.kept = Redact(q.form) = q.form, !.form = form])
  <2>1. PICK kept : kept = (Redact(q.form) = q.form)
    BY Zenon
  <2>2. PICK p : p = [q EXCEPT !.at = "write", !.kept = kept, !.form = form]
    BY Zenon
  <2>3. Reaches(p, q, "write", form)
    BY <1>2, <2>2, Reached, Zenon DEF Pending
  <2>4. Formed(q.form) /\ q.id \in Nat /\ channelIds \in Nat /\ DOMAIN savedChannels \subseteq 1 .. channelIds
    BY <1>2, Zenon DEF Pending, Shaped, ChannelRows
  <2>5. Formed(form) /\ (q.id # 0 => form.name = NameOf(q.id))
    <3>1. CASE q.id = 0
      BY <1>3, <2>4, <3>1, Zenon
    <3>2. CASE q.id # 0
      <4>1. PICK g : g = savedChannels[q.id]
        BY Zenon
      <4>2. form = KeepSecrets(g, [q.form EXCEPT !.name = g.name, !.kind = g.kind])
        BY <1>3, <3>2, <4>1, Zenon DEF NameOf
      <4>3. Formed(form) /\ form.name = g.name
        BY <2>4, <4>2, FilledIn, Zenon
      <4> QED BY <4>1, <4>3, Zenon DEF NameOf
    <3> QED BY <3>1, <3>2, Zenon
  <2>6. q.id <= channelIds /\ 0 \notin DOMAIN savedChannels
    BY <1>7, <2>4
  <2>7. Pending(p)
    BY <1>2, <1>7, <2>3, <2>5, <2>6, Zenon DEF Pending, Reaches, SameChannel
  <2>8. request' = [request EXCEPT ![r] = p]
    BY <1>7, <2>1, <2>2, Zenon DEF Continues
  <2> QED BY <1>4, <2>7, <2>8, ReadsOnly, Zenon
<1> QED BY <1>5, <1>6, <1>7, Zenon

LEMMA DeleteChannelReadsKeeps ==
    ASSUME RequestsInv, NEW r \in Slots, DeleteChannelReads(r)
    PROVE  RequestsInv'
<1>1. PICK q : q = request[r]
  BY Zenon
<1>2. Pending(q) /\ q.op = "DeleteChannel" /\ ChannelRows
  BY <1>1, Handled, Zenon DEF DeleteChannelReads, Handles, RequestsInv
<1>3. UNCHANGED <<savedRules, savedChannels, ruleIds, channelIds, excused>>
  BY Zenon DEF DeleteChannelReads
<1>4. \/ \E code : Ends(r, code, FALSE)
      \/ /\ q.id \in DOMAIN savedChannels
         /\ \A i \in DOMAIN savedRules : NameOf(q.id) \notin savedRules[i].channels
         /\ Continues(r, [q EXCEPT !.at = "write", !.form = savedChannels[q.id]])
  BY <1>1, Zenon DEF DeleteChannelReads
<1>5. CASE \E code : Ends(r, code, FALSE)
  BY <1>3, <1>5, EndsUnwritten, Zenon
<1>6. CASE /\ q.id \in DOMAIN savedChannels
           /\ \A i \in DOMAIN savedRules : NameOf(q.id) \notin savedRules[i].channels
           /\ Continues(r, [q EXCEPT !.at = "write", !.form = savedChannels[q.id]])
  <2>1. PICK form : form = savedChannels[q.id]
    BY Zenon
  <2>2. PICK p : p = [q EXCEPT !.at = "write", !.form = form]
    BY Zenon
  <2>3. Reaches(p, q, "write", form)
    BY <1>2, <2>2, Reached, Zenon DEF Pending
  <2>4. q.id <= channelIds
    <3>1. channelIds \in Nat /\ q.id \in 1 .. channelIds
      BY <1>2, <1>6, Zenon DEF ChannelRows
    <3> QED BY <3>1
  <2>5. Pending(p)
    BY <1>2, <1>6, <2>1, <2>3, <2>4, Zenon DEF Pending, Reaches, SameChannel, NotPicked, NameOf
  <2>6. request' = [request EXCEPT ![r] = p]
    BY <1>6, <2>1, <2>2, Zenon DEF Continues
  <2> QED BY <1>3, <2>5, <2>6, ReadsOnly, Zenon
<1> QED BY <1>4, <1>5, <1>6, Zenon

LEMMA TestChannelKeeps ==
    ASSUME RequestsInv, NEW r \in Slots, TestChannelReads(r) \/ TestChannelSends(r) \/ SaveChannelRereads(r)
    PROVE  RequestsInv'
<1>1. UNCHANGED <<savedRules, savedChannels, ruleIds, channelIds, excused>>
  BY Zenon DEF TestChannelReads, TestChannelSends, SaveChannelRereads
<1>2. CASE \E code, done : Ends(r, code, done)
  BY <1>1, <1>2, EndsUnwritten, Zenon
<1>3. CASE TestChannelReads(r) /\ Continues(r, [request[r] EXCEPT !.at = "send"])
  <2>1. PICK q : q = request[r]
    BY Zenon
  <2>2. PICK p : p = [q EXCEPT !.at = "send"]
    BY Zenon
  <2>3. Pending(q) /\ q.op = "TestChannel"
    BY <1>3, <2>1, Handled, Zenon DEF TestChannelReads, Handles, RequestsInv
  <2>4. Reaches(p, q, "send", q.form)
    BY <2>2, <2>3, Reached, Zenon DEF Pending
  <2>5. Pending(p)
    BY <2>3, <2>4, Zenon DEF Pending, Reaches
  <2> QED BY <1>1, <1>3, <2>1, <2>2, <2>5, ReadsOnly, Zenon DEF Continues
<1>4. CASE TestChannelReads(r)
  BY <1>2, <1>3, <1>4, Zenon DEF TestChannelReads
<1>5. CASE TestChannelSends(r)
  BY <1>2, <1>5, Zenon DEF TestChannelSends
<1>6. CASE SaveChannelRereads(r)
  BY <1>2, <1>6, Zenon DEF SaveChannelRereads
<1> QED BY <1>4, <1>5, <1>6, Zenon

LEMMA RefusedKeeps ==
    ASSUME RequestsInv, UNCHANGED <<savedRules, savedChannels, ruleIds, channelIds, request, excused>>
    PROVE  RequestsInv'
<1>1. RuleRows' /\ ChannelRows' /\ \A q : Pending(q) => Pending(q)'
  BY NothingWritten, Zenon
<1>2. Underway
  BY Zenon DEF RequestsInv
<1>3. Underway'
  BY <1>1, <1>2, OthersWait, Zenon DEF Underway
<1> QED BY <1>1, <1>3, Zenon DEF RequestsInv

\* The rows after one is written or deleted.
IsWritten(after, rows, id, row) ==
    /\ DOMAIN after = DOMAIN rows \cup {id} /\ after[id] = row
    /\ \A i \in DOMAIN rows : i # id => after[i] = rows[i]

IsDeleted(after, rows, id) ==
    /\ DOMAIN after = DOMAIN rows \ {id}
    /\ \A i \in DOMAIN after : after[i] = rows[i]

LEMMA RowWritten ==
    ASSUME NEW rows, NEW id, NEW row
    PROVE  IsWritten(With(rows, id, row), rows, id, row)
  BY Zenon DEF With, IsWritten

LEMMA RowDeleted ==
    ASSUME NEW rows, NEW id
    PROVE  IsDeleted(Without(rows, id), rows, id)
  BY Zenon DEF Without, IsDeleted

\* A rule is saved that has a name of its own and picks channels there are: who is
\* deleting one of them at that moment is excused.
LEMMA RuleSaved ==
    ASSUME RequestsInv, NEW id, id # 0, NEW form \in RuleForms, Validate(form),
           \A i \in DOMAIN savedRules : i # id => savedRules[i].name # form.name,
           savedRules' = With(savedRules, id, form), ruleIds' \in Nat, excused \subseteq excused',
           form.channels \subseteq ChannelNames \cup excused',
           \A n \in form.channels : Deleting(n) => n \in excused',
           UNCHANGED <<savedChannels, channelIds>>
    PROVE  /\ RuleRows' /\ ChannelRows'
           /\ \A q : (\E s \in Slots : q = request[s]) /\ Pending(q) => Pending(q)'
<1>1. RuleRows /\ ChannelRows
  BY Zenon DEF RequestsInv
<1>2. /\ DOMAIN savedRules' = DOMAIN savedRules \cup {id} /\ savedRules'[id] = form
      /\ \A i \in DOMAIN savedRules : i # id => savedRules'[i] = savedRules[i]
  <2>1. IsWritten(With(savedRules, id, form), savedRules, id, form)
    BY RowWritten, Zenon
  <2>2. IsWritten(savedRules', savedRules, id, form)
    BY <2>1, Zenon
  <2> QED BY <2>2, Zenon DEF IsWritten
<1>3. ChannelNames' = ChannelNames
  BY Zenon DEF ChannelNames, NameOf
<1>4. ASSUME NEW i \in DOMAIN savedRules'
      PROVE  /\ savedRules'[i] \in RuleForms /\ Validate(savedRules'[i])
             /\ savedRules'[i].channels \subseteq ChannelNames' \cup excused'
             /\ \A j \in DOMAIN savedRules' : savedRules'[i].name = savedRules'[j].name => i = j
  <2>1. CASE i = id
    BY <1>2, <1>3, <2>1, Zenon
  <2>2. CASE i # id
    <3>1. i \in DOMAIN savedRules /\ savedRules'[i] = savedRules[i]
      BY <1>2, <2>2, Zenon
    <3>2. \A j \in DOMAIN savedRules' : savedRules'[i].name = savedRules'[j].name => i = j
      BY <1>1, <1>2, <2>2, <3>1, Zenon DEF RuleRows
    <3> QED BY <1>1, <1>3, <3>1, <3>2, Zenon DEF RuleRows
  <2> QED BY <2>1, <2>2, Zenon
<1>5. RuleRows'
  <2>1. 0 \notin DOMAIN savedRules'
    BY <1>1, <1>2, Zenon DEF RuleRows
  <2> QED BY <1>4, <2>1, Zenon DEF RuleRows
<1>6. ChannelRows'
  BY <1>1, Zenon DEF ChannelRows, NameOf
<1>7. ASSUME NEW q, NEW s \in Slots, q = request[s], Pending(q) PROVE Pending(q)'
  <2>1. SameChannel(q) => SameChannel(q)'
    BY Zenon DEF SameChannel, NameOf
  <2>2. q.op = "DeleteChannel" /\ q.at = "write" => NotPicked(q.form.name)'
    <3> SUFFICES ASSUME q.op = "DeleteChannel", q.at = "write", NEW i \in DOMAIN savedRules',
                        q.form.name \in savedRules'[i].channels
                 PROVE  q.form.name \in excused'
      BY Zenon DEF NotPicked
    <3>1. CASE i = id
      BY <1>2, <1>7, <3>1, Zenon DEF Deleting, Handles
    <3>2. CASE i # id
      BY <1>2, <1>7, <3>2, Zenon DEF Pending, NotPicked
    <3> QED BY <3>1, <3>2, Zenon
  <2>3. q.op = "SaveRule" /\ q.at = "write" => q.form.channels \subseteq ChannelNames' \cup excused'
    BY <1>3, <1>7, Zenon DEF Pending
  <2> QED BY <1>7, <2>1, <2>2, <2>3, Zenon DEF Pending
<1> QED BY <1>5, <1>6, <1>7, Zenon

LEMMA SaveRuleWritesKeeps ==
    ASSUME RequestsInv, NEW r \in Slots, SaveRuleWrites(r)
    PROVE  RequestsInv'
<1>1. PICK q : q = request[r]
  BY Zenon
<1>2. Pending(q) /\ q.op = "SaveRule" /\ q.at = "write" /\ RuleRows /\ Underway
  BY <1>1, Handled, Zenon DEF SaveRuleWrites, Handles, RequestsInv
<1>3. PICK id : id = IF q.id = 0 THEN ruleIds + 1 ELSE q.id
  BY Zenon
<1>4. \/ /\ \E code, done : Ends(r, code, done)
         /\ UNCHANGED <<savedRules, savedChannels, ruleIds, channelIds, excused>>
      \/ /\ RuleError(q.form, q.id) = "none"
         /\ request' = [request EXCEPT ![r] = Idle]
         /\ savedRules' = With(savedRules, id, q.form)
         /\ ruleIds' = IF q.id = 0 THEN id ELSE ruleIds
         /\ excused' = excused \cup {n \in q.form.channels : Deleting(n)}
         /\ UNCHANGED <<savedChannels, channelIds>>
  BY <1>1, <1>3, Zenon DEF SaveRuleWrites, Ends
<1>5. CASE /\ \E code, done : Ends(r, code, done)
           /\ UNCHANGED <<savedRules, savedChannels, ruleIds, channelIds, excused>>
  BY <1>5, EndsUnwritten, Zenon
<1>6. CASE /\ RuleError(q.form, q.id) = "none"
           /\ request' = [request EXCEPT ![r] = Idle]
           /\ savedRules' = With(savedRules, id, q.form)
           /\ ruleIds' = IF q.id = 0 THEN id ELSE ruleIds
           /\ excused' = excused \cup {n \in q.form.channels : Deleting(n)}
           /\ UNCHANGED <<savedChannels, channelIds>>
  <2>1. Validate(q.form) /\ (q.id = 0 \/ q.id \in DOMAIN savedRules) /\ ~Taken(savedRules, q.form.name, q.id)
    BY <1>6, RuleErrors, Zenon
  <2>2. q.id \in Nat /\ ruleIds \in Nat
    BY <1>2, Zenon DEF Pending, Shaped, RuleRows
  <2>3. id # 0 /\ ruleIds' \in Nat
    <3>1. ruleIds' = IF q.id = 0 THEN id ELSE ruleIds
      BY <1>6, Zenon
    <3> QED BY <1>3, <2>2, <3>1
  <2>4. \A i \in DOMAIN savedRules : i # id => savedRules[i].name # q.form.name
    BY <1>2, <1>3, <2>1, Zenon DEF Taken, RuleRows
  <2>5. q.form \in RuleForms /\ q.form.channels \subseteq ChannelNames \cup excused'
    BY <1>2, <1>6, Zenon DEF Pending
  <2>6. excused \subseteq excused' /\ \A n \in q.form.channels : Deleting(n) => n \in excused'
    BY <1>6, Zenon
  <2>7. /\ RuleRows' /\ ChannelRows'
        /\ \A p : (\E s \in Slots : p = request[s]) /\ Pending(p) => Pending(p)'
    BY <1>6, <2>1, <2>3, <2>4, <2>5, <2>6, RuleSaved, Zenon
  <2>8. DOMAIN request' = Slots /\ \A s \in Slots : request'[s] = request[s] \/ request'[s] = Idle
    BY <1>2, <1>6, OneChanges, Zenon
  <2>9. Underway'
    BY <1>2, <2>7, <2>8, OthersWait, Zenon
  <2> QED BY <2>7, <2>9, Zenon DEF RequestsInv
<1> QED BY <1>4, <1>5, <1>6, Zenon

LEMMA ImportRulesKeeps ==
    ASSUME RequestsInv, NEW form \in RuleForms, ImportRules(form)
    PROVE  RequestsInv'
<1>1. RuleRows /\ Underway
  BY Zenon DEF RequestsInv
<1>2. PICK named : named = {i \in DOMAIN savedRules : savedRules[i].name = form.name}
  BY Zenon
<1>3. PICK id : id = IF named = {} THEN ruleIds + 1 ELSE CHOOSE i \in named : TRUE
  BY Zenon
<1>4. /\ ParseRules({form})
      /\ savedRules' = With(savedRules, id, form)
      /\ ruleIds' = IF named = {} THEN id ELSE ruleIds
      /\ excused' = excused \cup {n \in form.channels : n \notin ChannelNames \/ Deleting(n)}
      /\ UNCHANGED <<savedChannels, channelIds, request>>
  BY <1>2, <1>3, Zenon DEF ImportRules
<1>5. Validate(form)
  BY <1>4, Zenon DEF ParseRules
<1>6. id # 0 /\ ruleIds' \in Nat /\ \A i \in DOMAIN savedRules : i # id => savedRules[i].name # form.name
  <2>1. ruleIds \in Nat /\ ruleIds + 1 \in Nat /\ ruleIds + 1 # 0
    <3>1. ruleIds \in Nat
      BY <1>1, Zenon DEF RuleRows
    <3> QED BY <3>1
  <2>2. CASE named = {}
    BY <1>2, <1>3, <1>4, <2>1, <2>2, Zenon
  <2>3. CASE named # {}
    <3>1. id \in named
      BY <1>3, <2>3, Zenon
    <3> QED BY <1>1, <1>2, <1>4, <2>1, <2>3, <3>1, Zenon DEF RuleRows
  <2> QED BY <2>2, <2>3, Zenon
<1>7. /\ excused \subseteq excused' /\ form.channels \subseteq ChannelNames \cup excused'
      /\ \A n \in form.channels : Deleting(n) => n \in excused'
  BY <1>4, Zenon
<1>8. /\ RuleRows' /\ ChannelRows'
      /\ \A p : (\E s \in Slots : p = request[s]) /\ Pending(p) => Pending(p)'
  BY <1>4, <1>5, <1>6, <1>7, RuleSaved, Zenon
<1>9. DOMAIN request' = Slots /\ \A s \in Slots : request'[s] = request[s] \/ request'[s] = Idle
  BY <1>1, <1>4, Zenon DEF Underway
<1>10. Underway'
  BY <1>1, <1>8, <1>9, OthersWait, Zenon
<1> QED BY <1>8, <1>10, Zenon DEF RequestsInv

LEMMA DeleteRuleKeeps ==
    ASSUME RequestsInv, NEW r \in Slots, DeleteRuleWrites(r)
    PROVE  RequestsInv'
<1>1. CASE /\ \E code, done : Ends(r, code, done)
           /\ UNCHANGED <<savedRules, savedChannels, ruleIds, channelIds, excused>>
  BY <1>1, EndsUnwritten, Zenon
<1>2. CASE /\ savedRules' = Without(savedRules, request[r].id) /\ request' = [request EXCEPT ![r] = Idle]
           /\ UNCHANGED <<savedChannels, ruleIds, channelIds, excused>>
  <2>1. RuleRows /\ ChannelRows /\ Underway
    BY Zenon DEF RequestsInv
  <2>2. DOMAIN savedRules' \subseteq DOMAIN savedRules /\ \A i \in DOMAIN savedRules' : savedRules'[i] = savedRules[i]
    <3>1. PICK id : id = request[r].id
      BY Zenon
    <3>2. IsDeleted(Without(savedRules, id), savedRules, id)
      BY RowDeleted, Zenon
    <3>3. IsDeleted(savedRules', savedRules, id)
      BY <1>2, <3>1, <3>2, Zenon
    <3> QED BY <3>3, Zenon DEF IsDeleted
  <2>3. ChannelNames' = ChannelNames
    BY <1>2, Zenon DEF ChannelNames, NameOf
  <2>4. RuleRows'
    BY <1>2, <2>1, <2>2, <2>3, Zenon DEF RuleRows
  <2>5. ChannelRows'
    BY <1>2, <2>1, Zenon DEF ChannelRows, NameOf
  <2>6. ASSUME NEW q, Pending(q) PROVE Pending(q)'
    <3>1. SameChannel(q) => SameChannel(q)'
      BY <1>2, Zenon DEF SameChannel, NameOf
    <3>2. NotPicked(q.form.name) => NotPicked(q.form.name)'
      BY <1>2, <2>2, Zenon DEF NotPicked
    <3> QED BY <1>2, <2>3, <2>6, <3>1, <3>2, Zenon DEF Pending
  <2>7. DOMAIN request' = Slots /\ \A s \in Slots : request'[s] = request[s] \/ request'[s] = Idle
    BY <1>2, <2>1, OneChanges, Zenon
  <2>8. Underway'
    BY <2>1, <2>6, <2>7, OthersWait, Zenon
  <2> QED BY <2>4, <2>5, <2>8, Zenon DEF RequestsInv
<1> QED BY <1>1, <1>2, Zenon DEF DeleteRuleWrites, Ends

\* A channel is saved under an id that is new, with a name that is, or under its own
\* id and name: every name there was is still there, and what was read of a channel
\* is still so.
LEMMA ChannelSaved ==
    ASSUME RequestsInv, NEW id \in Nat, NEW form, Formed(form), Parse(form),
           \/ /\ id = channelIds + 1 /\ channelIds' = id
              /\ \A c \in DOMAIN savedChannels : NameOf(c) # form.name
           \/ id \in DOMAIN savedChannels /\ channelIds' = channelIds /\ form.name = NameOf(id),
           savedChannels' = With(savedChannels, id, form),
           UNCHANGED <<savedRules, ruleIds, excused>>
    PROVE  RuleRows' /\ ChannelRows' /\ \A q : Pending(q) => Pending(q)'
<1>1. RuleRows /\ ChannelRows /\ channelIds \in Nat /\ DOMAIN savedChannels \subseteq 1 .. channelIds
  BY Zenon DEF RequestsInv, ChannelRows
<1>2. /\ DOMAIN savedChannels' = DOMAIN savedChannels \cup {id} /\ savedChannels'[id] = form
      /\ \A c \in DOMAIN savedChannels : c # id => savedChannels'[c] = savedChannels[c]
  <2>1. IsWritten(With(savedChannels, id, form), savedChannels, id, form)
    BY RowWritten, Zenon
  <2>2. IsWritten(savedChannels', savedChannels, id, form)
    BY <2>1, Zenon
  <2> QED BY <2>2, Zenon DEF IsWritten
<1>3. /\ channelIds' \in Nat /\ channelIds <= channelIds' /\ DOMAIN savedChannels' \subseteq 1 .. channelIds'
      /\ \A n \in Nat : n <= channelIds => n <= channelIds'
      /\ id \in DOMAIN savedChannels \/ ~(id <= channelIds)
  BY <1>1, <1>2
<1>4. \A c \in DOMAIN savedChannels : c \in DOMAIN savedChannels' /\ savedChannels'[c].name = savedChannels[c].name
  <2>1. ASSUME NEW c \in DOMAIN savedChannels, c = id PROVE savedChannels'[c].name = savedChannels[c].name
    <3>1. id \in DOMAIN savedChannels /\ id <= channelIds
      <4>1. id \in 1 .. channelIds
        BY <1>1, <2>1, Zenon
      <4> QED BY <1>1, <2>1, <4>1
    <3>2. ~(id = channelIds + 1)
      BY <1>1, <3>1
    <3> QED BY <1>2, <2>1, <3>2, Zenon DEF NameOf
  <2> QED BY <1>2, <2>1, Zenon
<1>5. ChannelNames \subseteq ChannelNames'
  BY <1>4, Zenon DEF ChannelNames, NameOf
<1>6. RuleRows'
  BY <1>1, <1>5, Zenon DEF RuleRows
<1>7. ChannelRows'
  <2>1. ASSUME NEW c \in DOMAIN savedChannels' PROVE Formed(savedChannels'[c]) /\ Parse(savedChannels'[c])
    BY <1>1, <1>2, Zenon DEF ChannelRows
  <2>2. ASSUME NEW c \in DOMAIN savedChannels', NEW d \in DOMAIN savedChannels',
               savedChannels'[c].name = savedChannels'[d].name
        PROVE  c = d
    <3>1. CASE id \in DOMAIN savedChannels
      BY <1>1, <1>2, <1>4, <2>2, <3>1, Zenon DEF ChannelRows, NameOf
    <3>2. CASE id \notin DOMAIN savedChannels
      BY <1>1, <1>2, <1>4, <2>2, <3>2, Zenon DEF ChannelRows, NameOf
    <3> QED BY <3>1, <3>2, Zenon
  <2> QED BY <1>3, <2>1, <2>2, Zenon DEF ChannelRows, NameOf
<1>8. ASSUME NEW q, Pending(q) PROVE Pending(q)'
  <2>1. SameChannel(q) => SameChannel(q)'
    <3> SUFFICES ASSUME SameChannel(q) PROVE SameChannel(q)'
      OBVIOUS
    <3>1. q.id \in Nat
      BY <1>8, Zenon DEF Pending, Shaped
    <3>2. q.id <= channelIds'
      BY <1>3, <3>1, Zenon DEF SameChannel
    <3>3. q.id \in DOMAIN savedChannels' => q.id \in DOMAIN savedChannels
      BY <1>2, <1>3, Zenon DEF SameChannel
    <3> QED BY <1>4, <3>2, <3>3, Zenon DEF SameChannel, NameOf
  <2>2. NotPicked(q.form.name) => NotPicked(q.form.name)'
    BY Zenon DEF NotPicked
  <2> QED BY <1>5, <1>8, <2>1, <2>2, Zenon DEF Pending
<1> QED BY <1>6, <1>7, <1>8, Zenon

LEMMA SaveChannelWritesKeeps ==
    ASSUME RequestsInv, NEW r \in Slots, SaveChannelWrites(r)
    PROVE  RequestsInv'
<1>1. PICK q : q = request[r]
  BY Zenon
<1>2. Pending(q) /\ q.op = "SaveChannel" /\ q.at = "write" /\ ChannelRows /\ Underway
  BY <1>1, Handled, Zenon DEF SaveChannelWrites, Handles, RequestsInv
<1>3. PICK id : id = IF q.id = 0 THEN channelIds + 1 ELSE q.id
  BY Zenon
<1>4. PICK p : p = [q EXCEPT !.at = "reread", !.saved = id, !.form = Blank, !.kept = FALSE]
  BY Zenon
<1>5. \/ /\ \E code, done : Ends(r, code, done)
         /\ UNCHANGED <<savedRules, savedChannels, ruleIds, channelIds, excused>>
      \/ /\ ChannelError(q.form, q.id) = "none"
         /\ request' = [request EXCEPT ![r] = p]
         /\ savedChannels' = With(savedChannels, id, q.form)
         /\ channelIds' = IF q.id = 0 THEN id ELSE channelIds
         /\ UNCHANGED <<savedRules, ruleIds, excused>>
  BY <1>1, <1>3, <1>4, Zenon DEF SaveChannelWrites, Continues
<1>6. CASE /\ \E code, done : Ends(r, code, done)
           /\ UNCHANGED <<savedRules, savedChannels, ruleIds, channelIds, excused>>
  BY <1>6, EndsUnwritten, Zenon
<1>7. CASE /\ ChannelError(q.form, q.id) = "none"
           /\ request' = [request EXCEPT ![r] = p]
           /\ savedChannels' = With(savedChannels, id, q.form)
           /\ channelIds' = IF q.id = 0 THEN id ELSE channelIds
           /\ UNCHANGED <<savedRules, ruleIds, excused>>
  <2>1. /\ q.id = 0 => ~Taken(savedChannels, q.form.name, 0)
        /\ q.id # 0 => q.id \in DOMAIN savedChannels
    BY <1>7, ChannelErrors, Zenon
  <2>2. q.id \in Nat /\ channelIds \in Nat /\ DOMAIN savedChannels \subseteq 1 .. channelIds
        /\ Formed(q.form) /\ Parse(q.form) /\ SameChannel(q)
    BY <1>2, Zenon DEF Pending, Shaped, ChannelRows
  <2>3. id \in Nat /\ 0 \notin DOMAIN savedChannels
    BY <1>3, <2>2
  <2>4. \/ /\ id = channelIds + 1 /\ channelIds' = id
           /\ \A c \in DOMAIN savedChannels : NameOf(c) # q.form.name
        \/ id \in DOMAIN savedChannels /\ channelIds' = channelIds /\ q.form.name = NameOf(id)
    <3>1. CASE q.id = 0
      BY <1>3, <1>7, <2>1, <2>3, <3>1, Zenon DEF Taken, NameOf
    <3>2. CASE q.id # 0
      BY <1>3, <1>7, <2>1, <2>2, <3>2, Zenon DEF SameChannel
    <3> QED BY <3>1, <3>2, Zenon
  <2>5. RuleRows' /\ ChannelRows' /\ \A o : Pending(o) => Pending(o)'
    BY <1>7, <2>2, <2>3, <2>4, ChannelSaved, Zenon
  <2>6. Pending(p)
    <3>1. Reaches(p, q, "reread", Blank)
      BY <1>2, <1>4, Reached, Zenon DEF Pending
    <3> QED BY <1>2, <3>1, Zenon DEF Pending, Reaches
  <2>7. DOMAIN request' = Slots /\ \A s \in Slots : request'[s] = request[s] \/ request'[s] = p
    BY <1>2, <1>7, OneChanges, Zenon
  <2>8. Underway'
    BY <1>2, <2>5, <2>6, <2>7, OthersWait, Zenon
  <2> QED BY <2>5, <2>8, Zenon DEF RequestsInv
<1> QED BY <1>5, <1>6, <1>7, Zenon

LEMMA DeleteChannelWritesKeeps ==
    ASSUME RequestsInv, NEW r \in Slots, DeleteChannelWrites(r)
    PROVE  RequestsInv'
<1>1. PICK q : q = request[r]
  BY Zenon
<1>2. Pending(q) /\ q.op = "DeleteChannel" /\ q.at = "write" /\ RuleRows /\ ChannelRows /\ Underway
  BY <1>1, Handled, Zenon DEF DeleteChannelWrites, Handles, RequestsInv
<1>3. PICK n : n = q.form.name
  BY Zenon
<1>4. SameChannel(q) /\ NotPicked(n)
  BY <1>2, <1>3, Zenon DEF Pending
<1>5. /\ request' = [request EXCEPT ![r] = Idle]
      /\ excused \subseteq excused' /\ (Saving(n) => n \in excused')
      /\ UNCHANGED <<savedRules, ruleIds, channelIds>>
      /\ \/ savedChannels' = savedChannels
         \/ q.id \in DOMAIN savedChannels /\ savedChannels' = Without(savedChannels, q.id)
  BY <1>1, <1>3, Zenon DEF DeleteChannelWrites, Ends
<1>6. /\ DOMAIN savedChannels' \subseteq DOMAIN savedChannels
      /\ \A c \in DOMAIN savedChannels' : savedChannels'[c] = savedChannels[c]
      /\ \A c \in DOMAIN savedChannels : c \in DOMAIN savedChannels' \/ NameOf(c) = n
  <2>1. CASE savedChannels' = savedChannels
    BY <2>1, Zenon
  <2>2. CASE q.id \in DOMAIN savedChannels /\ savedChannels' = Without(savedChannels, q.id)
    <3>1. IsDeleted(Without(savedChannels, q.id), savedChannels, q.id)
      BY RowDeleted, Zenon
    <3>2. IsDeleted(savedChannels', savedChannels, q.id)
      BY <2>2, <3>1, Zenon
    <3> QED BY <1>3, <1>4, <2>2, <3>2, Zenon DEF IsDeleted, SameChannel
  <2> QED BY <1>5, <2>1, <2>2, Zenon
<1>7. ChannelNames \subseteq ChannelNames' \cup {n}
  BY <1>6, Zenon DEF ChannelNames, NameOf
<1>8. RuleRows'
  <2>1. ASSUME NEW i \in DOMAIN savedRules PROVE savedRules[i].channels \subseteq ChannelNames' \cup excused'
    BY <1>2, <1>4, <1>5, <1>7, Zenon DEF RuleRows, NotPicked
  <2> QED BY <1>2, <1>5, <2>1, Zenon DEF RuleRows
<1>9. ChannelRows'
  BY <1>2, <1>5, <1>6, Zenon DEF ChannelRows, NameOf
<1>10. ASSUME NEW p, NEW s \in Slots, p = request[s], Pending(p) PROVE Pending(p)'
  <2>1. SameChannel(p) => SameChannel(p)'
    BY <1>5, <1>6, Zenon DEF SameChannel, NameOf
  <2>2. NotPicked(p.form.name) => NotPicked(p.form.name)'
    BY <1>5, Zenon DEF NotPicked
  <2>3. p.op = "SaveRule" /\ p.at = "write" => p.form.channels \subseteq ChannelNames' \cup excused'
    <3> SUFFICES ASSUME p.op = "SaveRule", p.at = "write", NEW m \in p.form.channels
                 PROVE  m \in ChannelNames' \cup excused'
      BY Zenon
    <3>1. m \in ChannelNames \cup excused
      BY <1>10, Zenon DEF Pending
    <3>2. m = n => Saving(n)
      BY <1>10, Zenon DEF Saving, Handles
    <3> QED BY <1>5, <1>7, <3>1, <3>2, Zenon
  <2> QED BY <1>10, <2>1, <2>2, <2>3, Zenon DEF Pending
<1>11. DOMAIN request' = Slots /\ \A s \in Slots : request'[s] = request[s] \/ request'[s] = Idle
  BY <1>2, <1>5, OneChanges, Zenon
<1>12. Underway'
  BY <1>2, <1>10, <1>11, OthersWait, Zenon
<1> QED BY <1>8, <1>9, <1>12, Zenon DEF RequestsInv

LEMMA FewIds == \A k \in {0, 1} : k \in Nat /\ 0 \notin 1 .. k /\ \A i, j \in 1 .. k : i = j
  OBVIOUS

LEMMA RequestsInitInv ==
    ASSUME RequestsAssumption, RequestsInit
    PROVE  RequestsInv
<1>1. PICK form \in {f \in ChannelForms : checkChannelName(f) /\ Parse(f)}, n \in {0, 1} :
          savedChannels = [c \in 1 .. n |-> form] /\ channelIds = n
  BY Zenon DEF RequestsInit
<1>2. PICK rule \in {f \in RuleForms : Validate(f) /\ checkRuleChannels(f)}, m \in {0, 1} :
          savedRules = [i \in 1 .. m |-> rule] /\ ruleIds = m
  BY Zenon DEF RequestsInit
<1>3. \A k \in {0, 1} : k \in Nat /\ 0 \notin 1 .. k /\ \A i, j \in 1 .. k : i = j
  BY FewIds, Zenon
<1>4. RuleRows
  <2>1. DOMAIN savedRules = 1 .. m /\ \A i \in 1 .. m : savedRules[i] = rule
    BY <1>2, Zenon
  <2> QED BY <1>2, <1>3, <2>1, Zenon DEF RuleRows, checkRuleChannels
<1>5. ChannelRows
  <2>1. DOMAIN savedChannels = 1 .. n /\ \A c \in 1 .. n : savedChannels[c] = form
    BY <1>1, Zenon
  <2>2. Formed(form)
    BY <1>1, Zenon DEF RequestsAssumption, Formed
  <2> QED BY <1>1, <1>3, <2>1, <2>2, Zenon DEF ChannelRows
<1>6. Underway
  BY Zenon DEF RequestsInit, Underway
<1> QED BY <1>4, <1>5, <1>6, Zenon DEF RequestsInv

\* SavedWork for any number of requests at one time, and every set of rules and
\* channels that may be sent: Validate, checkRuleChannels, DeleteChannel's check,
\* KeepSecrets and Parse hold together whichever statements of the handlers interleave.
THEOREM SavedWorks == RequestsSpec => []SavedWork
<1>1. RequestsInit => RequestsInv
  BY RequestsAssumption, RequestsInitInv, Zenon
<1>2. RequestsInv /\ [RequestsNext]_requestVars => RequestsInv'
  <2> SUFFICES ASSUME RequestsInv, [RequestsNext]_requestVars
               PROVE  RequestsInv'
    OBVIOUS
  <2>1. ASSUME NEW r \in Slots, Asks(r) PROVE RequestsInv'
    BY <2>1, RequestsAssumption, ArrivesKeeps, Zenon
  <2>2. ASSUME NEW r \in Slots, Handler(r) PROVE RequestsInv'
    BY <2>2, SaveRuleChecksKeeps, SaveRuleWritesKeeps, DeleteRuleKeeps, SaveChannelReadsKeeps,
       SaveChannelWritesKeeps, TestChannelKeeps, DeleteChannelReadsKeeps, DeleteChannelWritesKeeps, Zenon DEF Handler
  <2>3. ASSUME NEW r, NEW code, Refused(r, code) PROVE RequestsInv'
    BY <2>3, RefusedKeeps, Zenon DEF Refused
  <2>4. ASSUME NEW r \in Slots, NEW err, StatementFails(r, err) PROVE RequestsInv'
    BY <2>4, EndsUnwritten, Zenon DEF StatementFails
  <2>5. ASSUME NEW form \in RuleForms, ImportRules(form) PROVE RequestsInv'
    BY <2>5, ImportRulesKeeps, Zenon
  <2>6. CASE UNCHANGED requestVars
    BY <2>6, RefusedKeeps, Zenon DEF requestVars
  <2> QED BY <2>1, <2>2, <2>3, <2>4, <2>5, <2>6, Zenon DEF RequestsNext
<1>3. RequestsInv => SavedWork
  BY RequestsAssumption, InvSaves, Zenon
<1> QED BY <1>1, <1>2, <1>3, PTL DEF RequestsSpec

=============================================================================

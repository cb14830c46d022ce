------------------------------- MODULE Lockout ------------------------------
(***************************************************************************)
(* The collector counts the wrong passwords for each user name and refuses *)
(* a name that had too many of them in a window.  A password is hashed     *)
(* between the look at the count and its increment, so checks overlap.     *)
(*                                                                         *)
(*   internal/api/login.go                                                 *)
(*                                                                         *)
(* A window has an age, which stops at its length.                         *)
(***************************************************************************)
EXTENDS Naturals, FiniteSets

CONSTANTS
    Names,          \* user names
    Checks,         \* Login and CheckPassword calls that can overlap
    LoginLimit,
    LoginWindow,
    PruneAbove,     \* names remembered before fail looks for old ones
    NoCheck

ASSUME LockoutAssumption ==
    /\ LoginLimit \in Nat \ {0} /\ LoginWindow \in Nat \ {0} /\ PruneAbove \in Nat
    /\ IsFiniteSet(Checks) /\ NoCheck \notin Names

VARIABLES
    failed,     \* loginFailures.byName
    checks      \* the name whose password each call is checking

lockoutVars == <<failed, checks>>

\* A name that is not in the map.
NoWindow == [count |-> 0, age |-> LoginWindow]

LockoutInit ==
    /\ failed = [n \in Names |-> NoWindow]
    /\ checks = [k \in Checks |-> NoCheck]

Over(n) == failed[n].age >= LoginWindow

\* Mutant: one more is let through.
blocked_Late(n) == failed[n].count > LoginLimit /\ ~Over(n)

blocked(n) == failed[n].count >= LoginLimit /\ ~Over(n)

\* checkLogin up to the hash; a name that is locked out is refused.
CheckBegins(k, n) ==
    /\ checks[k] = NoCheck
    /\ ~blocked(n)
    /\ checks' = [checks EXCEPT ![k] = n]
    /\ UNCHANGED failed

Remembered == {n \in Names : failed[n] # NoWindow}

\* Old windows are dropped when there are many, and a wrong password counts in its
\* name's window or begins a new one.
Counted(n) ==
    [m \in Names |->
        IF m = n THEN IF Over(n) THEN [count |-> 1, age |-> 0] ELSE [failed[n] EXCEPT !.count = @ + 1]
        ELSE IF Cardinality(Remembered) > PruneAbove /\ Over(m) THEN NoWindow
        ELSE failed[m]]

\* The password was wrong.
fail(k) ==
    /\ checks[k] # NoCheck
    /\ failed' = Counted(checks[k])
    /\ checks' = [checks EXCEPT ![k] = NoCheck]

\* The password was right.
clear(k) ==
    /\ checks[k] # NoCheck
    /\ failed' = [failed EXCEPT ![checks[k]] = NoWindow]
    /\ checks' = [checks EXCEPT ![k] = NoCheck]

\* The check failed for another reason, which counts for nothing.
CheckFails(k) ==
    /\ checks[k] # NoCheck
    /\ checks' = [checks EXCEPT ![k] = NoCheck]
    /\ UNCHANGED failed

\* The collector restarts.
FailuresForgotten ==
    /\ failed' = [n \in Names |-> NoWindow]
    /\ checks' = [k \in Checks |-> NoCheck]

TimePasses ==
    /\ failed' = [n \in Names |-> IF Over(n) THEN failed[n] ELSE [failed[n] EXCEPT !.age = @ + 1]]
    /\ UNCHANGED checks

LockoutNext ==
    \/ \E k \in Checks : \/ \E n \in Names : CheckBegins(k, n)
                         \/ fail(k)
                         \/ clear(k)
                         \/ CheckFails(k)
    \/ FailuresForgotten
    \/ TimePasses

LockoutSpec == LockoutInit /\ [][LockoutNext]_lockoutVars

-----------------------------------------------------------------------------
(* Properties *)

\* "A user name gets loginLimit wrong passwords per loginWindow", and in one window
\* no more than the checks that had begun before the last of them was counted.
LoginsLimited ==
    \A n \in Names : ~Over(n) => failed[n].count < LoginLimit + Cardinality(Checks)

=============================================================================

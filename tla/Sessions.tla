------------------------------ MODULE Sessions ------------------------------
(***************************************************************************)
(* Signing in and staying signed in: the login throttle, which lives in    *)
(* the memory of the one process, and the sessions, rows that a request    *)
(* reads when it begins and writes when it is let through.  Time is in     *)
(* whole seconds.                                                          *)
(***************************************************************************)
EXTENDS Integers

CONSTANTS
  Cookies,     \* sessions, named by their token
  Requests,    \* requests the API serves at once
  Clients,     \* client addresses, the keys of the throttle
  MaxAge,      \* session_max_age_seconds
  IdleTtl,     \* session_idle_ttl_seconds; 0 switches the idle rule off
  MaxDelay,    \* LoginThrottle.max_delay_seconds
  MaxTime      \* bound on the clock

ASSUME SessionsAssumption ==
  MaxAge \in Nat /\ IdleTtl \in Nat /\ MaxDelay \in Nat /\ MaxTime \in Nat

VARIABLES
  now,       \* the clock
  session,   \* auth_sessions: cookie -> row
  serving,   \* the request each slot is serving
  attempts,  \* LoginThrottle._attempts: client -> failures, blocked until
  activeAt,  \* history: when a request of the session was last let through
  loggedOut, \* history: sessions whose logout has committed
  firstAt    \* history: when the current row of failures of a client began

ghosts == <<activeAt, loggedOut, firstAt>>
sessionVars == <<now, session, serving, attempts, ghosts>>

NoRow == [there |-> FALSE, created |-> 0, revoked |-> FALSE, seen |-> 0]
Unbusy == [step |-> "none", cookie |-> "none", at |-> 0, row |-> NoRow]
NoFailures == [failures |-> 0, until |-> 0]

Least(a, b) == IF a <= b THEN a ELSE b

\* seconds a client is held off after its n-th failure in a row
Delay(n) == Least(MaxDelay, 2 ^ Least(n - 1, 5))

-----------------------------------------------------------------------------
(* login *)

Blocked(c) == attempts[c].until > now

\* the block measured from the first failure, not from the last
LoginFailsFromFirst(c) ==
  /\ ~Blocked(c)
  /\ LET n == attempts[c].failures + 1
         first == IF n = 1 THEN now ELSE firstAt[c]
     IN /\ attempts' = [attempts EXCEPT ![c] = [failures |-> n, until |-> first + Delay(n)]]
        /\ firstAt' = [firstAt EXCEPT ![c] = first]
  /\ UNCHANGED <<now, session, serving, activeAt, loggedOut>>

LoginFails(c) ==
  /\ ~Blocked(c)
  /\ LET n == attempts[c].failures + 1
     IN /\ attempts' = [attempts EXCEPT ![c] = [failures |-> n, until |-> now + Delay(n)]]
        /\ firstAt' = IF n = 1 THEN [firstAt EXCEPT ![c] = now] ELSE firstAt
  /\ UNCHANGED <<now, session, serving, activeAt, loggedOut>>

Login(c, k) ==
  /\ ~Blocked(c) /\ ~session[k].there
  /\ attempts' = [attempts EXCEPT ![c] = NoFailures]
  /\ session' = [session EXCEPT ![k] =
                   [there |-> TRUE, created |-> now, revoked |-> FALSE, seen |-> now]]
  /\ activeAt' = [activeAt EXCEPT ![k] = now]
  /\ UNCHANGED <<now, serving, loggedOut, firstAt>>

-----------------------------------------------------------------------------
(* Requests with a session *)

Expired(row) == row.created + MaxAge <= now
IdleTooLong(row) == IdleTtl > 0 /\ now - row.seen >= IdleTtl

\* require_owner reads the row and decides; what it turns away leaves no trace
Admit(q, k) ==
  LET row == session[k]
  IN /\ serving[q].step = "none"
     /\ row.there /\ ~row.revoked /\ ~Expired(row) /\ ~IdleTooLong(row)
     /\ serving' = [serving EXCEPT ![q] =
                      [step |-> "touch", cookie |-> k, at |-> now, row |-> row]]
     /\ activeAt' = [activeAt EXCEPT ![k] = now]
     /\ UNCHANGED <<now, session, attempts, loggedOut, firstAt>>

\* the row written back as it was read
TouchRow(q) ==
  LET r == serving[q]
  IN /\ r.step = "touch"
     /\ session' = [session EXCEPT ![r.cookie] = [r.row EXCEPT !.seen = r.at]]
     /\ serving' = [serving EXCEPT ![q].step = "body"]
     /\ UNCHANGED <<now, attempts, ghosts>>

\* and commits the stamp it took then: the one column it changed
Touch(q) ==
  LET r == serving[q]
  IN /\ r.step = "touch"
     /\ session' = [session EXCEPT ![r.cookie].seen = r.at]
     /\ serving' = [serving EXCEPT ![q].step = "body"]
     /\ UNCHANGED <<now, attempts, ghosts>>

\* whatever else the request does; without the CSRF token of this very session
\* nothing but reading
Respond(q) ==
  /\ serving[q].step = "body"
  /\ serving' = [serving EXCEPT ![q] = Unbusy]
  /\ UNCHANGED <<now, session, attempts, ghosts>>

\* with the CSRF token
Logout(q) ==
  LET k == serving[q].cookie
  IN /\ serving[q].step = "body"
     /\ session' = [session EXCEPT ![k].revoked = TRUE]
     /\ loggedOut' = loggedOut \cup {k}
     /\ serving' = [serving EXCEPT ![q] = Unbusy]
     /\ UNCHANGED <<now, attempts, activeAt, firstAt>>

\* the process starts anew: requests and throttle are gone, sessions are not
Reboot ==
  /\ serving' = [q \in Requests |-> Unbusy]
  /\ attempts' = [c \in Clients |-> NoFailures]
  /\ UNCHANGED <<now, session, ghosts>>

Tick ==
  /\ now < MaxTime
  /\ now' = now + 1
  /\ UNCHANGED <<session, serving, attempts, ghosts>>

SessionsInit ==
  /\ now = 0
  /\ session = [k \in Cookies |-> NoRow]
  /\ serving = [q \in Requests |-> Unbusy]
  /\ attempts = [c \in Clients |-> NoFailures]
  /\ activeAt = [k \in Cookies |-> 0] /\ loggedOut = {}
  /\ firstAt = [c \in Clients |-> 0]

SessionsNext ==
  \/ \E c \in Clients : LoginFails(c)
  \/ \E c \in Clients, k \in Cookies : Login(c, k)
  \/ \E q \in Requests, k \in Cookies : Admit(q, k)
  \/ \E q \in Requests : Touch(q) \/ Respond(q) \/ Logout(q)
  \/ Tick \/ Reboot

SessionsSpec == SessionsInit /\ [][SessionsNext]_sessionVars

-----------------------------------------------------------------------------
Admitted(q, k) ==
  serving[q].step = "none" /\ serving'[q].step = "touch" /\ serving'[q].cookie = k

\* A session that was logged out, has reached its age or had no request within the
\* idle time is dead for good, however late the stamps of requests that ran at the
\* same time are committed (dependencies.py, security).
OnlyLiveAdmitted ==
  \A q \in Requests, k \in Cookies :
    Admitted(q, k) =>
      /\ k \notin loggedOut
      /\ now < session[k].created + MaxAge
      /\ IdleTtl > 0 => now - activeAt[k] < IdleTtl

DeadStaysDead == [][OnlyLiveAdmitted]_sessionVars

Held[n \in Nat] == IF n = 0 THEN 0 ELSE Held[n - 1] + Delay(n)

\* The delays add up: as long as the process lives, a client that keeps failing has
\* been held off for all of them since its first failure (LoginThrottle).
ThrottleAddsUp ==
  \A c \in Clients :
    attempts[c].failures > 0 =>
      attempts[c].until - firstAt[c] >= Held[attempts[c].failures]
=============================================================================

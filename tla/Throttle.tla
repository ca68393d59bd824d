------------------------------ MODULE Throttle ------------------------------
(***************************************************************************)
(* What slows down sign-ins from one address: the token bucket             *)
(* (resilience/ratelimit.py) and the lockout after failures, and the       *)
(* sessions that a sign-in opens (api/auth.py).  The login handler runs in *)
(* the event loop without an await, so a sign-in is one step.  The limiter *)
(* can also be waited on and dropped when idle (acquire, cleanup); nothing *)
(* in the program calls either, and they are left out.                     *)
(*                                                                         *)
(* A tick is the time in which one token comes back.                       *)
(***************************************************************************)
EXTENDS Integers, FiniteSets

CONSTANTS
    Burst,    \* burst_size
    MaxFails, \* failures that lock an address out
    Window,   \* ticks after which the failures are forgotten
    Session,  \* ticks a session lasts
    None,     \* no limiter, no failures, no session
    MaxTime   \* bound on the time of a behaviour

ThrottleAssumption ==
    /\ Burst \in Nat \ {0}
    /\ MaxFails \in Nat \ {0}
    /\ Window \in Nat
    /\ Session \in Nat
    /\ MaxTime \in Nat
    /\ None \notin [tokens : Nat, last : Nat] \cup [count : Nat, reset : Nat]

VARIABLES
    now,
    bucket,  \* the limiter of the address: its tokens, and when it was refilled
    fails,   \* auth_failures: how many, and when they are forgotten
    session, \* when the session of the cookie expires
    granted, \* tokens given at each time (history, not code)
    wrong    \* failures at each time since the latest success (history)

vars == <<now, bucket, fails, session, granted, wrong>>

Times == 0..MaxTime

Init ==
    /\ now = 0
    /\ bucket = None
    /\ fails = None
    /\ session = None
    /\ granted = [t \in Times |-> 0]
    /\ wrong = [t \in Times |-> 0]

Tick ==
    /\ now < MaxTime
    /\ now' = now + 1
    /\ UNCHANGED <<bucket, fails, session, granted, wrong>>

------------------------------------------------------------------------------
(***************************************************************************)
(* The token bucket.                                                       *)
(***************************************************************************)

\* get_or_create.
Limiter == IF bucket = None THEN [tokens |-> Burst, last |-> now] ELSE bucket

\* _refill_locked.
Refilled ==
    LET tokens == Limiter.tokens + (now - Limiter.last)
    IN  IF tokens > Burst THEN Burst ELSE tokens

Granted == [granted EXCEPT ![now] = @ + 1]

\* try_acquire finds a token, or does not: the time of the refill is kept.
Grant ==
    /\ Refilled >= 1
    /\ bucket' = [tokens |-> Refilled - 1, last |-> now]
    /\ granted' = Granted

Deny ==
    /\ Refilled < 1
    /\ bucket' = [tokens |-> Refilled, last |-> now]
    /\ UNCHANGED granted

------------------------------------------------------------------------------
(***************************************************************************)
(* Sign-in, sign-out and the session.                                      *)
(***************************************************************************)

\* _prune_failures, and the defaults of an address without failures.
Forgotten == fails # None /\ now > fails.reset

Counted ==
    IF fails = None \/ Forgotten THEN [count |-> 0, reset |-> now + Window]
    ELSE fails

TooFast ==
    /\ Deny
    /\ UNCHANGED <<now, fails, session, wrong>>

LockedOut ==
    /\ Grant
    /\ Counted.count >= MaxFails
    /\ UNCHANGED <<now, fails, session, wrong>>

\* Faulty variant: every failure puts off the end of the lockout.
SignInFailsSliding ==
    /\ Grant
    /\ Counted.count < MaxFails
    /\ fails' = [count |-> Counted.count + 1, reset |-> now + Window]
    /\ wrong' = [wrong EXCEPT ![now] = @ + 1]
    /\ UNCHANGED <<now, session>>

SignInFails ==
    /\ Grant
    /\ Counted.count < MaxFails
    /\ fails' = [Counted EXCEPT !.count = @ + 1]
    /\ wrong' = [wrong EXCEPT ![now] = @ + 1]
    /\ UNCHANGED <<now, session>>

SignIn ==
    /\ Grant
    /\ Counted.count < MaxFails
    /\ fails' = None
    /\ wrong' = [t \in Times |-> 0]
    /\ session' = now + Session
    /\ UNCHANGED <<now>>

SignOut ==
    /\ session # None
    /\ session' = None
    /\ UNCHANGED <<now, bucket, fails, granted, wrong>>

\* _require_session: a page is served.
LetIn == session # None /\ session > now

Next ==
    \/ Tick
    \/ TooFast
    \/ LockedOut
    \/ SignInFails
    \/ SignIn
    \/ SignOut

Spec == Init /\ [][Next]_vars

------------------------------------------------------------------------------
\* Units of a count over the times from t to u.
Within(count, t, u) ==
    Cardinality(UNION {{s} \X (1..count[s]) : s \in {s \in Times : t <= s /\ s <= u}})

\* No stretch of time sees more grants than the burst and what flows back in
\* it.  A lockout ends a window after the first of its failures, attempts made
\* meanwhile do not put that off, and the failures of one window are at most
\* the limit.  The window does not slide, so the last failures of one and the
\* first of the next may fall close together: "locked out after eight failures
\* in ten minutes" holds of the windows themselves, and any other stretch of
\* that length has less than twice the limit.  A session ends when it should.
Throttled ==
    /\ \A t \in Times : t <= now => Within(granted, t, now) <= Burst + (now - t)
    /\ fails # None =>
          /\ fails.reset - Window >= 0
          /\ wrong[fails.reset - Window] > 0
          /\ Within(wrong, fails.reset - Window, now) = fails.count
          /\ fails.count <= MaxFails
    /\ \A t \in Times : t + Window <= MaxTime =>
          Within(wrong, t, t + Window) < 2 * MaxFails
    /\ fails # None /\ now <= fails.reset => fails.reset <= now + Window
    /\ LetIn => session <= now + Session
=============================================================================

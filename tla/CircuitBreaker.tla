-------------------------- MODULE CircuitBreaker --------------------------
(***************************************************************************)
(* The circuit breaker of resilience/circuitbreaker.py: closed, open and   *)
(* half-open, with the requests of a generation counted until the state    *)
(* changes or the closed window rolls over.                                *)
(*                                                                         *)
(* _before_call and _after_call run under the breaker's lock, so each is   *)
(* one step; the protected call itself lies between them.  A generation    *)
(* number is only ever compared for equality with the current one, so a    *)
(* call under way is either "current" or "stale".  Time is what is left    *)
(* until the expiry.                                                       *)
(***************************************************************************)
EXTENDS Integers, FiniteSets

CONSTANTS
    Callers,       \* threads that make protected calls
    MaxRequests,   \* probes admitted, and successes needed, when half-open
    MinRequests,   \* requests before the failure ratio is looked at
    RatioNum, RatioDen,  \* failure_ratio = RatioNum / RatioDen
    Interval,      \* length of the closed window; 0: it never rolls over
    Timeout,       \* length of the open state
    MaxCount       \* bound: requests counted in one closed window

ASSUME BreakerAssumption ==
    /\ IsFiniteSet(Callers)
    /\ MaxRequests \in Nat \ {0}
    /\ MinRequests \in Nat
    /\ RatioNum \in Nat /\ RatioDen \in Nat \ {0} /\ RatioNum <= RatioDen
    /\ Interval \in Nat
    /\ Timeout \in Nat \ {0}
    /\ MaxCount \in Nat

VARIABLES
    state,      \* "closed", "open" or "half-open"
    requests,   \* calls admitted in this generation
    successes,  \* of these, the ones that returned well
    failures,   \* of these, the ones that failed
    streak,     \* successes since the last failure
    left,       \* time until the expiry
    call        \* what each caller is doing

counts == <<requests, successes, failures, streak>>
vars   == <<state, requests, successes, failures, streak, left, call>>

States == {"closed", "open", "half-open"}
Calls  == {"none", "current", "stale"}

TypeOK ==
    /\ state \in States
    /\ requests \in Nat
    /\ successes \in Nat
    /\ failures \in Nat
    /\ streak \in Nat
    /\ left \in Nat
    /\ call \in [Callers -> Calls]

Init ==
    /\ state = "closed"
    /\ requests = 0
    /\ successes = 0
    /\ failures = 0
    /\ streak = 0
    /\ left = Interval
    /\ call = [c \in Callers |-> "none"]

------------------------------------------------------------------------------

\* _compute_expiry: how long a state lasts.
Lifetime(s) == CASE s = "closed" -> Interval
                 [] s = "open"   -> Timeout
                 [] OTHER        -> 0

\* _current_state: before anything else, every look at the breaker rolls the
\* closed window over or ends the open state, and starts a new generation.
\* (Faulty variant: the open state must have ended before, not now.)
CoolingOverStrict == state = "open" /\ left < 0

WindowOver  == state = "closed" /\ Interval > 0 /\ left = 0
CoolingOver == state = "open" /\ left = 0
Lapsed      == WindowOver \/ CoolingOver

NowState   == IF CoolingOver THEN "half-open" ELSE state
NowLeft    == IF Lapsed THEN Lifetime(NowState) ELSE left
Now(count) == IF Lapsed THEN 0 ELSE count
NowCall    == [c \in Callers |-> IF Lapsed /\ call[c] = "current"
                                 THEN "stale"
                                 ELSE call[c]]

\* _transition: a new generation in state s; the calls under way, the one
\* that ends excepted, belong to the old one.
Transition(s, ended) ==
    /\ state' = s
    /\ left' = Lifetime(s)
    /\ requests' = 0
    /\ successes' = 0
    /\ failures' = 0
    /\ streak' = 0
    /\ call' = [c \in Callers |-> IF c = ended \/ call[c] = "none"
                                  THEN "none"
                                  ELSE "stale"]

\* The breaker, brought up to date, stays as it is; the call ends.
Stay(ended) ==
    /\ state' = NowState
    /\ left' = NowLeft
    /\ requests' = Now(requests)
    /\ call' = [NowCall EXCEPT ![ended] = "none"]

------------------------------------------------------------------------------
\* state(), as the health check asks for it.
Look ==
    /\ Lapsed
    /\ state' = NowState
    /\ left' = NowLeft
    /\ requests' = 0
    /\ successes' = 0
    /\ failures' = 0
    /\ streak' = 0
    /\ call' = NowCall

\* Faulty variant: one probe too many.
AdmitOneMore(c) ==
    /\ call[c] = "none"
    /\ NowState # "open"
    /\ NowState = "half-open" => Now(requests) <= MaxRequests
    /\ NowState = "closed" => Now(requests) < MaxCount
    /\ state' = NowState
    /\ left' = NowLeft
    /\ requests' = Now(requests) + 1
    /\ successes' = Now(successes)
    /\ failures' = Now(failures)
    /\ streak' = Now(streak)
    /\ call' = [NowCall EXCEPT ![c] = "current"]

\* _before_call: an open breaker, and a half-open one at its probe limit,
\* refuse the call and change nothing, so only admission is a step.
Admit(c) ==
    /\ call[c] = "none"
    /\ NowState # "open"
    /\ NowState = "half-open" => Now(requests) < MaxRequests
    /\ NowState = "closed" => Now(requests) < MaxCount
    /\ state' = NowState
    /\ left' = NowLeft
    /\ requests' = Now(requests) + 1
    /\ successes' = Now(successes)
    /\ failures' = Now(failures)
    /\ streak' = Now(streak)
    /\ call' = [NowCall EXCEPT ![c] = "current"]

\* Faulty variant: the generation of the call is not compared.
DiscardCounted(c) ==
    /\ NowCall[c] = "stale"
    /\ Stay(c)
    /\ successes' = Now(successes) + 1
    /\ failures' = Now(failures)
    /\ streak' = Now(streak) + 1

\* _after_call for a call of an earlier generation: the result is dropped.
Discard(c) ==
    /\ NowCall[c] = "stale"
    /\ Stay(c)
    /\ successes' = Now(successes)
    /\ failures' = Now(failures)
    /\ streak' = Now(streak)

\* Faulty variant: one good probe is enough.
SucceedAtOnce(c) ==
    /\ NowCall[c] = "current"
    /\ IF state = "half-open"
       THEN Transition("closed", c)
       ELSE /\ Stay(c)
            /\ successes' = successes + 1
            /\ streak' = streak + 1
            /\ UNCHANGED failures

\* _after_call, success: the last of the probes that all succeeded closes a
\* half-open breaker.
Succeed(c) ==
    /\ NowCall[c] = "current"
    /\ IF state = "half-open" /\ streak + 1 >= MaxRequests
       THEN Transition("closed", c)
       ELSE /\ Stay(c)
            /\ successes' = successes + 1
            /\ streak' = streak + 1
            /\ UNCHANGED failures

\* _ready_to_trip, on the counts after the failure.
ReadyToTrip(reqs, fails) ==
    /\ reqs >= MinRequests
    /\ fails * RatioDen >= reqs * RatioNum

\* Faulty variant: a failed probe counts, and no more.
FailTolerated(c) ==
    /\ NowCall[c] = "current"
    /\ IF state = "closed" /\ ReadyToTrip(requests, failures + 1)
       THEN Transition("open", c)
       ELSE /\ Stay(c)
            /\ failures' = failures + 1
            /\ streak' = 0
            /\ UNCHANGED successes

\* _after_call, failure: it may trip a closed breaker, and reopens a
\* half-open one.
Fail(c) ==
    /\ NowCall[c] = "current"
    /\ IF state = "half-open" \/ ReadyToTrip(requests, failures + 1)
       THEN Transition("open", c)
       ELSE /\ Stay(c)
            /\ failures' = failures + 1
            /\ streak' = 0
            /\ UNCHANGED successes

Tick ==
    /\ left > 0
    /\ left' = left - 1
    /\ UNCHANGED <<state, counts, call>>

Next ==
    \/ \E c \in Callers : Admit(c) \/ Discard(c) \/ Succeed(c) \/ Fail(c)
    \/ Look
    \/ Tick

Spec == Init /\ [][Next]_vars

\* Calls end (the protected request has a timeout), time passes, and there
\* are always new calls to make.
Fairness ==
    /\ \A c \in Callers : /\ WF_vars(Discard(c) \/ Succeed(c) \/ Fail(c))
                          /\ SF_vars(Admit(c))
    /\ WF_vars(Tick)

FairSpec == Spec /\ Fairness

------------------------------------------------------------------------------
(***************************************************************************)
(* Properties.                                                             *)
(***************************************************************************)
UnderWay == {c \in Callers : call[c] = "current"}

\* Every request counted in this generation is accounted for: it returned
\* well, it failed, or it is under way.  A result of an earlier generation is
\* never counted, and none of this one is lost.
AccountedFor == requests = successes + failures + Cardinality(UnderWay)

\* No call of the current generation runs while the breaker is open.
OpenIsQuiet == state = "open" => UnderWay = {} /\ requests = 0

\* While half-open the dependency sees at most MaxRequests probes, counting
\* the finished ones, none of which failed.
ProbesBounded ==
    state = "half-open" =>
        /\ requests <= MaxRequests
        /\ failures = 0
        /\ streak = successes
        /\ streak < MaxRequests

\* A half-open breaker closes only when all its probes have succeeded, and no
\* probe is still under way to disprove it.
ClosesOnProof ==
    [][state = "half-open" /\ state' = "closed" =>
          /\ successes = MaxRequests - 1
          /\ failures = 0
          /\ Cardinality(UnderWay) = 1]_vars

\* The breaker never stays half-open, or open, for ever: the probes decide.
HalfOpenDecides == state = "half-open" ~> state # "half-open"
OpenProbes      == state = "open" ~> state = "half-open"
=============================================================================

----------------------- MODULE CircuitBreakerProofs -----------------------
(***************************************************************************)
(* The circuit breaker counts exactly the calls of its generation, admits  *)
(* at most MaxRequests probes and closes only on their unanimous success,  *)
(* for every number of callers and every configuration.                    *)
(***************************************************************************)
EXTENDS CircuitBreaker, FiniteSetTheorems, TLAPS

\* A half-open breaker closes on unanimous success because its probes are
\* bounded and every request is accounted for.
IInv == TypeOK /\ AccountedFor /\ OpenIsQuiet /\ ProbesBounded

\* The calls under way are finitely many, so counting them is sound.
LEMMA UnderWayFinite == IsFiniteSet(UnderWay) /\ Cardinality(UnderWay) \in Nat
  BY BreakerAssumption, FS_Subset, FS_CardinalityType DEF UnderWay

\* A call that ends leaves one fewer under way.
LEMMA OneFewer ==
  ASSUME NEW c \in UnderWay, UnderWay' = UnderWay \ {c}
  PROVE  Cardinality(UnderWay') = Cardinality(UnderWay) - 1
  BY UnderWayFinite, FS_RemoveElement

\* A call that starts adds one.
LEMMA OneMore ==
  ASSUME NEW c, c \notin UnderWay, UnderWay' = UnderWay \cup {c}
  PROVE  Cardinality(UnderWay') = Cardinality(UnderWay) + 1
  BY UnderWayFinite, FS_AddElement

\* Bringing the breaker up to date keeps the account: either nothing lapsed,
\* or all counts are zero and no call is of the new generation.
LEMMA NowCalls ==
  ASSUME TypeOK
  PROVE  /\ NowCall \in [Callers -> Calls]
         /\ NowState \in States
         /\ NowLeft \in Nat
         /\ ~Lapsed => NowCall = call /\ NowState = state
         /\ Lapsed => {c \in Callers : NowCall[c] = "current"} = {}
  BY BreakerAssumption
     DEF TypeOK, NowCall, NowState, NowLeft, Lifetime, Lapsed, WindowOver,
         CoolingOver, Calls, States

\* A transition starts from nothing.
LEMMA TransitionInv ==
  ASSUME TypeOK, NEW s \in States, NEW c \in Callers, Transition(s, c)
  PROVE  IInv'
<1>1. UnderWay' = {}
  BY DEF UnderWay, Transition
<1>2. TypeOK'
  BY BreakerAssumption DEF TypeOK, Transition, States, Calls, Lifetime
<1>3. Cardinality(UnderWay') = 0
  BY <1>1, FS_EmptySet
<1>4. QED
  BY <1>1, <1>2, <1>3, BreakerAssumption
     DEF IInv, AccountedFor, OpenIsQuiet, ProbesBounded, Transition

\* A look that finds the state over starts from nothing.
LEMMA LookInv == TypeOK /\ Look => IInv'
<1> SUFFICES ASSUME TypeOK, Look PROVE IInv'
  OBVIOUS
<1>1. UnderWay' = {}
  BY NowCalls DEF UnderWay, Look
<1>2. TypeOK'
  BY NowCalls DEF TypeOK, Look
<1>3. Cardinality(UnderWay') = 0
  BY <1>1, FS_EmptySet
<1>4. QED
  BY <1>1, <1>2, <1>3, BreakerAssumption
     DEF IInv, AccountedFor, OpenIsQuiet, ProbesBounded, Look

\* An admitted call is one more request, and one more call under way.
LEMMA AdmitInv ==
  ASSUME IInv, NEW c \in Callers, Admit(c)
  PROVE  IInv'
<1> USE DEF IInv
<1>1. TypeOK'
  BY NowCalls DEF TypeOK, Admit, Now, Calls
<1>2. NowState' = NowState' /\ state' = NowState /\ state' # "open"
  BY DEF Admit
<1>3. CASE Lapsed
  <2>1. UnderWay' = {c}
    BY <1>3, NowCalls DEF UnderWay, Admit
  <2>2. Cardinality(UnderWay') = 1
    BY <2>1, FS_Singleton
  <2>3. requests' = 1 /\ successes' = 0 /\ failures' = 0 /\ streak' = 0
    BY <1>3 DEF Admit, Now
  <2>4. QED
    BY <1>1, <1>2, <2>2, <2>3, BreakerAssumption
       DEF AccountedFor, OpenIsQuiet, ProbesBounded
<1>4. CASE ~Lapsed
  <2>1. UnderWay' = UnderWay \cup {c} /\ c \notin UnderWay
    BY <1>4, NowCalls DEF UnderWay, Admit, TypeOK
  <2>2. Cardinality(UnderWay') = Cardinality(UnderWay) + 1
    BY <2>1, OneMore
  <2>3. /\ requests' = requests + 1 /\ successes' = successes
        /\ failures' = failures /\ streak' = streak /\ state' = state
        /\ state = "half-open" => requests < MaxRequests
    BY <1>4, NowCalls DEF Admit, Now
  <2>4. QED
    BY <1>1, <1>2, <2>2, <2>3, UnderWayFinite, BreakerAssumption
       DEF AccountedFor, OpenIsQuiet, ProbesBounded, TypeOK
<1>5. QED
  BY <1>3, <1>4

\* A stale result changes no count.
LEMMA DiscardInv ==
  ASSUME IInv, NEW c \in Callers, Discard(c)
  PROVE  IInv'
<1> USE DEF IInv
<1>1. TypeOK'
  BY NowCalls DEF TypeOK, Discard, Stay, Now, Calls
<1>2. CASE Lapsed
  <2>1. UnderWay' = {}
    BY <1>2, NowCalls DEF UnderWay, Discard, Stay
  <2>2. Cardinality(UnderWay') = 0
    BY <2>1, FS_EmptySet
  <2>3. requests' = 0 /\ successes' = 0 /\ failures' = 0 /\ streak' = 0
    BY <1>2 DEF Discard, Stay, Now
  <2>4. QED
    BY <1>1, <2>1, <2>2, <2>3, BreakerAssumption
       DEF AccountedFor, OpenIsQuiet, ProbesBounded
<1>3. CASE ~Lapsed
  <2>1. UnderWay' = UnderWay
    BY <1>3, NowCalls DEF UnderWay, Discard, Stay, TypeOK
  <2>2. UNCHANGED <<state, counts>>
    BY <1>3, NowCalls DEF Discard, Stay, Now, counts
  <2>3. QED
    BY <1>1, <2>1, <2>2
       DEF AccountedFor, OpenIsQuiet, ProbesBounded, counts
<1>4. QED
  BY <1>2, <1>3

\* A current call is under way, and nothing has lapsed.
LEMMA CurrentCall ==
  ASSUME TypeOK, NEW c \in Callers, NowCall[c] = "current"
  PROVE  ~Lapsed /\ c \in UnderWay
  BY NowCalls DEF UnderWay

\* A success moves a request from "under way" to "returned well".
LEMMA SucceedInv ==
  ASSUME IInv, NEW c \in Callers, Succeed(c)
  PROVE  IInv'
<1> USE DEF IInv
<1>1. ~Lapsed /\ c \in UnderWay
  BY CurrentCall DEF Succeed
<1>2. CASE state = "half-open" /\ streak + 1 >= MaxRequests
  BY <1>2, TransitionInv DEF Succeed, States
<1>3. CASE ~(state = "half-open" /\ streak + 1 >= MaxRequests)
  <2>1. /\ Stay(c) /\ successes' = successes + 1 /\ streak' = streak + 1
        /\ failures' = failures
    BY <1>3 DEF Succeed
  <2>2. TypeOK'
    BY <2>1, <1>1, NowCalls DEF TypeOK, Stay, Now, Calls
  <2>3. UnderWay' = UnderWay \ {c}
    BY <2>1, <1>1, NowCalls DEF UnderWay, Stay, TypeOK
  <2>4. Cardinality(UnderWay') = Cardinality(UnderWay) - 1
    BY <2>3, <1>1, OneFewer
  <2>5. requests' = requests /\ state' = state
    BY <2>1, <1>1, NowCalls DEF Stay, Now
  <2>6. QED
    BY <1>1, <1>3, <2>1, <2>2, <2>4, <2>5, UnderWayFinite, BreakerAssumption
       DEF AccountedFor, OpenIsQuiet, ProbesBounded, TypeOK
<1>4. QED
  BY <1>2, <1>3

\* A failure moves a request from "under way" to "failed", or opens the
\* breaker.
LEMMA FailInv ==
  ASSUME IInv, NEW c \in Callers, Fail(c)
  PROVE  IInv'
<1> USE DEF IInv
<1>1. ~Lapsed /\ c \in UnderWay
  BY CurrentCall DEF Fail
<1>2. CASE state = "half-open" \/ ReadyToTrip(requests, failures + 1)
  BY <1>2, TransitionInv DEF Fail, States
<1>3. CASE ~(state = "half-open" \/ ReadyToTrip(requests, failures + 1))
  <2>1. /\ Stay(c) /\ successes' = successes /\ streak' = 0
        /\ failures' = failures + 1
    BY <1>3 DEF Fail
  <2>2. TypeOK'
    BY <2>1, <1>1, NowCalls DEF TypeOK, Stay, Now, Calls
  <2>3. UnderWay' = UnderWay \ {c}
    BY <2>1, <1>1, NowCalls DEF UnderWay, Stay, TypeOK
  <2>4. Cardinality(UnderWay') = Cardinality(UnderWay) - 1
    BY <2>3, <1>1, OneFewer
  <2>5. requests' = requests /\ state' = state
    BY <2>1, <1>1, NowCalls DEF Stay, Now
  <2>6. QED
    BY <1>1, <1>3, <2>1, <2>2, <2>4, <2>5, UnderWayFinite, BreakerAssumption
       DEF AccountedFor, OpenIsQuiet, ProbesBounded, TypeOK
<1>4. QED
  BY <1>2, <1>3

LEMMA TickInv == IInv /\ Tick => IInv'
<1> SUFFICES ASSUME IInv, Tick PROVE IInv'
  OBVIOUS
<1>1. UnderWay' = UnderWay
  BY DEF Tick, UnderWay
<1>2. QED
  BY <1>1 DEF Tick, IInv, TypeOK, AccountedFor, OpenIsQuiet, ProbesBounded,
              counts

LEMMA InitInv == Init => IInv
<1> SUFFICES ASSUME Init PROVE IInv
  OBVIOUS
<1>1. UnderWay = {}
  BY DEF Init, UnderWay
<1>2. Cardinality(UnderWay) = 0
  BY <1>1, FS_EmptySet
<1>3. QED
  BY <1>1, <1>2, BreakerAssumption
     DEF Init, IInv, TypeOK, AccountedFor, OpenIsQuiet, ProbesBounded,
         States, Calls

LEMMA StepInv == IInv /\ [Next]_vars => IInv'
<1> SUFFICES ASSUME IInv, [Next]_vars PROVE IInv'
  OBVIOUS
<1>1. CASE \E c \in Callers : Admit(c) \/ Discard(c) \/ Succeed(c) \/ Fail(c)
  BY <1>1, AdmitInv, DiscardInv, SucceedInv, FailInv
<1>2. CASE Look
  BY <1>2, LookInv DEF IInv
<1>3. CASE Tick
  BY <1>3, TickInv
<1>4. CASE UNCHANGED vars
  <2>1. UnderWay' = UnderWay
    BY <1>4 DEF UnderWay, vars
  <2>2. QED
    BY <1>4, <2>1 DEF vars, counts, IInv, TypeOK, AccountedFor, OpenIsQuiet,
                      ProbesBounded
<1>5. QED
  BY <1>1, <1>2, <1>3, <1>4 DEF Next

\* The invariant holds in every reachable state.
LEMMA Invariance == Spec => []IInv
  BY InitInv, StepInv, PTL DEF Spec

\* Every request of the generation is accounted for, in every state.
THEOREM Accounted == Spec => []AccountedFor
<1>1. IInv => AccountedFor
  BY DEF IInv
<1>2. QED
  BY Invariance, <1>1, PTL

\* The dependency sees at most MaxRequests probes of a half-open breaker.
THEOREM Probes == Spec => []ProbesBounded
<1>1. IInv => ProbesBounded
  BY DEF IInv
<1>2. QED
  BY Invariance, <1>1, PTL

\* A breaker closes only on the unanimous success of its probes.
THEOREM Proof == Spec => ClosesOnProof
<1>1. IInv /\ [Next]_vars =>
        [state = "half-open" /\ state' = "closed" =>
           /\ successes = MaxRequests - 1
           /\ failures = 0
           /\ Cardinality(UnderWay) = 1]_vars
  <2> SUFFICES ASSUME IInv, Next, state = "half-open", state' = "closed"
               PROVE  /\ successes = MaxRequests - 1
                      /\ failures = 0
                      /\ Cardinality(UnderWay) = 1
    BY DEF vars
  <2> USE DEF IInv
  <2>1. ~Lapsed /\ NowState = state
    BY DEF Lapsed, WindowOver, CoolingOver, NowState
  <2>2. PICK c \in Callers : Succeed(c)
    BY <2>1 DEF Next, Admit, Discard, Stay, Fail, Transition, Look, Tick
  <2>3. c \in UnderWay /\ streak + 1 >= MaxRequests
    BY <2>1, <2>2, CurrentCall DEF Succeed, Stay
  <2>4. successes = MaxRequests - 1 /\ failures = 0
    BY <2>3, BreakerAssumption DEF ProbesBounded, TypeOK
  <2>5. Cardinality(UnderWay) # 0
    BY <2>3, UnderWayFinite, FS_EmptySet
  <2>6. QED
    BY <2>4, <2>5, UnderWayFinite, BreakerAssumption
       DEF ProbesBounded, AccountedFor, TypeOK
<1>2. QED
  BY Invariance, <1>1, PTL DEF Spec, ClosesOnProof
=============================================================================

-------------------------- MODULE SdnrWriteProofs --------------------------
(***************************************************************************)
(* The write path keeps its promise to the commit handler, for any number  *)
(* of concurrent writes, attempts and requests left in SDN-R: proofs about *)
(* SdnrWrite.                                                              *)
(***************************************************************************)
EXTENDS SdnrWrite, TLAPS

\* Nothing of the write has reached the mount.
Quiet(w) ==
    \A n \in 1..MaxAttempts :
        /\ <<w, n>> \notin executed
        /\ \A i \in DOMAIN queue : queue[i] # <<w, n>>

\* Before its PATCH a write is quiet; "notsent" is a verdict of the time
\* before; and a write that has ended awaits no answer.
PhaseInv ==
    \A w \in Writers :
        /\ call[w] # "patch" => Quiet(w)
        /\ outcome[w] = "notsent" => call[w] # "patch"
        /\ w \in waiting => outcome[w] = "none"

\* SDN-R has neither carried out this attempt of w nor is it still to do so.
Untaken(w, n) ==
    /\ <<w, n>> \notin executed
    /\ \A i \in DOMAIN queue : queue[i] # <<w, n>>

\* What has not been sent has not arrived either.
FreshInv ==
    \A w \in Writers : \A n \in 1..MaxAttempts :
        n > attempt[w] \/ (n = attempt[w] /\ Ready(w)) => Untaken(w, n)

\* Nothing waits at the mount behind the PATCH sent last, and nothing was
\* carried out after it.
LastInv ==
    \A w \in Writers : w = last =>
        /\ call[w] = "patch"
        /\ w \in waiting \/ outcome[w] = "ok" =>
               /\ \A i \in DOMAIN queue : queue[i] = Current(w) => i = Len(queue)
               /\ Current(w) \in executed => queue = <<>> /\ cell = w

\* Only an attempt that was carried out is a success.
OkInv == \A w \in Writers : outcome[w] = "ok" => Current(w) \in executed

IInv == TypeOK /\ PhaseInv /\ FreshInv /\ OkInv /\ LastInv

\* What the head of the queue and the rest of it are.
LEMMA QueueHead ==
  ASSUME TypeOK, queue # <<>>
  PROVE  /\ Head(queue) \in Requests
         /\ Head(queue) = queue[1] /\ 1 \in DOMAIN queue
         /\ Tail(queue) \in Seq(Requests)
         /\ \A i \in DOMAIN Tail(queue) :
               i + 1 \in DOMAIN queue /\ Tail(queue)[i] = queue[i + 1]
  BY DEF TypeOK

\* An element of a longer queue is an old one or the new one.
LEMMA QueueAppend ==
  ASSUME NEW S, NEW q \in Seq(S), NEW x \in S
  PROVE  \A i \in DOMAIN Append(q, x) :
            \/ i \in DOMAIN q /\ Append(q, x)[i] = q[i]
            \/ Append(q, x)[i] = x
  OBVIOUS

LEMMA TypePreserved == TypeOK /\ [Next]_vars => TypeOK'
<1> SUFFICES ASSUME TypeOK, [Next]_vars PROVE TypeOK'
  OBVIOUS
<1> USE WriteAssumption
<1> USE DEF Calls, Outcomes, sdnr
<1>1. ASSUME NEW w \in Writers, Disabled(w) \/ SendGet(w) \/ Refuse(w)
      PROVE TypeOK'
  BY <1>1 DEF TypeOK, Disabled, SendGet, Refuse, End
<1>2. ASSUME NEW w \in Writers, SendPatch(w) PROVE TypeOK'
  <2>1. Current(w) \in Requests
    BY DEF TypeOK, Current, Requests
  <2>2. Append(queue, Current(w)) \in Seq(Requests)
    BY <2>1 DEF TypeOK
  <2>3. QED
    BY <1>2, <2>2 DEF TypeOK, SendPatch
<1>3. ASSUME NEW w \in Writers,
             OperationsAnswered(w) \/ MountAnswered(w) \/ PatchAnswered(w)
      PROVE TypeOK'
  <2>1. call' \in [Writers -> Calls] /\ attempt' \in [Writers -> 1..MaxAttempts]
    BY <1>3 DEF TypeOK, OperationsAnswered, MountAnswered, PatchAnswered, End,
                Proceed
  <2>2. outcome' \in [Writers -> Outcomes]
    BY <1>3 DEF TypeOK, OperationsAnswered, MountAnswered, PatchAnswered, End,
                Proceed
  <2>3. QED
    BY <1>3, <2>1, <2>2
       DEF TypeOK, OperationsAnswered, MountAnswered, PatchAnswered
<1>4. ASSUME NEW w \in Writers, Retry(w) PROVE TypeOK'
  BY <1>4 DEF TypeOK, Retry
<1>5. ASSUME NEW w \in Writers, GiveUp(w) PROVE TypeOK'
  BY <1>5 DEF TypeOK, GiveUp, End, Surfaces
<1>6. CASE MountChanges
  BY <1>6 DEF TypeOK, MountChanges
<1>7. CASE CarryOut
  BY <1>7, QueueHead DEF TypeOK, CarryOut, Requests
<1>8. CASE Lose
  BY <1>8, QueueHead DEF TypeOK, Lose
<1>9. CASE UNCHANGED vars
  BY <1>9 DEF TypeOK, vars
<1>10. QED
  BY <1>1, <1>2, <1>3, <1>4, <1>5, <1>6, <1>7, <1>8, <1>9 DEF Next, Write

\* A write has nothing at the mount until it is at its PATCH, and it comes
\* there only after its preflight.
LEMMA PhasePreserved == IInv /\ [Next]_vars => PhaseInv'
<1> SUFFICES ASSUME IInv, [Next]_vars PROVE PhaseInv'
  OBVIOUS
<1> USE WriteAssumption DEF IInv
<1>1. ASSUME NEW w \in Writers, Disabled(w) \/ SendGet(w) \/ Refuse(w)
      PROVE PhaseInv'
  BY <1>1 DEF TypeOK, PhaseInv, Quiet, Disabled, SendGet, Refuse, End, Ready,
              sdnr
<1>2. ASSUME NEW w \in Writers, SendPatch(w) PROVE PhaseInv'
  <2>1. Current(w) = <<w, attempt[w]>> /\ Current(w) \in Requests
    BY DEF Current, Requests, TypeOK
  <2>2. \A i \in DOMAIN queue' : \/ i \in DOMAIN queue /\ queue'[i] = queue[i]
                                 \/ queue'[i] = <<w, attempt[w]>>
    <3>1. CASE queue' = queue
      BY <3>1
    <3>2. CASE queue' = Append(queue, Current(w))
      <4>1. queue \in Seq(Requests)
        BY DEF TypeOK
      <4>2. QED
        BY <2>1, <3>2, <4>1, QueueAppend
    <3>3. QED
      BY <1>2, <3>1, <3>2 DEF SendPatch
  <2>3. \A v \in Writers : v # w /\ Quiet(v) => Quiet(v)'
    BY <1>2, <2>2 DEF SendPatch, Quiet
  <2>4. QED
    BY <1>2, <2>3 DEF SendPatch, PhaseInv, TypeOK, Ready
<1>3. ASSUME NEW w \in Writers,
             OperationsAnswered(w) \/ MountAnswered(w) \/ PatchAnswered(w)
      PROVE PhaseInv'
  BY <1>3 DEF TypeOK, PhaseInv, Quiet, OperationsAnswered, MountAnswered,
              PatchAnswered, End, Proceed, sdnr
<1>4. ASSUME NEW w \in Writers, Retry(w) PROVE PhaseInv'
  BY <1>4 DEF TypeOK, PhaseInv, Quiet, Retry, sdnr
<1>5. ASSUME NEW w \in Writers, GiveUp(w) PROVE PhaseInv'
  BY <1>5 DEF TypeOK, PhaseInv, Quiet, GiveUp, End, Surfaces, sdnr
<1>6. CASE MountChanges
  BY <1>6 DEF PhaseInv, Quiet, MountChanges
<1>7. CASE CarryOut
  <2>1. \A v \in Writers : Quiet(v) => Quiet(v)'
    BY <1>7, QueueHead DEF CarryOut, Quiet
  <2>2. QED
    BY <1>7, <2>1 DEF CarryOut, PhaseInv
<1>8. CASE Lose
  <2>1. \A v \in Writers : Quiet(v) => Quiet(v)'
    BY <1>8, QueueHead DEF Lose, Quiet
  <2>2. QED
    BY <1>8, <2>1 DEF Lose, PhaseInv
<1>9. CASE UNCHANGED vars
  BY <1>9 DEF PhaseInv, Quiet, vars
<1>10. QED
  BY <1>1, <1>2, <1>3, <1>4, <1>5, <1>6, <1>7, <1>8, <1>9 DEF Next, Write

\* The mount takes from the front of its queue: what it has not taken and does
\* not hold, it neither takes nor holds afterwards.
LEMMA MountKeeps ==
  ASSUME TypeOK, CarryOut \/ Lose, NEW w, NEW n, Untaken(w, n)
  PROVE  Untaken(w, n)'
  BY QueueHead DEF CarryOut, Lose, Untaken

LEMMA FreshPreserved == IInv /\ [Next]_vars => FreshInv'
<1> SUFFICES ASSUME IInv, [Next]_vars,
                    NEW v \in Writers, NEW n \in 1..MaxAttempts,
                    (n > attempt[v] \/ (n = attempt[v] /\ Ready(v)))'
             PROVE  Untaken(v, n)'
  BY DEF FreshInv
<1> USE WriteAssumption DEF IInv
<1>1. ASSUME NEW w \in Writers,
             \/ Disabled(w) \/ SendGet(w) \/ Refuse(w)
             \/ OperationsAnswered(w) \/ MountAnswered(w) \/ PatchAnswered(w)
             \/ Retry(w) \/ GiveUp(w)
      PROVE  Untaken(v, n)'
  <2>1. queue' = queue /\ executed' = executed
    BY <1>1 DEF sdnr, Disabled, SendGet, Refuse, OperationsAnswered,
                MountAnswered, PatchAnswered, Retry, GiveUp
  <2>2. call[v] # "patch" => Untaken(v, n)
    BY DEF PhaseInv, Quiet, Untaken
  <2>3. call[v] = "patch" => n > attempt[v] \/ (n = attempt[v] /\ Ready(v))
    <3>1. CASE v # w
      <4>1. attempt'[v] = attempt[v] /\ outcome'[v] = outcome[v]
        BY <1>1, <3>1 DEF TypeOK, End, Proceed, Disabled, SendGet, Refuse,
              OperationsAnswered, MountAnswered, PatchAnswered, Retry, GiveUp
      <4>2. v \in waiting' <=> v \in waiting
        BY <1>1, <3>1 DEF Disabled, SendGet, Refuse, OperationsAnswered,
              MountAnswered, PatchAnswered, Retry, GiveUp
      <4>3. QED
        BY <4>1, <4>2 DEF Ready
    <3>2. CASE v = w
      <4>1. CASE Retry(w)
        BY <3>2, <4>1 DEF TypeOK, Retry, Ready
      <4>2. CASE Disabled(w) \/ SendGet(w) \/ Refuse(w)
        BY <3>2, <4>2 DEF TypeOK, Ready, End, Disabled, SendGet, Refuse
      <4>3. CASE OperationsAnswered(w) \/ MountAnswered(w)
        BY <3>2, <4>3 DEF OperationsAnswered, MountAnswered
      <4>4. CASE PatchAnswered(w) \/ GiveUp(w)
        <5>1. attempt' = attempt /\ outcome'[w] # "none"
          BY <4>4 DEF TypeOK, End, PatchAnswered, GiveUp, Surfaces
        <5>2. QED
          BY <3>2, <5>1 DEF Ready
      <4>5. QED
        BY <1>1, <4>1, <4>2, <4>3, <4>4
    <3>3. QED
      BY <3>1, <3>2
  <2>4. QED
    BY <2>1, <2>2, <2>3 DEF FreshInv, Untaken
<1>2. ASSUME NEW w \in Writers, SendPatch(w) PROVE Untaken(v, n)'
  <2>1. Untaken(v, n)
    BY <1>2 DEF SendPatch, Ready, FreshInv
  <2>2. Current(w) # <<v, n>>
    BY <1>2 DEF SendPatch, Ready, Current, TypeOK
  <2>3. CASE queue' = queue
    BY <1>2, <2>1, <2>3 DEF SendPatch, Untaken
  <2>4. CASE queue' = Append(queue, Current(w))
    <3>1. queue \in Seq(Requests) /\ Current(w) \in Requests
      BY DEF TypeOK, Current, Requests
    <3>2. \A i \in DOMAIN queue' :
             \/ i \in DOMAIN queue /\ queue'[i] = queue[i]
             \/ queue'[i] = Current(w)
      BY <2>4, <3>1, QueueAppend
    <3>3. QED
      BY <1>2, <2>1, <2>2, <3>2 DEF SendPatch, Untaken
  <2>5. QED
    BY <1>2, <2>3, <2>4 DEF SendPatch
<1>3. CASE CarryOut \/ Lose
  <2>1. Untaken(v, n)
    BY <1>3 DEF CarryOut, Lose, Ready, FreshInv
  <2>2. QED
    BY <1>3, <2>1, MountKeeps
<1>4. CASE MountChanges \/ UNCHANGED vars
  BY <1>4 DEF MountChanges, vars, Ready, FreshInv, Untaken
<1>5. QED
  BY <1>1, <1>2, <1>3, <1>4 DEF Next, Write

LEMMA OkPreserved == IInv /\ [Next]_vars => OkInv'
<1> SUFFICES ASSUME IInv, [Next]_vars, NEW v \in Writers, outcome'[v] = "ok"
             PROVE  Current(v)' \in executed'
  BY DEF OkInv
<1> USE WriteAssumption DEF IInv
<1>1. executed \subseteq executed'
  BY DEF Next, Write, sdnr, vars, Disabled, SendGet, Refuse, SendPatch,
         OperationsAnswered, MountAnswered, PatchAnswered, Retry, GiveUp,
         MountChanges, CarryOut, Lose
<1>2. CASE outcome[v] = "ok"
  <2>1. v \notin waiting
    BY <1>2 DEF PhaseInv
  <2>2. attempt'[v] = attempt[v]
    BY <1>2, <2>1 DEF Next, Write, vars, TypeOK, Ready, End, Proceed, Disabled,
       SendGet, Refuse, SendPatch, OperationsAnswered, MountAnswered,
       PatchAnswered, Retry, GiveUp, MountChanges, CarryOut, Lose
  <2>3. QED
    BY <1>1, <1>2, <2>2 DEF OkInv, Current
<1>3. CASE outcome[v] # "ok"
  <2>1. PatchAnswered(v)
    BY <1>3 DEF Next, Write, vars, TypeOK, End, Proceed, Surfaces, Disabled,
       SendGet, Refuse, SendPatch, OperationsAnswered, MountAnswered,
       PatchAnswered, Retry, GiveUp, MountChanges, CarryOut, Lose
  <2>2. QED
    BY <1>1, <1>3, <2>1 DEF PatchAnswered, End, TypeOK, Current
<1>4. QED
  BY <1>2, <1>3

LEMMA LastPreserved == IInv /\ [Next]_vars => LastInv'
<1> SUFFICES ASSUME IInv, [Next]_vars, NEW v \in Writers, v = last'
             PROVE  /\ call'[v] = "patch"
                    /\ v \in waiting' \/ outcome'[v] = "ok" =>
                         /\ \A i \in DOMAIN queue' :
                                queue'[i] = Current(v)' => i = Len(queue')
                         /\ Current(v)' \in executed' =>
                                queue' = <<>> /\ cell' = v
  BY DEF LastInv
<1> USE WriteAssumption DEF IInv
<1>1. ASSUME NEW w \in Writers,
             \/ Disabled(w) \/ SendGet(w) \/ Refuse(w)
             \/ OperationsAnswered(w) \/ MountAnswered(w) \/ PatchAnswered(w)
             \/ Retry(w) \/ GiveUp(w)
      PROVE  LastInv'
  <2>1. UNCHANGED sdnr /\ last' = last
    BY <1>1 DEF sdnr, Disabled, SendGet, Refuse, OperationsAnswered,
                MountAnswered, PatchAnswered, Retry, GiveUp
  <2>2. call[v] = "patch"
    BY <2>1 DEF LastInv
  <2>3. call'[v] = "patch"
    BY <1>1, <2>2 DEF TypeOK, End, Proceed, Disabled, SendGet, Refuse,
          OperationsAnswered, MountAnswered, PatchAnswered, Retry, GiveUp
  <2>4. ASSUME v \in waiting' \/ outcome'[v] = "ok"
        PROVE  attempt'[v] = attempt[v] /\ (v \in waiting \/ outcome[v] = "ok")
    <3>1. CASE v # w
      BY <1>1, <2>4, <3>1 DEF TypeOK, End, Proceed, Disabled, SendGet, Refuse,
              OperationsAnswered, MountAnswered, PatchAnswered, Retry, GiveUp
    <3>2. CASE v = w
      <4>1. CASE Disabled(w) \/ Refuse(w) \/ SendGet(w)
        BY <2>2, <2>4, <3>2, <4>1
           DEF TypeOK, End, Ready, Disabled, Refuse, SendGet
      <4>2. CASE OperationsAnswered(w) \/ MountAnswered(w)
        BY <2>2, <3>2, <4>2 DEF OperationsAnswered, MountAnswered
      <4>3. CASE PatchAnswered(w) \/ GiveUp(w)
        BY <3>2, <4>3 DEF End, PatchAnswered, GiveUp
      <4>4. CASE Retry(w)
        BY <2>4, <3>2, <4>4 DEF Retry, PhaseInv
      <4>5. QED
        BY <1>1, <4>1, <4>2, <4>3, <4>4
    <3>3. QED
      BY <3>1, <3>2
  <2>5. QED
    BY <2>1, <2>3, <2>4 DEF LastInv, Current, sdnr
<1>2. ASSUME NEW w \in Writers, SendPatch(w) PROVE LastInv'
  <2>1. w = v /\ call'[v] = "patch" /\ Current(v)' = Current(v)
    BY <1>2 DEF SendPatch, Current
  <2>2. Untaken(v, attempt[v])
    BY <1>2, <2>1 DEF SendPatch, FreshInv, Ready, TypeOK
  <2>3. Current(v) \notin executed /\ \A i \in DOMAIN queue : queue[i] # Current(v)
    BY <2>2 DEF Untaken, Current
  <2>4. queue \in Seq(Requests)
    BY DEF TypeOK
  <2>5. \A i \in DOMAIN queue' : queue'[i] = Current(v) => i = Len(queue')
    BY <1>2, <2>1, <2>3, <2>4 DEF SendPatch
  <2>6. QED
    BY <1>2, <2>1, <2>3, <2>5 DEF SendPatch, LastInv
<1>3. CASE CarryOut \/ Lose
  <2>1. UNCHANGED <<call, attempt, waiting, last, outcome>> /\ queue # <<>>
    BY <1>3 DEF CarryOut, Lose
  <2>2. queue \in Seq(Requests) /\ queue' = Tail(queue)
    BY <1>3 DEF CarryOut, Lose, TypeOK
  <2>3. Len(queue') = Len(queue) - 1
    BY <2>1, <2>2
  <2>4. ASSUME v \in waiting \/ outcome[v] = "ok"
        PROVE  /\ \A i \in DOMAIN queue' :
                      queue'[i] = Current(v) => i = Len(queue')
               /\ Current(v) \in executed' => queue' = <<>> /\ cell' = v
    <3>1. /\ \A i \in DOMAIN queue : queue[i] = Current(v) => i = Len(queue)
          /\ Current(v) \notin executed
      BY <2>1, <2>4 DEF LastInv
    <3>2. ASSUME NEW i \in DOMAIN queue', queue'[i] = Current(v)
          PROVE  i = Len(queue')
      <4>1. i + 1 \in DOMAIN queue /\ queue[i + 1] = Current(v)
        BY <2>1, <2>2, <3>2, QueueHead
      <4>2. i + 1 = Len(queue)
        BY <3>1, <4>1
      <4>3. QED
        BY <2>2, <2>3, <4>2
    <3>3. ASSUME Current(v) \in executed' PROVE queue' = <<>> /\ cell' = v
      <4>1. CarryOut /\ Head(queue) = Current(v)
        BY <1>3, <3>1, <3>3 DEF CarryOut, Lose
      <4>2. queue[1] = Current(v) /\ 1 \in DOMAIN queue
        BY <2>1, <4>1, QueueHead
      <4>3. Len(queue) = 1
        BY <3>1, <4>2
      <4>4. queue' = <<>>
        BY <2>2, <4>3
      <4>5. cell' = v
        BY <4>1 DEF CarryOut, Current
      <4>6. QED
        BY <4>4, <4>5
    <3>4. QED
      BY <3>2, <3>3
  <2>5. QED
    BY <2>1, <2>4 DEF LastInv, Current
<1>4. CASE MountChanges \/ UNCHANGED vars
  BY <1>4 DEF MountChanges, vars, LastInv, Current
<1>5. QED
  BY <1>1, <1>2, <1>3, <1>4 DEF Next, Write, LastInv

LEMMA InitInv == Init => IInv
  BY WriteAssumption
     DEF Init, IInv, TypeOK, PhaseInv, Quiet, Calls, Outcomes, Requests,
         FreshInv, Untaken, OkInv, LastInv

LEMMA StepInv == IInv /\ [Next]_vars => IInv'
  BY TypePreserved, PhasePreserved, FreshPreserved, OkPreserved, LastPreserved
     DEF IInv

\* Every step of a write, and of SDN-R, is one the promise allows.
LEMMA StepPromised == IInv /\ [Next]_vars => [Promise!Next]_(Promise!vars)
<1> SUFFICES ASSUME IInv, [Next]_vars
             PROVE  Promise!Next \/ UNCHANGED <<Carried, outcome>>
  BY DEF Promise!vars
<1> USE WriteAssumption
<1> USE DEF IInv, sdnr
<1>1. executed' = executed => Carried' = Carried
  BY DEF Carried
<1>2. \A w \in Writers : call[w] # "patch" => w \notin Carried
  BY DEF PhaseInv, Quiet, Carried
<1>3. ASSUME NEW w \in Writers, Disabled(w) PROVE Promise!Next
  <2>1. outcome[w] = "none" /\ w \notin Carried /\ Carried' = Carried
    BY <1>3, <1>1, <1>2 DEF Disabled, Ready
  <2>2. outcome' = [outcome EXCEPT ![w] = "notsent"]
    BY <1>3 DEF Disabled, End
  <2>3. QED
    BY <2>1, <2>2 DEF Promise!Next, Promise!Decline
<1>4. ASSUME NEW w \in Writers, Refuse(w) PROVE Promise!Next
  <2>1. outcome[w] = "none" /\ Carried' = Carried
    BY <1>4, <1>1 DEF Refuse, Ready
  <2>2. outcome' = [outcome EXCEPT ![w] = "failed"]
    BY <1>4 DEF Refuse, End
  <2>3. QED
    BY <2>1, <2>2 DEF Promise!Next, Promise!GiveUp
<1>5. ASSUME NEW w \in Writers, SendGet(w) \/ SendPatch(w) \/ Retry(w)
      PROVE UNCHANGED <<Carried, outcome>>
  BY <1>5, <1>1 DEF SendGet, SendPatch, Retry
<1>6. ASSUME NEW w \in Writers, OperationsAnswered(w) \/ MountAnswered(w)
      PROVE Promise!Next \/ UNCHANGED <<Carried, outcome>>
  <2>1. outcome[w] = "none" /\ w \notin Carried /\ Carried' = Carried
    BY <1>6, <1>1, <1>2 DEF OperationsAnswered, MountAnswered, PhaseInv
  <2>2. \/ UNCHANGED outcome
        \/ outcome' = [outcome EXCEPT ![w] = "notsent"]
        \/ outcome' = [outcome EXCEPT ![w] = "escaped"]
    BY <1>6 DEF OperationsAnswered, MountAnswered, End, Proceed
  <2>3. QED
    BY <2>1, <2>2 DEF Promise!Next, Promise!Decline, Promise!GiveUp
<1>7. ASSUME NEW w \in Writers, PatchAnswered(w) PROVE Promise!Next
  <2>1. outcome[w] = "none" /\ Carried' = Carried
    BY <1>7, <1>1 DEF PatchAnswered, PhaseInv
  <2>2. CASE Current(w) \in executed /\ End(w, "ok")
    <3>1. w \in Carried
      BY <2>2 DEF Carried, Current, TypeOK
    <3>2. QED
      BY <2>1, <2>2, <3>1 DEF Promise!Next, Promise!Succeed, End
  <2>3. CASE End(w, "failed")
    BY <2>1, <2>3 DEF Promise!Next, Promise!GiveUp, End
  <2>4. QED
    BY <1>7, <2>2, <2>3 DEF PatchAnswered
<1>8. ASSUME NEW w \in Writers, GiveUp(w) PROVE Promise!Next
  <2>1. outcome[w] = "none" /\ Carried' = Carried
    BY <1>8, <1>1 DEF GiveUp, PhaseInv
  <2>2. \/ outcome' = [outcome EXCEPT ![w] = "failed"]
        \/ outcome' = [outcome EXCEPT ![w] = "escaped"]
        \/ call[w] # "patch" /\ outcome' = [outcome EXCEPT ![w] = "notsent"]
    BY <1>8 DEF GiveUp, End, Surfaces
  <2>3. QED
    BY <1>2, <2>1, <2>2 DEF Promise!Next, Promise!Decline, Promise!GiveUp
<1>9. CASE CarryOut
  <2>1. PICK w \in Writers, n \in 1..MaxAttempts : Head(queue) = <<w, n>>
    BY <1>9, QueueHead DEF CarryOut, Requests
  <2>2. outcome[w] # "notsent"
    BY <1>9, <2>1, QueueHead DEF CarryOut, PhaseInv, Quiet
  <2>3. Carried' = Carried \cup {w}
    BY <1>9, <2>1 DEF CarryOut, Carried
  <2>4. QED
    BY <1>9, <2>2, <2>3 DEF CarryOut, Promise!Next, Promise!CarryOut
<1>10. CASE MountChanges \/ Lose \/ UNCHANGED vars
  BY <1>1, <1>10 DEF MountChanges, Lose, vars
<1>11. QED
  BY <1>3, <1>4, <1>5, <1>6, <1>7, <1>8, <1>9, <1>10 DEF Next, Write

\* The variables keep their types in every reachable state.
THEOREM TypeCorrect == Spec => []TypeOK
<1>1. IInv => TypeOK
  BY DEF IInv
<1>2. QED
  BY InitInv, StepInv, <1>1, PTL DEF Spec

\* Retries and stray attempts never undo the change sent last, once it has
\* succeeded.
THEOREM LastStands == Spec => []LastWriteStands
<1>1. IInv => LastWriteStands
  BY DEF IInv, TypeOK, OkInv, LastInv, LastWriteStands
<1>2. QED
  BY InitInv, StepInv, <1>1, PTL DEF Spec

\* The retrying write path implements the promise the commit handler relies
\* on: success only for a change the cell has carried out, and no change
\* behind a failed preflight.
THEOREM KeepsPromise == Spec => Promised
<1>1. Init => Promise!Init
  BY DEF Init, Promise!Init, Carried
<1>2. QED
  BY InitInv, StepInv, StepPromised, <1>1, PTL
     DEF Spec, Promised, Promise!Spec
=============================================================================

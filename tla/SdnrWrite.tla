----------------------------- MODULE SdnrWrite -----------------------------
(***************************************************************************)
(* The write path of a PCI change: preflight and apply_change of           *)
(* sdnr/apply.py over SdnrClient and the retrying transport of             *)
(* transport.py and resilience/retry.py.                                   *)
(*                                                                         *)
(* A write makes three calls: GET /rests/operations, GET of the mount's    *)
(* status, PATCH of the cell.  Each call is sent up to MaxAttempts times.  *)
(* Every commit builds a client, and with it a breaker, of its own: three  *)
(* calls never reach the five requests the breaker needs before it looks at*)
(* its failures, so the breaker lets all of them through and is left out.  *)
(*                                                                         *)
(* SDN-R is outside: a PATCH it has received waits in the queue of the     *)
(* cell's mount, even after the sender has given up.                       *)
(***************************************************************************)
EXTENDS Naturals, Sequences

CONSTANTS
    Writers,      \* commit handlers, each with a change of the same cell
    MaxAttempts,  \* max_attempts of http_config
    PatternInUrl, \* the URL holds a text the retry patterns look for ("500")
    EmptyBodies,  \* SDN-R may answer the mount query without a body
    None          \* the cell has its first PCI

ASSUME WriteAssumption ==
    /\ MaxAttempts \in Nat \ {0}
    /\ PatternInUrl \in BOOLEAN
    /\ EmptyBodies \in BOOLEAN
    /\ None \notin Writers

VARIABLES
    call,     \* the call each write is at
    attempt,  \* number of the attempt of that call
    waiting,  \* writes with an attempt under way
    mount,    \* is the cell's NETCONF mount connected (external)
    queue,    \* PATCHes the mount has still to carry out (external)
    cell,     \* the write whose PCI the cell has, or None (external)
    executed, \* PATCHes the cell has carried out (history, not code)
    last,     \* the write whose PATCH was sent last (history, not code)
    outcome   \* how each write has ended

sdnr    == <<mount, queue, cell, executed>>
vars    == <<call, attempt, waiting, mount, queue, cell, executed, last,
             outcome>>

Calls    == {"operations", "mount", "patch"}
Requests == Writers \X (1..MaxAttempts)
Outcomes == {"none", "ok", "notsent", "failed", "escaped"}

TypeOK ==
    /\ call \in [Writers -> Calls]
    /\ attempt \in [Writers -> 1..MaxAttempts]
    /\ waiting \subseteq Writers
    /\ mount \in BOOLEAN
    /\ queue \in Seq(Requests)
    /\ cell \in Writers \cup {None}
    /\ executed \subseteq Requests
    /\ last \in Writers \cup {None}
    /\ outcome \in [Writers -> Outcomes]

Init ==
    /\ call = [w \in Writers |-> "operations"]
    /\ attempt = [w \in Writers |-> 1]
    /\ waiting = {}
    /\ mount \in BOOLEAN
    /\ queue = <<>>
    /\ cell = None
    /\ executed = {}
    /\ last = None
    /\ outcome = [w \in Writers |-> "none"]

------------------------------------------------------------------------------
(***************************************************************************)
(* How an attempt can end, as the client sees it.                          *)
(***************************************************************************)

\* What an attempt raises: HTTP 408 or 429, an unknown host, a TLS failure;
\* HTTP 500, 502, 503 or 504; connection refused; connection reset; closed
\* without an answer; timed out.
Errors == {"declined", "5xx", "refused", "reset", "closed", "timeout"}

\* After these SDN-R has not taken the request, and never will.
Undelivered == {"declined", "refused"}

\* http_is_retryable: by errno or by a text in the message.  The messages of
\* the others ("HTTP 429", "timed out") hold none of the texts themselves,
\* but most of them name the URL.
Retryable(e) ==
    \/ e \in {"5xx", "refused", "reset"}
    \/ e \in {"declined", "timeout"} /\ PatternInUrl

\* What the transport turns into its own exception, and _do into a result
\* that is not ok.  A connection that breaks while the answer is awaited
\* raises an exception of the HTTP library, which passes through.
Surfaces(e) ==
    CASE e = "closed" -> {"escaped"}
      [] e = "reset"  -> {"failed", "escaped"}
      [] OTHER        -> {"failed"}

------------------------------------------------------------------------------
(***************************************************************************)
(* SDN-R and the cell.                                                     *)
(***************************************************************************)

MountChanges ==
    /\ mount' = ~mount
    /\ UNCHANGED <<call, attempt, waiting, queue, cell, executed, last,
                   outcome>>

\* A connected mount carries out its PATCHes in the order it received them.
CarryOut ==
    /\ mount
    /\ queue # <<>>
    /\ cell' = Head(queue)[1]
    /\ executed' = executed \cup {Head(queue)}
    /\ queue' = Tail(queue)
    /\ UNCHANGED <<call, attempt, waiting, mount, last, outcome>>

\* A PATCH is lost in SDN-R.
Lose ==
    /\ queue # <<>>
    /\ queue' = Tail(queue)
    /\ UNCHANGED <<call, attempt, waiting, mount, cell, executed, last,
                   outcome>>

------------------------------------------------------------------------------
(***************************************************************************)
(* The write.                                                              *)
(***************************************************************************)
Current(w) == <<w, attempt[w]>>

\* SDN-R has not carried out this attempt, nor has it still to do so.
NotTaken(w) ==
    /\ Current(w) \notin executed
    /\ \A i \in DOMAIN queue : queue[i] # Current(w)

\* The attempt can raise e.
Raises(w, e) == e \in Undelivered => NotTaken(w)

Ready(w) == outcome[w] = "none" /\ w \notin waiting

End(w, o) ==
    /\ outcome' = [outcome EXCEPT ![w] = o]
    /\ UNCHANGED <<call, attempt>>

Proceed(w, c) ==
    /\ call' = [call EXCEPT ![w] = c]
    /\ attempt' = [attempt EXCEPT ![w] = 1]
    /\ UNCHANGED outcome

\* The commit handler finds that writes are off, or the cell has no mount.
Disabled(w) ==
    /\ Ready(w)
    /\ call[w] = "operations"
    /\ attempt[w] = 1
    /\ End(w, "notsent")
    /\ UNCHANGED <<waiting, sdnr, last>>

SendGet(w) ==
    /\ Ready(w)
    /\ call[w] # "patch"
    /\ waiting' = waiting \cup {w}
    /\ UNCHANGED <<call, attempt, sdnr, last, outcome>>

\* apply_change, or the client, refuses the change itself: no cell, an unknown
\* technology, a PCI out of range.
Refuse(w) ==
    /\ Ready(w)
    /\ call[w] = "patch"
    /\ attempt[w] = 1
    /\ End(w, "failed")
    /\ UNCHANGED <<waiting, sdnr, last>>

\* A request that never gets to the mount is lost from the start.
SendPatch(w) ==
    /\ Ready(w)
    /\ call[w] = "patch"
    /\ waiting' = waiting \cup {w}
    /\ queue' \in {queue, Append(queue, Current(w))}
    /\ last' = w
    /\ UNCHANGED <<call, attempt, mount, cell, executed, outcome>>

\* test_connection: any 2xx will do.
OperationsAnswered(w) ==
    /\ w \in waiting
    /\ call[w] = "operations"
    /\ waiting' = waiting \ {w}
    /\ Proceed(w, "mount") \/ End(w, "notsent")
    /\ UNCHANGED <<sdnr, last>>

\* check_mount_status: "connected", or a 2xx without a body, passes; another
\* status, a 4xx and a body that is not JSON do not, and JSON of an
\* unexpected shape raises.
MountAnswered(w) ==
    /\ w \in waiting
    /\ call[w] = "mount"
    /\ waiting' = waiting \ {w}
    /\ \/ (mount \/ EmptyBodies) /\ Proceed(w, "patch")
       \/ End(w, "notsent")
       \/ End(w, "escaped")
    /\ UNCHANGED <<sdnr, last>>

\* Faulty variant: a status below 500 is taken for success.
PatchAnsweredLoosely(w) ==
    /\ w \in waiting
    /\ call[w] = "patch"
    /\ waiting' = waiting \ {w}
    /\ End(w, "ok")
    /\ Current(w) \in executed \/ NotTaken(w)
    /\ UNCHANGED <<sdnr, last>>

\* A 2xx says that the cell has carried out this attempt, a 4xx that it has
\* not and will not.
PatchAnswered(w) ==
    /\ w \in waiting
    /\ call[w] = "patch"
    /\ waiting' = waiting \ {w}
    /\ \/ Current(w) \in executed /\ End(w, "ok")
       \/ NotTaken(w) /\ End(w, "failed")
    /\ UNCHANGED <<sdnr, last>>

\* Faulty variant: the attempts are not counted.
RetryUncounted(w) ==
    /\ w \in waiting
    /\ \E e \in Errors : Retryable(e) /\ Raises(w, e)
    /\ waiting' = waiting \ {w}
    /\ UNCHANGED <<call, attempt, sdnr, last, outcome>>

\* do_sync_with_retry_check: another attempt of the same call.
Retry(w) ==
    /\ w \in waiting
    /\ attempt[w] < MaxAttempts
    /\ \E e \in Errors : Retryable(e) /\ Raises(w, e)
    /\ waiting' = waiting \ {w}
    /\ attempt' = [attempt EXCEPT ![w] = @ + 1]
    /\ UNCHANGED <<call, sdnr, last, outcome>>

\* Faulty variant: a failed PATCH is reported as a failed preflight.
GiveUpUnsent(w) ==
    /\ w \in waiting
    /\ \E e \in Errors :
           /\ ~Retryable(e) \/ attempt[w] = MaxAttempts
           /\ Raises(w, e)
           /\ \E o \in Surfaces(e) :
                  End(w, IF o = "failed" THEN "notsent" ELSE o)
    /\ waiting' = waiting \ {w}
    /\ UNCHANGED <<sdnr, last>>

\* The error is not worth a retry, or the attempts are used up.  Before the
\* PATCH, a failure is one of the preflight.
GiveUp(w) ==
    /\ w \in waiting
    /\ \E e \in Errors :
           /\ ~Retryable(e) \/ attempt[w] = MaxAttempts
           /\ Raises(w, e)
           /\ \E o \in Surfaces(e) :
                  End(w, IF o = "failed" /\ call[w] # "patch"
                         THEN "notsent"
                         ELSE o)
    /\ waiting' = waiting \ {w}
    /\ UNCHANGED <<sdnr, last>>

Write(w) ==
    \/ Disabled(w)
    \/ SendGet(w)
    \/ Refuse(w)
    \/ SendPatch(w)
    \/ OperationsAnswered(w)
    \/ MountAnswered(w)
    \/ PatchAnswered(w)
    \/ Retry(w)
    \/ GiveUp(w)

Next ==
    \/ \E w \in Writers : Write(w)
    \/ MountChanges
    \/ CarryOut
    \/ Lose

Spec == Init /\ [][Next]_vars

\* An attempt ends, if only by its time-out, and the next one is made.
FairSpec == Spec /\ \A w \in Writers : WF_vars(Write(w))

------------------------------------------------------------------------------
(***************************************************************************)
(* Properties.                                                             *)
(***************************************************************************)

\* The write keeps its promise to the commit handler, retries and late
\* effects included: "ok" only for a change the cell has carried out, and a
\* failed preflight only when nothing was sent.
Carried  == {w \in Writers : \E n \in 1..MaxAttempts : <<w, n>> \in executed}
Promise  == INSTANCE ChangeWrite WITH carried <- Carried
Promised == Promise!Spec

\* Retries and stray attempts never undo a later change: once the write that
\* sent last has succeeded, the cell keeps its PCI.
LastWriteStands ==
    last # None /\ outcome[last] = "ok" => cell = last

\* "A cell whose mount is not connected fails preflight ... before anything
\* is sent": a write goes on to its PATCH only over a connected mount.
PreflightGuards ==
    [][\A w \in Writers :
          call[w] = "mount" /\ call'[w] = "patch" => mount]_vars

\* Every write ends: no error is retried for ever.
EveryWriteEnds == \A w \in Writers : <>(outcome[w] # "none")
=============================================================================

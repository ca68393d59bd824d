------------------------------- MODULE Probes -------------------------------
(***************************************************************************)
(* The process from its start to its end (Orchestrator of main.py) and     *)
(* what its health manager answers meanwhile (Manager of health.py): the   *)
(* probes, and the health of the components, looked at under a lock by one *)
(* checker each and kept for some time.                                    *)
(*                                                                         *)
(* The shipped program registers neither a checker nor a cleanup; both are *)
(* offered to whoever embeds the orchestrator, and modelled for any of them*)
(*                                                                         *)
(* The server is uvicorn 0.32 (src/pyproject.toml), modelled by what       *)
(* main.py sees of it: while it serves, its own handlers catch SIGINT and  *)
(* SIGTERM and tell it to leave at once, beside the event of main.py; and  *)
(* when it cannot listen it ends in SystemExit, which cancels every task.  *)
(***************************************************************************)
EXTENDS Integers, Sequences, SequencesExt

CONSTANTS
    Comps,    \* components with a checker
    Cleanups, \* cleanups, in the order of their registration
    Ttl,      \* cache_ttl
    Limit,    \* check_timeout
    Grace,    \* how long stop waits for the server
    None,     \* nothing yet
    MaxTime   \* bound on the time of a behaviour

ProbesAssumption ==
    /\ Cleanups \in Seq(Nat)
    /\ Ttl \in Nat
    /\ Limit \in Nat \ {0}
    /\ Grace \in Nat
    /\ MaxTime \in Nat

VARIABLES
    now,
    phase,    \* of the process: "new", "up", "cleanup", "server", "gone"
    ready,    \* _startup_ready
    shutdown, \* _shutdown_mode
    hooks,    \* _extra_cleanup
    drained,  \* the cleanups begun, in order
    server,   \* the server task: "none", "task" (does not listen yet),
              \* "serving", "leaving" (should_exit is set), "ended" or
              \* "failed" (in SystemExit)
    deadline, \* until when stop waits for it
    well,     \* the components that are well
    seen,     \* when each was well last (history, not code)
    cache,    \* _cache: the components found well; None without one
    checked,  \* _last_check_mono
    lock,     \* _check_mu is held
    since,    \* when its holder began to look
    found,    \* what its checkers have returned: component and finding
    answer    \* the latest answer, when it was given and what was true then

vars == <<now, phase, ready, shutdown, hooks, drained, server, deadline,
          well, seen, cache, checked, lock, since, found, answer>>

life  == <<phase, ready, shutdown, hooks, drained, server, deadline>>
parts == <<well, seen>>
check == <<cache, checked, lock, since, found, answer>>

Init ==
    /\ now = 0
    /\ phase = "new"
    /\ ready = FALSE
    /\ shutdown = FALSE
    /\ hooks = Cleanups
    /\ drained = <<>>
    /\ server = "none"
    /\ deadline = 0
    /\ well \in SUBSET Comps
    /\ seen = [c \in Comps |-> IF c \in well THEN 0 ELSE -(Ttl + Limit)]
    /\ cache = None
    /\ checked = 0
    /\ lock = FALSE
    /\ since = 0
    /\ found = {}
    /\ answer = None

\* Time passes and a component may fall ill or recover.  A checker is given no
\* more than its limit, and stop no more than its grace.
Tick ==
    /\ now < MaxTime
    /\ lock => now < since + Limit
    /\ phase = "server" => now < deadline
    /\ now' = now + 1
    /\ well' \in SUBSET Comps
    /\ seen' = [c \in Comps |-> IF c \in well' THEN now + 1 ELSE seen[c]]
    /\ UNCHANGED <<life, check>>

------------------------------------------------------------------------------
(***************************************************************************)
(* Start and stop.                                                         *)
(***************************************************************************)

\* start has no await: the task of the server is made, and not yet run.
Start ==
    /\ phase = "new"
    /\ phase' = "up"
    /\ server' = "task"
    /\ ready' = TRUE
    /\ UNCHANGED <<now, shutdown, hooks, drained, deadline, parts, check>>

\* Between BeginStop and its first await, stop lets nobody else run.
Yields == phase # "gone" /\ (phase = "cleanup" => drained # <<>>)

\* _run_dashboard_server has come to serve.
Serve ==
    /\ server = "task"
    /\ Yields
    /\ server' = "serving"
    /\ UNCHANGED <<now, phase, ready, shutdown, hooks, drained, deadline, parts, check>>

\* A signal reaches the server ahead of stop, which its event may begin later.
Signal ==
    /\ server = "serving"
    /\ Yields
    /\ server' = "leaving"
    /\ UNCHANGED <<now, phase, ready, shutdown, hooks, drained, deadline, parts, check>>

\* Its port is taken.  The task of main.py is cancelled: before stop, which it
\* then comes to; in a cleanup, which may catch the cancellation, or else it
\* passes the suppress and ends stop with the rest not begun; or in wait_for.
ServerFails ==
    /\ server = "task"
    /\ Yields
    /\ server' = "failed"
    /\ \/ phase \in {"up", "cleanup"} /\ phase' = phase
       \/ phase \in {"cleanup", "server"} /\ phase' = "gone"
    /\ UNCHANGED <<now, ready, shutdown, hooks, drained, deadline, parts, check>>

\* stop begins, a signal having been received or the block left otherwise.
BeginStop ==
    /\ phase = "up"
    /\ phase' = "cleanup"
    /\ shutdown' = TRUE
    /\ UNCHANGED <<now, ready, hooks, drained, server, deadline, parts, check>>

\* The last one registered, whose errors are suppressed.
CleanUp ==
    /\ phase = "cleanup"
    /\ hooks # <<>>
    /\ drained' = Append(drained, Last(hooks))
    /\ hooks' = Front(hooks)
    /\ UNCHANGED <<now, phase, ready, shutdown, server, deadline, parts, check>>

\* Only a server that is there is told to leave: one whose task has not run yet
\* serves until it is cancelled.
AskServer ==
    /\ phase = "cleanup"
    /\ hooks = <<>>
    /\ phase' = "server"
    /\ server' = IF server = "serving" THEN "leaving" ELSE server
    /\ deadline' = now + Grace
    /\ UNCHANGED <<now, ready, shutdown, hooks, drained, parts, check>>

\* The server has shut down, or the lifespan of its application did not start.
ServerLeaves ==
    /\ server \in {"task", "leaving"}
    /\ Yields
    /\ server' = "ended"
    /\ UNCHANGED <<now, phase, ready, shutdown, hooks, drained, deadline, parts, check>>

\* The server has ended, or is cancelled when the grace is over.
EndStop ==
    /\ phase = "server"
    /\ server \in {"ended", "failed"} \/ now = deadline
    /\ phase' = "gone"
    /\ server' = IF server = "failed" THEN "failed" ELSE "ended"
    /\ UNCHANGED <<now, ready, shutdown, hooks, drained, deadline, parts, check>>

\* readiness_payload, as the router serves it, and the one of startup.
SaysReady   == server \in {"serving", "leaving"} /\ ~shutdown /\ ready
SaysStarted == server \in {"serving", "leaving"} /\ ready

------------------------------------------------------------------------------
(***************************************************************************)
(* check_health.                                                           *)
(***************************************************************************)
Answers(health) == answer' = [well |-> health, at |-> now, seen |-> seen]

\* What is kept serves while it is young.
Kept == cache # None /\ now - checked < Ttl

\* Faulty variant: an answer from the cache makes it young again.
FromCacheSliding ==
    /\ SaysStarted
    /\ ~lock
    /\ Kept
    /\ Answers(cache)
    /\ checked' = now
    /\ UNCHANGED <<now, life, parts, cache, lock, since, found>>

FromCache ==
    /\ SaysStarted
    /\ ~lock
    /\ Kept
    /\ Answers(cache)
    /\ UNCHANGED <<now, life, parts, cache, checked, lock, since, found>>

BeginCheck ==
    /\ SaysStarted
    /\ ~lock
    /\ ~Kept
    /\ lock' = TRUE
    /\ since' = now
    /\ found' = {}
    /\ UNCHANGED <<now, life, parts, cache, checked, answer>>

\* _run_checker: the component as it is now; or ill, when the checker raised
\* or was given up at its limit.
Checker(c) ==
    /\ lock
    /\ ~\E f \in found : f.comp = c
    /\ \E v \in BOOLEAN :
          /\ v => c \in well
          /\ found' = found \cup {[comp |-> c, well |-> v]}
    /\ UNCHANGED <<now, life, parts, cache, checked, lock, since, answer>>

FoundWell == {c \in Comps : \E f \in found : f.comp = c /\ f.well}

EndCheck ==
    /\ lock
    /\ {f.comp : f \in found} = Comps
    /\ cache' = [c \in Comps |-> c \in FoundWell]
    /\ checked' = now
    /\ Answers(cache')
    /\ lock' = FALSE
    /\ UNCHANGED <<now, life, parts, since, found>>

\* The handler is cancelled: its caller went away or the process ends.
CancelCheck ==
    /\ lock
    /\ lock' = FALSE
    /\ UNCHANGED <<now, life, parts, cache, checked, since, found, answer>>

Next ==
    \/ Tick
    \/ Start
    \/ Serve
    \/ Signal
    \/ ServerFails
    \/ BeginStop
    \/ CleanUp
    \/ AskServer
    \/ ServerLeaves
    \/ EndStop
    \/ FromCache
    \/ BeginCheck
    \/ \E c \in Comps : Checker(c)
    \/ EndCheck
    \/ CancelCheck

Spec == Init /\ [][Next]_vars

------------------------------------------------------------------------------
\* _build_response: the worst of the components.
Healthy(health) == \A c \in Comps : health[c]

\* An answer never calls a component well that was not well at some time of the
\* last Ttl and Limit, whoever looked, was served from what was kept or gave up
\* on the way.  Ready is never said once stop has begun, whatever a signal, or
\* its failure, made of the server before.  The cleanups are begun in the reverse
\* order of their registration and each once; the process neither waits for the
\* server nor ends while one is left, unless the server failed while stop ran.
ProbesTrue ==
    /\ answer # None =>
          \A c \in Comps :
              LET age == answer.at - answer.seen[c]
              IN  (answer.well[c] \/ Healthy(answer.well)) /\ age > Limit =>
                      age < Limit + Ttl
    /\ SaysReady => phase = "up" /\ drained = <<>>
    /\ hooks \o Reverse(drained) = Cleanups
    /\ phase = "server" => hooks = <<>>
    /\ phase = "gone" => server = "failed" \/ (server = "ended" /\ hooks = <<>>)
=============================================================================

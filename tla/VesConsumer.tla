----------------------------- MODULE VesConsumer -----------------------------
(***************************************************************************)
(* The consumer of file notifications (osc/ves_consumer.py), the SFTP pool *)
(* it fetches the files with (sftp/client.py), and how both are started    *)
(* and stopped with the server (api/server.py).                            *)
(*                                                                         *)
(* All tasks run in one event loop: a step goes from one await to the      *)
(* next.  The consumer is one task, so at most one file is fetched at a    *)
(* time; beside it runs the task that closes idle connections.             *)
(*                                                                         *)
(* A cancelled task sees an exception at the await it is in.  Handlers for *)
(* BaseException in the pool take that exception for a failed call.        *)
(***************************************************************************)
EXTENDS Integers

CONSTANTS
    Hosts \* SFTP servers the notifications name

VARIABLES
    pc,       \* the await the consumer task is in
    running,  \* _running, and _stop_event not set
    phase,    \* where the shutdown of the server is
    poolLock, \* _pool_lock: who holds it
    host,     \* the host of the file that is fetched
    pool,     \* the pooled connection of each host: "none", "open", or
              \* "broken" by the peer
    open,     \* number of connections to each host that nobody has closed
              \* (history, not code)
    idle,     \* last_used of the connection is over max_idle_seconds ago
    server    \* each host "answers" or is "silent" (external)

vars == <<pc, running, phase, poolLock, host, pool, open, idle, server>>

\* Between _get_connection's attempt at the lock and the end of the fetch.
Fetching == {"lock", "probe", "shut", "dial", "channel", "download", "discard"}
Awaits   == {"start", "poll", "backoff", "ended"} \cup Fetching
Phases   == {"serving", "closing", "cancelled", "exit"}

Init ==
    /\ pc = "start"
    /\ running = FALSE
    /\ phase = "serving"
    /\ poolLock = "free"
    /\ host \in Hosts
    /\ pool = [h \in Hosts |-> "none"]
    /\ open = [h \in Hosts |-> 0]
    /\ idle = [h \in Hosts |-> FALSE]
    /\ server \in [Hosts -> {"answers", "silent"}]

\* The condition of the consumer's loop.
Again == IF running THEN "poll" ELSE "ended"

PoolUnchanged == UNCHANGED <<poolLock, pool, open, idle>>
RestUnchanged == UNCHANGED <<running, phase, host, server>>

------------------------------------------------------------------------------
(***************************************************************************)
(* The consumer's loop.                                                    *)
(***************************************************************************)
Start ==
    /\ phase = "serving"
    /\ pc = "start"
    /\ running' = TRUE
    /\ pc' = "poll"
    /\ UNCHANGED <<phase, host, server>>
    /\ PoolUnchanged

\* The Kafka consumer cannot be made: the task ends, and nobody starts it again.
StartFails ==
    /\ phase = "serving"
    /\ pc = "start"
    /\ pc' = "ended"
    /\ RestUnchanged
    /\ PoolUnchanged

\* No message, one that is about something else, or one nobody can read.
PollNothing ==
    /\ pc = "poll"
    /\ pc' = Again
    /\ RestUnchanged
    /\ PoolUnchanged

PollError ==
    /\ pc = "poll"
    /\ pc' = "backoff"
    /\ RestUnchanged
    /\ PoolUnchanged

EndBackoff ==
    /\ pc = "backoff"
    /\ pc' = Again
    /\ RestUnchanged
    /\ PoolUnchanged

\* A notification of a file: its first location is fetched.
PollFile(h) ==
    /\ pc = "poll"
    /\ pc' = "lock"
    /\ host' = h
    /\ UNCHANGED <<running, phase, server>>
    /\ PoolUnchanged

------------------------------------------------------------------------------
(***************************************************************************)
(* fetch_file: a connection from the pool, the download, and the end of    *)
(* the connection if the download fails.                                   *)
(***************************************************************************)
TakePool ==
    /\ pc = "lock"
    /\ poolLock = "free"
    /\ poolLock' = "fetch"
    /\ pc' = IF pool[host] = "none" THEN "dial" ELSE "probe"
    /\ UNCHANGED <<pool, open, idle>>
    /\ RestUnchanged

\* Faulty variant: the lock is kept until the fetch is over.
ReuseKeepingLock ==
    /\ pc = "probe"
    /\ pool[host] = "open"
    /\ server[host] = "answers"
    /\ idle' = [idle EXCEPT ![host] = FALSE]
    /\ pc' = "download"
    /\ UNCHANGED <<poolLock, pool, open>>
    /\ RestUnchanged

\* _is_connection_alive asks without a time limit.
Reuse ==
    /\ pc = "probe"
    /\ pool[host] = "open"
    /\ server[host] = "answers"
    /\ idle' = [idle EXCEPT ![host] = FALSE]
    /\ poolLock' = "free"
    /\ pc' = "download"
    /\ UNCHANGED <<pool, open>>
    /\ RestUnchanged

FindDead ==
    /\ pc = "probe"
    /\ pool[host] = "broken" \/ server[host] = "answers"
    /\ pc' = "shut"
    /\ PoolUnchanged
    /\ RestUnchanged

\* Faulty variant: the dead connection is dropped without being closed.
DropDead ==
    /\ pool' = [pool EXCEPT ![host] = "none"]
    /\ pc' = "dial"
    /\ UNCHANGED <<poolLock, open, idle>>

ReplaceDead ==
    /\ pool' = [pool EXCEPT ![host] = "none"]
    /\ open' = [open EXCEPT ![host] = @ - 1]
    /\ pc' = "dial"
    /\ UNCHANGED <<poolLock, idle>>

ShutDead ==
    /\ pc = "shut"
    /\ ReplaceDead
    /\ RestUnchanged

Dial ==
    /\ pc = "dial"
    /\ server[host] = "answers"
    /\ open' = [open EXCEPT ![host] = @ + 1]
    /\ pc' = "channel"
    /\ UNCHANGED <<poolLock, pool, idle>>
    /\ RestUnchanged

\* Faulty variant: the lock of the pool is not given back.
GiveUpDialLocked ==
    /\ pc' = Again
    /\ UNCHANGED <<poolLock, pool, open, idle>>

\* Refused, no credentials, or timeout_seconds are over.
GiveUpDial ==
    /\ poolLock' = "free"
    /\ pc' = Again
    /\ UNCHANGED <<pool, open, idle>>

DialFails ==
    /\ pc = "dial"
    /\ GiveUpDial
    /\ RestUnchanged

OpenChannel ==
    /\ pc = "channel"
    /\ server[host] = "answers"
    /\ pool' = [pool EXCEPT ![host] = "open"]
    /\ idle' = [idle EXCEPT ![host] = FALSE]
    /\ poolLock' = "free"
    /\ pc' = "download"
    /\ UNCHANGED open
    /\ RestUnchanged

\* start_sftp_client raises: the connection is closed again.
GiveUpChannel ==
    /\ poolLock' = "free"
    /\ open' = [open EXCEPT ![host] = @ - 1]
    /\ pc' = Again
    /\ UNCHANGED <<pool, idle>>

ChannelFails ==
    /\ pc = "channel"
    /\ server[host] = "answers"
    /\ GiveUpChannel
    /\ RestUnchanged

\* The file goes to the parser and into the queue.
Download ==
    /\ pc = "download"
    /\ pool[host] = "open"
    /\ server[host] = "answers"
    /\ idle' = [idle EXCEPT ![host] = FALSE]
    /\ pc' = Again
    /\ UNCHANGED <<poolLock, pool, open>>
    /\ RestUnchanged

\* The file has expired, or the connection has been closed or has broken.
DownloadFails ==
    /\ pc = "download"
    /\ pool[host] # "open" \/ server[host] = "answers"
    /\ pc' = "discard"
    /\ PoolUnchanged
    /\ RestUnchanged

ClosePooled(h) ==
    /\ pool' = [pool EXCEPT ![h] = "none"]
    /\ open' = [open EXCEPT ![h] = IF pool[h] = "none" THEN @ ELSE @ - 1]

Discard ==
    /\ pc = "discard"
    /\ poolLock = "free"
    /\ ClosePooled(host)
    /\ pc' = Again
    /\ UNCHANGED <<poolLock, idle>>
    /\ RestUnchanged

------------------------------------------------------------------------------
(***************************************************************************)
(* Around the fetch: time, the cleanup task, the servers at the other end. *)
(***************************************************************************)
\* A download that lasts lets its connection look idle.
GetIdle(h) ==
    /\ pool[h] # "none"
    /\ ~idle[h]
    /\ idle' = [idle EXCEPT ![h] = TRUE]
    /\ UNCHANGED <<pc, poolLock, pool, open>>
    /\ RestUnchanged

CleanIdle(h) ==
    /\ poolLock = "free"
    /\ pool[h] # "none"
    /\ idle[h]
    /\ ClosePooled(h)
    /\ UNCHANGED <<pc, poolLock, idle>>
    /\ RestUnchanged

ConnectionBreaks(h) ==
    /\ pool[h] = "open"
    /\ pool' = [pool EXCEPT ![h] = "broken"]
    /\ UNCHANGED <<pc, poolLock, open, idle>>
    /\ RestUnchanged

ServerChanges(h) ==
    /\ server' = [server EXCEPT ![h] =
                      IF @ = "answers" THEN "silent" ELSE "answers"]
    /\ UNCHANGED <<pc, running, phase, host>>
    /\ PoolUnchanged

------------------------------------------------------------------------------
(***************************************************************************)
(* The end: _stop_pm_ingest, and the cancellation of all tasks that are    *)
(* left when the event loop is closed.                                     *)
(***************************************************************************)
\* Faulty variant: stop only closes the Kafka consumer.
StopCloseOnly ==
    /\ phase = "serving"
    /\ phase' = "closing"
    /\ UNCHANGED <<pc, running, host, server>>
    /\ PoolUnchanged

Stop ==
    /\ phase = "serving"
    /\ phase' = "closing"
    /\ running' = FALSE
    /\ UNCHANGED <<pc, host, server>>
    /\ PoolUnchanged

\* What an exception thrown into the await of the consumer task leads to: the
\* end of the task outside the pool and while it waits for the pool's lock,
\* elsewhere a failed call.
Interrupt ==
    \/ /\ pc \notin {"probe", "shut", "dial", "channel", "download"}
       /\ pc' = "ended"
       /\ PoolUnchanged
    \/ pc = "probe" /\ pc' = "shut" /\ PoolUnchanged
    \/ pc = "shut" /\ ReplaceDead
    \/ pc = "dial" /\ GiveUpDial
    \/ pc = "channel" /\ GiveUpChannel
    \/ pc = "download" /\ pc' = "discard" /\ PoolUnchanged

\* The Kafka consumer is closed, the tasks are cancelled.
CancelTasks ==
    /\ phase = "closing"
    /\ phase' = "cancelled"
    /\ Interrupt
    /\ UNCHANGED <<running, host, server>>

\* asyncio.run cancels what is left: after the tasks have been cancelled once,
\* or first of all if the Kafka consumer takes longer than the shutdown waits.
CloseLoop ==
    /\ phase \in {"closing", "cancelled"}
    /\ phase' = "exit"
    /\ Interrupt
    /\ UNCHANGED <<running, host, server>>

------------------------------------------------------------------------------
Poll  == \/ PollNothing \/ PollError \/ EndBackoff
         \/ \E h \in Hosts : PollFile(h)
Fetch == \/ TakePool \/ Reuse \/ FindDead \/ ShutDead \/ Dial \/ DialFails
         \/ OpenChannel \/ ChannelFails \/ Download \/ DownloadFails \/ Discard

Next ==
    \/ Start \/ StartFails \/ Poll \/ Fetch
    \/ \E h \in Hosts :
          GetIdle(h) \/ CleanIdle(h) \/ ConnectionBreaks(h) \/ ServerChanges(h)
    \/ Stop \/ CancelTasks \/ CloseLoop

Spec == Init /\ [][Next]_vars

\* What can go on does; time passes and the cleanup task wakes up; a shutdown
\* that has begun is finished.  Nothing is assumed of the servers.
FairSpec ==
    /\ Spec
    /\ WF_vars(Poll)
    /\ WF_vars(Fetch)
    /\ \A h \in Hosts : WF_vars(GetIdle(h)) /\ WF_vars(CleanIdle(h))
    /\ WF_vars(CancelTasks \/ CloseLoop)

------------------------------------------------------------------------------
(***************************************************************************)
(* Properties.                                                             *)
(***************************************************************************)
\* The consumer, the pool and the shutdown keep their types; whoever waits in
\* the middle of _get_connection holds the pool's lock, and nobody else does.
TypeOK ==
    /\ pc \in Awaits
    /\ running \in BOOLEAN
    /\ phase \in Phases
    /\ poolLock \in {"free", "fetch"}
    /\ poolLock = "fetch" <=> pc \in {"probe", "shut", "dial", "channel"}
    /\ host \in Hosts
    /\ pool \in [Hosts -> {"none", "open", "broken"}]
    /\ open \in [Hosts -> Nat]
    /\ idle \in [Hosts -> BOOLEAN]
    /\ server \in [Hosts -> {"answers", "silent"}]

\* No connection is lost track of: whenever the lock of the pool is free, the
\* open connections are those in the pool, whatever failed or was cancelled.
NoStrayConnection ==
    poolLock = "free" =>
        \A h \in Hosts : open[h] = IF pool[h] = "none" THEN 0 ELSE 1

\* read() has no time limit; what ends a download from a silent server is the
\* cleanup task, which takes the connection for idle and closes it.
DownloadEnds == pc = "download" ~> pc # "download"

\* Every fetch ends, if its server does not stay silent for ever.
FetchEnds ==
    \A h \in Hosts :
        [](/\ pc \in Fetching /\ host = h
           /\ <>[](server[h] = "answers")
           => <>(pc \notin Fetching))

\* The consumer ends when the server has stopped, although the pool takes a
\* cancellation for a failed call, if the SFTP servers do not stay silent.
StopEnds ==
    [](/\ phase = "exit"
       /\ <>[](\A h \in Hosts : server[h] = "answers")
       => <>(pc = "ended"))
=============================================================================

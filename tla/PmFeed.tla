------------------------------- MODULE PmFeed -------------------------------
(***************************************************************************)
(* From parsed PM files to the network that is served: the drain task of   *)
(* api/server.py, PmStore of osc/ingest.py and NetworkCache of             *)
(* api/state.py.                                                           *)
(*                                                                         *)
(* The drain task runs in the event loop and puts each file into the       *)
(* store; worker threads read the store when the cache is refreshed.  Both *)
(* prune the store, a plain dict that no lock protects.  A thread may be   *)
(* switched out anywhere, so each loop over the dict and each deletion is  *)
(* a step; a loop that finds the number of entries changed raises, as does *)
(* the deletion of an entry that is gone.                                  *)
(*                                                                         *)
(* Files are numbered as they arrive.                                      *)
(***************************************************************************)
EXTENDS Integers, Sequences, FiniteSets

CONSTANTS
    Nodes,    \* nodes that report
    Threads,  \* threads that may be refreshing or waiting to
    MaxFiles, \* bound: files that arrive
    NoNet     \* there is no network yet

Files    == 1..MaxFiles
Networks == UNION {[D -> Files] : D \in SUBSET Nodes}

ASSUME FeedAssumption ==
    /\ IsFiniteSet(Nodes)
    /\ MaxFiles \in Nat
    /\ NoNet \notin Networks

VARIABLES
    arrived, \* number of files put into the queue
    bad,     \* files whose handover counters contradict each other
    queue,   \* asyncio.Queue of parsed files, unbounded
    store,   \* _by_node: the latest file of a node; is it over retention
    drain,   \* the drain task: where it is, the size its loop began with,
             \* the entries it has still to delete
    lock,    \* NetworkCache._lock
    ref,     \* the same for each refreshing thread, and what it has read
    net,     \* the snapshot's network: which file of each node it shows
    failed,  \* last_error is set
    fresh,   \* the snapshot is younger than ttl_seconds
    aged     \* some entry has been over retention (history, not code)

vars == <<arrived, bad, queue, store, drain, lock, ref, net, failed, fresh,
          aged>>

DrainSteps   == {"get", "scan", "delete", "dead"}
RefreshSteps == {"idle", "wait", "check", "len", "scan", "delete", "list",
                 "log"}

Entries == [file : Files, old : BOOLEAN]
Stores  == UNION {[D -> Entries] : D \in SUBSET Nodes}

Size(s) == Cardinality(DOMAIN s)

\* The entries over retention, which _prune deletes and __len__ passes over.
Old == {n \in DOMAIN store : store[n].old}

Without(s, n) == [m \in DOMAIN s \ {n} |-> s[m]]

\* Faulty variant: what the store holds of a node is never replaced.
WithFirst(s, n, e) ==
    [m \in DOMAIN s \cup {n} |-> IF m \in DOMAIN s THEN s[m] ELSE e]

With(s, n, e) == [m \in DOMAIN s \cup {n} |-> IF m = n THEN e ELSE s[m]]

\* Thread t holds NetworkCache._lock, or ought to.
Refreshing(t) == ref[t].pc \notin {"idle", "wait"}

Idle == [pc |-> "idle", size |-> 0, old |-> {}, got |-> NoNet]

Init ==
    /\ arrived = 0
    /\ bad = {}
    /\ queue = <<>>
    /\ store = [n \in {} |-> [file |-> 0, old |-> FALSE]]
    /\ drain = [pc |-> "get", size |-> 0, old |-> {}]
    /\ lock = "free"
    /\ ref = [t \in Threads |-> Idle]
    /\ net = NoNet
    /\ failed = FALSE
    /\ fresh = FALSE
    /\ aged = FALSE

------------------------------------------------------------------------------
(***************************************************************************)
(* The drain task.                                                         *)
(***************************************************************************)
CacheUnchanged == UNCHANGED <<lock, ref, net, failed, fresh>>

\* The consumer puts a parsed file of node n into the queue.
Arrive(n) ==
    /\ arrived < MaxFiles
    /\ arrived' = arrived + 1
    /\ queue' = Append(queue, [node |-> n, file |-> arrived + 1])
    /\ \/ UNCHANGED bad
       \/ bad' = bad \cup {arrived + 1}
    /\ UNCHANGED <<store, drain, aged>>
    /\ CacheUnchanged

\* PmStore.add stores the file; the loop of _prune begins.
DrainPut ==
    /\ drain.pc = "get"
    /\ queue # <<>>
    /\ queue' = Tail(queue)
    /\ store' = With(store, Head(queue).node,
                     [file |-> Head(queue).file, old |-> FALSE])
    /\ drain' = [pc |-> "scan", size |-> Size(store'), old |-> {}]
    /\ UNCHANGED <<arrived, bad, aged>>
    /\ CacheUnchanged

DrainScan ==
    /\ drain.pc = "scan"
    /\ Size(store) = drain.size
    /\ drain' = [drain EXCEPT !.pc = IF Old = {} THEN "get" ELSE "delete",
                              !.old = Old]
    /\ UNCHANGED <<arrived, bad, queue, store, aged>>
    /\ CacheUnchanged

DrainDelete(n) ==
    /\ drain.pc = "delete"
    /\ n \in drain.old
    /\ n \in DOMAIN store
    /\ store' = Without(store, n)
    /\ drain' = [drain EXCEPT !.pc = IF drain.old = {n} THEN "get" ELSE @,
                              !.old = @ \ {n}]
    /\ UNCHANGED <<arrived, bad, queue, aged>>
    /\ CacheUnchanged

\* RuntimeError of the loop or KeyError of the deletion: nothing catches it,
\* and nobody awaits the task.
DrainDies ==
    /\ \/ drain.pc = "scan" /\ Size(store) # drain.size
       \/ drain.pc = "delete" /\ ~(drain.old \subseteq DOMAIN store)
    /\ drain' = [pc |-> "dead", size |-> 0, old |-> {}]
    /\ UNCHANGED <<arrived, bad, queue, store, aged>>
    /\ CacheUnchanged

\* A node has been silent for retention_s.
Age(n) ==
    /\ n \in Nodes
    /\ n \in DOMAIN store
    /\ ~store[n].old
    /\ store' = [store EXCEPT ![n].old = TRUE]
    /\ aged' = TRUE
    /\ UNCHANGED <<arrived, bad, queue, drain>>
    /\ CacheUnchanged

------------------------------------------------------------------------------
(***************************************************************************)
(* NetworkCache.  A caller that is given the old snapshot at once is not   *)
(* shown; the thread it starts is.                                         *)
(***************************************************************************)
DrainUnchanged == UNCHANGED <<arrived, bad, queue, drain, aged>>

Goto(t, pc) == ref' = [ref EXCEPT ![t].pc = pc]

\* A forced refresh, or the first request of all: the caller waits its turn.
GetBlocking(t) ==
    /\ ref[t].pc = "idle"
    /\ Goto(t, "wait")
    /\ UNCHANGED <<store, lock, net, failed, fresh>>
    /\ DrainUnchanged

Acquire(t) ==
    /\ ref[t].pc = "wait"
    /\ lock = "free"
    /\ lock' = "held"
    /\ Goto(t, "check")
    /\ UNCHANGED <<store, net, failed, fresh>>
    /\ DrainUnchanged

\* Faulty variant: nobody looks whether a refresh is under way.
GetStaleAnyway(t) ==
    /\ net # NoNet
    /\ ~fresh
    /\ ref[t].pc = "idle"
    /\ lock' = "held"
    /\ Goto(t, "check")
    /\ UNCHANGED <<store, net, failed, fresh>>
    /\ DrainUnchanged

\* A stale snapshot: the request takes the lock if it is free and leaves it
\* to the thread it starts.
GetStale(t) ==
    /\ net # NoNet
    /\ ~fresh
    /\ lock = "free"
    /\ ref[t].pc = "idle"
    /\ lock' = "held"
    /\ Goto(t, "check")
    /\ UNCHANGED <<store, net, failed, fresh>>
    /\ DrainUnchanged

\* The thread cannot be started: start() raises and the lock stays taken.
SpawnFails ==
    /\ net # NoNet
    /\ ~fresh
    /\ lock = "free"
    /\ lock' = "leaked"
    /\ UNCHANGED <<store, ref, net, failed, fresh>>
    /\ DrainUnchanged

\* Faulty variant: the lock is not given back.
KeepLock(t) ==
    /\ lock' = lock
    /\ ref' = [ref EXCEPT ![t] = Idle]

Release(t) ==
    /\ lock' = "free"
    /\ ref' = [ref EXCEPT ![t] = Idle]

\* Somebody else has refreshed while this thread waited.
FindFresh(t) ==
    /\ ref[t].pc = "check"
    /\ net # NoNet
    /\ fresh
    /\ Release(t)
    /\ UNCHANGED <<store, net, failed, fresh>>
    /\ DrainUnchanged

\* The loop of __len__ begins.
BeginFetch(t) ==
    /\ ref[t].pc = "check"
    /\ net = NoNet \/ ~fresh
    /\ ref' = [ref EXCEPT ![t].pc = "len", ![t].size = Size(store)]
    /\ UNCHANGED <<store, lock, net, failed, fresh>>
    /\ DrainUnchanged

\* There is something to show: the loop of _prune begins.
CountNodes(t) ==
    /\ ref[t].pc = "len"
    /\ Size(store) = ref[t].size
    /\ Old # DOMAIN store
    /\ Goto(t, "scan")
    /\ UNCHANGED <<store, lock, net, failed, fresh>>
    /\ DrainUnchanged

ScanStore(t) ==
    /\ ref[t].pc = "scan"
    /\ Size(store) = ref[t].size
    /\ ref' = [ref EXCEPT ![t].pc = IF Old = {} THEN "list" ELSE "delete",
                          ![t].old = Old]
    /\ UNCHANGED <<store, lock, net, failed, fresh>>
    /\ DrainUnchanged

\* After the last deletion the loop over the values begins.
DeleteOld(t, n) ==
    /\ ref[t].pc = "delete"
    /\ n \in ref[t].old
    /\ n \in DOMAIN store
    /\ store' = Without(store, n)
    /\ ref' = [ref EXCEPT ![t].pc = IF ref[t].old = {n} THEN "list" ELSE @,
                          ![t].old = @ \ {n},
                          ![t].size = Size(store')]
    /\ UNCHANGED <<lock, net, failed, fresh>>
    /\ DrainUnchanged

\* build_network_from_pm raises when the relations of one file do, however
\* good the others are.
Poisoned == \E n \in DOMAIN store : store[n].file \in bad

Build(t) ==
    /\ ref[t].pc = "list"
    /\ Size(store) = ref[t].size
    /\ ~Poisoned
    /\ ref' = [ref EXCEPT ![t].pc = "log",
                          ![t].got = [n \in DOMAIN store |-> store[n].file]]
    /\ UNCHANGED <<store, lock, net, failed, fresh>>
    /\ DrainUnchanged

\* The message logged of the network counts the nodes again.
Publish(t) ==
    /\ ref[t].pc = "log"
    /\ Size(store) = ref[t].size
    /\ net' = ref[t].got
    /\ failed' = FALSE
    /\ fresh' = TRUE
    /\ Release(t)
    /\ UNCHANGED store
    /\ DrainUnchanged

\* No data, a loop disturbed, an entry gone, or a file that cannot be used:
\* the snapshot keeps its network and gets an error.
FetchFails(t) ==
    /\ \/ /\ ref[t].pc \in {"len", "scan", "list", "log"}
          /\ Size(store) # ref[t].size
       \/ ref[t].pc = "len" /\ Old = DOMAIN store
       \/ ref[t].pc = "delete" /\ ~(ref[t].old \subseteq DOMAIN store)
       \/ ref[t].pc = "list" /\ Poisoned
    /\ failed' = TRUE
    /\ Release(t)
    /\ UNCHANGED <<store, net, fresh>>
    /\ DrainUnchanged

\* ttl_seconds go by.
Expire ==
    /\ fresh
    /\ fresh' = FALSE
    /\ UNCHANGED <<store, lock, ref, net, failed>>
    /\ DrainUnchanged

------------------------------------------------------------------------------
Drain == DrainPut \/ DrainScan \/ (\E n \in Nodes : DrainDelete(n)) \/ DrainDies

RefreshStep(t) ==
    \/ FindFresh(t) \/ BeginFetch(t) \/ CountNodes(t) \/ ScanStore(t)
    \/ \E n \in Nodes : DeleteOld(t, n)
    \/ Build(t) \/ Publish(t) \/ FetchFails(t)

Next ==
    \/ \E n \in Nodes : Arrive(n) \/ Age(n)
    \/ Drain
    \/ \E t \in Threads :
          GetBlocking(t) \/ Acquire(t) \/ GetStale(t) \/ RefreshStep(t)
    \/ SpawnFails
    \/ Expire

Spec == Init /\ [][Next]_vars

\* Started work goes on; time passes; pages are polled, which asks for the
\* first network and finds a later one stale.  The lock prefers nobody.
Fairness ==
    /\ WF_vars(Drain)
    /\ \A t \in Threads : WF_vars(RefreshStep(t))
    /\ WF_vars(\E t \in Threads : Acquire(t))
    /\ WF_vars(\E t \in Threads : GetStale(t))
    /\ WF_vars(net = NoNet /\ \E t \in Threads : GetBlocking(t))
    /\ WF_vars(Expire)

FairSpec == Spec /\ Fairness

------------------------------------------------------------------------------
(***************************************************************************)
(* Properties.                                                             *)
(***************************************************************************)
\* The state keeps its types (PmStore, NetworkCache, the drain task), and the
\* lock is held when some thread refreshes, and only then.
TypeOK ==
    /\ arrived \in 0..MaxFiles
    /\ bad \subseteq Files
    /\ queue \in Seq([node : Nodes, file : Files])
    /\ store \in Stores
    /\ drain \in [pc : DrainSteps, size : Nat, old : SUBSET Nodes]
    /\ lock \in {"free", "held", "leaked"}
    /\ lock = "held" <=> \E t \in Threads : Refreshing(t)
    /\ ref \in [Threads -> [pc : RefreshSteps, size : Nat,
                            old : SUBSET Nodes, got : Networks \cup {NoNet}]]
    /\ net \in Networks \cup {NoNet}
    /\ failed \in BOOLEAN
    /\ fresh \in BOOLEAN
    /\ aged \in BOOLEAN

\* What is shown of a node is never replaced by an older file of it: two
\* refreshes never overtake each other, nor does the queue.
NeverBackwards ==
    [][net # NoNet =>
          \A n \in DOMAIN net \cap DOMAIN net' : net'[n] >= net[n]]_net

\* A refresh always gives the lock back, whatever goes wrong in it.
LockComesBack == lock = "held" ~> lock = "free"

\* A file in the queue, or a later one of its node, is shown in the end,
\* unless a contradictory file stays in the store, the lock has leaked or
\* some node had been silent for a day.
Shown(n, f) == net # NoNet /\ n \in DOMAIN net /\ net[n] >= f
EveryFileShown ==
    \A n \in Nodes, f \in Files :
        [](((\E i \in DOMAIN queue : queue[i] = [node |-> n, file |-> f])
            /\ [](~aged /\ lock # "leaked") /\ []<>~Poisoned)
           => <>Shown(n, f))
=============================================================================

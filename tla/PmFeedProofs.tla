---------------------------- MODULE PmFeedProofs ----------------------------
(***************************************************************************)
(* Theorems about PmFeed, for any number of nodes, threads and files.      *)
(***************************************************************************)
EXTENDS PmFeed, FiniteSetTheorems, TLAPS

\* One refresh at a time: only the holder of the lock is past the wait.
OneRefresh ==
    \A t, u \in Threads : Refreshing(t) /\ Refreshing(u) => t = u

\* The queue is in the order of arrival.
QueueInv ==
    /\ \A i \in DOMAIN queue : queue[i].file <= arrived
    /\ \A i, j \in DOMAIN queue : i < j => queue[i].file < queue[j].file

\* What was put into the store is older than anything in the queue.
StoreInv ==
    \A n \in DOMAIN store :
        /\ store[n].file <= arrived
        /\ \A i \in DOMAIN queue : store[n].file < queue[i].file

\* Network m was read from the store or from what the store was before.
Overtaken(m) ==
    \A n \in DOMAIN m :
        /\ m[n] <= arrived
        /\ \A i \in DOMAIN queue : m[n] < queue[i].file
        /\ n \in DOMAIN store => m[n] <= store[n].file

\* What is shown and what a thread is about to show are such networks, and
\* the latter is the later one.
PictureInv ==
    /\ net # NoNet => Overtaken(net)
    /\ \A t \in Threads :
          ref[t].pc = "log" =>
              /\ ref[t].got # NoNet
              /\ Overtaken(ref[t].got)
              /\ net # NoNet =>
                    \A n \in DOMAIN net \cap DOMAIN ref[t].got :
                        net[n] <= ref[t].got[n]

IInv == TypeOK /\ OneRefresh /\ QueueInv /\ StoreInv /\ PictureInv

------------------------------------------------------------------------------
(***************************************************************************)
(* The store and the queue.                                                *)
(***************************************************************************)
\* A store is a function from some of the nodes to entries.
LEMMA StoreIsFunction ==
  ASSUME NEW s \in Stores
  PROVE  /\ DOMAIN s \subseteq Nodes
         /\ s \in [DOMAIN s -> Entries]
  BY DEF Stores

LEMMA FunctionIsStore ==
  ASSUME NEW D \in SUBSET Nodes, NEW s \in [D -> Entries]
  PROVE  s \in Stores /\ DOMAIN s = D
  BY DEF Stores

\* The same for networks.
LEMMA NetworkIsFunction ==
  ASSUME NEW m \in Networks
  PROVE  /\ DOMAIN m \subseteq Nodes
         /\ m \in [DOMAIN m -> Files]
  BY DEF Networks

LEMMA FunctionIsNetwork ==
  ASSUME NEW D \in SUBSET Nodes, NEW m \in [D -> Files]
  PROVE  m \in Networks /\ DOMAIN m = D
  BY DEF Networks

\* A store has a number of entries.
LEMMA SizeType ==
  ASSUME NEW s \in Stores
  PROVE  Size(s) \in Nat
<1>1. IsFiniteSet(DOMAIN s)
  BY StoreIsFunction, FS_Subset, FeedAssumption
<1> QED BY <1>1, FS_CardinalityType DEF Size

\* What With and Without make of a store.
LEMMA WithType ==
  ASSUME NEW s \in Stores, NEW n \in Nodes, NEW e \in Entries
  PROVE  /\ With(s, n, e) \in Stores
         /\ DOMAIN With(s, n, e) = DOMAIN s \cup {n}
         /\ With(s, n, e)[n] = e
         /\ \A m \in DOMAIN s \ {n} : With(s, n, e)[m] = s[m]
<1>1. DOMAIN s \subseteq Nodes /\ s \in [DOMAIN s -> Entries]
  BY StoreIsFunction
<1>2. DOMAIN s \cup {n} \in SUBSET Nodes
  BY <1>1
<1>3. With(s, n, e) \in [DOMAIN s \cup {n} -> Entries]
  BY <1>1 DEF With
<1>4. With(s, n, e) \in Stores
  BY <1>2, <1>3, FunctionIsStore
<1> QED BY <1>1, <1>4 DEF With

LEMMA WithoutType ==
  ASSUME NEW s \in Stores, NEW n \in Nodes
  PROVE  /\ Without(s, n) \in Stores
         /\ DOMAIN Without(s, n) = DOMAIN s \ {n}
         /\ \A m \in DOMAIN s \ {n} : Without(s, n)[m] = s[m]
<1>1. DOMAIN s \subseteq Nodes /\ s \in [DOMAIN s -> Entries]
  BY StoreIsFunction
<1>2. DOMAIN s \ {n} \in SUBSET Nodes
  BY <1>1
<1>3. Without(s, n) \in [DOMAIN s \ {n} -> Entries]
  BY <1>1 DEF Without
<1>4. Without(s, n) \in Stores
  BY <1>2, <1>3, FunctionIsStore
<1> QED BY <1>1, <1>4 DEF Without

Messages == [node : Nodes, file : Files]

LEMMA FilesAreNumbers ==
  ASSUME NEW q \in Seq(Messages)
  PROVE  \A i \in DOMAIN q : q[i].file \in Nat
<1>1. \A i \in DOMAIN q : q[i] \in Messages
  OBVIOUS
<1>2. \A m \in Messages : m.file \in Nat
  BY DEF Messages, Files
<1> QED BY <1>1, <1>2

\* Taking the first message off the queue.
LEMMA TailOfQueue ==
  ASSUME NEW q \in Seq(Messages), q # <<>>
  PROVE  /\ Tail(q) \in Seq(Messages)
         /\ Head(q) \in Messages
         /\ 1 \in DOMAIN q
         /\ Head(q) = q[1]
         /\ \A i \in DOMAIN Tail(q) :
               i + 1 \in DOMAIN q /\ Tail(q)[i] = q[i + 1] /\ i \in Nat \ {0}
<1>1. Len(q) \in Nat \ {0}
  OBVIOUS
<1>2. DOMAIN Tail(q) = 1..(Len(q) - 1)
  BY <1>1
<1> QED BY <1>1, <1>2

\* Appending one.
LEMMA AppendToQueue ==
  ASSUME NEW q \in Seq(Messages), NEW m \in Messages
  PROVE  /\ Append(q, m) \in Seq(Messages)
         /\ \A i \in DOMAIN Append(q, m) :
               \/ i \in DOMAIN q /\ Append(q, m)[i] = q[i]
               \/ i = Len(q) + 1 /\ Append(q, m)[i] = m
         /\ \A i \in DOMAIN q : i \in Nat /\ i <= Len(q)
         /\ Len(q) \in Nat
  OBVIOUS

------------------------------------------------------------------------------
(***************************************************************************)
(* The initial state.                                                      *)
(***************************************************************************)
\* There is nothing yet to be out of order.
LEMMA InitEstablishes == Init => IInv
<1> SUFFICES ASSUME Init PROVE IInv
  OBVIOUS
<1>1. store \in Stores /\ DOMAIN store = {}
  <2>1. store \in [{} -> Entries]
    BY DEF Init
  <2> QED BY <2>1, FunctionIsStore
<1>2. TypeOK
  <2>1. queue \in Seq([node : Nodes, file : Files])
    BY DEF Init
  <2>2. /\ arrived \in 0..MaxFiles
        /\ bad \subseteq Files
        /\ net \in Networks \cup {NoNet}
        /\ lock \in {"free", "held", "leaked"} /\ lock # "held"
    BY FeedAssumption DEF Init
  <2>6. failed \in BOOLEAN /\ fresh \in BOOLEAN /\ aged \in BOOLEAN
    BY DEF Init
  <2>3. drain \in [pc : DrainSteps, size : Nat, old : SUBSET Nodes]
    BY DEF Init, DrainSteps
  <2>4. ref \in [Threads -> [pc : RefreshSteps, size : Nat,
                             old : SUBSET Nodes, got : Networks \cup {NoNet}]]
    BY DEF Init, Idle, RefreshSteps
  <2>5. \A t \in Threads : ~Refreshing(t)
    BY DEF Init, Idle, Refreshing
  <2> QED BY <1>1, <2>1, <2>2, <2>3, <2>4, <2>5, <2>6 DEF TypeOK
<1>3. OneRefresh
  BY DEF Init, Idle, OneRefresh, Refreshing
<1>4. QueueInv /\ StoreInv
  BY <1>1 DEF Init, QueueInv, StoreInv
<1>5. PictureInv
  BY DEF Init, Idle, PictureInv
<1> QED BY <1>2, <1>3, <1>4, <1>5 DEF IInv

------------------------------------------------------------------------------
(***************************************************************************)
(* The lock, apart from the data.                                          *)
(***************************************************************************)
RefType == [Threads -> [pc : RefreshSteps, size : Nat, old : SUBSET Nodes,
                        got : Networks \cup {NoNet}]]

\* Nobody starts or ends a refresh.
LEMMA LockKept ==
  ASSUME lock' = lock,
         \A t \in Threads : Refreshing(t)' <=> Refreshing(t),
         lock = "held" <=> \E t \in Threads : Refreshing(t),
         OneRefresh
  PROVE  /\ lock' = "held" <=> \E t \in Threads : Refreshing(t)'
         /\ OneRefresh'
  BY DEF OneRefresh

\* One thread starts while the lock is free.
LEMMA LockTaken ==
  ASSUME NEW t \in Threads, ref \in RefType,
         lock = "free", lock' = "held", Goto(t, "check"),
         lock = "held" <=> \E u \in Threads : Refreshing(u)
  PROVE  /\ \E u \in Threads : Refreshing(u)'
         /\ OneRefresh'
<1>1. \A u \in Threads : Refreshing(u)' <=> u = t
  BY DEF Goto, Refreshing, RefType
<1> QED BY <1>1 DEF OneRefresh

\* The one thread that refreshes ends.
LEMMA LockReleased ==
  ASSUME NEW t \in Threads, ref \in RefType, Refreshing(t), Release(t),
         OneRefresh
  PROVE  /\ lock' = "free"
         /\ \A u \in Threads : ~Refreshing(u)'
         /\ OneRefresh'
         /\ ref' \in RefType
<1>1. \A u \in Threads : ~Refreshing(u)'
  BY DEF Release, Refreshing, Idle, RefType, OneRefresh
<1>2. ref' \in RefType
  BY DEF Release, Idle, RefType, RefreshSteps
<1> QED BY <1>1, <1>2 DEF Release, OneRefresh

------------------------------------------------------------------------------
(***************************************************************************)
(* Steps that touch neither the queue, nor the store, nor the snapshot.    *)
(***************************************************************************)
\* They keep the order, unless they put something new before the snapshot.
LEMMA QuietKeepsOrder ==
  ASSUME QueueInv, StoreInv, PictureInv,
         UNCHANGED <<arrived, queue, store, net>>,
         \A t \in Threads :
            ref'[t].pc = "log" => ref[t].pc = "log" /\ ref'[t] = ref[t]
  PROVE  QueueInv' /\ StoreInv' /\ PictureInv'
  BY DEF QueueInv, StoreInv, PictureInv, Overtaken

\* Deleting from the store keeps it as well.
LEMMA DeletingKeepsOrder ==
  ASSUME TypeOK, QueueInv, StoreInv, PictureInv, NEW n \in Nodes,
         store' = Without(store, n),
         UNCHANGED <<arrived, queue, net>>,
         \A t \in Threads :
            ref'[t].pc = "log" => ref[t].pc = "log" /\ ref'[t] = ref[t]
  PROVE  QueueInv' /\ StoreInv' /\ PictureInv'
<1>1. /\ DOMAIN store' = DOMAIN store \ {n}
      /\ \A m \in DOMAIN store \ {n} : store'[m] = store[m]
  BY WithoutType DEF TypeOK
<1>2. QueueInv' /\ StoreInv'
  BY <1>1 DEF QueueInv, StoreInv
<1>3. \A m : Overtaken(m) => Overtaken(m)'
  BY <1>1 DEF Overtaken
<1> QED BY <1>2, <1>3 DEF PictureInv

------------------------------------------------------------------------------
(***************************************************************************)
(* The drain task.                                                         *)
(***************************************************************************)
LEMMA ArrivePreserves ==
  ASSUME IInv, NEW n \in Nodes, Arrive(n)
  PROVE  IInv'
<1> DEFINE m == [node |-> n, file |-> arrived + 1]
<1> USE DEF IInv
<1>1. arrived + 1 \in Files /\ arrived \in Nat /\ arrived' = arrived + 1
  BY FeedAssumption DEF TypeOK, Files, Arrive
<1>2. /\ queue \in Seq(Messages)
      /\ m \in Messages
      /\ queue' = Append(queue, m)
  BY <1>1 DEF TypeOK, Arrive, Messages
<1> HIDE DEF m
<1>3. /\ queue' \in Seq(Messages)
      /\ \A i \in DOMAIN queue' :
            \/ i \in DOMAIN queue /\ queue'[i] = queue[i]
            \/ i = Len(queue) + 1 /\ queue'[i] = m
      /\ \A i \in DOMAIN queue : i \in Nat /\ i <= Len(queue)
      /\ Len(queue) \in Nat
  BY <1>2, AppendToQueue
<1>4. /\ UNCHANGED <<store, net, ref, lock, drain>>
      /\ m.file = arrived + 1
  BY DEF Arrive, CacheUnchanged, m
<1>5. TypeOK'
  <2>1. bad' \subseteq Files
    BY <1>1 DEF TypeOK, Arrive
  <2>2. arrived' \in 0..MaxFiles
    BY <1>1 DEF Files
  <2>3. queue' \in Seq([node : Nodes, file : Files])
    BY <1>3 DEF Messages
  <2> QED BY <2>1, <2>2, <2>3
          DEF TypeOK, Arrive, CacheUnchanged, Refreshing
<1>6. OneRefresh'
  BY <1>4 DEF OneRefresh, Refreshing
<1>7. \A i \in DOMAIN queue : queue[i].file \in Nat
  BY <1>2, FilesAreNumbers
<1>8. QueueInv'
  <2>1. ASSUME NEW i \in DOMAIN queue' PROVE queue'[i].file <= arrived'
    BY <1>1, <1>3, <1>4, <1>7 DEF QueueInv
  <2>2. ASSUME NEW i \in DOMAIN queue', NEW j \in DOMAIN queue', i < j
        PROVE  queue'[i].file < queue'[j].file
    <3>1. i \in DOMAIN queue /\ queue'[i] = queue[i]
      BY <2>2, <1>3
    <3>2. CASE j \in DOMAIN queue /\ queue'[j] = queue[j]
      BY <2>2, <3>1, <3>2 DEF QueueInv
    <3>3. CASE queue'[j] = m
      BY <3>1, <3>3, <1>1, <1>4, <1>7 DEF QueueInv
    <3> QED BY <3>2, <3>3, <1>3
  <2> QED BY <2>1, <2>2 DEF QueueInv
<1>9. \A k \in Nat : k <= arrived /\ (\A i \in DOMAIN queue : k < queue[i].file)
         => k <= arrived' /\ \A i \in DOMAIN queue' : k < queue'[i].file
  BY <1>1, <1>3, <1>4
<1>10. StoreInv'
  <2>1. \A k \in DOMAIN store : store[k].file \in Nat
    BY StoreIsFunction DEF TypeOK, Entries, Files
  <2> QED BY <2>1, <1>9, <1>4 DEF StoreInv
<1>11. \A p \in Networks : Overtaken(p) => Overtaken(p)'
  <2> SUFFICES ASSUME NEW p \in Networks, Overtaken(p) PROVE Overtaken(p)'
    OBVIOUS
  <2>1. \A k \in DOMAIN p : p[k] \in Nat
    BY NetworkIsFunction DEF Files
  <2> QED BY <2>1, <1>9, <1>4 DEF Overtaken
<1>12. PictureInv'
  BY <1>4, <1>11 DEF PictureInv, TypeOK
<1> QED BY <1>5, <1>6, <1>8, <1>10, <1>12

LEMMA DrainPutPreserves ==
  ASSUME IInv, DrainPut
  PROVE  IInv'
<1> DEFINE e == [file |-> Head(queue).file, old |-> FALSE]
           n == Head(queue).node
<1> USE DEF IInv
<1>1. queue \in Seq(Messages) /\ queue # <<>> /\ queue' = Tail(queue)
  BY DEF TypeOK, DrainPut, Messages
<1>2. /\ queue' \in Seq(Messages)
      /\ Head(queue) \in Messages
      /\ 1 \in DOMAIN queue
      /\ Head(queue) = queue[1]
      /\ \A i \in DOMAIN queue' :
            /\ i + 1 \in DOMAIN queue /\ i \in Nat \ {0}
            /\ queue'[i] = queue[i + 1]
  BY <1>1, TailOfQueue
<1>3. n \in Nodes /\ e \in Entries /\ store \in Stores
  BY <1>2 DEF Messages, Entries, TypeOK
<1>4. /\ store' = With(store, n, e)
      /\ UNCHANGED <<arrived, bad, aged, lock, ref, net, failed, fresh>>
      /\ drain' = [pc |-> "scan", size |-> Size(store'), old |-> {}]
  BY DEF DrainPut, CacheUnchanged
<1>5. e.file = queue[1].file
  BY <1>2
<1> HIDE DEF e, n
<1>6. /\ store' \in Stores
      /\ DOMAIN store' = DOMAIN store \cup {n}
      /\ store'[n] = e
      /\ \A m \in DOMAIN store \ {n} : store'[m] = store[m]
  <2>1. /\ With(store, n, e) \in Stores
        /\ DOMAIN With(store, n, e) = DOMAIN store \cup {n}
        /\ With(store, n, e)[n] = e
        /\ \A m \in DOMAIN store \ {n} : With(store, n, e)[m] = store[m]
    BY <1>3, WithType
  <2> QED BY <2>1, <1>4
<1>7. TypeOK'
  <2>1. drain' \in [pc : DrainSteps, size : Nat, old : SUBSET Nodes]
    BY <1>4, <1>6, SizeType DEF DrainSteps
  <2>2. queue' \in Seq([node : Nodes, file : Files])
    BY <1>2 DEF Messages
  <2> QED BY <1>4, <1>6, <2>1, <2>2 DEF TypeOK, Refreshing
<1>8. OneRefresh'
  BY <1>4 DEF OneRefresh, Refreshing
<1>9. /\ \A i \in DOMAIN queue' : queue[1].file < queue'[i].file
      /\ queue[1].file <= arrived
  BY <1>2 DEF QueueInv
<1>10. QueueInv'
  <2>1. ASSUME NEW i \in DOMAIN queue' PROVE queue'[i].file <= arrived'
    BY <1>2, <1>4 DEF QueueInv
  <2>2. ASSUME NEW i \in DOMAIN queue', NEW j \in DOMAIN queue', i < j
        PROVE  queue'[i].file < queue'[j].file
    BY <2>2, <1>2 DEF QueueInv
  <2> QED BY <2>1, <2>2 DEF QueueInv
<1>11. StoreInv'
  BY <1>2, <1>4, <1>5, <1>6, <1>9 DEF StoreInv
<1>12. \A p \in Networks : Overtaken(p) => Overtaken(p)'
  <2> SUFFICES ASSUME NEW p \in Networks, Overtaken(p) PROVE Overtaken(p)'
    OBVIOUS
  <2>1. \A k \in DOMAIN p : p[k] \in Nat
    BY NetworkIsFunction DEF Files
  <2>2. queue[1].file \in Nat
    BY <1>2 DEF Messages, Files
  <2> QED BY <2>1, <2>2, <1>2, <1>4, <1>5, <1>6 DEF Overtaken
<1>13. PictureInv'
  BY <1>4, <1>12 DEF PictureInv, TypeOK
<1> QED BY <1>7, <1>8, <1>10, <1>11, <1>13

\* The loop, the deletions and the end of the drain task.
LEMMA DrainPrunePreserves ==
  ASSUME IInv, DrainScan \/ DrainDies \/ \E n \in Nodes : DrainDelete(n)
  PROVE  IInv'
<1> USE DEF IInv
<1>1. UNCHANGED <<arrived, bad, queue, aged, lock, ref, net, failed, fresh>>
  BY DEF DrainScan, DrainDies, DrainDelete, CacheUnchanged
<1>2. OneRefresh' /\ (lock' = "held" <=> \E t \in Threads : Refreshing(t)')
  BY <1>1 DEF OneRefresh, Refreshing, TypeOK
<1>3. drain' \in [pc : DrainSteps, size : Nat, old : SUBSET Nodes]
  <2>1. Old \subseteq Nodes
    BY StoreIsFunction DEF Old, TypeOK
  <2>2. drain \in [pc : DrainSteps, size : Nat, old : SUBSET Nodes]
    BY DEF TypeOK
  <2>3. CASE DrainScan
    BY <2>1, <2>2, <2>3 DEF DrainSteps, DrainScan
  <2>4. CASE DrainDies
    BY <2>4 DEF DrainSteps, DrainDies
  <2>5. CASE \E n \in Nodes : DrainDelete(n)
    BY <2>2, <2>5 DEF DrainSteps, DrainDelete
  <2> QED BY <2>3, <2>4, <2>5
<1>4. CASE DrainScan \/ DrainDies
  <2>1. store' = store
    BY <1>4 DEF DrainScan, DrainDies
  <2> QED BY <1>1, <1>2, <1>3, <2>1, QuietKeepsOrder DEF TypeOK
<1>5. ASSUME NEW n \in Nodes, DrainDelete(n) PROVE IInv'
  <2>1. store' = Without(store, n)
    BY <1>5 DEF DrainDelete
  <2>2. store' \in Stores
    BY <2>1, WithoutType DEF TypeOK
  <2> QED BY <1>1, <1>2, <1>3, <2>1, <2>2, DeletingKeepsOrder DEF TypeOK
<1> QED BY <1>4, <1>5

LEMMA AgePreserves ==
  ASSUME IInv, NEW n \in Nodes, Age(n)
  PROVE  IInv'
<1> USE DEF IInv
<1>1. /\ store' = [store EXCEPT ![n].old = TRUE]
      /\ n \in DOMAIN store
      /\ UNCHANGED <<arrived, bad, queue, drain, lock, ref, net, failed, fresh>>
  BY DEF Age, CacheUnchanged
<1>2. store \in [DOMAIN store -> Entries] /\ DOMAIN store \in SUBSET Nodes
  BY StoreIsFunction DEF TypeOK
<1>3. /\ store' \in [DOMAIN store -> Entries]
      /\ \A m \in DOMAIN store : store'[m].file = store[m].file
  BY <1>1, <1>2 DEF Entries
<1>4. store' \in Stores /\ DOMAIN store' = DOMAIN store
  BY <1>2, <1>3, FunctionIsStore
<1>5. TypeOK'
  BY <1>1, <1>4 DEF TypeOK, Age, Refreshing
<1>6. OneRefresh' /\ QueueInv' /\ StoreInv'
  BY <1>1, <1>3, <1>4 DEF OneRefresh, Refreshing, QueueInv, StoreInv
<1>7. \A p : Overtaken(p) => Overtaken(p)'
  BY <1>1, <1>3, <1>4 DEF Overtaken
<1> QED BY <1>1, <1>5, <1>6, <1>7 DEF PictureInv

------------------------------------------------------------------------------
(***************************************************************************)
(* The refreshes.                                                          *)
(***************************************************************************)
\* A refresh begins, or a caller comes to wait.
LEMMA GetPreserves ==
  ASSUME IInv, NEW t \in Threads, GetBlocking(t) \/ Acquire(t) \/ GetStale(t)
  PROVE  IInv'
<1> USE DEF IInv
<1>1. /\ UNCHANGED <<arrived, bad, queue, drain, aged, store, net, failed,
                     fresh>>
      /\ ref \in RefType
      /\ ref[t].pc \in {"idle", "wait"}
      /\ ref' \in RefType
      /\ \A u \in Threads :
            ref'[u].pc = "log" => ref[u].pc = "log" /\ ref'[u] = ref[u]
  BY DEF TypeOK, RefType, RefreshSteps, GetBlocking, Acquire, GetStale, Goto,
         DrainUnchanged
<1>2. QueueInv' /\ StoreInv' /\ PictureInv'
  BY <1>1, QuietKeepsOrder
<1>3. /\ OneRefresh'
      /\ lock' \in {"free", "held", "leaked"}
      /\ lock' = "held" <=> \E u \in Threads : Refreshing(u)'
  <2>1. CASE GetBlocking(t)
    <3>1. \A u \in Threads : Refreshing(u)' <=> Refreshing(u)
      BY <2>1, <1>1 DEF GetBlocking, Goto, Refreshing, RefType
    <3> QED BY <2>1, <3>1, LockKept DEF GetBlocking, TypeOK
  <2>2. CASE Acquire(t) \/ GetStale(t)
    BY <2>2, <1>1, LockTaken DEF Acquire, GetStale, TypeOK
  <2> QED BY <2>1, <2>2
<1> QED BY <1>1, <1>2, <1>3 DEF TypeOK, RefType

LEMMA SpawnFailsPreserves ==
  ASSUME IInv, SpawnFails
  PROVE  IInv'
<1> USE DEF IInv
<1>1. UNCHANGED <<arrived, bad, queue, drain, aged, store, ref, net, failed,
                  fresh>>
  BY DEF SpawnFails, DrainUnchanged
<1>2. QueueInv' /\ StoreInv' /\ PictureInv'
  BY <1>1, QuietKeepsOrder
<1>3. lock = "free" /\ lock' = "leaked"
  BY DEF SpawnFails
<1>4. OneRefresh' /\ TypeOK'
  BY <1>1, <1>3 DEF OneRefresh, Refreshing, TypeOK
<1> QED BY <1>2, <1>4

LEMMA ExpirePreserves ==
  ASSUME IInv, Expire
  PROVE  IInv'
<1> USE DEF IInv
<1>1. /\ UNCHANGED <<arrived, bad, queue, drain, aged, store, ref, net, failed,
                     lock>>
      /\ fresh' \in BOOLEAN
  BY DEF Expire, DrainUnchanged
<1>2. QueueInv' /\ StoreInv' /\ PictureInv'
  BY <1>1, QuietKeepsOrder
<1>3. OneRefresh' /\ TypeOK'
  BY <1>1 DEF OneRefresh, Refreshing, TypeOK
<1> QED BY <1>2, <1>3

\* A refresh goes on without changing the store or the snapshot.
LEMMA ReadPreserves ==
  ASSUME IInv, NEW t \in Threads,
         BeginFetch(t) \/ CountNodes(t) \/ ScanStore(t)
  PROVE  IInv'
<1> USE DEF IInv
<1>1. /\ UNCHANGED <<arrived, bad, queue, drain, aged, store, lock, net,
                     failed, fresh>>
      /\ ref \in RefType
      /\ Refreshing(t)
  BY DEF TypeOK, RefType, BeginFetch, CountNodes, ScanStore, DrainUnchanged,
         Refreshing
<1>2. /\ ref' \in RefType
      /\ ref'[t].pc \in {"len", "scan", "list", "delete"}
      /\ \A u \in Threads \ {t} : ref'[u] = ref[u]
  <2>1. CASE BeginFetch(t)
    <3>1. Size(store) \in Nat
      BY SizeType DEF TypeOK
    <3> QED BY <2>1, <3>1, <1>1 DEF BeginFetch, RefType, RefreshSteps
  <2>2. CASE CountNodes(t)
    BY <2>2, <1>1 DEF CountNodes, Goto, RefType, RefreshSteps
  <2>3. CASE ScanStore(t)
    <3>1. Old \subseteq Nodes
      BY StoreIsFunction DEF Old, TypeOK
    <3>2. PICK pc \in {"list", "delete"} :
             ref' = [ref EXCEPT ![t].pc = pc, ![t].old = Old]
      BY <2>3 DEF ScanStore
    <3> QED BY <3>1, <3>2, <1>1 DEF RefType, RefreshSteps
  <2> QED BY <2>1, <2>2, <2>3
<1>3. QueueInv' /\ StoreInv' /\ PictureInv'
  BY <1>1, <1>2, QuietKeepsOrder
<1>4. OneRefresh' /\ (lock' = "held" <=> \E u \in Threads : Refreshing(u)')
  <2>1. \A u \in Threads : Refreshing(u)' <=> Refreshing(u)
    BY <1>1, <1>2 DEF Refreshing
  <2> QED BY <2>1, <1>1, LockKept DEF TypeOK
<1> QED BY <1>1, <1>2, <1>3, <1>4 DEF TypeOK, RefType

LEMMA DeleteOldPreserves ==
  ASSUME IInv, NEW t \in Threads, NEW n \in Nodes, DeleteOld(t, n)
  PROVE  IInv'
<1> USE DEF IInv
<1>1. /\ UNCHANGED <<arrived, bad, queue, drain, aged, lock, net, failed,
                     fresh>>
      /\ ref \in RefType
      /\ Refreshing(t)
      /\ store' = Without(store, n)
  BY DEF TypeOK, RefType, DeleteOld, DrainUnchanged, Refreshing
<1>2. store' \in Stores /\ Size(store') \in Nat
  BY <1>1, WithoutType, SizeType DEF TypeOK
<1>3. /\ ref' \in RefType
      /\ ref'[t].pc \in {"list", "delete"}
      /\ \A u \in Threads \ {t} : ref'[u] = ref[u]
  <2>1. ref[t].old \ {n} \in SUBSET Nodes
    BY <1>1 DEF RefType
  <2>2. PICK pc \in {"list", "delete"}, old \in SUBSET Nodes, size \in Nat :
           ref' = [ref EXCEPT ![t].pc = pc, ![t].old = old, ![t].size = size]
    BY <2>1, <1>2 DEF DeleteOld
  <2> QED BY <2>2, <1>1 DEF RefType, RefreshSteps
<1>4. QueueInv' /\ StoreInv' /\ PictureInv'
  BY <1>1, <1>3, DeletingKeepsOrder
<1>5. OneRefresh' /\ (lock' = "held" <=> \E u \in Threads : Refreshing(u)')
  <2>1. \A u \in Threads : Refreshing(u)' <=> Refreshing(u)
    BY <1>1, <1>3 DEF Refreshing
  <2> QED BY <2>1, <1>1, LockKept DEF TypeOK
<1> QED BY <1>1, <1>2, <1>3, <1>4, <1>5 DEF TypeOK, RefType

\* What has just been read is what the store holds, so it is no older than
\* what is shown.
LEMMA BuildPreserves ==
  ASSUME IInv, NEW t \in Threads, Build(t)
  PROVE  IInv'
<1> DEFINE got == [n \in DOMAIN store |-> store[n].file]
<1> USE DEF IInv
<1>1. /\ UNCHANGED <<arrived, bad, queue, drain, aged, store, lock, net,
                     failed, fresh>>
      /\ ref \in RefType
      /\ Refreshing(t)
      /\ ref' = [ref EXCEPT ![t].pc = "log", ![t].got = got]
  BY DEF TypeOK, RefType, Build, DrainUnchanged, Refreshing
<1>2. store \in [DOMAIN store -> Entries] /\ DOMAIN store \in SUBSET Nodes
  BY StoreIsFunction DEF TypeOK
<1>3. got \in [DOMAIN store -> Files]
  BY <1>2 DEF Entries
<1>4. got \in Networks /\ got # NoNet
  BY <1>2, <1>3, FunctionIsNetwork, FeedAssumption
<1>5. Overtaken(got)
  BY <1>2 DEF Overtaken, StoreInv, Entries, Files
<1>6. net # NoNet => \A n \in DOMAIN net \cap DOMAIN got : net[n] <= got[n]
  BY DEF PictureInv, Overtaken
<1> HIDE DEF got
<1>7. /\ ref' \in RefType
      /\ ref'[t].pc = "log" /\ ref'[t].got = got
      /\ \A u \in Threads \ {t} : ref'[u] = ref[u]
  BY <1>1, <1>4 DEF RefType, RefreshSteps
<1>8. QueueInv' /\ StoreInv'
  BY <1>1 DEF QueueInv, StoreInv
<1>9. \A p : Overtaken(p) => Overtaken(p)'
  BY <1>1 DEF Overtaken
<1>10. PictureInv'
  BY <1>1, <1>4, <1>5, <1>6, <1>7, <1>9 DEF PictureInv
<1>11. OneRefresh' /\ (lock' = "held" <=> \E u \in Threads : Refreshing(u)')
  <2>1. \A u \in Threads : Refreshing(u)' <=> Refreshing(u)
    BY <1>1, <1>7 DEF Refreshing
  <2> QED BY <2>1, <1>1, LockKept DEF TypeOK
<1> QED BY <1>1, <1>7, <1>8, <1>10, <1>11 DEF TypeOK, RefType

\* A refresh ends, with or without a new network.
LEMMA EndPreserves ==
  ASSUME IInv, NEW t \in Threads, FindFresh(t) \/ Publish(t) \/ FetchFails(t)
  PROVE  IInv'
<1> USE DEF IInv
<1>1. /\ UNCHANGED <<arrived, bad, queue, drain, aged, store>>
      /\ ref \in RefType
      /\ Refreshing(t)
      /\ Release(t)
      /\ net' = net \/ (ref[t].pc = "log" /\ net' = ref[t].got)
      /\ failed' \in BOOLEAN /\ fresh' \in BOOLEAN
  <2>1. failed \in BOOLEAN /\ fresh \in BOOLEAN
    BY DEF TypeOK
  <2>2. failed' \in BOOLEAN /\ fresh' \in BOOLEAN
    BY <2>1 DEF FindFresh, Publish, FetchFails
  <2>3. ref[t].pc \notin {"idle", "wait"}
    BY DEF FindFresh, Publish, FetchFails
  <2> QED BY <2>2, <2>3
          DEF TypeOK, RefType, FindFresh, Publish, FetchFails, DrainUnchanged,
              Refreshing
<1>2. /\ lock' = "free"
      /\ \A u \in Threads : ~Refreshing(u)'
      /\ OneRefresh'
      /\ ref' \in RefType
  BY <1>1, LockReleased
<1>3. net' \in Networks \cup {NoNet}
  BY <1>1 DEF RefType, TypeOK
<1>4. QueueInv' /\ StoreInv'
  BY <1>1 DEF QueueInv, StoreInv
<1>5. PictureInv'
  <2>1. \A p : Overtaken(p) => Overtaken(p)'
    BY <1>1 DEF Overtaken
  <2>2. net' # NoNet => Overtaken(net')
    BY <1>1 DEF PictureInv
  <2>3. \A u \in Threads : ref'[u].pc # "log"
    BY <1>2 DEF Refreshing
  <2> QED BY <1>1, <2>1, <2>2, <2>3 DEF PictureInv, Overtaken
<1> QED BY <1>1, <1>2, <1>3, <1>4, <1>5 DEF TypeOK, RefType

------------------------------------------------------------------------------
(***************************************************************************)
(* Theorems.                                                               *)
(***************************************************************************)
\* Every step preserves the invariant.
LEMMA NextPreserves == IInv /\ [Next]_vars => IInv'
<1> SUFFICES ASSUME IInv, [Next]_vars PROVE IInv'
  OBVIOUS
<1>1. ASSUME NEW n \in Nodes, Arrive(n) \/ Age(n) PROVE IInv'
  BY <1>1, ArrivePreserves, AgePreserves
<1>2. CASE Drain
  BY <1>2, DrainPutPreserves, DrainPrunePreserves DEF Drain
<1>3. ASSUME NEW t \in Threads,
             GetBlocking(t) \/ Acquire(t) \/ GetStale(t) PROVE IInv'
  BY <1>3, GetPreserves
<1>4. ASSUME NEW t \in Threads, RefreshStep(t) PROVE IInv'
  BY <1>4, ReadPreserves, DeleteOldPreserves, BuildPreserves, EndPreserves
     DEF RefreshStep
<1>5. CASE SpawnFails \/ Expire
  BY <1>5, SpawnFailsPreserves, ExpirePreserves
<1>6. CASE UNCHANGED vars
  BY <1>6 DEF vars, IInv, TypeOK, OneRefresh, Refreshing, QueueInv, StoreInv,
             PictureInv, Overtaken
<1> QED BY <1>1, <1>2, <1>3, <1>4, <1>5, <1>6 DEF Next

\* The cache and the store keep their types, and the lock of the cache is held
\* when a thread refreshes and only then.
THEOREM TypeCorrect == Spec => []TypeOK
<1>1. IInv => TypeOK
  BY DEF IInv
<1> QED BY <1>1, InitEstablishes, NextPreserves, PTL DEF Spec

\* No two threads ever refresh the snapshot at once, whether they were started
\* in the background or had to wait.
THEOREM SingleFlight == Spec => []OneRefresh
<1>1. IInv => OneRefresh
  BY DEF IInv
<1> QED BY <1>1, InitEstablishes, NextPreserves, PTL DEF Spec

\* What is shown of a node is never replaced by an older file of it, however
\* refreshes, the drain task and both their prunings interleave.
THEOREM NothingGoesBackwards == Spec => NeverBackwards
<1>1. ASSUME IInv, [Next]_vars, net' # net, net # NoNet,
             NEW n \in DOMAIN net \cap DOMAIN net'
      PROVE  net'[n] >= net[n]
  <2>1. PICK t \in Threads : Publish(t)
    BY <1>1 DEF Next, vars, Arrive, Age, Drain, DrainPut, DrainScan,
                DrainDelete, DrainDies, CacheUnchanged, GetBlocking, Acquire,
                GetStale, SpawnFails, Expire, RefreshStep, FindFresh,
                BeginFetch, CountNodes, ScanStore, DeleteOld, Build, FetchFails
  <2>2. net' = ref[t].got /\ ref[t].pc = "log"
    BY <2>1 DEF Publish
  <2>3. net[n] <= net'[n]
    BY <1>1, <2>2 DEF IInv, PictureInv
  <2>4. net[n] \in Nat /\ net'[n] \in Nat
    <3>1. net \in Networks /\ net' \in Networks
      BY <1>1, <2>2 DEF IInv, TypeOK, PictureInv
    <3> QED BY <3>1, <1>1, NetworkIsFunction DEF Files
  <2> QED BY <2>3, <2>4
<1>2. IInv /\ [Next]_vars =>
        [net # NoNet =>
            \A n \in DOMAIN net \cap DOMAIN net' : net'[n] >= net[n]]_net
  BY <1>1
<1> QED BY <1>2, InitEstablishes, NextPreserves, PTL DEF Spec, NeverBackwards
=============================================================================

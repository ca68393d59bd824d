-------------------------- MODULE VesConsumerProofs --------------------------
(***************************************************************************)
(* Theorems about VesConsumer, for any set of hosts.                       *)
(***************************************************************************)
EXTENDS VesConsumer, TLAPS

\* Where the fetch is tells how many connections its host has: in the middle
\* of _get_connection there is a pooled one before the dead one is replaced,
\* none while a new one is dialled, and a new one that is not yet pooled while
\* its channel is opened.
ConnectionInv ==
    /\ pc \in {"probe", "shut"} => pool[host] # "none"
    /\ pc \in {"dial", "channel"} => pool[host] = "none"
    /\ \A h \in Hosts :
          open[h] = IF pool[h] = "none" /\ ~(pc = "channel" /\ h = host)
                    THEN 0 ELSE 1

IInv == TypeOK /\ ConnectionInv

------------------------------------------------------------------------------
\* The server starts with an empty pool.
LEMMA InitEstablishes == Init => IInv
<1> SUFFICES ASSUME Init PROVE IInv
  OBVIOUS
<1>1. TypeOK
  BY DEF Init, TypeOK, Awaits, Phases, Fetching
<1>2. ConnectionInv
  BY DEF Init, ConnectionInv
<1> QED BY <1>1, <1>2 DEF IInv

\* The loop of the consumer does not touch the pool.
LEMMA PollPreserves ==
  ASSUME IInv, Start \/ StartFails \/ Poll
  PROVE  IInv'
  BY DEF IInv, TypeOK, ConnectionInv, Awaits, Phases, Fetching, Again,
         PoolUnchanged, RestUnchanged, Start, StartFails, Poll, PollNothing,
         PollError, EndBackoff, PollFile

\* Every way a fetch goes on, fails included, accounts for its connection.
LEMMA FetchPreserves ==
  ASSUME IInv, Fetch
  PROVE  IInv'
<1> USE DEF IInv, TypeOK, ConnectionInv, Awaits, Phases, Fetching, Again,
            PoolUnchanged, RestUnchanged
<1>1. CASE TakePool
  BY <1>1 DEF TakePool
<1>2. CASE Reuse \/ FindDead
  BY <1>2 DEF Reuse, FindDead
<1>3. CASE ShutDead
  BY <1>3 DEF ShutDead, ReplaceDead
<1>4. CASE Dial
  BY <1>4 DEF Dial
<1>5. CASE DialFails
  BY <1>5 DEF DialFails, GiveUpDial
<1>6. CASE OpenChannel
  BY <1>6 DEF OpenChannel
<1>7. CASE ChannelFails
  BY <1>7 DEF ChannelFails, GiveUpChannel
<1>8. CASE Download \/ DownloadFails
  BY <1>8 DEF Download, DownloadFails
<1>9. CASE Discard
  BY <1>9 DEF Discard, ClosePooled
<1> QED BY <1>1, <1>2, <1>3, <1>4, <1>5, <1>6, <1>7, <1>8, <1>9 DEF Fetch

\* Time, the cleanup task, the peers.
LEMMA AroundPreserves ==
  ASSUME IInv, NEW h \in Hosts,
         GetIdle(h) \/ CleanIdle(h) \/ ConnectionBreaks(h) \/ ServerChanges(h)
  PROVE  IInv'
<1> USE DEF IInv, TypeOK, ConnectionInv, Awaits, Phases, Fetching,
            PoolUnchanged, RestUnchanged
<1>1. CASE GetIdle(h) \/ ServerChanges(h)
  BY <1>1 DEF GetIdle, ServerChanges
<1>2. CASE CleanIdle(h)
  BY <1>2 DEF CleanIdle, ClosePooled
<1>3. CASE ConnectionBreaks(h)
  BY <1>3 DEF ConnectionBreaks
<1> QED BY <1>1, <1>2, <1>3

\* A cancellation, wherever it meets the task, loses no connection.
LEMMA StopPreserves ==
  ASSUME IInv, Stop \/ CancelTasks \/ CloseLoop
  PROVE  IInv'
<1> USE DEF IInv, TypeOK, ConnectionInv, Awaits, Phases, Fetching, Again,
            PoolUnchanged
<1>1. CASE Stop
  BY <1>1 DEF Stop
<1>2. CASE CancelTasks
  BY <1>2 DEF CancelTasks, Interrupt, ReplaceDead, GiveUpDial, GiveUpChannel
<1>3. CASE CloseLoop
  BY <1>3 DEF CloseLoop, Interrupt, ReplaceDead, GiveUpDial, GiveUpChannel
<1> QED BY <1>1, <1>2, <1>3

\* Every step preserves the invariant.
LEMMA NextPreserves == IInv /\ [Next]_vars => IInv'
<1> SUFFICES ASSUME IInv, [Next]_vars PROVE IInv'
  OBVIOUS
<1>1. CASE Next
  BY <1>1, PollPreserves, FetchPreserves, AroundPreserves, StopPreserves
     DEF Next
<1>2. CASE UNCHANGED vars
  BY <1>2 DEF vars, IInv, TypeOK, ConnectionInv
<1> QED BY <1>1, <1>2

------------------------------------------------------------------------------
\* The consumer, the pool and the shutdown keep their types, and the lock of
\* the pool is held in the middle of _get_connection and nowhere else, however
\* calls fail and whenever the task is cancelled.
THEOREM TypeCorrect == Spec => []TypeOK
<1>1. IInv => TypeOK
  BY DEF IInv
<1> QED BY <1>1, InitEstablishes, NextPreserves, PTL DEF Spec

\* No connection to any host is ever lost track of: what is open while the
\* lock of the pool is free is in the pool, one connection for each host.
THEOREM NoneStray == Spec => []NoStrayConnection
<1>1. IInv => NoStrayConnection
  BY DEF IInv, TypeOK, ConnectionInv, NoStrayConnection
<1> QED BY <1>1, InitEstablishes, NextPreserves, PTL DEF Spec
=============================================================================

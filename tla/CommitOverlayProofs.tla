------------------------ MODULE CommitOverlayProofs ------------------------
(***************************************************************************)
(* What the dashboard shows is traceable, for any number of cells, PCIs,   *)
(* threads and snapshots: proofs about CommitOverlay.                      *)
(***************************************************************************)
EXTENDS CommitOverlay, TLAPS

\* A handler past its first overlay serves a commit, and what it is about to
\* record is in the audit trail.
RequestInv ==
    \A t \in Threads :
        /\ pc[t] \in {"patch", "reply", "record"} => req[t] # None
        /\ pc[t] = "record" => req[t] \in acked

\* The inductive invariant: what is shown comes from the feed, from an
\* acknowledged commit or from the optimizer, because every pending commit
\* is acknowledged, because what a handler records is.
IInv == TypeOK /\ RequestInv /\ OverlayWasAcked /\ DisplayTraceable

\* The types of the state are kept by every step of every handler and of the
\* environment.
LEMMA TypePreserved == TypeOK /\ RequestInv /\ [Next]_vars => TypeOK'
<1> SUFFICES ASSUME TypeOK, RequestInv, [Next]_vars PROVE TypeOK'
  OBVIOUS
<1> USE OverlayAssumption
<1> USE DEF TypeOK, Readings, Changes, Commits, Steps, env, store,
            audit
<1>1. ASSUME NEW t \in Threads, ApplyOverrides(t) PROVE TypeOK'
  <2>1. view' \in [Slots -> [Cells -> Readings]]
    BY <1>1 DEF ApplyOverrides, Kept, Pending
  <2>2. committed' \in [Cells -> Commits \cup {None}]
    BY <1>1 DEF ApplyOverrides
  <2>3. alarmed' \subseteq Cells
    BY <1>1 DEF ApplyOverrides, Expired, Pending
  <2>4. QED
    BY <1>1, <2>1, <2>2, <2>3 DEF ApplyOverrides
<1>2. ASSUME NEW t \in Threads, SetMarker(t) PROVE TypeOK'
  BY <1>2 DEF SetMarker
<1>3. ASSUME NEW t \in Threads, UnknownCell(t) PROVE TypeOK'
  BY <1>3 DEF UnknownCell
<1>4. ASSUME NEW t \in Threads, Refused(t) PROVE TypeOK'
  BY <1>4 DEF Refused, EndUnsuccessful, RequestInv
<1>5. ASSUME NEW t \in Threads, SendPatch(t) PROVE TypeOK'
  BY <1>5 DEF SendPatch, RequestInv
<1>6. ASSUME NEW t \in Threads, Acknowledged(t) PROVE TypeOK'
  BY <1>6 DEF Acknowledged, RequestInv
<1>7. ASSUME NEW t \in Threads, AnswerLost(t) PROVE TypeOK'
  BY <1>7 DEF AnswerLost, EndUnsuccessful, RequestInv
<1>8. ASSUME NEW t \in Threads, RecordCommit(t) PROVE TypeOK'
  BY <1>8 DEF RecordCommit, RequestInv
<1>9. ASSUME NEW t \in Threads, ClearMarker(t) PROVE TypeOK'
  BY <1>9 DEF ClearMarker
<1>10. ASSUME NEW t \in Threads, RecheckMarker(t) PROVE TypeOK'
  BY <1>10 DEF RecheckMarker
<1>11. ASSUME NEW t \in Threads, StartRead(t) PROVE TypeOK'
  BY <1>11 DEF StartRead
<1>12. ASSUME NEW t \in Threads, NEW c \in Cells, NEW p \in Pcis,
              StartCommit(t, c, p)
       PROVE TypeOK'
  BY <1>12 DEF StartCommit
<1>13. ASSUME NEW c \in Cells, Report(c) PROVE TypeOK'
  BY <1>13 DEF Report
<1>14. ASSUME NEW c \in Cells, Vanish(c) PROVE TypeOK'
  BY <1>14 DEF Vanish
<1>15. ASSUME NEW s \in Slots, Refresh(s) PROVE TypeOK'
  BY <1>15 DEF Refresh
<1>16. ASSUME NEW s \in Slots, NEW c \in Cells, NEW p \in Pool,
              Recolor(s, c, p)
       PROVE TypeOK'
  BY <1>16 DEF Recolor
<1>17. CASE Tick
  <2>1. \A c \in Pending : committed[c].age <= Window =>
            [committed[c] EXCEPT !.age = @ + 1] \in Commits
    BY DEF Pending
  <2>2. committed' \in [Cells -> Commits \cup {None}]
    BY <1>17, <2>1 DEF Tick
  <2>3. QED
    BY <1>17, <2>2 DEF Tick
<1>18. ASSUME NEW t \in Threads, Resend(t) PROVE TypeOK'
  BY <1>18 DEF Resend, RequestInv
<1>19. ASSUME NEW t \in Threads, TimedOut(t) PROVE TypeOK'
  BY <1>19 DEF TimedOut, EndUnsuccessful, RequestInv
<1>20. ASSUME NEW r \in Changes, LateEffect(r) PROVE TypeOK'
  BY <1>20 DEF LateEffect
<1>21. CASE UNCHANGED vars
  BY <1>21 DEF vars
<1>22. QED
  BY <1>1, <1>2, <1>3, <1>4, <1>5, <1>6, <1>7, <1>8, <1>9, <1>10, <1>11,
     <1>12, <1>13, <1>14, <1>15, <1>16, <1>17, <1>18, <1>19, <1>20, <1>21
     DEF Next, Handler, Request, Environment

\* A handler records only what it has sent and SDN-R has acknowledged.
LEMMA RequestPreserved == TypeOK /\ RequestInv /\ [Next]_vars => RequestInv'
<1> SUFFICES ASSUME TypeOK, RequestInv, [Next]_vars PROVE RequestInv'
  OBVIOUS
<1> USE OverlayAssumption
<1> USE DEF TypeOK, Changes, RequestInv, env, store, audit, Steps
<1>1. ASSUME NEW t \in Threads, Handler(t) \/ Resend(t) PROVE RequestInv'
  BY <1>1 DEF Handler, ApplyOverrides, SetMarker, UnknownCell, Refused,
              EndUnsuccessful, SendPatch, Resend, Acknowledged, AnswerLost,
              TimedOut, RecordCommit, ClearMarker, RecheckMarker
<1>2. ASSUME NEW t \in Threads, Request(t) PROVE RequestInv'
  BY <1>2 DEF Request, StartRead, StartCommit
<1>3. CASE Environment
  BY <1>3 DEF Environment, LateEffect, Report, Vanish, Refresh, Recolor, Tick
<1>4. CASE UNCHANGED vars
  BY <1>4 DEF vars
<1>5. QED
  BY <1>1, <1>2, <1>3, <1>4 DEF Next

\* A commit becomes pending only after SDN-R acknowledged it.
LEMMA AckedPreserved == IInv /\ [Next]_vars => OverlayWasAcked'
<1> SUFFICES ASSUME IInv, [Next]_vars PROVE OverlayWasAcked'
  OBVIOUS
<1> USE OverlayAssumption
<1> USE DEF IInv, TypeOK, Changes, OverlayWasAcked, env, store, audit
<1>1. ASSUME NEW t \in Threads, ApplyOverrides(t) PROVE OverlayWasAcked'
  BY <1>1 DEF ApplyOverrides
<1>2. ASSUME NEW t \in Threads, RecordCommit(t) PROVE OverlayWasAcked'
  <2>1. req[t] \in Changes /\ req[t] \in acked
    BY <1>2 DEF RecordCommit, RequestInv
  <2>2. [cell |-> req[t].cell, pci |-> req[t].pci] \in acked
    BY <2>1
  <2>3. QED
    BY <1>2, <2>1, <2>2 DEF RecordCommit
<1>3. ASSUME NEW t \in Threads, Acknowledged(t) PROVE OverlayWasAcked'
  BY <1>3 DEF Acknowledged
<1>4. ASSUME NEW t \in Threads,
             \/ SetMarker(t) \/ UnknownCell(t) \/ Refused(t) \/ SendPatch(t)
             \/ Resend(t) \/ AnswerLost(t) \/ TimedOut(t) \/ ClearMarker(t)
             \/ RecheckMarker(t) \/ Request(t)
      PROVE OverlayWasAcked'
  BY <1>4 DEF SetMarker, UnknownCell, Refused, EndUnsuccessful, SendPatch,
              Resend, AnswerLost, TimedOut, ClearMarker, RecheckMarker,
              Request, StartRead, StartCommit
<1>5. CASE Tick
  <2>1. \A c \in Pending :
            [committed[c] EXCEPT !.age = @ + 1].pci = committed[c].pci
    BY DEF Pending, Commits
  <2>2. \A c \in Cells : committed'[c] # None =>
            committed[c] # None /\ committed'[c].pci = committed[c].pci
    BY <1>5, <2>1 DEF Tick, Pending
  <2>3. QED
    BY <1>5, <2>2 DEF Tick
<1>6. CASE Environment /\ ~Tick
  BY <1>6 DEF Environment, LateEffect, Report, Vanish, Refresh, Recolor
<1>7. CASE UNCHANGED vars
  BY <1>7 DEF vars
<1>8. QED
  BY <1>1, <1>2, <1>3, <1>4, <1>5, <1>6, <1>7 DEF Next, Handler

\* Every step leaves each shown PCI traceable: the loop under the lock shows
\* pending commits only, the cache shows the feed, the optimizer its pool.
LEMMA TraceablePreserved == IInv /\ [Next]_vars => DisplayTraceable'
<1> SUFFICES ASSUME IInv, [Next]_vars PROVE DisplayTraceable'
  OBVIOUS
<1> USE OverlayAssumption
<1> USE DEF IInv, TypeOK, DisplayTraceable, env, store, audit
<1>1. ASSUME NEW t \in Threads, ApplyOverrides(t) PROVE DisplayTraceable'
  <2>1. \A c \in Kept(snap[t]) :
            [cell |-> c, pci |-> committed[c].pci] \in acked
    BY DEF Kept, Pending, OverlayWasAcked
  <2>2. \A s \in Slots, c \in Cells :
            view'[s][c] = view[s][c]
            \/ (c \in Kept(snap[t]) /\ view'[s][c] = committed[c].pci)
    BY <1>1 DEF ApplyOverrides
  <2>3. QED
    BY <1>1, <2>1, <2>2 DEF ApplyOverrides
<1>2. ASSUME NEW t \in Threads,
             \/ SetMarker(t) \/ UnknownCell(t) \/ Refused(t) \/ SendPatch(t)
             \/ Resend(t) \/ Acknowledged(t) \/ AnswerLost(t) \/ TimedOut(t)
             \/ RecordCommit(t) \/ ClearMarker(t) \/ RecheckMarker(t)
             \/ Request(t)
      PROVE DisplayTraceable'
  BY <1>2 DEF SetMarker, UnknownCell, Refused, EndUnsuccessful,
              SendPatch, Resend, Acknowledged,
              AnswerLost, TimedOut, RecordCommit, ClearMarker, RecheckMarker,
              Request, StartRead, StartCommit
<1>3. ASSUME NEW s \in Slots, Refresh(s) PROVE DisplayTraceable'
  BY <1>3 DEF Refresh
<1>4. ASSUME NEW s \in Slots, NEW c \in Cells, NEW p \in Pool,
             Recolor(s, c, p)
      PROVE DisplayTraceable'
  BY <1>4 DEF Recolor
<1>5. CASE \/ Tick
           \/ \E c \in Cells : Report(c) \/ Vanish(c)
           \/ \E r \in Changes : LateEffect(r)
  BY <1>5 DEF Tick, Report, Vanish, LateEffect
<1>6. CASE UNCHANGED vars
  BY <1>6 DEF vars
<1>7. QED
  BY <1>1, <1>2, <1>3, <1>4, <1>5, <1>6 DEF Next, Handler, Environment

LEMMA InitInv == Init => IInv
  BY OverlayAssumption
     DEF Init, IInv, TypeOK, RequestInv, OverlayWasAcked, DisplayTraceable,
         Readings, Steps

LEMMA StepInv == IInv /\ [Next]_vars => IInv'
  BY TypePreserved, RequestPreserved, AckedPreserved, TraceablePreserved
     DEF IInv

\* The variables keep their types in every reachable state.
THEOREM TypeCorrect == Spec => []TypeOK
<1>1. IInv => TypeOK
  BY DEF IInv
<1>2. QED
  BY InitInv, StepInv, <1>1, PTL DEF Spec

\* No overlay without an acknowledged write, whatever the interleaving of
\* the handlers, the cache and the optimizer.
THEOREM OverlayAcked == Spec => []OverlayWasAcked
<1>1. IInv => OverlayWasAcked
  BY DEF IInv
<1>2. QED
  BY InitInv, StepInv, <1>1, PTL DEF Spec

\* Every PCI on the dashboard has a source.
THEOREM Traceable == Spec => []DisplayTraceable
<1>1. IInv => DisplayTraceable
  BY DEF IInv
<1>2. QED
  BY InitInv, StepInv, <1>1, PTL DEF Spec

------------------------------------------------------------------------------
(***************************************************************************)
(* One request at a time, and no optimizer run: t is the only thread.      *)
(***************************************************************************)

\* The overlay of the pending commits is on the snapshot.
ShownOn(s) == \A c \in Pending : view[s][c] \in {committed[c].pci, Absent}

\* Only the thread at work sets a marker, and only on its own snapshot.
MarkerInv(t) ==
    /\ pc[t] \in {"apply", "mark", "check"} => snap[t] \notin marked
    /\ pc[t] \in {"patch", "reply", "record", "unmark"} => snap[t] \in marked
    /\ pc[t] # "idle" /\ cur # snap[t] => cur \notin marked

\* Between laying the overlay and recording another commit it stays laid.
ShownInv(t) ==
    /\ pc[t] \in {"mark", "patch", "reply", "record"} => ShownOn(snap[t])
    /\ pc[t] = "idle" /\ cur \in marked => ShownOn(cur)

\* When the overlay is laid, a commit that is not shown was recorded just now,
\* or the snapshot shows of the cell what the feed said.
UnshownInv(t) ==
    /\ pc[t] \in {"unmark", "check", "apply"} =>
           \A c \in Pending :
               \/ view[snap[t]][c] \in {committed[c].pci, Absent}
               \/ view[snap[t]][c] = base[snap[t]][c]
               \/ committed[c].age = 0
    /\ cur \notin marked /\ (pc[t] = "idle" \/ cur # snap[t]) =>
           view[cur] = base[cur]

\* A cell has the PCI it was sent last: the one of the request at work, or
\* else of the pending commit, unless an answer is outstanding.
DeviceInv(t) ==
    /\ pc[t] \in {"reply", "record"} =>
           /\ device[req[t].cell] = req[t].pci
           /\ \A r \in unanswered : r.cell # req[t].cell
    /\ \A c \in Cells :
           /\ committed[c] # None
           /\ \A r \in unanswered : r.cell # c
           /\ ~(pc[t] \in {"reply", "record"} /\ req[t].cell = c)
           => device[c] = committed[c].pci

\* Time changes the age of a commit and nothing else of it.
LEMMA TickAges ==
  ASSUME TypeOK, Tick
  PROVE  \A c \in Cells :
            /\ committed'[c] # None <=> committed[c] # None
            /\ committed[c] # None => committed'[c].pci = committed[c].pci
<1> SUFFICES ASSUME NEW c \in Cells
             PROVE  /\ committed'[c] # None <=> committed[c] # None
                    /\ committed[c] # None => committed'[c].pci = committed[c].pci
  OBVIOUS
<1>1. CASE committed[c] = None
  BY <1>1 DEF Tick, Pending
<1>2. CASE committed[c] # None
  <2>1. committed[c] \in Commits
    BY <1>2 DEF TypeOK
  <2>2. /\ [committed[c] EXCEPT !.age = @ + 1].pci = committed[c].pci
        /\ committed[c].age <= Window =>
              [committed[c] EXCEPT !.age = @ + 1] \in Commits
    BY <2>1, OverlayAssumption DEF Commits
  <2>3. CASE committed[c].age <= Window
    BY <1>2, <2>2, <2>3, OverlayAssumption DEF Tick, Pending, Commits
  <2>4. CASE ~(committed[c].age <= Window)
    BY <1>2, <2>4 DEF Tick, Pending
  <2>5. QED
    BY <2>3, <2>4
<1>3. QED
  BY <1>1, <1>2

LEMMA MarkerPreserved ==
  ASSUME NEW t, Threads = {t}, IInv, MarkerInv(t), [Next]_vars
  PROVE  MarkerInv(t)'
<1> USE DEF IInv, TypeOK, MarkerInv, env, store, audit, Steps
<1>1. CASE Handler(t) \/ Resend(t)
  BY <1>1 DEF Handler, ApplyOverrides, SetMarker, UnknownCell, Refused,
              EndUnsuccessful, SendPatch, Resend, Acknowledged, AnswerLost,
              TimedOut, RecordCommit, ClearMarker, RecheckMarker
<1>2. CASE Request(t)
  BY <1>2 DEF Request, StartRead, StartCommit
<1>3. CASE Environment
  BY <1>3 DEF Environment, LateEffect, Report, Vanish, Refresh, Recolor, Tick
<1>4. CASE UNCHANGED vars
  BY <1>4 DEF vars
<1>5. QED
  BY <1>1, <1>2, <1>3, <1>4 DEF Next

LEMMA ShownPreserved ==
  ASSUME NEW t, Threads = {t}, Pool = {}, IInv, MarkerInv(t), ShownInv(t),
         [Next]_vars
  PROVE  ShownInv(t)'
<1> USE DEF IInv, TypeOK, ShownInv, env, store, audit, Steps
<1>1. CASE ApplyOverrides(t)
  <2>1. Pending' = Kept(snap[t])
    BY <1>1 DEF ApplyOverrides, Pending, Kept
  <2>2. ShownOn(snap[t])'
    BY <1>1, <2>1 DEF ApplyOverrides, ShownOn, Kept, Pending
  <2>3. QED
    BY <1>1, <2>2 DEF ApplyOverrides
<1>2. CASE SetMarker(t)
  <2>1. \A s \in Slots : ShownOn(s) => ShownOn(s)'
    BY <1>2 DEF SetMarker, ShownOn, Pending
  <2>2. QED
    BY <1>2, <2>1 DEF SetMarker, MarkerInv
<1>3. CASE \/ UnknownCell(t) \/ Refused(t) \/ SendPatch(t) \/ Resend(t)
           \/ Acknowledged(t) \/ AnswerLost(t) \/ TimedOut(t)
  <2>1. UNCHANGED <<view, marked, cur, committed, snap>>
    BY <1>3 DEF UnknownCell, Refused, SendPatch, Resend, Acknowledged,
                AnswerLost, TimedOut
  <2>2. \A s \in Slots : ShownOn(s) => ShownOn(s)'
    BY <2>1 DEF ShownOn, Pending
  <2>3. /\ pc[t] \in {"patch", "reply"}
        /\ pc'[t] \in {"idle", "reply", "record"}
    BY <1>3 DEF UnknownCell, Refused, EndUnsuccessful, SendPatch, Resend,
                Acknowledged, AnswerLost, TimedOut
  <2>4. QED
    BY <2>1, <2>2, <2>3 DEF MarkerInv
<1>4. CASE RecordCommit(t) \/ ClearMarker(t)
  BY <1>4 DEF RecordCommit, ClearMarker
<1>5. CASE RecheckMarker(t)
  BY <1>5 DEF RecheckMarker, MarkerInv
<1>6. CASE Request(t)
  <2>1. \A s \in Slots : ShownOn(s) => ShownOn(s)'
    BY <1>6 DEF Request, StartRead, StartCommit, ShownOn, Pending
  <2>2. QED
    BY <1>6, <2>1 DEF Request, StartRead, StartCommit
<1>7. ASSUME NEW s \in Slots, Refresh(s) PROVE ShownInv(t)'
  <2>1. pc[t] # "idle" => snap[t] # s
    BY <1>7 DEF Refresh
  <2>2. \A r \in Slots : r # s /\ ShownOn(r) => ShownOn(r)'
    BY <1>7 DEF Refresh, ShownOn, Pending
  <2>3. QED
    BY <1>7, <2>1, <2>2 DEF Refresh
<1>8. CASE Tick
  <2>1. \A s \in Slots : ShownOn(s) => ShownOn(s)'
    BY <1>8, TickAges DEF ShownOn, Pending, Tick
  <2>2. QED
    BY <1>8, <2>1 DEF Tick
<1>9. CASE \/ \E c \in Cells : Report(c) \/ Vanish(c)
           \/ \E r \in Changes : LateEffect(r)
           \/ UNCHANGED vars
  BY <1>9 DEF Report, Vanish, LateEffect, vars, ShownOn, Pending
<1>10. QED
  BY <1>1, <1>2, <1>3, <1>4, <1>5, <1>6, <1>7, <1>8, <1>9
     DEF Next, Handler, Environment

LEMMA UnshownPreserved ==
  ASSUME NEW t, Threads = {t}, Pool = {}, IInv, MarkerInv(t), ShownInv(t),
         UnshownInv(t), [Next]_vars
  PROVE  UnshownInv(t)'
<1> USE DEF IInv, TypeOK, UnshownInv, env, store, audit, Steps
<1>1. CASE ApplyOverrides(t)
  BY <1>1 DEF ApplyOverrides
<1>2. CASE SetMarker(t)
  BY <1>2 DEF SetMarker, MarkerInv
<1>3. CASE \/ UnknownCell(t) \/ Refused(t) \/ SendPatch(t) \/ Resend(t)
           \/ Acknowledged(t) \/ AnswerLost(t) \/ TimedOut(t)
  <2>1. UNCHANGED <<base, view, marked, cur, snap>>
    BY <1>3 DEF UnknownCell, Refused, SendPatch, Resend, Acknowledged,
                AnswerLost, TimedOut
  <2>2. /\ pc[t] \in {"patch", "reply"}
        /\ pc'[t] \in {"idle", "reply", "record"}
    BY <1>3 DEF UnknownCell, Refused, EndUnsuccessful, SendPatch, Resend,
                Acknowledged, AnswerLost, TimedOut
  <2>3. QED
    BY <2>1, <2>2 DEF MarkerInv
<1>4. CASE RecordCommit(t)
  <2>1. ShownOn(snap[t]) /\ req[t] \in Changes
    BY <1>4 DEF RecordCommit, ShownInv, RequestInv
  <2>2. /\ UNCHANGED <<base, view, marked, cur, snap>>
        /\ pc[t] = "record" /\ pc'[t] = "unmark"
    BY <1>4 DEF RecordCommit
  <2>3. ASSUME NEW c \in Pending'
        PROVE  \/ view[snap[t]][c] \in {committed'[c].pci, Absent}
               \/ committed'[c].age = 0
    <3>1. CASE c = req[t].cell
      BY <1>4, <2>1, <3>1 DEF RecordCommit, Changes
    <3>2. CASE c # req[t].cell
      BY <1>4, <2>1, <3>2 DEF RecordCommit, Pending, ShownOn, Changes
    <3>3. QED
      BY <3>1, <3>2
  <2>4. QED
    BY <2>2, <2>3
<1>5. CASE ClearMarker(t)
  BY <1>5 DEF ClearMarker, Pending
<1>6. CASE RecheckMarker(t)
  BY <1>6 DEF RecheckMarker, MarkerInv, Pending
<1>7. CASE Request(t)
  <2>1. UNCHANGED <<base, view, marked, cur, committed>> /\ pc[t] = "idle"
    BY <1>7 DEF Request, StartRead, StartCommit
  <2>2. /\ snap'[t] = cur
        /\ (pc'[t] = "apply" /\ cur \notin marked) \/ pc'[t] = "patch"
    BY <1>7 DEF Request, StartRead, StartCommit
  <2>3. QED
    BY <2>1, <2>2 DEF Pending
<1>8. ASSUME NEW s \in Slots, Refresh(s) PROVE UnshownInv(t)'
  <2>1. /\ UNCHANGED <<committed, pc, snap>> /\ cur' = s
        /\ view'[s] = base'[s]
        /\ \A r \in Slots \ {s} : view'[r] = view[r] /\ base'[r] = base[r]
    BY <1>8 DEF Refresh
  <2>2. pc[t] # "idle" => snap[t] \in Slots \ {s}
    BY <1>8 DEF Refresh
  <2>3. QED
    BY <2>1, <2>2 DEF Pending
<1>9. CASE Tick
  BY <1>9 DEF Tick
<1>10. CASE \/ \E c \in Cells : Report(c) \/ Vanish(c)
            \/ \E r \in Changes : LateEffect(r)
            \/ UNCHANGED vars
  BY <1>10 DEF Report, Vanish, LateEffect, vars, Pending
<1>11. QED
  BY <1>1, <1>2, <1>3, <1>4, <1>5, <1>6, <1>7, <1>8, <1>9, <1>10
     DEF Next, Handler, Environment

LEMMA DevicePreserved ==
  ASSUME NEW t, Threads = {t}, IInv, DeviceInv(t), [Next]_vars
  PROVE  DeviceInv(t)'
<1> USE DEF IInv, TypeOK, DeviceInv, env, store, audit, Steps
<1>1. CASE ApplyOverrides(t)
  BY <1>1 DEF ApplyOverrides
<1>2. CASE \/ SetMarker(t) \/ UnknownCell(t) \/ Refused(t)
           \/ ClearMarker(t) \/ RecheckMarker(t) \/ Request(t)
  <2>1. UNCHANGED <<device, committed, unanswered>>
    BY <1>2 DEF SetMarker, UnknownCell, Refused, ClearMarker, RecheckMarker,
                Request, StartRead, StartCommit
  <2>2. /\ pc[t] \notin {"reply", "record"}
        /\ pc'[t] \notin {"reply", "record"}
    BY <1>2 DEF SetMarker, UnknownCell, Refused, EndUnsuccessful, ClearMarker,
                RecheckMarker, Request, StartRead, StartCommit
  <2>3. QED
    BY <2>1, <2>2
<1>3. CASE SendPatch(t) \/ Resend(t)
  <2>1. req[t] \in Changes
    BY <1>3 DEF SendPatch, Resend, RequestInv
  <2>2. /\ device' = [device EXCEPT ![req[t].cell] = req[t].pci]
        /\ UNCHANGED <<committed, req>> /\ pc'[t] = "reply"
        /\ pc[t] \in {"patch", "reply"}
    BY <1>3 DEF SendPatch, Resend
  <2>3. /\ \A r \in unanswered' : r.cell # req[t].cell
        /\ \A r \in unanswered : r.cell # req[t].cell => r \in unanswered'
    BY <1>3 DEF SendPatch, Resend
  <2>4. QED
    BY <2>1, <2>2, <2>3 DEF Changes
<1>4. CASE Acknowledged(t)
  BY <1>4 DEF Acknowledged
<1>5. CASE AnswerLost(t) \/ TimedOut(t)
  <2>1. /\ UNCHANGED <<device, committed>>
        /\ unanswered' = unanswered \cup {req[t]}
        /\ pc'[t] = "idle"
        /\ pc[t] \in {"patch", "reply"}
    BY <1>5 DEF AnswerLost, TimedOut, EndUnsuccessful
  <2>2. QED
    BY <2>1
<1>6. CASE RecordCommit(t)
  <2>1. req[t] \in Changes
    BY <1>6 DEF RecordCommit, RequestInv
  <2>2. /\ UNCHANGED <<device, unanswered>>
        /\ committed' = [committed EXCEPT ![req[t].cell] =
                            [pci |-> req[t].pci, age |-> 0]]
        /\ pc[t] = "record" /\ pc'[t] = "unmark"
    BY <1>6 DEF RecordCommit
  <2>3. QED
    BY <2>1, <2>2 DEF Changes
<1>7. CASE Tick
  <2>1. UNCHANGED <<device, unanswered, pc, req>>
    BY <1>7 DEF Tick
  <2>2. QED
    BY <1>7, <2>1, TickAges
<1>8. ASSUME NEW r \in Changes, LateEffect(r) PROVE DeviceInv(t)'
  <2>1. /\ r \in unanswered
        /\ device' = [device EXCEPT ![r.cell] = r.pci]
        /\ UNCHANGED <<committed, unanswered, pc, req>>
    BY <1>8 DEF LateEffect
  <2>2. \A c \in Cells : c # r.cell => device'[c] = device[c]
    BY <2>1
  <2>3. pc[t] \in {"reply", "record"} => req[t].cell \in Cells
    BY DEF RequestInv, Changes
  <2>4. QED
    BY <2>1, <2>2, <2>3
<1>9. CASE \/ \E c \in Cells : Report(c) \/ Vanish(c)
           \/ \E s \in Slots : Refresh(s)
           \/ \E s \in Slots, c \in Cells, p \in Pool : Recolor(s, c, p)
           \/ UNCHANGED vars
  <2>1. UNCHANGED <<device, committed, unanswered, pc, req>>
    BY <1>9 DEF Report, Vanish, Refresh, Recolor, vars
  <2>2. QED
    BY <2>1
<1>10. QED
  BY <1>1, <1>2, <1>3, <1>4, <1>5, <1>6, <1>7, <1>8, <1>9
     DEF Next, Handler, Environment

LEMMA InitAlone ==
  ASSUME NEW t, Threads = {t}, Init
  PROVE  MarkerInv(t) /\ ShownInv(t) /\ UnshownInv(t) /\ DeviceInv(t)
  BY DEF Init, MarkerInv, ShownInv, UnshownInv, DeviceInv

\* With one request at a time, an overlay that waits for the feed shows the
\* PCI the cell has, whatever SDN-R, the feed and the optimizer do.
THEOREM MatchesDevice ==
  ASSUME NEW CONSTANT t, Threads = {t}
  PROVE  Spec => []OverlayMatchesDevice
<1>1. Init => IInv /\ DeviceInv(t)
  BY InitInv, InitAlone
<1>2. IInv /\ DeviceInv(t) /\ [Next]_vars => IInv' /\ DeviceInv(t)'
  BY StepInv, DevicePreserved
<1>3. IInv /\ DeviceInv(t) => OverlayMatchesDevice
  BY DEF IInv, RequestInv, DeviceInv, OverlayMatchesDevice, Settled
<1>4. QED
  BY <1>1, <1>2, <1>3, PTL DEF Spec

\* With one request at a time and no optimizer run, a snapshot that is served
\* as it is shows every pending commit.
THEOREM AllShown ==
  ASSUME NEW CONSTANT t, Threads = {t}, Pool = {}
  PROVE  Spec => []PendingShown
<1>1. Init => IInv /\ MarkerInv(t) /\ ShownInv(t)
  BY InitInv, InitAlone
<1>2. IInv /\ MarkerInv(t) /\ ShownInv(t) /\ [Next]_vars
         => IInv' /\ MarkerInv(t)' /\ ShownInv(t)'
  BY StepInv, MarkerPreserved, ShownPreserved
<1>3. ShownInv(t) => PendingShown
  BY DEF ShownInv, ShownOn, PendingShown
<1>4. QED
  BY <1>1, <1>2, <1>3, PTL DEF Spec

\* With one request at a time and no optimizer run, "pci_replan_unconfirmed" is
\* raised over a snapshot that the feed built with another PCI.
THEOREM AlarmsAreTrue ==
  ASSUME NEW CONSTANT u, Threads = {u}, Pool = {}
  PROVE  Spec => AlarmIsTrue
<1>1. Init => IInv /\ MarkerInv(u) /\ ShownInv(u) /\ UnshownInv(u)
  BY InitInv, InitAlone
<1>2. IInv /\ MarkerInv(u) /\ ShownInv(u) /\ UnshownInv(u) /\ [Next]_vars
      => IInv' /\ MarkerInv(u)' /\ ShownInv(u)' /\ UnshownInv(u)'
  BY StepInv, MarkerPreserved, ShownPreserved, UnshownPreserved
<1>3. ASSUME IInv, UnshownInv(u), [Next]_vars, NEW c \in Pending, c \in alarmed' \ alarmed
      PROVE  /\ pc[u] = "apply"
             /\ pc'[u] = "mark"
             /\ base[snap[u]][c] # committed[c].pci
  <2>1. ApplyOverrides(u)
    BY <1>3 DEF Next, Handler, Request, Environment, SetMarker, UnknownCell,
       Refused, EndUnsuccessful, SendPatch, Resend, Acknowledged, AnswerLost,
       TimedOut, RecordCommit, ClearMarker, RecheckMarker, StartRead,
       StartCommit, LateEffect, Report, Vanish, Refresh, Recolor, Tick, vars,
       audit
  <2>2. /\ pc[u] = "apply" /\ pc'[u] = "mark"
        /\ c \in Expired(snap[u])
    BY <1>3, <2>1 DEF ApplyOverrides, IInv, TypeOK
  <2>3. /\ view[snap[u]][c] \notin {committed[c].pci, Absent}
        /\ committed[c].age > Window
    BY <2>2 DEF Expired, Gone, Matching
  <2>4. committed[c].age # 0
    BY <2>3, OverlayAssumption
  <2>5. view[snap[u]][c] = base[snap[u]][c]
    BY <1>3, <2>2, <2>3, <2>4 DEF UnshownInv
  <2>6. QED
    BY <2>2, <2>3, <2>5
<1>4. IInv /\ UnshownInv(u) /\ [Next]_vars =>
        [\A c \in Pending :
            c \in alarmed' \ alarmed
            => \E t \in Threads : /\ pc[t] = "apply"
                                  /\ pc'[t] = "mark"
                                  /\ base[snap[t]][c] # committed[c].pci]_vars
  BY <1>3
<1>5. QED
  BY <1>1, <1>2, <1>4, PTL DEF Spec, AlarmIsTrue
=============================================================================

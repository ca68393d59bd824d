--------------------------- MODULE CommitOverlay ---------------------------
(***************************************************************************)
(* The commit / confirm life cycle of an operator's PCI change, as         *)
(* DashboardData in api/dashboard_compat.py runs it.                       *)
(*                                                                         *)
(* A request handler runs in a worker thread.  Every handler first takes   *)
(* the network snapshot the cache holds and lays the pending commits over  *)
(* it (_live_network, _reapply_overrides); a commit handler then PATCHes   *)
(* the cell through SDN-R, records the commit and lays the overlay again.  *)
(* Snapshots are shared, mutable objects: a handler keeps the one it took  *)
(* while the cache swaps a fresh one in.  The "overrides applied" marker   *)
(* is tested before, and set after, the critical section of the lock.      *)
(*                                                                         *)
(* Times: committed_at is kept as the age of the commit, counted in steps  *)
(* of several minutes up to Window + 1; an age above Window is one over    *)
(* the fifteen minutes of _COMMIT_CONFIRM_WINDOW_S.                        *)
(***************************************************************************)
EXTENDS Naturals

CONSTANTS
    Cells,    \* cell identifiers
    Pcis,     \* physical cell identities
    Pool,     \* the PCIs an optimizer run draws from; {} when none is run
    Threads,  \* worker threads that serve dashboard requests
    Slots,    \* snapshot objects alive at one time
    Window,   \* confirmation window, in clock steps
    Absent,   \* value of a cell that a snapshot does not contain
    None      \* no pending commit, no request

ASSUME OverlayAssumption ==
    /\ Window \in Nat
    /\ Pool \subseteq Pcis
    /\ Absent \notin Pcis
    /\ None \notin Pcis
    /\ None \notin [cell : Cells, pci : Pcis]
    /\ None \notin [pci : Pcis, age : 0..(Window + 1)]

VARIABLES
    device,     \* the PCI each cell radiates with
    feed,       \* the PCI the latest PM data gives each cell
    base,       \* what the feed said when each snapshot was built
    view,       \* what each snapshot shows now
    marked,     \* snapshots whose marker says the overrides are applied
    cur,        \* the snapshot the cache hands out
    committed,  \* _committed_pci: pending commits
    acked,      \* the changes of the "pci_replan" audit events
    alarmed,    \* cells whose latest audit event is an alarm
    pc,         \* where each thread is
    unanswered, \* changes sent without an answer, not yet followed by another
                \* one of the cell: what SDN-R may still carry out (external)
    snap,       \* the snapshot each thread holds
    req         \* the change a thread still has to send and record

env     == <<device, feed>>
store   == <<base, view, marked, cur>>
audit   == <<acked, alarmed, unanswered>>
vars    == <<device, feed, base, view, marked, cur, committed, acked, alarmed,
             unanswered, pc, snap, req>>

Readings == Pcis \cup {Absent}
Changes  == [cell : Cells, pci : Pcis]
Commits  == [pci : Pcis, age : 0..(Window + 1)]
Steps    == {"idle", "apply", "mark", "patch", "reply", "record", "unmark",
             "check"}

TypeOK ==
    /\ device \in [Cells -> Pcis]
    /\ feed \in [Cells -> Readings]
    /\ base \in [Slots -> [Cells -> Readings]]
    /\ view \in [Slots -> [Cells -> Readings]]
    /\ marked \subseteq Slots
    /\ cur \in Slots
    /\ committed \in [Cells -> Commits \cup {None}]
    /\ acked \subseteq Changes
    /\ alarmed \subseteq Cells
    /\ unanswered \subseteq Changes
    /\ pc \in [Threads -> Steps]
    /\ snap \in [Threads -> Slots]
    /\ req \in [Threads -> Changes \cup {None}]

(***************************************************************************)
(* The process starts with no commit pending and one fresh snapshot.       *)
(***************************************************************************)
Init ==
    /\ device \in [Cells -> Pcis]
    /\ feed = device
    /\ base = [s \in Slots |-> feed]
    /\ view = base
    /\ marked = {}
    /\ cur \in Slots
    /\ committed = [c \in Cells |-> None]
    /\ acked = {}
    /\ alarmed = {}
    /\ unanswered = {}
    /\ pc = [t \in Threads |-> "idle"]
    /\ snap = [t \in Threads |-> cur]
    /\ req = [t \in Threads |-> None]

------------------------------------------------------------------------------
(***************************************************************************)
(* Laying the pending commits over a snapshot: _reapply_overrides.         *)
(***************************************************************************)

\* The commits the critical section finds pending, by what becomes of them.
Pending     == {c \in Cells : committed[c] # None}
Gone(s)     == {c \in Pending : view[s][c] = Absent}
Matching(s) == {c \in Pending : view[s][c] = committed[c].pci}

\* Faulty variants: the age is looked at before the feed's confirmation, and
\* the window never closes.
ExpiredFirst(s) == {c \in Pending \ Gone(s) : committed[c].age > Window}
NeverExpired(s) == Pending \cap {}

Expired(s)  == {c \in Pending \ (Gone(s) \cup Matching(s)) :
                    committed[c].age > Window}
Kept(s)     == Pending \ (Gone(s) \cup Matching(s) \cup Expired(s))

\* The loop under the lock: drop, alarm or overlay each pending commit.
ApplyOverrides(t) ==
    LET s == snap[t]
    IN  /\ pc[t] = "apply"
        /\ committed' = [c \in Cells |->
                            IF c \in Kept(s) THEN committed[c] ELSE None]
        /\ alarmed' = alarmed \cup Expired(s)
        /\ view' = [view EXCEPT ![s] =
                       [c \in Cells |-> IF c \in Kept(s)
                                        THEN committed[c].pci
                                        ELSE view[s][c]]]
        /\ pc' = [pc EXCEPT ![t] = "mark"]
        /\ UNCHANGED <<env, base, marked, cur, acked, unanswered, snap, req>>

\* The marker is set after the lock is released; a commit handler that has
\* not sent its change yet goes on, any other request is served.
SetMarker(t) ==
    /\ pc[t] = "mark"
    /\ marked' = marked \cup {snap[t]}
    /\ pc' = [pc EXCEPT ![t] = IF req[t] = None THEN "idle" ELSE "patch"]
    /\ UNCHANGED <<env, base, view, cur, committed, audit, snap, req>>

\* _live_network for any page of the dashboard: a marked snapshot is served
\* as it is, so only an unmarked one makes a difference.
StartRead(t) ==
    /\ pc[t] = "idle"
    /\ cur \notin marked
    /\ snap' = [snap EXCEPT ![t] = cur]
    /\ pc' = [pc EXCEPT ![t] = "apply"]
    /\ UNCHANGED <<env, store, committed, audit, req>>

------------------------------------------------------------------------------
(***************************************************************************)
(* POST /api/replan/commit: _live_commit.                                  *)
(***************************************************************************)

StartCommit(t, c, p) ==
    /\ pc[t] = "idle"
    /\ snap' = [snap EXCEPT ![t] = cur]
    /\ req' = [req EXCEPT ![t] = [cell |-> c, pci |-> p]]
    /\ pc' = [pc EXCEPT ![t] = IF cur \in marked THEN "patch" ELSE "apply"]
    /\ UNCHANGED <<env, store, committed, audit>>

\* The snapshot does not contain the cell: the handler returns at once.
UnknownCell(t) ==
    /\ pc[t] = "patch"
    /\ view[snap[t]][req[t].cell] = Absent
    /\ pc' = [pc EXCEPT ![t] = "idle"]
    /\ req' = [req EXCEPT ![t] = None]
    /\ UNCHANGED <<env, store, committed, audit, snap>>

\* The handler is over: with a "pci_replan_failed" event, or without one
\* when an exception of the HTTP library escapes.
EndUnsuccessful(t) ==
    /\ pc' = [pc EXCEPT ![t] = "idle"]
    /\ req' = [req EXCEPT ![t] = None]
    /\ alarmed' \in {alarmed, alarmed \ {req[t].cell}}

\* The change never reaches the cell: SDN-R writes are off, the preflight
\* fails, or the PATCH is refused.
Refused(t) ==
    /\ pc[t] = "patch"
    /\ view[snap[t]][req[t].cell] # Absent
    /\ EndUnsuccessful(t)
    /\ UNCHANGED <<env, store, committed, acked, unanswered, snap>>

\* The PATCH takes effect in the cell; its answer is still under way.  A
\* mount carries out its changes in order, so none sent before is left.
SendPatch(t) ==
    /\ pc[t] = "patch"
    /\ view[snap[t]][req[t].cell] # Absent
    /\ device' = [device EXCEPT ![req[t].cell] = req[t].pci]
    /\ unanswered' = {r \in unanswered : r.cell # req[t].cell}
    /\ pc' = [pc EXCEPT ![t] = "reply"]
    /\ UNCHANGED <<feed, store, committed, acked, alarmed, snap, req>>

\* The transport repeats a PATCH whose answer it judged worth a retry; its
\* number of attempts is not counted here.
Resend(t) ==
    /\ pc[t] = "reply"
    /\ device' = [device EXCEPT ![req[t].cell] = req[t].pci]
    /\ UNCHANGED <<feed, store, committed, audit, pc, snap, req>>

\* The answer arrives and is written to the audit trail.
Acknowledged(t) ==
    /\ pc[t] = "reply"
    /\ acked' = acked \cup {req[t]}
    /\ alarmed' = alarmed \ {req[t].cell}
    /\ pc' = [pc EXCEPT ![t] = "record"]
    /\ UNCHANGED <<env, store, committed, unanswered, snap, req>>

\* Faulty variant: a lost answer is taken for success.
AnswerLostTrusted(t) ==
    /\ pc[t] = "reply"
    /\ pc' = [pc EXCEPT ![t] = "record"]
    /\ alarmed' = alarmed \ {req[t].cell}
    /\ UNCHANGED <<env, store, committed, acked, unanswered, snap, req>>

\* The answer is lost: the handler reports a failed write of a change the
\* cell has made, or ends with an exception the transport does not wrap and
\* reports nothing.
AnswerLost(t) ==
    /\ pc[t] = "reply"
    /\ EndUnsuccessful(t)
    /\ unanswered' = unanswered \cup {req[t]}
    /\ UNCHANGED <<env, store, committed, acked, snap>>

\* The PATCH is sent, and the handler gives up before it takes effect.
TimedOut(t) ==
    /\ pc[t] = "patch"
    /\ view[snap[t]][req[t].cell] # Absent
    /\ EndUnsuccessful(t)
    /\ unanswered' = unanswered \cup {req[t]}
    /\ UNCHANGED <<env, store, committed, acked, snap>>

\* Faulty variant: an earlier commit of the cell is kept.
RecordCommitOnce(t) ==
    /\ pc[t] = "record"
    /\ committed' = IF committed[req[t].cell] # None
                    THEN committed
                    ELSE [committed EXCEPT ![req[t].cell] =
                             [pci |-> req[t].pci, age |-> 0]]
    /\ req' = [req EXCEPT ![t] = None]
    /\ pc' = [pc EXCEPT ![t] = "unmark"]
    /\ UNCHANGED <<env, store, audit, snap>>

RecordCommit(t) ==
    /\ pc[t] = "record"
    /\ committed' = [committed EXCEPT ![req[t].cell] =
                        [pci |-> req[t].pci, age |-> 0]]
    /\ req' = [req EXCEPT ![t] = None]
    /\ pc' = [pc EXCEPT ![t] = "unmark"]
    /\ UNCHANGED <<env, store, audit, snap>>

\* Faulty variant: the marker stays set.
ClearMarkerForgotten(t) ==
    /\ pc[t] = "unmark"
    /\ pc' = [pc EXCEPT ![t] = "check"]
    /\ UNCHANGED <<env, store, committed, audit, snap, req>>

\* delattr on the snapshot the handler took at its start.
ClearMarker(t) ==
    /\ pc[t] = "unmark"
    /\ marked' = marked \ {snap[t]}
    /\ pc' = [pc EXCEPT ![t] = "check"]
    /\ UNCHANGED <<env, base, view, cur, committed, audit, snap, req>>

\* The marker test of the second _reapply_overrides: another thread may
\* have set the marker again.
RecheckMarker(t) ==
    /\ pc[t] = "check"
    /\ pc' = [pc EXCEPT ![t] = IF snap[t] \in marked THEN "idle" ELSE "apply"]
    /\ UNCHANGED <<env, store, committed, audit, snap, req>>

------------------------------------------------------------------------------
(***************************************************************************)
(* What goes on around the handlers.                                       *)
(***************************************************************************)

\* SDN-R carries out a change whose handler has given up.
LateEffect(r) ==
    /\ r \in unanswered
    /\ device' = [device EXCEPT ![r.cell] = r.pci]
    /\ UNCHANGED <<feed, store, committed, audit, pc, snap, req>>

\* A PM file brings the cell's configured PCI.
Report(c) ==
    /\ feed' = [feed EXCEPT ![c] = device[c]]
    /\ UNCHANGED <<device, store, committed, audit, pc, snap, req>>

\* The cell leaves the PM store: its node was silent for the retention time,
\* or its latest file does not list the cell.
Vanish(c) ==
    /\ feed' = [feed EXCEPT ![c] = Absent]
    /\ UNCHANGED <<device, store, committed, audit, pc, snap, req>>

\* The cache swaps in a network built from the PM store.  The object it
\* uses is new: neither handed out nor held by a thread.  A fetch that fails
\* keeps the network object, its overlay and its marker as they are, so it is
\* no step here, and nothing obliges a fetch to succeed.
Refresh(s) ==
    /\ s # cur
    /\ \A t \in Threads : pc[t] # "idle" => snap[t] # s
    /\ base' = [base EXCEPT ![s] = feed]
    /\ view' = [view EXCEPT ![s] = feed]
    /\ marked' = marked \ {s}
    /\ cur' = s
    /\ UNCHANGED <<env, committed, audit, pc, snap, req>>

\* POST /api/optimize/run recolours the cells of the snapshot it took from
\* the cache, in place and without the lock.
Recolor(s, c, p) ==
    /\ s = cur \/ \E t \in Threads : pc[t] # "idle" /\ snap[t] = s
    /\ view[s][c] # Absent
    /\ view' = [view EXCEPT ![s][c] = p]
    /\ UNCHANGED <<env, base, marked, cur, committed, audit, pc, snap, req>>

\* Minutes pass, and no handler is between two of its local statements:
\* only a request that waits for SDN-R lasts that long.
Tick ==
    /\ \A t \in Threads : pc[t] \in {"idle", "patch", "reply"}
    /\ \E c \in Pending : committed[c].age <= Window
    /\ committed' = [c \in Cells |->
                        IF c \in Pending /\ committed[c].age <= Window
                        THEN [committed[c] EXCEPT !.age = @ + 1]
                        ELSE committed[c]]
    /\ UNCHANGED <<env, store, audit, pc, snap, req>>

Handler(t) ==
    \/ ApplyOverrides(t)
    \/ SetMarker(t)
    \/ UnknownCell(t)
    \/ Refused(t)
    \/ SendPatch(t)
    \/ Acknowledged(t)
    \/ AnswerLost(t)
    \/ TimedOut(t)
    \/ RecordCommit(t)
    \/ ClearMarker(t)
    \/ RecheckMarker(t)

Request(t) ==
    \/ StartRead(t)
    \/ \E c \in Cells, p \in Pcis : StartCommit(t, c, p)

Environment ==
    \/ \E r \in Changes : LateEffect(r)
    \/ \E c \in Cells : Report(c) \/ Vanish(c)
    \/ \E s \in Slots : Refresh(s)
    \/ \E s \in Slots, c \in Cells, p \in Pool : Recolor(s, c, p)
    \/ Tick

Next ==
    \/ \E t \in Threads : Handler(t) \/ Resend(t) \/ Request(t)
    \/ Environment

Spec == Init /\ [][Next]_vars

\* A handler runs to its end and time passes.
Fairness ==
    /\ \A t \in Threads : WF_vars(Handler(t))
    /\ SF_vars(Tick)

FairSpec == Spec /\ Fairness

------------------------------------------------------------------------------
(***************************************************************************)
(* Properties.                                                             *)
(***************************************************************************)

\* Every PCI the dashboard shows has a source: the PM feed reported it when
\* the snapshot was built, SDN-R acknowledged a change to it, or an optimizer
\* run drew it from its pool.  No half-finished or failed commit is shown.
DisplayTraceable ==
    \A s \in Slots, c \in Cells :
        \/ view[s][c] = base[s][c]
        \/ [cell |-> c, pci |-> view[s][c]] \in acked
        \/ view[s][c] \in Pool

\* A pending commit is one SDN-R acknowledged: a write that failed, or whose
\* answer was lost, never becomes an overlay.
OverlayWasAcked ==
    \A c \in Cells :
        committed[c] # None => [cell |-> c, pci |-> committed[c].pci] \in acked

\* No thread is serving a commit of the cell.
Settled(c) == \A t \in Threads : req[t] # None => req[t].cell # c

\* As long as no change of the cell is left without an answer, and no commit
\* of it is being served, a pending overlay shows the PCI the cell really
\* has: the dashboard does not mislead while it waits for the feed.
OverlayMatchesDevice ==
    \A c \in Cells :
        /\ committed[c] # None
        /\ \A r \in unanswered : r.cell # c
        /\ Settled(c)
        => device[c] = committed[c].pci

\* When no handler runs, a snapshot that is served as it is shows every
\* pending commit ("the rApp holds the new PCI as a display overlay").
PendingShown ==
    /\ \A t \in Threads : pc[t] = "idle"
    /\ cur \in marked
    => \A c \in Pending : view[cur][c] \in {committed[c].pci, Absent}

\* "pci_replan_unconfirmed" says that the PM feed still reports another PCI:
\* it is only raised over a snapshot the feed did not build with the new one.
AlarmIsTrue ==
    [][\A c \in Pending :
          c \in alarmed' \ alarmed
          => \E t \in Threads : /\ pc[t] = "apply"
                                /\ pc'[t] = "mark"
                                /\ base[snap[t]][c] # committed[c].pci]_vars

\* "If the feed reports the new value the overlay is dropped as confirmed; if
\* it does not, the rApp logs pci_replan_unconfirmed": an overlay of a cell
\* the feed knows ends with one or the other.
ConfirmedByFeed ==
    [][\A c \in Pending :
          /\ committed'[c] = None
          /\ c \notin alarmed'
          => \E t \in Threads : /\ pc[t] = "apply"
                                /\ pc'[t] = "mark"
                                /\ base[snap[t]][c]
                                      \in {committed[c].pci, Absent}]_vars

\* What the program does not bring about by itself: fetches succeed, and pages
\* are polled, again and again.
Renewed == []<><<\E s \in Slots : Refresh(s)>>_vars
Polled == []<><<\E t \in Threads : StartRead(t)>>_vars

\* While the cache is renewed and pages are polled, no commit stays pending for
\* ever: it is confirmed, alarmed, dropped with its cell, or superseded by
\* another commit of the cell.  When every fetch fails, or nobody polls, the
\* review never comes, and nothing is promised.
CommitResolved ==
    Renewed /\ Polled =>
        \A c \in Cells :
            (committed[c] # None /\ committed[c].age > 0)
                ~> (committed[c] = None \/ committed[c].age = 0)
=============================================================================

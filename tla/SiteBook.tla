------------------------------ MODULE SiteBook ------------------------------
(***************************************************************************)
(* Site data of the cells, uploaded as spreadsheets on the dashboard: the  *)
(* book of uploads, applying one of them to the live snapshot, and the     *)
(* overrides it leaves for the snapshots to come (excel_upload,            *)
(* _live_excel_apply and the second half of _reapply_overrides).  Requests *)
(* run in threads; the overrides are kept under the lock of the dashboard, *)
(* the cells of a snapshot are not.                                        *)
(***************************************************************************)
EXTENDS Naturals, Sequences

CONSTANTS
    Cells,    \* the cells of the network
    Fields,   \* the columns that have a field on a cell
    Required, \* the ones a row must have
    Vals,     \* values of a field
    Reports,  \* site data a PM file may bring for a cell
    Ids,      \* upload ids, none of them used twice
    Sheets,   \* the sheets that may be uploaded as each: sequences of rows
    Threads,
    Asked,    \* bound on the uploads each thread may be asked to apply
    Slots,    \* places for snapshots that are in use
    None,     \* nothing
    Gone,     \* a deleted upload
    Text,     \* a value that is not a number
    Out       \* a number out of range

VARIABLES
    feed,    \* what the PM files say of a cell
    snaps,   \* the snapshots: the values of each cell, and the marker
    current, \* the one the cache serves
    over,    \* _site_overrides
    wanted,  \* the value last stored for a field (history, not code)
    uploads, \* _uploads: the sheet of each id, and whether it was
             \* applied; Gone once deleted
    at,      \* where the request of a thread is
    slot,    \* its snapshot
    job      \* the upload it applies, the row it is at and what it changes

vars == <<feed, snaps, current, over, wanted, uploads, at, slot, job>>

NoJob == [id |-> None, sheet |-> <<>>, row |-> 1, changed |-> {}]
Unmarked(v) == [val |-> v, marked |-> FALSE]

Init ==
    /\ feed \in [Cells -> Reports]
    /\ \E s \in Slots : current = s
    /\ snaps = [s \in Slots |-> Unmarked(feed)]
    /\ over = [c \in Cells |-> [f \in Fields |-> None]]
    /\ wanted = over
    /\ uploads = [i \in Ids |-> None]
    /\ at = [t \in Threads |-> "idle"]
    /\ slot = [t \in Threads |-> current]
    /\ job = [t \in Threads |-> NoJob]

------------------------------------------------------------------------------
(***************************************************************************)
(* The book.                                                               *)
(***************************************************************************)

\* _parse_excel_row: what is not a number is taken for a value not given.
Given(v) == IF v = Text THEN None ELSE v

Valid(row) ==
    /\ row.cell # None
    /\ \A f \in Fields : row.val[f] # Out
    /\ \A f \in Required : Given(row.val[f]) # None

\* excel_upload: one row that is not valid has the whole sheet refused.
Upload(i, sheet) ==
    /\ uploads[i] = None
    /\ sheet # <<>>
    /\ \A n \in DOMAIN sheet : Valid(sheet[n])
    /\ uploads' = [uploads EXCEPT ![i] = [sheet |-> sheet, applied |-> FALSE]]
    /\ UNCHANGED <<feed, snaps, current, over, wanted, at, slot, job>>

\* excel_delete.  A thread that has begun to apply the upload goes on.
Delete(i) ==
    /\ uploads[i] \notin {None, Gone}
    /\ uploads' = [uploads EXCEPT ![i] = Gone]
    /\ UNCHANGED <<feed, snaps, current, over, wanted, at, slot, job>>

------------------------------------------------------------------------------
(***************************************************************************)
(* A request: it takes the snapshot, lays the overrides unless the marker  *)
(* is set, and goes on with its upload if it has one.                      *)
(***************************************************************************)
Goes(t, stage) == at' = [at EXCEPT ![t] = stage]

After(t) == IF job[t].id = None THEN "idle" ELSE "row"

\* Any page of the dashboard, or excel_apply with an upload of the book.
Start(t, i) ==
    /\ at[t] = "idle"
    /\ i # None => uploads[i] \notin {None, Gone}
    /\ slot' = [slot EXCEPT ![t] = current]
    /\ job' = [job EXCEPT ![t] =
                  IF i = None THEN NoJob
                  ELSE [NoJob EXCEPT !.id = i, !.sheet = uploads[i].sheet]]
    /\ Goes(t, IF snaps[current].marked
               THEN IF i = None THEN "idle" ELSE "row"
               ELSE "lay")
    /\ UNCHANGED <<feed, snaps, current, over, wanted, uploads>>

Laid(c, v) == [f \in Fields |-> IF over[c][f] = None THEN v[f] ELSE over[c][f]]

\* Faulty variant: like a committed PCI, an override that the PM files confirm
\* is dropped.
LayConfirming(t) ==
    /\ at[t] = "lay"
    /\ over' = [c \in Cells |-> [f \in Fields |->
                    IF over[c][f] = snaps[slot[t]].val[c][f] THEN None ELSE over[c][f]]]
    /\ snaps' = [snaps EXCEPT ![slot[t]].val = [c \in Cells |-> Laid(c, @[c])]]
    /\ Goes(t, "mark")
    /\ UNCHANGED <<feed, current, wanted, uploads, slot, job>>

Lay(t) ==
    /\ at[t] = "lay"
    /\ snaps' = [snaps EXCEPT ![slot[t]].val = [c \in Cells |-> Laid(c, @[c])]]
    /\ Goes(t, "mark")
    /\ UNCHANGED <<feed, current, over, wanted, uploads, slot, job>>

Mark(t) ==
    /\ at[t] = "mark"
    /\ snaps' = [snaps EXCEPT ![slot[t]].marked = TRUE]
    /\ Goes(t, After(t))
    /\ UNCHANGED <<feed, current, over, wanted, uploads, slot, job>>

TheRow(t) == job[t].sheet[job[t].row]

\* The fields whose value differs from the cell's, without the lock.
Differing(t) ==
    {f \in Fields :
        /\ Given(TheRow(t).val[f]) # None
        /\ snaps[slot[t]].val[TheRow(t).cell][f] # TheRow(t).val[f]}

NextRow(t) == [job EXCEPT ![t].row = @ + 1]

\* A cell that is not in the network, or a row that changes nothing: nothing
\* is stored.
SkipRow(t) ==
    /\ at[t] = "row"
    /\ job[t].row <= Len(job[t].sheet)
    /\ TheRow(t).cell \in Cells => Differing(t) = {}
    /\ job' = NextRow(t)
    /\ UNCHANGED <<feed, snaps, current, over, wanted, uploads, at, slot>>

Compare(t) ==
    /\ at[t] = "row"
    /\ job[t].row <= Len(job[t].sheet)
    /\ TheRow(t).cell \in Cells
    /\ Differing(t) # {}
    /\ job' = [job EXCEPT ![t].changed = Differing(t)]
    /\ Goes(t, "store")
    /\ UNCHANGED <<feed, snaps, current, over, wanted, uploads, slot>>

With(t, v) ==
    [f \in Fields |-> IF f \in job[t].changed THEN TheRow(t).val[f] ELSE v[f]]

Store(t) ==
    /\ at[t] = "store"
    /\ over' = [over EXCEPT ![TheRow(t).cell] = With(t, @)]
    /\ wanted' = [wanted EXCEPT ![TheRow(t).cell] = With(t, @)]
    /\ Goes(t, "set")
    /\ UNCHANGED <<feed, snaps, current, uploads, slot, job>>

\* setattr on the cell of the thread's snapshot, which may have been replaced.
SetCell(t) ==
    /\ at[t] = "set"
    /\ snaps' = [snaps EXCEPT ![slot[t]].val[TheRow(t).cell] = With(t, @)]
    /\ job' = NextRow(t)
    /\ Goes(t, "row")
    /\ UNCHANGED <<feed, current, over, wanted, uploads, slot>>

Finish(t) ==
    /\ at[t] = "row"
    /\ job[t].row > Len(job[t].sheet)
    /\ uploads' = IF uploads[job[t].id] = Gone THEN uploads
                  ELSE [uploads EXCEPT ![job[t].id].applied = TRUE]
    /\ job' = [job EXCEPT ![t] = NoJob]
    /\ Goes(t, "idle")
    /\ UNCHANGED <<feed, snaps, current, over, wanted, slot>>

GoOn(t) ==
    \/ Lay(t)
    \/ Mark(t)
    \/ SkipRow(t)
    \/ Compare(t)
    \/ Store(t)
    \/ SetCell(t)
    \/ Finish(t)

------------------------------------------------------------------------------
\* A PM file with other site data.
Report(c) ==
    /\ \E v \in Reports : feed' = [feed EXCEPT ![c] = v]
    /\ UNCHANGED <<snaps, current, over, wanted, uploads, at, slot, job>>

\* A fetch succeeds: the cache has a new snapshot, in a slot that nobody has in
\* use.  A fetch that fails keeps the network and its marker, and is no step.
Refresh ==
    \E s \in Slots \ {current} :
        /\ \A t \in Threads : at[t] # "idle" => slot[t] # s
        /\ snaps' = [snaps EXCEPT ![s] = Unmarked(feed)]
        /\ current' = s
        /\ UNCHANGED <<feed, over, wanted, uploads, at, slot, job>>

Next ==
    \/ \E i \in Ids : \E sheet \in Sheets[i] : Upload(i, sheet)
    \/ \E i \in Ids : Delete(i)
    \/ \E t \in Threads : \E i \in Asked[t] \cup {None} : Start(t, i)
    \/ \E t \in Threads : GoOn(t)
    \/ \E c \in Cells : Report(c)
    \/ Refresh

\* Threads go on.  Nothing obliges a page to ask, or a fetch to succeed.
Fairness == \A t \in Threads : WF_vars(GoOn(t))

Spec == Init /\ [][Next]_vars /\ Fairness

------------------------------------------------------------------------------
\* No thread is applying an upload.
Quiet == \A t \in Threads : job[t].id = None

\* What the dashboard shows of a cell, once the overrides are laid.
Shown == snaps[current].marked =>
             \A c \in Cells, f \in Fields :
                 wanted[c][f] # None => snaps[current].val[c][f] = wanted[c][f]

\* Fetches succeed again and again.
Renewed == []<><<Refresh>>_vars

\* What an upload has set stays set: when uploads have stopped being applied
\* and the cache goes on being renewed, every snapshot shows, from some time on,
\* the value last stored for each field, whatever the threads were doing,
\* whichever snapshot they had in hand and whatever the PM files go on
\* reporting.  Without a new snapshot nothing mends the one in which two threads
\* left different values.
SitesSettle == Renewed /\ <>[]Quiet => <>[]Shown
=============================================================================

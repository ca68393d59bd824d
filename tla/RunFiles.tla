------------------------------ MODULE RunFiles ------------------------------
(***************************************************************************)
(* POST /api/optimize/run and the run files: trigger_optimization and      *)
(* write_run of api/runs.py, and what the pages that list runs read of the *)
(* directory (list_run_files, load_run of api/services.py).                *)
(*                                                                         *)
(* A run recolours the cells of the shared snapshot, then writes a record  *)
(* through a temporary file.  An exception on the way is turned into a     *)
(* failed record, which has an id of its own and is written straight to its*)
(* place.  The process may be killed at any point.  How a run chooses its  *)
(* changes is the module Coloring.                                         *)
(***************************************************************************)
EXTENDS Naturals, FiniteSets

CONSTANTS
    Runs,       \* run ids, none of them used twice
    MaxChanges, \* changes of one run
    None        \* no run

RunsAssumption == IsFiniteSet(Runs) /\ MaxChanges \in Nat /\ None \notin Runs

VARIABLES
    stage, \* where the request is
    run,   \* the run it is at, or the id of the failed record
    made,  \* changes the run made so far, all of them on the shared snapshot
    done,  \* what each run changed on the snapshot
    temps, \* temporary files: what there is of each run
    files, \* files named after a run
    broken \* runs that an exception or a crash cut short (history, not code)

vars == <<stage, run, made, done, temps, files, broken>>

\* A file: not there, cut short, or a whole record and its changes.
Absent == [kind |-> "absent", changes |-> 0]
Cut    == [kind |-> "cut", changes |-> 0]
Whole(status, n) == [kind |-> status, changes |-> n]

\* _gen_run_id.
Fresh == {r \in Runs \ broken :
             done[r] = 0 /\ files[r] = Absent /\ temps[r] = Absent}

Init ==
    /\ stage = "idle"
    /\ run = None
    /\ made = 0
    /\ done = [r \in Runs |-> 0]
    /\ temps = [r \in Runs |-> Absent]
    /\ files = [r \in Runs |-> Absent]
    /\ broken = {}

\* The next technology with cells; the id is made up when it is needed.
Begin(r) ==
    /\ stage = "idle"
    /\ r \in Fresh
    /\ stage' = "run"
    /\ run' = r
    /\ made' = 0
    /\ UNCHANGED <<done, temps, files, broken>>

Change ==
    /\ stage = "run"
    /\ made < MaxChanges
    /\ made' = made + 1
    /\ done' = [done EXCEPT ![run] = made + 1]
    /\ UNCHANGED <<stage, run, temps, files, broken>>

\* mkstemp.
OpenTemp ==
    /\ stage = "run"
    /\ stage' = "dump"
    /\ temps' = [temps EXCEPT ![run] = Cut]
    /\ UNCHANGED <<run, made, done, files, broken>>

Dump ==
    /\ stage = "dump"
    /\ stage' = "replace"
    /\ temps' = [temps EXCEPT ![run] = Whole("pending", made)]
    /\ UNCHANGED <<run, made, done, files, broken>>

Replace ==
    /\ stage = "replace"
    /\ stage' = "idle"
    /\ files' = [files EXCEPT ![run] = temps[run]]
    /\ temps' = [temps EXCEPT ![run] = Absent]
    /\ run' = None
    /\ UNCHANGED <<made, done, broken>>

\* Faulty variant: the failed record takes the id of its run.
RaiseSameId ==
    /\ stage \in {"run", "dump", "replace"}
    /\ stage' = "failing"
    /\ \E left \in {Absent, temps[run]} : temps' = [temps EXCEPT ![run] = left]
    /\ \E begun \in {Absent, Cut} : files' = [files EXCEPT ![run] = begun]
    /\ broken' = broken \cup {run}
    /\ UNCHANGED <<run, made, done>>

\* An exception of the run or of write_run, which removes its temporary file
\* and takes no notice when it cannot; then a failed record, under a new id, is
\* begun in place, if its file can be opened.  What was changed stays changed.
Raise ==
    /\ stage \in {"run", "dump", "replace"}
    /\ stage' = "failing"
    /\ \E left \in {Absent, temps[run]} : temps' = [temps EXCEPT ![run] = left]
    /\ \E r \in Fresh \ {run} :
          /\ run' = r
          /\ \E begun \in {Absent, Cut} : files' = [files EXCEPT ![r] = begun]
    /\ broken' = broken \cup {run}
    /\ UNCHANGED <<made, done>>

RecordFailure ==
    /\ stage = "failing"
    /\ files[run] = Cut
    /\ stage' = "idle"
    /\ files' = [files EXCEPT ![run] = Whole("failed", 0)]
    /\ run' = None
    /\ UNCHANGED <<made, done, temps, broken>>

\* The failed record cannot be written either: the request ends with an error
\* and leaves the file as it is.
FailAgain ==
    /\ stage = "failing"
    /\ stage' = "idle"
    /\ run' = None
    /\ UNCHANGED <<made, done, temps, files, broken>>

Crash ==
    /\ stage # "idle"
    /\ stage' = "idle"
    /\ run' = None
    /\ broken' = broken \cup {run}
    /\ UNCHANGED <<made, done, temps, files>>

Next ==
    \/ \E r \in Runs : Begin(r)
    \/ Change
    \/ OpenTemp
    \/ Dump
    \/ Replace
    \/ Raise
    \/ RecordFailure
    \/ FailAgain
    \/ Crash

Spec == Init /\ [][Next]_vars

------------------------------------------------------------------------------
(***************************************************************************)
(* What the pages read.                                                    *)
(***************************************************************************)

\* list_run_files: *.json that load and have a run id.  The names of the
\* temporary files match as well.
Listed == {f \in [run : Runs, temp : BOOLEAN] :
              (IF f.temp THEN temps[f.run] ELSE files[f.run]).kind
                  \in {"pending", "failed"}}

Record(f) == IF f.temp THEN temps[f.run] ELSE files[f.run]

\* compute_recent_decisions: changes that wait for a decision.
PendingTotal ==
    Cardinality({fn \in Listed \X (1..MaxChanges) :
                    /\ Record(fn[1]).kind = "pending"
                    /\ fn[2] <= Record(fn[1]).changes})

TypeOK ==
    /\ stage \in {"idle", "run", "dump", "replace", "failing"}
    /\ run \in Runs \cup {None}
    /\ stage # "idle" <=> run # None
    /\ made \in 0..MaxChanges
    /\ done \in [Runs -> 0..MaxChanges]
    /\ temps \in [Runs -> [kind : {"absent", "cut", "pending", "failed"},
                           changes : 0..MaxChanges]]
    /\ files \in [Runs -> [kind : {"absent", "cut", "pending", "failed"},
                           changes : 0..MaxChanges]]
    /\ broken \in SUBSET Runs

\* What the list of runs tells is true, whatever was cut short: no run is
\* listed twice, be it under a temporary name that could not be removed; a
\* pending record has every change that its run made to the snapshot and no
\* other; a failed one stands under an id that changed nothing; a run that was
\* not cut short is listed with its changes; and so no change is counted as
\* pending more than once.  Of a run that was cut short the list may say
\* nothing, although its changes stay on the snapshot.
RunsTell ==
    /\ \A f, g \in Listed : f.run = g.run => f = g
    /\ \A f \in Listed :
          /\ Record(f).kind = "pending" => Record(f).changes = done[f.run]
          /\ Record(f).kind = "failed" => Record(f).changes = 0 /\ done[f.run] = 0
    /\ \A r \in Runs \ (broken \cup {run}) :
          done[r] > 0 => \E f \in Listed : f.run = r /\ Record(f).kind = "pending"
    /\ PendingTotal <= Cardinality({rn \in Runs \X (1..MaxChanges) : rn[2] <= done[rn[1]]})
=============================================================================

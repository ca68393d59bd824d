------------------------------ MODULE Coloring ------------------------------
(***************************************************************************)
(* One optimizer run over the cells of one technology: run_optimization    *)
(* and conservative_color_pass of algorithm/coloring.py.                   *)
(*                                                                         *)
(* A run is a sequence of passes.  A pass lists the cells in conflict once,*)
(* goes through them tier by tier, gives each the PCI with the best key,   *)
(* takes the change back when the total soft cost has risen, and locks     *)
(* everything within two hops of a change it keeps.  The cells are the     *)
(* shared objects of the network snapshot, so a PCI that is tried is       *)
(* visible before it is verified: trying and verifying are two steps.      *)
(***************************************************************************)
EXTENDS PciScoring

CONSTANTS
    MaxPasses,    \* convergence.max_passes
    PassPermille, \* convergence.per_pass_budget_pct, in thousandths
    RunPermille,  \* convergence.per_run_budget_pct, in thousandths
    MaxAbsolute,  \* convergence.max_absolute_changes
    MinGain,      \* convergence.min_soft_cost_improvement
    Override,     \* --max-changes of the command line, or None
    None,         \* no override, no trial
    InitialPcis   \* the assignments a run may start from

ASSUME RunAssumption ==
    /\ MaxPasses \in Nat \ {0}
    /\ PassPermille \in Nat
    /\ RunPermille \in Nat
    /\ MaxAbsolute \in Nat
    /\ MinGain \in Nat
    /\ Override \in Nat \cup {None}
    /\ None \notin Nat
    /\ InitialPcis \subseteq [Cells -> Pcis]
    /\ None \notin [cell : Cells, old : Pcis, new : Pcis]

VARIABLES
    pci,     \* the PCI of each cell object
    stage,   \* where the run is
    pass,    \* passes_executed
    first,   \* cells of tier 1 the pass has still to consider
    second,  \* cells of tier 2 the pass has still to consider
    usage,   \* usage_by_frequency
    locked,  \* locked cells of the pass
    trial,   \* the change that is applied but not verified
    changes, \* all_changes, then the changes of the pass
    opened,  \* number of changes when the pass began
    before,  \* soft cost when the latest pass began, at first the run
    reason,  \* stopped_reason of the latest pass
    start    \* the assignment the run began with (history, not code)

vars == <<pci, stage, pass, first, second, usage, locked, trial, changes,
          opened, before, reason, start>>

Trials  == [cell : Cells, old : Pcis, new : Pcis]
Records == [cell : Cells, old : Pcis, new : Pcis, pass : Nat]
Stages  == {"between", "scan", "verify", "done"}
Reasons == {"none", "continuing", "converged_no_changes",
            "insufficient_improvement", "run_budget_exhausted"}

------------------------------------------------------------------------------
(***************************************************************************)
(* Budgets.                                                                *)
(***************************************************************************)
AtLeast(n, m) == IF n < m THEN m ELSE n
AtMost(n, m)  == IF n > m THEN m ELSE n

\* Python's round: a half goes to the even neighbour.
RoundPermille(n) ==
    LET q == n \div 1000
        r == n % 1000
    IN  IF r < 500 \/ (r = 500 /\ q % 2 = 0) THEN q ELSE q + 1

\* _budget_cells: never less than one cell, however small the network.
BudgetCells(permille) ==
    AtLeast(RoundPermille(Cardinality(Cells) * permille), 1)

RunBudget ==
    AtMost(IF Override = None THEN BudgetCells(RunPermille) ELSE Override,
           MaxAbsolute)

PassBudget ==
    IF Override = None
    THEN BudgetCells(PassPermille)
    ELSE AtLeast(BudgetCells(PassPermille),
                 AtLeast((RunBudget + MaxPasses - 1) \div MaxPasses, 1))

\* Faulty variant: what earlier passes have spent is forgotten.
BudgetOfPassFresh == AtMost(PassBudget, RunBudget)

BudgetOfPass == AtMost(PassBudget, RunBudget - opened)

MadeInPass == Len(changes) - opened

------------------------------------------------------------------------------
(***************************************************************************)
(* The run.                                                                *)
(***************************************************************************)
Init ==
    /\ pci \in InitialPcis
    /\ stage = "between"
    /\ pass = 0
    /\ first = {}
    /\ second = {}
    /\ usage = UsageOf(pci)
    /\ locked = {}
    /\ trial = None
    /\ changes = <<>>
    /\ opened = 0
    /\ before = SoftCost(pci)
    /\ reason = "none"
    /\ start = pci

BudgetExhausted ==
    /\ stage = "between"
    /\ pass < MaxPasses
    /\ Len(changes) >= RunBudget
    /\ pass' = pass + 1
    /\ stage' = "done"
    /\ reason' = "run_budget_exhausted"
    /\ UNCHANGED <<pci, first, second, usage, locked, trial, changes, opened,
                   before, start>>

\* Faulty variant: the locks of the pass before stay.
StartPassLocked ==
    /\ stage = "between"
    /\ pass < MaxPasses
    /\ Len(changes) < RunBudget
    /\ pass' = pass + 1
    /\ stage' = "scan"
    /\ first' = Tier1(pci)
    /\ second' = Tier2(pci)
    /\ usage' = UsageOf(pci)
    /\ opened' = Len(changes)
    /\ before' = SoftCost(pci)
    /\ UNCHANGED <<pci, locked, trial, changes, reason, start>>

StartPass ==
    /\ stage = "between"
    /\ pass < MaxPasses
    /\ Len(changes) < RunBudget
    /\ pass' = pass + 1
    /\ stage' = "scan"
    /\ first' = Tier1(pci)
    /\ second' = Tier2(pci)
    /\ usage' = UsageOf(pci)
    /\ locked' = {}
    /\ opened' = Len(changes)
    /\ before' = SoftCost(pci)
    /\ UNCHANGED <<pci, trial, changes, reason, start>>

\* The cell the loop comes to next: any of the first tier that is not done.
Upcoming == IF first # {} THEN first ELSE second

Considered(c) ==
    /\ first' = first \ {c}
    /\ second' = second \ {c}

\* Locked, without a pool, or best off with the PCI it has.
Skip(c) ==
    /\ stage = "scan"
    /\ MadeInPass < BudgetOfPass
    /\ c \in Upcoming
    /\ c \in locked \/ Improving(pci, usage[Freq[c]], c) = {}
    /\ Considered(c)
    /\ UNCHANGED <<pci, stage, pass, usage, locked, trial, changes, opened,
                   before, reason, start>>

Try(c) ==
    /\ stage = "scan"
    /\ MadeInPass < BudgetOfPass
    /\ c \in Upcoming \ locked
    /\ \E q \in Improving(pci, usage[Freq[c]], c) :
           /\ trial' = [cell |-> c, old |-> pci[c], new |-> q]
           /\ pci' = [pci EXCEPT ![c] = q]
    /\ stage' = "verify"
    /\ Considered(c)
    /\ UNCHANGED <<pass, usage, locked, changes, opened, before, reason, start>>

\* compute_total_soft_cost before and after the change.
CostRises == SoftCost(pci) > SoftCost([pci EXCEPT ![trial.cell] = trial.old])

\* Faulty variant: the change is not listed but stays applied.
RevertLeft ==
    /\ stage = "verify"
    /\ CostRises
    /\ trial' = None
    /\ stage' = "scan"
    /\ UNCHANGED <<pci, pass, first, second, usage, locked, changes, opened,
                   before, reason, start>>

Revert ==
    /\ stage = "verify"
    /\ CostRises
    /\ pci' = [pci EXCEPT ![trial.cell] = trial.old]
    /\ trial' = None
    /\ stage' = "scan"
    /\ UNCHANGED <<pass, first, second, usage, locked, changes, opened,
                   before, reason, start>>

\* Faulty variants: only the cell's own neighbours are locked; the counts of
\* the PCIs in use are not kept; the cost is not looked at.
KeepTight ==
    /\ stage = "verify"
    /\ ~CostRises
    /\ usage' = [usage EXCEPT
                    ![Freq[trial.cell]][trial.old] = AtLeast(@ - 1, 0),
                    ![Freq[trial.cell]][trial.new] = @ + 1]
    /\ locked' = locked \cup {trial.cell} \cup Nbrs[trial.cell]
    /\ changes' = Append(changes, [cell |-> trial.cell, old |-> trial.old,
                                   new |-> trial.new, pass |-> pass])
    /\ trial' = None
    /\ stage' = "scan"
    /\ UNCHANGED <<pci, pass, first, second, opened, before, reason, start>>

KeepUncounted ==
    /\ stage = "verify"
    /\ ~CostRises
    /\ locked' = locked \cup WithinTwoHops(trial.cell)
    /\ changes' = Append(changes, [cell |-> trial.cell, old |-> trial.old,
                                   new |-> trial.new, pass |-> pass])
    /\ trial' = None
    /\ stage' = "scan"
    /\ UNCHANGED <<pci, pass, first, second, usage, opened, before, reason,
                   start>>

KeepUnverified ==
    /\ stage = "verify"
    /\ usage' = [usage EXCEPT
                    ![Freq[trial.cell]][trial.old] = AtLeast(@ - 1, 0),
                    ![Freq[trial.cell]][trial.new] = @ + 1]
    /\ locked' = locked \cup WithinTwoHops(trial.cell)
    /\ changes' = Append(changes, [cell |-> trial.cell, old |-> trial.old,
                                   new |-> trial.new, pass |-> pass])
    /\ trial' = None
    /\ stage' = "scan"
    /\ UNCHANGED <<pci, pass, first, second, opened, before, reason, start>>

Keep ==
    /\ stage = "verify"
    /\ ~CostRises
    /\ usage' = [usage EXCEPT
                    ![Freq[trial.cell]][trial.old] = AtLeast(@ - 1, 0),
                    ![Freq[trial.cell]][trial.new] = @ + 1]
    /\ locked' = locked \cup WithinTwoHops(trial.cell)
    /\ changes' = Append(changes, [cell |-> trial.cell, old |-> trial.old,
                                   new |-> trial.new, pass |-> pass])
    /\ trial' = None
    /\ stage' = "scan"
    /\ UNCHANGED <<pci, pass, first, second, opened, before, reason, start>>

\* Faulty variant: the budget does not end the loop over the cells.
PassOverEmpty ==
    /\ stage = "scan"
    /\ Upcoming = {}

PassOver ==
    /\ stage = "scan"
    /\ Upcoming = {} \/ MadeInPass >= BudgetOfPass

Improvement == before - SoftCost(pci)

\* A pass without a change converges, one with too little gain stops the run
\* and keeps its changes.
Stop ==
    /\ PassOver
    /\ MadeInPass = 0 \/ Improvement < MinGain
    /\ reason' = IF MadeInPass = 0 THEN "converged_no_changes"
                                   ELSE "insufficient_improvement"
    /\ stage' = "done"
    /\ UNCHANGED <<pci, pass, first, second, usage, locked, trial, changes,
                   opened, before, start>>

Continue ==
    /\ PassOver
    /\ MadeInPass > 0
    /\ Improvement >= MinGain
    /\ reason' = "continuing"
    /\ stage' = "between"
    /\ UNCHANGED <<pci, pass, first, second, usage, locked, trial, changes,
                   opened, before, start>>

\* The for loop over the passes is exhausted.
OutOfPasses ==
    /\ stage = "between"
    /\ pass = MaxPasses
    /\ stage' = "done"
    /\ UNCHANGED <<pci, pass, first, second, usage, locked, trial, changes,
                   opened, before, reason, start>>

Next ==
    \/ BudgetExhausted
    \/ StartPass
    \/ \E c \in Cells : Skip(c) \/ Try(c)
    \/ Revert
    \/ Keep
    \/ Stop
    \/ Continue
    \/ OutOfPasses

Spec == Init /\ [][Next]_vars

\* The run is one synchronous call: it goes on while it can.
FairSpec == Spec /\ WF_vars(Next)

------------------------------------------------------------------------------
(***************************************************************************)
(* Properties.                                                             *)
(***************************************************************************)
TypeOK ==
    /\ pci \in [Cells -> Pcis]
    /\ stage \in Stages
    /\ pass \in 0..MaxPasses
    /\ first \subseteq Cells
    /\ second \subseteq Cells
    /\ locked \subseteq Cells
    /\ trial \in Trials \cup {None}
    /\ stage = "verify" <=> trial # None
    /\ changes \in Seq(Records)
    /\ opened \in 0..Len(changes)
    /\ reason \in Reasons
    /\ start \in [Cells -> Pcis]

\* The change budget: a run never makes more changes than the budget of the
\* run and the absolute cap allow, nor a pass more than its own, and a change
\* that is being verified still has its place.
WithinBudget ==
    /\ Len(changes) <= RunBudget
    /\ MadeInPass <= PassBudget
    /\ stage = "verify" => /\ Len(changes) < RunBudget
                           /\ MadeInPass < PassBudget

\* "Locks that cell's neighbourhood for the rest of the pass": two changes of
\* one pass are more than two hops apart, so no cell sees two of its
\* neighbours, or a neighbour and itself, change at once.
PassChangesApart ==
    \A i, j \in DOMAIN changes :
        i # j /\ changes[i].pass = changes[j].pass
            => changes[j].cell \notin WithinTwoHops(changes[i].cell)

\* The changes that concern a cell, by their places in the list.
ChangesOf(c) == {i \in DOMAIN changes : changes[i].cell = c}

First(is) == CHOOSE i \in is : \A j \in is : i <= j
Last(is)  == CHOOSE i \in is : \A j \in is : i >= j

\* The list of changes, which is all that is written to the run file, is the
\* exact difference between the network the run found and the network it
\* leaves: each change starts from the PCI the one before it left.
ListTellsAll ==
    stage # "verify" =>
        \A c \in Cells :
            IF ChangesOf(c) = {}
            THEN pci[c] = start[c]
            ELSE /\ pci[c] = changes[Last(ChangesOf(c))].new
                 /\ start[c] = changes[First(ChangesOf(c))].old
                 /\ \A i, j \in ChangesOf(c) :
                       /\ i < j
                       /\ ~\E k \in ChangesOf(c) : i < k /\ k < j
                       => changes[j].old = changes[i].new

\* The counts of PCIs in use, updated change by change, stay what a recount
\* would give: the reuse term of the key never reads a stale count.
UsageExact == stage = "scan" => usage = UsageOf(pci)

\* The verify-and-revert guard: whatever order the cells come in, what a pass
\* leaves never costs more than what it found.
NeverCostsMore ==
    stage # "verify" => SoftCost(pci) <= before

\* A run that reports convergence has come to rest: started again from what
\* it leaves, it would change nothing.
ConvergedIsStable ==
    stage = "done" /\ reason = "converged_no_changes" =>
        \A c \in Tier1(pci) \cup Tier2(pci) :
            \A q \in Improving(pci, UsageOf(pci)[Freq[c]], c) :
                SoftCost([pci EXCEPT ![c] = q]) > SoftCost(pci)

\* Confusion has no term in the sort key: what moves a confused cell is that
\* others hold its PCI.  That is enough for a cell that has no co-channel
\* neighbour to mind: a converged run leaves it confused only when every PCI
\* of its pool is in use.
ConvergedIsUnconfused ==
    stage = "done" /\ reason = "converged_no_changes" =>
        \A c \in Confused(pci) :
            CoChannel(c) = {} =>
                \A q \in Allowed[c] :
                    \E d \in Cells : SameFreq(c, d) /\ pci[d] = q

\* A run comes to an end.
Terminates == <>(stage = "done")
=============================================================================

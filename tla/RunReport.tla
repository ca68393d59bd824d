----------------------------- MODULE RunReport ------------------------------
(***************************************************************************)
(* What is told of a finished optimizer run: the plan built from it and    *)
(* the validation of the list of its changes (build_plan of api/plan.py,   *)
(* `validate` of validation.py) beside the run itself.                     *)
(***************************************************************************)
EXTENDS Coloring, ConflictViews

\* `validate` and the plan page judge a run by the list of changes it wrote,
\* on a copy of the network the run began with: replayed in the order of the
\* file the list gives the very assignment the run left, whichever cells were
\* changed more than once, so that their counts after the run are the counts
\* of the live network, and a cell gets an old PCI in the exported plan just
\* if the list moved it and did not move it back.
ValidatedAsRun ==
    stage = "done" =>
        LET seen == Validation(start, changes)
            plan == Plan(start, pci)
        IN  /\ Recommended(start, changes) = pci
            /\ seen.after = Snapshot(pci)
            /\ seen.paletteAfter = Palette(pci)
            /\ plan.before.total - plan.resolved + plan.created = plan.after.total
            /\ plan.replaced =
                  {x \in Cells : /\ ChangesOf(x) # {}
                                /\ changes[Last(ChangesOf(x))].new
                                     # changes[First(ChangesOf(x))].old}
=============================================================================

--------------------------- MODULE ConflictViews ---------------------------
(***************************************************************************)
(* The reports drawn from one PCI assignment.  The program labels each     *)
(* pair of cells with its worst conflict in five places, each with an      *)
(* order of its own: the graph of the optimizer, the report of `detect`,   *)
(* the conflict list of the API, the edges of a plan and the dashboard.    *)
(* Counts, plans and validations are computed from them.                   *)
(*                                                                         *)
(* A class of conflict is a number: 1 a collision, 2 a confusion, and n    *)
(* for two PCIs that are equal modulo n.  A pair is a set of two cells.    *)
(***************************************************************************)
EXTENDS PciScoring

CONSTANT PageSize  \* the most rows list_conflicts returns: 200

\* What all_conflicts looks for: LTE without and with mod6, and NR.
ASSUME ViewsAssumption ==
    /\ Moduli \in {{3, 30}, {3, 6, 30}, {3, 4, 30}}
    /\ PageSize \in Nat \ {0}

Collision == 1
Confusion == 2
Classes   == {Collision, Confusion} \cup Moduli

\* Pairs in a relation of any source, on one frequency.
Linked == UNION {{{c, d} : d \in CoChannel(c)} : c \in Cells}

\* Pairs of measured neighbours of one cell, whether or not they know of
\* each other.
Siblings ==
    UNION {{{v[1], v[2]} : v \in {v \in RealNbrs[s] \X RealNbrs[s] :
                                    v[1] # v[2] /\ SameFreq(v[1], v[2])}}
           : s \in Cells}

EqualMod(p, cd, n) == \A x, y \in cd : p[x] % n = p[y] % n
EqualPci(p, cd)    == \A x, y \in cd : p[x] = p[y]

\* all_conflicts, class by class; a pair may be in several.
PairsOf(p, k) ==
    IF k = Collision THEN {cd \in Linked : EqualPci(p, cd)}
    ELSE IF k = Confusion THEN {cd \in Siblings : EqualPci(p, cd)}
    ELSE {cd \in Linked : EqualMod(p, cd, k)}

AllPairs(p) == UNION {PairsOf(p, k) : k \in Classes}

\* A conflict between cells that measured each other.
Measured(cd) == \E x, y \in cd : y \in RealNbrs[x]

------------------------------------------------------------------------------
(***************************************************************************)
(* One label per pair: the class that comes first in an order.             *)
(***************************************************************************)
ClassesOf(p, cd, order) ==
    {i \in DOMAIN order : order[i] \in Classes /\ cd \in PairsOf(p, order[i])}

Labelled(p, order) ==
    [cd \in {x \in AllPairs(p) : ClassesOf(p, x, order) # {}} |->
        order[CHOOSE i \in ClassesOf(p, cd, order) :
                 \A j \in ClassesOf(p, cd, order) : i <= j]]

GSquared(p)   == Labelled(p, <<Collision, Confusion, 3, 4, 30, 6>>)
ReportRows(p) == Labelled(p, <<Collision, Confusion, 3, 4, 30, 6>>)
\* What list_conflicts counts in its summary and its total.
AllRows(p)    == Labelled(p, <<Collision, Confusion, 3, 4, 6, 30>>)
\* Faulty variant: the finer modulus first.
PlanEdgesFine(p) == Labelled(p, <<Collision, Confusion, 30, 4, 3>>)
\* A plan never looks for the modulus 6.
PlanEdges(p)  == Labelled(p, <<Collision, Confusion, 3, 4, 30>>)

RowsOf(rows, k) == {cd \in DOMAIN rows : rows[cd] = k}

\* compute_kpis: what is neither collision nor confusion is what is left of
\* the pairs, never less than none; a pair that is both is taken off twice.
Kpis(p) ==
    LET total      == Cardinality(AllPairs(p))
        collisions == Cardinality(PairsOf(p, Collision))
        confusions == Cardinality(PairsOf(p, Confusion))
        left       == total - collisions - confusions
    IN  [conflicts |-> total, collisions |-> collisions,
         confusions |-> confusions, modn |-> IF left < 0 THEN 0 ELSE left]

\* generate_conflict_report: what a cell's line counts over the labelled pairs.
CellReal(rows, c)   == Cardinality({cd \in DOMAIN rows : c \in cd /\ Measured(cd)})
CellShadow(rows, c) == Cardinality({cd \in DOMAIN rows : c \in cd /\ ~Measured(cd)})

------------------------------------------------------------------------------
(***************************************************************************)
(* The list of the API and the dashboard, which computes its banner, its   *)
(* regions and its pool sheet from one page of it: build_real_pci_data,    *)
(* compute_pulse, full_pool_bytes.                                         *)
(***************************************************************************)

\* critical, major, minor.
Severity(k) == IF k \in {Collision, Confusion} THEN k ELSE 3

Cut(n) == IF n < PageSize THEN n ELSE PageSize

\* The first page of list_conflicts, all the dashboard ever gets: it asks for
\* 10,000 rows and the list cuts that to PageSize.  The most severe rows come
\* first; the order within a severity is left open.
ListPages(p) ==
    LET all == AllRows(p)
    IN  {[cd \in shown |-> all[cd]] : shown \in
            {some \in SUBSET DOMAIN all :
                /\ Cardinality(some) = Cut(Cardinality(DOMAIN all))
                /\ \A cd \in some, out \in DOMAIN all \ some :
                      Severity(all[cd]) <= Severity(all[out])}}

\* Everything of the list that is neither is shown as "mod3".
DashboardType(rows, cd) ==
    IF rows[cd] \in {Collision, Confusion} THEN rows[cd] ELSE 3

\* The neighbours a cell's card names under a modulus: not the ones with the
\* very PCI of the cell.
CardMod(p, c, n) ==
    {d \in CoChannel(c) : p[d] # p[c] /\ p[d] % n = p[c] % n}

Mod3Cells(rows) == UNION {cd \in DOMAIN rows : DashboardType(rows, cd) = 3}

\* A region's cells without a conflict, and its conflicts.
RegionHealth(rows, region) ==
    [ok |-> Cardinality(region \ UNION DOMAIN rows),
     conflicts |-> Cardinality({cd \in DOMAIN rows : cd \cap region # {}})]

\* compute_pulse: the counts of the banner, and the regions most conflicts
\* touch, of which it names one.
Touching(rows, region) ==
    Cardinality({cd \in DOMAIN rows : \E c \in cd : c \in region})

Pulse(rows, regions) ==
    [conflictCount |-> Cardinality(DOMAIN rows),
     mod3Cells     |-> Cardinality(Mod3Cells(rows)),
     worst         |-> {r \in regions :
                           /\ Touching(rows, r) > 0
                           /\ \A s \in regions :
                                 Touching(rows, s) <= Touching(rows, r)}]

Holders(p, q) == {c \in Cells : p[c] = q}

\* The sheet of the whole pool: more than one holder is a collision there,
\* on whatever frequency and at whatever distance.
PoolStatus(p, rows, q) ==
    IF Holders(p, q) = {} THEN "unassigned"
    ELSE IF Cardinality(Holders(p, q)) > 1 THEN "collision"
    ELSE IF Holders(p, q) \cap Mod3Cells(rows) # {} THEN "mod3_cluster"
    ELSE "in_use"

------------------------------------------------------------------------------
(***************************************************************************)
(* A plan, and the validation of a list of changes.                        *)
(***************************************************************************)

\* _counts.
Summary(edges) ==
    [total |-> Cardinality(DOMAIN edges),
     hard  |-> Cardinality({cd \in DOMAIN edges :
                               edges[cd] \in {Collision, Confusion}})]

Keys(edges) == {<<cd, edges[cd]>> : cd \in DOMAIN edges}

\* build_plan, from the assignment it was given to the one its run left.
Plan(p, q) ==
    LET old == Keys(PlanEdges(p))
        new == Keys(PlanEdges(q))
    IN  [before   |-> Summary(PlanEdges(p)),
         after    |-> Summary(PlanEdges(q)),
         resolved |-> Cardinality(old \ new),
         created  |-> Cardinality(new \ old),
         \* _export_rows: the old PCI, where it is not the one of the plan.
         replaced |-> {c \in Cells : p[c] # q[c]}]

\* Faulty variant: the first change of a cell is the one that counts.
RecommendedFirst(p, recs) ==
    [c \in Cells |->
        LET mine == {i \in DOMAIN recs : recs[i].cell = c}
        IN  IF mine = {} THEN p[c]
            ELSE recs[CHOOSE i \in mine : \A j \in mine : i <= j].new]

\* _apply_recommendations: the changes in the order of the file, on a copy.
\* The last of a cell is what it has in the end.
Recommended(p, recs) ==
    [c \in Cells |->
        LET mine == {i \in DOMAIN recs : recs[i].cell = c}
        IN  IF mine = {} THEN p[c]
            ELSE recs[CHOOSE i \in mine : \A j \in mine : i >= j].new]

\* _conflict_snapshot.
Snapshot(p) == [k \in Classes |-> Cardinality(PairsOf(p, k))]

\* _palette_stats: the PCIs in use and how many cells each residue has.
Palette(p) ==
    [unique |-> Cardinality({p[c] : c \in Cells}),
     mod3   |-> [r \in 0..2 |-> Cardinality({c \in Cells : p[c] % 3 = r})]]

\* compute_ho_validation of `validate`.
Validation(p, recs) ==
    [before |-> Snapshot(p), after |-> Snapshot(Recommended(p, recs)),
     paletteBefore |-> Palette(p), paletteAfter |-> Palette(Recommended(p, recs)),
     churned |-> Len(recs)]
=============================================================================

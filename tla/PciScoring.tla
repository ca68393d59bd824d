----------------------------- MODULE PciScoring -----------------------------
(***************************************************************************)
(* The conflicts of a PCI assignment and what they cost: the pure part of  *)
(* the optimizer (algorithm/conflict_graph.py, algorithm/scoring.py, the   *)
(* neighbourhoods of models.py) for the cells of one technology.           *)
(*                                                                         *)
(* A network is given by its neighbour sets, its frequencies and the       *)
(* weight of each pair; an assignment p gives every cell a PCI.  Weights   *)
(* are whole numbers here: only their sums and order matter.  A sum of     *)
(* weights is the number of its units: pairs <<x, u>> with u \in 1..weight. *)
(***************************************************************************)
EXTENDS Integers, Sequences, FiniteSets

CONSTANTS
    Cells,       \* the cells of the technology that is optimized
    Pcis,        \* physical cell identities
    Nbrs,        \* _neighbors_index: real and shadow relations, both ways
    RealNbrs,    \* _real_neighbor_map: measured relations only, both ways
    Freq,        \* primary_frequency() of each cell
    NoFreq,      \* the frequency is not known
    Weight,      \* WeightProvider.weight of a pair of cells
    MaxWeight,   \* bound on the weights
    Order,       \* position of a cell in Python's iteration of a set of ids
    Moduli,      \* the moduli all_conflicts looks for
    ModPriority, \* the moduli of the sort key, most important first
    Allowed      \* allowed_pool_for: range of the site type less the reserved

ASSUME NetworkAssumption ==
    /\ Pcis \subseteq Nat
    /\ Nbrs \in [Cells -> SUBSET Cells]
    /\ \A c \in Cells : c \notin Nbrs[c]
    /\ \A c, d \in Cells : d \in Nbrs[c] <=> c \in Nbrs[d]
    /\ RealNbrs \in [Cells -> SUBSET Cells]
    /\ \A c \in Cells : RealNbrs[c] \subseteq Nbrs[c]
    /\ \A c, d \in Cells : d \in RealNbrs[c] <=> c \in RealNbrs[d]
    /\ Allowed \in [Cells -> SUBSET Pcis]

\* What the evaluation of the costs needs besides.
ASSUME WeightAssumption ==
    /\ IsFiniteSet(Cells)
    /\ MaxWeight \in Nat
    /\ \A c, d \in Cells : /\ Weight[<<c, d>>] \in 0..MaxWeight
                           /\ Weight[<<c, d>>] = Weight[<<d, c>>]
    /\ \A c, d \in Cells : c # d => Order[c] # Order[d]
    /\ Moduli \subseteq Nat \ {0}
    /\ ModPriority \in Seq(Nat \ {0})

CollisionPenalty == 10
ConfusionPenalty == 6

SameFreq(c, d) == Freq[c] # NoFreq /\ Freq[c] = Freq[d]

\* The neighbours a cell can collide or interfere with.
CoChannel(c) == {d \in Nbrs[c] : SameFreq(c, d)}

------------------------------------------------------------------------------
(***************************************************************************)
(* Conflicts: detect_collisions, detect_confusions, compute_modN_violations*)
(* and the two tiers in which a pass considers their cells.                *)
(***************************************************************************)

Colliding(p) == {c \in Cells : \E d \in CoChannel(c) : p[c] = p[d]}

\* Two measured neighbours of a cell on one frequency with one PCI.
Confused(p) ==
    {c \in Cells :
        \E s \in RealNbrs[c] :
            \E d \in RealNbrs[s] \ {c} : SameFreq(c, d) /\ p[c] = p[d]}

Interfering(p) ==
    {c \in Cells :
        \E d \in CoChannel(c), n \in Moduli : p[c] % n = p[d] % n}

\* Hard conflicts first; within a tier the code orders the cells by load and
\* handover failures, data that the model leaves open.
Tier1(p) == Colliding(p) \cup Confused(p)
Tier2(p) == Interfering(p) \ Tier1(p)

\* What a change locks: the cell and the cells at most two hops away.
WithinTwoHops(c) ==
    {c} \cup Nbrs[c] \cup UNION {Nbrs[d] : d \in Nbrs[c]}

\* pci_usage_by_frequency, as the holders of each PCI on each frequency.
UsageOf(p) ==
    [f \in {Freq[c] : c \in Cells} \ {NoFreq} |->
        [q \in Pcis |-> Cardinality({c \in Cells : Freq[c] = f /\ p[c] = q})]]

------------------------------------------------------------------------------
(***************************************************************************)
(* Costs: candidate_sort_key and compute_total_soft_cost.                  *)
(***************************************************************************)

Units == 1..MaxWeight

\* Weight of the neighbours ds of c.
Disturbed(c, ds) ==
    Cardinality({du \in ds \X Units : du[2] <= Weight[<<c, du[1]>>]})

ModTerm(p, c, q, n) ==
    Disturbed(c, {d \in CoChannel(c) : q % n = p[d] % n})

\* Faulty variant: the key does not count the holders of the PCI.
SortKeyNoReuse(p, use, c, q) ==
    <<CollisionPenalty * Disturbed(c, {d \in CoChannel(c) : p[d] = q})>>
    \o [i \in DOMAIN ModPriority |-> ModTerm(p, c, q, ModPriority[i])]
    \o <<q>>

\* The sort key of PCI q for cell c; use counts the holders on its frequency.
SortKey(p, use, c, q) ==
    <<CollisionPenalty * Disturbed(c, {d \in CoChannel(c) : p[d] = q})>>
    \o [i \in DOMAIN ModPriority |-> ModTerm(p, c, q, ModPriority[i])]
    \o <<use[q] - (IF q = p[c] THEN 1 ELSE 0), q>>

\* Python's order of tuples.
Precedes(k, l) ==
    \E i \in DOMAIN k :
        k[i] < l[i] /\ \A j \in 1..(i - 1) : k[j] = l[j]

\* pick_pci: the PCI of the pool whose key precedes all the others.  No two
\* keys are equal, for a key ends in its PCI.
BestPcis(p, use, c) ==
    LET keys == {SortKey(p, use, c, q) : q \in Allowed[c]}
    IN  {q \in Allowed[c] :
            LET key == SortKey(p, use, c, q)
            IN  \A k \in keys \ {key} : Precedes(key, k)}

\* The PCI a pass would move the cell to: the best one, if it is better than
\* the one the cell has.  Without a pool there is none.
Improving(p, use, c) ==
    {q \in BestPcis(p, use, c) :
        q # p[c] /\ Precedes(SortKey(p, use, c, q), SortKey(p, use, c, p[c]))}

\* Every pair of co-channel neighbours once, unit by unit of its weight.
CoChannelPairs ==
    {cd \in Cells \X Cells :
        Order[cd[1]] < Order[cd[2]] /\ cd[2] \in CoChannel(cd[1])}

PairUnits == {pu \in CoChannelPairs \X Units : pu[2] <= Weight[pu[1]]}

\* A cell s and two of its measured neighbours, in the order of iteration.
\* Confused, they cost their weight, or else what the first one weighs at s.
Views ==
    {v \in Cells \X (Cells \X Cells) :
        /\ v[2][1] \in RealNbrs[v[1]] /\ v[2][2] \in RealNbrs[v[1]]
        /\ Order[v[2][1]] < Order[v[2][2]]
        /\ SameFreq(v[2][1], v[2][2])}

ViewWeight(v) ==
    IF Weight[v[2]] # 0 THEN Weight[v[2]] ELSE Weight[<<v[1], v[2][1]>>]

ViewUnits == {vu \in Views \X Units : vu[2] <= ViewWeight(vu[1])}

CollisionsOf(p) == {pu \in PairUnits : p[pu[1][1]] = p[pu[1][2]]}
ConfusionsOf(p) == {vu \in ViewUnits : p[vu[1][2][1]] = p[vu[1][2][2]]}

\* Colliding pairs pay for the collision only.
ModsOf(p) ==
    {pm \in (PairUnits \ CollisionsOf(p)) \X (DOMAIN ModPriority) :
        LET cd == pm[1][1]
            n  == ModPriority[pm[2]]
        IN  p[cd[1]] % n = p[cd[2]] % n}

\* With no moduli configured the total is 0, confusions included.
SoftCost(p) ==
    IF ModPriority = <<>>
    THEN 0
    ELSE CollisionPenalty * Cardinality(CollisionsOf(p))
         + ConfusionPenalty * Cardinality(ConfusionsOf(p))
         + Cardinality(ModsOf(p))
=============================================================================

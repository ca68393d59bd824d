----------------------------- MODULE ReplanGate -----------------------------
(***************************************************************************)
(* Two judgements on an assignment that do not use the optimizer: the PCI  *)
(* the dashboard proposes for one cell (_live_propose) and the verdict of  *)
(* the correlation gate (`hypothesis`, correlation.py) on whether conflicts*)
(* explain failed handovers.  Both look at the neighbourhood with code of  *)
(* their own; the properties relate it to the conflicts of the detectors.  *)
(***************************************************************************)
EXTENDS ConflictViews

CONSTANTS
    PoolRange,       \* _pci_pool_range: the site type's range, reserved or not
    Attempts,        \* handover attempts of a pair, both directions
    Failures,        \* failed handovers of a pair, both directions
    MinPairAttempts, \* a pair with fewer attempts is not a sample
    MinPoolPairs,    \* pairs needed on either side
    RatioNum, RatioDen  \* min_correlation_ratio

------------------------------------------------------------------------------
(***************************************************************************)
(* _live_propose.                                                          *)
(***************************************************************************)

\* Python's == also takes two unknown frequencies for the same.
SameLabel(c, d) == Freq[c] = Freq[d]

Beside(c) == {d \in Nbrs[c] : SameLabel(c, d)}

UsedBy(p, c, q) == Cardinality({d \in Cells : SameLabel(c, d) /\ p[d] = q})

\* The first in the order of use, then of the PCIs themselves.
LeastUsed(p, c, qs) ==
    CHOOSE q \in qs :
        \A r \in qs : \/ UsedBy(p, c, q) < UsedBy(p, c, r)
                      \/ UsedBy(p, c, q) = UsedBy(p, c, r) /\ q <= r

\* Faulty variant: only the measured neighbours block a PCI.
UnblockedMeasured(p, c) ==
    PoolRange[c] \ ({p[c]} \cup {p[d] : d \in Beside(c) \cap RealNbrs[c]})

Unblocked(p, c) == PoolRange[c] \ ({p[c]} \cup {p[d] : d \in Beside(c)})

Clean3(p, c) ==
    {q \in Unblocked(p, c) : \A d \in Beside(c) : q % 3 # p[d] % 3}

\* None, or the one proposed.
Proposal(p, c) ==
    IF Clean3(p, c) # {} THEN {LeastUsed(p, c, Clean3(p, c))}
    ELSE IF Unblocked(p, c) # {} THEN {LeastUsed(p, c, Unblocked(p, c))}
    ELSE {}

------------------------------------------------------------------------------
(***************************************************************************)
(* compute_ho_correlation.                                                 *)
(***************************************************************************)

Pairs == UNION {{{c, d} : d \in RealNbrs[c]} : c \in Cells}

\* The thresholds of samples are constants of the program; the ratio is
\* configured, and one below zero asks for no more than zero does.
ASSUME GateAssumption ==
    /\ PoolRange \in [Cells -> SUBSET Nat]
    /\ \A cd \in Pairs : Attempts[cd] \in Nat /\ Failures[cd] \in Nat
    /\ MinPairAttempts \in Nat \ {0}
    /\ MinPoolPairs \in Nat \ {0}
    /\ RatioNum \in Nat
    /\ RatioDen \in Nat \ {0}

\* _is_confusion_pair: a neighbour of one cell has the PCI of the other.
Mistaken(p, cd) ==
    \E s, t \in cd :
        /\ s # t
        /\ \E nb \in RealNbrs[s] \ {t} : SameLabel(nb, t) /\ p[nb] = p[t]

\* Faulty variant: mod-30 equality is looked at alone.
MatchesCoarse(p, cd) == {n \in Moduli \cap {30} : EqualMod(p, cd, n)}

OneChannel(cd)   == \A x, y \in cd : SameLabel(x, y)
KnownChannel(cd) == \A x \in cd : Freq[x] # NoFreq

Matches(p, cd) == {n \in Moduli \cap {3, 4, 30} : EqualMod(p, cd, n)}

GateClass(p, cd) ==
    IF EqualPci(p, cd) /\ OneChannel(cd) /\ KnownChannel(cd) THEN "collision"
    ELSE IF Mistaken(p, cd) THEN "confusion"
    ELSE IF ~OneChannel(cd) \/ Matches(p, cd) = {} THEN "clean"
    ELSE IF Cardinality(Matches(p, cd)) > 1 THEN "multi_mod"
    ELSE "mod_only"

Samples == {cd \in Pairs : Attempts[cd] >= MinPairAttempts}
CleanPool(p)    == {cd \in Samples : GateClass(p, cd) = "clean"}
ConflictPool(p) == Samples \ CleanPool(p)

\* The sum of a count over a set of pairs, unit by unit.
Total(count, pairs) ==
    Cardinality(UNION {{cd} \X (1..count[cd]) : cd \in pairs})

\* The ratio of the two failure rates reaches the threshold.
RatioReached(p) ==
    Total(Failures, ConflictPool(p)) * Total(Attempts, CleanPool(p)) * RatioDen
        >= RatioNum * Total(Failures, CleanPool(p)) * Total(Attempts, ConflictPool(p))

\* The p-value is a fact about the rates that the model leaves open; there is
\* none with fewer than two pairs on a side.
PValues(p) ==
    IF Cardinality(CleanPool(p)) >= 2 /\ Cardinality(ConflictPool(p)) >= 2
    THEN {"low", "high", "none"}
    ELSE {"none"}

Verdict(p, pvalue) ==
    IF \/ Cardinality(ConflictPool(p)) < MinPoolPairs
       \/ Cardinality(CleanPool(p)) < MinPoolPairs
       \/ Total(Failures, CleanPool(p)) = 0
    THEN "NEEDS MORE DATA"
    ELSE IF ~RatioReached(p) THEN "DO NOT SHIP"
    ELSE IF pvalue = "high" THEN "NEEDS MORE DATA"
    ELSE "SHIP"

------------------------------------------------------------------------------
(***************************************************************************)
(* Properties of an assignment p.                                          *)
(***************************************************************************)

\* One page of the list beside all that is in conflict.
PageAgreesOn(p, rows) ==
    LET all == AllRows(p)
    IN  /\ \A k \in 1..3 :
              LET worst == {cd \in DOMAIN all : Severity(all[cd]) <= k}
              IN  Cardinality(worst) <= PageSize => worst \subseteq DOMAIN rows
        /\ \A c \in Cells : RegionHealth(rows, {c}).conflicts = 0
                                <=> RegionHealth(rows, {c}).ok = 1
        /\ \A half \in SUBSET Cells :
              LET regions == {half, Cells \ half} \ {{}}
                  pulse   == Pulse(rows, regions)
              IN  /\ pulse.conflictCount = Cut(Kpis(p).conflicts)
                  /\ pulse.worst = {} <=> \A r \in regions :
                          RegionHealth(rows, r).ok = Cardinality(r)
                  /\ \A r \in pulse.worst, s \in regions :
                        RegionHealth(rows, s).conflicts
                            <= RegionHealth(rows, r).conflicts
        /\ \A cd \in PairsOf(p, Collision) :
              \A c \in cd : PoolStatus(p, rows, p[c]) = "collision"

\* The views agree.  Graph, report, list and plan name the same pairs with the
\* same label although their orders differ, the KPIs count them, a cell's line
\* of the report counts its degree in the graph, and its card names the listed
\* pairs less the collisions.  The dashboard has one page of them: nothing of
\* a severity is missing there as long as that severity and the worse ones fit
\* a page; its banner counts what the KPIs count up to a page, the banner and
\* the regions count the same rows however the cells are divided, and every
\* collision is one on the pool's sheet, on the page or not.
ViewsAgreeOn(p) ==
    LET all  == AllRows(p)
        kpis == Kpis(p)
    IN  /\ GSquared(p) = all
        /\ ReportRows(p) = all
        /\ PlanEdges(p) = all
        /\ kpis.conflicts = Cardinality(DOMAIN all)
        /\ kpis.collisions = Cardinality(RowsOf(all, Collision))
        /\ \A c \in Cells :
              /\ CellReal(all, c) + CellShadow(all, c)
                    = Cardinality({cd \in DOMAIN all : c \in cd})
              /\ \A n \in Moduli :
                    CardMod(p, c, n)
                        = {d \in Cells \ {c} : /\ {c, d} \in PairsOf(p, n)
                                               /\ {c, d} \notin PairsOf(p, Collision)}
        /\ \A rows \in ListPages(p) : PageAgreesOn(p, rows)

\* "clear of co-frequency neighbours": a cell that takes the PCI proposed for
\* it is in no collision, brings no other cell into one, and is in no mod-3
\* conflict when the proposal says it is safe.
ProposalIsClearOn(p) ==
    \A c \in Cells : \A q \in Proposal(p, c) :
        LET after == [p EXCEPT ![c] = q]
        IN  /\ c \notin Colliding(after)
            /\ Colliding(after) \subseteq Colliding(p)
            /\ Clean3(p, c) # {} =>
                  \A d \in Cells \ {c} : {c, d} \notin PairsOf(after, 3)

\* The gate compares conflicts with clean pairs: no pair it counts as clean is
\* in a conflict list, and it lets the rApp ship only if handovers between cells
\* in conflict failed (unless any ratio will do) and there is a listed conflict,
\* or two cells of unknown frequency that it takes for one carrier.
GateReadsConflictsOn(p) ==
    /\ CleanPool(p) \cap AllPairs(p) = {}
    /\ \A pv \in PValues(p) :
          Verdict(p, pv) = "SHIP" =>
              /\ RatioNum > 0 => \E cd \in ConflictPool(p) : Failures[cd] > 0
              /\ \/ AllPairs(p) # {}
                 \/ \E c, d \in Cells : c # d /\ Freq[c] = NoFreq /\ Freq[d] = NoFreq
=============================================================================

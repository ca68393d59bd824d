--------------------------- MODULE ColoringProofs ---------------------------
(***************************************************************************)
(* The promises of an optimizer run, for every network, pool and budget:   *)
(* proofs about Coloring and                                               *)
(***************************************************************************)
EXTENDS RunReport, FiniteSetTheorems, SequenceTheorems,
        WellFoundedInduction, TLAPS

\* What a pass relies on while it goes through its cells: the budget it took,
\* the locks of the changes it has made, and the pass each change belongs to.
PassInv ==
    /\ Len(changes) <= RunBudget
    /\ MadeInPass <= PassBudget
    /\ stage \in {"scan", "verify"} => MadeInPass <= BudgetOfPass
    /\ stage = "verify" => MadeInPass < BudgetOfPass

LockInv ==
    /\ \A i \in DOMAIN changes : changes[i].pass <= pass
    /\ stage \in {"scan", "verify"} =>
           \A i \in DOMAIN changes :
               /\ i <= opened => changes[i].pass < pass
               /\ i > opened => WithinTwoHops(changes[i].cell) \subseteq locked
    /\ stage = "verify" => trial.cell \notin locked

\* What the revert guard keeps: taking the trial back never costs more than
\* the pass found.
CostInv ==
    /\ before \in Nat
    /\ stage = "verify" =>
           SoftCost([pci EXCEPT ![trial.cell] = trial.old]) <= before

\* A budget is a natural number: rounding does not go below zero.
LEMMA BudgetType == RunBudget \in Nat /\ PassBudget \in Nat
<1>1. Cardinality(Cells) \in Nat
  BY WeightAssumption, FS_CardinalityType
<1>2. ASSUME NEW m \in Nat PROVE BudgetCells(m) \in Nat
  <2>1. Cardinality(Cells) * m \in Nat
    BY <1>1
  <2>2. ASSUME NEW n \in Nat PROVE RoundPermille(n) \in Nat
    BY DEF RoundPermille
  <2>3. QED
    BY <2>1, <2>2 DEF BudgetCells, AtLeast
<1>3. RunBudget \in Nat
  BY <1>2, RunAssumption DEF RunBudget, AtMost
<1>4. (RunBudget + MaxPasses - 1) \div MaxPasses \in Int
  BY <1>3, RunAssumption
<1>5. AtLeast((RunBudget + MaxPasses - 1) \div MaxPasses, 1) \in Nat
  BY <1>4 DEF AtLeast
<1>6. BudgetCells(PassPermille) \in Nat
  BY <1>2, RunAssumption
<1>7. QED
  BY <1>3, <1>5, <1>6 DEF PassBudget, AtLeast

\* Two hops from c to d are two hops from d to c.
LEMMA TwoHopsSymmetric ==
  ASSUME NEW c \in Cells, NEW d \in Cells, d \in WithinTwoHops(c)
  PROVE  c \in WithinTwoHops(d)
<1>1. CASE d = c
  BY <1>1 DEF WithinTwoHops
<1>2. CASE d \in Nbrs[c]
  BY <1>2, NetworkAssumption DEF WithinTwoHops
<1>3. CASE \E e \in Nbrs[c] : d \in Nbrs[e]
  <2>1. PICK e \in Nbrs[c] : d \in Nbrs[e]
    BY <1>3
  <2>2. e \in Cells
    BY NetworkAssumption
  <2>3. e \in Nbrs[d] /\ c \in Nbrs[e]
    BY <2>1, <2>2, NetworkAssumption
  <2>4. QED
    BY <2>3 DEF WithinTwoHops
<1>4. QED
  BY <1>1, <1>2, <1>3 DEF WithinTwoHops

LEMMA TwoHopsType ==
  ASSUME NEW c \in Cells
  PROVE  WithinTwoHops(c) \subseteq Cells /\ c \in WithinTwoHops(c)
BY NetworkAssumption DEF WithinTwoHops

LEMMA UnitsFinite == IsFiniteSet(Units)
  BY WeightAssumption, FS_Interval DEF Units

\* What an assignment pays for is finite.
LEMMA CostParts ==
  ASSUME NEW p
  PROVE  /\ IsFiniteSet(CollisionsOf(p))
         /\ IsFiniteSet(ConfusionsOf(p))
         /\ IsFiniteSet(ModsOf(p))
<1>1. IsFiniteSet(Units)
  BY UnitsFinite
<1>2. IsFiniteSet(Cells \X Cells) /\ IsFiniteSet(Cells \X (Cells \X Cells))
  BY WeightAssumption, FS_Product
<1>3. IsFiniteSet(CoChannelPairs) /\ IsFiniteSet(Views)
  BY <1>2, FS_Subset DEF CoChannelPairs, Views
<1>4. IsFiniteSet(CoChannelPairs \X Units) /\ IsFiniteSet(Views \X Units)
  BY <1>1, <1>3, FS_Product
<1>5. IsFiniteSet(PairUnits) /\ IsFiniteSet(ViewUnits)
  BY <1>4, FS_Subset DEF PairUnits, ViewUnits
<1>6. IsFiniteSet(CollisionsOf(p)) /\ IsFiniteSet(ConfusionsOf(p))
  BY <1>5, FS_Subset DEF CollisionsOf, ConfusionsOf
<1>7. IsFiniteSet(ModsOf(p))
  <2>1. IsFiniteSet(PairUnits \ CollisionsOf(p))
    BY <1>5, FS_Subset
  <2>2. DOMAIN ModPriority = 1..Len(ModPriority) /\ Len(ModPriority) \in Nat
    BY WeightAssumption
  <2>3. IsFiniteSet(DOMAIN ModPriority)
    BY <2>2, FS_Interval
  <2>4. IsFiniteSet((PairUnits \ CollisionsOf(p)) \X (DOMAIN ModPriority))
    BY <2>1, <2>3, FS_Product
  <2>5. QED
    BY <2>4, FS_Subset DEF ModsOf
<1>8. QED
  BY <1>6, <1>7

\* The soft cost of an assignment is a natural number.
LEMMA CostType ==
  ASSUME NEW p
  PROVE  SoftCost(p) \in Nat
<1>1. /\ Cardinality(CollisionsOf(p)) \in Nat
      /\ Cardinality(ConfusionsOf(p)) \in Nat
      /\ Cardinality(ModsOf(p)) \in Nat
  BY CostParts, FS_CardinalityType
<1>2. QED
  BY <1>1 DEF SoftCost, CollisionPenalty, ConfusionPenalty

\* The PCI a cell is moved to is one of its pool.
LEMMA ImprovingType ==
  ASSUME NEW p, NEW use, NEW c \in Cells
  PROVE  Improving(p, use, c) \subseteq Pcis
BY NetworkAssumption DEF Improving, BestPcis

\* Every step keeps the types.
LEMMA TypePreserved == TypeOK /\ [Next]_vars => TypeOK'
<1> SUFFICES ASSUME TypeOK, [Next]_vars PROVE TypeOK'
  OBVIOUS
<1> USE RunAssumption
<1> USE DEF TypeOK, Stages, Reasons, Trials, Records, MadeInPass
<1>1. CASE BudgetExhausted
  BY <1>1 DEF BudgetExhausted
<1>2. CASE StartPass
  BY <1>2 DEF StartPass, Tier1, Tier2, Colliding, Confused, Interfering
<1>3. ASSUME NEW c \in Cells, Skip(c) PROVE TypeOK'
  BY <1>3 DEF Skip, Considered
<1>4. ASSUME NEW c \in Cells, Try(c) PROVE TypeOK'
  <2>1. PICK q \in Improving(pci, usage[Freq[c]], c) :
            /\ trial' = [cell |-> c, old |-> pci[c], new |-> q]
            /\ pci' = [pci EXCEPT ![c] = q]
    BY <1>4 DEF Try
  <2>2. q \in Pcis
    BY <2>1, ImprovingType
  <2>3. trial' \in Trials /\ pci' \in [Cells -> Pcis]
    BY <2>1, <2>2
  <2>4. QED
    BY <1>4, <2>3 DEF Try, Considered
<1>5. CASE Revert
  <2>1. trial \in Trials
    BY <1>5 DEF Revert
  <2>2. QED
    BY <1>5, <2>1 DEF Revert
<1>6. CASE Keep
  <2>1. trial \in Trials
    BY <1>6 DEF Keep
  <2>2. [cell |-> trial.cell, old |-> trial.old, new |-> trial.new,
         pass |-> pass] \in Records
    BY <2>1
  <2>3. changes' \in Seq(Records) /\ Len(changes') = Len(changes) + 1
    BY <1>6, <2>2 DEF Keep
  <2>4. locked' \subseteq Cells
    BY <1>6, <2>1, TwoHopsType DEF Keep
  <2>5. QED
    BY <1>6, <2>3, <2>4 DEF Keep
<1>7. CASE Stop
  BY <1>7 DEF Stop, PassOver
<1>8. CASE Continue
  BY <1>8 DEF Continue, PassOver
<1>9. CASE OutOfPasses
  BY <1>9 DEF OutOfPasses
<1>10. CASE UNCHANGED vars
  BY <1>10 DEF vars
<1>11. QED
  BY <1>1, <1>2, <1>3, <1>4, <1>5, <1>6, <1>7, <1>8, <1>9, <1>10 DEF Next

\* Every step stays within the budgets: a change that is tried has its place,
\* and only a change that is kept takes one.
LEMMA PassPreserved == TypeOK /\ PassInv /\ [Next]_vars => PassInv'
<1> SUFFICES ASSUME TypeOK, PassInv, [Next]_vars PROVE PassInv'
  OBVIOUS
<1> USE BudgetType
<1> USE DEF TypeOK, PassInv, MadeInPass, BudgetOfPass, AtMost
<1>1. CASE BudgetExhausted
  BY <1>1 DEF BudgetExhausted
<1>2. CASE StartPass
  BY <1>2 DEF StartPass
<1>3. ASSUME NEW c \in Cells, Skip(c) PROVE PassInv'
  BY <1>3 DEF Skip
<1>4. ASSUME NEW c \in Cells, Try(c) PROVE PassInv'
  BY <1>4 DEF Try
<1>5. CASE Revert
  BY <1>5 DEF Revert
<1>6. CASE Keep
  <2>1. Len(changes') = Len(changes) + 1 /\ opened' = opened
    BY <1>6 DEF Keep
  <2>2. stage' = "scan" /\ stage = "verify"
    BY <1>6 DEF Keep
  <2>3. QED
    BY <2>1, <2>2
<1>7. CASE Stop
  BY <1>7 DEF Stop, PassOver
<1>8. CASE Continue
  BY <1>8 DEF Continue, PassOver
<1>9. CASE OutOfPasses
  BY <1>9 DEF OutOfPasses
<1>10. CASE UNCHANGED vars
  BY <1>10 DEF vars
<1>11. QED
  BY <1>1, <1>2, <1>3, <1>4, <1>5, <1>6, <1>7, <1>8, <1>9, <1>10 DEF Next

\* Every step keeps what is changed in a pass locked for the rest of it.
LEMMA LockPreserved == TypeOK /\ LockInv /\ [Next]_vars => LockInv'
<1> SUFFICES ASSUME TypeOK, LockInv, [Next]_vars PROVE LockInv'
  OBVIOUS
<1>a. /\ pass \in Nat
      /\ opened \in Nat
      /\ DOMAIN changes = 1..Len(changes) /\ Len(changes) \in Nat
      /\ \A i \in DOMAIN changes : changes[i] \in Records
  BY RunAssumption DEF TypeOK
<1>b. \A i \in DOMAIN changes : changes[i].pass \in Nat
  BY <1>a DEF Records
<1> USE DEF TypeOK, LockInv, Stages
<1>1. CASE BudgetExhausted
  BY <1>1, <1>a, <1>b DEF BudgetExhausted
<1>2. CASE StartPass
  <2>1. /\ changes' = changes /\ pass' = pass + 1 /\ stage' = "scan"
        /\ opened' = Len(changes)
    BY <1>2 DEF StartPass
  <2>2. QED
    BY <2>1, <1>a, <1>b
<1>3. ASSUME NEW c \in Cells, Skip(c) PROVE LockInv'
  BY <1>3 DEF Skip
<1>4. ASSUME NEW c \in Cells, Try(c) PROVE LockInv'
  BY <1>4 DEF Try
<1>5. CASE Revert
  BY <1>5 DEF Revert
<1>6. CASE Keep
  <2> DEFINE rec == [cell |-> trial.cell, old |-> trial.old,
                     new |-> trial.new, pass |-> pass]
  <2>1. /\ changes' = Append(changes, rec)
        /\ locked' = locked \cup WithinTwoHops(trial.cell)
        /\ stage' = "scan"
        /\ UNCHANGED <<pass, opened>>
    BY <1>6 DEF Keep
  <2>2. rec.pass = pass /\ rec.cell = trial.cell
    OBVIOUS
  <2>3. DOMAIN changes' = 1..(Len(changes) + 1)
    BY <2>1
  <2>4. \A i \in DOMAIN changes' :
            IF i <= Len(changes) THEN i \in DOMAIN changes
                                      /\ changes'[i] = changes[i]
                                 ELSE changes'[i] = rec
    BY <2>1, <2>3
  <2>5. \A i \in DOMAIN changes : i \in Nat /\ i <= Len(changes)
    OBVIOUS
  <2> HIDE DEF rec
  <2>6. stage = "verify" /\ pass \in Nat /\ pass' = pass /\ opened' = opened
    BY <1>6, <2>1, RunAssumption DEF Keep
  <2>7. \A i \in DOMAIN changes' : changes'[i].pass <= pass
    BY <2>2, <2>4, <2>6
  <2>8. \A i \in DOMAIN changes' :
            i <= opened => changes'[i].pass < pass
    <3>1. opened <= Len(changes) /\ opened \in Nat
      OBVIOUS
    <3>2. QED
      BY <2>3, <2>4, <2>6, <3>1
  <2>9. \A i \in DOMAIN changes' :
            i > opened => WithinTwoHops(changes'[i].cell) \subseteq locked'
    BY <2>1, <2>2, <2>4, <2>6
  <2>10. QED
    BY <2>1, <2>6, <2>7, <2>8, <2>9
<1>7. CASE Stop
  BY <1>7 DEF Stop, PassOver
<1>8. CASE Continue
  BY <1>8 DEF Continue, PassOver
<1>9. CASE OutOfPasses
  BY <1>9 DEF OutOfPasses
<1>10. CASE UNCHANGED vars
  BY <1>10 DEF vars
<1>11. QED
  BY <1>1, <1>2, <1>3, <1>4, <1>5, <1>6, <1>7, <1>8, <1>9, <1>10 DEF Next

\* What a pass leaves costs no more than what it found: a change is kept only
\* when it costs no more than taking it back.
LEMMA CostPreserved ==
  TypeOK /\ CostInv /\ NeverCostsMore /\ [Next]_vars
      => CostInv' /\ NeverCostsMore'
<1> SUFFICES ASSUME TypeOK, CostInv, NeverCostsMore, [Next]_vars
             PROVE  CostInv' /\ NeverCostsMore'
  OBVIOUS
<1> USE DEF CostInv, NeverCostsMore
<1>1. CASE BudgetExhausted
  BY <1>1 DEF BudgetExhausted
<1>2. CASE StartPass
  <2>1. stage' = "scan" /\ pci' = pci /\ before' = SoftCost(pci)
    BY <1>2 DEF StartPass
  <2>2. SoftCost(pci) \in Nat
    BY CostType
  <2>3. SoftCost(pci') <= before'
    BY <2>1, <2>2
  <2>4. QED
    BY <2>1, <2>2, <2>3
<1>3. ASSUME NEW c \in Cells, Skip(c) PROVE CostInv' /\ NeverCostsMore'
  BY <1>3 DEF Skip
<1>4. ASSUME NEW c \in Cells, Try(c) PROVE CostInv' /\ NeverCostsMore'
  <2>1. PICK q \in Improving(pci, usage[Freq[c]], c) :
            /\ trial' = [cell |-> c, old |-> pci[c], new |-> q]
            /\ pci' = [pci EXCEPT ![c] = q]
    BY <1>4 DEF Try
  <2>2. /\ stage = "scan" /\ stage' = "verify" /\ before' = before
    BY <1>4 DEF Try
  <2>3. trial'.cell = c /\ trial'.old = pci[c]
    BY <2>1
  <2>4. [pci' EXCEPT ![trial'.cell] = trial'.old] = pci
    <3>1. [pci' EXCEPT ![c] = pci[c]] = pci
      BY <2>1 DEF TypeOK
    <3>2. QED
      BY <2>3, <3>1
  <2>5. SoftCost([pci' EXCEPT ![trial'.cell] = trial'.old]) <= before'
    BY <2>2, <2>4
  <2>6. QED
    BY <2>2, <2>5
<1>5. CASE Revert
  <2>1. /\ stage = "verify" /\ stage' = "scan" /\ before' = before
        /\ pci' = [pci EXCEPT ![trial.cell] = trial.old]
    BY <1>5 DEF Revert
  <2>2. QED
    BY <2>1
<1>6. CASE Keep
  <2>1. /\ stage = "verify" /\ stage' = "scan" /\ before' = before
        /\ pci' = pci /\ ~CostRises
    BY <1>6 DEF Keep
  <2>2. /\ SoftCost(pci) \in Nat
        /\ SoftCost([pci EXCEPT ![trial.cell] = trial.old]) \in Nat
    BY CostType
  <2>3. SoftCost(pci) <= before
    BY <2>1, <2>2 DEF CostRises
  <2>4. QED
    BY <2>1, <2>3
<1>7. CASE Stop
  BY <1>7 DEF Stop, PassOver
<1>8. CASE Continue
  BY <1>8 DEF Continue, PassOver
<1>9. CASE OutOfPasses
  BY <1>9 DEF OutOfPasses
<1>10. CASE UNCHANGED vars
  BY <1>10 DEF vars
<1>11. QED
  BY <1>1, <1>2, <1>3, <1>4, <1>5, <1>6, <1>7, <1>8, <1>9, <1>10 DEF Next

\* Two changes of one pass stay apart: the later one found its cell unlocked,
\* and the earlier one had locked everything within two hops.
LEMMA ApartPreserved ==
  TypeOK /\ LockInv /\ PassChangesApart /\ [Next]_vars => PassChangesApart'
<1> SUFFICES ASSUME TypeOK, LockInv, PassChangesApart, [Next]_vars
             PROVE  PassChangesApart'
  OBVIOUS
<1>1. CASE changes' = changes
  BY <1>1 DEF PassChangesApart
<1>2. CASE Keep
  <2> DEFINE rec == [cell |-> trial.cell, old |-> trial.old,
                     new |-> trial.new, pass |-> pass]
  <2>1. stage = "verify" /\ changes' = Append(changes, rec)
    BY <1>2 DEF Keep
  <2>2. rec.pass = pass /\ rec.cell = trial.cell /\ trial.cell \in Cells
    BY <2>1 DEF TypeOK, Trials
  <2>3. /\ changes \in Seq(Records) /\ opened \in Nat /\ pass \in Nat
        /\ \A i \in DOMAIN changes : changes[i].pass \in Nat
                                   /\ changes[i].cell \in Cells
                                   /\ i \in Nat
    <3>1. /\ changes \in Seq(Records) /\ opened \in Nat /\ pass \in Nat
          /\ \A i \in DOMAIN changes : changes[i] \in Records /\ i \in Nat
      BY RunAssumption DEF TypeOK
    <3>2. QED
      BY <3>1 DEF Records
  <2>4. \A i \in DOMAIN changes' :
            \/ i \in DOMAIN changes /\ changes'[i] = changes[i]
            \/ i = Len(changes) + 1 /\ changes'[i] = rec
    BY <2>1, <2>3
  <2> HIDE DEF rec
  <2>5. ASSUME NEW i \in DOMAIN changes, changes[i].pass = pass
        PROVE  trial.cell \notin WithinTwoHops(changes[i].cell)
    <3>1. ~(i <= opened)
      BY <2>1, <2>3, <2>5 DEF LockInv
    <3>2. i > opened
      BY <2>3, <3>1
    <3>3. WithinTwoHops(changes[i].cell) \subseteq locked
      BY <2>1, <3>2 DEF LockInv
    <3>4. QED
      BY <2>1, <3>3 DEF LockInv
  <2>6. ASSUME NEW i \in DOMAIN changes, changes[i].pass = pass
        PROVE  changes[i].cell \notin WithinTwoHops(trial.cell)
    <3>1. trial.cell \in Cells /\ changes[i].cell \in Cells
      BY <2>2, <2>3
    <3>2. changes[i].cell \in WithinTwoHops(trial.cell)
              => trial.cell \in WithinTwoHops(changes[i].cell)
      BY <3>1, TwoHopsSymmetric
    <3>3. QED
      BY <3>2, <2>5, <2>6
  <2>7. ASSUME NEW i \in DOMAIN changes', NEW j \in DOMAIN changes', i # j,
               changes'[i].pass = changes'[j].pass
        PROVE  changes'[j].cell \notin WithinTwoHops(changes'[i].cell)
    <3>1. CASE i \in DOMAIN changes /\ j \in DOMAIN changes
               /\ changes'[i] = changes[i] /\ changes'[j] = changes[j]
      BY <2>7, <3>1 DEF PassChangesApart
    <3>2. CASE i \in DOMAIN changes /\ changes'[i] = changes[i]
               /\ changes'[j] = rec
      BY <2>2, <2>5, <2>7, <3>2
    <3>3. CASE j \in DOMAIN changes /\ changes'[j] = changes[j]
               /\ changes'[i] = rec
      BY <2>2, <2>6, <2>7, <3>3
    <3>4. QED
      BY <2>4, <2>7, <3>1, <3>2, <3>3
  <2>8. QED
    BY <2>7 DEF PassChangesApart
<1>3. QED
  BY <1>1, <1>2
     DEF Next, BudgetExhausted, StartPass, Skip, Try, Revert, Stop, Continue,
         OutOfPasses, vars

------------------------------------------------------------------------------
(***************************************************************************)
(* The list of changes and the counts of PCIs in use, kept change by       *)
(* change, against the assignment less what is only on trial.              *)
(***************************************************************************)
Settled ==
    IF stage = "verify" THEN [pci EXCEPT ![trial.cell] = trial.old] ELSE pci

TrialInv ==
    stage = "verify" => pci[trial.cell] = trial.new /\ trial.new # trial.old

UsageInv == stage \in {"scan", "verify"} => usage = UsageOf(Settled)

\* Places of the list that come first and last for their cell.
IsFirst(c, i) == i \in ChangesOf(c) /\ \A j \in ChangesOf(c) : i <= j
IsLast(c, i)  == i \in ChangesOf(c) /\ \A j \in ChangesOf(c) : i >= j

\* What the list tells of a cell that has the PCI now.
Tells(c, now) ==
    IF ChangesOf(c) = {}
    THEN now = start[c]
    ELSE /\ \E i \in Nat : IsLast(c, i) /\ now = changes[i].new
         /\ \E i \in Nat : IsFirst(c, i) /\ start[c] = changes[i].old
         /\ \A i, j \in ChangesOf(c) :
               /\ i < j
               /\ ~\E k \in ChangesOf(c) : i < k /\ k < j
               => changes[j].old = changes[i].new

ListInv == \A c \in Cells : Tells(c, Settled[c])

\* A trial leaves what is settled alone, and only a change that is kept moves
\* it.
LEMMA SettledSteps ==
  ASSUME TypeOK, TrialInv, [Next]_vars
  PROVE  /\ TrialInv'
         /\ ~Keep => Settled' = Settled /\ changes' = changes
         /\ Keep => /\ stage = "verify" /\ trial \in Trials
                    /\ Settled \in [Cells -> Pcis]
                    /\ Settled[trial.cell] = trial.old
                    /\ Settled' = [Settled EXCEPT ![trial.cell] = trial.new]
         /\ start' = start
<1> USE DEF Settled, TrialInv
<1>1. CASE BudgetExhausted
  BY <1>1 DEF BudgetExhausted, Keep
<1>2. CASE StartPass
  BY <1>2 DEF StartPass, Keep
<1>3. ASSUME NEW c \in Cells, Skip(c)
      PROVE  /\ stage = "scan" /\ stage' = stage /\ pci' = pci
             /\ changes' = changes /\ start' = start
  BY <1>3 DEF Skip
<1>4. ASSUME NEW c \in Cells, Try(c)
      PROVE  /\ TrialInv' /\ stage = "scan" /\ Settled' = Settled
             /\ changes' = changes /\ start' = start
  <2>1. PICK q \in Improving(pci, usage[Freq[c]], c) :
            /\ trial' = [cell |-> c, old |-> pci[c], new |-> q]
            /\ pci' = [pci EXCEPT ![c] = q]
    BY <1>4 DEF Try
  <2>2. q # pci[c]
    BY <2>1 DEF Improving
  <2>3. /\ stage = "scan" /\ stage' = "verify"
        /\ changes' = changes /\ start' = start
    BY <1>4 DEF Try
  <2>4. trial'.cell = c /\ trial'.old = pci[c] /\ trial'.new = q
    BY <2>1
  <2>5. pci'[c] = q /\ [pci' EXCEPT ![c] = pci[c]] = pci
    BY <2>1 DEF TypeOK
  <2>6. QED
    BY <2>2, <2>3, <2>4, <2>5
<1>5. CASE Revert
  BY <1>5 DEF Revert, Keep, CostRises
<1>6. CASE Keep
  <2>1. /\ stage = "verify" /\ stage' = "scan" /\ pci' = pci
        /\ start' = start
    BY <1>6 DEF Keep
  <2>2. trial \in Trials /\ pci \in [Cells -> Pcis]
    BY <2>1 DEF TypeOK
  <2>3. trial.cell \in Cells /\ trial.old \in Pcis /\ trial.new = pci[trial.cell]
    BY <2>1, <2>2 DEF Trials
  <2>4. /\ Settled \in [Cells -> Pcis] /\ Settled[trial.cell] = trial.old
        /\ pci = [Settled EXCEPT ![trial.cell] = trial.new]
    BY <2>1, <2>2, <2>3
  <2>5. QED
    BY <1>6, <2>1, <2>2, <2>4
<1>7. CASE Stop
  BY <1>7 DEF Stop, PassOver, Keep
<1>8. CASE Continue
  BY <1>8 DEF Continue, PassOver, Keep
<1>9. CASE OutOfPasses
  BY <1>9 DEF OutOfPasses, Keep
<1>10. CASE UNCHANGED vars
  <2>1. Settled' = Settled /\ TrialInv' /\ changes' = changes /\ start' = start
    BY <1>10 DEF vars
  <2>2. ~Keep
    BY <1>10 DEF Keep, vars
  <2>3. QED
    BY <2>1, <2>2
<1>11. (\E c \in Cells : Skip(c) \/ Try(c)) => stage = "scan"
  BY <1>3, <1>4
<1>12. stage = "scan" => ~Keep
  BY DEF Keep
<1>13. QED
  BY <1>1, <1>2, <1>3, <1>4, <1>5, <1>6, <1>7, <1>8, <1>9, <1>10, <1>11, <1>12
     DEF Next

\* usage_by_frequency after a change of a cell on a frequency.
Recounted(use, f, old, new) ==
    [use EXCEPT ![f][old] = AtLeast(@ - 1, 0), ![f][new] = @ + 1]

\* Moving one cell takes it from the holders of the one PCI to those of the
\* other; a cell whose frequency is not known is not counted.
LEMMA OneMoves ==
  ASSUME NEW p \in [Cells -> Pcis], NEW c \in Cells, NEW q \in Pcis, q # p[c]
  PROVE  UsageOf([p EXCEPT ![c] = q]) = Recounted(UsageOf(p), Freq[c], p[c], q)
<1> DEFINE next == [p EXCEPT ![c] = q]
           Users(a, f, r) == {d \in Cells : Freq[d] = f /\ a[d] = r}
           Freqs == {Freq[d] : d \in Cells} \ {NoFreq}
           moved == Recounted(UsageOf(p), Freq[c], p[c], q)
<1>1. UsageOf(p) = [f \in Freqs |-> [r \in Pcis |-> Cardinality(Users(p, f, r))]]
  BY DEF UsageOf
<1>2. UsageOf(next) =
        [f \in Freqs |-> [r \in Pcis |-> Cardinality(Users(next, f, r))]]
  BY DEF UsageOf
<1>3. \A f, r : IsFiniteSet(Users(p, f, r)) /\ Cardinality(Users(p, f, r)) \in Nat
  <2>1. \A f, r : Users(p, f, r) \in SUBSET Cells
    OBVIOUS
  <2>2. QED
    BY <2>1, WeightAssumption, FS_Subset, FS_CardinalityType
<1>4. ASSUME NEW f \in Freqs, NEW r \in Pcis
      PROVE  Cardinality(Users(next, f, r)) =
               IF f # Freq[c] THEN Cardinality(Users(p, f, r))
               ELSE IF r = q THEN Cardinality(Users(p, f, r)) + 1
               ELSE IF r = p[c] THEN AtLeast(Cardinality(Users(p, f, r)) - 1, 0)
               ELSE Cardinality(Users(p, f, r))
  <2>1. CASE f # Freq[c] \/ (r # q /\ r # p[c])
    <3>1. Users(next, f, r) = Users(p, f, r)
      BY <2>1
    <3>2. QED
      BY <2>1, <3>1
  <2>2. CASE f = Freq[c] /\ r = q
    <3>1. Users(next, f, r) = Users(p, f, r) \cup {c} /\ c \notin Users(p, f, r)
      BY <2>2
    <3> HIDE DEF Users
    <3>2. Cardinality(Users(next, f, r)) = Cardinality(Users(p, f, r)) + 1
      BY <3>1, <1>3, FS_AddElement
    <3>3. QED
      BY <2>2, <3>2
  <2>3. CASE f = Freq[c] /\ r = p[c]
    <3>1. Users(next, f, r) = Users(p, f, r) \ {c} /\ c \in Users(p, f, r)
      BY <2>3
    <3> HIDE DEF Users
    <3>2. Cardinality(Users(next, f, r)) = Cardinality(Users(p, f, r)) - 1
      <4>1. IsFiniteSet(Users(p, f, r))
        BY <1>3
      <4> HIDE DEF next
      <4>2. QED
        BY <3>1, <4>1, FS_RemoveElement
    <3>3. Cardinality(Users(next, f, r)) \in Nat
      BY <3>1, <1>3, FS_RemoveElement, FS_CardinalityType
    <3>4. QED
      BY <2>3, <3>2, <3>3, <1>3 DEF AtLeast
  <2>4. QED
    BY <2>1, <2>2, <2>3
<1> HIDE DEF Users, next, Freqs
<1>5. /\ moved = [f \in Freqs |-> moved[f]]
      /\ \A f \in Freqs : moved[f] = [r \in Pcis |-> moved[f][r]]
  <2>1. UsageOf(p) \in [Freqs -> [Pcis -> Nat]]
    BY <1>1, <1>3
  <2>2. QED
    BY <2>1 DEF Recounted
<1>6. ASSUME NEW f \in Freqs, NEW r \in Pcis
      PROVE  moved[f][r] = UsageOf(next)[f][r]
  <2>1. UsageOf(p) \in [Freqs -> [Pcis -> Nat]]
    BY <1>1, <1>3
  <2>2. moved[f][r] =
               IF f # Freq[c] THEN UsageOf(p)[f][r]
               ELSE IF r = q THEN UsageOf(p)[f][r] + 1
               ELSE IF r = p[c] THEN AtLeast(UsageOf(p)[f][r] - 1, 0)
               ELSE UsageOf(p)[f][r]
    BY <2>1 DEF Recounted
  <2>3. UsageOf(p)[f][r] = Cardinality(Users(p, f, r))
    BY <1>1
  <2>4. UsageOf(next)[f][r] = Cardinality(Users(next, f, r))
    BY <1>2
  <2>5. QED
    BY <2>2, <2>3, <2>4, <1>4
<1>7. ASSUME NEW f \in Freqs PROVE moved[f] = UsageOf(next)[f]
  <2>1. UsageOf(next)[f] = [r \in Pcis |-> UsageOf(next)[f][r]]
    BY <1>2
  <2> HIDE DEF moved
  <2>2. QED
    BY <1>5, <1>6, <2>1
<1>8. UsageOf(next) = moved
  <2> HIDE DEF moved
  <2>1. QED
    BY <1>2, <1>5, <1>7
<1>9. QED
  BY <1>8 DEF next

LEMMA UsagePreserved ==
  TypeOK /\ TrialInv /\ UsageInv /\ [Next]_vars => UsageInv'
<1> SUFFICES ASSUME TypeOK, TrialInv, UsageInv, [Next]_vars PROVE UsageInv'
  OBVIOUS
<1>1. CASE StartPass
  BY <1>1 DEF StartPass, UsageInv, Settled
<1>2. CASE Keep
  <2>1. /\ Settled' = [Settled EXCEPT ![trial.cell] = trial.new]
        /\ Settled \in [Cells -> Pcis] /\ Settled[trial.cell] = trial.old
        /\ trial.cell \in Cells /\ trial.new \in Pcis /\ trial.new # trial.old
    BY <1>2, SettledSteps DEF Trials, TrialInv
  <2>2. /\ usage = UsageOf(Settled)
        /\ usage' = Recounted(usage, Freq[trial.cell], trial.old, trial.new)
    BY <1>2 DEF Keep, UsageInv, Recounted
  <2>3. ASSUME NEW p \in [Cells -> Pcis], p = Settled
        PROVE  UsageOf([p EXCEPT ![trial.cell] = trial.new]) = usage'
    <3>1. UsageOf([p EXCEPT ![trial.cell] = trial.new])
            = Recounted(UsageOf(p), Freq[trial.cell], p[trial.cell], trial.new)
      BY <2>1, <2>3, OneMoves
    <3>2. QED
      BY <2>1, <2>2, <2>3, <3>1
  <2>4. UsageOf(Settled') = usage'
    BY <2>1, <2>3
  <2>5. UsageOf(Settled)' = UsageOf(Settled')
    BY DEF UsageOf
  <2>6. QED
    BY <2>4, <2>5 DEF UsageInv
<1>3. CASE ~StartPass /\ ~Keep
  <2>1. /\ usage' = usage
        /\ stage' \in {"scan", "verify"} => stage \in {"scan", "verify"}
    BY <1>3 DEF Next, BudgetExhausted, Skip, Try, Revert, Stop, Continue,
                PassOver, OutOfPasses, vars
  <2>2. Settled' = Settled
    BY <1>3, SettledSteps
  <2>3. QED
    BY <2>1, <2>2 DEF UsageInv, UsageOf
<1>4. QED
  BY <1>1, <1>2, <1>3

\* The list goes on telling the difference: a change that is kept starts from
\* the PCI that the latest one of its cell left.
LEMMA ListPreserved ==
  TypeOK /\ TrialInv /\ ListInv /\ [Next]_vars => ListInv'
<1> SUFFICES ASSUME TypeOK, TrialInv, ListInv, [Next]_vars PROVE ListInv'
  OBVIOUS
<1>1. CASE ~Keep
  <2>1. Settled' = Settled /\ changes' = changes /\ start' = start
    BY <1>1, SettledSteps
  <2>2. QED
    BY <2>1 DEF ListInv, Tells, IsFirst, IsLast, ChangesOf
<1>2. CASE Keep
  <2> DEFINE n   == Len(changes)
             rec == [cell |-> trial.cell, old |-> trial.old,
                     new |-> trial.new, pass |-> pass]
  <2>1. /\ Settled' = [Settled EXCEPT ![trial.cell] = trial.new]
        /\ Settled \in [Cells -> Pcis] /\ Settled[trial.cell] = trial.old
        /\ trial.cell \in Cells /\ start' = start
    BY <1>2, SettledSteps DEF Trials
  <2>2. changes' = Append(changes, rec) /\ changes \in Seq(Records)
    BY <1>2 DEF Keep, TypeOK
  <2>3. rec.cell = trial.cell /\ rec.old = trial.old /\ rec.new = trial.new
    OBVIOUS
  <2>4. /\ n \in Nat /\ DOMAIN changes = 1..n /\ DOMAIN changes' = 1..(n + 1)
        /\ changes'[n + 1] = rec
        /\ \A i \in 1..n : changes'[i] = changes[i]
    BY <2>2
  <2> HIDE DEF n, rec
  <2>5. \A c : ChangesOf(c) \subseteq 1..n
    BY <2>4 DEF ChangesOf
  <2>6. ASSUME NEW c \in Cells
        PROVE  ChangesOf(c)' = IF c = trial.cell THEN ChangesOf(c) \cup {n + 1}
                               ELSE ChangesOf(c)
    <3>1. ChangesOf(c)' = {i \in 1..(n + 1) : changes'[i].cell = c}
      BY <2>4 DEF ChangesOf
    <3>2. ChangesOf(c) = {i \in 1..n : changes'[i].cell = c}
      BY <2>4 DEF ChangesOf
    <3>3. 1..(n + 1) = (1..n) \cup {n + 1} /\ n + 1 \notin 1..n
      BY <2>4
    <3>4. changes'[n + 1].cell = trial.cell
      BY <2>3, <2>4
    <3>5. QED
      BY <3>1, <3>2, <3>3, <3>4
  <2>7. ASSUME NEW c \in Cells, c # trial.cell PROVE Tells(c, Settled[c])'
    <3>1. ChangesOf(c)' = ChangesOf(c) /\ Settled'[c] = Settled[c]
      BY <2>1, <2>6, <2>7
    <3>2. \A i \in ChangesOf(c) : changes'[i] = changes[i]
      BY <2>4, <2>5
    <3>3. Tells(c, Settled[c])
      BY DEF ListInv
    <3>4. QED
      BY <2>1, <3>1, <3>2, <3>3 DEF Tells, IsFirst, IsLast
  <2>8. ASSUME NEW c \in Cells, c = trial.cell PROVE Tells(c, Settled[c])'
    <3>1. /\ ChangesOf(c)' = ChangesOf(c) \cup {n + 1}
          /\ Settled'[c] = rec.new /\ Settled[c] = rec.old
      BY <2>1, <2>3, <2>6, <2>8
    <3>2. \A i \in ChangesOf(c) : /\ changes'[i] = changes[i]
                                  /\ i \in Nat /\ i < n + 1
      BY <2>4, <2>5
    <3>a. PICK m \in Nat : m = n + 1
      BY <2>4
    <3>3. IsLast(c, m)' /\ Settled'[c] = changes'[m].new
      BY <2>4, <3>a, <3>1, <3>2 DEF IsLast
    <3>4. Tells(c, Settled[c])
      BY DEF ListInv
    <3>5. CASE ChangesOf(c) = {}
      <4>1. IsFirst(c, m)' /\ start'[c] = changes'[m].old
        BY <2>1, <2>4, <3>a, <3>1, <3>4, <3>5 DEF IsFirst, Tells
      <4>2. QED
        BY <2>4, <3>1, <3>3, <3>5, <4>1 DEF Tells
    <3>6. CASE ChangesOf(c) # {}
      <4>1. PICK i \in Nat : IsFirst(c, i) /\ start[c] = changes[i].old
        BY <3>4, <3>6 DEF Tells
      <4>2. IsFirst(c, i)' /\ start'[c] = changes'[i].old
        BY <2>1, <2>4, <3>1, <3>2, <4>1 DEF IsFirst
      <4>3. PICK k \in Nat : IsLast(c, k) /\ Settled[c] = changes[k].new
        BY <3>4, <3>6 DEF Tells
      <4>4. ASSUME NEW f \in ChangesOf(c)', NEW g \in ChangesOf(c)', f < g,
                   ~\E h \in ChangesOf(c)' : f < h /\ h < g
            PROVE  changes'[g].old = changes'[f].new
        <5>1. CASE g = n + 1
          <6>1. f \in ChangesOf(c) /\ f \in Nat
            BY <2>4, <3>1, <3>2, <4>4, <5>1
          <6>2. f = k
            BY <2>4, <3>1, <3>2, <4>3, <4>4, <5>1, <6>1 DEF IsLast
          <6>3. QED
            BY <2>4, <3>1, <3>2, <4>3, <5>1, <6>1, <6>2
        <5>2. CASE g # n + 1
          <6>1. f \in ChangesOf(c) /\ g \in ChangesOf(c)
            BY <2>4, <3>1, <3>2, <4>4, <5>2
          <6>2. ~\E h \in ChangesOf(c) : f < h /\ h < g
            BY <3>1, <4>4
          <6>3. changes[g].old = changes[f].new
            BY <3>4, <4>4, <6>1, <6>2 DEF Tells
          <6>4. QED
            BY <3>2, <6>1, <6>3
        <5>3. QED
          BY <5>1, <5>2
      <4>5. QED
        BY <2>4, <3>1, <3>3, <4>2, <4>4 DEF Tells
    <3>7. QED
      BY <3>5, <3>6
  <2>9. QED
    BY <2>7, <2>8 DEF ListInv
<1>3. QED
  BY <1>1, <1>2

------------------------------------------------------------------------------
(***************************************************************************)
(* A pass without a change leaves no cell that would gain by one.          *)
(***************************************************************************)

\* Python's order of tuples goes one way.
LEMMA PrecedesOneWay ==
  ASSUME NEW k \in Seq(Int), NEW l \in Seq(Int), Len(k) = Len(l),
         Precedes(k, l), Precedes(l, k)
  PROVE  FALSE
<1>1. PICK i \in 1..Len(k) : k[i] < l[i] /\ \A h \in 1..(i - 1) : k[h] = l[h]
  <2>1. DOMAIN k = 1..Len(k)
    OBVIOUS
  <2>2. QED
    BY <2>1 DEF Precedes
<1>2. PICK j \in 1..Len(k) : l[j] < k[j] /\ \A h \in 1..(j - 1) : l[h] = k[h]
  <2>1. DOMAIN l = 1..Len(k)
    OBVIOUS
  <2>2. QED
    BY <2>1 DEF Precedes
<1>3. i \in 1..(j - 1) \/ j \in 1..(i - 1) \/ i = j
  OBVIOUS
<1>4. k[i] \in Int /\ l[i] \in Int /\ k[j] \in Int /\ l[j] \in Int
  OBVIOUS
<1>5. QED
  BY <1>1, <1>2, <1>3, <1>4

\* The places of three tuples put together.
LEMMA Joined ==
  ASSUME NEW h \in Seq(Int), NEW m \in Seq(Int), NEW t \in Seq(Int),
         Len(h) = 1, Len(t) = 2
  PROVE  /\ h \o m \o t \in Seq(Int)
         /\ Len(h \o m \o t) = Len(m) + 3
         /\ (h \o m \o t)[1] = h[1]
         /\ \A i \in 1..Len(m) : (h \o m \o t)[i + 1] = m[i]
         /\ (h \o m \o t)[Len(m) + 2] = t[1]
         /\ (h \o m \o t)[Len(m) + 3] = t[2]
<1>0. PICK n \in Nat : n = Len(m)
  OBVIOUS
<1>1. /\ h \o m \in Seq(Int)
      /\ Len(h \o m) = Len(h) + Len(m)
      /\ \A i \in 1..(Len(h) + Len(m)) :
            (h \o m)[i] = IF i <= Len(h) THEN h[i] ELSE m[i - Len(h)]
  BY ConcatProperties
<1> DEFINE hm == h \o m
<1>2. hm \in Seq(Int)
  BY <1>1
<1>3. Len(hm) = n + 1
  BY <1>0, <1>1
<1>a. \A i \in 1..(n + 1) : hm[i] = IF i <= 1 THEN h[i] ELSE m[i - 1]
  BY <1>0, <1>1
<1>4. hm[1] = h[1]
  <2>1. 1 \in 1..(n + 1) /\ 1 <= 1
    OBVIOUS
  <2>2. QED
    BY <1>a, <2>1
<1>b. ASSUME NEW i \in 1..n PROVE hm[i + 1] = m[i]
  <2>1. PICK k \in 1..(n + 1) : k = i + 1
    OBVIOUS
  <2>2. ~(k <= 1) /\ k - 1 = i
    BY <2>1
  <2>3. hm[k] = m[k - 1]
    BY <1>a, <2>2
  <2>4. QED
    BY <2>1, <2>2, <2>3
<1> HIDE DEF hm
<1>5. /\ hm \o t \in Seq(Int)
      /\ Len(hm \o t) = Len(hm) + Len(t)
      /\ \A i \in 1..(Len(hm) + Len(t)) :
            (hm \o t)[i] = IF i <= Len(hm) THEN hm[i] ELSE t[i - Len(hm)]
  BY <1>2, ConcatProperties
<1>6. Len(hm \o t) = n + 3
  BY <1>3, <1>5
<1>7. \A i \in 1..(n + 3) :
          (hm \o t)[i] = IF i <= n + 1 THEN hm[i] ELSE t[i - (n + 1)]
  BY <1>3, <1>5
<1>8. (hm \o t)[1] = h[1]
  <2>1. 1 \in 1..(n + 3) /\ 1 <= n + 1
    OBVIOUS
  <2>2. QED
    BY <1>4, <1>7, <2>1
<1>9. ASSUME NEW i \in 1..n PROVE (hm \o t)[i + 1] = m[i]
  <2>1. i + 1 \in 1..(n + 3) /\ i + 1 <= n + 1
    OBVIOUS
  <2>2. QED
    BY <1>b, <1>7, <2>1
<1>10. (hm \o t)[n + 2] = t[1] /\ (hm \o t)[n + 3] = t[2]
  <2>1. n + 2 \in 1..(n + 3) /\ ~(n + 2 <= n + 1) /\ n + 2 - (n + 1) = 1
    OBVIOUS
  <2>2. n + 3 \in 1..(n + 3) /\ ~(n + 3 <= n + 1) /\ n + 3 - (n + 1) = 2
    OBVIOUS
  <2>3. ASSUME NEW i \in 1..(n + 3), i = n + 2 PROVE (hm \o t)[i] = t[1]
    <3>1. ~(i <= n + 1)
      BY <2>3
    <3>2. i - (n + 1) = 1
      BY <2>3
    <3>3. (hm \o t)[i] = t[i - (n + 1)]
      BY <1>7, <3>1
    <3>4. QED
      BY <3>2, <3>3
  <2>4. ASSUME NEW i \in 1..(n + 3), i = n + 3 PROVE (hm \o t)[i] = t[2]
    <3>1. ~(i <= n + 1)
      BY <2>4
    <3>2. i - (n + 1) = 2
      BY <2>4
    <3>3. (hm \o t)[i] = t[i - (n + 1)]
      BY <1>7, <3>1
    <3>4. QED
      BY <3>2, <3>3
  <2>5. QED
    BY <2>1, <2>2, <2>3, <2>4
<1>11. QED
  BY <1>0, <1>5, <1>6, <1>8, <1>9, <1>10 DEF hm

\* A sort key is a tuple of numbers: the collisions, the moduli, the uses by
\* others, and the PCI itself.
KeyIs(key, p, use, c, q) ==
    /\ key \in Seq(Int)
    /\ Len(key) = Len(ModPriority) + 3
    /\ key[1] = CollisionPenalty * Disturbed(c, {d \in CoChannel(c) : p[d] = q})
    /\ \A i \in 1..Len(ModPriority) : key[i + 1] = ModTerm(p, c, q, ModPriority[i])
    /\ key[Len(ModPriority) + 2] = use[q] - (IF q = p[c] THEN 1 ELSE 0)
    /\ key[Len(ModPriority) + 3] = q

LEMMA KeyPlaces ==
  ASSUME NEW p, NEW use \in [Pcis -> Int], NEW c \in Cells, NEW q \in Pcis
  PROVE  KeyIs(SortKey(p, use, c, q), p, use, c, q)
<1>1. Len(ModPriority) \in Nat /\ DOMAIN ModPriority = 1..Len(ModPriority)
  BY WeightAssumption
<1>2. ASSUME NEW ds \in SUBSET Cells PROVE Disturbed(c, ds) \in Nat
  <2>1. IsFiniteSet(ds)
    BY WeightAssumption, FS_Subset
  <2>2. IsFiniteSet(ds \X Units)
    BY <2>1, UnitsFinite, FS_Product
  <2>3. {du \in ds \X Units : du[2] <= Weight[<<c, du[1]>>]} \in SUBSET (ds \X Units)
    OBVIOUS
  <2>4. QED
    BY <2>2, <2>3, FS_Subset, FS_CardinalityType DEF Disturbed
<1>3. CoChannel(c) \subseteq Cells
  BY NetworkAssumption DEF CoChannel
<1> DEFINE head == <<CollisionPenalty * Disturbed(c, {d \in CoChannel(c) : p[d] = q})>>
           mods == [i \in DOMAIN ModPriority |-> ModTerm(p, c, q, ModPriority[i])]
           tail == <<use[q] - (IF q = p[c] THEN 1 ELSE 0), q>>
<1>4. head \in Seq(Int)
  BY <1>2, <1>3 DEF CollisionPenalty
<1>5. mods \in Seq(Int)
  <2>1. \A n : ModTerm(p, c, q, n) \in Int
    BY <1>2, <1>3 DEF ModTerm
  <2>2. mods = [i \in 1..Len(ModPriority) |-> ModTerm(p, c, q, ModPriority[i])]
    BY <1>1
  <2>3. QED
    BY <1>1, <2>1, <2>2
<1>6. tail \in Seq(Int)
  BY NetworkAssumption
<1>7. Len(head) = 1
  OBVIOUS
<1>t. Len(tail) = 2
  OBVIOUS
<1>8. Len(mods) = Len(ModPriority)
  BY <1>1
<1>9. /\ head[1] = CollisionPenalty * Disturbed(c, {d \in CoChannel(c) : p[d] = q})
      /\ \A i \in 1..Len(ModPriority) : mods[i] = ModTerm(p, c, q, ModPriority[i])
      /\ tail[1] = use[q] - (IF q = p[c] THEN 1 ELSE 0)
      /\ tail[2] = q
  BY <1>1
<1>10. SortKey(p, use, c, q) = head \o mods \o tail
  BY DEF SortKey
<1> HIDE DEF head, mods, tail
<1>11. /\ head \o mods \o tail \in Seq(Int)
       /\ Len(head \o mods \o tail) = Len(mods) + 3
       /\ (head \o mods \o tail)[1] = head[1]
       /\ \A i \in 1..Len(mods) : (head \o mods \o tail)[i + 1] = mods[i]
       /\ (head \o mods \o tail)[Len(mods) + 2] = tail[1]
       /\ (head \o mods \o tail)[Len(mods) + 3] = tail[2]
  BY <1>4, <1>5, <1>6, <1>7, <1>t, Joined
<1>12. QED
  BY <1>8, <1>9, <1>10, <1>11 DEF KeyIs

\* So no two PCIs are best: their keys differ.
LEMMA OneBest ==
  ASSUME NEW p, NEW use \in [Pcis -> Int], NEW c \in Cells,
         NEW q \in Improving(p, use, c), NEW r \in Improving(p, use, c)
  PROVE  q = r
<1> DEFINE Key(x) == SortKey(p, use, c, x)
<1>1. q \in Pcis /\ r \in Pcis
  BY ImprovingType
<1>2. SUFFICES ASSUME q # r PROVE FALSE
  OBVIOUS
<1>a. ASSUME NEW x \in Pcis
      PROVE  /\ Key(x) \in Seq(Int) /\ Len(Key(x)) = Len(ModPriority) + 3
             /\ Key(x)[Len(ModPriority) + 3] = x
  <2>1. KeyIs(Key(x), p, use, c, x)
    BY KeyPlaces
  <2>2. QED
    BY <2>1 DEF KeyIs
<1>3. Key(q) # Key(r)
  BY <1>1, <1>2, <1>a
<1>4. /\ q \in Allowed[c] /\ \A x \in Allowed[c] : Key(x) # Key(q) => Precedes(Key(q), Key(x))
      /\ r \in Allowed[c] /\ \A x \in Allowed[c] : Key(x) # Key(r) => Precedes(Key(r), Key(x))
  BY DEF Improving, BestPcis
<1>5. Precedes(Key(q), Key(r)) /\ Precedes(Key(r), Key(q))
  BY <1>3, <1>4
<1> HIDE DEF Key
<1>6. /\ Key(q) \in Seq(Int) /\ Key(r) \in Seq(Int) /\ Len(Key(q)) = Len(Key(r))
  BY <1>1, <1>a
<1>7. QED
  BY <1>5, <1>6, PrecedesOneWay

\* Whatever PCI the key finds for the cell, it would cost more.
AtRest(p, c) ==
    \A q \in Improving(p, UsageOf(p)[Freq[c]], c) :
        SoftCost([p EXCEPT ![c] = q]) > SoftCost(p)

InConflict(p) == Tier1(p) \cup Tier2(p)

\* In a pass that has made no change, the cells it has considered are at rest,
\* less the one on trial; a run that reports convergence is over.
SeenAtRest ==
    \A c \in InConflict(Settled) \ (first \cup second) :
        (stage = "verify" /\ c = trial.cell) \/ AtRest(Settled, c)

NoChangeInv ==
    stage \in {"scan", "verify"} /\ MadeInPass = 0 =>
        /\ locked = {}
        /\ first \cup second \subseteq InConflict(Settled)
        /\ SeenAtRest
        /\ stage = "verify" =>
              /\ trial.cell \in InConflict(Settled)
              /\ trial.new \in Improving(Settled, UsageOf(Settled)[Freq[trial.cell]],
                                         trial.cell)

RestInv ==
    /\ reason = "converged_no_changes" =>
          stage = "done" /\ \A c \in InConflict(pci) : AtRest(pci, c)
    /\ stage \in {"scan", "verify"} => opened < RunBudget
    /\ NoChangeInv

\* A pass may always make a change.
LEMMA PassBudgetPositive == PassBudget >= 1
<1>1. \A n : BudgetCells(n) = AtLeast(RoundPermille(Cardinality(Cells) * n), 1)
  BY DEF BudgetCells
<1>2. ASSUME NEW n \in Nat PROVE BudgetCells(n) >= 1
  <2>1. Cardinality(Cells) * n \in Nat
    BY WeightAssumption, FS_CardinalityType
  <2>2. RoundPermille(Cardinality(Cells) * n) \in Nat
    BY <2>1 DEF RoundPermille
  <2>3. QED
    BY <1>1, <2>2 DEF AtLeast
<1>3. BudgetCells(PassPermille) >= 1 /\ BudgetCells(PassPermille) \in Int
  <2>1. Cardinality(Cells) * PassPermille \in Nat
    BY WeightAssumption, FS_CardinalityType, RunAssumption
  <2>2. RoundPermille(Cardinality(Cells) * PassPermille) \in Nat
    BY <2>1 DEF RoundPermille
  <2>3. QED
    BY <1>1, <2>2 DEF AtLeast
<1>4. CASE Override = None
  BY <1>3, <1>4 DEF PassBudget
<1>5. CASE Override # None
  <2>1. PassBudget \in Nat
    BY BudgetType
  <2>2. QED
    BY <1>3, <1>5, <2>1 DEF PassBudget, AtLeast
<1>6. QED
  BY <1>4, <1>5

\* A cell in conflict has a frequency, so the uses of its PCIs are numbers.
LEMMA ConflictUses ==
  ASSUME NEW p \in [Cells -> Pcis], NEW c \in InConflict(p)
  PROVE  c \in Cells /\ UsageOf(p)[Freq[c]] \in [Pcis -> Int]
<1>1. c \in Cells /\ Freq[c] # NoFreq
  BY DEF InConflict, Tier1, Tier2, Colliding, Confused, Interfering, CoChannel,
         SameFreq
<1>2. ASSUME NEW q \in Pcis
      PROVE  Cardinality({d \in Cells : Freq[d] = Freq[c] /\ p[d] = q}) \in Int
  <2>1. {d \in Cells : Freq[d] = Freq[c] /\ p[d] = q} \in SUBSET Cells
    OBVIOUS
  <2>2. QED
    BY <2>1, WeightAssumption, FS_Subset, FS_CardinalityType
<1>3. UsageOf(p)[Freq[c]] =
        [q \in Pcis |-> Cardinality({d \in Cells : Freq[d] = Freq[c] /\ p[d] = q})]
  BY <1>1 DEF UsageOf
<1>4. QED
  BY <1>1, <1>2, <1>3

\* A change that the verification takes back was the only one to try.
LEMMA RevertAtRest ==
  ASSUME NEW p \in [Cells -> Pcis], NEW c \in InConflict(p),
         NEW q \in Improving(p, UsageOf(p)[Freq[c]], c),
         SoftCost([p EXCEPT ![c] = q]) > SoftCost(p)
  PROVE  AtRest(p, c)
  BY ConflictUses, OneBest DEF AtRest

LEMMA RestPreserved ==
  ASSUME TypeOK, TrialInv, UsageInv, RestInv, [Next]_vars
  PROVE  RestInv'
<1>1. CASE BudgetExhausted
  BY <1>1 DEF BudgetExhausted, RestInv, NoChangeInv
<1>2. CASE StartPass
  <2>1. /\ stage = "between" /\ stage' = "scan" /\ pci' = pci /\ reason' = reason
        /\ changes' = changes /\ opened' = Len(changes) /\ opened' < RunBudget
        /\ locked' = {} /\ first' \cup second' = InConflict(pci)
    BY <1>2 DEF StartPass, InConflict
  <2>2. Settled' = pci
    BY <2>1 DEF Settled
  <2>3. NoChangeInv'
    BY <2>1, <2>2 DEF NoChangeInv, SeenAtRest
  <2>4. QED
    BY <2>1, <2>3 DEF RestInv
<1>3. ASSUME NEW c \in Cells, Skip(c) PROVE RestInv'
  <2>1. /\ stage = "scan" /\ stage' = "scan" /\ Settled = pci /\ Settled' = pci
        /\ c \in first \cup second
        /\ first' \cup second' = (first \cup second) \ {c}
        /\ c \in locked \/ Improving(pci, usage[Freq[c]], c) = {}
        /\ UNCHANGED <<reason, changes, opened, locked>>
    BY <1>3 DEF Skip, Considered, Upcoming, Settled
  <2>2. CASE MadeInPass = 0
    <3>1. Improving(pci, UsageOf(pci)[Freq[c]], c) = {}
      BY <2>1, <2>2 DEF RestInv, NoChangeInv, UsageInv
    <3>2. AtRest(pci, c)
      BY <3>1 DEF AtRest
    <3>3. NoChangeInv'
      BY <2>1, <2>2, <3>2 DEF RestInv, NoChangeInv, SeenAtRest, MadeInPass
    <3>4. QED
      BY <2>1, <3>3 DEF RestInv
  <2>3. CASE MadeInPass # 0
    BY <2>1, <2>3 DEF RestInv, NoChangeInv, MadeInPass
  <2>4. QED
    BY <2>2, <2>3
<1>4. ASSUME NEW c \in Cells, Try(c) PROVE RestInv'
  <2>1. PICK q \in Improving(pci, usage[Freq[c]], c) :
            /\ trial' = [cell |-> c, old |-> pci[c], new |-> q]
            /\ pci' = [pci EXCEPT ![c] = q]
    BY <1>4 DEF Try
  <2>2. /\ stage = "scan" /\ stage' = "verify" /\ Settled = pci
        /\ c \in first \cup second
        /\ first' \cup second' = (first \cup second) \ {c}
        /\ UNCHANGED <<reason, changes, opened, locked>>
    BY <1>4 DEF Try, Considered, Upcoming, Settled
  <2>3. Settled' = pci
    <3>1. ~Keep
      BY <2>2 DEF Keep
    <3>2. QED
      BY <2>2, <3>1, SettledSteps
  <2>4. trial'.cell = c /\ trial'.new = q
    BY <2>1
  <2>5. CASE MadeInPass = 0
    <3>1. usage = UsageOf(pci) /\ c \in InConflict(pci)
      BY <2>2, <2>5 DEF UsageInv, RestInv, NoChangeInv
    <3>2. NoChangeInv'
      BY <2>1, <2>2, <2>3, <2>4, <2>5, <3>1
         DEF RestInv, NoChangeInv, SeenAtRest, MadeInPass
    <3>3. QED
      BY <2>2, <3>2 DEF RestInv
  <2>6. CASE MadeInPass # 0
    BY <2>2, <2>6 DEF RestInv, NoChangeInv, MadeInPass
  <2>7. QED
    BY <2>5, <2>6
<1>5. CASE Revert
  <2>1. /\ stage = "verify" /\ stage' = "scan" /\ CostRises
        /\ UNCHANGED <<reason, changes, opened, locked, first, second>>
    BY <1>5 DEF Revert
  <2>2. Settled' = Settled /\ pci' = Settled
    BY <1>5, <2>1 DEF Revert, Settled
  <2>3. /\ Settled \in [Cells -> Pcis]
        /\ [Settled EXCEPT ![trial.cell] = trial.new] = pci
    BY <2>1 DEF Settled, TrialInv, TypeOK, Trials
  <2>4. CASE MadeInPass = 0
    <3>1. /\ trial.cell \in InConflict(Settled)
          /\ trial.new \in Improving(Settled, UsageOf(Settled)[Freq[trial.cell]],
                                     trial.cell)
      BY <2>1, <2>4 DEF RestInv, NoChangeInv
    <3>2. SoftCost(pci) > SoftCost(Settled)
      BY <2>1 DEF CostRises, Settled
    <3>3. AtRest(Settled, trial.cell)
      BY <2>3, <3>1, <3>2, RevertAtRest
    <3>4. NoChangeInv'
      BY <2>1, <2>2, <2>4, <3>3 DEF RestInv, NoChangeInv, SeenAtRest, MadeInPass
    <3>5. QED
      BY <2>1, <3>4 DEF RestInv
  <2>5. CASE MadeInPass # 0
    BY <2>1, <2>5 DEF RestInv, NoChangeInv, MadeInPass
  <2>6. QED
    BY <2>4, <2>5
<1>6. CASE Keep
  <2>1. /\ stage = "verify" /\ stage' = "scan" /\ UNCHANGED <<reason, opened>>
        /\ Len(changes') = Len(changes) + 1
    BY <1>6 DEF Keep, TypeOK
  <2>2. MadeInPass' # 0
    BY <2>1 DEF TypeOK, MadeInPass
  <2>3. QED
    BY <2>1, <2>2 DEF RestInv, NoChangeInv
<1>7. CASE Stop
  <2>1. /\ stage = "scan" /\ stage' = "done" /\ pci' = pci /\ Settled = pci
        /\ reason' = "converged_no_changes" => MadeInPass = 0
        /\ Upcoming = {} \/ MadeInPass >= BudgetOfPass
    BY <1>7 DEF Stop, PassOver, Settled
  <2>2. CASE MadeInPass = 0
    <3>1. BudgetOfPass >= 1
      BY <2>1, BudgetType, PassBudgetPositive
         DEF RestInv, BudgetOfPass, AtMost, TypeOK
    <3>2. first = {} /\ second = {}
      BY <2>1, <2>2, <3>1, BudgetType DEF Upcoming, BudgetOfPass, AtMost, TypeOK
    <3>3. \A c \in InConflict(pci) : AtRest(pci, c)
      BY <2>1, <2>2, <3>2 DEF RestInv, NoChangeInv, SeenAtRest
    <3>4. QED
      BY <2>1, <3>3 DEF RestInv, NoChangeInv
  <2>3. CASE MadeInPass # 0
    BY <2>1, <2>3 DEF RestInv, NoChangeInv
  <2>4. QED
    BY <2>2, <2>3
<1>8. CASE Continue
  BY <1>8 DEF Continue, RestInv, NoChangeInv
<1>9. CASE OutOfPasses
  BY <1>9 DEF OutOfPasses, RestInv, NoChangeInv
<1>10. CASE UNCHANGED vars
  BY <1>10 DEF vars, RestInv, NoChangeInv, SeenAtRest, Settled, MadeInPass
<1>11. QED
  BY <1>1, <1>2, <1>3, <1>4, <1>5, <1>6, <1>7, <1>8, <1>9, <1>10 DEF Next

------------------------------------------------------------------------------
(***************************************************************************)
(* The report of a run.                                                    *)
(***************************************************************************)

\* Pairs in conflict are finitely many.
LEMMA EdgesFinite ==
  ASSUME NEW p
  PROVE  IsFiniteSet(DOMAIN PlanEdges(p))
<1>1. AllPairs(p) \subseteq SUBSET Cells
  <2>1. Linked \subseteq SUBSET Cells
    BY NetworkAssumption DEF Linked, CoChannel
  <2>2. Siblings \subseteq SUBSET Cells
    BY NetworkAssumption DEF Siblings
  <2>3. QED
    BY <2>1, <2>2 DEF AllPairs, PairsOf
<1>2. IsFiniteSet(AllPairs(p))
  BY <1>1, WeightAssumption, FS_SUBSET, FS_Subset
<1>3. DOMAIN PlanEdges(p) \subseteq AllPairs(p)
  BY DEF PlanEdges, Labelled
<1>4. QED
  BY <1>2, <1>3, FS_Subset

\* An edge has one label.
LEMMA OneKey ==
  ASSUME NEW p
  PROVE  /\ IsFiniteSet(Keys(PlanEdges(p)))
         /\ Cardinality(Keys(PlanEdges(p))) = Cardinality(DOMAIN PlanEdges(p))
<1> DEFINE E == PlanEdges(p)
           K == [cd \in DOMAIN E |-> <<cd, E[cd]>>]
<1>1. K \in Bijection(DOMAIN E, Keys(E))
  BY DEF Keys, Bijection, Injection, Surjection, IsInjective
<1>2. ExistsBijection(DOMAIN E, Keys(E))
  BY <1>1 DEF ExistsBijection
<1>3. QED
  BY <1>2, EdgesFinite, FS_Bijection

\* What a plan resolves and creates is the difference of its two totals.
LEMMA PlanBalance ==
  ASSUME NEW p, NEW q
  PROVE  Plan(p, q).before.total - Plan(p, q).resolved + Plan(p, q).created
            = Plan(p, q).after.total
<1> DEFINE A == Keys(PlanEdges(p))
           B == Keys(PlanEdges(q))
<1>1. /\ IsFiniteSet(A) /\ IsFiniteSet(B)
      /\ Cardinality(A) \in Nat /\ Cardinality(B) \in Nat
  BY OneKey, FS_CardinalityType
<1>2. /\ Cardinality(A \ B) = Cardinality(A) - Cardinality(A \cap B)
      /\ Cardinality(B \ A) = Cardinality(B) - Cardinality(B \cap A)
  BY <1>1, FS_Difference
<1>3. A \cap B = B \cap A /\ IsFiniteSet(A \cap B) /\ Cardinality(A \cap B) \in Nat
  BY <1>1, FS_Subset, FS_CardinalityType
<1>4. /\ Plan(p, q).before.total = Cardinality(A)
      /\ Plan(p, q).after.total = Cardinality(B)
      /\ Plan(p, q).resolved = Cardinality(A \ B)
      /\ Plan(p, q).created = Cardinality(B \ A)
  BY OneKey DEF Plan, Summary
<1>5. Cardinality(A) - Cardinality(A \ B) + Cardinality(B \ A) = Cardinality(B)
  BY <1>1, <1>2, <1>3
<1>6. QED
  BY <1>4, <1>5

\* The list, replayed on what the run found, gives what the run left.
LEMMA Replayed ==
  ASSUME TypeOK, ListTellsAll, stage = "done"
  PROVE  /\ Recommended(start, changes) = pci
         /\ Plan(start, pci).replaced =
               {x \in Cells : /\ ChangesOf(x) # {}
                             /\ changes[Last(ChangesOf(x))].new
                                  # changes[First(ChangesOf(x))].old}
<1>1. ASSUME NEW x \in Cells
      PROVE  IF ChangesOf(x) = {} THEN pci[x] = start[x]
             ELSE /\ pci[x] = changes[Last(ChangesOf(x))].new
                  /\ start[x] = changes[First(ChangesOf(x))].old
  BY DEF ListTellsAll
<1>2. ASSUME NEW x \in Cells
      PROVE  Recommended(start, changes)[x] = pci[x]
  BY <1>1 DEF Recommended, ChangesOf, Last
<1>3. Recommended(start, changes) = [x \in Cells |-> Recommended(start, changes)[x]]
  BY DEF Recommended
<1>4. Recommended(start, changes) = pci
  BY <1>2, <1>3 DEF TypeOK
<1>5. Plan(start, pci).replaced = {x \in Cells : start[x] # pci[x]}
  BY DEF Plan
<1>6. QED
  BY <1>1, <1>4, <1>5

------------------------------------------------------------------------------
(***************************************************************************)
(* A confused cell without co-channel neighbours: its keys differ in the   *)
(* uses of the PCIs and in the PCIs only, and a PCI that nobody has costs  *)
(* it nothing.                                                             *)
(***************************************************************************)

\* A set of numbers has a least one.
LEMMA LeastNumber ==
  ASSUME NEW T \in SUBSET Nat, T # {}
  PROVE  \E x \in T : \A y \in T : x <= y
<1> DEFINE Below == OpToRel(<, Nat)
<1>1. IsWellFoundedOn(Below, Nat)
  BY NatLessThanWellFounded
<1>2. \A y, x \in Nat : <<y, x>> \in Below <=> y < x
  BY DEF OpToRel
<1> HIDE DEF Below
<1>3. PICK x \in T : \A y \in T : ~(<<y, x>> \in Below)
  BY <1>1, WFMin
<1>4. ASSUME NEW y \in T PROVE x <= y
  <2>1. x \in Nat /\ y \in Nat
    OBVIOUS
  <2>2. ~(y < x)
    BY <1>2, <1>3, <2>1
  <2>3. QED
    BY <2>1, <2>2
<1>5. QED
  BY <1>4

\* Uses of a PCI by cells other than c.
Others(p, use, c, q) == use[q] - (IF q = p[c] THEN 1 ELSE 0)

LEMMA LoneKey ==
  ASSUME NEW p, NEW use \in [Pcis -> Int], NEW c \in Cells, NEW q \in Pcis,
         CoChannel(c) = {}, NEW i \in 1..(Len(ModPriority) + 1)
  PROVE  SortKey(p, use, c, q)[i] = 0
<1> DEFINE key == SortKey(p, use, c, q)
<1>1. KeyIs(key, p, use, c, q)
  BY KeyPlaces
<1>2. Disturbed(c, {}) = 0
  <2>1. {du \in {} \X Units : du[2] <= Weight[<<c, du[1]>>]} = {}
    OBVIOUS
  <2>2. QED
    BY <2>1, FS_EmptySet DEF Disturbed
<1>3. Len(ModPriority) \in Nat
  BY WeightAssumption
<1> HIDE DEF key
<1>4. CASE i = 1
  <2>1. {d \in CoChannel(c) : p[d] = q} = {}
    OBVIOUS
  <2>2. QED
    BY <1>1, <1>2, <1>4, <2>1 DEF KeyIs, CollisionPenalty, key
<1>5. CASE i # 1
  <2>1. PICK k \in 1..Len(ModPriority) : i = k + 1
    BY <1>3, <1>5
  <2>2. key[i] = ModTerm(p, c, q, ModPriority[k])
    BY <1>1, <2>1 DEF KeyIs
  <2>3. \A n : {d \in CoChannel(c) : q % n = p[d] % n} = {}
    OBVIOUS
  <2>4. QED
    BY <1>2, <2>2, <2>3 DEF ModTerm, key
<1>6. QED
  BY <1>4, <1>5

LEMMA LonePrecedes ==
  ASSUME NEW p, NEW use \in [Pcis -> Int], NEW c \in Cells, CoChannel(c) = {},
         NEW q \in Pcis, NEW r \in Pcis,
         \/ Others(p, use, c, q) < Others(p, use, c, r)
         \/ Others(p, use, c, q) = Others(p, use, c, r) /\ q < r
  PROVE  Precedes(SortKey(p, use, c, q), SortKey(p, use, c, r))
<1> DEFINE k == SortKey(p, use, c, q)
           l == SortKey(p, use, c, r)
<1>1. KeyIs(k, p, use, c, q) /\ KeyIs(l, p, use, c, r)
  BY KeyPlaces
<1>2. \A i \in 1..(Len(ModPriority) + 1) : k[i] = l[i]
  BY LoneKey
<1> HIDE DEF k, l
<1>3. PICK m \in Nat : m = Len(ModPriority)
  BY WeightAssumption
<1>4. /\ k[m + 2] = Others(p, use, c, q) /\ l[m + 2] = Others(p, use, c, r)
      /\ k[m + 3] = q /\ l[m + 3] = r
  BY <1>1, <1>3 DEF KeyIs, Others
<1>5. DOMAIN k = 1..(m + 3)
  <2>1. k \in Seq(Int)
    BY <1>1 DEF KeyIs
  <2>2. Len(k) = m + 3
    BY <1>1, <1>3 DEF KeyIs
  <2>3. QED
    BY <2>1, <2>2
<1>6. CASE Others(p, use, c, q) < Others(p, use, c, r)
  <2>1. PICK i \in DOMAIN k : i = m + 2
    BY <1>5
  <2>2. k[i] < l[i]
    BY <1>4, <1>6, <2>1
  <2>3. 1..(i - 1) = 1..(Len(ModPriority) + 1)
    BY <1>3, <2>1
  <2>4. \A j \in 1..(i - 1) : k[j] = l[j]
    BY <1>2, <2>3
  <2>5. QED
    BY <2>2, <2>4 DEF Precedes, k, l
<1>7. CASE Others(p, use, c, q) = Others(p, use, c, r) /\ q < r
  <2>1. PICK i \in DOMAIN k : i = m + 3
    BY <1>5
  <2>2. k[i] < l[i]
    BY <1>4, <1>7, <2>1
  <2>3. ASSUME NEW j \in 1..(i - 1) PROVE k[j] = l[j]
    <3>1. j \in 1..(m + 1) \/ j = m + 2
      BY <2>1
    <3>2. QED
      BY <1>2, <1>3, <1>4, <1>7, <3>1
  <2>4. QED
    BY <2>2, <2>3 DEF Precedes, k, l
<1>8. QED
  BY <1>6, <1>7

\* With a PCI of its pool unused, the key moves a confused cell to an unused one.
LEMMA LoneFinds ==
  ASSUME NEW p \in [Cells -> Pcis], NEW c \in Cells, NEW e \in Cells, e # c,
         SameFreq(c, e), p[e] = p[c], CoChannel(c) = {},
         NEW q \in Allowed[c], \A d \in Cells : SameFreq(c, d) => p[d] # q
  PROVE  \E b \in Improving(p, UsageOf(p)[Freq[c]], c) :
            \A d \in Cells : SameFreq(c, d) => p[d] # b
<1> DEFINE use == UsageOf(p)[Freq[c]]
           H(x) == {d \in Cells : Freq[d] = Freq[c] /\ p[d] = x}
           Rest(x) == Others(p, use, c, x)
<1>1. Freq[c] # NoFreq /\ p[c] \in Pcis /\ Allowed[c] \subseteq Pcis /\ Pcis \subseteq Nat
  BY NetworkAssumption DEF SameFreq
<1>2. use = [x \in Pcis |-> Cardinality(H(x))]
  BY <1>1 DEF UsageOf
<1>3. \A x : IsFiniteSet(H(x)) /\ Cardinality(H(x)) \in Nat
  <2>1. \A x : H(x) \in SUBSET Cells
    OBVIOUS
  <2>2. QED
    BY <2>1, WeightAssumption, FS_Subset, FS_CardinalityType
<1>4. use \in [Pcis -> Int]
  <2> HIDE DEF H, use
  <2>1. \A x \in Pcis : Cardinality(H(x)) \in Int
    BY <1>3
  <2>2. QED
    BY <1>2, <2>1
<1>5. Rest(p[c]) \in Nat /\ Rest(p[c]) > 0
  <2>1. c \in H(p[c]) /\ e \in H(p[c]) \ {c}
    BY DEF SameFreq
  <2>2. use[p[c]] = Cardinality(H(p[c]))
    BY <1>1, <1>2
  <2> HIDE DEF H, use
  <2>3. /\ IsFiniteSet(H(p[c]) \ {c})
        /\ Cardinality(H(p[c]) \ {c}) = Cardinality(H(p[c])) - 1
    BY <1>3, <2>1, FS_RemoveElement
  <2>4. Cardinality(H(p[c]) \ {c}) \in Nat /\ Cardinality(H(p[c]) \ {c}) # 0
    BY <2>1, <2>3, FS_EmptySet, FS_CardinalityType
  <2>5. QED
    BY <1>3, <2>2, <2>3, <2>4 DEF Others
<1>6. ASSUME NEW x \in Pcis, x # p[c]
      PROVE  /\ Rest(x) \in Nat
             /\ Rest(x) = 0 <=> H(x) = {}
  <2>1. Rest(x) = Cardinality(H(x))
    BY <1>2, <1>3, <1>6 DEF Others
  <2> HIDE DEF H, Rest
  <2>2. QED
    BY <1>3, <2>1, FS_EmptySet
<1> DEFINE T == {x \in Allowed[c] : Rest(x) = 0}
<1>7. q \in T
  <2>1. q # p[c] /\ H(q) = {}
    BY <1>1 DEF SameFreq
  <2>2. q \in Pcis
    BY <1>1
  <2> HIDE DEF H, Rest
  <2>3. QED
    BY <1>6, <2>1, <2>2
<1>8. PICK b \in T : \A y \in T : b <= y
  <2>1. T \in SUBSET Nat
    BY <1>1
  <2>2. T # {}
    BY <1>7
  <2> HIDE DEF T
  <2>3. QED
    BY <2>1, <2>2, LeastNumber
<1>9. b \in Allowed[c] /\ b \in Pcis /\ Rest(b) = 0 /\ b # p[c]
  <2>1. b \in Allowed[c] /\ Rest(b) = 0
    OBVIOUS
  <2> HIDE DEF Rest
  <2>2. QED
    BY <1>1, <1>5, <2>1
<1>10. \A d \in Cells : SameFreq(c, d) => p[d] # b
  <2>1. H(b) = {}
    <3> HIDE DEF H, Rest
    <3>1. QED
      BY <1>6, <1>9
  <2>2. QED
    BY <2>1 DEF SameFreq
<1> HIDE DEF use, H
<1>11. ASSUME NEW x \in Allowed[c], x # b
       PROVE  Precedes(SortKey(p, use, c, b), SortKey(p, use, c, x))
  <2>1. x \in Pcis /\ x \in Nat /\ b \in Nat
    BY <1>1, <1>9
  <2>2. CASE x \in T
    <3>1. b < x
      BY <1>8, <1>11, <2>1, <2>2
    <3>2. Rest(x) = Rest(b)
      BY <1>9, <2>2
    <3>3. QED
      BY <1>4, <1>9, <2>1, <3>1, <3>2, LonePrecedes
  <2>3. CASE x \notin T
    <3>1. Rest(x) \in Nat /\ Rest(x) # 0
      <4>1. Rest(x) # 0
        BY <2>3
      <4> HIDE DEF Rest
      <4>2. QED
        BY <1>5, <1>6, <2>1, <4>1
    <3>2. Rest(b) < Rest(x)
      <4> HIDE DEF Rest
      <4>1. QED
        BY <1>9, <3>1
    <3>3. QED
      BY <1>4, <1>9, <2>1, <3>2, LonePrecedes
  <2>4. QED
    BY <2>2, <2>3
<1>12. Precedes(SortKey(p, use, c, b), SortKey(p, use, c, p[c]))
  <2>1. Rest(b) < Rest(p[c])
    <3> HIDE DEF Rest
    <3>1. QED
      BY <1>5, <1>9
  <2>2. QED
    BY <1>1, <1>4, <1>9, <2>1, LonePrecedes
<1>13. b \in Improving(p, use, c)
  BY <1>9, <1>11, <1>12 DEF Improving, BestPcis
<1>14. QED
  BY <1>10, <1>13 DEF use

\* A PCI that nobody on the frequency has costs such a cell nothing.
LEMMA LoneMove ==
  ASSUME NEW p \in [Cells -> Pcis], NEW c \in Cells, CoChannel(c) = {},
         NEW b \in Pcis, \A d \in Cells : SameFreq(c, d) => p[d] # b
  PROVE  SoftCost([p EXCEPT ![c] = b]) <= SoftCost(p)
<1> DEFINE n == [p EXCEPT ![c] = b]
<1>1. \A cd \in CoChannelPairs : cd[1] # c /\ cd[2] # c
  BY NetworkAssumption DEF CoChannelPairs, CoChannel, SameFreq
<1>2. \A pu \in PairUnits : /\ n[pu[1][1]] = p[pu[1][1]]
                            /\ n[pu[1][2]] = p[pu[1][2]]
  BY <1>1 DEF PairUnits, CoChannelPairs
<1>3. CollisionsOf(n) = CollisionsOf(p)
  BY <1>2 DEF CollisionsOf
<1>4. ModsOf(n) = ModsOf(p)
  BY <1>2, <1>3 DEF ModsOf
<1>5. ConfusionsOf(n) \in SUBSET ConfusionsOf(p)
  <2>1. ASSUME NEW vu \in ConfusionsOf(n) PROVE vu \in ConfusionsOf(p)
    <3>1. /\ vu \in ViewUnits /\ vu[1] \in Views
          /\ n[vu[1][2][1]] = n[vu[1][2][2]]
      BY DEF ConfusionsOf, ViewUnits
    <3>2. PICK x \in Cells, y \in Cells : vu[1][2][1] = x /\ vu[1][2][2] = y
      BY <3>1 DEF Views
    <3>3. SameFreq(x, y) /\ SameFreq(y, x) /\ n[x] = n[y]
      BY <3>1, <3>2 DEF Views, SameFreq
    <3>4. p[x] = p[y]
      BY <3>3
    <3>5. QED
      BY <3>1, <3>2, <3>4 DEF ConfusionsOf
  <2>2. QED
    BY <2>1
<1>6. Cardinality(ConfusionsOf(n)) <= Cardinality(ConfusionsOf(p))
  BY <1>5, CostParts, FS_Subset
<1>7. /\ Cardinality(CollisionsOf(p)) \in Nat
      /\ Cardinality(ConfusionsOf(p)) \in Nat /\ Cardinality(ConfusionsOf(n)) \in Nat
      /\ Cardinality(ModsOf(p)) \in Nat
  BY CostParts, FS_CardinalityType
<1> HIDE DEF n
<1>8. SoftCost(n) <= SoftCost(p)
  BY <1>3, <1>4, <1>6, <1>7 DEF SoftCost, CollisionPenalty, ConfusionPenalty
<1>9. QED
  BY <1>8 DEF n

\* The inductive invariant of a run.
IInv ==
    /\ TypeOK
    /\ PassInv
    /\ LockInv
    /\ CostInv
    /\ NeverCostsMore
    /\ PassChangesApart
    /\ TrialInv
    /\ UsageInv
    /\ ListInv
    /\ RestInv

LEMMA InitInv == Init => IInv
<1> SUFFICES ASSUME Init PROVE IInv
  OBVIOUS
<1>1. TypeOK
  BY RunAssumption DEF Init, TypeOK, Stages, Reasons
<1>2. PassInv
  BY BudgetType DEF Init, PassInv, MadeInPass
<1>3. LockInv /\ PassChangesApart
  BY DEF Init, LockInv, PassChangesApart
<1>4. CostInv /\ NeverCostsMore
  BY CostType DEF Init, CostInv, NeverCostsMore
<1>5. TrialInv /\ UsageInv
  BY DEF Init, TrialInv, UsageInv
<1>6. ListInv
  BY DEF Init, ListInv, Tells, ChangesOf, Settled
<1>7. RestInv
  BY DEF Init, RestInv, NoChangeInv
<1>8. QED
  BY <1>1, <1>2, <1>3, <1>4, <1>5, <1>6, <1>7 DEF IInv

LEMMA StepInv == IInv /\ [Next]_vars => IInv'
  BY TypePreserved, PassPreserved, LockPreserved, CostPreserved, ApartPreserved,
     SettledSteps, UsagePreserved, ListPreserved, RestPreserved
     DEF IInv

\* The variables keep their types in every reachable state.
THEOREM TypeCorrect == Spec => []TypeOK
<1>1. IInv => TypeOK
  BY DEF IInv
<1>2. QED
  BY InitInv, StepInv, <1>1, PTL DEF Spec

\* No run and no pass makes more changes than its budget allows.
THEOREM BudgetHolds == Spec => []WithinBudget
<1>1. IInv => WithinBudget
  BY BudgetType DEF IInv, TypeOK, PassInv, WithinBudget, MadeInPass,
                    BudgetOfPass, AtMost
<1>2. QED
  BY InitInv, StepInv, <1>1, PTL DEF Spec

\* The cells changed in one pass are more than two hops apart.
THEOREM ChangesApart == Spec => []PassChangesApart
<1>1. IInv => PassChangesApart
  BY DEF IInv
<1>2. QED
  BY InitInv, StepInv, <1>1, PTL DEF Spec

\* No run leaves a network that costs more than the one it found.
THEOREM GuardHolds == Spec => []NeverCostsMore
<1>1. IInv => NeverCostsMore
  BY DEF IInv
<1>2. QED
  BY InitInv, StepInv, <1>1, PTL DEF Spec

\* At every point of a run the list of changes is the difference between the
\* network it found and the network as it is now.
THEOREM ListTells == Spec => []ListTellsAll
<1>1. IInv => ListTellsAll
  <2> SUFFICES ASSUME IInv, stage # "verify", NEW c \in Cells
               PROVE  IF ChangesOf(c) = {}
                      THEN pci[c] = start[c]
                      ELSE /\ pci[c] = changes[Last(ChangesOf(c))].new
                           /\ start[c] = changes[First(ChangesOf(c))].old
                           /\ \A i, j \in ChangesOf(c) :
                                 /\ i < j
                                 /\ ~\E k \in ChangesOf(c) : i < k /\ k < j
                                 => changes[j].old = changes[i].new
    BY DEF ListTellsAll
  <2>1. Tells(c, pci[c])
    BY DEF IInv, ListInv, Settled
  <2>2. ChangesOf(c) \subseteq Nat
    BY DEF IInv, TypeOK, ChangesOf
  <2>3. \A i \in Nat : IsLast(c, i) => Last(ChangesOf(c)) = i
    BY <2>2 DEF IsLast, Last
  <2>4. \A i \in Nat : IsFirst(c, i) => First(ChangesOf(c)) = i
    BY <2>2 DEF IsFirst, First
  <2>5. QED
    BY <2>1, <2>3, <2>4 DEF Tells
<1>2. QED
  BY InitInv, StepInv, <1>1, PTL DEF Spec

\* The counts of PCIs in use, kept change by change, are those of a recount.
THEOREM UsageCounted == Spec => []UsageExact
<1>1. IInv => UsageExact
  BY DEF IInv, UsageInv, UsageExact, Settled
<1>2. QED
  BY InitInv, StepInv, <1>1, PTL DEF Spec

\* A run that reports convergence would change nothing if it were started
\* again.
THEOREM RestsWhenConverged == Spec => []ConvergedIsStable
<1>1. IInv => ConvergedIsStable
  BY DEF IInv, RestInv, AtRest, InConflict, ConvergedIsStable
<1>2. QED
  BY InitInv, StepInv, <1>1, PTL DEF Spec

\* A converged run leaves a cell without co-channel neighbours confused only if
\* every PCI of its pool is in use.
THEOREM ConfusedOnlyWhenFull == Spec => []ConvergedIsUnconfused
<1>1. IInv => ConvergedIsUnconfused
  <2> SUFFICES ASSUME IInv, stage = "done", reason = "converged_no_changes",
                      NEW c \in Confused(pci), CoChannel(c) = {},
                      NEW q \in Allowed[c],
                      \A d \in Cells : SameFreq(c, d) => pci[d] # q
               PROVE  FALSE
    BY DEF ConvergedIsUnconfused
  <2>1. c \in Cells /\ pci \in [Cells -> Pcis]
    BY DEF IInv, TypeOK, Confused
  <2>2. PICK e \in Cells : e # c /\ SameFreq(c, e) /\ pci[e] = pci[c]
    BY NetworkAssumption DEF Confused
  <2>3. PICK b \in Improving(pci, UsageOf(pci)[Freq[c]], c) :
            \A d \in Cells : SameFreq(c, d) => pci[d] # b
    BY <2>1, <2>2, LoneFinds
  <2>4. SoftCost([pci EXCEPT ![c] = b]) > SoftCost(pci)
    BY <2>3 DEF IInv, RestInv, AtRest, InConflict, Tier1
  <2>5. b \in Pcis
    BY <2>1, ImprovingType
  <2>6. SoftCost([pci EXCEPT ![c] = b]) <= SoftCost(pci)
    BY <2>1, <2>3, <2>5, LoneMove
  <2>7. SoftCost([pci EXCEPT ![c] = b]) \in Nat /\ SoftCost(pci) \in Nat
    BY CostType
  <2>8. QED
    BY <2>4, <2>6, <2>7
<1>2. QED
  BY InitInv, StepInv, <1>1, PTL DEF Spec

\* `validate` and the plan page, which know of a run only the list of its
\* changes, find the network that the run left.
THEOREM ReportIsTrue == Spec => []ValidatedAsRun
<1>1. IInv /\ ListTellsAll => ValidatedAsRun
  <2> SUFFICES ASSUME TypeOK, ListTellsAll, stage = "done"
               PROVE  ValidatedAsRun
    BY DEF IInv, ValidatedAsRun
  <2>1. Recommended(start, changes) = pci
    BY Replayed
  <2>2. /\ Validation(start, changes).after = Snapshot(pci)
        /\ Validation(start, changes).paletteAfter = Palette(pci)
    BY <2>1 DEF Validation
  <2>3. QED
    BY <2>1, <2>2, Replayed, PlanBalance DEF ValidatedAsRun
<1>2. Spec => []IInv
  BY InitInv, StepInv, PTL DEF Spec
<1>3. QED
  BY <1>1, <1>2, ListTells, PTL
=============================================================================

--------------------------- MODULE ConflictProofs ---------------------------
(***************************************************************************)
(* What the views of the conflicts, the dashboard's proposal and the       *)
(* correlation gate promise, of every assignment of any network: proofs    *)
(* about ConflictViews and ReplanGate.                                     *)
(***************************************************************************)
EXTENDS ReplanGate, FiniteSetTheorems, WellFoundedInduction, TLAPS

Assigned == [Cells -> Pcis]

------------------------------------------------------------------------------
(***************************************************************************)
(* Numbers and sizes.                                                      *)
(***************************************************************************)

\* A set of natural numbers has a least one.
LEMMA LeastNumber ==
  ASSUME NEW T \in SUBSET Nat, T # {}
  PROVE  \E x \in T : \A y \in T : x <= y
<1> DEFINE Below == OpToRel(<, Nat)
<1>1. IsWellFoundedOn(Below, Nat)
  BY NatLessThanWellFounded
<1>2. \A y, x \in Nat : <<y, x>> \in Below <=> y < x
  BY DEF OpToRel
<1> HIDE DEF Below
<1>3. PICK x \in T : \A y \in T : ~(<<y, x>> \in Below)
  BY <1>1, WFMin
<1>4. ASSUME NEW y \in T PROVE x <= y
  <2>1. x \in Nat /\ y \in Nat
    OBVIOUS
  <2>2. ~(y < x)
    BY <1>2, <1>3, <2>1
  <2>3. QED
    BY <2>1, <2>2
<1>5. QED
  BY <1>4

\* What is left out of a finite set does not change its size only if there is
\* nothing to leave out.
LEMMA SameSizeLess ==
  ASSUME NEW A, NEW B, IsFiniteSet(A)
  PROVE  Cardinality(A \ B) = Cardinality(A) <=> A \cap B = {}
<1>1. A \ B \in SUBSET A
  OBVIOUS
<1>2. Cardinality(A) = Cardinality(A \ B) => A = A \ B
  BY <1>1, FS_Subset
<1>3. A \cap B = {} => A \ B = A
  OBVIOUS
<1>4. QED
  BY <1>2, <1>3

\* The pairs in conflict are finitely many, and so is any part of them.
LEMMA PairsFinite ==
  ASSUME NEW p \in Assigned
  PROVE  /\ AllPairs(p) \in SUBSET SUBSET Cells
         /\ IsFiniteSet(AllPairs(p))
<1>1. Linked \in SUBSET SUBSET Cells
  BY NetworkAssumption DEF Linked, CoChannel
<1>2. Siblings \in SUBSET SUBSET Cells
  BY NetworkAssumption DEF Siblings
<1>3. AllPairs(p) \in SUBSET SUBSET Cells
  BY <1>1, <1>2 DEF AllPairs, PairsOf
<1>4. QED
  BY <1>3, WeightAssumption, FS_SUBSET, FS_Subset

------------------------------------------------------------------------------
(***************************************************************************)
(* The label of a pair.                                                    *)
(***************************************************************************)
Label(p, cd) ==
    IF cd \in PairsOf(p, 1) THEN 1
    ELSE IF cd \in PairsOf(p, 2) THEN 2
    ELSE IF cd \in PairsOf(p, 3) THEN 3
    ELSE 4

\* PCIs that are equal modulo 6 or 30 are equal modulo 3.
LEMMA CoarserToo ==
  ASSUME NEW p \in Assigned, NEW n \in {6, 30}, NEW cd \in PairsOf(p, n)
  PROVE  cd \in PairsOf(p, 3)
<1>1. cd \in Linked /\ EqualMod(p, cd, n)
  BY DEF PairsOf, Collision, Confusion
<1>2. \A x \in cd : p[x] \in Nat
  <2>1. cd \in SUBSET Cells
    BY <1>1, NetworkAssumption DEF Linked, CoChannel
  <2>2. QED
    BY <2>1, NetworkAssumption DEF Assigned
<1>3. ASSUME NEW x \in Nat, NEW y \in Nat, x % n = y % n PROVE x % 3 = y % 3
  <2>1. CASE n = 6
    BY <1>3, <2>1
  <2>2. CASE n = 30
    BY <1>3, <2>2
  <2>3. QED
    BY <2>1, <2>2
<1>4. EqualMod(p, cd, 3)
  BY <1>1, <1>2, <1>3 DEF EqualMod
<1>5. QED
  BY <1>1, <1>4 DEF PairsOf, Collision, Confusion

\* Each pair in conflict is in the class its label names, and in none before it.
LEMMA LabelIsFirst ==
  ASSUME NEW p \in Assigned, NEW cd \in AllPairs(p)
  PROVE  /\ Label(p, cd) \in {1, 2, 3, 4}
         /\ Label(p, cd) \in Classes /\ cd \in PairsOf(p, Label(p, cd))
         /\ \A k \in {1, 2, 3, 4} : cd \in PairsOf(p, k) => Label(p, cd) <= k
<1>1. PICK k \in Classes : cd \in PairsOf(p, k)
  BY DEF AllPairs
<1>2. /\ 1 \in Classes /\ 2 \in Classes /\ 3 \in Classes
      /\ k \in {1, 2, 3, 4, 6, 30}
  BY ViewsAssumption DEF Classes, Collision, Confusion
<1>3. k \in {6, 30} => cd \in PairsOf(p, 3)
  BY <1>1, CoarserToo
<1>4. QED
  BY <1>1, <1>2, <1>3 DEF Label

\* Any order that puts collisions first, then confusions, then the moduli 3 and
\* 4 gives every pair in conflict the same label.
LEMMA SameLabels ==
  ASSUME NEW p \in Assigned, NEW order,
         1..4 \subseteq DOMAIN order, DOMAIN order \subseteq Nat \ {0},
         \A i \in 1..4 : order[i] = i
  PROVE  Labelled(p, order) = [cd \in AllPairs(p) |-> Label(p, cd)]
<1>1. ASSUME NEW cd \in AllPairs(p)
      PROVE  /\ Label(p, cd) \in ClassesOf(p, cd, order)
             /\ \A j \in ClassesOf(p, cd, order) : Label(p, cd) <= j
             /\ order[Label(p, cd)] = Label(p, cd)
             /\ Label(p, cd) \in Int
  <2>1. Label(p, cd) \in 1..4 /\ Label(p, cd) \in DOMAIN order
    BY LabelIsFirst
  <2>2. Label(p, cd) \in ClassesOf(p, cd, order)
    BY <2>1, LabelIsFirst DEF ClassesOf
  <2>3. ASSUME NEW j \in ClassesOf(p, cd, order) PROVE Label(p, cd) <= j
    <3>1. j \in Nat \ {0} /\ cd \in PairsOf(p, order[j])
      BY DEF ClassesOf
    <3>2. CASE j \in 1..4
      <4>1. cd \in PairsOf(p, j) /\ j \in {1, 2, 3, 4}
        BY <3>1, <3>2
      <4>2. QED
        BY <4>1, LabelIsFirst
    <3>3. CASE j \notin 1..4
      BY <2>1, <3>1, <3>3
    <3>4. QED
      BY <3>2, <3>3
  <2>4. QED
    BY <2>1, <2>2, <2>3
<1>2. ASSUME NEW cd \in AllPairs(p)
      PROVE  order[CHOOSE i \in ClassesOf(p, cd, order) :
                       \A j \in ClassesOf(p, cd, order) : i <= j] = Label(p, cd)
  <2> DEFINE least == CHOOSE i \in ClassesOf(p, cd, order) :
                          \A j \in ClassesOf(p, cd, order) : i <= j
  <2>1. /\ least \in ClassesOf(p, cd, order)
        /\ \A j \in ClassesOf(p, cd, order) : least <= j
    BY <1>1
  <2>2. ClassesOf(p, cd, order) \in SUBSET Int
    BY DEF ClassesOf
  <2> HIDE DEF least
  <2>3. least = Label(p, cd)
    BY <1>1, <2>1, <2>2
  <2>4. QED
    BY <1>1, <2>3 DEF least
<1>3. {cd \in AllPairs(p) : ClassesOf(p, cd, order) # {}} = AllPairs(p)
  BY <1>1
<1>4. QED
  BY <1>2, <1>3 DEF Labelled

Labels(p) == [cd \in AllPairs(p) |-> Label(p, cd)]

\* So graph, report, list and plan label the same.
LEMMA OneLabelling ==
  ASSUME NEW p \in Assigned
  PROVE  /\ AllRows(p) = Labels(p) /\ GSquared(p) = Labels(p)
         /\ ReportRows(p) = Labels(p) /\ PlanEdges(p) = Labels(p)
<1>1. ASSUME NEW u, NEW v
      PROVE  Labelled(p, <<1, 2, 3, 4, u, v>>) = Labels(p)
  <2> DEFINE order == <<1, 2, 3, 4, u, v>>
  <2>1. /\ 1..4 \subseteq DOMAIN order /\ DOMAIN order \subseteq Nat \ {0}
        /\ \A i \in 1..4 : order[i] = i
    <3>1. order[1] = 1 /\ order[2] = 2 /\ order[3] = 3 /\ order[4] = 4
      OBVIOUS
    <3>2. DOMAIN order = 1..6
      OBVIOUS
    <3>3. \A i \in 1..4 : i = 1 \/ i = 2 \/ i = 3 \/ i = 4
      OBVIOUS
    <3> HIDE DEF order
    <3>4. QED
      BY <3>1, <3>2, <3>3
  <2> HIDE DEF order
  <2>2. Labelled(p, order) = Labels(p)
    BY <2>1, SameLabels DEF Labels
  <2>3. QED
    BY <2>2 DEF order
<1>2. ASSUME NEW u PROVE Labelled(p, <<1, 2, 3, 4, u>>) = Labels(p)
  <2> DEFINE order == <<1, 2, 3, 4, u>>
  <2>1. /\ 1..4 \subseteq DOMAIN order /\ DOMAIN order \subseteq Nat \ {0}
        /\ \A i \in 1..4 : order[i] = i
    <3>1. order[1] = 1 /\ order[2] = 2 /\ order[3] = 3 /\ order[4] = 4
      OBVIOUS
    <3>2. DOMAIN order = 1..5
      OBVIOUS
    <3>3. \A i \in 1..4 : i = 1 \/ i = 2 \/ i = 3 \/ i = 4
      OBVIOUS
    <3> HIDE DEF order
    <3>4. QED
      BY <3>1, <3>2, <3>3
  <2> HIDE DEF order
  <2>2. Labelled(p, order) = Labels(p)
    BY <2>1, SameLabels DEF Labels
  <2>3. QED
    BY <2>2 DEF order
<1>3. QED
  BY <1>1, <1>2 DEF AllRows, GSquared, ReportRows, PlanEdges, Collision, Confusion

------------------------------------------------------------------------------
(***************************************************************************)
(* Pairs and their cells.                                                  *)
(***************************************************************************)

\* Neighbourhood on a frequency has no direction.
LEMMA LinkedPair ==
  ASSUME NEW c \in Cells, NEW d \in Cells
  PROVE  {c, d} \in Linked <=> d \in CoChannel(c)
<1>1. ASSUME NEW x \in Cells, NEW y \in CoChannel(x) PROVE y \in Cells /\ x \in CoChannel(y)
  BY NetworkAssumption DEF CoChannel, SameFreq
<1>2. ASSUME d \in CoChannel(c) PROVE {c, d} \in Linked
  BY <1>2 DEF Linked
<1>3. ASSUME {c, d} \in Linked PROVE d \in CoChannel(c)
  <2>1. PICK x \in Cells : \E y \in CoChannel(x) : {c, d} = {x, y}
    BY <1>3 DEF Linked
  <2>2. PICK y \in CoChannel(x) : {c, d} = {x, y}
    BY <2>1
  <2>3. (x = c /\ y = d) \/ (x = d /\ y = c)
    BY <2>2
  <2>4. QED
    BY <1>1, <2>2, <2>3
<1>4. QED
  BY <1>2, <1>3

\* A linked pair is of two cells.
LEMMA LinkedTwo ==
  ASSUME NEW cd \in Linked
  PROVE  \E x, y \in Cells : x # y /\ cd = {x, y} /\ y \in CoChannel(x)
<1>1. PICK x \in Cells : \E y \in CoChannel(x) : cd = {x, y}
  BY DEF Linked
<1>2. PICK y \in CoChannel(x) : cd = {x, y}
  BY <1>1
<1>3. y \in Cells /\ x # y
  BY NetworkAssumption DEF CoChannel
<1>4. QED
  BY <1>2, <1>3

\* A cell's card under a modulus.
LEMMA CardReads ==
  ASSUME NEW p \in Assigned, NEW c \in Cells, NEW n \in Moduli
  PROVE  CardMod(p, c, n) = {d \in Cells \ {c} : /\ {c, d} \in PairsOf(p, n)
                                                 /\ {c, d} \notin PairsOf(p, Collision)}
<1>1. n # 1 /\ n # 2
  BY ViewsAssumption
<1>2. ASSUME NEW d \in Cells \ {c}
      PROVE  d \in CardMod(p, c, n) <=> /\ {c, d} \in PairsOf(p, n)
                                        /\ {c, d} \notin PairsOf(p, Collision)
  <2>1. EqualMod(p, {c, d}, n) <=> p[d] % n = p[c] % n
    BY DEF EqualMod
  <2>2. EqualPci(p, {c, d}) <=> p[c] = p[d]
    BY DEF EqualPci
  <2>3. {c, d} \in PairsOf(p, n) <=> d \in CoChannel(c) /\ p[d] % n = p[c] % n
    BY <1>1, <2>1, LinkedPair DEF PairsOf, Collision, Confusion
  <2>4. {c, d} \in PairsOf(p, Collision) <=> d \in CoChannel(c) /\ p[c] = p[d]
    BY <2>2, LinkedPair DEF PairsOf
  <2>5. QED
    BY <2>3, <2>4 DEF CardMod
<1>3. CardMod(p, c, n) \subseteq Cells \ {c}
  BY NetworkAssumption DEF CardMod, CoChannel
<1>4. QED
  BY <1>2, <1>3

\* Conflicts that touch a region, and cells of it that none touches.
LEMMA RegionCounts ==
  ASSUME NEW rows, DOMAIN rows \in SUBSET SUBSET Cells, IsFiniteSet(DOMAIN rows),
         NEW r \in SUBSET Cells
  PROVE  /\ Touching(rows, r) \in Nat
         /\ RegionHealth(rows, r).conflicts = Touching(rows, r)
         /\ Touching(rows, r) = 0 <=> RegionHealth(rows, r).ok = Cardinality(r)
<1> DEFINE touching == {cd \in DOMAIN rows : \E c \in cd : c \in r}
<1>1. IsFiniteSet(touching) /\ IsFiniteSet(r)
  BY WeightAssumption, FS_Subset
<1>2. Touching(rows, r) \in Nat
  BY <1>1, FS_CardinalityType DEF Touching
<1>3. touching = {cd \in DOMAIN rows : cd \cap r # {}}
  OBVIOUS
<1>4. Touching(rows, r) = 0 <=> touching = {}
  BY <1>1, FS_EmptySet DEF Touching
<1>5. touching = {} <=> r \cap UNION DOMAIN rows = {}
  OBVIOUS
<1>6. /\ RegionHealth(rows, r).conflicts = Touching(rows, r)
      /\ RegionHealth(rows, r).ok = Cardinality(r \ UNION DOMAIN rows)
  <2>1. RegionHealth(rows, r).conflicts = Touching(rows, r)
    BY <1>3 DEF RegionHealth, Touching
  <2>2. RegionHealth(rows, r).ok = Cardinality(r \ UNION DOMAIN rows)
    BY DEF RegionHealth
  <2>3. QED
    BY <2>1, <2>2
<1>7. Cardinality(r \ UNION DOMAIN rows) = Cardinality(r) <=> r \cap UNION DOMAIN rows = {}
  <2> DEFINE U == UNION DOMAIN rows
  <2> HIDE DEF U
  <2>1. Cardinality(r \ U) = Cardinality(r) <=> r \cap U = {}
    BY <1>1, SameSizeLess
  <2>2. QED
    BY <2>1 DEF U
<1>8. QED
  BY <1>2, <1>4, <1>5, <1>6, <1>7

\* The cells of a line of the report.
LEMMA LineCounts ==
  ASSUME NEW rows, IsFiniteSet(DOMAIN rows), NEW c
  PROVE  CellReal(rows, c) + CellShadow(rows, c) = Cardinality({cd \in DOMAIN rows : c \in cd})
<1> DEFINE A == {cd \in DOMAIN rows : c \in cd /\ Measured(cd)}
           B == {cd \in DOMAIN rows : c \in cd /\ ~Measured(cd)}
<1>1. /\ IsFiniteSet(A) /\ IsFiniteSet(B)
      /\ Cardinality(A) \in Nat /\ Cardinality(B) \in Nat
  BY FS_Subset, FS_CardinalityType
<1>2. A \cup B = {cd \in DOMAIN rows : c \in cd} /\ A \cap B = {}
  OBVIOUS
<1>3. Cardinality(A \cap B) = 0
  BY <1>2, FS_EmptySet
<1>4. Cardinality(A \cup B) = Cardinality(A) + Cardinality(B) - Cardinality(A \cap B)
  BY <1>1, FS_Union
<1>5. CellReal(rows, c) = Cardinality(A) /\ CellShadow(rows, c) = Cardinality(B)
  BY DEF CellReal, CellShadow
<1> HIDE DEF A, B
<1>6. Cardinality(A) + Cardinality(B) = Cardinality(A \cup B)
  BY <1>1, <1>3, <1>4
<1>7. QED
  BY <1>2, <1>5, <1>6

\* The banner names a region with a conflict if there is one.
LEMMA BannerNames ==
  ASSUME NEW rows, DOMAIN rows \in SUBSET SUBSET Cells, IsFiniteSet(DOMAIN rows),
         NEW half \in SUBSET Cells
  PROVE  LET regions == {half, Cells \ half} \ {{}}
             pulse   == Pulse(rows, regions)
         IN  /\ pulse.conflictCount = Cardinality(DOMAIN rows)
             /\ pulse.worst = {} <=> \A r \in regions :
                     RegionHealth(rows, r).ok = Cardinality(r)
             /\ \A r \in pulse.worst, s \in regions :
                   RegionHealth(rows, s).conflicts <= RegionHealth(rows, r).conflicts
<1> DEFINE regions == {half, Cells \ half} \ {{}}
           worst == {r \in regions :
                        /\ Touching(rows, r) > 0
                        /\ \A s \in regions : Touching(rows, s) <= Touching(rows, r)}
<1>1. \A r \in regions : r \in SUBSET Cells
  OBVIOUS
<1>2. ASSUME NEW r \in regions
      PROVE  /\ Touching(rows, r) \in Nat
             /\ RegionHealth(rows, r).conflicts = Touching(rows, r)
             /\ Touching(rows, r) = 0 <=> RegionHealth(rows, r).ok = Cardinality(r)
  BY <1>1, RegionCounts
<1>3. ASSUME NEW r \in regions, Touching(rows, r) # 0 PROVE worst # {}
  <2>1. \E s \in regions : \A v \in regions : Touching(rows, v) <= Touching(rows, s)
    <3>1. CASE half \in regions /\ Cells \ half \in regions
      <4> DEFINE h == Touching(rows, half)
                 k == Touching(rows, Cells \ half)
      <4>1. h \in Nat /\ k \in Nat
        BY <1>2, <3>1
      <4>2. \A v \in regions : Touching(rows, v) = h \/ Touching(rows, v) = k
        OBVIOUS
      <4> HIDE DEF h, k
      <4>3. h <= k => \A v \in regions : Touching(rows, v) <= k
        BY <4>1, <4>2
      <4>4. ~(h <= k) => \A v \in regions : Touching(rows, v) <= h
        BY <4>1, <4>2
      <4>5. QED
        BY <3>1, <4>3, <4>4 DEF h, k
    <3>2. CASE ~(half \in regions /\ Cells \ half \in regions)
      <4>1. \A v \in regions : v = r
        BY <3>2
      <4>2. QED
        BY <1>2, <4>1
    <3>3. QED
      BY <3>1, <3>2
  <2>2. PICK s \in regions : \A v \in regions : Touching(rows, v) <= Touching(rows, s)
    BY <2>1
  <2>3. Touching(rows, s) > 0
    BY <1>2, <1>3, <2>2
  <2>4. QED
    BY <2>2, <2>3
<1>4. worst = {} <=> \A r \in regions : Touching(rows, r) = 0
  <2>1. \A r \in worst : Touching(rows, r) # 0
    BY <1>2
  <2>2. QED
    BY <1>3, <2>1
<1>5. Pulse(rows, regions).conflictCount = Cardinality(DOMAIN rows)
      /\ Pulse(rows, regions).worst = worst
  BY DEF Pulse
<1> HIDE DEF regions
<1>6. worst = {} <=> \A r \in regions : RegionHealth(rows, r).ok = Cardinality(r)
  BY <1>2, <1>4
<1>7. ASSUME NEW r \in worst, NEW s \in regions
      PROVE  RegionHealth(rows, s).conflicts <= RegionHealth(rows, r).conflicts
  BY <1>2
<1> HIDE DEF worst
<1>8. /\ Pulse(rows, regions).conflictCount = Cardinality(DOMAIN rows)
      /\ Pulse(rows, regions).worst = {} <=> \A r \in regions :
             RegionHealth(rows, r).ok = Cardinality(r)
      /\ \A r \in Pulse(rows, regions).worst, s \in regions :
             RegionHealth(rows, s).conflicts <= RegionHealth(rows, r).conflicts
  BY <1>5, <1>6, <1>7
<1>9. QED
  BY <1>8 DEF regions

\* Both cells of a listed collision hold its PCI.
LEMMA PoolSees ==
  ASSUME NEW p \in Assigned, NEW rows, NEW cd \in PairsOf(p, Collision), NEW c \in cd
  PROVE  PoolStatus(p, rows, p[c]) = "collision"
<1>1. cd \in Linked /\ EqualPci(p, cd)
  BY DEF PairsOf
<1>2. PICK x, y \in Cells : x # y /\ cd = {x, y}
  BY <1>1, LinkedTwo
<1>3. {x, y} \in SUBSET Holders(p, p[c])
  BY <1>1, <1>2 DEF Holders, EqualPci
<1>4. IsFiniteSet(Holders(p, p[c]))
  BY WeightAssumption, FS_Subset DEF Holders
<1>5. Cardinality(Holders(p, p[c])) # 0 /\ Cardinality(Holders(p, p[c])) # 1
  <2>1. Holders(p, p[c]) # {} /\ ~\E z : Holders(p, p[c]) = {z}
    BY <1>2, <1>3
  <2>2. QED
    BY <1>4, <2>1, FS_EmptySet, FS_Singleton
<1>6. Cardinality(Holders(p, p[c])) > 1 /\ Holders(p, p[c]) # {}
  BY <1>3, <1>4, <1>5, FS_CardinalityType
<1>7. QED
  BY <1>6 DEF PoolStatus

\* What a page is, as facts about its pairs.
LEMMA PageRows ==
  ASSUME NEW p \in Assigned, NEW rows \in ListPages(p)
  PROVE  /\ DOMAIN rows \in SUBSET AllPairs(p)
         /\ DOMAIN rows \in SUBSET SUBSET Cells
         /\ IsFiniteSet(DOMAIN rows)
         /\ Cardinality(DOMAIN rows) = Cut(Cardinality(AllPairs(p)))
         /\ \A cd \in DOMAIN rows, out \in AllPairs(p) \ DOMAIN rows :
               Severity(AllRows(p)[cd]) <= Severity(AllRows(p)[out])
<1>1. DOMAIN AllRows(p) = AllPairs(p)
  BY OneLabelling DEF Labels
<1>2. PICK some \in SUBSET AllPairs(p) :
         /\ rows = [cd \in some |-> AllRows(p)[cd]]
         /\ Cardinality(some) = Cut(Cardinality(AllPairs(p)))
         /\ \A cd \in some, out \in AllPairs(p) \ some :
               Severity(AllRows(p)[cd]) <= Severity(AllRows(p)[out])
  BY <1>1 DEF ListPages
<1>3. DOMAIN rows = some
  BY <1>2
<1>4. AllPairs(p) \in SUBSET SUBSET Cells /\ IsFiniteSet(AllPairs(p))
  BY PairsFinite
<1>5. IsFiniteSet(some)
  BY <1>4, FS_Subset
<1>6. QED
  BY <1>2, <1>3, <1>4, <1>5

\* What is missing on a page did not fit: with it there, the rows that are no
\* less severe would be more than a page.
LEMMA PageKeepsWorst ==
  ASSUME NEW p \in Assigned, NEW rows \in ListPages(p), NEW k \in 1..3
  PROVE  LET worst == {cd \in DOMAIN AllRows(p) : Severity(AllRows(p)[cd]) <= k}
         IN  Cardinality(worst) <= PageSize => worst \subseteq DOMAIN rows
<1> DEFINE all == AllRows(p)
           worst == {cd \in DOMAIN all : Severity(all[cd]) <= k}
<1>1. DOMAIN all = AllPairs(p) /\ IsFiniteSet(AllPairs(p))
  BY OneLabelling, PairsFinite DEF Labels
<1>2. \A cd \in DOMAIN all : Severity(all[cd]) \in 1..3
  BY DEF Severity, Collision, Confusion
<1>3. SUFFICES ASSUME Cardinality(worst) <= PageSize,
                      NEW out \in worst, out \notin DOMAIN rows
               PROVE  FALSE
  OBVIOUS
<1>4. DOMAIN rows \in SUBSET (worst \ {out})
  <2>1. ASSUME NEW cd \in DOMAIN rows PROVE cd \in worst \ {out}
    <3>1. /\ cd \in DOMAIN all /\ out \in DOMAIN all
          /\ Severity(all[cd]) <= Severity(all[out])
      BY <1>1, <1>3, PageRows
    <3>2. Severity(all[out]) <= k
      BY <1>3
    <3> HIDE DEF all
    <3>3. Severity(all[cd]) <= k
      BY <1>2, <3>1, <3>2
    <3>4. QED
      BY <1>3, <3>1, <3>3
  <2>2. QED
    BY <2>1
<1>5. worst \in SUBSET AllPairs(p)
  BY <1>1
<1> HIDE DEF worst, all
<1>6. /\ IsFiniteSet(worst)
      /\ Cardinality(worst) \in Nat
      /\ Cardinality(worst) <= Cardinality(AllPairs(p))
  BY <1>1, <1>5, FS_Subset, FS_CardinalityType
<1>7. IsFiniteSet(worst \ {out}) /\ Cardinality(worst \ {out}) = Cardinality(worst) - 1
  BY <1>3, <1>6, FS_RemoveElement
<1>8. Cardinality(DOMAIN rows) <= Cardinality(worst) - 1
  BY <1>4, <1>7, FS_Subset
<1>9. Cardinality(DOMAIN rows) = Cut(Cardinality(AllPairs(p)))
  BY PageRows
<1>10. Cardinality(AllPairs(p)) \in Nat /\ PageSize \in Nat
  BY <1>1, FS_CardinalityType, ViewsAssumption
<1>11. QED
  BY <1>3, <1>6, <1>8, <1>9, <1>10 DEF Cut

\* So the dashboard's page agrees with what is in conflict, up to the cut.
LEMMA ThePageAgrees ==
  ASSUME NEW p \in Assigned, NEW rows \in ListPages(p)
  PROVE  PageAgreesOn(p, rows)
<1>1. DOMAIN rows \in SUBSET SUBSET Cells /\ IsFiniteSet(DOMAIN rows)
  BY PageRows
<1>2. \A k \in 1..3 :
         LET worst == {cd \in DOMAIN AllRows(p) : Severity(AllRows(p)[cd]) <= k}
         IN  Cardinality(worst) <= PageSize => worst \subseteq DOMAIN rows
  BY PageKeepsWorst
<1>3. ASSUME NEW c \in Cells
      PROVE  RegionHealth(rows, {c}).conflicts = 0 <=> RegionHealth(rows, {c}).ok = 1
  <2>1. Cardinality({c}) = 1
    BY FS_Singleton
  <2>2. RegionHealth(rows, {c}).conflicts = 0 <=> RegionHealth(rows, {c}).ok = Cardinality({c})
    BY <1>1, RegionCounts
  <2>3. QED
    BY <2>1, <2>2
<1>4. Cardinality(DOMAIN rows) = Cut(Kpis(p).conflicts)
  BY PageRows DEF Kpis
<1>5. ASSUME NEW half \in SUBSET Cells
      PROVE  LET regions == {half, Cells \ half} \ {{}}
                 pulse   == Pulse(rows, regions)
             IN  /\ pulse.conflictCount = Cut(Kpis(p).conflicts)
                 /\ pulse.worst = {} <=> \A r \in regions :
                         RegionHealth(rows, r).ok = Cardinality(r)
                 /\ \A r \in pulse.worst, s \in regions :
                       RegionHealth(rows, s).conflicts <= RegionHealth(rows, r).conflicts
  BY <1>1, <1>4, BannerNames
<1>6. \A cd \in PairsOf(p, Collision) : \A c \in cd : PoolStatus(p, rows, p[c]) = "collision"
  BY PoolSees
<1>7. QED
  BY <1>2, <1>3, <1>5, <1>6 DEF PageAgreesOn

\* Five places, five orders, one set of conflicts, of any assignment, and the
\* page of it that the dashboard has.
THEOREM TheViewsAgree == \A p \in Assigned : ViewsAgreeOn(p)
<1> SUFFICES ASSUME NEW p \in Assigned PROVE ViewsAgreeOn(p)
  OBVIOUS
<1> DEFINE all  == AllRows(p)
           kpis == Kpis(p)
<1>1. all = Labels(p) /\ GSquared(p) = all /\ ReportRows(p) = all /\ PlanEdges(p) = all
  BY OneLabelling
<1>2. DOMAIN all = AllPairs(p) /\ \A cd \in AllPairs(p) : all[cd] = Label(p, cd)
  BY <1>1 DEF Labels
<1> HIDE DEF all
<1>3. DOMAIN all \in SUBSET SUBSET Cells /\ IsFiniteSet(DOMAIN all)
  BY <1>2, PairsFinite
<1>4. RowsOf(all, Collision) = PairsOf(p, Collision)
  <2>1. PairsOf(p, Collision) \subseteq AllPairs(p)
    BY DEF AllPairs, Classes
  <2>2. \A cd \in AllPairs(p) : Label(p, cd) = 1 <=> cd \in PairsOf(p, 1)
    BY DEF Label
  <2>3. QED
    BY <1>2, <2>1, <2>2 DEF RowsOf, Collision
<1>5. /\ kpis.conflicts = Cardinality(DOMAIN all)
      /\ kpis.collisions = Cardinality(RowsOf(all, Collision))
  BY <1>2, <1>4 DEF Kpis
<1>6. ASSUME NEW c \in Cells
      PROVE  /\ CellReal(all, c) + CellShadow(all, c)
                   = Cardinality({cd \in DOMAIN all : c \in cd})
             /\ \A n \in Moduli :
                   CardMod(p, c, n)
                       = {d \in Cells \ {c} : /\ {c, d} \in PairsOf(p, n)
                                              /\ {c, d} \notin PairsOf(p, Collision)}
  BY <1>3, LineCounts, CardReads
<1>7. \A rows \in ListPages(p) : PageAgreesOn(p, rows)
  BY ThePageAgrees
<1>8. QED
  BY <1>1, <1>5, <1>6, <1>7 DEF ViewsAgreeOn, all

------------------------------------------------------------------------------
(***************************************************************************)
(* The proposal.                                                           *)
(***************************************************************************)

\* The least used PCI of some is one of them.
LEMMA LeastUsedIsOne ==
  ASSUME NEW p \in Assigned, NEW c \in Cells, NEW qs \in SUBSET Nat, qs # {}
  PROVE  LeastUsed(p, c, qs) \in qs
<1> DEFINE use(q) == UsedBy(p, c, q)
           uses == {use(q) : q \in qs}
<1>1. ASSUME NEW q \in qs PROVE use(q) \in Nat
  <2>1. IsFiniteSet({d \in Cells : SameLabel(c, d) /\ p[d] = q})
    BY WeightAssumption, FS_Subset
  <2>2. QED
    BY <2>1, FS_CardinalityType DEF UsedBy
<1> HIDE DEF use
<1>2. uses \in SUBSET Nat /\ uses # {}
  BY <1>1
<1>3. PICK u \in uses : \A v \in uses : u <= v
  BY <1>2, LeastNumber
<1>4. {q \in qs : use(q) = u} \in SUBSET Nat /\ {q \in qs : use(q) = u} # {}
  BY <1>3
<1>5. PICK q \in {q \in qs : use(q) = u} : \A r \in {r \in qs : use(r) = u} : q <= r
  BY <1>4, LeastNumber
<1>6. ASSUME NEW r \in qs PROVE use(q) < use(r) \/ (use(q) = use(r) /\ q <= r)
  <2>1. use(r) \in Nat /\ use(q) \in Nat /\ use(q) = u /\ u <= use(r)
    BY <1>1, <1>3, <1>5
  <2>2. CASE use(r) = u
    BY <1>5, <2>1, <2>2
  <2>3. CASE use(r) # u
    BY <2>1, <2>3
  <2>4. QED
    BY <2>2, <2>3
<1>7. QED
  BY <1>5, <1>6 DEF LeastUsed, use

\* A proposal is free of the PCIs beside the cell, and of their residues if some
\* such PCI was left.
LEMMA ProposalIsFree ==
  ASSUME NEW p \in Assigned, NEW c \in Cells, NEW q \in Proposal(p, c)
  PROVE  /\ \A d \in Beside(c) : p[d] # q
         /\ Clean3(p, c) # {} => \A d \in Beside(c) : q % 3 # p[d] % 3
<1>1. Unblocked(p, c) \in SUBSET Nat /\ Clean3(p, c) \in SUBSET Unblocked(p, c)
  BY GateAssumption DEF Unblocked, Clean3
<1>2. CASE Clean3(p, c) # {}
  <2>1. q \in Clean3(p, c)
    BY <1>1, <1>2, LeastUsedIsOne DEF Proposal
  <2>2. QED
    BY <2>1 DEF Clean3, Unblocked
<1>3. CASE Clean3(p, c) = {}
  <2>1. q \in Unblocked(p, c)
    BY <1>1, <1>3, LeastUsedIsOne DEF Proposal
  <2>2. QED
    BY <1>3, <2>1 DEF Unblocked
<1>4. QED
  BY <1>2, <1>3

\* Taking a proposed PCI leads to no collision, here or elsewhere, in any
\* network and of any assignment.
THEOREM TheProposalIsClear == \A p \in Assigned : ProposalIsClearOn(p)
<1> SUFFICES ASSUME NEW p \in Assigned, NEW c \in Cells, NEW q \in Proposal(p, c)
             PROVE  LET after == [p EXCEPT ![c] = q]
                    IN  /\ c \notin Colliding(after)
                        /\ Colliding(after) \subseteq Colliding(p)
                        /\ Clean3(p, c) # {} =>
                              \A d \in Cells \ {c} : {c, d} \notin PairsOf(after, 3)
  BY DEF ProposalIsClearOn
<1> DEFINE after == [p EXCEPT ![c] = q]
<1>1. after[c] = q /\ \A d \in Cells \ {c} : after[d] = p[d]
  BY DEF Assigned
<1> HIDE DEF after
<1>2. ASSUME NEW x \in Cells, NEW y \in CoChannel(x)
      PROVE  y \in Cells /\ y # x /\ y \in Beside(x) /\ x \in Beside(y)
  BY NetworkAssumption DEF CoChannel, Beside, SameFreq, SameLabel
<1>3. c \notin Colliding(after)
  <2>1. ASSUME NEW d \in CoChannel(c) PROVE after[c] # after[d]
    BY <1>1, <1>2, ProposalIsFree
  <2>2. QED
    BY <2>1 DEF Colliding
<1>4. ASSUME NEW x \in Colliding(after) PROVE x \in Colliding(p)
  <2>1. PICK y \in CoChannel(x) : after[x] = after[y]
    BY DEF Colliding
  <2>2. x \in Cells /\ x # c
    BY <1>3 DEF Colliding
  <2>3. y # c
    BY <1>1, <1>2, <2>1, <2>2, ProposalIsFree
  <2>4. p[x] = p[y]
    BY <1>1, <1>2, <2>1, <2>2, <2>3
  <2>5. QED
    BY <2>2, <2>4 DEF Colliding
<1>5. ASSUME Clean3(p, c) # {}, NEW d \in Cells \ {c} PROVE {c, d} \notin PairsOf(after, 3)
  <2>1. CASE {c, d} \in Linked
    <3>1. d \in Beside(c)
      BY <1>2, <2>1, LinkedPair
    <3>2. after[c] % 3 # after[d] % 3
      BY <1>1, <1>5, <3>1, ProposalIsFree
    <3>3. QED
      BY <3>2 DEF PairsOf, EqualMod, Collision, Confusion
  <2>2. CASE {c, d} \notin Linked
    BY <2>2 DEF PairsOf, Collision, Confusion
  <2>3. QED
    BY <2>1, <2>2
<1>6. QED
  BY <1>3, <1>4, <1>5 DEF after

------------------------------------------------------------------------------
(***************************************************************************)
(* The gate.                                                               *)
(***************************************************************************)

\* The pairs with handovers are of two linked cells if they share a carrier.
LEMMA PairTwo ==
  ASSUME NEW cd \in Pairs
  PROVE  /\ \E x, y \in Cells : x # y /\ cd = {x, y}
         /\ \A x, y \in cd : x # y => y \in RealNbrs[x] /\ cd = {x, y}
         /\ OneChannel(cd) /\ KnownChannel(cd) => cd \in Linked
<1>1. PICK x \in Cells : \E y \in RealNbrs[x] : cd = {x, y}
  BY DEF Pairs
<1>2. PICK y \in RealNbrs[x] : cd = {x, y}
  BY <1>1
<1>3. y \in Cells /\ y \in Nbrs[x] /\ x # y /\ x \in RealNbrs[y]
  BY NetworkAssumption
<1>4. ASSUME OneChannel(cd), KnownChannel(cd) PROVE cd \in Linked
  <2>1. y \in CoChannel(x)
    BY <1>2, <1>3, <1>4 DEF OneChannel, KnownChannel, CoChannel, SameFreq, SameLabel
  <2>2. QED
    BY <1>2, <1>3, <2>1, LinkedPair DEF Linked
<1>5. QED
  BY <1>2, <1>3, <1>4

\* The pairs with handovers are finitely many.
LEMMA SamplesFinite == Samples \in SUBSET Pairs /\ IsFiniteSet(Samples)
<1>1. Pairs \in SUBSET SUBSET Cells
  BY NetworkAssumption DEF Pairs
<1>2. Samples \in SUBSET SUBSET Cells /\ Samples \in SUBSET Pairs
  BY <1>1 DEF Samples
<1>3. QED
  BY <1>2, WeightAssumption, FS_SUBSET, FS_Subset

\* A sum over pairs is a number, and it is zero when every summand is.
LEMMA TotalCounted ==
  ASSUME NEW count, NEW pairs \in SUBSET Samples, \A cd \in pairs : count[cd] \in Nat
  PROVE  /\ Total(count, pairs) \in Nat
         /\ Total(count, pairs) = 0 <=> \A cd \in pairs : count[cd] = 0
<1> DEFINE part(cd) == {cd} \X (1..count[cd])
           At == [cd \in pairs |-> part(cd)]
           Parts == {part(cd) : cd \in pairs}
<1>1. IsFiniteSet(Parts)
  <2>1. IsFiniteSet(pairs)
    BY SamplesFinite, FS_Subset
  <2>2. At \in Surjection(pairs, Parts)
    BY DEF Surjection
  <2>3. QED
    BY <2>1, <2>2, FS_Surjection
<1>2. ASSUME NEW cd \in pairs PROVE IsFiniteSet(part(cd))
  <2>1. IsFiniteSet(1..count[cd])
    BY FS_Interval
  <2>2. IsFiniteSet({cd})
    BY FS_Singleton
  <2>3. QED
    BY <2>1, <2>2, FS_Product
<1>3. IsFiniteSet(UNION Parts)
  BY <1>1, <1>2, FS_UNION
<1>4. Total(count, pairs) = Cardinality(UNION Parts)
  BY DEF Total
<1>5. UNION Parts = {} <=> \A cd \in pairs : count[cd] = 0
  <2>1. ASSUME NEW cd \in pairs PROVE part(cd) = {} <=> count[cd] = 0
    <3>1. count[cd] # 0 => <<cd, 1>> \in part(cd)
      OBVIOUS
    <3>2. count[cd] = 0 => 1..count[cd] = {}
      OBVIOUS
    <3>3. 1..count[cd] = {} => part(cd) = {}
      OBVIOUS
    <3>4. QED
      BY <3>1, <3>2, <3>3
  <2> HIDE DEF part
  <2>2. UNION Parts = {} <=> \A cd \in pairs : part(cd) = {}
    OBVIOUS
  <2>3. QED
    BY <2>1, <2>2
<1> HIDE DEF Parts
<1>6. QED
  BY <1>3, <1>4, <1>5, FS_CardinalityType, FS_EmptySet

\* A pair in a conflict list is not clean for the gate.
LEMMA ListedIsNotClean ==
  ASSUME NEW p \in Assigned, NEW cd \in AllPairs(p) \cap Pairs
  PROVE  GateClass(p, cd) # "clean"
<1>1. PICK k \in Classes : cd \in PairsOf(p, k)
  BY DEF AllPairs
<1>2. cd \in Linked \cup Siblings
  BY <1>1 DEF PairsOf
<1>3. OneChannel(cd) /\ KnownChannel(cd)
  <2>1. CASE cd \in Linked
    BY <2>1, LinkedTwo DEF CoChannel, SameFreq, SameLabel, OneChannel, KnownChannel
  <2>2. CASE cd \in Siblings
    <3>1. PICK s \in Cells :
            cd \in {{v[1], v[2]} : v \in {v \in RealNbrs[s] \X RealNbrs[s] :
                                            v[1] # v[2] /\ SameFreq(v[1], v[2])}}
      BY <2>2 DEF Siblings
    <3>2. PICK x, y \in RealNbrs[s] : cd = {x, y} /\ SameFreq(x, y)
      BY <3>1
    <3>3. QED
      BY <3>2 DEF SameFreq, SameLabel, OneChannel, KnownChannel
  <2>3. QED
    BY <1>2, <2>1, <2>2
<1>4. k \in {1, 2, 3, 4, 6, 30} /\ 3 \in Moduli
  BY ViewsAssumption DEF Classes, Collision, Confusion
<1>5. CASE k \in {1, 2}
  <2>1. EqualPci(p, cd)
    BY <1>1, <1>5 DEF PairsOf, Collision, Confusion
  <2>2. QED
    BY <1>3, <2>1 DEF GateClass
<1>6. CASE k \in {3, 4, 6, 30}
  <2>1. \E n \in Moduli \cap {3, 4, 30} : cd \in PairsOf(p, n)
    <3>1. CASE k = 6
      BY <1>1, <1>4, <3>1, CoarserToo
    <3>2. CASE k # 6
      BY <1>1, <1>6, <3>2 DEF Classes, Collision, Confusion
    <3>3. QED
      BY <3>1, <3>2
  <2>2. Matches(p, cd) # {}
    BY <2>1 DEF Matches, PairsOf, Collision, Confusion
  <2>3. QED
    BY <1>3, <2>2 DEF GateClass
<1>7. QED
  BY <1>4, <1>5, <1>6

\* Where the gate sees a conflict one is listed, or two cells have no frequency.
LEMMA UncleanIsListed ==
  ASSUME NEW p \in Assigned, NEW cd \in Pairs, GateClass(p, cd) # "clean"
  PROVE  \/ AllPairs(p) # {}
         \/ \E c, d \in Cells : c # d /\ Freq[c] = NoFreq /\ Freq[d] = NoFreq
<1> DEFINE Unknown == \E c, d \in Cells : c # d /\ Freq[c] = NoFreq /\ Freq[d] = NoFreq
<1>1. PICK x, y \in Cells : x # y /\ cd = {x, y}
  BY PairTwo
<1>2. CASE EqualPci(p, cd) /\ OneChannel(cd) /\ KnownChannel(cd)
  <2>1. cd \in PairsOf(p, Collision)
    BY <1>2, PairTwo DEF PairsOf
  <2>2. QED
    BY <2>1 DEF AllPairs, Classes
<1>3. CASE Mistaken(p, cd)
  <2>1. PICK s, t \in cd : /\ s # t
                           /\ \E nb \in RealNbrs[s] \ {t} : SameLabel(nb, t) /\ p[nb] = p[t]
    BY <1>3 DEF Mistaken
  <2>2. PICK nb \in RealNbrs[s] \ {t} : SameLabel(nb, t) /\ p[nb] = p[t]
    BY <2>1
  <2>3. s \in Cells /\ t \in Cells /\ nb \in Cells /\ t \in RealNbrs[s]
    BY <1>1, <2>1, PairTwo, NetworkAssumption
  <2>4. CASE Freq[t] = NoFreq
    BY <2>2, <2>3, <2>4 DEF SameLabel
  <2>5. CASE Freq[t] # NoFreq
    <3>1. SameFreq(nb, t)
      BY <2>2, <2>5 DEF SameFreq, SameLabel
    <3>2. {nb, t} \in Siblings
      <4>1. <<nb, t>> \in {v \in RealNbrs[s] \X RealNbrs[s] :
                             v[1] # v[2] /\ SameFreq(v[1], v[2])}
        BY <2>2, <2>3, <3>1
      <4>2. {nb, t} \in {{v[1], v[2]} : v \in {v \in RealNbrs[s] \X RealNbrs[s] :
                                                 v[1] # v[2] /\ SameFreq(v[1], v[2])}}
        BY <4>1
      <4>3. QED
        BY <2>3, <4>2 DEF Siblings
    <3>3. {nb, t} \in PairsOf(p, Confusion)
      BY <2>2, <3>2 DEF PairsOf, EqualPci, Collision, Confusion
    <3>4. QED
      BY <3>3 DEF AllPairs, Classes
  <2>6. QED
    BY <2>4, <2>5
<1>4. CASE OneChannel(cd) /\ Matches(p, cd) # {}
  <2>1. PICK n \in Moduli \cap {3, 4, 30} : EqualMod(p, cd, n)
    BY <1>4 DEF Matches
  <2>2. CASE KnownChannel(cd)
    <3>1. cd \in PairsOf(p, n)
      BY <1>4, <2>1, <2>2, PairTwo DEF PairsOf, Collision, Confusion
    <3>2. QED
      BY <2>1, <3>1 DEF AllPairs, Classes
  <2>3. CASE ~KnownChannel(cd)
    BY <1>1, <1>4, <2>3 DEF KnownChannel, OneChannel, SameLabel
  <2>4. QED
    BY <2>2, <2>3
<1>5. QED
  BY <1>2, <1>3, <1>4 DEF GateClass

\* The ratio is not reached when none of the conflict pairs failed.
LEMMA FailuresAreNeeded ==
  ASSUME NEW p \in Assigned, RatioReached(p), RatioNum > 0,
         ConflictPool(p) # {}, Total(Failures, CleanPool(p)) # 0
  PROVE  \E cd \in ConflictPool(p) : Failures[cd] > 0
<1> DEFINE fx == Total(Failures, ConflictPool(p))
           ax == Total(Attempts, ConflictPool(p))
           fc == Total(Failures, CleanPool(p))
           ac == Total(Attempts, CleanPool(p))
<1>1. \A cd \in Samples : /\ Attempts[cd] \in Nat /\ Attempts[cd] > 0
                          /\ Failures[cd] \in Nat
  BY GateAssumption DEF Samples
<1>2. ConflictPool(p) \in SUBSET Samples /\ CleanPool(p) \in SUBSET Samples
  BY DEF ConflictPool, CleanPool
<1>3. fx \in Nat /\ ax \in Nat /\ fc \in Nat /\ ac \in Nat
  BY <1>1, <1>2, TotalCounted
<1>4. ax # 0
  BY <1>1, <1>2, TotalCounted
<1>5. fx = 0 <=> \A cd \in ConflictPool(p) : Failures[cd] = 0
  BY <1>1, <1>2, TotalCounted
<1>6. fx * ac * RatioDen >= RatioNum * fc * ax
  BY DEF RatioReached
<1> HIDE DEF fx, ax, fc, ac
<1>7. RatioNum \in Nat \ {0} /\ RatioDen \in Nat
  BY GateAssumption
<1>8. \A m, n \in Nat \ {0} : m * n \in Nat \ {0}
  OBVIOUS
<1>9. RatioNum * fc * ax \in Nat \ {0}
  <2>1. fc \in Nat \ {0} /\ ax \in Nat \ {0}
    BY <1>3, <1>4 DEF fc
  <2>2. RatioNum * fc \in Nat \ {0}
    BY <1>7, <1>8, <2>1
  <2>3. QED
    BY <1>8, <2>1, <2>2
<1>10. fx = 0 => fx * ac * RatioDen = 0
  BY <1>3, <1>7
<1>11. fx # 0
  BY <1>6, <1>9, <1>10
<1>12. QED
  BY <1>1, <1>2, <1>5, <1>11

\* No pair the gate counts as clean is in a conflict list, and it lets the rApp
\* ship only on failures between cells in conflict, whatever was measured.
THEOREM TheGateReads == \A p \in Assigned : GateReadsConflictsOn(p)
<1> SUFFICES ASSUME NEW p \in Assigned PROVE GateReadsConflictsOn(p)
  OBVIOUS
<1>1. CleanPool(p) \cap AllPairs(p) = {}
  <2>1. \A cd \in CleanPool(p) : cd \in Pairs /\ GateClass(p, cd) = "clean"
    BY SamplesFinite DEF CleanPool
  <2>2. QED
    BY <2>1, ListedIsNotClean
<1>2. ASSUME NEW pv \in PValues(p), Verdict(p, pv) = "SHIP"
      PROVE  /\ RatioNum > 0 => \E cd \in ConflictPool(p) : Failures[cd] > 0
             /\ \/ AllPairs(p) # {}
                \/ \E c, d \in Cells : c # d /\ Freq[c] = NoFreq /\ Freq[d] = NoFreq
  <2>1. /\ ~(Cardinality(ConflictPool(p)) < MinPoolPairs)
        /\ Total(Failures, CleanPool(p)) # 0
        /\ RatioReached(p)
    BY <1>2 DEF Verdict
  <2>2. ConflictPool(p) # {}
    <3>1. Cardinality({}) = 0
      BY FS_EmptySet
    <3>2. QED
      BY <2>1, <3>1, GateAssumption
  <2>3. PICK cd \in ConflictPool(p) : TRUE
    BY <2>2
  <2>4. cd \in Pairs /\ GateClass(p, cd) # "clean"
    BY <2>3, SamplesFinite DEF ConflictPool, CleanPool
  <2>5. QED
    BY <2>1, <2>2, <2>4, FailuresAreNeeded, UncleanIsListed
<1>3. QED
  BY <1>1, <1>2 DEF GateReadsConflictsOn
=============================================================================

---------------------------- MODULE ServerProofs ----------------------------
(***************************************************************************)
(* The promises of the parts of the server that stand beside the commit    *)
(* path, the optimizer and the feed: proofs about Server.  A behaviour     *)
(* takes one of the parts, so each is proved of the steps of its own       *)
(* module, and the lemmas of the first section carry it to the server.     *)
(* What is computed of an assignment is proved in ConflictProofs, of plans *)
(* and PM files here, of any of them; no step changes these inputs.        *)
(***************************************************************************)
EXTENDS Server, ConflictProofs, SequenceTheorems

\* The instances count as the library does.
LEMMA SameSizes ==
  ASSUME NEW U
  PROVE  /\ R!IsFiniteSet(U) <=> IsFiniteSet(U)
         /\ R!Cardinality(U) = Cardinality(U)
         /\ T!Cardinality(U) = Cardinality(U)
         /\ H!Cardinality(U) = Cardinality(U)
<1>1. R!IsFiniteSet(U) <=> IsFiniteSet(U)
  BY DEF R!IsFiniteSet, IsFiniteSet
<1>2. R!Cardinality(U) = Cardinality(U)
  BY DEF R!Cardinality, Cardinality
<1>3. T!Cardinality(U) = Cardinality(U)
  BY DEF T!Cardinality, Cardinality
<1>4. H!Cardinality(U) = Cardinality(U)
  BY DEF H!Cardinality, Cardinality
<1>5. QED
  BY <1>1, <1>2, <1>3, <1>4

\* A behaviour keeps to its part, and takes the steps of that part.
LEMMA ConfigSteps ==
  ASSUME [Next]_vars
  PROVE  part' = part /\ (part = "config" => [C!Next]_CVars)
  BY DEF Next, vars, InC, InR, InS, InT, InH, InP, Fixed, CVars, RVars, SVars,
         TVars, HVars, PVars

LEMMA RunsSteps ==
  ASSUME [Next]_vars
  PROVE  part' = part /\ (part = "runs" => [R!Next]_RVars)
  BY DEF Next, vars, InC, InR, InS, InT, InH, InP, Fixed, CVars, RVars, SVars,
         TVars, HVars, PVars

LEMMA SignInSteps ==
  ASSUME [Next]_vars
  PROVE  part' = part /\ (part = "sign-in" => [T!Next]_TVars)
  BY DEF Next, vars, InC, InR, InS, InT, InH, InP, Fixed, CVars, RVars, SVars,
         TVars, HVars, PVars

LEMMA HistorySteps ==
  ASSUME [Next]_vars
  PROVE  part' = part /\ (part = "history" => [H!Next]_HVars)
  BY DEF Next, vars, InC, InR, InS, InT, InH, InP, Fixed, CVars, RVars, SVars,
         TVars, HVars, PVars

LEMMA ProcessSteps ==
  ASSUME [Next]_vars
  PROVE  part' = part /\ (part = "process" => [P!Next]_PVars)
  BY DEF Next, vars, InC, InR, InS, InT, InH, InP, Fixed, CVars, RVars, SVars,
         TVars, HVars, PVars

------------------------------------------------------------------------------
(***************************************************************************)
(* The views of an assignment, which no step changes.                      *)
(***************************************************************************)
AssignedInv == part = "views" => pci \in Assigned

LEMMA AlwaysAssigned == Spec => []AssignedInv
<1>1. Init => AssignedInv
  BY ServerAssumption DEF Init, AssignedInv, Assigned
<1>2. AssignedInv /\ [Next]_vars => AssignedInv'
  BY DEF AssignedInv, Assigned, Next, vars, InC, InR, InS, InT, InH, InP, Fixed
<1>3. QED
  BY <1>1, <1>2, PTL DEF Spec

\* Spec => []ViewsAgree: graph, report, list, plan and dashboard name the same
\* conflicts and count them alike, of every assignment the server may be asked
\* about (conflict_graph.py, dashboard_compat.py, compare.py, services.py).
THEOREM ViewsAlwaysAgree == Spec => []ViewsAgree
<1>1. AssignedInv => ViewsAgree
  BY TheViewsAgree DEF AssignedInv, ViewsAgree
<1>2. QED
  BY <1>1, AlwaysAssigned, PTL

\* Spec => []ProposalIsClear: taking the PCI of _live_propose makes no collision.
THEOREM ProposalsAreClear == Spec => []ProposalIsClear
<1>1. AssignedInv => ProposalIsClear
  BY TheProposalIsClear DEF AssignedInv, ProposalIsClear
<1>2. QED
  BY <1>1, AlwaysAssigned, PTL

\* Spec => []GateReadsConflicts: compute_ho_correlation counts no pair in a
\* conflict list as clean and ships only on failures between cells in conflict.
THEOREM GateAlwaysReads == Spec => []GateReadsConflicts
<1>1. AssignedInv => GateReadsConflicts
  BY TheGateReads DEF AssignedInv, GateReadsConflicts
<1>2. QED
  BY <1>1, AlwaysAssigned, PTL

------------------------------------------------------------------------------
(***************************************************************************)
(* Networks from plans and from PM files, and their way through a plan.    *)
(***************************************************************************)

\* A set of positive numbers with a bound has a greatest one.
LEMMA GreatestNumber ==
  ASSUME NEW n \in Nat, NEW K \in SUBSET (1..n), K # {}
  PROVE  I!Max(K) \in K /\ \A k \in K : k <= I!Max(K)
<1> DEFINE Below == {n - k : k \in K}
<1>1. Below \in SUBSET Nat /\ Below # {}
  <2>1. \A k \in K : n - k \in Nat
    OBVIOUS
  <2>2. QED
    BY <2>1
<1>2. PICK x \in Below : \A y \in Below : x <= y
  BY <1>1, LeastNumber
<1>3. PICK k \in K : x = n - k
  BY <1>2
<1>4. ASSUME NEW j \in K PROVE k >= j
  <2>1. n - k <= n - j
    BY <1>2, <1>3
  <2>2. k \in Nat /\ j \in Nat
    OBVIOUS
  <2>3. QED
    BY <2>1, <2>2
<1>5. I!Max(K) \in K /\ \A j \in K : I!Max(K) >= j
  BY <1>4 DEF I!Max
<1>6. QED
  BY <1>5

\* A finite set is put in a sequence member by member.
LEMMA SetInSequence ==
  ASSUME NEW U, IsFiniteSet(U)
  PROVE  LET s == I!SetToSeq(U)
         IN  /\ DOMAIN s = 1..Cardinality(U) /\ Cardinality(U) \in Nat
             /\ \A n \in DOMAIN s : s[n] \in U
             /\ \A n, m \in DOMAIN s : s[n] = s[m] => n = m
             /\ \A u \in U : \E n \in DOMAIN s : s[n] = u
<1> DEFINE k == Cardinality(U)
           s == I!SetToSeq(U)
<1>1. k \in Nat /\ ExistsBijection(1..k, U)
  BY FS_CardinalityType
<1>2. PICK g \in [1..k -> U] : \A m, n \in 1..k : g[m] = g[n] => m = n
  BY <1>1 DEF ExistsBijection, Bijection, Injection, IsInjective
<1>3. I!Cardinality(U) = k
  BY DEF I!Cardinality, Cardinality
<1> HIDE DEF k
<1>4. s = CHOOSE f \in [1..k -> U] : I!IsInjective(f)
  BY <1>3 DEF I!SetToSeq
<1>5. s \in [1..k -> U] /\ \A m, n \in 1..k : s[m] = s[n] => m = n
  <2>1. I!IsInjective(g)
    BY <1>2 DEF I!IsInjective
  <2>2. s \in [1..k -> U] /\ I!IsInjective(s)
    BY <1>4, <2>1
  <2>3. QED
    BY <2>2 DEF I!IsInjective
<1> HIDE DEF s
<1>6. s \in Surjection(1..k, U)
  <2>1. s \in Injection(1..k, U)
    BY <1>5 DEF Injection, IsInjective
  <2>2. Cardinality(1..k) = k
    BY <1>1, FS_Interval
  <2>3. QED
    BY <2>1, <2>2, FS_Injection DEF k
<1>7. \A u \in U : \E n \in 1..k : s[n] = u
  BY <1>6 DEF Surjection
<1>8. DOMAIN s = 1..k /\ \A n \in DOMAIN s : s[n] \in U
  BY <1>5
<1>9. QED
  BY <1>1, <1>5, <1>7, <1>8 DEF s, k

\* A network that a plan can hold.
Portable(net) ==
    /\ IsFiniteSet(DOMAIN net.cells)
    /\ I!Sound(net)
    /\ \A v \in net.links : v = <<v[1], v[2]>>
    /\ \A i \in DOMAIN net.cells : /\ i # None
                                   /\ net.cells[i].tech \in {"lte", "nr"}
                                   /\ net.cells[i].dl # NaN
    /\ I!Located(net)

\* A cell as a plan reads it: its uplink channel is the downlink's.
Read(cell) ==
    [id |-> cell.id, tech |-> cell.tech, pci |-> cell.pci, at |-> cell.at,
     type |-> cell.type, dl |-> cell.dl,
     ul |-> IF cell.duplex = "FDD" THEN cell.dl ELSE None,
     duplex |-> cell.duplex]

\* The row of a cell is accepted, and is the cell again.
LEMMA RowReads ==
  ASSUME NEW net, Portable(net), NEW i \in DOMAIN net.cells
  PROVE  LET row == I!ExportRow(net, i)
         IN  /\ row.id = i /\ I!RowOK(row) /\ I!RowCell(row) = Read(net.cells[i])
             /\ row.pci # NaN /\ row.arfcn # NaN
<1> DEFINE cell == net.cells[i]
           row  == I!ExportRow(net, i)
<1>1. /\ i # None /\ cell.tech \in {"lte", "nr"}
      /\ cell.at # None /\ cell.dl # None /\ cell.dl # 0 /\ cell.dl # NaN
      /\ cell.id = i /\ I!ValidCell(cell)
  BY DEF Portable, I!Sound, I!Located
<1>2. /\ cell.pci \in 0..I!PciMax(cell.tech) /\ cell.type \in Types
      /\ cell.tech = "lte" => cell.duplex \in {"FDD", "TDD"}
      /\ cell.tech = "nr" => cell.duplex = None
  BY <1>1 DEF I!ValidCell
<1>3. None # "" /\ None # "FDD" /\ None # "TDD" /\ None \notin Nat /\ NaN \notin Nat
  BY ServerAssumption DEF I!InputAssumption
<1>4. /\ row.id = i /\ row.tech = cell.tech /\ row.pci = cell.pci /\ row.at = cell.at
      /\ row.type = cell.type /\ row.arfcn = cell.dl
      /\ row.duplex = IF cell.duplex = None THEN "" ELSE cell.duplex
  BY DEF I!ExportRow
<1> HIDE DEF cell, row
<1>5. I!RowDuplex(row) = cell.duplex
  BY <1>1, <1>2, <1>3, <1>4 DEF I!RowDuplex
<1>6. I!RowCell(row) = Read(cell)
  BY <1>1, <1>2, <1>4, <1>5 DEF I!RowCell, I!CellType, I!Channel, Read
<1>7. I!ValidCell(Read(cell))
  BY <1>1, <1>2, <1>3 DEF I!ValidCell, Read
<1>8. cell.pci # None /\ cell.pci # NaN
  <2>1. I!PciMax(cell.tech) \in Nat
    BY DEF I!PciMax
  <2>2. cell.pci \in Nat
    BY <1>2, <2>1
  <2>3. QED
    BY <1>3, <2>2
<1>9. cell.tech = "lte" => row.duplex \in {"", "FDD", "TDD"}
  BY <1>2, <1>3, <1>4
<1>10. I!RowOK(row)
  BY <1>1, <1>2, <1>4, <1>6, <1>7, <1>8, <1>9 DEF I!RowOK, I!RowPlaced
<1>11. QED
  BY <1>1, <1>4, <1>6, <1>8, <1>10 DEF cell, row

\* A network exported and read back: the same cells, with the uplink channels
\* of a plan, and the same links, in both directions.
LEMMA ExportReads ==
  ASSUME NEW net, Portable(net)
  PROVE  /\ ~I!PlanRaises(I!Export(net))
         /\ I!Accepted(I!Export(net)) = DOMAIN I!Export(net)
         /\ I!ParsePlan(I!Export(net)) =
               [cells |-> [i \in DOMAIN net.cells |-> Read(net.cells[i])],
                links |-> I!BothWays(net.links)]
<1> DEFINE ids   == DOMAIN net.cells
           s     == I!SetToSeq(ids)
           sheet == I!Export(net)
<1>1. /\ DOMAIN s = 1..Cardinality(ids) /\ Cardinality(ids) \in Nat
      /\ \A n \in DOMAIN s : s[n] \in ids
      /\ \A n, m \in DOMAIN s : s[n] = s[m] => n = m
      /\ \A i \in ids : \E n \in DOMAIN s : s[n] = i
  BY SetInSequence DEF Portable
<1>2. DOMAIN sheet = DOMAIN s /\ \A n \in DOMAIN s : sheet[n] = I!ExportRow(net, s[n])
  BY DEF I!Export
<1> HIDE DEF s, sheet
<1>3. \A n \in DOMAIN s : /\ sheet[n].id = s[n] /\ I!RowOK(sheet[n])
                          /\ I!RowCell(sheet[n]) = Read(net.cells[s[n]])
                          /\ sheet[n].pci # NaN /\ sheet[n].arfcn # NaN
  BY <1>1, <1>2, RowReads
<1>4. I!Accepted(sheet) = DOMAIN s
  <2>1. ASSUME NEW n \in DOMAIN s, NEW m \in 1..(n - 1) PROVE sheet[m].id # sheet[n].id
    <3>1. m \in DOMAIN s /\ m # n
      BY <1>1
    <3>2. QED
      BY <1>1, <1>3, <3>1
  <2>2. QED
    BY <1>2, <1>3, <2>1 DEF I!Accepted, I!FirstOfId
<1>5. I!RowIds(sheet) = ids
  BY <1>1, <1>3, <1>4 DEF I!RowIds
<1>6. I!PlanCells(sheet) = [i \in ids |-> Read(net.cells[i])]
  <2>1. ASSUME NEW i \in ids
        PROVE  I!RowCell(sheet[CHOOSE n \in I!Accepted(sheet) : sheet[n].id = i])
                  = Read(net.cells[i])
    <3> DEFINE n == CHOOSE n \in I!Accepted(sheet) : sheet[n].id = i
    <3>1. n \in DOMAIN s /\ sheet[n].id = i
      BY <1>1, <1>3, <1>4
    <3>2. QED
      BY <1>3, <3>1
  <2>2. QED
    BY <1>5, <2>1 DEF I!PlanCells
<1>7. I!Named(sheet) = net.links
  <2>1. ASSUME NEW n \in DOMAIN s
        PROVE  sheet[n].nbrs = {j \in ids : <<s[n], j>> \in net.links}
    <3>1. I!ExportRow(net, s[n]).nbrs = {j \in ids : <<s[n], j>> \in net.links}
      BY DEF I!ExportRow
    <3>2. QED
      BY <1>2, <3>1
  <2>2. ASSUME NEW v \in I!Named(sheet) PROVE v \in net.links
    <3>1. PICK n \in DOMAIN s :
             v \in {<<sheet[n].id, t>> : t \in sheet[n].nbrs \cap I!RowIds(sheet)}
      BY <1>4 DEF I!Named
    <3>2. QED
      BY <1>3, <2>1, <3>1
  <2>3. ASSUME NEW v \in net.links PROVE v \in I!Named(sheet)
    <3>1. v = <<v[1], v[2]>> /\ v[1] \in ids /\ v[2] \in ids
      BY DEF Portable, I!Sound
    <3>2. PICK n \in DOMAIN s : s[n] = v[1]
      BY <1>1, <3>1
    <3>3. v[2] \in sheet[n].nbrs \cap I!RowIds(sheet) /\ sheet[n].id = v[1]
      BY <1>3, <1>5, <2>1, <3>1, <3>2
    <3>4. v \in {<<sheet[n].id, t>> : t \in sheet[n].nbrs \cap I!RowIds(sheet)}
      BY <3>1, <3>3
    <3>5. QED
      BY <1>4, <3>4 DEF I!Named
  <2>4. QED
    BY <2>2, <2>3
<1>8. I!ParsePlan(sheet) = [cells |-> [i \in ids |-> Read(net.cells[i])],
                            links |-> I!BothWays(net.links)]
  BY <1>6, <1>7 DEF I!ParsePlan
<1>9. ~I!PlanRaises(sheet)
  BY <1>2, <1>3 DEF I!PlanRaises
<1>10. QED
  BY <1>2, <1>4, <1>8, <1>9 DEF sheet

\* Links taken both ways are of two members each, and go both ways.
LEMMA BothWaysLinks ==
  ASSUME NEW pairs, NEW ids, \A v \in pairs : v = <<v[1], v[2]>> /\ v[1] \in ids /\ v[2] \in ids
  PROVE  /\ \A v \in I!BothWays(pairs) : /\ v = <<v[1], v[2]>> /\ v[1] # v[2]
                                         /\ v[1] \in ids /\ v[2] \in ids
                                         /\ <<v[2], v[1]>> \in I!BothWays(pairs)
         /\ \A i, j : i # j => (<<i, j>> \in I!BothWays(pairs)
                                   <=> <<i, j>> \in pairs \/ <<j, i>> \in pairs)
<1>1. ASSUME NEW v \in I!BothWays(pairs)
      PROVE  /\ v = <<v[1], v[2]>> /\ v[1] # v[2] /\ v[1] \in ids /\ v[2] \in ids
             /\ v \in pairs \/ <<v[2], v[1]>> \in pairs
  <2>1. v[1] # v[2] /\ (v \in pairs \/ v \in {<<w[2], w[1]>> : w \in pairs})
    BY DEF I!BothWays
  <2>2. CASE v \in pairs
    BY <2>1, <2>2
  <2>3. CASE v \in {<<w[2], w[1]>> : w \in pairs}
    <3>1. PICK w \in pairs : v = <<w[2], w[1]>>
      BY <2>3
    <3>2. v[1] = w[2] /\ v[2] = w[1] /\ w = <<w[1], w[2]>>
      BY <3>1
    <3>3. QED
      BY <2>1, <3>1, <3>2
  <2>4. QED
    BY <2>1, <2>2, <2>3
<1>2. ASSUME NEW i, NEW j, i # j, <<i, j>> \in pairs \/ <<j, i>> \in pairs
      PROVE  <<i, j>> \in I!BothWays(pairs)
  <2>1. <<i, j>>[1] = i /\ <<i, j>>[2] = j /\ <<j, i>>[1] = j /\ <<j, i>>[2] = i
    OBVIOUS
  <2>2. <<i, j>> \in pairs \cup {<<w[2], w[1]>> : w \in pairs}
    BY <1>2, <2>1
  <2>3. QED
    BY <1>2, <2>1, <2>2 DEF I!BothWays
<1>3. ASSUME NEW v \in I!BothWays(pairs) PROVE <<v[2], v[1]>> \in I!BothWays(pairs)
  BY <1>1, <1>2
<1>4. ASSUME NEW i, NEW j, <<i, j>> \in I!BothWays(pairs)
      PROVE  <<i, j>> \in pairs \/ <<j, i>> \in pairs
  BY <1>1, <1>4
<1>5. QED
  BY <1>1, <1>2, <1>3, <1>4

\* The members of a sequence named by a set of its positions are finitely many.
LEMMA NamedFinite ==
  ASSUME NEW s, I!IsSequence(s), NEW K \in SUBSET DOMAIN s, NEW name, DOMAIN name = K
  PROVE  IsFiniteSet({name[n] : n \in K})
<1> DEFINE names == {name[n] : n \in K}
           g == [n \in K |-> name[n]]
<1>1. IsFiniteSet(DOMAIN s)
  <2>1. Len(s) \in Nat /\ DOMAIN s = 1..Len(s)
    BY DEF I!IsSequence
  <2>2. QED
    BY <2>1, FS_Interval
<1>2. IsFiniteSet(K)
  BY <1>1, FS_Subset
<1>3. g \in Surjection(K, names)
  BY DEF Surjection
<1>4. QED
  BY <1>2, <1>3, FS_Surjection

\* What parse_plan reads from a sheet can be put in a sheet, and is read from
\* it unchanged.
LEMMA PlanIsPortable ==
  ASSUME NEW sheet, I!IsSequence(sheet), ~I!PlanRaises(sheet)
  PROVE  LET net == I!ParsePlan(sheet)
         IN  /\ Portable(net)
             /\ \A i \in DOMAIN net.cells : Read(net.cells[i]) = net.cells[i]
             /\ \A v \in net.links : <<v[2], v[1]>> \in net.links
             /\ I!BothWays(net.links) = net.links
<1> DEFINE net == I!ParsePlan(sheet)
           ids == I!RowIds(sheet)
           row(i) == sheet[CHOOSE n \in I!Accepted(sheet) : sheet[n].id = i]
<1>1. /\ net.cells = I!PlanCells(sheet) /\ DOMAIN net.cells = ids
      /\ net.links = I!BothWays(I!Named(sheet))
  BY DEF I!ParsePlan, I!PlanCells
<1>2. ASSUME NEW i \in ids
      PROVE  /\ row(i).id = i /\ I!RowOK(row(i)) /\ net.cells[i] = I!RowCell(row(i))
             /\ row(i).arfcn # NaN
  <2>1. \E n \in I!Accepted(sheet) : sheet[n].id = i
    BY DEF I!RowIds
  <2>2. row(i).id = i /\ I!RowOK(row(i)) /\ row(i).arfcn # NaN
    <3>1. \A n \in I!Accepted(sheet) : I!RowOK(sheet[n]) /\ sheet[n].arfcn # NaN
      BY DEF I!Accepted, I!RowOK, I!PlanRaises
    <3>2. QED
      BY <2>1, <3>1
  <2>3. QED
    BY <1>1, <2>2 DEF I!PlanCells
<1>3. IsFiniteSet(ids)
  <2> DEFINE name == [n \in I!Accepted(sheet) |-> sheet[n].id]
  <2>1. I!Accepted(sheet) \in SUBSET DOMAIN sheet
    BY DEF I!Accepted
  <2>2. IsFiniteSet({name[n] : n \in I!Accepted(sheet)})
    BY <2>1, NamedFinite
  <2>3. {name[n] : n \in I!Accepted(sheet)} = ids
    BY DEF I!RowIds
  <2>4. QED
    BY <2>2, <2>3
<1>4. ASSUME NEW v \in I!Named(sheet) PROVE v = <<v[1], v[2]>> /\ v[1] \in ids /\ v[2] \in ids
  <2>1. PICK n \in I!Accepted(sheet) : v \in {<<sheet[n].id, t>> : t \in sheet[n].nbrs \cap ids}
    BY DEF I!Named
  <2>2. PICK t \in ids : v = <<sheet[n].id, t>>
    BY <2>1
  <2>3. sheet[n].id \in ids
    BY DEF I!RowIds
  <2>4. QED
    BY <2>2, <2>3
<1> HIDE DEF net, ids, row
<1>5. /\ \A v \in net.links : /\ v = <<v[1], v[2]>> /\ v[1] # v[2]
                              /\ v[1] \in ids /\ v[2] \in ids
                              /\ <<v[2], v[1]>> \in net.links
      /\ \A i, j : i # j => (<<i, j>> \in net.links
                                <=> <<i, j>> \in I!Named(sheet) \/ <<j, i>> \in I!Named(sheet))
  BY <1>1, <1>4, BothWaysLinks
<1>6. ASSUME NEW i \in ids
      PROVE  /\ net.cells[i].id = i /\ I!ValidCell(net.cells[i])
             /\ i # None /\ net.cells[i].tech \in {"lte", "nr"}
             /\ net.cells[i].at # None /\ net.cells[i].dl \notin {None, 0, NaN}
             /\ Read(net.cells[i]) = net.cells[i]
  <2> DEFINE r == row(i)
  <2>1. r.id = i /\ I!RowOK(r) /\ net.cells[i] = I!RowCell(r) /\ r.arfcn # NaN
    BY <1>2
  <2>2. 1 # None /\ 1 # NaN
    <3>1. None \notin Nat /\ NaN \notin Nat
      BY ServerAssumption DEF I!InputAssumption
    <3>2. QED
      BY <3>1
  <2> HIDE DEF r
  <2>3. Read(I!RowCell(r)) = I!RowCell(r)
    BY DEF Read, I!RowCell
  <2>4. /\ I!RowCell(r).id = r.id /\ I!RowCell(r).tech = r.tech
        /\ I!RowCell(r).at = r.at /\ I!RowCell(r).dl = I!Channel(r.arfcn)
    BY DEF I!RowCell
  <2>5. I!Channel(r.arfcn) \notin {None, 0, NaN}
    BY <2>1, <2>2 DEF I!Channel
  <2>6. QED
    BY <2>1, <2>3, <2>4, <2>5 DEF I!RowOK, I!RowPlaced
<1>7. Portable(net)
  BY <1>1, <1>3, <1>5, <1>6 DEF Portable, I!Sound, I!Located
<1>8. I!BothWays(net.links) = net.links
  <2>1. \A v \in net.links : v = <<v[1], v[2]>> /\ v[1] \in ids /\ v[2] \in ids
    BY <1>5
  <2>2. /\ \A v \in I!BothWays(net.links) : v = <<v[1], v[2]>> /\ v[1] # v[2]
        /\ \A i, j : i # j => (<<i, j>> \in I!BothWays(net.links)
                                  <=> <<i, j>> \in net.links \/ <<j, i>> \in net.links)
    BY <2>1, BothWaysLinks
  <2>3. ASSUME NEW v \in net.links PROVE v \in I!BothWays(net.links)
    <3>1. v = <<v[1], v[2]>> /\ v[1] # v[2] /\ <<v[1], v[2]>> \in net.links
      BY <1>5
    <3>2. QED
      BY <2>2, <3>1
  <2>4. ASSUME NEW v \in I!BothWays(net.links) PROVE v \in net.links
    <3>1. v = <<v[1], v[2]>> /\ v[1] # v[2]
      BY <2>2
    <3>2. <<v[1], v[2]>> \in net.links \/ <<v[2], v[1]>> \in net.links
      BY <2>2, <3>1
    <3>3. <<v[2], v[1]>> \in net.links => <<v[1], v[2]>> \in net.links
      <4>1. \A w \in net.links : <<w[2], w[1]>> \in net.links
        BY <1>5
      <4>2. <<v[2], v[1]>>[2] = v[1] /\ <<v[2], v[1]>>[1] = v[2]
        OBVIOUS
      <4>3. QED
        BY <4>1, <4>2
    <3>4. QED
      BY <3>1, <3>2, <3>3
  <2>5. QED
    BY <2>3, <2>4
<1>9. QED
  BY <1>1, <1>5, <1>6, <1>7, <1>8 DEF net

\* A plan that is read keeps its network, whatever its rows are.
LEMMA PlansAgree ==
  ASSUME NEW sheet, I!IsSequence(sheet)
  PROVE  I!PlanAgrees(sheet)
<1> SUFFICES ASSUME ~I!PlanRaises(sheet) PROVE I!PlanAgrees(sheet)
  BY DEF I!PlanAgrees
<1> DEFINE net == I!ParsePlan(sheet)
<1>1. net = [cells |-> net.cells, links |-> net.links] /\ net.cells = I!PlanCells(sheet)
  BY DEF I!ParsePlan
<1>2. net.cells = [i \in DOMAIN net.cells |-> net.cells[i]]
  BY <1>1 DEF I!PlanCells
<1>3. /\ Portable(net)
      /\ \A i \in DOMAIN net.cells : Read(net.cells[i]) = net.cells[i]
      /\ \A v \in net.links : <<v[2], v[1]>> \in net.links
      /\ I!BothWays(net.links) = net.links
  BY PlanIsPortable
<1> HIDE DEF net
<1>4. /\ ~I!PlanRaises(I!Export(net))
      /\ I!Accepted(I!Export(net)) = DOMAIN I!Export(net)
      /\ I!ParsePlan(I!Export(net)) =
            [cells |-> [i \in DOMAIN net.cells |-> Read(net.cells[i])],
             links |-> I!BothWays(net.links)]
  BY <1>3, ExportReads
<1>5. [i \in DOMAIN net.cells |-> Read(net.cells[i])] = net.cells
  BY <1>2, <1>3
<1>6. I!ParsePlan(I!Export(net)) = net
  BY <1>1, <1>3, <1>4, <1>5
<1>7. QED
  BY <1>3, <1>4, <1>6 DEF I!PlanAgrees, Portable, net

\* The objects of a file that are cells are finitely many, and one that stands
\* for an id is valid and has that id.
LEMMA NodeCells ==
  ASSUME NEW pm, I!IsSequence(pm.results),
         \A k \in DOMAIN pm.results : /\ pm.results[k].id # None
                                        /\ pm.results[k].tech \in {"lte", "nr"}
  PROVE  /\ IsFiniteSet(I!NodeIds(pm))
         /\ \A i \in I!NodeIds(pm) : LET cell == I!NodeCell(pm, i)
                                       IN  /\ i # None /\ cell.id = i
                                           /\ I!ValidCell(cell)
                                           /\ cell.tech \in {"lte", "nr"}
                                           /\ \E k \in I!Made(pm) :
                                                 cell = I!ReadingCell(pm, k)
<1>1. I!Made(pm) \in SUBSET DOMAIN pm.results
  BY DEF I!Made, I!Objects
<1>2. IsFiniteSet(I!NodeIds(pm))
  <2> DEFINE name == [n \in I!Made(pm) |-> pm.results[n].id]
  <2>1. IsFiniteSet({name[n] : n \in I!Made(pm)})
    BY <1>1, NamedFinite
  <2>2. {name[n] : n \in I!Made(pm)} = I!NodeIds(pm)
    BY DEF I!NodeIds
  <2>3. QED
    BY <2>1, <2>2
<1>3. ASSUME NEW i \in I!NodeIds(pm)
      PROVE  LET cell == I!NodeCell(pm, i)
             IN  /\ i # None /\ cell.id = i /\ I!ValidCell(cell) /\ cell.tech \in {"lte", "nr"}
                 /\ \E k \in I!Made(pm) : cell = I!ReadingCell(pm, k)
  <2> DEFINE K == {n \in I!Made(pm) : pm.results[n].id = i}
             n == I!Max(K)
  <2>1. K # {}
    BY DEF I!NodeIds
  <2>2. Len(pm.results) \in Nat /\ K \in SUBSET (1..Len(pm.results))
    BY <1>1 DEF I!IsSequence
  <2>3. n \in K
    BY <2>1, <2>2, GreatestNumber
  <2>4. I!NodeCell(pm, i) = I!ReadingCell(pm, n)
    BY DEF I!NodeCell
  <2> HIDE DEF n
  <2>5. n \in DOMAIN pm.results /\ pm.results[n].id = i /\ I!ValidCell(I!ReadingCell(pm, n))
    BY <1>1, <2>3 DEF I!Made
  <2>6. /\ I!ReadingCell(pm, n).id = pm.results[n].id
        /\ I!ReadingCell(pm, n).tech = pm.results[n].tech
    BY DEF I!ReadingCell
  <2>7. n \in I!Made(pm)
    BY <2>3
  <2>8. QED
    BY <2>4, <2>5, <2>6, <2>7
<1>4. QED
  BY <1>2, <1>3

PmIds(pms) == DOMAIN I!PmCells(pms)

\* The cells of a network of PM files.
LEMMA PmCellsRead ==
  ASSUME NEW pms, I!FilesRead(pms)
  PROVE  /\ IsFiniteSet(PmIds(pms))
         /\ \A i : i \in PmIds(pms) <=> \E n \in DOMAIN pms : i \in I!NodeIds(pms[n])
         /\ \A i \in PmIds(pms) :
               /\ \E n \in DOMAIN pms : /\ i \in I!NodeIds(pms[n])
                                          /\ I!PmCells(pms)[i] = I!NodeCell(pms[n], i)
               /\ i # None /\ I!PmCells(pms)[i].id = i
               /\ I!ValidCell(I!PmCells(pms)[i])
               /\ I!PmCells(pms)[i].tech \in {"lte", "nr"}
<1> DEFINE Parts == {I!NodeIds(pms[n]) : n \in DOMAIN pms}
<1>1. PmIds(pms) = UNION Parts
  BY DEF PmIds, I!PmCells
<1>2. \A n \in DOMAIN pms :
         /\ I!IsSequence(pms[n].results)
         /\ \A k \in DOMAIN pms[n].results : /\ pms[n].results[k].id # None
                                               /\ pms[n].results[k].tech \in {"lte", "nr"}
  BY DEF I!FilesRead
<1>3. IsFiniteSet(PmIds(pms))
  <2> DEFINE name == [n \in DOMAIN pms |-> I!NodeIds(pms[n])]
  <2>1. IsFiniteSet({name[n] : n \in DOMAIN pms})
    BY NamedFinite DEF I!FilesRead
  <2>2. {name[n] : n \in DOMAIN pms} = Parts
    OBVIOUS
  <2>3. \A x \in Parts : IsFiniteSet(x)
    BY <1>2, NodeCells
  <2>4. QED
    BY <1>1, <2>1, <2>2, <2>3, FS_UNION
<1>4. ASSUME NEW i \in PmIds(pms)
      PROVE  \E n \in DOMAIN pms : /\ i \in I!NodeIds(pms[n])
                                     /\ I!PmCells(pms)[i] = I!NodeCell(pms[n], i)
  <2> DEFINE K == {n \in DOMAIN pms : i \in I!NodeIds(pms[n])}
  <2>1. K # {}
    BY <1>1
  <2>2. Len(pms) \in Nat /\ K \in SUBSET (1..Len(pms))
    BY DEF I!FilesRead, I!IsSequence
  <2>3. I!Max(K) \in K
    BY <2>1, <2>2, GreatestNumber
  <2>4. I!PmCells(pms)[i] = I!NodeCell(pms[I!Max(K)], i)
    BY <1>1 DEF I!PmCells
  <2>5. QED
    BY <2>3, <2>4
<1>5. ASSUME NEW i \in PmIds(pms)
      PROVE  /\ i # None /\ I!PmCells(pms)[i].id = i
             /\ I!ValidCell(I!PmCells(pms)[i])
             /\ I!PmCells(pms)[i].tech \in {"lte", "nr"}
  BY <1>2, <1>4, NodeCells
<1>6. QED
  BY <1>1, <1>3, <1>4, <1>5

\* When the building does not raise, every channel is a number or missing.
LEMMA PmChannels ==
  ASSUME NEW pms, I!FilesRead(pms), ~I!Raises(pms), NEW i \in PmIds(pms)
  PROVE  I!PmCells(pms)[i].dl # NaN
<1>1. PICK n \in DOMAIN pms : /\ i \in I!NodeIds(pms[n])
                               /\ I!PmCells(pms)[i] = I!NodeCell(pms[n], i)
  BY PmCellsRead
<1>2. /\ I!IsSequence(pms[n].results)
      /\ \A k \in DOMAIN pms[n].results : /\ pms[n].results[k].id # None
                                            /\ pms[n].results[k].tech \in {"lte", "nr"}
  BY DEF I!FilesRead
<1>3. PICK k \in I!Made(pms[n]) : I!NodeCell(pms[n], i) = I!ReadingCell(pms[n], k)
  BY <1>1, <1>2, NodeCells
<1>4. k \in I!Objects(pms[n]) /\ I!Counter(pms[n], k, "pci") # None
  BY DEF I!Made
<1>5. I!Counter(pms[n], k, "arfcn") # NaN
  BY <1>4 DEF I!Raises
<1>6. I!ReadingCell(pms[n], k).dl = I!Counter(pms[n], k, "arfcn")
  BY DEF I!ReadingCell
<1>7. QED
  BY <1>1, <1>3, <1>5, <1>6

\* A pair of linked cells is of one node, or of a node and one that it names.
LEMMA NodePair ==
  ASSUME NEW h, NEW x
  PROVE  x \in I!NodePairs(h)
            <=> \E n, m \in DOMAIN h : /\ x \in I!NodeIds(h[n]) \X I!NodeIds(h[m])
                                       /\ n = m \/ h[m].node \in h[n].peers
<1> DEFINE Facing == {v \in (DOMAIN h) \X (DOMAIN h) : v[1] = v[2] \/ h[v[2]].node \in h[v[1]].peers}
<1>1. x \in I!NodePairs(h)
         <=> \E v \in Facing : x \in I!NodeIds(h[v[1]]) \X I!NodeIds(h[v[2]])
  BY DEF I!NodePairs
<1>2. \A n, m : <<n, m>> \in Facing
         <=> n \in DOMAIN h /\ m \in DOMAIN h /\ (n = m \/ h[m].node \in h[n].peers)
  OBVIOUS
<1>3. \A v \in Facing : v = <<v[1], v[2]>>
  OBVIOUS
<1> HIDE DEF Facing
<1>4. ASSUME NEW n, NEW m, <<n, m>> \in Facing, x \in I!NodeIds(h[n]) \X I!NodeIds(h[m])
      PROVE  x \in I!NodePairs(h)
  <2>1. <<n, m>>[1] = n /\ <<n, m>>[2] = m
    OBVIOUS
  <2>2. QED
    BY <1>1, <1>4, <2>1
<1>5. ASSUME x \in I!NodePairs(h)
      PROVE  \E n, m \in DOMAIN h : /\ x \in I!NodeIds(h[n]) \X I!NodeIds(h[m])
                                    /\ n = m \/ h[m].node \in h[n].peers
  <2>1. PICK v \in Facing : x \in I!NodeIds(h[v[1]]) \X I!NodeIds(h[v[2]])
    BY <1>1, <1>5
  <2>2. /\ v[1] \in DOMAIN h /\ v[2] \in DOMAIN h
        /\ v[1] = v[2] \/ h[v[2]].node \in h[v[1]].peers
    BY <1>2, <1>3
  <2>3. QED
    BY <2>1, <2>2
<1>6. QED
  BY <1>2, <1>4, <1>5

\* The links of a network of PM files are of two of its cells each.
LEMMA PmLinksRead ==
  ASSUME NEW pms, I!FilesRead(pms), ~I!Raises(pms), NEW v \in I!PmLinks(pms)
  PROVE  v = <<v[1], v[2]>> /\ v[1] # v[2] /\ v[1] \in PmIds(pms) /\ v[2] \in PmIds(pms)
<1>1. CASE I!Counters(pms) # {}
  <2>1. PICK w \in I!Between(pms) : v = <<w.src, w.tgt>>
    BY <1>1 DEF I!PmLinks
  <2>2. w.src \in PmIds(pms) /\ w.tgt \in PmIds(pms)
    BY DEF I!Between, PmIds
  <2>3. w.src # w.tgt
    BY DEF I!Raises
  <2>4. QED
    BY <2>1, <2>2, <2>3
<1>2. CASE I!Counters(pms) = {}
  <2>1. I!PmLinks(pms) = I!BothWays(I!NodePairs(pms))
    BY <1>2 DEF I!PmLinks
  <2>2. ASSUME NEW w \in I!NodePairs(pms)
        PROVE  w = <<w[1], w[2]>> /\ w[1] \in PmIds(pms) /\ w[2] \in PmIds(pms)
    <3>1. PICK n, m \in DOMAIN pms : w \in I!NodeIds(pms[n]) \X I!NodeIds(pms[m])
      BY NodePair
    <3>2. QED
      BY <3>1, PmCellsRead
  <2>3. QED
    BY <2>1, <2>2, BothWaysLinks
<1>3. QED
  BY <1>1, <1>2

------------------------------------------------------------------------------
\* Of every measured pair some counters stay.
LEMMA PairCounted ==
  ASSUME NEW pms, I!FilesRead(pms), NEW n \in DOMAIN pms, NEW w \in pms[n].measured
  PROVE  \E v \in I!Counters(pms) : <<v.src, v.tgt>> = <<w.src, w.tgt>>
<1> DEFINE K == {m \in DOMAIN pms :
                    \E v \in pms[m].measured : <<v.src, v.tgt>> = <<w.src, w.tgt>>}
<1>1. Len(pms) \in Nat /\ DOMAIN pms = 1..Len(pms) /\ K \in SUBSET (1..Len(pms))
  BY DEF I!FilesRead, I!IsSequence
<1>2. K # {}
  OBVIOUS
<1>3. PICK m \in K : \A k \in K : k <= m
  BY <1>1, <1>2, GreatestNumber
<1>4. PICK v \in pms[m].measured : <<v.src, v.tgt>> = <<w.src, w.tgt>>
  BY <1>3
<1>5. ASSUME NEW k \in (m + 1)..Len(pms), NEW u \in pms[k].measured
      PROVE  <<u.src, u.tgt>> # <<v.src, v.tgt>>
  <2>1. k \in DOMAIN pms /\ ~(k <= m)
    BY <1>1
  <2>2. k \notin K
    BY <1>3, <2>1
  <2>3. QED
    BY <1>4, <2>1, <2>2
<1>6. v \in I!Counters(pms)
  BY <1>1, <1>4, <1>5 DEF I!Counters
<1>7. QED
  BY <1>4, <1>6

\* What is counted is measured.
LEMMA CountedMeasured ==
  ASSUME NEW pms, NEW v \in I!Counters(pms)
  PROVE  \E n \in DOMAIN pms : v \in pms[n].measured
  BY DEF I!Counters

\* Networks of the same files have the same cells by id, and the same links.
SameFiles(f, g) == /\ \A n \in DOMAIN f : \E m \in DOMAIN g : f[n] = g[m]
                   /\ \A m \in DOMAIN g : \E n \in DOMAIN f : f[n] = g[m]

LEMMA LinksOfFiles ==
  ASSUME NEW f, NEW g, I!FilesRead(f), I!FilesRead(g), SameFiles(f, g)
  PROVE  PmIds(f) = PmIds(g) /\ I!PmLinks(f) = I!PmLinks(g)
<1>1. PmIds(f) = PmIds(g)
  <2>1. \A i : i \in PmIds(f) <=> i \in PmIds(g)
    BY PmCellsRead DEF SameFiles
  <2>2. PmIds(f) = UNION {I!NodeIds(f[n]) : n \in DOMAIN f}
        /\ PmIds(g) = UNION {I!NodeIds(g[n]) : n \in DOMAIN g}
    BY DEF PmIds, I!PmCells
  <2>3. QED
    BY <2>1, <2>2
<1>2. ASSUME NEW v \in I!Counters(f)
      PROVE  \E w \in I!Counters(g) : <<w.src, w.tgt>> = <<v.src, v.tgt>>
  BY CountedMeasured, PairCounted DEF SameFiles
<1>3. ASSUME NEW v \in I!Counters(g)
      PROVE  \E w \in I!Counters(f) : <<w.src, w.tgt>> = <<v.src, v.tgt>>
  BY CountedMeasured, PairCounted DEF SameFiles
<1>4. CASE I!Counters(f) # {}
  <2>1. I!Counters(g) # {}
    BY <1>2, <1>4
  <2>2. {<<v.src, v.tgt>> : v \in I!Between(f)} = {<<v.src, v.tgt>> : v \in I!Between(g)}
    <3>1. ASSUME NEW v \in I!Between(f)
          PROVE  \E w \in I!Between(g) : <<v.src, v.tgt>> = <<w.src, w.tgt>>
      BY <1>1, <1>2 DEF I!Between, PmIds
    <3>2. ASSUME NEW v \in I!Between(g)
          PROVE  \E w \in I!Between(f) : <<v.src, v.tgt>> = <<w.src, w.tgt>>
      BY <1>1, <1>3 DEF I!Between, PmIds
    <3>3. QED
      BY <3>1, <3>2
  <2>3. QED
    BY <1>1, <1>4, <2>1, <2>2 DEF I!PmLinks
<1>5. CASE I!Counters(f) = {}
  <2>1. I!Counters(g) = {}
    BY <1>3, <1>5
  <2>2. ASSUME NEW h, NEW k, I!FilesRead(h), I!FilesRead(k), SameFiles(h, k),
               NEW x \in I!NodePairs(h)
        PROVE  x \in I!NodePairs(k)
    <3>1. PICK n \in DOMAIN h, m \in DOMAIN h :
            /\ x \in I!NodeIds(h[n]) \X I!NodeIds(h[m])
            /\ n = m \/ h[m].node \in h[n].peers
      BY NodePair
    <3>2. PICK i \in DOMAIN k, j \in DOMAIN k : h[n] = k[i] /\ h[m] = k[j] /\ (n = m => i = j)
      BY <2>2 DEF SameFiles
    <3>3. /\ x \in I!NodeIds(k[i]) \X I!NodeIds(k[j])
          /\ i = j \/ k[j].node \in k[i].peers
      BY <3>1, <3>2
    <3>4. QED
      BY <3>3, NodePair
  <2>3. SameFiles(g, f)
    BY DEF SameFiles
  <2>4. I!NodePairs(f) = I!NodePairs(g)
    BY <2>2, <2>3
  <2>5. I!PmLinks(f) = I!BothWays(I!NodePairs(f)) /\ I!PmLinks(g) = I!BothWays(I!NodePairs(g))
    BY <1>5, <2>1 DEF I!PmLinks
  <2>6. QED
    BY <1>1, <2>4, <2>5
<1>6. QED
  BY <1>1, <1>4, <1>5

\* The files from last to first are the same files.
LEMMA ReversedFiles ==
  ASSUME NEW pms, I!FilesRead(pms)
  PROVE  I!FilesRead(I!Reverse(pms)) /\ SameFiles(pms, I!Reverse(pms))
<1> DEFINE n == Len(pms)
           back == I!Reverse(pms)
           Members == {pms[k] : k \in DOMAIN pms}
<1>1. n \in Nat /\ DOMAIN pms = 1..n
  BY DEF I!FilesRead, I!IsSequence
<1>2. back = [k \in 1..n |-> pms[(n - k) + 1]]
  BY DEF I!Reverse
<1> HIDE DEF n, back
<1>3. \A k \in 1..n : (n - k) + 1 \in 1..n /\ (n - ((n - k) + 1)) + 1 = k
  BY <1>1
<1>4. back \in Seq(Members)
  <2>1. \A k \in 1..n : pms[(n - k) + 1] \in Members
    BY <1>1, <1>3
  <2> HIDE DEF Members
  <2>2. QED
    BY <1>1, <1>2, <2>1
<1>5. Len(back) = n /\ DOMAIN back = 1..n
  BY <1>1, <1>2, <1>4, LenProperties
<1>6. \A k \in 1..n : back[k] = pms[(n - k) + 1] /\ pms[k] = back[(n - k) + 1]
  BY <1>2, <1>3
<1>7. SameFiles(pms, back)
  BY <1>1, <1>3, <1>5, <1>6 DEF SameFiles
<1>8. I!FilesRead(back)
  <2>1. I!IsSequence(back)
    BY <1>1, <1>5 DEF I!IsSequence
  <2>2. ASSUME NEW k \in DOMAIN back
        PROVE  /\ I!IsSequence(back[k].results)
               /\ \A l \in DOMAIN back[k].results :
                     /\ back[k].results[l].id # None
                     /\ back[k].results[l].tech \in {"lte", "nr"}
    <3>1. PICK j \in DOMAIN pms : back[k] = pms[j]
      BY <1>1, <1>3, <1>5, <1>6
    <3>2. QED
      BY <3>1 DEF I!FilesRead
  <2>3. QED
    BY <2>1, <2>2 DEF I!FilesRead
<1>9. QED
  BY <1>7, <1>8 DEF back

\* While no two nodes give one cell, the order of the files does not matter.
LEMMA OrderIsFree ==
  ASSUME NEW pms, I!FilesRead(pms), I!OfOneNode(pms)
  PROVE  I!BuildFromPm(I!Reverse(pms)) = I!BuildFromPm(pms)
<1> DEFINE back == I!Reverse(pms)
<1>1. I!FilesRead(back) /\ SameFiles(pms, back)
  BY ReversedFiles
<1> HIDE DEF back
<1>2. PmIds(back) = PmIds(pms) /\ I!PmLinks(back) = I!PmLinks(pms)
  BY <1>1, LinksOfFiles
<1>3. ASSUME NEW i \in PmIds(pms) PROVE I!PmCells(back)[i] = I!PmCells(pms)[i]
  <2>1. PICK n \in DOMAIN pms : /\ i \in I!NodeIds(pms[n])
                                  /\ I!PmCells(pms)[i] = I!NodeCell(pms[n], i)
    BY PmCellsRead
  <2>2. PICK m \in DOMAIN back : /\ i \in I!NodeIds(back[m])
                                 /\ I!PmCells(back)[i] = I!NodeCell(back[m], i)
    BY <1>1, <1>2, PmCellsRead
  <2>3. PICK k \in DOMAIN pms : pms[k] = back[m]
    BY <1>1 DEF SameFiles
  <2>4. k = n
    BY <2>1, <2>2, <2>3 DEF I!OfOneNode
  <2>5. QED
    BY <2>1, <2>2, <2>3, <2>4
<1>4. I!PmCells(back) = I!PmCells(pms)
  <2>1. /\ I!PmCells(back) = [i \in PmIds(back) |-> I!PmCells(back)[i]]
        /\ I!PmCells(pms) = [i \in PmIds(pms) |-> I!PmCells(pms)[i]]
    BY DEF PmIds, I!PmCells
  <2>2. QED
    BY <1>2, <1>3, <2>1
<1>5. QED
  BY <1>2, <1>4 DEF I!BuildFromPm, back

\* A sample of a network, exported and read back, has the same neighbourhoods.
LEMMA SampleReads ==
  ASSUME NEW net, Portable(net)
  PROVE  LET back == I!ParsePlan(I!Export(net))
         IN  /\ ~I!PlanRaises(I!Export(net))
             /\ I!Adjacency(back) = I!Adjacency(net)
             /\ \A i \in DOMAIN net.cells : /\ back.cells[i].pci = net.cells[i].pci
                                            /\ back.cells[i].dl = net.cells[i].dl
<1> DEFINE back == I!ParsePlan(I!Export(net))
           ids  == DOMAIN net.cells
<1>1. back = [cells |-> [i \in ids |-> Read(net.cells[i])], links |-> I!BothWays(net.links)]
  BY ExportReads
<1>2. /\ DOMAIN back.cells = ids /\ back.links = I!BothWays(net.links)
      /\ \A i \in ids : back.cells[i] = Read(net.cells[i])
  BY <1>1
<1> HIDE DEF back
<1>3. ASSUME NEW i \in ids
      PROVE  /\ back.cells[i].tech = net.cells[i].tech
             /\ back.cells[i].pci = net.cells[i].pci
             /\ back.cells[i].dl = net.cells[i].dl
  <2> DEFINE cell == net.cells[i]
  <2>1. back.cells[i] = Read(cell)
    BY <1>2
  <2> HIDE DEF cell
  <2>2. Read(cell).tech = cell.tech /\ Read(cell).pci = cell.pci /\ Read(cell).dl = cell.dl
    BY DEF Read
  <2>3. QED
    BY <2>1, <2>2 DEF cell
<1>4. \A v \in net.links : v = <<v[1], v[2]>> /\ v[1] # v[2] /\ v[1] \in ids /\ v[2] \in ids
  BY DEF Portable, I!Sound
<1>5. /\ \A v \in back.links : v[1] # v[2]
      /\ \A i, j : i # j => (<<i, j>> \in back.links
                                <=> <<i, j>> \in net.links \/ <<j, i>> \in net.links)
  <2>1. \A v \in net.links : v = <<v[1], v[2]>> /\ v[1] \in ids /\ v[2] \in ids
    BY <1>4
  <2>2. /\ \A v \in I!BothWays(net.links) : v[1] # v[2]
        /\ \A i, j : i # j => (<<i, j>> \in I!BothWays(net.links)
                                  <=> <<i, j>> \in net.links \/ <<j, i>> \in net.links)
    BY <2>1, BothWaysLinks
  <2>3. QED
    BY <1>2, <2>2
<1>6. ASSUME NEW i \in ids, NEW j \in ids
      PROVE  <<i, j>> \in back.links \/ <<j, i>> \in back.links
                <=> <<i, j>> \in net.links \/ <<j, i>> \in net.links
  <2>1. CASE i # j
    BY <1>5, <2>1
  <2>2. CASE i = j
    <3>1. <<i, j>>[1] = i /\ <<i, j>>[2] = j
      OBVIOUS
    <3>2. <<i, j>> \notin back.links /\ <<i, j>> \notin net.links
      BY <1>4, <1>5, <2>2, <3>1
    <3>3. QED
      BY <2>2, <3>2
  <2>3. QED
    BY <2>1, <2>2
<1>7. ASSUME NEW i \in ids PROVE I!NeighborsOf(back, i) = I!NeighborsOf(net, i)
  BY <1>2, <1>3, <1>6 DEF I!NeighborsOf
<1>8. I!Adjacency(back) = I!Adjacency(net)
  BY <1>2, <1>7 DEF I!Adjacency
<1>9. ~I!PlanRaises(I!Export(net))
  BY ExportReads
<1>10. QED
  BY <1>3, <1>8, <1>9 DEF back

\* A network of PM files is sound, and so are its samples in a plan.
LEMMA PmFeedsAgree ==
  ASSUME NEW pms, I!FilesRead(pms)
  PROVE  I!PmAgrees(pms)
<1> SUFFICES ASSUME ~I!Raises(pms) PROVE I!PmAgrees(pms)
  BY DEF I!PmAgrees
<1> DEFINE net == I!BuildFromPm(pms)
           ids == DOMAIN net.cells
<1>1. net.cells = I!PmCells(pms) /\ net.links = I!PmLinks(pms) /\ ids = PmIds(pms)
  BY DEF I!BuildFromPm, PmIds
<1> HIDE DEF net
<1>2. \A v \in net.links : v = <<v[1], v[2]>> /\ v[1] # v[2] /\ v[1] \in ids /\ v[2] \in ids
  BY <1>1, PmLinksRead
<1>3. /\ IsFiniteSet(ids)
      /\ \A i \in ids : /\ i # None /\ net.cells[i].id = i /\ I!ValidCell(net.cells[i])
                        /\ net.cells[i].tech \in {"lte", "nr"} /\ net.cells[i].dl # NaN
  BY <1>1, PmCellsRead, PmChannels
<1>4. I!Sound(net)
  BY <1>2, <1>3 DEF I!Sound
<1>5. ASSUME NEW keep \in SUBSET ids, I!Located(I!Sample(net, keep))
      PROVE  LET sample == I!Sample(net, keep)
                 back   == I!ParsePlan(I!Export(sample))
             IN  /\ ~I!PlanRaises(I!Export(sample))
                 /\ I!Adjacency(back) = I!Adjacency(sample)
                 /\ \A i \in keep : back.cells[i].pci = sample.cells[i].pci
                                    /\ back.cells[i].dl = sample.cells[i].dl
  <2> DEFINE sample == I!Sample(net, keep)
  <2>1. /\ DOMAIN sample.cells = keep
        /\ \A i \in keep : sample.cells[i] = net.cells[i]
        /\ sample.links = {v \in net.links : v[1] \in keep /\ v[2] \in keep}
    BY DEF I!Sample
  <2>2. I!Located(sample)
    BY <1>5
  <2> HIDE DEF sample
  <2>3. IsFiniteSet(keep)
    BY <1>3, FS_Subset
  <2>4. Portable(sample)
    BY <1>2, <1>3, <2>1, <2>2, <2>3 DEF Portable, I!Sound
  <2>5. QED
    BY <2>1, <2>4, SampleReads DEF sample
<1>6. I!OfOneNode(pms) => I!BuildFromPm(I!Reverse(pms)) = net
  BY OrderIsFree DEF net
<1>7. QED
  BY <1>4, <1>5, <1>6 DEF I!PmAgrees, net

\* Spec => []ImportsAgree: a plan keeps its network through parse_plan and
\* _export_rows, and the network of build_network_from_pm is sound, does not
\* depend on the order of the nodes and survives the way through a plan.
THEOREM ImportsAlwaysAgree == Spec => []ImportsAgree
<1> DEFINE Inv == /\ part = "plan" => input \in Plans
                  /\ part = "pm" => input \in PmFeeds
<1>1. Init => Inv
  BY DEF Init
<1>2. Inv /\ [Next]_vars => Inv'
  BY DEF Next, vars, InC, InR, InS, InT, InH, InP, Fixed
<1>3. Inv => ImportsAgree
  BY ServerAssumption, PlansAgree, PmFeedsAgree DEF ImportsAgree
<1>4. QED
  BY <1>1, <1>2, <1>3, PTL DEF Spec

------------------------------------------------------------------------------
(***************************************************************************)
(* The configuration.                                                      *)
(***************************************************************************)
\* A PUT runs only in a process that is up, and brings a configuration.
ConfigPutInv == put # "idle" => up /\ new \in Cfgs

\* What is assigned so far at each point of a PUT: nothing until the file has
\* been replaced, then the config, then the writer, and the cache at the end.
ConfigDiskInv ==
    up => IF put = "close" THEN disk = new
          ELSE disk = config /\ (put \in {"writer", "cache"} => config = new)

ConfigWriterInv == up /\ put \notin {"close", "writer"} => writer = C!WriterOf(config)

ConfigCacheInv ==
    up /\ put \in {"idle", "dump", "replace"} =>
        cache.cfg = config /\ (cache.own <=> config # Bad)

\* The application never goes back to having no config, so the secrets of a
\* payload are in use only if it came up without one.
ConfigSecretsInv ==
    up => /\ config = Bad => booted = Bad
          /\ secrets = "payload" => booted = Bad /\ config # Bad

ConfigInv == C!TypeOK /\ ConfigPutInv /\ ConfigDiskInv /\ ConfigWriterInv /\ ConfigCacheInv /\ ConfigSecretsInv

------------------------------------------------------------------------------
\* What is made for a configuration has its type.
LEMMA ConfigMadeTypes ==
  ASSUME NEW c \in Cfgs \cup {Bad}, NEW s \in BOOLEAN
  PROVE  /\ C!WriterOf(c) \in [cfg : Cfgs \cup {Bad}, open : BOOLEAN]
         /\ C!CacheOf(c, s) \in [cfg : Cfgs \cup {Bad}, store : BOOLEAN, own : BOOLEAN]
  BY DEF C!WriterOf, C!CacheOf

LEMMA ConfigInitInv == C!Init => ConfigInv
<1> SUFFICES ASSUME C!Init PROVE ConfigInv
  OBVIOUS
<1>1. C!TypeOK
  BY ConfigMadeTypes DEF C!Init, C!TypeOK
<1>2. ConfigPutInv /\ ConfigDiskInv /\ ConfigWriterInv /\ ConfigCacheInv /\ ConfigSecretsInv
  BY DEF C!Init, ConfigPutInv, ConfigDiskInv, ConfigWriterInv, ConfigCacheInv, ConfigSecretsInv
<1>3. QED
  BY <1>1, <1>2 DEF ConfigInv

\* Each step keeps the types.
LEMMA ConfigTypePreserved ==
  ASSUME ConfigInv, [C!Next]_CVars
  PROVE  C!TypeOK'
<1> USE DEF ConfigInv, C!TypeOK, ConfigPutInv, C!live
<1>1. CASE C!Boot
  <2>1. (disk \in Kafka) \in BOOLEAN
    OBVIOUS
  <2>2. /\ C!WriterOf(disk) \in [cfg : Cfgs \cup {Bad}, open : BOOLEAN]
        /\ C!CacheOf(disk, disk \in Kafka)
              \in [cfg : Cfgs \cup {Bad}, store : BOOLEAN, own : BOOLEAN]
    BY <2>1, ConfigMadeTypes
  <2>3. QED
    BY <1>1, <2>2 DEF C!Boot
<1>2. CASE C!Arrive \/ C!Down
  BY <1>2 DEF C!Arrive, C!Down
<1>3. ASSUME NEW c \in Cfgs, C!PutOpen(c) PROVE C!TypeOK'
  BY <1>3 DEF C!PutOpen
<1>4. CASE C!PutDump \/ C!PutReplace \/ C!PutFails
  BY <1>4 DEF C!PutDump, C!PutReplace, C!PutFails
<1>5. CASE C!PutConfig
  BY <1>5 DEF C!PutConfig, C!Carried
<1>6. CASE C!PutWriter
  BY <1>6, ConfigMadeTypes DEF C!PutWriter
<1>7. CASE C!PutCache
  BY <1>7, ConfigMadeTypes DEF C!PutCache
<1>8. CASE UNCHANGED CVars
  BY <1>8 DEF CVars
<1>9. QED
  BY <1>1, <1>2, <1>3, <1>4, <1>5, <1>6, <1>7, <1>8 DEF C!Next

\* Each step keeps the order in which a PUT replaces the parts.
LEMMA ConfigPartsPreserved ==
  ASSUME ConfigInv, [C!Next]_CVars
  PROVE  ConfigPutInv' /\ ConfigDiskInv' /\ ConfigWriterInv' /\ ConfigCacheInv' /\ ConfigSecretsInv'
<1> DEFINE Parts == ConfigPutInv /\ ConfigDiskInv /\ ConfigWriterInv /\ ConfigCacheInv /\ ConfigSecretsInv
<1> SUFFICES Parts'
  OBVIOUS
<1> USE DEF ConfigInv, C!TypeOK, ConfigPutInv, ConfigDiskInv, ConfigWriterInv, ConfigCacheInv, ConfigSecretsInv,
            C!WriterOf, C!CacheOf, C!live
<1>1. CASE C!Boot
  <2>1. put = "idle" /\ put' = "idle"
    BY <1>1 DEF C!Boot
  <2>2. QED
    BY <1>1, <2>1 DEF C!Boot
<1>2. CASE C!Arrive
  BY <1>2 DEF C!Arrive
<1>3. CASE C!Down
  BY <1>3 DEF C!Down
<1>4. ASSUME NEW c \in Cfgs, C!PutOpen(c) PROVE Parts'
  BY <1>4 DEF C!PutOpen
<1>5. CASE C!PutDump
  BY <1>5 DEF C!PutDump
<1>6. CASE C!PutReplace
  BY <1>6 DEF C!PutReplace
<1>7. CASE C!PutFails
  BY <1>7 DEF C!PutFails
<1>8. CASE C!PutConfig
  <2>1. new # Bad
    BY <1>8, ServerAssumption DEF C!PutConfig, C!Carried, C!ConfigAssumption
  <2>2. QED
    BY <1>8, <2>1 DEF C!PutConfig, C!Carried
<1>9. CASE C!PutWriter
  BY <1>9 DEF C!PutWriter
<1>10. CASE C!PutCache
  BY <1>10 DEF C!PutCache
<1>11. CASE UNCHANGED CVars
  BY <1>11 DEF CVars
<1>12. QED
  BY <1>1, <1>2, <1>3, <1>4, <1>5, <1>6, <1>7, <1>8, <1>9, <1>10, <1>11
     DEF C!Next

LEMMA ConfigCoherence == ConfigInv => C!ConfigCoherent
  BY DEF ConfigInv, C!TypeOK, ConfigDiskInv, ConfigWriterInv, ConfigCacheInv,
         ConfigSecretsInv, C!ConfigCoherent

\* Between two PUTs the running application uses the configuration of the file
\* with a cache and an open writer made for it, whatever failed, crashed or was
\* restarted before, for any set of configurations.
THEOREM ConfigIsCoherent == Spec => []ConfigCoherent
<1> DEFINE Inv == part = "config" => ConfigInv
<1>1. Init => Inv
  BY ConfigInitInv DEF Init
<1>2. Inv /\ [Next]_vars => Inv'
  BY ConfigSteps, ConfigTypePreserved, ConfigPartsPreserved DEF ConfigInv
<1>3. Inv => ConfigCoherent
  BY ConfigCoherence DEF ConfigCoherent
<1>4. QED
  BY <1>1, <1>2, <1>3, PTL DEF Spec

------------------------------------------------------------------------------
(***************************************************************************)
(* Runs and their files.                                                   *)
(***************************************************************************)
IsWhole(f) == f.kind \in {"pending", "failed"}

\* What is on disk of the run that is under way, or of the id of the failed
\* record that is being written.
RunsStageInv ==
    /\ stage \in {"run", "dump", "replace"} =>
          files[run] = R!Absent /\ done[run] = made
    /\ stage = "run" => temps[run] = R!Absent
    /\ stage = "dump" => temps[run] = R!Cut
    /\ stage = "replace" => temps[run] = R!Whole("pending", made)
    /\ stage = "failing" => /\ done[run] = 0
                            /\ temps[run] = R!Absent
                            /\ files[run] \in {R!Absent, R!Cut}

\* What is on disk of any run: a whole record is the only one, a pending one has
\* the changes that were made, a failed one is of no run that made any, and what
\* made some without being cut short has its record in place.
RunsDiskInv ==
    \A r \in Runs :
        /\ temps[r].kind # "failed"
        /\ IsWhole(temps[r]) => temps[r].changes = done[r] /\ files[r] = R!Absent
        /\ files[r].kind = "pending" => files[r].changes = done[r]
        /\ files[r].kind = "failed" => files[r].changes = 0 /\ done[r] = 0
        /\ done[r] > 0 /\ r # run /\ r \notin broken => files[r].kind = "pending"

RunsInv == R!TypeOK /\ RunsStageInv /\ RunsDiskInv

------------------------------------------------------------------------------
LEMMA RunsInitInv == R!Init => RunsInv
  BY ServerAssumption
     DEF R!RunsAssumption, R!Init, RunsInv, R!TypeOK, RunsStageInv, RunsDiskInv,
         R!Absent, IsWhole

LEMMA RunsTypePreserved ==
  ASSUME R!TypeOK, [R!Next]_RVars
  PROVE  R!TypeOK'
<1> USE ServerAssumption DEF R!RunsAssumption, R!TypeOK, R!Absent, R!Cut, R!Whole
<1>1. ASSUME NEW r \in Runs, R!Begin(r) PROVE R!TypeOK'
  BY <1>1 DEF R!Begin
<1>2. CASE R!Change
  BY <1>2 DEF R!Change
<1>3. CASE R!OpenTemp
  BY <1>3 DEF R!OpenTemp
<1>4. CASE R!Dump
  BY <1>4 DEF R!Dump
<1>5. CASE R!Replace
  BY <1>5 DEF R!Replace
<1>6. CASE R!Raise
  <2>1. PICK r \in R!Fresh, left \in {R!Absent, temps[run]},
             begun \in {R!Absent, R!Cut} :
          /\ run' = r
          /\ temps' = [temps EXCEPT ![run] = left]
          /\ files' = [files EXCEPT ![r] = begun]
    BY <1>6 DEF R!Raise
  <2>2. r \in Runs /\ run \in Runs /\ stage' = "failing"
        /\ broken' = broken \cup {run} /\ UNCHANGED <<made, done>>
    BY <1>6, <2>1 DEF R!Raise, R!Fresh
  <2>3. QED
    BY <2>1, <2>2
<1>7. CASE R!RecordFailure
  BY <1>7 DEF R!RecordFailure
<1>8. CASE R!FailAgain \/ R!Crash
  BY <1>8 DEF R!FailAgain, R!Crash
<1>9. CASE UNCHANGED RVars
  BY <1>9 DEF RVars
<1>10. QED
  BY <1>1, <1>2, <1>3, <1>4, <1>5, <1>6, <1>7, <1>8, <1>9 DEF R!Next

\* Steps of a run touch its own files only, and in the order of the stages.
LEMMA RunsFilesPreserved ==
  ASSUME RunsInv, [R!Next]_RVars
  PROVE  RunsStageInv' /\ RunsDiskInv'
<1> USE ServerAssumption DEF R!RunsAssumption, RunsInv, R!TypeOK, RunsStageInv, RunsDiskInv, IsWhole,
            R!Absent, R!Cut, R!Whole
<1>1. ASSUME NEW r \in Runs, R!Begin(r) PROVE RunsStageInv' /\ RunsDiskInv'
  BY <1>1 DEF R!Begin, R!Fresh
<1>2. CASE R!Change
  BY <1>2 DEF R!Change
<1>3. CASE R!OpenTemp
  BY <1>3 DEF R!OpenTemp
<1>4. CASE R!Dump
  BY <1>4 DEF R!Dump
<1>5. CASE R!Replace
  BY <1>5 DEF R!Replace
<1>6. CASE R!Raise
  <2>1. PICK r \in R!Fresh \ {run}, left \in {R!Absent, temps[run]},
             begun \in {R!Absent, R!Cut} :
          /\ run' = r
          /\ temps' = [temps EXCEPT ![run] = left]
          /\ files' = [files EXCEPT ![r] = begun]
    BY <1>6 DEF R!Raise
  <2>2. /\ r \in Runs /\ r # run /\ run \in Runs
        /\ done[r] = 0 /\ files[r] = R!Absent /\ temps[r] = R!Absent
        /\ stage \in {"run", "dump", "replace"} /\ stage' = "failing"
        /\ broken' = broken \cup {run} /\ UNCHANGED <<made, done>>
    BY <1>6, <2>1 DEF R!Raise, R!Fresh
  <2>3. RunsStageInv'
    BY <2>1, <2>2
  <2>4. IsWhole(left) => left.changes = done[run] /\ files[run] = R!Absent
    BY <2>1, <2>2
  <2>5. left.kind # "failed" /\ ~IsWhole(begun)
    BY <2>1, <2>2
  <2>6. ASSUME NEW q \in Runs
        PROVE  /\ temps'[q].kind # "failed"
               /\ IsWhole(temps'[q]) => temps'[q].changes = done[q] /\ files'[q] = R!Absent
               /\ files'[q].kind = "pending" => files'[q].changes = done[q]
               /\ files'[q].kind = "failed" => files'[q].changes = 0 /\ done[q] = 0
               /\ done[q] > 0 /\ q # run' /\ q \notin broken' => files'[q].kind = "pending"
    <3>1. CASE q = run
      BY <2>1, <2>2, <2>4, <2>5, <3>1
    <3>2. CASE q = r
      BY <2>1, <2>2, <2>5, <3>2
    <3>3. CASE q # run /\ q # r
      BY <2>1, <2>2, <3>3
    <3>4. QED
      BY <3>1, <3>2, <3>3
  <2>7. QED
    BY <2>2, <2>3, <2>6
<1>7. CASE R!RecordFailure
  BY <1>7 DEF R!RecordFailure
<1>8. CASE R!FailAgain \/ R!Crash
  BY <1>8 DEF R!FailAgain, R!Crash
<1>9. CASE UNCHANGED RVars
  BY <1>9 DEF RVars
<1>10. QED
  BY <1>1, <1>2, <1>3, <1>4, <1>5, <1>6, <1>7, <1>8, <1>9 DEF R!Next

\* No run is listed twice, a listed one tells its own changes, and one that was
\* not cut short is listed.
LEMMA EachOnce ==
  ASSUME RunsInv
  PROVE  /\ \A f, g \in R!Listed : f.run = g.run => f = g
         /\ \A f \in R!Listed :
               /\ R!Record(f).kind = "pending" => R!Record(f).changes = done[f.run]
               /\ R!Record(f).kind = "failed" =>
                     R!Record(f).changes = 0 /\ done[f.run] = 0
         /\ \A r \in Runs \ (broken \cup {run}) :
               done[r] > 0 => \E f \in R!Listed : f.run = r /\ R!Record(f).kind = "pending"
<1> USE DEF RunsInv, R!TypeOK, RunsDiskInv, IsWhole, R!Listed, R!Record, R!Absent
<1>1. ASSUME NEW f \in R!Listed, NEW g \in R!Listed, f.run = g.run PROVE f = g
  <2>1. f.temp = g.temp
    BY <1>1
  <2>2. QED
    BY <1>1, <2>1
<1>2. ASSUME NEW f \in R!Listed
      PROVE  /\ R!Record(f).kind = "pending" => R!Record(f).changes = done[f.run]
             /\ R!Record(f).kind = "failed" =>
                   R!Record(f).changes = 0 /\ done[f.run] = 0
  BY <1>2
<1>3. ASSUME NEW r \in Runs \ (broken \cup {run}), done[r] > 0
      PROVE  \E f \in R!Listed : f.run = r /\ R!Record(f).kind = "pending"
  <2> DEFINE f == [run |-> r, temp |-> FALSE]
  <2>1. files[r].kind = "pending"
    BY <1>3
  <2>2. f \in R!Listed /\ f.run = r /\ R!Record(f) = files[r]
    BY <2>1
  <2> HIDE DEF f
  <2>3. QED
    BY <2>1, <2>2
<1>4. QED
  BY <1>1, <1>2, <1>3

\* Counted pending changes are changes that were made, each counted once.
LEMMA CountedOnce ==
  ASSUME RunsInv
  PROVE  R!PendingTotal <=
           Cardinality({rn \in Runs \X (1..MaxChanges) : rn[2] <= done[rn[1]]})
<1> DEFINE Counted == {fn \in R!Listed \X (1..MaxChanges) :
                          /\ R!Record(fn[1]).kind = "pending"
                          /\ fn[2] <= R!Record(fn[1]).changes}
           Made == {rn \in Runs \X (1..MaxChanges) : rn[2] <= done[rn[1]]}
           Told == [fn \in Counted |-> <<fn[1].run, fn[2]>>]
<1>1. IsFiniteSet(Made)
  <2>1. IsFiniteSet(1..MaxChanges)
    BY ServerAssumption, FS_Interval DEF R!RunsAssumption
  <2>2. IsFiniteSet(Runs \X (1..MaxChanges))
    BY <2>1, ServerAssumption, SameSizes, FS_Product DEF R!RunsAssumption
  <2>3. QED
    BY <2>2, FS_Subset
<1>2. ASSUME NEW fn \in Counted PROVE Told[fn] \in Made
  <2>1. fn[1] \in R!Listed /\ fn[2] \in 1..MaxChanges
    OBVIOUS
  <2>2. fn[2] <= done[fn[1].run] /\ fn[1].run \in Runs
    BY <2>1, EachOnce DEF R!Listed
  <2>3. QED
    BY <2>1, <2>2
<1>3. ASSUME NEW fn \in Counted, NEW gn \in Counted, Told[fn] = Told[gn]
      PROVE  fn = gn
  <2>1. fn[1] \in R!Listed /\ gn[1] \in R!Listed
    OBVIOUS
  <2>2. fn[1].run = gn[1].run /\ fn[2] = gn[2]
    BY <1>3
  <2>3. fn[1] = gn[1]
    BY <2>1, <2>2, EachOnce
  <2>4. QED
    BY <2>2, <2>3
<1>4. Told \in Injection(Counted, Made)
  <2>1. Told \in [Counted -> Made]
    BY <1>2
  <2>2. IsInjective(Told)
    BY <1>3, <2>1 DEF IsInjective
  <2>3. QED
    BY <2>1, <2>2 DEF Injection
<1>5. Cardinality(Counted) <= Cardinality(Made)
  BY <1>1, <1>4, FS_Injection
<1>6. QED
  BY <1>5, SameSizes DEF R!PendingTotal

\* Wherever a run or the writing of its record fails or is cut short, no run is
\* listed twice, no record lists what its run did not do, and no run that came
\* to its end is left out, for any number of runs and changes.
THEOREM RunsAreTold == Spec => []RunsTell
<1> DEFINE Inv == part = "runs" => RunsInv
<1>1. Init => Inv
  BY RunsInitInv DEF Init
<1>2. Inv /\ [Next]_vars => Inv'
  BY RunsSteps, RunsTypePreserved, RunsFilesPreserved DEF RunsInv
<1>3. Inv => RunsTell
  BY EachOnce, CountedOnce, SameSizes DEF RunsTell, R!RunsTell
<1>4. QED
  BY <1>1, <1>2, <1>3, PTL DEF Spec

------------------------------------------------------------------------------
(***************************************************************************)
(* Numbers.                                                                *)
(***************************************************************************)

\* Up to a member of a finite set of numbers lie as many as up to no other.
LEMMA RankGrows ==
  ASSUME NEW K \in SUBSET Nat, IsFiniteSet(K), NEW i \in K, NEW j \in K
  PROVE  /\ Cardinality({k \in K : k <= i}) \in 1..Cardinality(K)
         /\ i < j => Cardinality({k \in K : k <= i}) < Cardinality({k \in K : k <= j})
<1> DEFINE UpTo(n) == {k \in K : k <= n}
<1>1. ASSUME NEW n \in K PROVE IsFiniteSet(UpTo(n)) /\ Cardinality(UpTo(n)) \in 1..Cardinality(K)
  <2>1. UpTo(n) \in SUBSET K /\ UpTo(n) # {}
    OBVIOUS
  <2>2. IsFiniteSet(UpTo(n)) /\ Cardinality(UpTo(n)) <= Cardinality(K)
    BY <2>1, FS_Subset
  <2>3. Cardinality(UpTo(n)) # 0
    BY <2>1, <2>2, FS_EmptySet
  <2>4. QED
    BY <2>2, <2>3, FS_CardinalityType
<1>2. ASSUME i < j PROVE Cardinality(UpTo(i)) < Cardinality(UpTo(j))
  <2>1. UpTo(i) \in SUBSET UpTo(j) /\ j \in UpTo(j) /\ j \notin UpTo(i)
    <3>1. i \in Nat /\ j \in Nat /\ \A k \in K : k \in Nat
      OBVIOUS
    <3>2. \A k \in K : k <= i => k <= j
      BY <1>2, <3>1
    <3>3. UpTo(i) \subseteq UpTo(j)
      BY <3>2
    <3>4. j \in UpTo(j)
      BY <3>1
    <3>5. ~(j <= i)
      BY <1>2, <3>1
    <3>6. QED
      BY <3>3, <3>4, <3>5
  <2>2. UpTo(i) # UpTo(j)
    BY <2>1
  <2>3. Cardinality(UpTo(i)) <= Cardinality(UpTo(j))
        /\ Cardinality(UpTo(j)) # Cardinality(UpTo(i))
    BY <1>1, <2>1, <2>2, FS_Subset
  <2>4. QED
    BY <1>1, <2>3
<1>3. QED
  BY <1>1, <1>2

\* Each number up to the size of the set is the rank of a member.
LEMMA RankTaken ==
  ASSUME NEW K \in SUBSET Nat, IsFiniteSet(K), NEW n \in 1..Cardinality(K)
  PROVE  \E i \in K : Cardinality({k \in K : k <= i}) = n
<1> DEFINE N == Cardinality(K)
           rank == [i \in K |-> Cardinality({k \in K : k <= i})]
<1>1. N \in Nat
  BY FS_CardinalityType
<1>2. rank \in [K -> 1..N]
  BY RankGrows
<1>3. ASSUME NEW i \in K, NEW j \in K, rank[i] = rank[j] PROVE i = j
  BY <1>1, <1>3, RankGrows
<1>4. rank \in Injection(K, 1..N)
  BY <1>2, <1>3 DEF Injection, IsInjective
<1>5. IsFiniteSet(1..N) /\ Cardinality(1..N) = N
  BY <1>1, FS_Interval
<1>6. rank \in Surjection(K, 1..N)
  BY <1>4, <1>5, FS_Injection
<1>7. QED
  BY <1>6 DEF Surjection

\* Multiples and quotients.
LEMMA Quotient ==
  ASSUME NEW b \in Nat \ {0}, NEW a \in Nat
  PROVE  /\ a \div b \in Nat
         /\ b * (a \div b) <= a
         /\ a < b * (a \div b) + b
  OBVIOUS

LEMMA Multiples ==
  ASSUME NEW b \in Nat \ {0}, NEW m \in Int, NEW n \in Int, m <= n
  PROVE  b * m <= b * n
  OBVIOUS

------------------------------------------------------------------------------
(***************************************************************************)
(* The throughput history.                                                 *)
(***************************************************************************)
HistoryInv ==
    /\ clock \in Int
    /\ mem \in Seq(Int) /\ H!Spaced(mem)
    /\ file \in Seq(Int) /\ H!Spaced(file)

------------------------------------------------------------------------------
\* Choosing the young points leaves a series in order and spaced.
LEMMA SinceSpaced ==
  ASSUME NEW s \in Seq(Int), H!Spaced(s), NEW cutoff \in Int
  PROVE  H!Since(s, cutoff) \in Seq(Int) /\ H!Spaced(H!Since(s, cutoff))
<1> DEFINE young == {i \in DOMAIN s : s[i] >= cutoff}
           N == Cardinality(young)
           UpTo(i) == {j \in young : j <= i}
           nth(n) == CHOOSE i \in young : H!Cardinality(UpTo(i)) = n
<1>1. young \in SUBSET Nat /\ IsFiniteSet(young)
  <2>1. DOMAIN s = 1..Len(s) /\ Len(s) \in Nat
    OBVIOUS
  <2>2. young \in SUBSET (1..Len(s))
    BY <2>1
  <2>3. IsFiniteSet(1..Len(s))
    BY <2>1, FS_Interval
  <2>4. IsFiniteSet(young)
    BY <2>2, <2>3, FS_Subset
  <2>5. QED
    BY <2>2, <2>4
<1>2. N \in Nat
  BY <1>1, FS_CardinalityType
<1>3. ASSUME NEW n \in 1..N
      PROVE  nth(n) \in young /\ Cardinality(UpTo(nth(n))) = n
  <2>1. \E i \in young : Cardinality(UpTo(i)) = n
    BY <1>1, RankTaken
  <2>2. \E i \in young : H!Cardinality(UpTo(i)) = n
    BY <2>1, SameSizes
  <2>3. nth(n) \in young /\ H!Cardinality(UpTo(nth(n))) = n
    BY <2>2
  <2>4. QED
    BY <2>3, SameSizes
<1>4. H!Since(s, cutoff) = [n \in 1..N |-> s[nth(n)]]
  <2>1. H!Cardinality(young) = N
    BY SameSizes
  <2>2. QED
    BY <2>1 DEF H!Since
<1> HIDE DEF nth, N
<1>5. ASSUME NEW n \in 1..N PROVE s[nth(n)] \in Int /\ nth(n) \in DOMAIN s
  <2>1. nth(n) \in DOMAIN s
    BY <1>3
  <2>2. QED
    BY <2>1
<1>6. H!Since(s, cutoff) \in Seq(Int)
  BY <1>2, <1>4, <1>5
<1>7. ASSUME NEW m \in 1..N, NEW n \in 1..N, m < n
      PROVE  s[nth(n)] - s[nth(m)] >= Step
  <2>1. nth(m) < nth(n)
    <3>1. /\ nth(m) \in young /\ nth(n) \in young
          /\ nth(m) \in Nat /\ nth(n) \in Nat
      BY <1>1, <1>3
    <3>2. ~(nth(n) < nth(m))
      <4>1. ASSUME nth(n) < nth(m) PROVE FALSE
        <5>1. Cardinality(UpTo(nth(n))) < Cardinality(UpTo(nth(m)))
          BY <1>1, <3>1, <4>1, RankGrows
        <5>2. n < m
          BY <1>3, <5>1
        <5>3. QED
          BY <1>2, <1>7, <5>2
      <4>2. QED
        BY <4>1
    <3>3. nth(n) # nth(m)
      <4> HIDE DEF UpTo
      <4>1. Cardinality(UpTo(nth(n))) = n /\ Cardinality(UpTo(nth(m))) = m /\ n # m
        BY <1>2, <1>3, <1>7
      <4>2. QED
        BY <4>1
    <3>4. QED
      BY <3>1, <3>2, <3>3
  <2>2. QED
    BY <1>5, <2>1 DEF H!Spaced
<1>8. QED
  BY <1>2, <1>4, <1>6, <1>7 DEF H!Spaced

\* A point that is due stays a step behind the latest one, and pruning keeps
\* the points from some place on.
LEMMA RecordedSpaced ==
  ASSUME HistoryInv, H!Due
  PROVE  H!Recorded(mem) \in Seq(Int) /\ H!Spaced(H!Recorded(mem))
<1> DEFINE s == Append(mem, clock)
           cutoff == clock - MaxAge
           first == CHOOSE i \in DOMAIN s : /\ s[i] >= cutoff
                                            /\ \A j \in 1..(i - 1) : s[j] < cutoff
<1>0. Step \in Nat \ {0} /\ MaxAge \in Nat
  BY ServerAssumption DEF H!SeriesAssumption
<1>1. /\ s \in Seq(Int) /\ Len(s) = Len(mem) + 1 /\ Len(mem) \in Nat
      /\ \A i \in 1..Len(mem) : s[i] = mem[i]
      /\ s[Len(mem) + 1] = clock
  BY AppendProperties DEF HistoryInv
<1>2. ASSUME NEW i \in 1..Len(s), NEW j \in 1..Len(s), i < j
      PROVE  s[j] - s[i] >= Step
  <2>1. CASE j <= Len(mem)
    BY <1>1, <1>2, <2>1 DEF HistoryInv, H!Spaced
  <2>2. CASE j = Len(mem) + 1
    <3>1. i \in 1..Len(mem) /\ mem # <<>>
      BY <1>1, <1>2, <2>2
    <3>2. clock - mem[Len(mem)] >= Step /\ mem[Len(mem)] \in Int
      BY <1>1, <3>1 DEF H!Due, H!Last, HistoryInv
    <3>3. mem[i] \in Int /\ clock \in Int
      BY <3>1 DEF HistoryInv
    <3>4. i # Len(mem) => mem[Len(mem)] - mem[i] >= Step
      BY <1>1, <3>1 DEF HistoryInv, H!Spaced
    <3>5. QED
      BY <1>0, <1>1, <2>2, <3>1, <3>2, <3>3, <3>4
  <2>3. QED
    BY <1>1, <2>1, <2>2
<1>3. first \in DOMAIN s
  <2> DEFINE Young == {i \in 1..Len(s) : s[i] >= cutoff}
  <2>1. Len(s) \in Young
    BY <1>0, <1>1 DEF HistoryInv
  <2>2. Young \in SUBSET Nat
    BY <1>1
  <2>3. PICK i \in Young : \A j \in Young : i <= j
    BY <2>1, <2>2, LeastNumber
  <2>4. ASSUME NEW j \in 1..(i - 1) PROVE s[j] < cutoff
    <3>1. i \in 1..Len(s) /\ j \in 1..Len(s) /\ j < i
      BY <1>1, <2>3
    <3>2. j \notin Young
      BY <1>1, <2>3, <3>1
    <3>3. s[j] \in Int /\ cutoff \in Int
      BY <1>0, <1>1, <3>1 DEF HistoryInv
    <3>4. QED
      BY <3>1, <3>2, <3>3
  <2>5. i \in DOMAIN s /\ s[i] >= cutoff
    BY <1>1, <2>3
  <2>6. QED
    BY <2>4, <2>5
<1>4. H!Recorded(mem) = SubSeq(s, first, Len(s))
  BY DEF H!Recorded, H!Pruned
<1> HIDE DEF first
<1>5. first \in 1..Len(s)
  BY <1>1, <1>3
<1>6. \A i \in first..Len(s) : s[i] \in Int
  BY <1>1, <1>5
<1>7. /\ SubSeq(s, first, Len(s)) \in Seq(Int)
      /\ Len(SubSeq(s, first, Len(s))) = Len(s) - first + 1
      /\ \A i \in 1..(Len(s) - first + 1) : SubSeq(s, first, Len(s))[i] = s[first + i - 1]
  <2> HIDE DEF s
  <2>1. first \in Int /\ Len(s) \in Int /\ first <= Len(s)
    BY <1>1, <1>5
  <2>2. QED
    BY <1>6, <2>1, SubSeqProperties
<1> DEFINE r == SubSeq(s, first, Len(s))
<1>8. ASSUME NEW i \in DOMAIN r, NEW j \in DOMAIN r, i < j
      PROVE  r[j] - r[i] >= Step
  <2>1. i \in 1..(Len(s) - first + 1) /\ j \in 1..(Len(s) - first + 1)
    BY <1>1, <1>5, <1>7
  <2>2. first \in Nat \ {0} /\ Len(s) \in Nat
    BY <1>1, <1>5
  <2>3. /\ first + i - 1 \in 1..Len(s) /\ first + j - 1 \in 1..Len(s)
        /\ first + i - 1 < first + j - 1
    BY <1>8, <2>1, <2>2
  <2>4. s[first + j - 1] - s[first + i - 1] >= Step
    BY <1>2, <2>3
  <2>5. QED
    BY <1>7, <2>1, <2>4
<1>9. QED
  BY <1>4, <1>7, <1>8 DEF H!Spaced

LEMMA HistoryInitInv == H!Init => HistoryInv
  BY ServerAssumption, EmptySeq DEF H!Init, HistoryInv, H!Spaced, H!SeriesAssumption

LEMMA HistoryPreserved ==
  ASSUME HistoryInv, [H!Next]_HVars
  PROVE  HistoryInv'
<1>1. CASE H!Tick \/ H!Move
  BY <1>1, ServerAssumption DEF HistoryInv, H!Tick, H!Move, H!SeriesAssumption, H!Spaced
<1>2. CASE H!Start
  <2>1. clock - MaxAge \in Int
    BY ServerAssumption DEF HistoryInv, H!SeriesAssumption
  <2>2. QED
    BY <1>2, <2>1, SinceSpaced DEF HistoryInv, H!Start, H!Spaced
<1>3. CASE H!Record
  BY <1>3, RecordedSpaced DEF HistoryInv, H!Record, H!Spaced
<1>4. CASE H!Crash
  BY <1>4, EmptySeq DEF HistoryInv, H!Crash, H!Spaced
<1>5. CASE UNCHANGED HVars
  BY <1>5 DEF HistoryInv, HVars, H!Spaced
<1>6. QED
  BY <1>1, <1>2, <1>3, <1>4, <1>5 DEF H!Next

\* A product divided by its factor.
LEMMA Exactly ==
  ASSUME NEW b \in Nat \ {0}, NEW m \in Nat
  PROVE  (b * m) \div b = m
<1> DEFINE q == (b * m) \div b
<1>1. b * m \in Nat
  OBVIOUS
<1>2. q \in Nat /\ b * q <= b * m /\ b * m < b * q + b
  BY <1>1, Quotient
<1> HIDE DEF q
<1>3. ASSUME q < m PROVE FALSE
  <2>1. q + 1 <= m /\ q + 1 \in Int
    BY <1>2, <1>3
  <2>2. b * (q + 1) <= b * m
    BY <2>1, Multiples
  <2>3. b * (q + 1) = b * q + b
    BY <1>2
  <2>4. b * q \in Int
    BY <1>2
  <2>5. QED
    BY <1>1, <1>2, <2>2, <2>3, <2>4
<1>4. ASSUME m < q PROVE FALSE
  <2>1. m + 1 <= q /\ m + 1 \in Int
    BY <1>2, <1>4
  <2>2. b * (m + 1) <= b * q
    BY <1>2, <2>1, Multiples
  <2>3. b * (m + 1) = b * m + b
    OBVIOUS
  <2>4. b * q \in Int
    BY <1>2
  <2>5. QED
    BY <1>1, <1>2, <2>2, <2>3, <2>4
<1>5. QED
  BY <1>2, <1>3, <1>4 DEF q

\* The slots of a chart make up its span.
LEMMA SlotsMakeSpan ==
  ASSUME NEW span \in Spans
  PROVE  /\ span \in Nat /\ H!Width(span) \in Nat \ {0} /\ H!SlotsOf(span) \in Nat
         /\ H!Width(span) * H!SlotsOf(span) = span
         /\ H!SlotsOf(span) * H!Width(span) = span
<1>0. /\ Step \in Nat \ {0} /\ Target \in Nat \ {0} /\ span \in Nat
      /\ IF span > Step * Target THEN span % Target = 0 ELSE span % Step = 0
  BY ServerAssumption DEF H!SeriesAssumption
<1>1. CASE span > Step * Target
  <2> DEFINE w == span \div Target
  <2>1. w \in Nat /\ Target * w = span
    BY <1>0, <1>1
  <2>2. w # 0
    <3>1. ASSUME w = 0 PROVE FALSE
      <4>1. span = 0
        BY <1>0, <2>1, <3>1
      <4>2. Step * Target \in Nat
        BY <1>0
      <4>3. QED
        BY <1>1, <4>1, <4>2
    <3>2. QED
      BY <3>1
  <2>3. w * Target = span
    BY <1>0, <2>1
  <2>4. H!Width(span) = w
    BY <1>1 DEF H!Width
  <2> HIDE DEF w
  <2>5. span \div w = Target
    BY <1>0, <2>1, <2>2, <2>3, Exactly
  <2>6. H!SlotsOf(span) = Target
    BY <2>4, <2>5 DEF H!SlotsOf
  <2>7. QED
    BY <1>0, <2>1, <2>2, <2>3, <2>4, <2>6
<1>2. CASE ~(span > Step * Target)
  <2> DEFINE n == span \div Step
  <2>1. H!Width(span) = Step /\ span % Step = 0
    BY <1>0, <1>2 DEF H!Width
  <2>2. H!SlotsOf(span) = n
    BY <2>1 DEF H!SlotsOf
  <2>3. n \in Nat /\ Step * n = span
    BY <1>0, <2>1
  <2> HIDE DEF n
  <2>4. n * Step = span
    BY <1>0, <2>3
  <2>5. QED
    BY <1>0, <2>1, <2>2, <2>3, <2>4
<1>3. QED
  BY <1>1, <1>2

\* What a slot has lies between its ends.
LEMMA InItsSlot ==
  ASSUME HistoryInv, NEW span \in Spans, NEW i \in DOMAIN H!Chart(span),
         NEW t \in H!Chart(span)[i]
  PROVE  /\ i \in Nat /\ t \in Int /\ t \in H!ToSet(mem)
         /\ H!Width(span) * i <= t - (clock - span)
         /\ t - (clock - span) < H!Width(span) * i + H!Width(span)
<1> DEFINE w == H!Width(span)
           n == H!SlotsOf(span)
           from == clock - span
<1>1. w \in Nat \ {0} /\ n \in Nat /\ clock - n * w = from /\ from \in Int
  BY SlotsMakeSpan DEF HistoryInv
<1>2. H!Chart(span) =
        [k \in 0..(n - 1) |->
            {p \in {q \in H!ToSet(mem) : q >= from} :
                (IF p < from THEN -((from - p) \div w) ELSE (p - from) \div w) = k}]
  BY <1>1 DEF H!Chart
<1> HIDE DEF w, n, from
<1>3. /\ i \in 0..(n - 1) /\ t \in H!ToSet(mem) /\ t >= from
      /\ (IF t < from THEN -((from - t) \div w) ELSE (t - from) \div w) = i
  BY <1>2
<1>4. t \in Int
  BY <1>3 DEF H!ToSet, HistoryInv
<1>5. t - from \in Nat /\ (t - from) \div w = i
  BY <1>1, <1>3, <1>4
<1>6. i \in Nat /\ w * i <= t - from /\ t - from < w * i + w
  BY <1>1, <1>5, Quotient
<1>7. QED
  BY <1>3, <1>4, <1>6 DEF w, from

\* Two points of the series are a step apart.
LEMMA PointsApart ==
  ASSUME HistoryInv, NEW t \in H!ToSet(mem), NEW u \in H!ToSet(mem), t < u
  PROVE  u - t >= Step
<1>1. PICK j \in DOMAIN mem : t = mem[j]
  BY DEF H!ToSet
<1>2. PICK k \in DOMAIN mem : u = mem[k]
  BY DEF H!ToSet
<1>3. /\ \A a, b \in DOMAIN mem : a < b => mem[b] - mem[a] >= Step
      /\ t \in Int /\ u \in Int /\ j \in Int /\ k \in Int /\ Step \in Nat \ {0}
  BY <1>1, <1>2, ServerAssumption DEF HistoryInv, H!Spaced, H!SeriesAssumption
<1>4. k < j => t - u >= Step
  BY <1>1, <1>2, <1>3
<1>5. j < k
  BY <1>1, <1>2, <1>3, <1>4
<1>6. QED
  BY <1>1, <1>2, <1>3, <1>5

\* A slot has no more points than steps fit into it.
LEMMA SlotHolds ==
  ASSUME HistoryInv, NEW span \in Spans, NEW i \in DOMAIN H!Chart(span)
  PROVE  (H!Cardinality(H!Chart(span)[i]) - 1) * Step < H!Width(span)
<1> DEFINE w == H!Width(span)
           held == H!Chart(span)[i]
           base == (clock - span) + w * i
           K == (w - 1) \div Step
           nth == [t \in held |-> (t - base) \div Step]
<1>0. Step \in Nat \ {0} /\ w \in Nat \ {0} /\ span \in Nat /\ clock \in Int
  BY SlotsMakeSpan, ServerAssumption DEF H!SeriesAssumption, HistoryInv
<1>1. K \in Nat /\ Step * K <= w - 1 /\ w - 1 < Step * K + Step
  <2> HIDE DEF w
  <2>1. w - 1 \in Nat
    BY <1>0
  <2>2. QED
    BY <1>0, <2>1, Quotient
<1>2. ASSUME NEW t \in held
      PROVE  t \in Int /\ t - base \in Nat /\ t - base <= w - 1 /\ t \in H!ToSet(mem)
  <2>1. /\ i \in Nat /\ t \in Int /\ t \in H!ToSet(mem)
        /\ w * i <= t - (clock - span) /\ t - (clock - span) < w * i + w
    BY InItsSlot
  <2>2. w * i \in Int
    BY <1>0, <2>1
  <2> HIDE DEF w
  <2>3. QED
    BY <1>0, <2>1, <2>2
<1> HIDE DEF w, held, base, K
<1>3. ASSUME NEW t \in held
      PROVE  nth[t] \in Nat /\ Step * nth[t] <= t - base /\ t - base < Step * nth[t] + Step
  BY <1>0, <1>2, Quotient
<1>4. ASSUME NEW t \in held PROVE nth[t] \in 0..K
  <2> DEFINE q == nth[t]
  <2>1. q \in Nat /\ Step * q <= t - base /\ t - base <= w - 1 /\ t - base \in Nat
    BY <1>2, <1>3
  <2> HIDE DEF q
  <2>2. ASSUME K < q PROVE FALSE
    <3>1. K + 1 \in Int /\ K + 1 <= q
      BY <1>1, <2>1, <2>2
    <3>2. Step * (K + 1) <= Step * q
      BY <1>0, <2>1, <3>1, Multiples
    <3>3. Step * (K + 1) = Step * K + Step
      BY <1>0, <1>1
    <3>4. Step * K \in Int /\ Step * q \in Int
      BY <1>0, <1>1, <2>1
    <3>5. QED
      BY <1>0, <1>1, <2>1, <3>2, <3>3, <3>4
  <2>3. q \in 0..K
    BY <1>1, <2>1, <2>2
  <2>4. QED
    BY <2>3 DEF q
<1>5. ASSUME NEW t \in held, NEW u \in held, nth[t] = nth[u] PROVE t = u
  <2> DEFINE q == nth[t]
  <2>1. /\ t \in Int /\ u \in Int /\ t - base \in Nat /\ u - base \in Nat
        /\ q \in Nat /\ Step * q <= t - base /\ t - base < Step * q + Step
        /\ Step * q <= u - base /\ u - base < Step * q + Step
    BY <1>2, <1>3, <1>5
  <2> HIDE DEF q, nth
  <2>2. Step * q \in Int /\ base \in Int
    <3>1. i \in Nat
      BY InItsSlot, <1>5 DEF held
    <3>2. w * i \in Int
      BY <1>0, <3>1
    <3>3. QED
      BY <1>0, <2>1, <3>2 DEF base
  <2>3. t - u < Step /\ u - t < Step
    BY <1>0, <2>1, <2>2
  <2>4. t < u => u - t >= Step
    BY <1>2, <1>5, PointsApart
  <2>5. u < t => t - u >= Step
    BY <1>2, <1>5, PointsApart
  <2>6. QED
    BY <1>0, <2>1, <2>3, <2>4, <2>5
<1>6. nth \in Injection(held, 0..K)
  <2>1. nth \in [held -> 0..K]
    BY <1>4
  <2>2. QED
    BY <1>5, <2>1 DEF Injection, IsInjective
<1>7. IsFiniteSet(0..K) /\ Cardinality(0..K) = K + 1
  BY <1>1, FS_Interval
<1>8. IsFiniteSet(held) /\ Cardinality(held) <= K + 1
  BY <1>6, <1>7, FS_Injection
<1>9. H!Cardinality(held) = Cardinality(held) /\ Cardinality(held) \in Nat
  BY <1>8, FS_CardinalityType, SameSizes
<1>10. (Cardinality(held) - 1) * Step <= K * Step
  <2> DEFINE m == Cardinality(held) - 1
  <2>1. m \in Int /\ m <= K
    BY <1>1, <1>8, <1>9
  <2> HIDE DEF m
  <2>2. Step * m <= Step * K
    BY <1>0, <1>1, <2>1, Multiples
  <2>3. Step * m = m * Step /\ Step * K = K * Step
    BY <1>0, <1>1, <2>1
  <2>4. QED
    BY <2>2, <2>3 DEF m
<1>11. (Cardinality(held) - 1) * Step < w
  <2> DEFINE m == Cardinality(held) - 1
  <2>1. m \in Int
    BY <1>9
  <2> HIDE DEF m
  <2>2. m * Step <= K * Step /\ K * Step = Step * K /\ m * Step \in Int /\ K * Step \in Int
    BY <1>0, <1>1, <1>10, <2>1 DEF m
  <2>3. m * Step < w
    BY <1>0, <1>1, <2>2
  <2>4. QED
    BY <2>3 DEF m
<1>12. QED
  BY <1>9, <1>11 DEF held, w

\* What was recorded in the span of a chart has a slot in it.
LEMMA HasSlot ==
  ASSUME HistoryInv, NEW span \in Spans, NEW t \in H!ToSet(mem),
         clock - span <= t, t < clock
  PROVE  \E i \in H!Filled(span) : t \in H!Chart(span)[i]
<1> DEFINE w == H!Width(span)
           n == H!SlotsOf(span)
           from == clock - span
           q == (t - from) \div w
<1>0. /\ w \in Nat \ {0} /\ n \in Nat /\ span \in Nat /\ w * n = span
      /\ clock - n * w = from /\ clock \in Int /\ t \in Int
  BY SlotsMakeSpan DEF H!ToSet, HistoryInv
<1>1. t - from \in Nat /\ t - from < span /\ from \in Int /\ ~(t < from) /\ t >= from
  BY <1>0
<1>2. H!Chart(span) =
        [k \in 0..(n - 1) |->
            {p \in {r \in H!ToSet(mem) : r >= from} :
                (IF p < from THEN -((from - p) \div w) ELSE (p - from) \div w) = k}]
  BY <1>0 DEF H!Chart
<1> HIDE DEF w, n, from
<1>3. q \in Nat /\ w * q <= t - from
  BY <1>0, <1>1, Quotient
<1>4. q < n
  <2> HIDE DEF q
  <2>1. ASSUME n <= q PROVE FALSE
    <3>1. w * n <= w * q
      BY <1>0, <1>3, <2>1, Multiples
    <3>2. w * q \in Int
      BY <1>0, <1>3
    <3>3. QED
      BY <1>0, <1>1, <1>3, <3>1, <3>2
  <2>2. QED
    BY <1>0, <1>3, <2>1
<1>5. q \in 0..(n - 1)
  BY <1>0, <1>3, <1>4
<1>6. t \in H!Chart(span)[q] /\ q \in DOMAIN H!Chart(span)
  BY <1>1, <1>2, <1>5
<1>7. QED
  BY <1>6 DEF H!Filled

LEMMA HistoryShown == ASSUME HistoryInv PROVE H!SeriesSpaced
<1>1. ASSUME NEW span \in Spans, NEW i \in H!Drawn(span), i \notin H!Filled(span)
      PROVE  \E j \in H!Filled(span) : j < i
  <2>1. PICK j \in H!Filled(span) : j <= i
    BY DEF H!Drawn
  <2>2. DOMAIN H!Chart(span) \subseteq Int
    BY SlotsMakeSpan DEF H!Chart
  <2>3. i \in Int /\ j \in Int /\ i # j
    BY <1>1, <2>1, <2>2 DEF H!Drawn, H!Filled
  <2>4. QED
    BY <2>1, <2>3
<1>2. ASSUME NEW span \in Spans, NEW i \in H!Drawn(span),
             NEW t \in H!Chart(span)[i], NEW u \in H!Chart(span)[i]
      PROVE  t - u < H!Width(span)
  <2> DEFINE w == H!Width(span)
  <2>1. i \in DOMAIN H!Chart(span)
    BY DEF H!Drawn
  <2>2. /\ i \in Nat /\ t \in Int /\ u \in Int
        /\ t - (clock - span) < w * i + w /\ w * i <= u - (clock - span)
    BY <2>1, InItsSlot
  <2>3. w \in Nat \ {0} /\ span \in Nat /\ clock \in Int
    BY SlotsMakeSpan DEF HistoryInv
  <2> HIDE DEF w
  <2>4. w * i \in Int
    BY <2>2, <2>3
  <2>5. t - u < w
    BY <2>2, <2>3, <2>4
  <2>6. QED
    BY <2>5 DEF w
<1>3. ASSUME NEW span \in Spans, NEW i \in H!Drawn(span)
      PROVE  (H!Cardinality(H!Chart(span)[i]) - 1) * Step < H!Width(span)
  <2>1. i \in DOMAIN H!Chart(span)
    BY DEF H!Drawn
  <2>2. QED
    BY <2>1, SlotHolds
<1>4. QED
  BY <1>1, <1>2, <1>3, HasSlot DEF H!SeriesSpaced, HistoryInv

\* However the clock is set and the process killed, for any step, age and spans,
\* the series keeps in order and spaced; no chart leaves out a point of its span
\* that is behind the clock, and no mean is of points further apart than a slot
\* is wide, or of more of them than there are steps in it.
THEOREM HistoryIsSpaced == Spec => []SeriesSpaced
<1> DEFINE Inv == part = "history" => HistoryInv
<1>1. Init => Inv
  BY HistoryInitInv DEF Init
<1>2. Inv /\ [Next]_vars => Inv'
  BY HistorySteps, HistoryPreserved
<1>3. Inv => SeriesSpaced
  BY HistoryShown DEF SeriesSpaced
<1>4. QED
  BY <1>1, <1>2, <1>3, PTL DEF Spec

------------------------------------------------------------------------------
(***************************************************************************)
(* Health and the process.                                                 *)
(***************************************************************************)
\* A component was well last at some time up to now, and is if that is now.
ProcessSeen ==
    /\ time \in Int /\ checked \in Int /\ since \in Int /\ deadline \in Int
    /\ well \in SUBSET Comps
    /\ seen \in [Comps -> Int]
    /\ \A c \in Comps : seen[c] <= time /\ (c \in well => seen[c] = time)

\* Whoever looks does so for Limit at most, and finds well what was well since.
ProcessLook ==
    /\ found \in SUBSET [comp : Comps, well : BOOLEAN]
    /\ lock \in BOOLEAN
    /\ lock => /\ since <= time /\ time <= since + Limit
               /\ \A f \in found : f.well => since <= seen[f.comp]

\* What is kept was found by someone who ended at the time noted beside it.
ProcessKept ==
    kept # None => /\ kept \in [Comps -> BOOLEAN]
                   /\ checked <= time
                   /\ \A c \in Comps : kept[c] => checked - Limit <= seen[c]

ProcessAnswer ==
    answer # None =>
        /\ answer.well \in [Comps -> BOOLEAN]
        /\ answer.at \in Int /\ answer.seen \in [Comps -> Int]
        /\ \A c \in Comps : answer.well[c] =>
               \/ answer.at - answer.seen[c] <= Limit
               \/ answer.at - answer.seen[c] < Limit + Ttl

\* What the flags and the server's task are at each point of a stop.
ProcessPhase ==
    /\ phase \in {"new", "up", "cleanup", "server", "gone"}
    /\ ready = (phase # "new")
    /\ shutdown = (phase \notin {"new", "up"})
    /\ phase = "new" => server = "none"
    /\ phase \in {"new", "up"} => drained = <<>>
    /\ phase = "server" => hooks = <<>>
    /\ phase = "gone" => server = "failed" \/ (server = "ended" /\ hooks = <<>>)

ProcessHooks ==
    /\ hooks \in Seq(Nat) /\ drained \in Seq(Nat)
    /\ hooks \o P!Reverse(drained) = Cleanups

ProcessInv ==
    ProcessSeen /\ ProcessLook /\ ProcessKept /\ ProcessAnswer /\ ProcessPhase
    /\ ProcessHooks

------------------------------------------------------------------------------
\* The last of those that wait goes in front of those that were reversed.
LEMMA LastGoesFirst ==
  ASSUME NEW s \in Seq(Nat), NEW d \in Seq(Nat), s # <<>>
  PROVE  /\ P!Front(s) \in Seq(Nat) /\ Append(d, P!Last(s)) \in Seq(Nat)
         /\ P!Front(s) \o P!Reverse(Append(d, P!Last(s))) = s \o P!Reverse(d)
<1> DEFINE n == Len(s)
           m == Len(d)
           f == P!Front(s)
           e == Append(d, s[n])
           r == P!Reverse(e)
           q == P!Reverse(d)
<1>1. n \in Nat \ {0} /\ m \in Nat /\ s[n] \in Nat
  BY EmptySeq, LenProperties
<1>2. f \in Seq(Nat) /\ Len(f) = n - 1 /\ \A i \in 1..(n - 1) : f[i] = s[i]
  <2>1. \A i \in 1..(n - 1) : s[i] \in Nat
    BY <1>1
  <2>2. f = SubSeq(s, 1, n - 1)
    BY DEF P!Front
  <2> HIDE DEF f, n
  <2>3. 1 \in Int /\ n - 1 \in Int
    BY <1>1
  <2>4. /\ f \in Seq(Nat)
        /\ Len(f) = IF 1 <= n - 1 THEN (n - 1) - 1 + 1 ELSE 0
        /\ \A i \in 1..((n - 1) - 1 + 1) : f[i] = s[1 + i - 1]
    BY <2>1, <2>2, <2>3, SubSeqProperties
  <2>5. QED
    BY <1>1, <2>4
<1>3. /\ e \in Seq(Nat) /\ Len(e) = m + 1 /\ e[m + 1] = s[n]
      /\ \A i \in 1..m : e[i] = d[i]
  BY <1>1, AppendProperties
<1>4. /\ r \in Seq(Nat) /\ Len(r) = m + 1 /\ r[1] = s[n]
      /\ \A i \in 1..m : r[i + 1] = d[m - i + 1]
  <2>1. r = [i \in 1..(m + 1) |-> e[((m + 1) - i) + 1]]
    BY <1>3 DEF P!Reverse
  <2>2. \A i \in 1..(m + 1) : ((m + 1) - i) + 1 \in 1..(m + 1)
    BY <1>1
  <2>3. \A i \in 1..(m + 1) : e[((m + 1) - i) + 1] \in Nat
    <3>1. \A k \in 1..(m + 1) : e[k] \in Nat
      <4> HIDE DEF e
      <4>1. QED
        BY <1>3
    <3>2. QED
      BY <2>2, <3>1
  <2>4. r \in Seq(Nat) /\ Len(r) = m + 1
    <3>1. m + 1 \in Nat
      BY <1>1
    <3>2. r \in Seq(Nat)
      BY <2>1, <2>3, <3>1
    <3>3. DOMAIN r = 1..(m + 1)
      BY <2>1
    <3>4. QED
      BY <3>1, <3>2, <3>3, LenProperties
  <2>5. r[1] = s[n]
    BY <1>1, <1>3, <2>1
  <2>6. ASSUME NEW i \in 1..m PROVE r[i + 1] = d[m - i + 1]
    <3>1. i + 1 \in 1..(m + 1) /\ ((m + 1) - (i + 1)) + 1 = m - i + 1 /\ m - i + 1 \in 1..m
      BY <1>1
    <3>2. r[i + 1] = e[m - i + 1]
      BY <2>1, <3>1
    <3>3. QED
      BY <1>3, <3>1, <3>2
  <2>7. QED
    BY <2>4, <2>5, <2>6
<1>5. /\ q \in Seq(Nat) /\ Len(q) = m
      /\ \A i \in 1..m : q[i] = d[m - i + 1]
  <2>1. q = [i \in 1..m |-> d[(m - i) + 1]]
    BY DEF P!Reverse
  <2>2. \A i \in 1..m : d[(m - i) + 1] \in Nat
    BY <1>1
  <2>3. QED
    BY <1>1, <2>1, <2>2
<1> HIDE DEF n, m, f, e, r, q
<1>6. /\ f \o r \in Seq(Nat) /\ Len(f \o r) = n + m
      /\ \A i \in 1..(n + m) : (f \o r)[i] = IF i <= n - 1 THEN f[i] ELSE r[i - (n - 1)]
  <2>1. (n - 1) + (m + 1) = n + m
    BY <1>1
  <2>2. /\ f \o r \in Seq(Nat) /\ Len(f \o r) = Len(f) + Len(r)
        /\ \A i \in 1..(Len(f) + Len(r)) :
              (f \o r)[i] = IF i <= Len(f) THEN f[i] ELSE r[i - Len(f)]
    BY <1>2, <1>4, ConcatProperties
  <2>3. Len(f) = n - 1 /\ Len(r) = m + 1
    BY <1>2, <1>4
  <2>4. QED
    BY <2>1, <2>2, <2>3
<1>7. /\ s \o q \in Seq(Nat) /\ Len(s \o q) = n + m
      /\ \A i \in 1..(n + m) : (s \o q)[i] = IF i <= n THEN s[i] ELSE q[i - n]
  BY <1>5, ConcatProperties DEF n
<1>8. ASSUME NEW i \in 1..(n + m) PROVE (f \o r)[i] = (s \o q)[i]
  <2>1. CASE i < n
    <3>1. i <= n - 1 /\ i <= n /\ i \in 1..(n - 1)
      BY <1>1, <2>1
    <3>2. QED
      BY <1>2, <1>6, <1>7, <3>1
  <2>2. CASE i = n
    <3>1. ~(i <= n - 1) /\ i <= n /\ i - (n - 1) = 1
      BY <1>1, <2>2
    <3>2. (f \o r)[i] = r[1] /\ (s \o q)[i] = s[i]
      BY <1>6, <1>7, <3>1
    <3>3. QED
      BY <1>4, <2>2, <3>2
  <2>3. CASE n < i
    <3>1. i - n \in 1..m /\ i - (n - 1) = (i - n) + 1 /\ ~(i <= n - 1) /\ ~(i <= n)
      BY <1>1, <2>3
    <3>2. (f \o r)[i] = r[(i - n) + 1] /\ (s \o q)[i] = q[i - n]
      BY <1>6, <1>7, <3>1
    <3>3. QED
      BY <1>4, <1>5, <3>1, <3>2
  <2>4. i < n \/ i = n \/ n < i
    BY <1>1
  <2>5. QED
    BY <2>1, <2>2, <2>3, <2>4
<1>9. f \o r = s \o q
  BY <1>6, <1>7, <1>8, SeqEqual
<1>10. QED
  BY <1>2, <1>3, <1>9 DEF f, r, e, q, n, P!Last

LEMMA ProcessInitInv == P!Init => ProcessInv
<1> SUFFICES ASSUME P!Init PROVE ProcessInv
  OBVIOUS
<1> USE ServerAssumption DEF P!ProbesAssumption, P!Init
<1>1. ProcessSeen
  BY DEF ProcessSeen
<1>2. ProcessLook /\ ProcessKept /\ ProcessAnswer
  BY DEF ProcessLook, ProcessKept, ProcessAnswer
<1>3. ProcessPhase
  BY DEF ProcessPhase
<1>4. ProcessHooks
  <2>1. P!Reverse(<<>>) = <<>>
    BY EmptySeq, LenProperties, SeqEqual DEF P!Reverse
  <2>2. Cleanups \o <<>> = Cleanups
    BY ConcatEmptySeq
  <2>3. QED
    BY <2>1, <2>2, EmptySeq DEF ProcessHooks
<1>5. QED
  BY <1>1, <1>2, <1>3, <1>4 DEF ProcessInv

\* The steps by what they may disturb: time and the components, the life of the
\* process, and the check.
LEMMA ProcessTick == ASSUME ProcessInv, P!Tick PROVE ProcessInv'
<1> USE DEF P!Tick, P!life, P!check
<1>1. time \in Int /\ time' = time + 1 /\ seen \in [Comps -> Int]
  BY DEF ProcessInv, ProcessSeen
<1>2. ProcessSeen'
  BY <1>1 DEF ProcessInv, ProcessSeen
<1>3. \A c \in Comps : seen[c] \in Int /\ seen'[c] \in Int /\ seen[c] <= seen'[c]
  BY <1>1 DEF ProcessInv, ProcessSeen
<1>4. ProcessLook'
  <2>1. found' = found /\ lock' = lock /\ since' = since /\ since \in Int
    BY DEF ProcessInv, ProcessSeen
  <2>2. ASSUME lock PROVE since <= time' /\ time' <= since + Limit
    BY <1>1, <2>1, <2>2, ServerAssumption DEF ProcessInv, ProcessLook, P!ProbesAssumption
  <2>3. ASSUME lock, NEW f \in found, f.well PROVE since <= seen'[f.comp]
    <3>1. f.comp \in Comps /\ since <= seen[f.comp]
      BY <2>3 DEF ProcessInv, ProcessLook
    <3>2. QED
      BY <1>3, <2>1, <3>1
  <2>4. QED
    BY <2>1, <2>2, <2>3 DEF ProcessInv, ProcessLook
<1>5. ProcessKept'
  <2>1. kept' = kept /\ checked' = checked /\ checked \in Int /\ checked - Limit \in Int
    BY ServerAssumption DEF ProcessInv, ProcessSeen, P!ProbesAssumption
  <2>2. ASSUME kept # None, NEW c \in Comps, kept[c] PROVE checked - Limit <= seen'[c]
    BY <1>3, <2>1, <2>2 DEF ProcessInv, ProcessKept
  <2>3. QED
    BY <1>1, <2>1, <2>2 DEF ProcessInv, ProcessKept
<1>6. ProcessAnswer' /\ ProcessPhase' /\ ProcessHooks'
  BY DEF ProcessInv, ProcessAnswer, ProcessPhase, ProcessHooks
<1>7. QED
  BY <1>2, <1>4, <1>5, <1>6 DEF ProcessInv

LEMMA ProcessLives ==
  ASSUME ProcessInv,
         \/ P!Start \/ P!Serve \/ P!Signal \/ P!ServerFails \/ P!BeginStop
         \/ P!CleanUp \/ P!AskServer \/ P!ServerLeaves \/ P!EndStop
  PROVE  ProcessInv'
<1> USE DEF P!Start, P!Serve, P!Signal, P!ServerFails, P!BeginStop, P!CleanUp,
            P!AskServer, P!ServerLeaves, P!EndStop, P!Yields, P!parts, P!check
<1>1. ProcessSeen'
  <2>1. time + Grace \in Int
    BY ServerAssumption DEF ProcessInv, ProcessSeen, P!ProbesAssumption
  <2>2. QED
    BY <2>1 DEF ProcessInv, ProcessSeen
<1>2. ProcessLook' /\ ProcessKept' /\ ProcessAnswer'
  BY DEF ProcessInv, ProcessLook, ProcessKept, ProcessAnswer
<1>3. ProcessPhase'
  BY DEF ProcessInv, ProcessPhase
<1>4. ProcessHooks'
  <2>1. CASE P!CleanUp
    BY <2>1, LastGoesFirst DEF ProcessInv, ProcessHooks
  <2>2. CASE ~P!CleanUp
    BY <2>2 DEF ProcessInv, ProcessHooks
  <2>3. QED
    BY <2>1, <2>2
<1>5. QED
  BY <1>1, <1>2, <1>3, <1>4 DEF ProcessInv

LEMMA ProcessLooks ==
  ASSUME ProcessInv,
         \/ P!FromCache \/ P!BeginCheck \/ (\E c \in Comps : P!Checker(c))
         \/ P!EndCheck \/ P!CancelCheck
  PROVE  ProcessInv'
<1> USE DEF P!life, P!parts
<1>1. ProcessPhase' /\ ProcessHooks'
  BY DEF ProcessInv, ProcessPhase, ProcessHooks, P!FromCache, P!BeginCheck, P!Checker,
         P!EndCheck, P!CancelCheck
<1>2. /\ time \in Int /\ checked \in Int /\ since \in Int /\ seen \in [Comps -> Int]
      /\ Limit \in Nat \ {0} /\ Ttl \in Nat
      /\ \A c \in Comps : seen[c] \in Int
  BY ServerAssumption DEF ProcessInv, ProcessSeen, P!ProbesAssumption
<1>3. CASE P!FromCache
  <2> USE <1>3 DEF P!FromCache
  <2>1. ProcessSeen' /\ ProcessLook' /\ ProcessKept'
    BY DEF ProcessInv, ProcessSeen, ProcessLook, ProcessKept
  <2>2. ProcessAnswer'
    <3>1. answer' = [well |-> kept, at |-> time, seen |-> seen]
      BY DEF P!Answers
    <3>2. kept # None /\ time - checked < Ttl
      BY DEF P!Kept
    <3>3. ASSUME NEW c \in Comps, kept[c] PROVE time - seen[c] < Limit + Ttl
      <4>1. checked - Limit <= seen[c]
        BY <3>2, <3>3 DEF ProcessInv, ProcessKept
      <4>2. QED
        BY <1>2, <3>2, <4>1
    <3>4. kept \in [Comps -> BOOLEAN]
      BY <3>2 DEF ProcessInv, ProcessKept
    <3>5. QED
      BY <1>2, <3>1, <3>3, <3>4 DEF ProcessAnswer
  <2>3. QED
    BY <1>1, <2>1, <2>2 DEF ProcessInv
<1>4. CASE P!BeginCheck
  <2>1. ProcessSeen' /\ ProcessKept' /\ ProcessAnswer'
    BY <1>4 DEF ProcessInv, ProcessSeen, ProcessKept, ProcessAnswer, P!BeginCheck
  <2>2. ProcessLook'
    BY <1>2, <1>4 DEF ProcessInv, ProcessLook, P!BeginCheck
  <2>3. QED
    BY <1>1, <2>1, <2>2 DEF ProcessInv
<1>5. ASSUME NEW c \in Comps, P!Checker(c) PROVE ProcessInv'
  <2>1. ProcessSeen' /\ ProcessKept' /\ ProcessAnswer'
    BY <1>5 DEF ProcessInv, ProcessSeen, ProcessKept, ProcessAnswer, P!Checker
  <2>2. ProcessLook'
    <3>1. PICK v \in BOOLEAN : /\ v => c \in well
                               /\ found' = found \cup {[comp |-> c, well |-> v]}
      BY <1>5 DEF P!Checker
    <3>2. lock /\ lock' = lock /\ since' = since /\ time' = time /\ seen' = seen
      BY <1>5 DEF P!Checker
    <3>3. ASSUME NEW f \in found', f.well PROVE since <= seen[f.comp]
      <4>1. CASE f \in found
        BY <3>2, <3>3, <4>1 DEF ProcessInv, ProcessLook
      <4>2. CASE f = [comp |-> c, well |-> v]
        <5>1. c \in well /\ f.comp = c
          BY <3>1, <3>3, <4>2
        <5>2. seen[c] = time /\ since <= time
          BY <3>2, <5>1 DEF ProcessInv, ProcessSeen, ProcessLook
        <5>3. QED
          BY <5>1, <5>2
      <4>3. QED
        BY <3>1, <4>1, <4>2
    <3>4. found' \in SUBSET [comp : Comps, well : BOOLEAN]
      BY <3>1 DEF ProcessInv, ProcessLook
    <3>5. QED
      BY <3>2, <3>3, <3>4 DEF ProcessInv, ProcessLook
  <2>3. QED
    BY <1>1, <2>1, <2>2 DEF ProcessInv
<1>6. CASE P!EndCheck
  <2> DEFINE health == [c \in Comps |-> c \in P!FoundWell]
  <2>1. /\ lock /\ kept' = health /\ checked' = time
        /\ answer' = [well |-> health, at |-> time, seen |-> seen]
        /\ lock' = FALSE /\ since' = since /\ found' = found
        /\ time' = time /\ well' = well /\ seen' = seen /\ deadline' = deadline
    BY <1>6 DEF P!EndCheck, P!Answers
  <2>2. health \in [Comps -> BOOLEAN]
    OBVIOUS
  <2>3. ASSUME NEW c \in Comps, health[c] PROVE time - Limit <= seen[c]
    <3>1. PICK f \in found : f.comp = c /\ f.well
      BY <2>3 DEF P!FoundWell
    <3>2. since <= seen[c] /\ time <= since + Limit
      BY <2>1, <3>1 DEF ProcessInv, ProcessLook
    <3>3. QED
      BY <1>2, <3>2
  <2> HIDE DEF health
  <2>4. ProcessSeen' /\ ProcessLook'
    BY <2>1 DEF ProcessInv, ProcessSeen, ProcessLook
  <2>5. ProcessKept'
    BY <1>2, <2>1, <2>2, <2>3 DEF ProcessKept
  <2>6. ProcessAnswer'
    <3>1. ASSUME NEW c \in Comps, health[c] PROVE time - seen[c] <= Limit
      <4>1. time - Limit <= seen[c] /\ seen[c] \in Int
        BY <1>2, <2>3, <3>1
      <4>2. QED
        BY <1>2, <4>1
    <3>2. QED
      BY <1>2, <2>1, <2>2, <3>1 DEF ProcessAnswer
  <2>7. QED
    BY <1>1, <2>4, <2>5, <2>6 DEF ProcessInv
<1>7. CASE P!CancelCheck
  BY <1>1, <1>7 DEF ProcessInv, ProcessSeen, ProcessLook, ProcessKept, ProcessAnswer,
                    P!CancelCheck
<1>8. QED
  BY <1>3, <1>4, <1>5, <1>6, <1>7

LEMMA ProcessPreserved == ASSUME ProcessInv, [P!Next]_PVars PROVE ProcessInv'
<1>1. CASE UNCHANGED PVars
  BY <1>1 DEF PVars, ProcessInv, ProcessSeen, ProcessLook, ProcessKept, ProcessAnswer,
              ProcessPhase, ProcessHooks
<1>2. CASE P!Tick
  BY <1>2, ProcessTick
<1>3. CASE \/ P!Start \/ P!Serve \/ P!Signal \/ P!ServerFails \/ P!BeginStop
           \/ P!CleanUp \/ P!AskServer \/ P!ServerLeaves \/ P!EndStop
  BY <1>3, ProcessLives
<1>4. CASE \/ P!FromCache \/ P!BeginCheck \/ (\E c \in Comps : P!Checker(c))
           \/ P!EndCheck \/ P!CancelCheck
  BY <1>4, ProcessLooks
<1>5. QED
  BY <1>1, <1>2, <1>3, <1>4 DEF P!Next

LEMMA ProcessTold == ASSUME ProcessInv PROVE P!ProbesTrue
<1>1. ASSUME answer # None, NEW c \in Comps,
             answer.well[c] \/ P!Healthy(answer.well)
      PROVE  answer.at - answer.seen[c] > Limit => answer.at - answer.seen[c] < Limit + Ttl
  <2>1. answer.well[c]
    BY <1>1 DEF P!Healthy
  <2>2. \/ answer.at - answer.seen[c] <= Limit
        \/ answer.at - answer.seen[c] < Limit + Ttl
    BY <1>1, <2>1 DEF ProcessInv, ProcessAnswer
  <2>3. Limit \in Int /\ answer.at \in Int /\ answer.seen[c] \in Int
    BY <1>1, ServerAssumption DEF ProcessInv, ProcessAnswer, P!ProbesAssumption
  <2>4. QED
    BY <2>2, <2>3
<1>2. P!SaysReady => phase = "up" /\ drained = <<>>
  BY DEF P!SaysReady, ProcessInv, ProcessPhase
<1>3. /\ phase = "server" => hooks = <<>>
      /\ phase = "gone" => server = "failed" \/ (server = "ended" /\ hooks = <<>>)
  BY DEF ProcessInv, ProcessPhase
<1>4. QED
  BY <1>1, <1>2, <1>3 DEF P!ProbesTrue, ProcessInv, ProcessHooks

\* Answers about health are as fresh as promised, for any components, limits and
\* cleanups; readiness ends where a stop begins, and a stop leaves out no cleanup
\* unless the server fails meanwhile.
THEOREM ProbesAreTrue == Spec => []ProbesTrue
<1> DEFINE Inv == part = "process" => ProcessInv
<1>1. Init => Inv
  BY ProcessInitInv DEF Init
<1>2. Inv /\ [Next]_vars => Inv'
  BY ProcessSteps, ProcessPreserved
<1>3. Inv => ProbesTrue
  BY ProcessTold DEF ProbesTrue
<1>4. QED
  BY <1>1, <1>2, <1>3, PTL DEF Spec

------------------------------------------------------------------------------
(***************************************************************************)
(* Counting the units of a count over a stretch of time.                   *)
(***************************************************************************)
Counts == [T!Times -> Nat]

UnitsIn(count, t, u) ==
    {sk \in T!Times \X (Nat \ {0}) : t <= sk[1] /\ sk[1] <= u /\ sk[2] <= count[sk[1]]}

\* Within is the number of these units, and they are finitely many.
LEMMA UnitsCounted ==
  ASSUME NEW count \in Counts, NEW t \in Int, NEW u \in Int
  PROVE  /\ IsFiniteSet(UnitsIn(count, t, u))
         /\ T!Within(count, t, u) = Cardinality(UnitsIn(count, t, u))
         /\ T!Within(count, t, u) \in Nat
<1> DEFINE Stretch == {s \in T!Times : t <= s /\ s <= u}
           At == [s \in Stretch |-> {s} \X (1..count[s])]
           Parts == {{s} \X (1..count[s]) : s \in Stretch}
<1>1. \A s \in T!Times : s \in Int /\ count[s] \in Nat
  BY DEF Counts, T!Times
<1>2. UNION Parts = UnitsIn(count, t, u)
  <2>1. ASSUME NEW x \in UNION Parts PROVE x \in UnitsIn(count, t, u)
    <3>1. PICK s \in Stretch : x \in {s} \X (1..count[s])
      OBVIOUS
    <3>2. x[1] = s /\ x[2] \in 1..count[s] /\ x = <<x[1], x[2]>>
      BY <3>1
    <3>3. QED
      BY <1>1, <3>2 DEF UnitsIn
  <2>2. ASSUME NEW x \in UnitsIn(count, t, u) PROVE x \in UNION Parts
    <3>1. x[1] \in Stretch /\ x = <<x[1], x[2]>> /\ x[2] \in 1..count[x[1]]
      BY <1>1 DEF UnitsIn
    <3>2. x \in {x[1]} \X (1..count[x[1]])
      BY <3>1
    <3>3. QED
      BY <3>1, <3>2
  <2>3. QED
    BY <2>1, <2>2
<1>3. IsFiniteSet(Parts)
  <2>1. IsFiniteSet(T!Times)
    <3>1. SignInTime \in Nat
      BY ServerAssumption DEF T!ThrottleAssumption
    <3>2. QED
      BY <3>1, FS_Interval DEF T!Times
  <2>2. IsFiniteSet(Stretch)
    BY <2>1, FS_Subset
  <2>3. At \in Surjection(Stretch, Parts)
    BY DEF Surjection
  <2>4. QED
    BY <2>2, <2>3, FS_Surjection
<1>4. \A p \in Parts : IsFiniteSet(p)
  <2>1. ASSUME NEW s \in Stretch PROVE IsFiniteSet({s} \X (1..count[s]))
    <3>1. IsFiniteSet(1..count[s])
      BY <1>1, FS_Interval
    <3>2. QED
      BY <3>1, FS_Singleton, FS_Product
  <2>2. QED
    BY <2>1
<1>5. IsFiniteSet(UnitsIn(count, t, u))
  BY <1>2, <1>3, <1>4, FS_UNION
<1>6. T!Within(count, t, u) = Cardinality(UnitsIn(count, t, u))
  BY <1>2, SameSizes DEF T!Within
<1>7. QED
  BY <1>5, <1>6, FS_CardinalityType

\* A stretch is the sum of its parts.
LEMMA Split ==
  ASSUME NEW count \in Counts, NEW t \in Int, NEW m \in Int, NEW u \in Int,
         t <= m + 1, m <= u
  PROVE  T!Within(count, t, u) = T!Within(count, t, m) + T!Within(count, m + 1, u)
<1> DEFINE A == UnitsIn(count, t, m)
           B == UnitsIn(count, m + 1, u)
<1>1. \A s \in T!Times : s \in Int
  BY DEF T!Times
<1>2. UnitsIn(count, t, u) = A \cup B
  <2>1. ASSUME NEW s \in T!Times
        PROVE  (t <= s /\ s <= u) <=> ((t <= s /\ s <= m) \/ (m + 1 <= s /\ s <= u))
    <3>1. s \in Int
      BY <1>1
    <3>2. QED
      BY <3>1
  <2>2. ASSUME NEW x \in T!Times \X (Nat \ {0})
        PROVE  x \in UnitsIn(count, t, u) <=> x \in A \/ x \in B
    <3>1. x[1] \in T!Times
      OBVIOUS
    <3>2. QED
      BY <2>1, <3>1 DEF UnitsIn
  <2>3. QED
    BY <2>2 DEF UnitsIn
<1>3. A \cap B = {}
  <2>1. ASSUME NEW x \in A, x \in B PROVE FALSE
    <3>1. x[1] \in T!Times /\ x[1] <= m /\ m + 1 <= x[1]
      BY <2>1 DEF UnitsIn
    <3>2. x[1] \in Int
      BY <1>1, <3>1
    <3>3. QED
      BY <3>1, <3>2
  <2>2. QED
    BY <2>1
<1> HIDE DEF A, B
<1>4. IsFiniteSet(A) /\ IsFiniteSet(B) /\ Cardinality(A) \in Nat /\ Cardinality(B) \in Nat
  BY UnitsCounted, FS_CardinalityType DEF A, B
<1>5. Cardinality(A \cap B) = 0
  BY <1>3, FS_EmptySet
<1>6. Cardinality(A \cup B) = Cardinality(A) + Cardinality(B)
  <2>1. Cardinality(A \cup B) = Cardinality(A) + Cardinality(B) - Cardinality(A \cap B)
    BY <1>4, FS_Union
  <2>2. QED
    BY <1>4, <1>5, <2>1
<1>7. QED
  BY <1>2, <1>6, UnitsCounted DEF A, B

\* A stretch where nothing happened.
LEMMA NothingWithin ==
  ASSUME NEW count \in Counts, NEW t \in Int, NEW u \in Int,
         \A s \in T!Times : t <= s /\ s <= u => count[s] = 0
  PROVE  T!Within(count, t, u) = 0
<1>1. UnitsIn(count, t, u) = {}
  BY DEF UnitsIn, Counts
<1>2. QED
  BY <1>1, UnitsCounted, FS_EmptySet

\* One more unit counts where its time is in the stretch.
LEMMA OneMore ==
  ASSUME NEW count \in Counts, NEW t \in Int, NEW u \in Int, NEW n \in T!Times
  PROVE  LET more == [count EXCEPT ![n] = @ + 1]
         IN  /\ more \in Counts
             /\ t <= n /\ n <= u => T!Within(more, t, u) = T!Within(count, t, u) + 1
             /\ ~(t <= n /\ n <= u) => T!Within(more, t, u) = T!Within(count, t, u)
<1> DEFINE more == [count EXCEPT ![n] = @ + 1]
           unit == <<n, count[n] + 1>>
<1>1. more \in Counts /\ more[n] = count[n] + 1 /\ count[n] \in Nat
      /\ \A s \in T!Times : s # n => more[s] = count[s]
  BY DEF Counts
<1>2. \A s \in T!Times : s \in Int /\ count[s] \in Nat
  BY DEF Counts, T!Times
<1> HIDE DEF more
<1>3. ASSUME t <= n, n <= u PROVE T!Within(more, t, u) = T!Within(count, t, u) + 1
  <2>1. UnitsIn(more, t, u) = UnitsIn(count, t, u) \cup {unit}
    <3>1. ASSUME NEW x \in UnitsIn(more, t, u) PROVE x \in UnitsIn(count, t, u) \cup {unit}
      <4>1. /\ x \in T!Times \X (Nat \ {0}) /\ x = <<x[1], x[2]>>
            /\ t <= x[1] /\ x[1] <= u /\ x[2] <= more[x[1]]
        BY DEF UnitsIn
      <4>2. x[1] # n => x[2] <= count[x[1]]
        BY <1>1, <4>1
      <4>3. x[1] = n => x[2] <= count[x[1]] \/ x[2] = count[n] + 1
        BY <1>1, <4>1
      <4>4. QED
        BY <4>1, <4>2, <4>3 DEF UnitsIn
    <3>2. unit \in UnitsIn(more, t, u)
      BY <1>1, <1>3 DEF UnitsIn
    <3>3. ASSUME NEW x \in UnitsIn(count, t, u) PROVE x \in UnitsIn(more, t, u)
      <4>1. /\ x \in T!Times \X (Nat \ {0})
            /\ t <= x[1] /\ x[1] <= u /\ x[2] <= count[x[1]]
        BY DEF UnitsIn
      <4>2. x[2] <= more[x[1]]
        BY <1>1, <1>2, <4>1
      <4>3. QED
        BY <4>1, <4>2 DEF UnitsIn
    <3>4. QED
      BY <3>1, <3>2, <3>3
  <2>2. unit \notin UnitsIn(count, t, u)
    BY <1>1 DEF UnitsIn
  <2>3. QED
    BY <1>1, <2>1, <2>2, UnitsCounted, FS_AddElement
<1>4. ASSUME ~(t <= n /\ n <= u) PROVE T!Within(more, t, u) = T!Within(count, t, u)
  <2>1. UnitsIn(more, t, u) = UnitsIn(count, t, u)
    BY <1>1, <1>4 DEF UnitsIn
  <2>2. QED
    BY <1>1, <2>1, UnitsCounted
<1>5. QED
  BY <1>1, <1>3, <1>4 DEF more

------------------------------------------------------------------------------
(***************************************************************************)
(* Sign-in.                                                                *)
(***************************************************************************)
Zero == [s \in T!Times |-> 0]

\* Nothing is noted ahead of time.
SignInNoted ==
    /\ now \in T!Times
    /\ granted \in Counts /\ \A s \in T!Times : s > now => granted[s] = 0
    /\ wrong \in Counts /\ \A s \in T!Times : s > now => wrong[s] = 0

\* What was granted in a stretch up to now and what could be granted at once
\* are within the burst and what flowed back.
SignInGrants ==
    /\ bucket # None => bucket \in [tokens : 0..Burst, last : 0..now]
    /\ \A t \in T!Times : t <= now =>
          T!Within(granted, t, now) + T!Refilled <= Burst + (now - t)

\* The failures counted are those since the first of the window, which were all
\* made in it; with it, or earlier by less than a window, lie fewer than the
\* limit in front of it.
First == fails.reset - Window

SignInWindow ==
    IF fails = None THEN wrong = Zero
    ELSE /\ fails \in [count : 1..MaxFails, reset : Int]
         /\ First \in 0..now
         /\ wrong[First] > 0
         /\ T!Within(wrong, First, now) = fails.count
         /\ \A s \in T!Times : s > fails.reset => wrong[s] = 0
         /\ \A t \in T!Times : t < First /\ First <= t + Window =>
               T!Within(wrong, t, First - 1) < MaxFails

SignInStretches ==
    \A t \in T!Times : t + Window <= SignInTime =>
        T!Within(wrong, t, t + Window) < 2 * MaxFails

SignInSession == session # None => session \in Int /\ session <= now + Session

SignInInv ==
    SignInNoted /\ SignInGrants /\ SignInWindow /\ SignInStretches /\ SignInSession

------------------------------------------------------------------------------
\* The numbers the steps of the sign-in are about.
LEMMA SignInNumbers ==
  ASSUME SignInNoted
  PROVE  /\ Burst \in Nat \ {0} /\ MaxFails \in Nat \ {0} /\ Window \in Nat
         /\ Session \in Nat /\ SignInTime \in Nat
         /\ now \in Nat /\ now <= SignInTime
         /\ \A s \in T!Times : s \in Nat /\ s <= SignInTime
         /\ \A s \in Nat : s <= SignInTime => s \in T!Times
         /\ None \notin [tokens : Nat, last : Nat]
         /\ None \notin [count : Nat, reset : Nat]
  BY ServerAssumption DEF T!ThrottleAssumption, T!Times, SignInNoted

LEMMA SignInInitInv == T!Init => SignInInv
<1> SUFFICES ASSUME T!Init PROVE SignInInv
  OBVIOUS
<1> USE DEF T!Init
<1>1. SignInNoted /\ granted = Zero /\ wrong = Zero /\ Zero \in Counts
  BY ServerAssumption DEF SignInNoted, Counts, Zero, T!Times, T!ThrottleAssumption
<1>2. \A t, u \in Int : T!Within(Zero, t, u) = 0
  BY <1>1, NothingWithin DEF Zero
<1>3. SignInGrants
  <2>1. T!Refilled = Burst
    BY <1>1, SignInNumbers DEF T!Refilled, T!Limiter
  <2>2. ASSUME NEW t \in T!Times, t <= now
        PROVE  T!Within(granted, t, now) + T!Refilled <= Burst + (now - t)
    <3>1. t \in Int /\ now \in Int
      BY <1>1, SignInNumbers
    <3>2. T!Within(granted, t, now) = 0
      BY <1>1, <1>2, <3>1
    <3>3. QED
      BY <1>1, <2>1, <2>2, <3>1, <3>2, SignInNumbers
  <2>3. QED
    BY <2>2 DEF SignInGrants
<1>4. SignInWindow /\ SignInSession
  BY <1>1 DEF SignInWindow, SignInSession
<1>5. SignInStretches
  <2>1. ASSUME NEW t \in T!Times PROVE T!Within(wrong, t, t + Window) = 0
    <3>1. t \in Int /\ t + Window \in Int
      BY <1>1, SignInNumbers
    <3>2. QED
      BY <1>1, <1>2, <3>1
  <2>2. 0 < 2 * MaxFails
    BY <1>1, SignInNumbers
  <2>3. QED
    BY <2>1, <2>2 DEF SignInStretches
<1>6. QED
  BY <1>1, <1>3, <1>4, <1>5 DEF SignInInv

\* What can be granted at once, and what a stretch of an idle tick adds.
LEMMA Available ==
  ASSUME SignInNoted, SignInGrants
  PROVE  /\ T!Refilled \in 0..Burst
         /\ bucket # None => /\ bucket.tokens \in Nat /\ bucket.last \in Nat
                             /\ bucket.last <= now
                             /\ T!Refilled = IF bucket.tokens + (now - bucket.last) > Burst
                                             THEN Burst
                                             ELSE bucket.tokens + (now - bucket.last)
         /\ bucket = None => T!Refilled = Burst
<1>1. CASE bucket = None
  BY <1>1, SignInNumbers DEF T!Refilled, T!Limiter
<1>2. CASE bucket # None
  <2>1. bucket.tokens \in 0..Burst /\ bucket.last \in 0..now
    BY <1>2 DEF SignInGrants
  <2>2. T!Refilled = IF bucket.tokens + (now - bucket.last) > Burst
                     THEN Burst ELSE bucket.tokens + (now - bucket.last)
    BY <1>2 DEF T!Refilled, T!Limiter
  <2>3. QED
    BY <1>2, <2>1, <2>2, SignInNumbers
<1>3. QED
  BY <1>1, <1>2

LEMMA IdleTick ==
  ASSUME SignInNoted, NEW count \in Counts, \A s \in T!Times : s > now => count[s] = 0,
         NEW t \in Nat, t <= now + 1
  PROVE  T!Within(count, t, now + 1) = T!Within(count, t, now)
<1>1. now \in Int /\ t \in Int /\ \A s \in T!Times : s \in Int
  BY SignInNumbers
<1>2. T!Within(count, t, now + 1) = T!Within(count, t, now) + T!Within(count, now + 1, now + 1)
  BY <1>1, Split
<1>3. T!Within(count, now + 1, now + 1) = 0
  BY <1>1, NothingWithin
<1>4. QED
  BY <1>1, <1>2, <1>3, UnitsCounted

LEMMA SignInTick == ASSUME SignInInv, T!Tick PROVE SignInInv'
<1> USE DEF T!Tick
<1>1. /\ SignInNoted /\ now' = now + 1 /\ now' \in T!Times
      /\ now \in Nat /\ \A s \in T!Times : s \in Nat
  BY SignInNumbers DEF SignInInv
<1>2. SignInNoted'
  BY <1>1 DEF SignInNoted
<1>3. SignInGrants'
  <2>1. bucket' # None => bucket' \in [tokens : 0..Burst, last : 0..now']
    BY <1>1, SignInNumbers DEF SignInInv, SignInGrants
  <2>2. T!Refilled' \in Int /\ T!Refilled' <= T!Refilled + 1 /\ T!Refilled' <= Burst
    <3>1. CASE bucket = None
      <4>1. T!Refilled' = Burst /\ T!Refilled = Burst
        BY <1>1, <3>1, SignInNumbers DEF T!Refilled, T!Limiter
      <4>2. QED
        BY <1>1, <4>1, SignInNumbers
    <3>2. CASE bucket # None
      <4>1. T!Refilled' = IF bucket.tokens + (now' - bucket.last) > Burst
                          THEN Burst ELSE bucket.tokens + (now' - bucket.last)
        BY <3>2 DEF T!Refilled, T!Limiter
      <4>2. QED
        BY <1>1, <3>2, <4>1, Available, SignInNumbers DEF SignInInv
    <3>3. QED
      BY <3>1, <3>2
  <2>3. ASSUME NEW t \in T!Times, t <= now'
        PROVE  T!Within(granted, t, now') + T!Refilled' <= Burst + (now' - t)
    <3>1. T!Within(granted, t, now') = T!Within(granted, t, now) /\ T!Within(granted, t, now) \in Nat
      BY <1>1, <2>3, IdleTick, UnitsCounted DEF SignInNoted
    <3>2. CASE t <= now
      <4>1. T!Within(granted, t, now) + T!Refilled <= Burst + (now - t)
        BY <3>2 DEF SignInInv, SignInGrants
      <4>2. QED
        <5>1. /\ T!Within(granted, t, now) \in Nat /\ T!Refilled \in Nat /\ t \in Nat
              /\ Burst \in Nat /\ now \in Nat
          BY <1>1, <3>1, Available, SignInNumbers DEF SignInInv
        <5>2. T!Within(granted, t, now) + T!Refilled' <= Burst + (now' - t)
          BY <1>1, <2>2, <4>1, <5>1
        <5>3. QED
          BY <3>1, <5>2
    <3>3. CASE t = now'
      <4>1. T!Within(granted, t, now) = 0
        BY <1>1, <3>3, NothingWithin DEF SignInNoted
      <4>2. QED
        BY <1>1, <2>2, <3>1, <3>3, <4>1, SignInNumbers
    <3>4. QED
      BY <1>1, <2>3, <3>2, <3>3
  <2>4. QED
    BY <2>1, <2>3 DEF SignInGrants
<1>4. SignInWindow'
  <2>1. CASE fails = None
    BY <2>1 DEF SignInInv, SignInWindow
  <2>2. CASE fails # None
    <3>1. First' = First /\ First \in Nat /\ First <= now
      BY <2>2 DEF SignInInv, SignInWindow, First
    <3>2. T!Within(wrong, First, now') = T!Within(wrong, First, now)
      BY <1>1, <3>1, IdleTick DEF SignInNoted
    <3>3. First \in 0..now'
      BY <1>1, <3>1
    <3>4. QED
      BY <2>2, <3>1, <3>2, <3>3 DEF SignInInv, SignInWindow
  <2>3. QED
    BY <2>1, <2>2
<1>5. SignInStretches'
  BY DEF SignInInv, SignInStretches
<1>6. SignInSession'
  BY <1>1, SignInNumbers DEF SignInInv, SignInSession
<1>7. QED
  BY <1>2, <1>3, <1>4, <1>5, <1>6 DEF SignInInv

\* A look at the bucket, whatever it is for.
LEMMA TokensKept ==
  ASSUME SignInInv, now' = now,
         T!Grant \/ T!Deny \/ UNCHANGED <<bucket, granted>>
  PROVE  /\ SignInGrants'
         /\ granted' \in Counts /\ \A s \in T!Times : s > now => granted'[s] = 0
<1>1. /\ SignInNoted /\ SignInGrants /\ now \in Nat /\ now \in T!Times
      /\ \A s \in T!Times : s \in Nat
      /\ granted \in Counts /\ \A s \in T!Times : s > now => granted[s] = 0
      /\ T!Refilled \in 0..Burst
  BY SignInNumbers, Available DEF SignInInv, SignInNoted
<1>2. CASE T!Grant
  <2>1. /\ bucket' = [tokens |-> T!Refilled - 1, last |-> now]
        /\ granted' = [granted EXCEPT ![now] = @ + 1]
        /\ T!Refilled - 1 \in 0..Burst /\ T!Refilled - 1 \in Nat
    BY <1>1, <1>2, SignInNumbers DEF T!Grant, T!Granted
  <2>2. bucket' # None
    BY <1>1, <2>1, SignInNumbers
  <2>3. T!Refilled' = T!Refilled - 1
    <3>1. T!Limiter' = [tokens |-> T!Refilled - 1, last |-> now]
      BY <2>1, <2>2 DEF T!Limiter
    <3>2. QED
      BY <1>1, <2>1, <3>1, SignInNumbers DEF T!Refilled
  <2>4. ASSUME NEW t \in T!Times, t <= now
        PROVE  T!Within(granted', t, now) + T!Refilled' <= Burst + (now - t)
    <3>1. T!Within(granted', t, now) = T!Within(granted, t, now) + 1
      <4>1. t \in Int /\ now \in Int /\ t <= now /\ now <= now
        BY <1>1, <2>4
      <4>2. T!Within([granted EXCEPT ![now] = @ + 1], t, now) = T!Within(granted, t, now) + 1
        BY <1>1, <4>1, OneMore
      <4>3. QED
        BY <2>1, <4>2
    <3>2. T!Within(granted, t, now) + T!Refilled <= Burst + (now - t)
      BY <1>1, <2>4 DEF SignInGrants
    <3>3. T!Within(granted, t, now) \in Nat
      BY <1>1, UnitsCounted
    <3>4. QED
      BY <1>1, <2>3, <3>1, <3>2, <3>3, SignInNumbers
  <2>5. granted' \in Counts /\ \A s \in T!Times : s > now => granted'[s] = 0
    BY <1>1, <2>1 DEF Counts
  <2>6. bucket' \in [tokens : 0..Burst, last : 0..now]
    BY <1>1, <2>1
  <2>7. QED
    BY <2>4, <2>5, <2>6 DEF SignInGrants
<1>3. CASE T!Deny
  <2>1. /\ bucket' = [tokens |-> T!Refilled, last |-> now] /\ granted' = granted
        /\ T!Refilled \in Nat
    BY <1>1, <1>3 DEF T!Deny
  <2>2. bucket' # None
    BY <1>1, <2>1, SignInNumbers
  <2>3. T!Refilled' = T!Refilled
    <3>1. T!Limiter' = [tokens |-> T!Refilled, last |-> now]
      BY <2>1, <2>2 DEF T!Limiter
    <3>2. QED
      BY <1>1, <2>1, <3>1, SignInNumbers DEF T!Refilled
  <2>4. bucket' \in [tokens : 0..Burst, last : 0..now]
    BY <1>1, <2>1
  <2>5. QED
    BY <1>1, <2>1, <2>3, <2>4 DEF SignInGrants
<1>4. CASE UNCHANGED <<bucket, granted>>
  BY <1>1, <1>4 DEF SignInGrants, T!Refilled, T!Limiter
<1>5. QED
  BY <1>2, <1>3, <1>4

\* The failures stand as they are.
LEMMA FailuresKept ==
  ASSUME SignInInv, now' = now, wrong' = wrong, fails' = fails
  PROVE  SignInWindow' /\ SignInStretches'
  BY DEF SignInInv, SignInWindow, SignInStretches, First

\* A stretch that ends later than now has no more in it than the one up to now.
LEMMA UpToNow ==
  ASSUME SignInNoted, NEW t \in T!Times, NEW u \in Nat, t <= now, now <= u
  PROVE  T!Within(wrong, t, u) = T!Within(wrong, t, now)
<1>1. now \in Nat /\ t \in Nat /\ \A s \in T!Times : s \in Nat
  BY SignInNumbers
<1>2. wrong \in Counts /\ \A s \in T!Times : now + 1 <= s /\ s <= u => wrong[s] = 0
  BY <1>1 DEF SignInNoted
<1>3. T!Within(wrong, t, u) = T!Within(wrong, t, now) + T!Within(wrong, now + 1, u)
  BY <1>1, <1>2, Split
<1>4. T!Within(wrong, now + 1, u) = 0
  BY <1>1, <1>2, NothingWithin
<1>5. T!Within(wrong, t, now) \in Nat
  BY <1>1, <1>2, UnitsCounted
<1>6. QED
  BY <1>3, <1>4, <1>5

\* The failures after the first of a window are fewer than the limit.
LEMMA AfterFirst ==
  ASSUME SignInInv, fails # None, NEW t \in T!Times, First < t, t <= now + 1
  PROVE  T!Within(wrong, t, now) < MaxFails
<1>1. /\ SignInNoted /\ now \in Nat /\ t \in Nat /\ First \in Nat /\ First <= now
      /\ First \in T!Times /\ wrong \in Counts /\ \A s \in T!Times : s \in Nat
      /\ fails.count \in 1..MaxFails /\ MaxFails \in Nat
  BY SignInNumbers DEF SignInInv, SignInNoted, SignInWindow
<1>2. wrong[First] > 0 /\ wrong[First] \in Nat
  BY <1>1 DEF SignInInv, SignInWindow, Counts
<1>3. T!Within(wrong, First, now) = T!Within(wrong, First, t - 1) + T!Within(wrong, t, now)
  <2>1. t - 1 \in Int /\ First <= (t - 1) + 1 /\ t - 1 <= now /\ (t - 1) + 1 = t
    BY <1>1
  <2>2. QED
    BY <1>1, <2>1, Split
<1>4. T!Within(wrong, First, t - 1) > 0
  <2>1. t - 1 \in Int /\ First <= t - 1
    BY <1>1
  <2>2. <<First, 1>> \in UnitsIn(wrong, First, t - 1)
    BY <1>1, <1>2, <2>1 DEF UnitsIn
  <2>3. Cardinality(UnitsIn(wrong, First, t - 1)) # 0
    BY <1>1, <2>1, <2>2, UnitsCounted, FS_EmptySet
  <2>4. QED
    BY <1>1, <2>1, <2>3, UnitsCounted
<1>5. T!Within(wrong, First, now) = fails.count
  BY DEF SignInInv, SignInWindow
<1>6. T!Within(wrong, First, t - 1) \in Nat /\ T!Within(wrong, t, now) \in Nat
  BY <1>1, UnitsCounted
<1>7. QED
  BY <1>1, <1>3, <1>4, <1>5, <1>6

\* However far a stretch that reaches up to now goes back, with one more failure
\* that may be counted it stays below twice the limit.
LEMMA RoomForOne ==
  ASSUME SignInInv, NEW t \in T!Times, t <= now, now <= t + Window,
         T!Counted.count < MaxFails
  PROVE  T!Within(wrong, t, now) + 1 < 2 * MaxFails
<1>1. /\ SignInNoted /\ now \in Nat /\ t \in Nat /\ Window \in Nat
      /\ MaxFails \in Nat \ {0} /\ wrong \in Counts /\ \A s \in T!Times : s \in Nat
      /\ T!Within(wrong, t, now) \in Nat
  BY SignInNumbers, UnitsCounted DEF SignInInv, SignInNoted
<1>2. CASE fails = None
  <2>1. T!Within(wrong, t, now) = 0
    BY <1>1, <1>2, NothingWithin DEF SignInInv, SignInWindow, Zero
  <2>2. QED
    BY <1>1, <2>1
<1>3. CASE fails # None
  <2>1. /\ First \in Nat /\ First <= now /\ fails.reset = First + Window
        /\ fails.count \in 1..MaxFails
        /\ T!Within(wrong, First, now) = fails.count
    BY <1>1, <1>3 DEF SignInInv, SignInWindow, First
  <2>2. CASE First < t
    <3>1. T!Within(wrong, t, now) < MaxFails
      BY <1>1, <1>3, <2>2, AfterFirst
    <3>2. QED
      BY <1>1, <3>1
  <2>3. CASE t <= First
    <3>1. ~T!Forgotten /\ fails.count < MaxFails
      BY <1>1, <1>3, <2>1, <2>3 DEF T!Forgotten, T!Counted
    <3>2. CASE t = First
      BY <1>1, <2>1, <3>1, <3>2
    <3>3. CASE t < First
      <4>1. T!Within(wrong, t, now) = T!Within(wrong, t, First - 1) + T!Within(wrong, First, now)
        <5>1. First - 1 \in Int /\ t <= (First - 1) + 1 /\ First - 1 <= now /\ (First - 1) + 1 = First
          BY <1>1, <2>1, <3>3
        <5>2. QED
          BY <1>1, <5>1, Split
      <4>2. T!Within(wrong, t, First - 1) < MaxFails
        <5>1. First <= t + Window
          BY <1>1, <2>1
        <5>2. QED
          BY <1>3, <3>3, <5>1 DEF SignInInv, SignInWindow
      <4>3. T!Within(wrong, t, First - 1) \in Nat
        BY <1>1, <2>1, UnitsCounted
      <4>4. QED
        BY <1>1, <2>1, <3>1, <4>1, <4>2, <4>3
    <3>4. QED
      BY <1>1, <2>1, <2>3, <3>2, <3>3
  <2>4. QED
    BY <1>1, <2>1, <2>2, <2>3
<1>4. QED
  BY <1>2, <1>3

LEMMA FailureCounted ==
  ASSUME SignInInv, T!SignInFails
  PROVE  /\ wrong' \in Counts /\ \A s \in T!Times : s > now => wrong'[s] = 0
         /\ SignInWindow' /\ SignInStretches'
<1>1. /\ SignInNoted /\ now \in Nat /\ now \in T!Times /\ Window \in Nat
      /\ MaxFails \in Nat \ {0} /\ wrong \in Counts /\ \A s \in T!Times : s \in Nat
      /\ \A s \in T!Times : s > now => wrong[s] = 0
  BY SignInNumbers DEF SignInInv, SignInNoted
<1>2. /\ T!Counted.count < MaxFails /\ now' = now
      /\ fails' = [T!Counted EXCEPT !.count = @ + 1]
      /\ wrong' = [wrong EXCEPT ![now] = @ + 1]
  BY DEF T!SignInFails
<1>3. /\ wrong' \in Counts /\ wrong'[now] > 0
      /\ \A s \in T!Times : s # now => wrong'[s] = wrong[s]
  BY <1>1, <1>2 DEF Counts
<1>4. ASSUME NEW t \in Int, NEW u \in Int
      PROVE  T!Within(wrong', t, u) =
                 IF t <= now /\ now <= u THEN T!Within(wrong, t, u) + 1
                 ELSE T!Within(wrong, t, u)
  <2>1. T!Within([wrong EXCEPT ![now] = @ + 1], t, u) =
            IF t <= now /\ now <= u THEN T!Within(wrong, t, u) + 1
            ELSE T!Within(wrong, t, u)
    BY <1>1, OneMore
  <2>2. QED
    BY <1>2, <2>1
<1>5. SignInStretches'
  <2>1. ASSUME NEW t \in T!Times, t + Window <= SignInTime
        PROVE  T!Within(wrong', t, t + Window) < 2 * MaxFails
    <3>1. t \in Int /\ t + Window \in Int /\ t + Window \in Nat
      BY <1>1
    <3>2. CASE t <= now /\ now <= t + Window
      <4>1. T!Within(wrong', t, t + Window) = T!Within(wrong, t, t + Window) + 1
        BY <1>4, <3>1, <3>2
      <4>2. T!Within(wrong, t, t + Window) = T!Within(wrong, t, now)
        BY <1>1, <3>1, <3>2, UpToNow
      <4>3. T!Within(wrong, t, now) + 1 < 2 * MaxFails
        BY <1>2, <3>2, RoomForOne
      <4>4. QED
        BY <4>1, <4>2, <4>3
    <3>3. CASE ~(t <= now /\ now <= t + Window)
      BY <1>4, <2>1, <3>1, <3>3 DEF SignInInv, SignInStretches
    <3>4. QED
      BY <3>2, <3>3
  <2>2. QED
    BY <2>1 DEF SignInStretches
<1>6. SignInWindow'
  <2>1. CASE fails = None \/ T!Forgotten
    <3>1. fails' = [count |-> 1, reset |-> now + Window]
      BY <1>2, <2>1 DEF T!Counted
    <3>2. fails' # None /\ fails' \in [count : 1..MaxFails, reset : Int]
      <4>1. 1 \in Nat /\ 1 \in 1..MaxFails /\ now + Window \in Nat /\ now + Window \in Int
        BY <1>1
      <4>2. fails' \in [count : Nat, reset : Nat]
        BY <3>1, <4>1
      <4>3. QED
        BY <1>1, <3>1, <4>1, <4>2, SignInNumbers
    <3>3. First' = now
      BY <1>1, <3>1 DEF First
    <3>4. wrong[now] = 0
      BY <1>1, <2>1 DEF T!Forgotten, SignInInv, SignInWindow, Zero
    <3>5. T!Within(wrong', now, now) = 1
      <4>1. T!Within(wrong, now, now) = 0
        BY <1>1, <3>4, NothingWithin
      <4>2. QED
        BY <1>1, <1>4, <4>1
    <3>6. ASSUME NEW t \in T!Times, t < now, now <= t + Window
          PROVE  T!Within(wrong', t, now - 1) < MaxFails
      <4>1. t \in Int /\ now - 1 \in Int /\ ~(now <= now - 1)
        BY <1>1
      <4>2. T!Within(wrong', t, now - 1) = T!Within(wrong, t, now - 1)
        BY <1>4, <4>1
      <4>3. CASE fails = None
        <5>1. T!Within(wrong, t, now - 1) = 0
          BY <1>1, <4>1, <4>3, NothingWithin DEF SignInInv, SignInWindow, Zero
        <5>2. QED
          BY <1>1, <4>2, <5>1
      <4>4. CASE fails # None
        <5>1. First \in Nat /\ fails.reset = First + Window /\ now > fails.reset
          BY <1>1, <2>1, <4>4 DEF SignInInv, SignInWindow, First, T!Forgotten
        <5>2. First < t /\ t <= now + 1
          BY <1>1, <3>6, <5>1
        <5>3. T!Within(wrong, t, now) < MaxFails
          BY <4>4, <5>2, AfterFirst
        <5>4. T!Within(wrong, t, now) = T!Within(wrong, t, now - 1) + T!Within(wrong, now, now)
          <6>1. t <= (now - 1) + 1 /\ now - 1 <= now /\ (now - 1) + 1 = now
            BY <1>1, <3>6
          <6>2. QED
            BY <1>1, <4>1, <6>1, Split
        <5>5. T!Within(wrong, now, now) = 0
          BY <1>1, <3>4, NothingWithin
        <5>6. T!Within(wrong, t, now - 1) \in Nat
          BY <1>1, <4>1, UnitsCounted
        <5>7. QED
          BY <4>2, <5>3, <5>4, <5>5, <5>6
      <4>5. QED
        BY <4>3, <4>4
    <3>7. \A s \in T!Times : s > now + Window => wrong'[s] = 0
      BY <1>1, <1>3
    <3>8. now \in 0..now
      BY <1>1
    <3>9. fails'.count = 1 /\ fails'.reset = now + Window /\ Window' = Window
      BY <3>1
    <3> HIDE DEF First
    <3>10. QED
      BY <1>2, <1>3, <3>2, <3>3, <3>5, <3>6, <3>7, <3>8, <3>9 DEF SignInWindow
  <2>2. CASE fails # None /\ ~T!Forgotten
    <3>1. /\ fails \in [count : 1..MaxFails, reset : Int] /\ First \in Nat /\ First <= now
          /\ First \in 0..now /\ First \in T!Times
          /\ fails.reset = First + Window /\ now <= fails.reset
          /\ T!Within(wrong, First, now) = fails.count
      BY <1>1, <2>2, SignInNumbers DEF SignInInv, SignInWindow, First, T!Forgotten
    <3>2. /\ fails' = [fails EXCEPT !.count = @ + 1] /\ fails.count < MaxFails
      BY <1>2, <2>2 DEF T!Counted
    <3>3. /\ fails' \in [count : 1..MaxFails, reset : Int]
          /\ fails'.count = fails.count + 1 /\ fails'.reset = fails.reset
      BY <1>1, <3>1, <3>2
    <3>4. fails' # None /\ First' = First
      <4>1. fails' \in [count : Nat, reset : Nat]
        BY <1>1, <3>1, <3>2
      <4>2. QED
        BY <1>1, <3>3, <4>1, SignInNumbers DEF First
    <3>5. wrong'[First] > 0
      BY <1>1, <1>3, <2>2, <3>1 DEF SignInInv, SignInWindow
    <3>6. T!Within(wrong', First, now) = fails'.count
      BY <1>1, <1>4, <3>1, <3>3
    <3>7. \A s \in T!Times : s > fails.reset => wrong'[s] = 0
      BY <1>1, <1>3, <3>1
    <3>8. ASSUME NEW t \in T!Times, t < First, First <= t + Window
          PROVE  T!Within(wrong', t, First - 1) < MaxFails
      <4>1. t \in Int /\ First - 1 \in Int /\ ~(now <= First - 1)
        BY <1>1, <3>1
      <4>2. T!Within(wrong', t, First - 1) = T!Within(wrong, t, First - 1)
        BY <1>4, <4>1
      <4>3. QED
        BY <2>2, <3>8, <4>2 DEF SignInInv, SignInWindow
    <3>9. QED
      BY <1>2, <3>1, <3>3, <3>4, <3>5, <3>6, <3>7, <3>8 DEF SignInWindow
  <2>3. QED
    BY <2>1, <2>2
<1>7. \A s \in T!Times : s > now => wrong'[s] = 0
  BY <1>1, <1>3
<1>8. QED
  BY <1>3, <1>5, <1>6, <1>7

LEMMA SignInPreserved == ASSUME SignInInv, [T!Next]_TVars PROVE SignInInv'
<1>1. CASE T!Tick
  BY <1>1, SignInTick
<1>2. ASSUME now' = now, wrong' = wrong, fails' = fails,
             session' = session \/ session' = None,
             T!Grant \/ T!Deny \/ UNCHANGED <<bucket, granted>>
      PROVE  SignInInv'
  <2>1. SignInNoted' /\ SignInSession'
    BY <1>2, TokensKept DEF SignInInv, SignInNoted, SignInSession
  <2>2. QED
    BY <1>2, <2>1, TokensKept, FailuresKept DEF SignInInv
<1>3. CASE T!TooFast \/ T!LockedOut \/ T!SignOut
  BY <1>2, <1>3 DEF T!TooFast, T!LockedOut, T!SignOut
<1>4. CASE T!SignInFails
  <2>1. now' = now /\ session' = session /\ T!Grant
    BY <1>4 DEF T!SignInFails
  <2>2. SignInGrants' /\ SignInNoted'
    BY <1>4, <2>1, TokensKept, FailureCounted DEF SignInInv, SignInNoted
  <2>3. QED
    BY <1>4, <2>1, <2>2, FailureCounted DEF SignInInv, SignInSession
<1>5. CASE T!SignIn
  <2>1. /\ now' = now /\ fails' = None /\ wrong' = Zero /\ session' = now + Session /\ T!Grant
        /\ SignInNoted
    BY <1>5 DEF T!SignIn, Zero, SignInInv
  <2>2. SignInGrants' /\ SignInNoted' /\ Zero \in Counts
    <3>1. Zero \in Counts
      BY DEF Zero, Counts
    <3>2. QED
      BY <2>1, <3>1, TokensKept DEF SignInNoted, Zero
  <2>3. SignInWindow' /\ SignInSession'
    BY <2>1, SignInNumbers DEF SignInWindow, SignInSession
  <2>4. SignInStretches'
    <3>1. ASSUME NEW t \in T!Times PROVE T!Within(Zero, t, t + Window) < 2 * MaxFails
      <4>1. t \in Int /\ t + Window \in Int /\ 0 < 2 * MaxFails
        BY <2>1, SignInNumbers
      <4>2. T!Within(Zero, t, t + Window) = 0
        BY <2>2, <4>1, NothingWithin DEF Zero
      <4>3. QED
        BY <4>1, <4>2
    <3>2. QED
      BY <2>1, <3>1 DEF SignInStretches
  <2>5. QED
    BY <2>2, <2>3, <2>4 DEF SignInInv
<1>6. CASE UNCHANGED TVars
  BY <1>2, <1>6 DEF TVars
<1>7. QED
  BY <1>1, <1>3, <1>4, <1>5, <1>6 DEF T!Next

LEMMA SignInBounded == ASSUME SignInInv PROVE T!Throttled
<1>1. /\ SignInNoted /\ now \in Nat /\ Window \in Nat /\ granted \in Counts
      /\ \A s \in T!Times : s \in Nat
  BY SignInNumbers DEF SignInInv, SignInNoted
<1>2. ASSUME NEW t \in T!Times, t <= now PROVE T!Within(granted, t, now) <= Burst + (now - t)
  <2>1. T!Within(granted, t, now) + T!Refilled <= Burst + (now - t)
    BY <1>2 DEF SignInInv, SignInGrants
  <2>2. T!Within(granted, t, now) \in Nat /\ T!Refilled \in Nat /\ t \in Nat /\ Burst \in Nat
    BY <1>1, UnitsCounted, Available, SignInNumbers DEF SignInInv
  <2>3. QED
    BY <1>1, <2>1, <2>2
<1>3. ASSUME fails # None
      PROVE  /\ fails.reset - Window >= 0
             /\ wrong[fails.reset - Window] > 0
             /\ T!Within(wrong, fails.reset - Window, now) = fails.count
             /\ fails.count <= MaxFails
             /\ fails.reset <= now + Window
  BY <1>1, <1>3, SignInNumbers DEF SignInInv, SignInWindow, First
<1>4. T!LetIn => session <= now + Session
  BY DEF T!LetIn, SignInInv, SignInSession
<1>5. QED
  BY <1>2, <1>3, <1>4 DEF T!Throttled, SignInInv, SignInStretches

\* For any burst, limit, window and length of the session: grants, failures and the lockout keep to their bounds.
THEOREM SignInIsThrottled == Spec => []Throttled
<1> DEFINE Inv == part = "sign-in" => SignInInv
<1>1. Init => Inv
  BY SignInInitInv DEF Init
<1>2. Inv /\ [Next]_vars => Inv'
  BY SignInSteps, SignInPreserved
<1>3. Inv => Throttled
  BY SignInBounded DEF Throttled
<1>4. QED
  BY <1>1, <1>2, <1>3, PTL DEF Spec
=============================================================================

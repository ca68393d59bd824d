---------------------------- MODULE NetworkInput ----------------------------
(***************************************************************************)
(* How a network comes to be: from the rows of an uploaded plan (parse_plan*)
(* of api/plan.py), from the latest PM file of each node (XMLParser.parse  *)
(* and build_network_from_pm), from the live network for a sample plan     *)
(* (network_to_plan), and back into rows (_export_rows); with the checks   *)
(* and indexes of Cell, NeighborRelation and Network (models.py).          *)
(*                                                                         *)
(* A row, a reading and a cell are records.  Cells of a network are a      *)
(* function of their ids, and links are ordered pairs of ids.  None stands *)
(* for a value that is missing or not a number.                            *)
(***************************************************************************)
EXTENDS Integers, Sequences, SequencesExt

CONSTANTS
    Types,      \* the cell types allowed, "macro" one of them
    None,
    Text,       \* a value that is given but is no number
    NotANumber  \* "nan" or "inf": float takes it, int raises

\* What is missing, or no number, is none of the values that are looked for.
InputAssumption ==
    /\ None \notin Nat \cup {"", "FDD", "TDD"}
    /\ NotANumber \notin Nat

IsSequence(s) == Len(s) \in Nat /\ DOMAIN s = 1..Len(s)

\* _classify: a result that is looked at has an id and one of two technologies.
FilesRead(files) ==
    /\ IsSequence(files)
    /\ \A n \in DOMAIN files :
          /\ IsSequence(files[n].results)
          /\ \A k \in DOMAIN files[n].results :
                /\ files[n].results[k].id # None
                /\ files[n].results[k].tech \in {"lte", "nr"}

------------------------------------------------------------------------------
(***************************************************************************)
(* A cell and its validators.                                              *)
(***************************************************************************)
PciMax(tech) == IF tech = "nr" THEN 1007 ELSE 503

ValidCell(cell) ==
    /\ cell.pci \in 0..PciMax(cell.tech)
    /\ cell.type \in Types
    /\ cell.tech = "lte" =>
          /\ cell.duplex \in {"FDD", "TDD"}
          /\ cell.ul = None <=> cell.duplex = "TDD"
    /\ cell.tech = "nr" => cell.duplex = None

CellType(type) == IF type \in Types THEN type ELSE "macro"

------------------------------------------------------------------------------
(***************************************************************************)
(* parse_plan.                                                             *)
(***************************************************************************)

\* A missing channel, and channel 0, become 1.
Channel(arfcn) == IF arfcn \in {None, 0} THEN 1 ELSE arfcn

RowDuplex(row) ==
    IF row.tech = "nr" THEN None
    ELSE IF row.duplex = "" THEN "FDD"
    ELSE row.duplex

RowCell(row) ==
    [id |-> row.id, tech |-> row.tech, pci |-> row.pci, at |-> row.at,
     type |-> CellType(row.type), dl |-> Channel(row.arfcn),
     ul |-> IF RowDuplex(row) = "FDD" THEN Channel(row.arfcn) ELSE None,
     duplex |-> RowDuplex(row)]

\* The checks before the channel is looked at.
RowPlaced(row) ==
    /\ row.id # None
    /\ row.at # None
    /\ row.pci # None
    /\ row.tech \in {"lte", "nr"}
    /\ row.pci \in 0..PciMax(row.tech)

RowOK(row) ==
    /\ RowPlaced(row)
    /\ row.tech = "lte" => row.duplex \in {"", "FDD", "TDD"}
    /\ ValidCell(RowCell(row))

\* A row whose id an accepted row has is refused; one refused for another
\* reason leaves its id free.
FirstOfId(sheet, n) ==
    \A m \in 1..(n - 1) : sheet[m].id = sheet[n].id => ~RowOK(sheet[m])

Accepted(sheet) == {n \in DOMAIN sheet : RowOK(sheet[n]) /\ FirstOfId(sheet, n)}

\* A number that is none ends the reading of the whole sheet with an error: as
\* a PCI in any row that is looked at, as a channel in one that is placed.
PlanRaises(sheet) ==
    \E n \in DOMAIN sheet :
        /\ FirstOfId(sheet, n)
        /\ \/ sheet[n].id # None /\ sheet[n].pci = NotANumber
           \/ RowPlaced(sheet[n]) /\ sheet[n].arfcn = NotANumber

RowIds(sheet) == {sheet[n].id : n \in Accepted(sheet)}

PlanCells(sheet) ==
    [i \in RowIds(sheet) |->
        RowCell(sheet[CHOOSE n \in Accepted(sheet) : sheet[n].id = i])]

\* Neighbours that are no row of the plan are counted and left out.
Named(sheet) ==
    UNION {{<<sheet[n].id, t>> : t \in sheet[n].nbrs \cap RowIds(sheet)}
           : n \in Accepted(sheet)}

\* Faulty variant: a neighbour is one in the direction it is listed in.
BothWaysOnce(pairs) == {v \in pairs : v[1] # v[2]}

BothWays(pairs) ==
    {v \in pairs \cup {<<v[2], v[1]>> : v \in pairs} : v[1] # v[2]}

ParsePlan(sheet) == [cells |-> PlanCells(sheet), links |-> BothWays(Named(sheet))]

\* _export_rows: one row for each cell, with the neighbours it is the source
\* of in a relation.
ExportRow(net, i) ==
    LET cell == net.cells[i]
    IN  [id |-> i, tech |-> cell.tech, pci |-> cell.pci, at |-> cell.at,
         type |-> cell.type, arfcn |-> cell.dl,
         duplex |-> IF cell.duplex = None THEN "" ELSE cell.duplex,
         nbrs |-> {j \in DOMAIN net.cells : <<i, j>> \in net.links}]

Export(net) == [n \in DOMAIN SetToSeq(DOMAIN net.cells) |->
                   ExportRow(net, SetToSeq(DOMAIN net.cells)[n])]

------------------------------------------------------------------------------
(***************************************************************************)
(* The PM files, in the order the store has them in.                       *)
(***************************************************************************)

\* An object of a PM file: a cell and the class it is measured as.
Object(result) ==
    <<result.id, result.tech, IF result.tech = "nr" THEN None ELSE result.duplex>>

\* parse: results of one object are put together, in the place of the first.
Objects(file) ==
    {n \in DOMAIN file.results :
        \A m \in 1..(n - 1) : Object(file.results[m]) # Object(file.results[n])}

\* The value given last for a counter, read as a number.
Counter(file, n, name) ==
    LET given == {m \in DOMAIN file.results :
                     /\ Object(file.results[m]) = Object(file.results[n])
                     /\ file.results[m][name] # None}
        value == file.results[Max(given)][name]
    IN  IF given = {} \/ value = Text THEN None ELSE value

ReadingCell(file, n) ==
    LET object == file.results[n]
    IN  [id |-> object.id, tech |-> object.tech, pci |-> Counter(file, n, "pci"),
         at |-> file.at, type |-> CellType(file.type),
         dl |-> Counter(file, n, "arfcn"),
         ul |-> IF Object(object)[3] = "TDD" THEN None ELSE Counter(file, n, "ul"),
         duplex |-> Object(object)[3]]

\* The objects of a node that pass the validators as cells; one without a PCI
\* is no cell.
Made(file) ==
    {n \in Objects(file) : /\ Counter(file, n, "pci") # None
                           /\ ValidCell(ReadingCell(file, n))}

NodeIds(file) == {file.results[n].id : n \in Made(file)}

\* Of a cell that two objects or the files of two nodes give, the later stays.
NodeCell(file, i) ==
    ReadingCell(file, Max({n \in Made(file) : file.results[n].id = i}))

PmCells(files) ==
    [i \in UNION {NodeIds(files[n]) : n \in DOMAIN files} |->
        NodeCell(files[Max({n \in DOMAIN files : i \in NodeIds(files[n])})], i)]

\* _collect_relations: counters of pairs, whatever cells there are, the later
\* node's for a pair that two report.
Counters(files) ==
    UNION {{v \in files[n].measured :
               \A m \in (n + 1)..Len(files) : \A w \in files[m].measured :
                   <<w.src, w.tgt>> # <<v.src, v.tgt>>}
           : n \in DOMAIN files}

Between(files) ==
    {v \in Counters(files) : v.src \in DOMAIN PmCells(files)
                             /\ v.tgt \in DOMAIN PmCells(files)}

\* _expand_relations: the cells of a node with each other and with those of the
\* nodes it names.
NodePairs(files) ==
    UNION {NodeIds(files[v[1]]) \X NodeIds(files[v[2]]) :
             v \in {v \in (DOMAIN files) \X (DOMAIN files) :
                      v[1] = v[2] \/ files[v[2]].node \in files[v[1]].peers}}

\* Measured relations keep their direction.
PmLinks(files) ==
    IF Counters(files) # {} THEN {<<v.src, v.tgt>> : v \in Between(files)}
    ELSE BothWays(NodePairs(files))

\* A number that is none, or counters that contradict each other, end the
\* building with an error; then there is no network.
Raises(files) ==
    \/ \E n \in DOMAIN files : \E k \in Objects(files[n]) :
          /\ Counter(files[n], k, "pci") # None
          /\ \E name \in {"pci", "arfcn", "ul"} :
                Counter(files[n], k, name) = NotANumber
    \/ \E v \in Between(files) : v.src = v.tgt \/ v.good + v.bad > v.tries

BuildFromPm(files) ==
    [cells |-> PmCells(files), links |-> PmLinks(files)]

\* network_to_plan: the cells of a region and the relations between them.
Sample(net, keep) ==
    [cells |-> [i \in keep |-> net.cells[i]],
     links |-> {v \in net.links : v[1] \in keep /\ v[2] \in keep}]

\* _rebuild_indexes and neighbors_of: a relation is one for both its ends.
NeighborsOf(net, i) ==
    {j \in DOMAIN net.cells :
        /\ <<i, j>> \in net.links \/ <<j, i>> \in net.links
        /\ net.cells[j].tech = net.cells[i].tech}

------------------------------------------------------------------------------
(***************************************************************************)
(* Properties of the inputs.                                               *)
(***************************************************************************)
Sound(net) ==
    /\ \A i \in DOMAIN net.cells : net.cells[i].id = i /\ ValidCell(net.cells[i])
    /\ \A v \in net.links : v[1] # v[2] /\ {v[1], v[2]} \subseteq DOMAIN net.cells

Adjacency(net) == [i \in DOMAIN net.cells |-> NeighborsOf(net, i)]

\* A plan that is read keeps its network: what is read is sound, its links go
\* both ways, and the workbook exported from it can be read and reads back as
\* the same cells and links.
PlanAgrees(sheet) ==
    PlanRaises(sheet) \/
    LET net == ParsePlan(sheet)
    IN  /\ Sound(net)
        /\ \A v \in net.links : <<v[2], v[1]>> \in net.links
        /\ ~PlanRaises(Export(net))
        /\ ParsePlan(Export(net)) = net
        /\ Accepted(Export(net)) = DOMAIN Export(net)

OfOneNode(files) ==
    \A n, m \in DOMAIN files : n # m => NodeIds(files[n]) \cap NodeIds(files[m]) = {}

Located(net) ==
    \A i \in DOMAIN net.cells : /\ net.cells[i].at # None
                                /\ net.cells[i].dl \notin {None, 0}

\* A network of PM files is sound; while every cell is in the file of one node
\* it does not depend on the order of the nodes; and a sample of it, exported
\* and read back, has the cells and the neighbourhoods of the live network if
\* all its cells have a place and a channel.
PmAgrees(files) ==
    Raises(files) \/
    LET net == BuildFromPm(files)
    IN  /\ Sound(net)
        /\ OfOneNode(files) => BuildFromPm(Reverse(files)) = net
        /\ \A keep \in SUBSET DOMAIN net.cells :
              LET sample == Sample(net, keep)
                  back   == ParsePlan(Export(sample))
              IN  Located(sample) =>
                    /\ ~PlanRaises(Export(sample))
                    /\ Adjacency(back) = Adjacency(sample)
                    /\ \A i \in keep : back.cells[i].pci = sample.cells[i].pci
                                       /\ back.cells[i].dl = sample.cells[i].dl
=============================================================================

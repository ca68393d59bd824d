------------------------------ MODULE MCServer ------------------------------
(***************************************************************************)
(* Instance of Server for TLC: one small instance of each part.            *)
(***************************************************************************)
EXTENDS Server, TLC

CONSTANTS a, b, c, d, e

------------------------------------------------------------------------------
(***************************************************************************)
(* "views": five cells around b; a and c are near each other but never     *)
(* measured it, and e is on an unknown carrier.                            *)
(***************************************************************************)
MCWeight == [xy \in Cells \X Cells |-> 1]
MCOrder == a :> 1 @@ b :> 2 @@ c :> 3 @@ d :> 4 @@ e :> 5
MCPriority == <<3, 6, 30>>
MCRealNbrs == a :> {b} @@ b :> {a, c, e} @@ c :> {b, d} @@ d :> {c} @@ e :> {b}
MCNbrs == a :> {b, c} @@ b :> {a, c, e} @@ c :> {a, b, d} @@ d :> {c} @@ e :> {b}
MCFreq == a :> 1 @@ b :> 1 @@ c :> 1 @@ d :> 1 @@ e :> NoFreq
MCPool == a :> Pcis @@ b :> Pcis @@ c :> {0, 1, 3} @@ d :> Pcis @@ e :> {0, 1}
MCAttempts == {a, b} :> 4 @@ {b, c} :> 4 @@ {c, d} :> 4 @@ {b, e} :> 1
MCFailures == {a, b} :> 2 @@ {b, c} :> 1 @@ {c, d} :> 1 @@ {b, e} :> 1

\* d is at the end of the chain: two PCIs are enough for it.
MCAssignments == {p \in [Cells -> Pcis] : p[d] \in {0, 3}}

Row(i, tech, p, arfcn, duplex, nbrs) ==
    [id |-> i, tech |-> tech, pci |-> p, at |-> 1, type |-> "other",
     arfcn |-> arfcn, duplex |-> duplex, nbrs |-> nbrs]

Rows ==
    {Row(1, "lte", 503, 7, "", {2, 9}), Row(1, "lte", 504, 7, "FDD", {2}),
     Row(1, "lte", 3, 0, "TDD", {1, 2}), Row(2, "lte", 3, 7, "x", {}),
     Row(2, "nr", 1007, None, "x", {1}),
     [Row(2, "nr", 5, 8, "", {1, 3}) EXCEPT !.type = "das"],
     Row(None, "nr", 5, 8, "", {1}),
     [Row(3, "lte", 5, 7, "TDD", {1, 2}) EXCEPT !.at = None],
     Row(3, "lte", 4, 7, "TDD", {2}), Row(3, "gsm", 4, 7, "", {2}),
     Row(3, "nr", None, 7, "", {}), Row(1, "lte", NaN, 7, "", {}),
     Row(2, "nr", 6, NaN, "", {1})}

Result(i, tech, p, arfcn, ul, duplex) ==
    [id |-> i, tech |-> tech, pci |-> p, arfcn |-> arfcn, ul |-> ul, duplex |-> duplex]

Results ==
    {Result(1, "lte", 3, 7, 8, "FDD"), Result(1, "lte", 5, 7, 8, "TDD"),
     Result(1, "lte", 504, 7, 8, "TDD"),
     Result(2, "lte", 4, 7, None, "FDD"), Result(2, "lte", None, None, 8, "FDD"),
     Result(2, "nr", 6, None, None, "FDD"), Result(3, "nr", 6, 9, None, "FDD"),
     Result(3, "nr", Text, 9, None, "FDD"), Result(3, "nr", NaN, 9, None, "FDD")}

HO(s, t, tries, good, bad) ==
    [src |-> s, tgt |-> t, tries |-> tries, good |-> good, bad |-> bad]

FilesOfA ==
    [node : {"A"}, results : UNION {[1..n -> Results] : n \in 0..2},
     at : {1, None}, type : {"macro"}, peers : {{}, {"B"}},
     measured : {{}, {HO(1, 3, 4, 2, 2)}, {HO(3, 9, 1, 1, 0)}, {HO(1, 2, 1, 1, 1)}}]

FilesOfB ==
    [node : {"B"},
     results : {<<Result(2, "lte", 8, 7, 8, "FDD"), Result(4, "nr", 1, 9, None, "FDD")>>},
     at : {1}, type : {"x"}, peers : {{}},
     measured : {{}, {HO(2, 1, 3, 2, 1)}}]

\* "plan" and "pm": rows and files, good and bad ones.
MCPlans   == UNION {[1..n -> Rows] : n \in 1..3}
MCPmFeeds == {<<f, g>> : f \in FilesOfA, g \in FilesOfB}

------------------------------------------------------------------------------
\* "site": two uploads of one row with different values, each applied by a
\* thread of its own; either may be deleted meanwhile.
Site(v, w) == [cell |-> v, val |-> [f \in Fields |-> w]]
MCReports  == [Fields -> Vals]
MCSheets   == 1 :> {<<Site("x", "v")>>} @@ 2 :> {<<Site("x", "w")>>}
MCAsked    == "t" :> {1} @@ "u" :> {2}

MCCleanups == <<1, 2>>
=============================================================================

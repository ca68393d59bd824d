----------------------------- MODULE MCColoring -----------------------------
(***************************************************************************)
(* Instance of Coloring for TLC: a chain of macro cells, the fourth of     *)
(* which is on another carrier.                                            *)
(* The functions are written out (:> and @@), so that TLC looks values up. *)
(***************************************************************************)
EXTENDS RunReport, TLC

CONSTANTS a, b, c, d, e

ChainNbrs ==
    a :> {b} @@ b :> {a, c} @@ c :> {b, d} @@ d :> {c, e} @@ e :> {d}

\* The relation between a and b is a shadow one: nobody measured it.
ChainReal == a :> {} @@ b :> {c} @@ c :> {b, d} @@ d :> {c, e} @@ e :> {d}

\* d is on a carrier of its own: c and e can only be confused there.
TwoCarriers == a :> 1 @@ b :> 1 @@ c :> 1 @@ d :> 2 @@ e :> 1

\* A pair with fewer handovers than the minimum sample weighs nothing.
Nothing == [xy \in Cells \X Cells |-> 0]
ChainWeight ==
    <<a, b>> :> 2 @@ <<b, a>> :> 2 @@ <<b, c>> :> 1 @@ <<c, b>> :> 1
    @@ <<c, d>> :> 1 @@ <<d, c>> :> 1 @@ <<d, e>> :> 1 @@ <<e, d>> :> 1
    @@ Nothing

AsListed == a :> 1 @@ b :> 2 @@ c :> 3 @@ d :> 4 @@ e :> 5

NrModuli   == {3, 4, 30}
NrPriority == <<3, 4, 30>>

FullPool == [x \in Cells |-> Pcis]

\* The PCI of d concerns no other cell.
AnyStart == {p \in [Cells -> Pcis] : p[d] = 0}
=============================================================================

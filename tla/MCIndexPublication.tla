------------------------- MODULE MCIndexPublication -------------------------
(* Graph jobs compete for one view, two of them with the same snapshot,    *)
(* and a memory job links to it.  One deletion of everything, one of the   *)
(* sources and batches of the project and one of a repository.             *)
EXTENDS IndexPublication, TLC

CONSTANTS g1, g2, g3, m, x1, x2, y1, y2, c1, c2, w1, w2

MCDomainOf == (g1 :> "graph") @@ (g2 :> "graph") @@ (g3 :> "graph") @@ (m :> "memory")
MCTargetOf == (g1 :> "s1") @@ (g2 :> "s2") @@ (g3 :> "s1") @@ (m :> "r1")
MCLinkedTo == (g1 :> None) @@ (g2 :> None) @@ (g3 :> None) @@ (m :> "s1")
MCExtractions == {<<x1, x2>>, <<y1, y2>>}
MCCoverage == ("all" :> Classes) @@ ("sources" :> {"source", "facts"})
              @@ ("repository" :> {"graph", "facts"})

Renaming == (x1 :> y1) @@ (x2 :> y2) @@ (y1 :> x1) @@ (y2 :> x2)
Same == (x1 :> x1) @@ (x2 :> x2) @@ (y1 :> y1) @@ (y2 :> y2)
MCSymmetry == {r @@ p @@ q @@ g : r \in {Renaming, Same}, p \in Permutations(Calls),
                                  q \in Permutations(Workers), g \in Permutations({g1, g3})}
=============================================================================

--------------------------- MODULE MCReorgIndexer ---------------------------
(* Small block trees: two branches that fork off above a block a1, or above *)
(* the genesis.                                                            *)
EXTENDS ReorgIndexer

CONSTANTS g, a1, a2, a3, a4, b1, b2, b3, b4, b5, b6

ForkAtA1(a) ==
  CASE a = g -> NoBlock [] a = a1 -> g [] a = a2 -> a1 [] a = a3 -> a2
    [] a = a4 -> a3 [] a = b2 -> a1 [] a = b3 -> b2 [] a = b4 -> b3
    [] a = b5 -> b4 [] a = b6 -> b5

ForkAtGenesis(a) ==
  CASE a = g -> NoBlock [] a \in {a1, b1} -> g [] a = a2 -> a1
    [] a = b2 -> b1 [] a = b3 -> b2

HeightOf(a) ==
  CASE a = g -> 0 [] a \in {a1, b1} -> 1 [] a \in {a2, b2} -> 2
    [] a \in {a3, b3} -> 3 [] a \in {a4, b4} -> 4 [] a = b5 -> 5 [] a = b6 -> 6

ShortTree   == {g, a1, a2, a3, b2, b3, b4}
Tree        == {g, a1, a2, a3, a4, b2, b3, b4, b5}
LongTree    == {g, a1, a2, a3, a4, b2, b3, b4, b5, b6}
GenesisTree == {g, a1, a2, b1, b2, b3}

HeightMap == [a \in Blocks |-> HeightOf(a)]
ParentAtA1 == [a \in Blocks |-> ForkAtA1(a)]
ParentAtGenesis == [a \in Blocks |-> ForkAtGenesis(a)]
=============================================================================

------------------------------ MODULE MCCatalog ------------------------------
(* A small catalog for TLC: two items, and contents that differ in a price, *)
(* in an availability, or in an item that is gone.                          *)
EXTENDS Catalog, TLC

CONSTANTS i1, i2

MCItems == {i1, i2}

Offer(price, available) == [price |-> price, available |-> available]

MCContents ==
  {(i1 :> Offer(1, TRUE) @@ i2 :> Offer(1, TRUE)),
   (i1 :> Offer(2, TRUE) @@ i2 :> Offer(1, TRUE)),
   (i1 :> Offer(1, FALSE) @@ i2 :> Offer(1, TRUE)),
   (i1 :> Offer(1, TRUE) @@ i2 :> Missing)}

Symmetry == Permutations(Processes) \cup Permutations(Versions)
=============================================================================

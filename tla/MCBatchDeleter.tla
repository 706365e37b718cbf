--------------------------- MODULE MCBatchDeleter ---------------------------
(***************************************************************************)
(* A small instance of BatchDeleter: a root and two clones.                *)
(***************************************************************************)
EXTENDS BatchDeleter

CONSTANTS root, c1, c2, k1, k2

MCOneSlot == [k \in Keys |-> 1]
MCGiven == {<<k1>>, <<k2>>, <<k1, k2>>}
=============================================================================

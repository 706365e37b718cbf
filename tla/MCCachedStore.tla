--------------------------- MODULE MCCachedStore ---------------------------
(***************************************************************************)
(* A small instance of CachedStore: two calls, in one process or in two,   *)
(* and a root deleter with one clone.                                      *)
(***************************************************************************)
EXTENDS CachedStore

CONSTANTS root, c1, k1, k2, r1, r2

MCSlots == [k \in Keys |-> IF k = k1 THEN 1 ELSE 2]
MCGiven == {<<k2, k1>>}
MCHosts == [r \in Readers |-> IF r = r1 THEN {"p1"} ELSE {"p1", "p2"}]
MCLists == [r \in Readers |-> IF r = r1 THEN {<<>>, <<k1>>} ELSE {<<k1>>}]
=============================================================================

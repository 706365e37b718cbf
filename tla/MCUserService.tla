--------------------------- MODULE MCUserService ---------------------------
(***************************************************************************)
(* A small instance of UserService: batches that overlap in both orders,   *)
(* one that repeats a userID, one that is malformed, one that is empty     *)
(* and one with an empty nickname.                                         *)
(***************************************************************************)
EXTENDS UserClient, TLC

CONSTANTS a, b, bad, n1, n2, none, r1, r2, g1, s1, s2

MCUserIDs == {a, b, bad}
MCWellFormed == {a, b}
MCNicknames == {n1, n2, none}

Entry(u, n) == [userID |-> u, nickname |-> n]

\* <<a, b>> and <<b, a>> race for both userIDs and block each other midway.
MCBatches == { <<Entry(a, n1), Entry(b, n1)>>,
               <<Entry(b, n2), Entry(a, n2)>>,
               <<Entry(a, none)>>,
               <<Entry(a, n1), Entry(a, n2)>>,
               <<Entry(a, n1), Entry(bad, n1)>>,
               <<>> }

\* The batches that contend.
MCContending == { <<Entry(a, n1), Entry(b, n1)>>,
                  <<Entry(b, n2), Entry(a, n2)>> }

MCQueries == { <<a>>, <<a, b>>, <<>> }

\* Nothing tells one registration, or one process, from another at the start.
MCInterchangeable == Permutations({r1, r2}) \cup Permutations({s1, s2})
=============================================================================

----------------------------- MODULE MCTracker ------------------------------
(***************************************************************************)
(* Values for model-checking Tracker and DocumentedClaims.                 *)
(***************************************************************************)
EXTENDS DocumentedClaims, TLC

CONSTANTS k1, k2, c1, c2, name1, name2, locA, locB

MCCalName == (c1 :> name1) @@ (c2 :> name2)

Object(start, location) ==
    [start |-> start, end |-> start + 1, location |-> location,
     busy |-> TRUE, cancelled |-> FALSE, parses |-> TRUE]

Meeting   == Object(4, locA)
Elsewhere == Object(4, locB)
Nowhere   == Object(4, NoLocation)
Earlier   == Object(3, locB)

Changing == {Meeting, Nowhere, Earlier}
Fixed    == {Meeting}
Moving   == {Meeting, Elsewhere}

OneHome  == [k \in Keys |-> {c1}]

\* With OneHome nothing tells one key from another.
KeySymmetry == Permutations(Keys)
=============================================================================

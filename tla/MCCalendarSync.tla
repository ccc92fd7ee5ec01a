--------------------------- MODULE MCCalendarSync ---------------------------
(***************************************************************************)
(* Values for model-checking CalendarSync.                                 *)
(***************************************************************************)
EXTENDS CalendarSync, TLC

CONSTANTS k1, k2, c1, c2, name1, name2, locA, locB

MCCalName == (c1 :> name1) @@ (c2 :> name2)

Object(start, end, location) ==
    [start |-> start, end |-> end, location |-> location,
     busy |-> TRUE, cancelled |-> FALSE, parses |-> TRUE]

Soon  == Object(2, 3, locA)
Later == Object(4, 6, locB)

\* One version per way of not qualifying, and one that cannot be read.
Cancelled  == [Later EXCEPT !.cancelled = TRUE]
Free       == [Later EXCEPT !.busy = FALSE]
Nowhere    == [Later EXCEPT !.location = NoLocation]
Unreadable == [Later EXCEPT !.parses = FALSE]

AllVersions == {Soon, Later, Cancelled, Free, Nowhere, Unreadable}
FewVersions == {Soon, Later, Cancelled}

\* Every key in a calendar of its own, or in both.
OwnHomes   == (k1 :> {c1}) @@ (k2 :> {c2})
SharedHome == (k1 :> {c1, c2})
=============================================================================

------------------------------- MODULE MCEarly -------------------------------
(***************************************************************************)
(* Pages of 2 bytes, 1 MB at address 2, the kernel in 2 .. 3, and up to    *)
(* three modules of one to three bytes behind it; two of them are kept.    *)
(***************************************************************************)
EXTENDS Early

Region(addr, len, available) == [addr |-> addr, len |-> len, available |-> available]

SomeMaps ==
    {<<Region(0, 2, TRUE), Region(2, 12, TRUE)>>,
     <<Region(0, 2, TRUE), Region(2, 8, TRUE), Region(10, 1, FALSE), Region(11, 3, TRUE)>>,
     <<Region(0, 2, TRUE), Region(2, 9, TRUE), Region(11, 1, TRUE), Region(12, 2, TRUE)>>,
     <<Region(0, 2, TRUE)>>}

Spans == {[start |-> s, end |-> e] : s \in {4, 6, 8, 10, 12}, e \in 5 .. 14}
SomePlacements ==
    {p \in UNION {[1 .. n -> {x \in Spans : x.end - x.start \in 1 .. 3}] : n \in 0 .. 3} :
        PlacedInOrder(p)}
=============================================================================

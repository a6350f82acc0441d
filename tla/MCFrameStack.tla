---------------------------- MODULE MCFrameStack ----------------------------
(***************************************************************************)
(* Pages of 8 bytes, so that a region of 6 pages asks for 3 frames, and    *)
(* words of 128.  Maps with the low memory (not whole pages), a hole,      *)
(* reserved entries, an entry that holds the map itself, and too little    *)
(* memory; entries with a page in part, before a free and before a used    *)
(* address; and last entries that overlap another one, that reach the end  *)
(* of the word in whole pages and in part, cross it, and lie above it.     *)
(***************************************************************************)
EXTENDS FrameStackRefinement

Entry(addr, len, available) == [addr |-> addr, len |-> len, available |-> available]

Low == Entry(0, 13, TRUE)
Pieces(from, sizes, kinds) ==
  [i \in 1 .. Len(sizes) |->
     Entry(from + (IF i = 1 THEN 0 ELSE sizes[1]) + (IF i = 3 THEN sizes[2] ELSE 0),
           sizes[i], kinds[i])]

Last == {Entry(96, 16, TRUE), Entry(36, 12, TRUE), Entry(112, 16, TRUE),
         Entry(112, 15, TRUE), Entry(112, 60, TRUE), Entry(152, 24, TRUE)}

MemoryMaps ==
  {[at |-> at, upper |-> upper, entries |-> <<Low>> \o Pieces(16, sizes, kinds) \o <<last>>] :
     at \in {4, 60, 100}, upper \in {8, 64, 140},
     sizes \in {<<16, 16, 24>>, <<8, 48, 8>>, <<20, 4, 12>>}, kinds \in [1 .. 3 -> BOOLEAN],
     last \in Last}
=============================================================================

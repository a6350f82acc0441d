------------------------------- MODULE MCBoot -------------------------------
(***************************************************************************)
(* Small instances of Boot.  Tables have 64 entries, pages two bytes; the  *)
(* kernel is 13 pages and its heap one table's worth.  As on the real      *)
(* machine the identity window, the programs, their stack (across a table  *)
(* boundary) and the kernel have directory indices of their own.           *)
(***************************************************************************)
EXTENDS Boot

First == 3 * E

\* ELF headers of a server laid out by serv/mman/link.ld: text, then data
\* that reaches over the page of rodata, then rodata; file offsets go with
\* the addresses.  Sizes are in half pages.
Seg(page, filesz, memsz, prot) ==
    [page |-> page, offset |-> (page - First) * PAGE_SIZE, filesz |-> filesz,
     memsz |-> memsz, align |-> PAGE_SIZE, prot |-> prot]

ServerSegments ==
    {Seg(First, 3, 3, {"r"}), Seg(First, 2, 2, {"r"}),
     Seg(First + 1, 4, 4, {"r", "w"}), Seg(First + 1, 1, 2, {"r", "w"}),
     Seg(First + 2, 1, 1, {"r"}), Seg(First + 3, 0, 2, {"r", "w"}),
     Seg(First + 2, 3, 2, {"r"})}

\* Segments the code has no answer to: memory far beyond the file, a place
\* across the end of a table (in whole pages and not), file contents behind
\* the image, no alignment.
OddSegments ==
    {Seg(First, 2, 24, {"r", "w"}),
     [Seg(First + E - 1, 2, 4, {"r"}) EXCEPT !.offset = 0],
     [Seg(First + E - 1, 2, 3, {"r"}) EXCEPT !.offset = 0],
     [Seg(First, 2, 2, {"r"}) EXCEPT !.offset = 7],
     [Seg(First, 2, 2, {"r"}) EXCEPT !.align = 0]}
AllSegments == ServerSegments \union OddSegments
ServerImages == {<<3>>, <<4>>, <<3, 4>>, <<4, 3>>, <<20>>, <<46>>}

\* Modules right behind the kernel or further up, of whole pages or not, and
\* one that brings the window, one that brings the tables of early_page_map to
\* the end of a table.
Span(start, size) == [start |-> start, end |-> start + size]
Behind == KernelEnd * PAGE_SIZE
ServerPlacements ==
    {<<Span(Behind, 6)>>, <<Span(Behind + 2, 7)>>,
     <<Span(Behind, 5), Span(Behind + 8, 8)>>, <<Span(Behind + 4, 7), Span(Behind + 12, 6)>>,
     <<Span(Behind, 40)>>, <<Span(Behind + 2, 92)>>}

PlainMap ==
    {<<[addr |-> 0, len |-> 4, available |-> TRUE],
       [addr |-> 4, len |-> 1020, available |-> TRUE]>>}
=============================================================================

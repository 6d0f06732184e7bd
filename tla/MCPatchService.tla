--------------------------- MODULE MCPatchService ---------------------------
(* Small instances of PatchService for TLC: six cells in two pages.        *)
EXTENDS PatchService, TLC

\* A page of code and a page of constants.
ReadOnlyPages == [p \in {0, 1} |-> IF p = 0 THEN {"Read", "Execute"} ELSE {"Read"}]

\* Patches within a page.
WithinPages == {{0, 1}, {2}, {3}}
\* Plain writes of two cells, on the page of a patch.
Neighbours == {{4, 5}}

PatchSymmetry == Permutations(Threads) \cup Permutations(Names)
=============================================================================

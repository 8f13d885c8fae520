--------------------------- MODULE MCToolCatalog ---------------------------
(* Four tools, of which three are too many for the catalogue, on up to     *)
(* three pages of at most two.                                             *)
EXTENDS ToolCatalog, TLC

Symmetry == Permutations(ToolNames) \union Permutations(Cursors)

=============================================================================

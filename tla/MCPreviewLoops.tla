--------------------------- MODULE MCPreviewLoops ---------------------------
(* PreviewLoops for TLC: three rows, pictures of different heights. *)
EXTENDS PreviewLoops

CONSTANTS u1, u2

MCScaled  == [s \in Source |-> IF s = u1 THEN 1 ELSE 3]
MCPadding == {-1, 0, 2}
MCLists   == SetToAllKPermutations(Entity)
=============================================================================

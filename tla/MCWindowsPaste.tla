--------------------------- MODULE MCWindowsPaste ---------------------------
(***************************************************************************)
(* WindowsPaste for TLC, with the lists that HDrop is checked on: up to    *)
(* three paths of up to two words.                                         *)
(***************************************************************************)
EXTENDS WindowsPaste, HDrop

OneOrBoth == {{"f"}, {"f", "g"}}

ShortPaths == {<<5>>, <<6>>, <<5, 6>>, <<6, 6>>}
ShortLists == UNION {[1 .. n -> ShortPaths] : n \in 0 .. 3}

ASSUME ShortListsAreReadBack == \A paths \in ShortLists : HDropIsReadBack(paths)
=============================================================================

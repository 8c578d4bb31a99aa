---------------------------- MODULE MCBookmarks ----------------------------
(* Instances of Bookmarks for TLC. *)
EXTENDS Bookmarks, TLC

\* Ignored; watched to the end, as a Samsung TV says it; in the middle; in the leeway
MCPositions == {-1, 0, 40, 97}

HandlerSymmetry == Permutations(Handlers)

=============================================================================

----------------------------- MODULE MCBackend -----------------------------
(* Instances of Backend, with Browse on top of it, for TLC. *)
EXTENDS Browse

\* One root with two videos
MCRoots   == {<<"r">>}
MCFolders == {<<"r">>}
MCVideos  == {<<"r", "a">>, <<"r", "b">>}

\* Two roots with a folder each and the same video name in both, so that one
\* folder can take the other's name
TwoRoots    == {<<"d">>, <<"e">>}
TreeFolders == {<<"d">>, <<"d", "s">>, <<"e">>, <<"e", "s">>}
TreeVideos  == {<<"d", "s", "a">>, <<"e", "s", "a">>}

\* Names in the order of a collation, paths by the first name that differs
Rank == [r |-> 1, a |-> 2, b |-> 3, d |-> 4, e |-> 5, s |-> 6]
MCPathLess(p, q) ==
    \/ Len(p) < Len(q) /\ p = SubSeq(q, 1, Len(p))
    \/ \E i \in 1 .. Len(p) :
          /\ i <= Len(q) /\ Rank[p[i]] < Rank[q[i]]
          /\ SubSeq(p, 1, i - 1) = SubSeq(q, 1, i - 1)

\* Calls whose failure is made good by a later pass: all but the query whose
\* error is dropped and the one that decides whether the reindexer starts.
\* index_add is left to the theorems: its failures multiply the tables.
ForgivenCalls == Calls \ {"getOneObject", "DeleteOfflineObjects", "Index"}

=============================================================================

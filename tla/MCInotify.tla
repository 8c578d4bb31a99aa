----------------------------- MODULE MCInotify -----------------------------
(* Instances of Inotify for TLC. *)
EXTENDS Inotify

\* A root with two folders that have room for the same things and one that is
\* ignored, and a place outside
MCTop     == {<<"r">>, <<"o">>, <<"r", "part">>}
MCRoots   == {<<"r">>}
MCFolders == MCTop \cup {<<"r", "d">>, <<"r", "d", "s">>, <<"r", "e">>, <<"r", "e", "s">>, <<"o", "d">>, <<"o", "d", "s">>}
MCFiles   == {<<"r", "d", "a">>}
MCTrees   == {{<<"r", "d">>, <<"r", "d", "s">>}}
MCIgnored == {"part"}

AllOps  == {"mkdir", "create", "unlink", "rmdir", "move"}
MCFree  == AllOps \ {"move"}

\* mkdir -p r/d/s
ChainFolders == {<<"r">>, <<"r", "d">>, <<"r", "d", "s">>}

=============================================================================

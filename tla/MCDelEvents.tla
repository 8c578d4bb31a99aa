---------------------------- MODULE MCDelEvents ----------------------------
(* An instance of DelEvents for TLC: a tree two directories deep. *)
EXTENDS DelEvents

File(p) == [path |-> p, isDir |-> FALSE]
Dir(p)  == [path |-> p, isDir |-> TRUE]

MCItems == {Dir(<<"r", "d">>), File(<<"r", "d", "a">>), Dir(<<"r", "d", "s">>),
            File(<<"r", "d", "s", "a">>)}

=============================================================================

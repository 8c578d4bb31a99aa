----------------------------- MODULE MCFsEvents -----------------------------
(* An instance of FsEvents for TLC: two names, one of which a video or a     *)
(* directory may have, and one that is ignored, such as that of a download   *)
(* that is not complete.                                                     *)
EXTENDS FsEvents

File(p) == [path |-> p, isDir |-> FALSE]
Dir(p)  == [path |-> p, isDir |-> TRUE]

MCItems   == {File(<<"a">>), File(<<"b">>), Dir(<<"b">>), File(<<"x">>)}
MCIgnored == {<<"x">>}

=============================================================================

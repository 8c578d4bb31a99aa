------------------------------- MODULE Paths -------------------------------
(* Absolute path names as sequences of names, shared by every component that *)
(* compares them: "d/" is a string prefix of p exactly when Under(p, d).     *)
EXTENDS Naturals, Sequences

CONSTANT Names      \* the names files and directories may have

Path == Seq(Names)

\* p lies strictly below the directory d
Under(p, d) ==
    /\ Len(p) > Len(d)
    /\ SubSeq(p, 1, Len(d)) = d

\* filepath.Dir
Parent(p) == SubSeq(p, 1, Len(p) - 1)

\* p with its prefix old replaced by new
Relocate(p, old, new) == new \o SubSeq(p, Len(old) + 1, Len(p))

\* A Remove of the item `it` takes p out of the index too
Covers(it, p) == p = it.path \/ (it.isDir /\ Under(p, it.path))

=============================================================================

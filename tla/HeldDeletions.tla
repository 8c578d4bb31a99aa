---------------------------- MODULE HeldDeletions ----------------------------
(***************************************************************************)
(* What pkg/fswatcher/common_delete_events.go promises to the two drivers  *)
(* that use it, without its map, channels and goroutines: deletions handed *)
(* to add are held back and reported later, in any order, each of them     *)
(* itself or by way of a directory it was in.  Held back items may be      *)
(* dropped, and be reported twice, but nothing is reported that was not    *)
(* deleted, and as long as the watcher runs no deletion is dropped that    *)
(* nothing else held back covers.                                          *)
(***************************************************************************)
EXTENDS Paths

CONSTANT Items      \* the deletable items: [path, isDir]

VARIABLES
    held,       \* items that may still be reported
    owed,       \* paths deleted and not yet covered by a report
    stopped     \* the watcher has been stopped

hvars == <<held, owed, stopped>>

Init == held = {} /\ owed = {} /\ stopped = FALSE

\* No deletion is lost
Safe == stopped \/ \A p \in owed : \E it \in held : Covers(it, p)

Delete(it) ==
    /\ ~stopped
    /\ held' = held \cup {it} /\ owed' = owed \cup {it.path}
    /\ UNCHANGED stopped

\* The handler is called, and the item, with others, may be forgotten
Report(it) ==
    /\ it \in held
    /\ owed' = {p \in owed : ~Covers(it, p)}
    /\ UNCHANGED stopped
    /\ held' \in SUBSET held /\ Safe'

\* What something else covers may be dropped; a watcher that has been stopped may
\* drop anything
Drop ==
    /\ UNCHANGED <<owed, stopped>>
    /\ held' \in SUBSET held /\ Safe'

\* stop gives up what is held back, but cannot call it off
Stop == ~stopped /\ stopped' = TRUE /\ owed' = {} /\ UNCHANGED held

\* reset
Reset == stopped /\ stopped' = FALSE /\ UNCHANGED <<held, owed>>

Next == (\E it \in Items : Delete(it) \/ Report(it)) \/ Drop \/ Stop \/ Reset

Spec == Init /\ [][Next]_hvars

=============================================================================

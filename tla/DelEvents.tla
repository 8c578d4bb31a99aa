----------------------------- MODULE DelEvents -----------------------------
(***************************************************************************)
(* pkg/fswatcher/common_delete_events.go: deletions are held back for 100  *)
(* ms and grouped by parent directory, so that a recursive delete is       *)
(* reported as one Remove of its top directory.                            *)
(*                                                                         *)
(* Every add replaces the entry of the parent directory in the map `ev`    *)
(* and starts a goroutine that waits for its own channel, for the shutdown *)
(* channel or for its timer.  When several are ready Go's select takes any *)
(* of them, so a goroutine whose channel was just closed may still fire.   *)
(***************************************************************************)
EXTENDS Paths

CONSTANTS
    Items,      \* the deletable items: [path, isDir]
    MaxAdds,    \* bound: calls of add
    MaxResets   \* bound: restarts of the watcher

ASSUME ItemsAssumption ==
    /\ Items \subseteq [path : Path, isDir : BOOLEAN]
    /\ \A it \in Items : it.path # << >>

ASSUME AddsAssumption == MaxAdds \in Nat /\ MaxResets \in Nat

Ids  == 1 .. MaxAdds                    \* one goroutine per add
Keys == {Parent(it.path) : it \in Items}

VARIABLES
    ev,         \* the map: the goroutine whose entry is held for a directory, or 0
    gs,         \* the goroutines, with the items slice and the channel of their entry
    n,          \* adds so far
    stopped,    \* e.done is closed
    resets,
    owed        \* history: paths deleted and not yet covered by a Remove

vars == <<ev, gs, n, stopped, resets, owed>>

Goroutine == [pc     : {"unborn", "wait", "fire", "end"},
              key    : Keys \cup {<< >>},
              items  : Seq(Items),
              closed : BOOLEAN,         \* its `done` channel
              over   : BOOLEAN]         \* the e.done it selects on is closed

Unborn == [pc |-> "unborn", key |-> << >>, items |-> << >>, closed |-> FALSE, over |-> FALSE]

Init ==
    /\ ev = [k \in Keys |-> 0]
    /\ gs = [g \in Ids |-> Unborn]
    /\ n = 0 /\ stopped = FALSE /\ resets = 0
    /\ owed = {}

\* The entries below a deleted directory, which the loop of add drops
Dropped(it) == {k \in Keys : it.isDir /\ (k = it.path \/ Under(k, it.path)) /\ ev[k] # 0}

\* Mutant: channels below a deleted directory are closed, the entries stay
Add_KeepsChildren(it) ==
    LET key  == Parent(it.path)
        old  == ev[key]
        gone == {ev[k] : k \in Dropped(it)} \cup (IF old # 0 THEN {old} ELSE {})
        new  == [pc |-> "wait", key |-> key, closed |-> FALSE, over |-> FALSE,
                 items |-> IF old # 0 THEN Append(gs[old].items, it) ELSE <<it>>]
    IN  /\ ~stopped /\ n < MaxAdds
        /\ n' = n + 1
        /\ ev' = [k \in Keys |-> IF k = key THEN n + 1 ELSE ev[k]]
        /\ gs' = [g \in Ids |-> IF g = n + 1 THEN new
                                ELSE IF g \in gone THEN [gs[g] EXCEPT !.closed = TRUE]
                                ELSE gs[g]]
        /\ owed' = owed \cup {it.path}
        /\ UNCHANGED <<stopped, resets>>

\* Mutant: the new entry starts with its own item only
Add_ForgetsItems(it) ==
    LET key  == Parent(it.path)
        old  == ev[key]
        gone == {ev[k] : k \in Dropped(it)} \cup (IF old # 0 THEN {old} ELSE {})
        new  == [pc |-> "wait", key |-> key, closed |-> FALSE, over |-> FALSE,
                 items |-> <<it>>]
    IN  /\ ~stopped /\ n < MaxAdds
        /\ n' = n + 1
        /\ ev' = [k \in Keys |-> IF k = key THEN n + 1 ELSE IF k \in Dropped(it) THEN 0 ELSE ev[k]]
        /\ gs' = [g \in Ids |-> IF g = n + 1 THEN new
                                ELSE IF g \in gone THEN [gs[g] EXCEPT !.closed = TRUE]
                                ELSE gs[g]]
        /\ owed' = owed \cup {it.path}
        /\ UNCHANGED <<stopped, resets>>

\* add: under the lock, then `go func`.  The entry of the parent directory hands
\* its items on to the new one; the channels of all replaced entries are closed.
Add(it) ==
    LET key  == Parent(it.path)
        old  == ev[key]
        gone == {ev[k] : k \in Dropped(it)} \cup (IF old # 0 THEN {old} ELSE {})
        new  == [pc |-> "wait", key |-> key, closed |-> FALSE, over |-> FALSE,
                 items |-> IF old # 0 THEN Append(gs[old].items, it) ELSE <<it>>]
    IN  /\ ~stopped /\ n < MaxAdds
        /\ n' = n + 1
        /\ ev' = [k \in Keys |-> IF k = key THEN n + 1 ELSE IF k \in Dropped(it) THEN 0 ELSE ev[k]]
        /\ gs' = [g \in Ids |-> IF g = n + 1 THEN new
                                ELSE IF g \in gone THEN [gs[g] EXCEPT !.closed = TRUE]
                                ELSE gs[g]]
        /\ owed' = owed \cup {it.path}
        /\ UNCHANGED <<stopped, resets>>

\* select: case <-done, case <-e.done
Quit(g) ==
    /\ gs[g].pc = "wait"
    /\ gs[g].closed \/ gs[g].over
    /\ gs' = [gs EXCEPT ![g].pc = "end"]
    /\ UNCHANGED <<ev, n, stopped, resets, owed>>

\* select: case <-time.After, and the delete of the directory's entry, whosever
\* it is by now
TimerFires(g) ==
    /\ gs[g].pc = "wait"
    /\ gs' = [gs EXCEPT ![g].pc = "fire"]
    /\ ev' = [ev EXCEPT ![gs[g].key] = 0]
    /\ UNCHANGED <<n, stopped, resets, owed>>

\* Mutant: only the first item is reported
Handle_OnlyFirst(g) ==
    /\ gs[g].pc = "fire" /\ gs[g].items # << >>
    /\ gs' = [gs EXCEPT ![g].items = << >>]
    /\ owed' = {p \in owed : ~Covers(Head(gs[g].items), p)}
    /\ UNCHANGED <<ev, n, stopped, resets>>

\* Mutant: the directory is reported in place of the item
Handle_Directory(g) ==
    /\ gs[g].pc = "fire" /\ gs[g].items # << >>
    /\ gs' = [gs EXCEPT ![g].items = Tail(@)]
    /\ owed' = {p \in owed : ~Under(p, gs[g].key)}
    /\ UNCHANGED <<ev, n, stopped, resets>>

\* One round of the loop over items: e.handler, which sends the Remove event
Handle(g) ==
    /\ gs[g].pc = "fire" /\ gs[g].items # << >>
    /\ gs' = [gs EXCEPT ![g].items = Tail(@)]
    /\ owed' = {p \in owed : ~Covers(Head(gs[g].items), p)}
    /\ UNCHANGED <<ev, n, stopped, resets>>

Return(g) ==
    /\ gs[g].pc = "fire" /\ gs[g].items = << >>
    /\ gs' = [gs EXCEPT ![g].pc = "end"]
    /\ UNCHANGED <<ev, n, stopped, resets, owed>>

\* stop, called when the reader of inotify events has ended; what is still held
\* back is given up, the walk of the next start makes it good
Stop ==
    /\ ~stopped
    /\ stopped' = TRUE
    /\ gs' = [g \in Ids |-> [gs[g] EXCEPT !.over = (@ \/ gs[g].pc # "unborn")]]
    /\ owed' = {}
    /\ UNCHANGED <<ev, n, resets>>

\* reset, called by the next start; old goroutines may still be about
Reset ==
    /\ stopped /\ resets < MaxResets
    /\ resets' = resets + 1
    /\ stopped' = FALSE
    /\ ev' = [k \in Keys |-> 0]
    /\ UNCHANGED <<gs, n, owed>>

Goroutines == \E g \in Ids : Quit(g) \/ TimerFires(g) \/ Handle(g) \/ Return(g)

Next == (\E it \in Items : Add(it)) \/ Goroutines \/ Stop \/ Reset

Spec == Init /\ [][Next]_vars

\* Every goroutine that can go on does: timers fire and the scheduler is fair
FairSpec ==
    Spec /\ \A g \in Ids : WF_vars(Quit(g) \/ TimerFires(g) \/ Handle(g) \/ Return(g))

-----------------------------------------------------------------------------
(* Properties *)

\* The values of the variables, and that an entry of the map belongs to a
\* goroutine that was started for that directory.
TypeOK ==
    /\ ev \in [Keys -> 0 .. n]
    /\ gs \in [Ids -> Goroutine]
    /\ n \in 0 .. MaxAdds
    /\ stopped \in BOOLEAN
    /\ resets \in Nat
    /\ owed \subseteq {it.path : it \in Items}
    /\ \A g \in Ids : gs[g].pc = "unborn" <=> g > n
    /\ \A g \in Ids : g <= n => gs[g].key \in Keys
    /\ \A k \in Keys : ev[k] # 0 => gs[ev[k]].key = k

\* add closes the channel of the entry it replaces and of the entries below a
\* deleted directory.  Closing a closed channel panics and takes the server
\* down: no entry of the map ever has a closed channel, although goroutines
\* that lost the race delete each other's entries.
NoDoubleClose == \A k \in Keys : ev[k] # 0 => ~gs[ev[k]].closed

\* This goroutine will call the handler for the items it has left
Live(g) == gs[g].pc = "fire" \/ (gs[g].pc = "wait" /\ ~gs[g].closed /\ ~gs[g].over)

\* No deletion is lost: as long as the watcher runs, each deleted path that no
\* Remove has covered yet is covered by an item of a goroutine that will still
\* report it.
NoDeleteLost ==
    ~stopped => \A p \in owed : \E g \in Ids :
        /\ Live(g)
        /\ \E i \in 1 .. Len(gs[g].items) : Covers(gs[g].items[i], p)

\* Each deletion is reported, or the watcher stops.
DeletesReported ==
    \A it \in Items : it.path \in owed ~> (it.path \notin owed \/ stopped)

\* All of this is an implementation of HeldDeletions: what is held back is what
\* the goroutines in the select, or past their timer, have left.
Held == UNION {{gs[g].items[i] : i \in 1 .. Len(gs[g].items)} :
                   g \in {x \in Ids : gs[x].pc \in {"wait", "fire"}}}
H == INSTANCE HeldDeletions WITH held <- Held
HeldSpec == H!Spec

=============================================================================

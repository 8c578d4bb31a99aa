------------------------------ MODULE MvEvents ------------------------------
(***************************************************************************)
(* pkg/fswatcher/driver_inotify_move_events.go: pairing IN_MOVED_FROM with *)
(* IN_MOVED_TO by their cookie.  A MOVED_FROM is held back for 100 ms; if  *)
(* the MOVED_TO comes in time a Rename is reported, else a Remove, and a   *)
(* MOVED_TO that finds no partner is reported as Index.                    *)
(*                                                                         *)
(* The goroutine of a MOVED_FROM calls the handler and only then deletes   *)
(* the entry from the map; the reader of inotify events runs addMvTo       *)
(* meanwhile.  The two ends of a move are adjacent in the kernel's queue,  *)
(* but the reader may be in the handler of another event between them for  *)
(* any time (a walk, a slow database), so a timer may fire at any moment.  *)
(***************************************************************************)
EXTENDS Naturals

CONSTANTS Cookies       \* the moves; the kernel gives each a cookie of its own

\* Which ends of the move lie in watched directories
Ends == {"from", "to"}

VARIABLES
    sent,       \* the ends whose events the reader has handled, per move
    within,     \* the ends that lie in watched directories, per move
    mvFrom,     \* the cookies in the map
    closed,     \* the cookies whose `done` channel is closed
    pc,         \* the goroutine of addMvFrom, per move
    reader,     \* the handler call of addMvTo under way: [op, cookie] or NoCall
    stopped,    \* e.done is closed
    rows,       \* the names, "old" and "new", the index has for the moved item
    raced       \* moves whose timer fired although the MOVED_TO found the entry (history)

vars == <<sent, within, mvFrom, closed, pc, reader, stopped, rows, raced>>

NoCall == [op |-> "none"]

Init ==
    /\ sent = [c \in Cookies |-> {}]
    /\ within \in [Cookies -> {e \in SUBSET Ends : e # {}}]
    /\ mvFrom = {} /\ closed = {}
    /\ pc = [c \in Cookies |-> "unborn"]
    /\ reader = NoCall
    /\ stopped = FALSE
    /\ rows = [c \in Cookies |-> IF "from" \in within[c] THEN {"old"} ELSE {}]
    /\ raced = {}

-----------------------------------------------------------------------------
(* The index: what onWatcherEvent does with the event *)

Renamed(s) == IF "old" \in s /\ "new" \notin s THEN {"new"} ELSE s

Reported(op, c) ==
    rows' = [rows EXCEPT ![c] = CASE op = "Remove" -> @ \ {"old"}
                                  [] op = "Rename" -> Renamed(@)
                                  [] op = "Index"  -> @ \cup {"new"}]

-----------------------------------------------------------------------------
(* The reader: one inotify event at a time *)

\* addMvFrom: entry into the map, goroutine started
addMvFrom(c) ==
    /\ ~stopped /\ reader = NoCall
    /\ "from" \in within[c] \ sent[c]
    /\ sent' = [sent EXCEPT ![c] = @ \cup {"from"}]
    /\ mvFrom' = mvFrom \cup {c}
    /\ pc' = [pc EXCEPT ![c] = "wait"]
    /\ UNCHANGED <<within, closed, reader, stopped, rows, raced>>

\* Mutant: the goroutine is told, but what is reported stays Index
addMvTo_AlwaysIndex(c) ==
    /\ ~stopped /\ reader = NoCall
    /\ "to" \in within[c] \ sent[c]
    /\ "from" \in within[c] => "from" \in sent[c]
    /\ sent' = [sent EXCEPT ![c] = @ \cup {"to"}]
    /\ reader' = [op |-> "Index", cookie |-> c]
    /\ closed' = IF c \in mvFrom THEN closed \cup {c} ELSE closed
    /\ raced' = IF c \in mvFrom /\ pc[c] # "wait" THEN raced \cup {c} ELSE raced
    /\ UNCHANGED <<within, mvFrom, pc, stopped, rows>>

\* Mutant: the partner is taken for granted
addMvTo_AlwaysRename(c) ==
    /\ ~stopped /\ reader = NoCall
    /\ "to" \in within[c] \ sent[c]
    /\ "from" \in within[c] => "from" \in sent[c]
    /\ sent' = [sent EXCEPT ![c] = @ \cup {"to"}]
    /\ reader' = [op |-> "Rename", cookie |-> c]
    /\ closed' = IF c \in mvFrom THEN closed \cup {c} ELSE closed
    /\ raced' = IF c \in mvFrom /\ pc[c] # "wait" THEN raced \cup {c} ELSE raced
    /\ UNCHANGED <<within, mvFrom, pc, stopped, rows>>

\* addMvTo, under the lock: look for the other end and close its channel.  The
\* kernel queues the two ends in order.
addMvTo(c) ==
    /\ ~stopped /\ reader = NoCall
    /\ "to" \in within[c] \ sent[c]
    /\ "from" \in within[c] => "from" \in sent[c]
    /\ sent' = [sent EXCEPT ![c] = @ \cup {"to"}]
    /\ IF c \in mvFrom
       THEN closed' = closed \cup {c} /\ reader' = [op |-> "Rename", cookie |-> c]
       ELSE closed' = closed /\ reader' = [op |-> "Index", cookie |-> c]
    /\ raced' = IF c \in mvFrom /\ pc[c] # "wait" THEN raced \cup {c} ELSE raced
    /\ UNCHANGED <<within, mvFrom, pc, stopped, rows>>

\* ... and, the lock released, the handler
HandleTo ==
    /\ reader # NoCall
    /\ Reported(reader.op, reader.cookie)
    /\ reader' = NoCall
    /\ UNCHANGED <<sent, within, mvFrom, closed, pc, stopped, raced>>

\* stop: the reader has ended
stop ==
    /\ ~stopped /\ reader = NoCall
    /\ stopped' = TRUE
    /\ UNCHANGED <<sent, within, mvFrom, closed, pc, reader, rows, raced>>

-----------------------------------------------------------------------------
(* The goroutine of addMvFrom *)

\* select: case <-done, case <-e.done
Told(c) ==
    /\ pc[c] = "wait"
    /\ c \in closed \/ stopped
    /\ pc' = [pc EXCEPT ![c] = "delete"]
    /\ UNCHANGED <<sent, within, mvFrom, closed, reader, stopped, rows, raced>>

\* select: case <-time.After; also when another case is ready
TimedOut(c) ==
    /\ pc[c] = "wait"
    /\ pc' = [pc EXCEPT ![c] = "remove"]
    /\ raced' = IF c \in closed THEN raced \cup {c} ELSE raced
    /\ UNCHANGED <<sent, within, mvFrom, closed, reader, stopped, rows>>

\* e.handler(Remove, name, ...), without the lock
HandleRemove(c) ==
    /\ pc[c] = "remove"
    /\ Reported("Remove", c)
    /\ pc' = [pc EXCEPT ![c] = "delete"]
    /\ UNCHANGED <<sent, within, mvFrom, closed, reader, stopped, raced>>

\* Mutant: the goroutine forgets to clean up when it was told
DeleteEntry_KeepsTold(c) ==
    /\ pc[c] = "delete"
    /\ pc' = [pc EXCEPT ![c] = "end"]
    /\ mvFrom' = IF c \in closed THEN mvFrom ELSE mvFrom \ {c}
    /\ UNCHANGED <<sent, within, closed, reader, stopped, rows, raced>>

\* delete(e.mvFrom, cookie), under the lock
DeleteEntry(c) ==
    /\ pc[c] = "delete"
    /\ pc' = [pc EXCEPT ![c] = "end"]
    /\ mvFrom' = mvFrom \ {c}
    /\ UNCHANGED <<sent, within, closed, reader, stopped, rows, raced>>

Goroutine(c) == Told(c) \/ TimedOut(c) \/ HandleRemove(c) \/ DeleteEntry(c)

Next ==
    \/ \E c \in Cookies : addMvFrom(c) \/ addMvTo(c) \/ Goroutine(c)
    \/ HandleTo
    \/ stop

Spec == Init /\ [][Next]_vars

\* The reader finishes the call it is in and goroutines run; neither more events
\* nor a stop need ever come
FairSpec == Spec /\ WF_vars(HandleTo) /\ \A c \in Cookies : WF_vars(Goroutine(c))

-----------------------------------------------------------------------------
(* Properties *)

\* The values of the variables.
TypeOK ==
    /\ sent \in [Cookies -> SUBSET Ends]
    /\ within \in [Cookies -> SUBSET Ends]
    /\ mvFrom \subseteq Cookies /\ closed \subseteq Cookies
    /\ pc \in [Cookies -> {"unborn", "wait", "remove", "delete", "end"}]
    /\ reader = NoCall \/ reader \in [op : {"Rename", "Index"}, cookie : Cookies]
    /\ stopped \in BOOLEAN
    /\ rows \in [Cookies -> SUBSET {"old", "new"}]
    /\ raced \subseteq Cookies

\* Everything about this move has been handled
Settled(c) ==
    /\ sent[c] = within[c]
    /\ pc[c] \in {"unborn", "end"}
    /\ reader = NoCall \/ reader.cookie # c

\* The name a file was moved away from does not stay in the index: once the
\* move is dealt with and the watcher still runs, the old path is gone,
\* whichever of Remove and Rename won the race for the entry.
OldNameGone == \A c \in Cookies : (Settled(c) /\ ~stopped) => "old" \notin rows[c]

\* No entry outlives its goroutine, so a cookie the kernel hands out again
\* can not be paired with a move of long ago.
NoStaleEntry == \A c \in mvFrom : pc[c] \in {"wait", "remove", "delete"}

\* An item moved within the watched directories ends up in the index under its
\* new name, however late the MOVED_TO comes and in whatever order goroutine and
\* reader go on, but for one race: the timer fires while the reader takes the
\* entry, Remove is reported first and the Rename finds no row.
NewNameIndexed ==
    \A c \in Cookies \ raced :
        (Settled(c) /\ ~stopped /\ within[c] = Ends) => "new" \in rows[c]

\* Every move the reader has seen is dealt with, or the watcher stops.
MoveDealtWith == \A c \in Cookies : "from" \in sent[c] ~> "old" \notin rows[c] \/ stopped

=============================================================================

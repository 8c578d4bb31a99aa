------------------------------- MODULE FsEvents -------------------------------
(***************************************************************************)
(* pkg/fswatcher/driver_fsevents.go, the watcher of macOS.  The system     *)
(* hands over one event per name, numbered by its volume; a rename inside  *)
(* the watched directories is two of them with successive numbers, and one *)
(* that leaves or enters the directories shows one only.  So the driver    *)
(* remembers the last half it has seen (lastRenameItem) and has a          *)
(* goroutine give it up after a second.  Callbacks run one after another   *)
(* on a queue of their own, the goroutines of lastRenameItem beside them,  *)
(* and neither holds a lock.                                               *)
(*                                                                         *)
(* Deletions are those of HeldDeletions, which DelEvents implements.  What *)
(* is below a directory comes and goes with it and is left out.  External: *)
(* the numbers, also the half that is not seen has one; that events come   *)
(* in order and none is lost.                                              *)
(***************************************************************************)
EXTENDS Paths

CONSTANTS
    Items,      \* what files and directories there may be: [path, isDir]
    Ignored,    \* paths for which ignoreFn says yes
    MaxOps      \* bound: changes of the file system

ASSUME FsEventsAssumption ==
    /\ Items \subseteq [path : Path, isDir : BOOLEAN]
    /\ \A it \in Items : it.path # << >>
    /\ \A it, x \in Items : ~Under(it.path, x.path)     \* no item lies in another
    /\ MaxOps \in Nat

VARIABLES
    fs,         \* what there is
    nextId,     \* the next number
    queue,      \* events under way
    phase,      \* "walk", "create", "stream" (no w.done yet), "run", "stopped"
    last,       \* lastRenameItem; id 0 if it has been dealt with
    timers,     \* its goroutines
    cb,         \* the callback: "idle", "got", or "rest" after the last half was flushed
    event,      \* the event it is about
    held, owed, stopped,    \* delEvents, see HeldDeletions
    index,      \* what is there according to the Events sent
    moves,      \* renames that have happened, and
    told,       \* Rename events that have been sent (history)
    came,       \* the item that the latest change has renamed or moved in (history)
    crossed,    \* such an item, and the one that was renamed or moved out next (history)
    missed,     \* paths changed between the walk and the stream (history)
    late,       \* paths indexed while their deletion was held back (history)
    overlap     \* a goroutine and a callback have been at it together (history)

D == INSTANCE HeldDeletions

driver  == <<last, timers, cb, event>>
deleted == <<held, owed, stopped>>
passing == <<moves, came, crossed>>
history == <<passing, told, missed, late, overlap>>
vars    == <<fs, nextId, queue, phase, driver, deleted, index, history>>

Timers == 1 .. 2 * MaxOps
Event  == [id : Nat, it : Items, flags : SUBSET {"created", "modified", "cloned", "removed", "renamed"}]
NoTimer == [pc |-> "none"]
TimerState == {NoTimer} \cup [pc : {"wait"}, it : Items, closed : BOOLEAN, listens : BOOLEAN]
              \cup [pc : {"fire"}, it : Items] \cup [pc : {"send"}, it : Items, found : BOOLEAN]

Exists(p) == \E it \in fs : it.path = p
At(S, p)  == {it \in S : it.path = p}

Init ==
    /\ fs \in {S \in SUBSET Items : \A it, x \in S : it.path = x.path => it = x}
    /\ nextId = 2 /\ queue = << >> /\ phase = "walk"
    /\ last = [id |-> 0, timer |-> 0]
    /\ timers = [g \in Timers |-> NoTimer]
    /\ cb = "idle" /\ event = << >>
    /\ held = {} /\ owed = {} /\ stopped = FALSE
    /\ index = {}
    /\ moves = {} /\ came = {} /\ crossed = {} /\ told = {} /\ missed = {} /\ late = {} /\ overlap = FALSE

-----------------------------------------------------------------------------
(* What others do to the file system *)

\* The items take two numbers; the stream hands on those of names it watches
Change(new, events, paths) ==
    /\ nextId < 2 * MaxOps + 2
    /\ fs' = new /\ nextId' = nextId + 2
    /\ IF phase \in {"stream", "run"}
       THEN queue' = queue \o events /\ missed' = missed
       ELSE queue' = queue /\ missed' = missed \cup paths
    /\ UNCHANGED <<phase, driver, deleted, index, told, late, overlap>>

Seen(k, it, flags) == [id |-> nextId + k, it |-> it, flags |-> flags]

\* A directory is made; a file is made and written, which the system may report
\* in one event; or it is cloned
New(it) ==
    /\ ~Exists(it.path)
    /\ \E flags \in IF it.isDir THEN {<<{"created"}>>}
                    ELSE {<<{"created", "modified"}>>, <<{"created"}, {"modified"}>>, <<{"cloned"}>>} :
          Change(fs \cup {it}, [k \in 1 .. Len(flags) |-> Seen(k - 1, it, flags[k])], {it.path})
    /\ came' = {} /\ UNCHANGED <<moves, crossed>>

Delete(it) ==
    /\ it \in fs
    /\ Change(fs \ {it}, <<Seen(0, it, {"removed"})>>, {it.path})
    /\ came' = {} /\ UNCHANGED <<moves, crossed>>

\* rename; what was there by the new name is replaced
Move(it, to) ==
    /\ it \in fs /\ it # to /\ it.isDir = to.isDir
    /\ \A x \in At(fs, to.path) : ~x.isDir /\ ~to.isDir
    /\ Change((fs \ ({it} \cup At(fs, to.path))) \cup {to},
              <<Seen(0, it, {"renamed"}), Seen(1, to, {"renamed"})>>, {it.path, to.path})
    /\ moves' = moves \cup {<<it, to>>}
    /\ crossed' = crossed \cup {<<x, it>> : x \in came} /\ came' = {to}

MoveOut(it) ==
    /\ it \in fs
    /\ Change(fs \ {it}, <<Seen(0, it, {"renamed"})>>, {it.path})
    /\ crossed' = crossed \cup {<<x, it>> : x \in came} /\ came' = {} /\ UNCHANGED moves

MoveIn(it) ==
    /\ ~Exists(it.path)
    /\ Change(fs \cup {it}, <<Seen(1, it, {"renamed"})>>, {it.path})
    /\ came' = {it} /\ UNCHANGED <<moves, crossed>>

Others == \E it \in Items : \/ New(it) \/ Delete(it) \/ MoveOut(it) \/ MoveIn(it)
                            \/ \E to \in Items : Move(it, to)

-----------------------------------------------------------------------------
(* Events sent, and what they make of the index *)

Indexed(it) == /\ index' = (index \ At(index, it.path)) \cup {it}
               /\ late' = late \cup {p \in {it.path} : \E h \in held : Covers(h, p)}
Removed(it) == /\ index' = {x \in index : ~Covers(it, x.path)}
               /\ UNCHANGED late
Renamed(from, to) ==
    /\ index' = (index \ (At(index, from.path) \cup At(index, to.path))) \cup {to}
    /\ late' = late \cup {p \in {to.path} : \E h \in held : Covers(h, p)}
    /\ told' = told \cup {<<from, to>>}

\* The end of handleLastRenameEvent: Stat, or the walk of a directory
Given(it, found) == IF found THEN Indexed(it) ELSE Removed(it)

-----------------------------------------------------------------------------
(* start and stop *)

\* The walk; its own interleavings with others' changes are those of Backend
Walk ==
    /\ phase = "walk"
    /\ phase' = "create"
    /\ index' = {it \in fs : it.path \notin Ignored}
    /\ UNCHANGED <<fs, nextId, queue, driver, deleted, history>>

\* register, FSEventStreamCreate with EventIdSinceNow and FSEventStreamStart
StartStream ==
    /\ phase = "create"
    /\ phase' = "stream"
    /\ UNCHANGED <<fs, nextId, queue, driver, deleted, index, history>>

\* w.done = make(chan struct{})
MakeDone ==
    /\ phase = "stream"
    /\ phase' = "run"
    /\ UNCHANGED <<fs, nextId, queue, driver, deleted, index, history>>

\* streamStop ... unregister; callbacks that come later find nothing
StopStream ==
    /\ phase = "run" /\ cb = "idle"
    /\ phase' = "stopped" /\ queue' = << >>
    /\ D!Stop
    /\ UNCHANGED <<fs, nextId, driver, index, history>>

-----------------------------------------------------------------------------
(* handleFsEvent *)

\* A goroutine of lastRenameItem is past its select
Firing == \E g \in Timers : timers[g].pc \in {"fire", "send"}

\* renameItem.close
Close(g) == IF g # 0 /\ timers[g].pc = "wait" THEN [timers EXCEPT ![g].closed = TRUE]
            ELSE timers

Take ==
    /\ phase \in {"stream", "run"} /\ cb = "idle" /\ queue # << >>
    /\ cb' = "got" /\ event' = Head(queue) /\ queue' = Tail(queue)
    /\ timers' = Close(last.timer)
    /\ overlap' = (overlap \/ Firing)
    /\ UNCHANGED <<fs, nextId, phase, last, deleted, index, passing, told, missed, late>>

Has(f) == f \in event.flags
Ignores == event.it.path \in Ignored
Idle == cb' = "idle" /\ event' = << >>

\* Mutant: counted down in place of being cleared
Forget_CountsDown == last' = [last EXCEPT !.id = @ - 1]

\* w.lastRenameItem.id = 0
Forget == last' = [id |-> 0, timer |-> last.timer]

\* Mutant: an event that is ignored lets the last half be
Ignore_KeepsHalf ==
    /\ cb = "got" /\ Ignores
    /\ Idle
    /\ UNCHANGED <<fs, nextId, queue, phase, timers, deleted, passing, told, missed, overlap, last, index, late>>

\* An ignored name: the other half of a rename is given up
Ignore ==
    /\ cb = "got" /\ Ignores
    /\ IF last.id > 0 THEN Forget /\ Given(last.it, Exists(last.it.path))
       ELSE UNCHANGED <<last, index, late>>
    /\ Idle
    /\ UNCHANGED <<fs, nextId, queue, phase, timers, deleted, passing, told, missed, overlap>>

\* Mutant: any two renames in a row are one
Pairs_AnyTwo == Has("renamed") /\ last.id > 0 /\ event.it.isDir = last.it.isDir

\* The second half of a rename
Pairs == Has("renamed") /\ last.id + 1 = event.id /\ event.it.isDir = last.it.isDir

Pair ==
    /\ cb = "got" /\ ~Ignores /\ Pairs
    /\ Renamed(last.it, event.it)
    /\ Forget /\ Idle
    /\ UNCHANGED <<fs, nextId, queue, phase, timers, deleted, passing, missed, overlap>>

\* What was remembered was not one, its half is given up
Flush ==
    /\ cb = "got" /\ ~Ignores /\ ~Pairs /\ last.id > 0
    /\ Forget /\ Given(last.it, Exists(last.it.path))
    /\ cb' = "rest"
    /\ UNCHANGED <<fs, nextId, queue, phase, timers, event, deleted, passing, told, missed, overlap>>

\* The rest of handleFsEvent is reached
Rest == cb = "rest" \/ (cb = "got" /\ ~Ignores /\ ~Pairs /\ last.id = 0)

Remove ==
    /\ Rest /\ Has("removed")
    /\ D!Delete(event.it)
    /\ Idle
    /\ UNCHANGED <<fs, nextId, queue, phase, last, timers, index, history>>

\* updateLastRenameEvent
Remember ==
    /\ Rest /\ ~Has("removed") /\ Has("renamed")
    /\ LET g == CHOOSE x \in Timers : timers[x] = NoTimer
       IN  /\ last' = [id |-> event.id, it |-> event.it, timer |-> g]
           /\ timers' = [timers EXCEPT ![g] = [pc |-> "wait", it |-> event.it, closed |-> FALSE,
                                               listens |-> phase = "run"]]
    /\ Idle
    /\ UNCHANGED <<fs, nextId, queue, phase, deleted, index, history>>

\* An item that is new or has been written; the first event of an empty file has
\* no effect
IndexItem ==
    /\ Rest /\ ~Has("removed") /\ ~Has("renamed")
    /\ IF Has("created") /\ ~event.it.isDir /\ ~Has("modified") THEN UNCHANGED <<index, late>>
       ELSE Indexed(event.it)
    /\ Idle
    /\ UNCHANGED <<fs, nextId, queue, phase, last, timers, deleted, passing, told, missed, overlap>>

handleFsEvent == Ignore \/ Pair \/ Flush \/ Remove \/ Remember \/ IndexItem

-----------------------------------------------------------------------------
(* The goroutine of updateLastRenameEvent *)

\* case <-done, case <-w.done; a nil w.done is never ready
TimerQuits(g) ==
    /\ timers[g].pc = "wait"
    /\ timers[g].closed \/ (phase = "stopped" /\ timers[g].listens)
    /\ timers' = [timers EXCEPT ![g] = NoTimer]
    /\ UNCHANGED <<fs, nextId, queue, phase, last, cb, event, deleted, index, history>>

\* case <-time.After
TimerFires(g) ==
    /\ timers[g].pc = "wait"
    /\ timers' = [timers EXCEPT ![g] = [pc |-> "fire", it |-> @.it]]
    /\ overlap' = (overlap \/ cb # "idle" \/ timers[g].closed)
    /\ UNCHANGED <<fs, nextId, queue, phase, last, cb, event, deleted, index, passing, told, missed, late>>

\* handleLastRenameEvent: whatever lastRenameItem is by now, its id is cleared;
\* then Stat
TimerHandles(g) ==
    /\ timers[g].pc = "fire"
    /\ Forget
    /\ timers' = [timers EXCEPT ![g] = [pc |-> "send", it |-> @.it, found |-> Exists(@.it.path)]]
    /\ UNCHANGED <<fs, nextId, queue, phase, cb, event, deleted, index, history>>

\* Mutant: a goroutine that finds nothing waits for another second
TimerSends_Retries(g) ==
    /\ timers[g].pc = "send"
    /\ Given(timers[g].it, timers[g].found)
    /\ timers' = [timers EXCEPT ![g] = IF @.found THEN NoTimer
                                       ELSE [pc |-> "wait", it |-> @.it, closed |-> FALSE, listens |-> TRUE]]
    /\ UNCHANGED <<fs, nextId, queue, phase, last, cb, event, deleted, passing, told, missed, overlap>>

\* The event
TimerSends(g) ==
    /\ timers[g].pc = "send"
    /\ Given(timers[g].it, timers[g].found)
    /\ timers' = [timers EXCEPT ![g] = NoTimer]
    /\ UNCHANGED <<fs, nextId, queue, phase, last, cb, event, deleted, passing, told, missed, overlap>>

Timer(g) == TimerQuits(g) \/ TimerFires(g) \/ TimerHandles(g) \/ TimerSends(g)

-----------------------------------------------------------------------------
(* handleDeleteEvent *)

handleDeleteEvent(it) ==
    /\ D!Report(it)
    /\ Removed(it)
    /\ UNCHANGED <<fs, nextId, queue, phase, driver, passing, told, missed, overlap>>

DropHeld ==
    /\ D!Drop
    /\ UNCHANGED <<fs, nextId, queue, phase, driver, index, history>>

-----------------------------------------------------------------------------
Start    == Walk \/ StartStream \/ MakeDone
Callback == Take \/ handleFsEvent

Next == \/ Others
        \/ Start \/ StopStream
        \/ Callback
        \/ \E g \in Timers : Timer(g)
        \/ \E it \in Items : handleDeleteEvent(it)
        \/ DropHeld

Spec == Init /\ [][Next]_vars

\* Callbacks and goroutines run on, and what delEvents owes is reported (see
\* DeletesReported there).  Nobody need touch the file system or stop the watcher.
FairSpec ==
    /\ Spec
    /\ WF_vars(Start) /\ WF_vars(Callback)
    /\ \A g \in Timers : WF_vars(Timer(g))
    /\ \A it \in Items : WF_vars(it.path \in owed /\ handleDeleteEvent(it) /\ it.path \notin owed')

-----------------------------------------------------------------------------
(* Properties *)

\* The values of the variables.
TypeOK ==
    /\ fs \subseteq Items /\ index \subseteq Items
    /\ nextId \in Nat
    /\ queue \in Seq(Event)
    /\ phase \in {"walk", "create", "stream", "run", "stopped"}
    /\ last.id \in Nat /\ last.timer \in Timers \cup {0} /\ (last.id # 0 => last.it \in Items)
    /\ timers \in [Timers -> TimerState]
    /\ cb \in {"idle", "got", "rest"} /\ (cb # "idle" => event \in Event)
    /\ held \subseteq Items /\ owed \subseteq {it.path : it \in Items} /\ stopped \in BOOLEAN
    /\ moves \subseteq Items \X Items /\ told \subseteq Items \X Items
    /\ came \subseteq Items /\ crossed \subseteq Items \X Items
    /\ late \subseteq {it.path : it \in Items} /\ missed \subseteq {it.path : it \in Items}
    /\ overlap \in BOOLEAN

\* Both names of a Rename event are those of one rename, and lie in the watched
\* directories.
RenamesAreMoves == told \subseteq moves

\* But for one case this is so: halves that are not a pair never carry the info
\* and bookmark of one item to another, whatever goroutine has touched
\* lastRenameItem in between (handleFsEvent).  The case: the second number of one
\* rename and the first of the next are successive too.
RenamesPair == told \subseteq moves \cup crossed

\* Nothing is under way
Settled ==
    /\ phase = "run" /\ queue = << >> /\ cb = "idle" /\ owed = {}
    /\ \A g \in Timers : timers[g] = NoTimer

\* Once things have settled, what the events have told is what there is, as far as
\* it is not ignored.  In four ways only can a change be lost: it came between
\* the walk and the stream; the item is new again while its deletion is held
\* back; a Rename joins two items that are not one; a goroutine of lastRenameItem
\* and a callback have overlapped.
Misjoined == {x.path : x \in UNION {{pr[1], pr[2]} : pr \in told \cap crossed}}
IndexFollows ==
    Settled /\ ~overlap =>
        \A it \in Items : it.path \notin Ignored \cup missed \cup late \cup Misjoined =>
                          (it \in index <=> it \in fs)

\* Things settle: no half of a rename and no deletion stays undecided for ever.
Settles == []<>(Settled \/ phase = "stopped")

=============================================================================

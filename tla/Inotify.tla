------------------------------ MODULE Inotify ------------------------------
(***************************************************************************)
(* pkg/fswatcher/driver_inotify.go with its watch map, between the kernel  *)
(* and the index.                                                          *)
(*                                                                         *)
(* Other programs change the tree; the kernel queues an event per change   *)
(* in a watched directory, naming the directory by the descriptor of its   *)
(* watch (wd).  One goroutine, the reader, takes the events in order, turns*)
(* the wd into a path with the watch map and reports Index, Remove and     *)
(* Rename to the index.  By the time it does, the tree has moved on: the   *)
(* path may be gone, or be somebody else's.  Deletions and first halves of *)
(* moves are held back for 100 ms and reported by goroutines of their own, *)
(* which also change the watch map.                                        *)
(*                                                                         *)
(* What DelEvents and MvEvents model in detail is here what they promise:  *)
(* a deletion is held until it is reported or a deletion above covers it,  *)
(* and the entry of a move lives until its goroutine has ended.            *)
(***************************************************************************)
EXTENDS Objects, SequencesExt

CONSTANTS
    Folders,        \* paths a directory may have
    Files,          \* paths a file may have
    Top,            \* directories that are always there, watched or not
    Roots,          \* those of them given with -root
    IgnoredNames,   \* names ignoreFn rejects, and everything below them
    Trees,          \* what may be there when the watcher starts, without Top
    Ops,            \* what other programs do
    FreeOps,        \* ... and those they do while the watcher is busy
    EarlyOps,       \* do they do so during the first walk too?
    UnlinkOpen,     \* may a file be deleted that is still open for writing?
    Overwrite,      \* may a move replace what has the new name?
    MaxOps          \* bound: operations of other programs

Tree == Folders \cup Files

ASSUME TreeAssumption ==
    /\ Tree \subseteq Path \ {<< >>} /\ Folders \cap Files = {}
    /\ Roots \subseteq Top /\ Top \subseteq Folders
    /\ \A p \in Tree \ Top : Parent(p) \in Folders
    /\ \A p, d \in Tree : Under(p, d) => \A k \in Len(d) .. Len(p) - 1 : SubSeq(p, 1, k) \in Folders
    /\ \A p \in Top, d \in Folders : Under(p, d) => d \in Top
    /\ \A t \in Trees :
          /\ t \subseteq Tree \ Top
          /\ \A p \in t, d \in Folders : Under(p, d) => d \in t \cup Top

ASSUME OpsAssumption ==
    /\ Ops \subseteq {"mkdir", "create", "unlink", "rmdir", "move"}
    /\ FreeOps \subseteq Ops
    /\ EarlyOps \in BOOLEAN /\ UnlinkOpen \in BOOLEAN /\ Overwrite \in BOOLEAN
    /\ MaxOps \in Nat

VARIABLES
    tree,       \* what has a path: an inode, or NoNode
    open,       \* files open for writing: inode of their directory, and name
    kernel,     \* the watches: wd -> inode
    nextWd,     \* wds are not used again
    queue,      \* events read() has not returned
    ops,        \* operations so far
    pathByWd,   \* the watch map: wd -> path
    wdByPath,   \* ... and path -> wd
    rpc,        \* the reader's program counter
    started,    \* the first walk is over
    todo,       \* paths the walk has read from a directory and not visited
    cur,        \* the directory the walk is at
    names,      \* what reading it returned
    call,       \* the event the reader is about to report
    dels,       \* delEvents: deletions held back
    mvs,        \* mvEvents: entries of the map with their goroutines
    index,      \* paths that have a row
    calm,       \* history: nothing has happened faster than the watcher copes
    moved,      \* history: something has been moved
    disturbed   \* history: a walk met another tree than it had read of: what it went to
                \* was gone, or in a directory that is not watched

fs     == <<tree, open, kernel, nextWd, queue, ops>>
wm     == <<pathByWd, wdByPath>>
walk   == <<todo, cur, names>>
reader == <<rpc, started, walk, call>>
hist   == <<calm, moved, disturbed>>
vars   == <<fs, wm, reader, dels, mvs, index, hist>>

NoNode == << >>
AFile  == <<"file">>
NoCall == [op |-> "none"]

\* The inode the k-th operation gives to what it creates at p
Inode(p, k) == IF p \in Folders THEN <<p, k>> ELSE AFile

At(p) == IF p \in Tree THEN tree[p] ELSE NoNode

shouldIgnore(p) == \E k \in 1 .. Len(p) : p[k] \in IgnoredNames

Base(p) == p[Len(p)]

\* m[x] = y in a map
Put(m, x, y) == [z \in DOMAIN m \cup {x} |-> IF z = x THEN y ELSE m[z]]

Watched(p) == \E w \in DOMAIN kernel : kernel[w] = At(p)

\* What reading the directory p returns
Entries(p) == {c \in Tree : Parent(c) = p /\ tree[c] # NoNode}

Init ==
    /\ \E t \in Trees : tree = [p \in Tree |-> IF p \in t \cup Top THEN Inode(p, 0) ELSE NoNode]
    /\ open = {} /\ kernel = << >> /\ nextWd = 1 /\ queue = << >> /\ ops = 0
    /\ pathByWd = << >> /\ wdByPath = << >>
    /\ rpc = "walk" /\ started = FALSE
    /\ todo = Roots /\ cur = << >> /\ names = {} /\ call = NoCall
    /\ dels = {} /\ mvs = {} /\ index = {}
    /\ calm = TRUE /\ moved = FALSE /\ disturbed = FALSE

\* Everything the watcher was told has been dealt with
Quiet == started /\ rpc = "next" /\ queue = << >> /\ dels = {} /\ mvs = {}

-----------------------------------------------------------------------------
(* Other programs, and the events the kernel queues for them.  IN_CREATE of *)
(* a file and IN_IGNORED, which the reader does nothing about, are left out. *)

Event(dir, p, mask) ==
    {[wd |-> w, mask |-> mask, name |-> Base(p), isDir |-> p \in Folders, cookie |-> ops] :
        w \in {v \in DOMAIN kernel : kernel[v] = dir}}

\* The set has at most one element: a directory has at most one watch
Queue(q, e) == q \o SetToSeq(e)

May(op) == op \in Ops /\ (Quiet \/ (op \in FreeOps /\ (started \/ EarlyOps)))

Op(op) ==
    /\ May(op) /\ ops < MaxOps
    /\ ops' = ops + 1
    /\ calm' = (calm /\ Quiet)
    /\ moved' = (moved \/ op = "move")
    /\ UNCHANGED <<wm, reader, dels, mvs, index, disturbed>>

Mkdir(p) ==
    /\ Op("mkdir")
    /\ At(p) = NoNode /\ At(Parent(p)) # NoNode
    /\ tree' = [tree EXCEPT ![p] = Inode(p, ops + 1)]
    /\ queue' = Queue(queue, Event(At(Parent(p)), p, "CREATE"))
    /\ UNCHANGED <<open, kernel, nextWd>>

OpenFile(p) == [dir |-> At(Parent(p)), name |-> Base(p)]

Create(p) ==
    /\ Op("create")
    /\ At(p) = NoNode /\ At(Parent(p)) # NoNode
    /\ tree' = [tree EXCEPT ![p] = AFile]
    /\ open' = open \cup {OpenFile(p)}
    /\ UNCHANGED <<kernel, nextWd, queue>>

\* The last write is followed by close; the event goes to the directory the
\* file is in by then, or was in when it was deleted
CloseWrite(o) ==
    /\ o \in open /\ May("create")
    /\ open' = open \ {o}
    /\ queue' = Queue(queue, {[wd |-> w, mask |-> "CLOSE_WRITE", name |-> o.name, isDir |-> FALSE,
                               cookie |-> 0] : w \in {v \in DOMAIN kernel : kernel[v] = o.dir}})
    /\ calm' = (calm /\ Quiet)
    /\ UNCHANGED <<tree, kernel, nextWd, ops, wm, reader, dels, mvs, index, moved, disturbed>>

Unlink(p) ==
    /\ Op("unlink")
    /\ At(p) # NoNode
    /\ OpenFile(p) \in open => UnlinkOpen
    /\ tree' = [tree EXCEPT ![p] = NoNode]
    /\ queue' = Queue(queue, Event(At(Parent(p)), p, "DELETE"))
    /\ UNCHANGED <<open, kernel, nextWd>>

\* With the inode goes its watch
Unwatched(inode) == Restrict(kernel, {w \in DOMAIN kernel : kernel[w] # inode})

Rmdir(p) ==
    /\ Op("rmdir")
    /\ p \notin Top /\ At(p) # NoNode /\ Entries(p) = {}
    /\ tree' = [tree EXCEPT ![p] = NoNode]
    /\ kernel' = Unwatched(At(p))
    /\ queue' = Queue(queue, Event(At(Parent(p)), p, "DELETE"))
    /\ UNCHANGED <<open, nextWd>>

\* p and q can be the two names of one mv, and have room for the same things
Movable(p, q) ==
    /\ p \in Folders <=> q \in Folders
    /\ p # q /\ ~Under(p, q) /\ ~Under(q, p)
    /\ \A c \in Tree : (Under(c, p) /\ tree[c] # NoNode) =>
          Relocate(c, p, q) \in IF c \in Folders THEN Folders ELSE Files

Move(p, q) ==
    /\ Op("move")
    /\ At(p) # NoNode /\ At(Parent(q)) # NoNode /\ Movable(p, q)
    /\ At(q) # NoNode => Overwrite /\ Entries(q) = {}
    /\ tree' = [c \in Tree |-> IF c = p \/ Under(c, p) THEN NoNode
                               ELSE IF c = q \/ Under(c, q) THEN At(Relocate(c, q, p))
                               ELSE tree[c]]
    /\ open' = {IF o = OpenFile(p) THEN OpenFile(q) ELSE o : o \in open}
    /\ kernel' = IF q \in Folders THEN Unwatched(At(q)) ELSE kernel
    /\ queue' = Queue(Queue(queue, Event(At(Parent(p)), p, "MOVED_FROM")),
                      Event(At(Parent(q)), q, "MOVED_TO"))
    /\ UNCHANGED nextWd

Others ==
    \/ \E p \in Folders \ Top : Mkdir(p) \/ Rmdir(p) \/ \E q \in Folders \ Top : Move(p, q)
    \/ \E p \in Files : Create(p) \/ Unlink(p) \/ \E q \in Files : Move(p, q)
    \/ \E o \in open : CloseWrite(o)

-----------------------------------------------------------------------------
(* The index: what onWatcherEvent makes of an event *)

\* Mutant: the rows below a directory stay
Without_Exact(isDir, p) == {q \in index : q # p}

\* index_delete
Without(isDir, p) == {q \in index : ~(q = p \/ (isDir /\ Under(q, p)))}

\* index_rename fails as a whole when the new name has a row
WithRenamed(isDir, old, new) ==
    LET to(p) == Renamed(p, isDir, old, new)
    IN  IF \E p, q \in index : p # q /\ to(p) = to(q) THEN index ELSE {to(p) : p \in index}

-----------------------------------------------------------------------------
(* The watch map *)

\* Mutant: without what is below it
Below_Exact(p) == {w \in DOMAIN pathByWd : pathByWd[w] = p}

\* Its wds for a directory and what is below it
Below(p) == {w \in DOMAIN pathByWd : pathByWd[w] = p \/ Under(pathByWd[w], p)}

add(wd, p) ==
    /\ pathByWd' = Put(pathByWd, wd, p)
    /\ wdByPath' = Put(wdByPath, p, wd)

\* The loop goes over the map in any order: of two wds that get the same path
\* either one stays in wdByPath
rename(old, new) ==
    /\ pathByWd' = [w \in DOMAIN pathByWd |-> Renamed(pathByWd[w], TRUE, old, new)]
    /\ LET kept == Restrict(wdByPath, DOMAIN wdByPath \ {pathByWd[w] : w \in Below(old)})
       IN  \E f \in [{pathByWd'[w] : w \in Below(old)} -> Below(old)] :
              /\ \A p \in DOMAIN f : pathByWd'[f[p]] = p
              /\ wdByPath' = [p \in DOMAIN f \cup DOMAIN kept |-> IF p \in DOMAIN f THEN f[p] ELSE kept[p]]

rmByPath(p) ==
    IF p \in DOMAIN wdByPath
    THEN /\ pathByWd' = Restrict(pathByWd, DOMAIN pathByWd \ {wdByPath[p]})
         /\ wdByPath' = Restrict(wdByPath, DOMAIN wdByPath \ {p})
    ELSE UNCHANGED wm

rmByPathRecursive(p) ==
    /\ pathByWd' = Restrict(pathByWd, DOMAIN pathByWd \ Below(p))
    /\ wdByPath' = Restrict(wdByPath, DOMAIN wdByPath \ {pathByWd[w] : w \in Below(p)})

-----------------------------------------------------------------------------
(* walkStartingAt, of start and of the reader *)

\* An error ends the walk; at the start the process ends with it
Abort ==
    /\ rpc' = IF started THEN "next" ELSE "dead"
    /\ todo' = {} /\ names' = {} /\ cur' = << >>
    /\ disturbed' = TRUE

\* lstat, and for a directory the read of its names
WalkItem(p) ==
    /\ rpc = "walk" /\ p \in todo
    /\ \/ /\ At(p) = NoNode
          /\ Abort /\ UNCHANGED index
       \/ /\ At(p) # NoNode /\ shouldIgnore(p)
          /\ todo' = todo \ {p}
          /\ UNCHANGED <<rpc, cur, names, index, disturbed>>
       \/ /\ At(p) # NoNode /\ ~shouldIgnore(p) /\ p \in Files
          /\ todo' = todo \ {p}
          /\ index' = index \cup {p}
          /\ UNCHANGED <<rpc, cur, names, disturbed>>
       \/ /\ At(p) # NoNode /\ ~shouldIgnore(p) /\ p \in Folders
          /\ todo' = todo \ {p} /\ cur' = p /\ names' = Entries(p)
          /\ rpc' = "add"
          /\ UNCHANGED <<index, disturbed>>
    /\ UNCHANGED <<fs, wm, started, call, dels, mvs, calm, moved>>

\* The walk function: InotifyAddWatch, which returns the wd of a directory that
\* is already watched, and watchMap.add
WalkAdd ==
    /\ rpc = "add"
    /\ \/ /\ At(cur) = NoNode
          /\ Abort
          /\ UNCHANGED <<kernel, nextWd, wm>>
       \/ /\ At(cur) # NoNode
          /\ \/ \E w \in DOMAIN kernel :
                   kernel[w] = At(cur) /\ add(w, cur) /\ UNCHANGED <<kernel, nextWd>>
             \/ /\ ~Watched(cur)
                /\ kernel' = Put(kernel, nextWd, At(cur))
                /\ nextWd' = nextWd + 1
                /\ add(nextWd, cur)
          /\ rpc' = "index"
          /\ disturbed' = (disturbed \/ (cur \notin Roots /\ ~Watched(Parent(cur))))
          /\ UNCHANGED walk
    /\ UNCHANGED <<tree, open, queue, ops, started, call, dels, mvs, index, calm, moved>>

\* ... and the Index event; filepath.Walk goes on with the names it has read
WalkIndex ==
    /\ rpc = "index"
    /\ index' = index \cup {cur}
    /\ todo' = todo \cup names
    /\ rpc' = "walk" /\ cur' = << >> /\ names' = {}
    /\ UNCHANGED <<fs, wm, started, call, dels, mvs, hist>>

WalkEnd ==
    /\ rpc = "walk" /\ todo = {}
    /\ rpc' = "next" /\ started' = TRUE
    /\ UNCHANGED <<fs, wm, walk, call, dels, mvs, index, hist>>

Walk == (\E p \in todo : WalkItem(p)) \/ WalkAdd \/ WalkIndex \/ WalkEnd

-----------------------------------------------------------------------------
(* readInotifyEvents and handleInotifyEvent *)

Known(e) ==
    /\ e.wd \in DOMAIN pathByWd
    /\ ~shouldIgnore(Append(pathByWd[e.wd], e.name))

Take(mask) ==
    /\ rpc = "next" /\ queue # << >>
    /\ Head(queue).mask = mask /\ Known(Head(queue))
    /\ queue' = Tail(queue)
    /\ UNCHANGED <<tree, open, kernel, nextWd, ops, started, cur, names, index, hist>>

\* The path of the event under the reader's hands
AbsPath == Append(pathByWd[Head(queue).wd], Head(queue).name)

\* No path for the wd, or an ignored one
Skip ==
    /\ rpc = "next" /\ queue # << >> /\ ~Known(Head(queue))
    /\ queue' = Tail(queue)
    /\ UNCHANGED <<tree, open, kernel, nextWd, ops, wm, reader, dels, mvs, index, hist>>

HandleCreate ==
    /\ Take("CREATE")
    /\ rpc' = "walk" /\ todo' = {AbsPath}
    /\ UNCHANGED <<wm, call, dels, mvs>>

HandleCloseWrite ==
    /\ Take("CLOSE_WRITE")
    /\ rpc' = "send" /\ call' = [op |-> "Index", name |-> AbsPath]
    /\ UNCHANGED <<wm, todo, dels, mvs>>

\* Mutant: deletions beside a deleted directory are dropped with those below it
HandleDelete_DropsBeside ==
    /\ Take("DELETE")
    /\ LET it == [path |-> AbsPath, isDir |-> Head(queue).isDir]
       IN  /\ dels' = {d \in dels : ~(it.isDir /\ Under(d.path, Parent(it.path)))} \cup {it}
           /\ IF it.isDir THEN rmByPath(it.path) ELSE UNCHANGED wm
    /\ UNCHANGED <<rpc, todo, call, mvs>>

\* delEvents.add, which drops what it holds below a deleted directory
HandleDelete ==
    /\ Take("DELETE")
    /\ LET it == [path |-> AbsPath, isDir |-> Head(queue).isDir]
       IN  /\ dels' = {d \in dels : ~(it.isDir /\ Under(d.path, it.path))} \cup {it}
           /\ IF it.isDir THEN rmByPath(it.path) ELSE UNCHANGED wm
    /\ UNCHANGED <<rpc, todo, call, mvs>>

HandleMovedFrom ==
    /\ Take("MOVED_FROM")
    /\ mvs' = mvs \cup {[cookie |-> Head(queue).cookie, path |-> AbsPath,
                         isDir |-> Head(queue).isDir, closed |-> FALSE, pc |-> "wait", wds |-> {}]}
    /\ UNCHANGED <<wm, rpc, todo, call, dels>>

\* addMvTo and the first half of handleMoveEvent
HandleMovedTo ==
    /\ Take("MOVED_TO")
    /\ LET e == Head(queue)
       IN  \/ \E m \in mvs :
                 /\ m.cookie = e.cookie
                 /\ mvs' = (mvs \ {m}) \cup {[m EXCEPT !.closed = TRUE]}
                 /\ call' = [op |-> "Rename", name |-> AbsPath, old |-> m.path, isDir |-> e.isDir]
                 /\ rpc' = IF e.isDir THEN "rename" ELSE "send"
                 /\ UNCHANGED todo
           \/ /\ \A m \in mvs : m.cookie # e.cookie
              /\ IF e.isDir
                 THEN rpc' = "walk" /\ todo' = {AbsPath} /\ UNCHANGED call
                 ELSE rpc' = "send" /\ call' = [op |-> "Index", name |-> AbsPath] /\ UNCHANGED todo
              /\ UNCHANGED mvs
    /\ UNCHANGED <<wm, dels>>

\* case Rename: watchMap.rename ...
RenameWatches ==
    /\ rpc = "rename"
    /\ rename(call.old, call.name)
    /\ rpc' = "send"
    /\ UNCHANGED <<fs, started, walk, call, dels, mvs, index, hist>>

\* ... and the event
Send ==
    /\ rpc = "send"
    /\ index' = IF call.op = "Index" THEN index \cup {call.name}
                ELSE WithRenamed(call.isDir, call.old, call.name)
    /\ rpc' = "next" /\ call' = NoCall
    /\ UNCHANGED <<fs, wm, started, walk, dels, mvs, hist>>

Reader == \/ Skip \/ HandleCreate \/ HandleCloseWrite \/ HandleDelete
          \/ HandleMovedFrom \/ HandleMovedTo \/ RenameWatches \/ Send

-----------------------------------------------------------------------------
(* The goroutines of delEvents and mvEvents *)

\* Mutant: the watch map is cleaned once more when the deletion is reported
ReportDelete_Unmaps(it) ==
    /\ dels' = dels \ {it}
    /\ index' = Without(it.isDir, it.path)
    /\ IF it.isDir THEN rmByPath(it.path) ELSE UNCHANGED wm
    /\ UNCHANGED <<fs, reader, mvs, hist>>

\* handleDeleteEvent
ReportDelete(it) ==
    /\ dels' = dels \ {it}
    /\ index' = Without(it.isDir, it.path)
    /\ UNCHANGED <<fs, wm, reader, mvs, hist>>

Step(m, n) == mvs' = (mvs \ {m}) \cup {n}

\* case <-time.After: too early if the other half is already in the queue
MvTimeout(m) ==
    /\ m.pc = "wait"
    /\ Step(m, [m EXCEPT !.pc = IF m.isDir THEN "unmap" ELSE "remove"])
    /\ calm' = (calm /\ ~m.closed /\ \A i \in DOMAIN queue : queue[i].cookie # m.cookie)
    /\ UNCHANGED <<fs, wm, reader, dels, index, moved, disturbed>>

\* handleMoveEvent, case Remove: rmByPathRecursive, InotifyRmWatch, the event
MvUnmap(m) ==
    /\ m.pc = "unmap"
    /\ rmByPathRecursive(m.path)
    /\ Step(m, [m EXCEPT !.pc = "rm", !.wds = Below(m.path)])
    /\ UNCHANGED <<fs, reader, dels, index, hist>>

MvRmWatch(m) ==
    /\ m.pc = "rm"
    /\ kernel' = Restrict(kernel, DOMAIN kernel \ m.wds)
    /\ Step(m, [m EXCEPT !.pc = "remove", !.wds = {}])
    /\ UNCHANGED <<tree, open, nextWd, queue, ops, wm, reader, dels, index, hist>>

MvRemove(m) ==
    /\ m.pc = "remove"
    /\ index' = Without(m.isDir, m.path)
    /\ Step(m, [m EXCEPT !.pc = "delete"])
    /\ UNCHANGED <<fs, wm, reader, dels, hist>>

\* The end of the goroutine: after case <-done, or after the handler
MvDelete(m) ==
    /\ m.pc = "delete" \/ (m.pc = "wait" /\ m.closed)
    /\ mvs' = mvs \ {m}
    /\ UNCHANGED <<fs, wm, reader, dels, index, hist>>

MvGoroutine(m) == MvTimeout(m) \/ MvUnmap(m) \/ MvRmWatch(m) \/ MvRemove(m) \/ MvDelete(m)

Goroutines == (\E it \in dels : ReportDelete(it)) \/ (\E m \in mvs : MvGoroutine(m))

Next == Others \/ Walk \/ Reader \/ Goroutines

Spec == Init /\ [][Next]_vars

-----------------------------------------------------------------------------
(* Properties *)

\* Watched, and not to be ignored
Visible(p) ==
    /\ tree[p] # NoNode /\ ~shouldIgnore(p)
    /\ \E r \in Roots : p = r \/ Under(p, r)

\* Files that are being written have a row only if a walk has met them
Unfinished == {p \in Files : tree[p] # NoNode /\ OpenFile(p) \in open}

\* If things happen one at a time, the index is the tree: creations, deletions
\* and moves in every combination, within the roots, into and out of them, to
\* and from ignored names.
IndexExact ==
    (calm /\ Quiet) => index \ Unfinished = {p \in Tree : Visible(p)} \ Unfinished

\* ... and so is the watch map: every directory of the roots has a watch, the
\* map knows its path in both directions, and nothing else is in it.
WatchesExact ==
    (calm /\ Quiet) =>
        /\ DOMAIN pathByWd = DOMAIN kernel
        /\ DOMAIN wdByPath = {p \in Folders : Visible(p)}
        /\ \A p \in DOMAIN wdByPath :
              /\ wdByPath[p] \in DOMAIN kernel
              /\ kernel[wdByPath[p]] = tree[p]
              /\ pathByWd[wdByPath[p]] = p

\* Whatever the pace of creations and deletions, an index at rest has no row
\* for something that is gone.
NoGhost ==
    (Quiet /\ (calm \/ (~moved /\ ~disturbed))) => \A p \in index : At(p) # NoNode

\* Whatever the pace of creations and deletions, at rest the events of every
\* watch are understood, and under the right name: rmByPath, called for an
\* earlier directory of the same name, does not leave a new one deaf.
NoDeafWatch ==
    (Quiet /\ ~moved /\ ~disturbed) => \A w \in DOMAIN kernel :
        w \in DOMAIN pathByWd /\ At(pathByWd[w]) = kernel[w]

\* "using w.addDirsStartingAt(..) we handle case for mkdir -p 1/2/3": directories
\* made one inside the other at any pace are all found.
MkdirPFound ==
    (Quiet /\ Ops = {"mkdir"}) => {p \in Folders : Visible(p)} \subseteq index

=============================================================================

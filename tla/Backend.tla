------------------------------ MODULE Backend ------------------------------
(***************************************************************************)
(* The indexing half of dlna/backend/backend.go: the handler of watcher    *)
(* events, the table it maintains, the start-up walk that rebuilds it and  *)
(* the reindexer goroutine that probes dirty videos and publishes them.    *)
(*                                                                         *)
(* Three activities interleave:                                            *)
(*   - the walk of Start, then the goroutine that reads inotify; both call *)
(*     onWatcherEvent one event at a time (hpc is its program counter);    *)
(*   - the timers of the watcher, which call onWatcherEvent(Remove) from   *)
(*     goroutines of their own;                                            *)
(*   - the reindexer (rpc, batch, last, cur, st, vinfo).                   *)
(* Around them are other programs that write video files, time, the crash  *)
(* of the process and its restart.  The watcher is not trusted: once the   *)
(* walk is over any Index, Remove or Rename may arrive at any time, so     *)
(* what holds here holds for every order the real watcher produces.        *)
(***************************************************************************)
EXTENDS Objects

CONSTANTS
    Folders,        \* paths that are directories, all present all the time
    Videos,         \* paths a video file may have
    Roots,          \* the directories given with -root
    Limit,          \* rows per GetObjects of the reindexer (100 in the code)
    Broken,         \* file versions ffprobe can not parse
    FsOps,          \* what other programs do: subset of {"Delete", "Move"}; they always write
    SameDate,       \* may a write leave size and mtime (in seconds) as they were?
    FaultyCalls,    \* calls that may return an error
    MaxWrites,      \* bound: writes of other programs
    MaxEvents,      \* bound: events of the watcher after the walk
    MaxStarts       \* bound: starts of the process

Tree == Folders \cup Videos

Calls == {"Index", "Remove", "Rename", "GetObjects", "getOneObject", "UpdateObject",
          "AllObjectsToOffline", "DeleteOfflineObjects",
          "readCacheFile", "writeCacheFile", "GetBookmarkInfo"}

ASSUME TreeAssumption ==
    /\ Folders \subseteq Path /\ Videos \subseteq Path
    /\ Folders \cap Videos = {}
    /\ Roots \subseteq Folders /\ Roots # {}
    /\ \A r, s \in Roots : ~Under(r, s)     \* validatedAddDir

ASSUME BoundAssumption ==
    /\ Limit \in Nat \ {0}
    /\ Broken \subseteq Nat
    /\ FsOps \subseteq {"Delete", "Move"}
    /\ SameDate \in BOOLEAN
    /\ FaultyCalls \subseteq Calls
    /\ MaxWrites \in Nat /\ MaxEvents \in Nat /\ MaxStarts \in Nat

VARIABLES
    files,      \* the video files: version of the content (0: no file) and its date
    clock,      \* versions handed out so far
    cache,      \* @eaDir/.../SYNOVIDEO_VIDEO_INFO per video: date it is for, info it holds
    objects,    \* the table
    nextId,     \* its BIGSERIAL
    phase,      \* of the process: "down", "walking", "running"
    done,       \* b.done is closed
    dirtyFlag,  \* b.dirtyFlag
    starts,     \* starts so far
    events,     \* events the watcher has sent since the walk
    todo,       \* paths the walk has read from a directory and not visited
    visited,    \* paths this walk has put into the table (history)
    hpc,        \* "idle", or "store" between DB.Index and the store of dirtyFlag
    rpc,        \* the reindexer's program counter
    batch,      \* res.Items not yet taken
    last,       \* filter.LastVisitedId
    cur,        \* id and path of the object being reindexed
    st,         \* videoModTime of GetVideoInfo (0: none)
    vinfo       \* what GetVideoInfo returned (0: none)

disk     == <<files, clock>>
table    == <<objects, nextId>>
process  == <<phase, done, starts, events>>
walk     == <<todo, visited>>
rx       == <<rpc, batch, last, cur, st, vinfo>>
vars     == <<disk, cache, table, process, dirtyFlag, walk, hpc, rx>>

NoFile  == [ver |-> 0, date |-> 0]
NoCache == [date |-> 0, info |-> 0]
NoObj   == [id |-> 0, path |-> <<>>]

\* The rows of a reindexing pass: every program point of reindexDirty after
\* the CompareAndSwap
Pass == {"scan", "items", "stat", "probe", "update", "check", "query", "store"}

May(call) == call \in FaultyCalls

Init ==
    /\ files = [v \in Videos |-> NoFile]
    /\ clock = 0
    /\ cache = [v \in Videos |-> NoCache]
    /\ objects = {}
    /\ nextId = 1
    /\ phase = "down" /\ done = FALSE /\ starts = 0 /\ events = 0
    /\ dirtyFlag = 0
    /\ todo = {} /\ visited = {}
    /\ hpc = "idle"
    /\ rpc = "off" /\ batch = {} /\ last = 0 /\ cur = NoObj /\ st = 0 /\ vinfo = 0

-----------------------------------------------------------------------------
(* Other programs on the shared file system, and time *)

\* A program writes the video p.  The date the code compares is the pair of
\* size and mtime in whole seconds; two writes may share it if SameDate.
Write(p) ==
    /\ clock < MaxWrites
    /\ clock' = clock + 1
    /\ \E d \in {clock + 1} \cup (IF SameDate /\ files[p] # NoFile THEN {files[p].date} ELSE {}) :
          files' = [files EXCEPT ![p] = [ver |-> clock + 1, date |-> d]]
    /\ UNCHANGED <<cache, table, process, dirtyFlag, walk, hpc, rx>>

Delete(p) ==
    /\ "Delete" \in FsOps
    /\ files[p] # NoFile
    /\ files' = [files EXCEPT ![p] = NoFile]
    /\ UNCHANGED <<clock, cache, table, process, dirtyFlag, walk, hpc, rx>>

\* mv keeps size and mtime, and leaves the cache in @eaDir behind
Move(p, q) ==
    /\ "Move" \in FsOps
    /\ p # q /\ files[p] # NoFile
    /\ files' = [files EXCEPT ![p] = NoFile, ![q] = files[p]]
    /\ UNCHANGED <<clock, cache, table, process, dirtyFlag, walk, hpc, rx>>

\* now() reaches the reindex_at of a row
GapElapses(o) ==
    /\ o.reindex_at = "gap"
    /\ objects' = (objects \ {o}) \cup {[o EXCEPT !.reindex_at = "due"]}
    /\ UNCHANGED <<disk, cache, nextId, process, dirtyFlag, walk, hpc, rx>>

Environment ==
    \/ \E p \in Videos : Write(p) \/ Delete(p) \/ \E q \in Videos : Move(p, q)
    \/ \E o \in objects : GapElapses(o)

-----------------------------------------------------------------------------
(* The process: start, stop, crash *)

\* Everything the process keeps in memory, as a new process has it
Fresh ==
    /\ done' = FALSE /\ dirtyFlag' = 0
    /\ todo' = {} /\ visited' = {}
    /\ hpc' = "idle"
    /\ rpc' = "off" /\ batch' = {} /\ last' = 0 /\ cur' = NoObj /\ st' = 0 /\ vinfo' = 0

\* Start up to the first item of the walk: the WalkStart event marks every
\* row offline; an error is only logged
Start ==
    /\ phase = "down" /\ starts < MaxStarts
    /\ phase' = "walking" /\ starts' = starts + 1
    /\ todo' = Roots
    /\ \/ objects' = AllObjectsToOffline(objects)
       \/ May("AllObjectsToOffline") /\ objects' = objects
    /\ UNCHANGED <<disk, cache, nextId, done, events, dirtyFlag, visited, hpc, rx>>

Stop ==
    /\ phase # "down" /\ ~done
    /\ done' = TRUE
    /\ UNCHANGED <<disk, cache, table, phase, starts, events, dirtyFlag, walk, hpc, rx>>

\* The process ends: after Stop, or killed at any point.  main does not wait
\* for the reindexer.
Exit ==
    /\ phase # "down"
    /\ phase' = "down"
    /\ Fresh
    /\ UNCHANGED <<disk, cache, table, starts, events>>

-----------------------------------------------------------------------------
(* onWatcherEvent *)

\* case Index, first call: the error is kept for the log and does not stop
\* the handler.  A failed call may still have advanced the serial.
IndexEvent(p) ==
    /\ hpc = "idle"
    /\ nextId' = nextId + 1
    /\ \/ objects' = index_add(objects, nextId, p \in Folders, p)
       \/ May("Index") /\ objects' = objects
    /\ hpc' = "store"

\* case Index, second call: atomic.StoreUint32(&b.dirtyFlag, 1)
StoreDirty ==
    /\ hpc = "store"
    /\ hpc' = "idle"
    /\ dirtyFlag' = 1

\* One more event of the watcher once the walk is over
Arrives ==
    /\ phase = "running"
    /\ events < MaxEvents
    /\ events' = events + 1
    /\ UNCHANGED <<phase, done, starts>>

\* case Remove
Remove(p) ==
    /\ Arrives
    /\ \/ objects' = index_delete(objects, p \in Folders, p)
       \/ May("Remove") /\ objects' = objects
    /\ UNCHANGED <<disk, cache, nextId, dirtyFlag, walk, hpc, rx>>

\* old and new can be the two names of one mv: of the same kind, neither
\* inside the other, and everything below old has a place below new
Movable(old, new) ==
    /\ old \in Folders <=> new \in Folders
    /\ old # new /\ ~Under(old, new) /\ ~Under(new, old)
    /\ old \in Folders =>
          \A p \in Tree : Under(p, old) =>
             /\ Relocate(p, old, new) \in Tree
             /\ p \in Folders <=> Relocate(p, old, new) \in Folders

\* case Rename; a name already in the table makes index_rename fail
Rename(old, new) ==
    /\ Arrives
    /\ hpc = "idle"
    /\ Movable(old, new)
    /\ \/ objects' = index_rename(objects, old \in Folders, old, new)
       \/ May("Rename") /\ objects' = objects
    /\ UNCHANGED <<disk, cache, nextId, dirtyFlag, walk, hpc, rx>>

-----------------------------------------------------------------------------
(* The start-up walk: filepath.Walk over the roots, Index for every item *)

Exists(p) == p \in Videos => files[p] # NoFile

\* What reading the directory p returns
Entries(p) == {c \in Tree : Len(c) = Len(p) + 1 /\ Under(c, p) /\ Exists(c)}

\* filepath.Walk reads the names in a directory before it calls the walk
\* function for the directory itself
WalkVisit(p) ==
    /\ phase = "walking"
    /\ p \in todo /\ Exists(p)
    /\ IndexEvent(p)
    /\ todo' = (todo \ {p}) \cup Entries(p)
    /\ visited' = visited \cup {p}
    /\ UNCHANGED <<disk, cache, process, dirtyFlag, rx>>

\* The item was deleted after its directory was read: lstat fails, the walk
\* is given up and main exits
WalkVanished(p) ==
    /\ phase = "walking" /\ hpc = "idle"
    /\ p \in todo /\ ~Exists(p)
    /\ phase' = "down"
    /\ Fresh
    /\ UNCHANGED <<disk, cache, table, starts, events>>

\* WalkComplete: rows the walk did not touch are deleted, and only if that
\* worked the reindexer is started
WalkComplete ==
    /\ phase = "walking"
    /\ todo = {} /\ hpc = "idle"
    /\ phase' = "running"
    /\ \/ objects' = DeleteOfflineObjects(objects) /\ rpc' = "sleep"
       \/ May("DeleteOfflineObjects") /\ UNCHANGED <<objects, rpc>>
    /\ visited' = {}
    /\ UNCHANGED <<disk, cache, nextId, done, starts, events, dirtyFlag, todo, hpc,
                   batch, last, cur, st, vinfo>>

\* Index after the walk
Index(p) ==
    /\ Arrives
    /\ IndexEvent(p)
    /\ UNCHANGED <<disk, cache, dirtyFlag, walk, rx>>

\* The second call of Index, during the walk and after it
Store ==
    /\ StoreDirty
    /\ UNCHANGED <<disk, cache, table, process, walk, rx>>

Walk == WalkComplete \/ \E p \in Tree : WalkVisit(p) \/ WalkVanished(p)

Watcher == \/ \E p \in Tree : Index(p) \/ Remove(p) \/ \E q \in Tree : Rename(p, q)
           \/ Store

-----------------------------------------------------------------------------
(* The reindexer: startReindexer, reindexDirty, Reindex, GetVideoInfo *)

\* The timer of startReindexer fires: CompareAndSwap(&b.dirtyFlag, 1, 0)
RxTick ==
    /\ rpc = "sleep" /\ dirtyFlag = 1
    /\ dirtyFlag' = 0
    /\ rpc' = "scan" /\ last' = 0
    /\ UNCHANGED <<disk, cache, table, process, walk, hpc, batch, cur, st, vinfo>>

\* ... or b.done is closed first
RxQuit ==
    /\ rpc = "sleep" /\ done
    /\ rpc' = "off"
    /\ UNCHANGED <<disk, cache, table, process, dirtyFlag, walk, hpc,
                   batch, last, cur, st, vinfo>>

\* GetObjects(StatusReindex, id > last, ORDER BY id LIMIT).  A query that
\* fails while its rows are read returns the rows read so far and no error.
RxScan ==
    /\ rpc = "scan"
    /\ LET res == FirstById({o \in StatusReindex(objects) : o.id > last}, Limit)
       IN  \/ batch' = res
           \/ May("GetObjects") /\ \E o \in res : batch' = {q \in res : q.id < o.id}
    /\ rpc' = IF batch' = {} THEN "check" ELSE "items"
    /\ UNCHANGED <<disk, cache, table, process, dirtyFlag, walk, hpc, last, cur, st, vinfo>>

\* Mutant: LastVisitedId advances only for objects that need no probing
RxItem_NoAdvance ==
    /\ rpc = "items"
    /\ \/ /\ batch = {} /\ rpc' = "scan"
          /\ UNCHANGED <<batch, last, cur>>
       \/ /\ batch # {} /\ done /\ rpc' = "sleep" /\ batch' = {} /\ last' = 0
          /\ UNCHANGED cur
       \/ /\ ~done
          /\ \E o \in batch :
                /\ \A q \in batch : o.id <= q.id
                /\ batch' = batch \ {o}
                /\ rpc' = "stat" /\ cur' = [id |-> o.id, path |-> o.path]
                /\ UNCHANGED last
    /\ UNCHANGED <<disk, cache, table, process, dirtyFlag, walk, hpc, st, vinfo>>

\* The loop over res.Items: leave if b.done is closed, else take the next
\* object and advance LastVisitedId before anything can fail
RxItem ==
    /\ rpc = "items"
    /\ \/ /\ batch = {}
          /\ rpc' = "scan"
          /\ UNCHANGED <<batch, last, cur>>
       \/ /\ batch # {} /\ done
          /\ rpc' = "sleep" /\ batch' = {} /\ last' = 0
          /\ UNCHANGED cur
       \/ /\ ~done
          /\ \E o \in batch :
                /\ \A q \in batch : o.id <= q.id
                /\ batch' = batch \ {o}
                /\ last' = o.id
                /\ IF o.typ = "video"
                   THEN rpc' = "stat" /\ cur' = [id |-> o.id, path |-> o.path]
                   ELSE UNCHANGED <<rpc, cur>>
    /\ UNCHANGED <<disk, cache, table, process, dirtyFlag, walk, hpc, st, vinfo>>

\* Reindex is over for this object, with or without an error
NextItem == rpc' = "items" /\ cur' = NoObj /\ st' = 0 /\ vinfo' = 0

\* GetVideoInfo: stat, then the cache file; it is valid only for the same date
RxStat ==
    /\ rpc = "stat"
    /\ LET f == files[cur.path]
           c == cache[cur.path]
       IN  \/ f = NoFile /\ NextItem
           \/ /\ f # NoFile /\ f.date = c.date
              /\ rpc' = "update" /\ vinfo' = c.info
              /\ UNCHANGED <<cur, st>>
           \/ /\ f # NoFile /\ (f.date # c.date \/ May("readCacheFile"))
              /\ rpc' = "probe" /\ st' = f.date
              /\ UNCHANGED <<cur, vinfo>>
    /\ UNCHANGED <<disk, cache, table, process, dirtyFlag, walk, hpc, batch, last>>

\* Mutant: the file is probed when it should be stat'ed and stat'ed for the
\* cache after that (a version and its date are the same number here)
RxProbe_StatLast ==
    /\ rpc = "probe"
    /\ files[cur.path] # NoFile
    /\ rpc' = "update" /\ vinfo' = st /\ st' = 0
    /\ cache' = [cache EXCEPT ![cur.path] = [date |-> files[cur.path].date, info |-> st]]
    /\ UNCHANGED <<cur, disk, table, process, dirtyFlag, walk, hpc, batch, last>>

\* Mutant: the error of ffprobe is not returned
RxProbe_IgnoresError ==
    /\ rpc = "probe"
    /\ rpc' = "update" /\ vinfo' = files[cur.path].ver /\ st' = 0
    /\ UNCHANGED <<cache, cur, disk, table, process, dirtyFlag, walk, hpc, batch, last>>

\* GetVideoInfo: ffprobe reads the file as it is now; the cache is written
\* with the date of the stat.  A write that fails half-way leaves no cache.
RxProbe ==
    /\ rpc = "probe"
    /\ LET f == files[cur.path]
       IN  \/ /\ f = NoFile \/ f.ver \in Broken
              /\ NextItem
              /\ UNCHANGED cache
           \/ /\ f # NoFile /\ f.ver \notin Broken
              /\ rpc' = "update" /\ vinfo' = f.ver /\ st' = 0
              /\ \/ cache' = [cache EXCEPT ![cur.path] = [date |-> st, info |-> f.ver]]
                 \/ May("writeCacheFile") /\ cache' \in {cache, [cache EXCEPT ![cur.path] = NoCache]}
              /\ UNCHANGED cur
    /\ UNCHANGED <<disk, table, process, dirtyFlag, walk, hpc, batch, last>>

\* GetBookmarkInfo, then UpdateObject by id; the thumbnail made afterwards
\* touches no state of this module
RxUpdate ==
    /\ rpc = "update"
    /\ \/ objects' = UpdateObject(objects, cur.id, vinfo)
       \/ (May("GetBookmarkInfo") \/ May("UpdateObject")) /\ objects' = objects
    /\ NextItem
    /\ UNCHANGED <<disk, cache, nextId, process, dirtyFlag, walk, hpc, batch, last>>

\* Mutant: the query after the loop is left out
RxCheck_NoQuery ==
    /\ rpc = "check"
    /\ rpc' = "sleep" /\ last' = 0
    /\ UNCHANGED <<disk, cache, table, process, dirtyFlag, walk, hpc, batch, cur, st, vinfo>>

\* After the loop: LoadUint32(&b.dirtyFlag)
RxCheck ==
    /\ rpc = "check"
    /\ rpc' = IF dirtyFlag = 0 THEN "query" ELSE "sleep"
    /\ last' = 0
    /\ UNCHANGED <<disk, cache, table, process, dirtyFlag, walk, hpc, batch, cur, st, vinfo>>

\* Mutant: the query asks for StatusReindex, so rows inside the gap are missed
RxQuery_OnlyDue ==
    /\ rpc = "query"
    /\ rpc' = IF StatusReindex(objects) # {} THEN "store" ELSE "sleep"
    /\ UNCHANGED <<disk, cache, table, process, dirtyFlag, walk, hpc,
                   batch, last, cur, st, vinfo>>

\* getOneObject(StatusDirty); its error is dropped
RxQuery ==
    /\ rpc = "query"
    /\ \/ rpc' = IF StatusDirty(objects) # {} THEN "store" ELSE "sleep"
       \/ May("getOneObject") /\ rpc' = "sleep"
    /\ UNCHANGED <<disk, cache, table, process, dirtyFlag, walk, hpc,
                   batch, last, cur, st, vinfo>>

\* Mutant: the flag is left as it is
RxStore_Skipped ==
    /\ rpc = "store"
    /\ rpc' = "sleep"
    /\ UNCHANGED <<disk, cache, table, process, dirtyFlag, walk, hpc, batch, last, cur, st, vinfo>>

RxStore ==
    /\ rpc = "store"
    /\ dirtyFlag' = 1
    /\ rpc' = "sleep"
    /\ UNCHANGED <<disk, cache, table, process, walk, hpc, batch, last, cur, st, vinfo>>

Reindexer == \/ RxTick \/ RxQuit \/ RxScan \/ RxItem \/ RxStat \/ RxProbe
             \/ RxUpdate \/ RxCheck \/ RxQuery \/ RxStore

Next == Environment \/ Start \/ Stop \/ Exit \/ Walk \/ Watcher \/ Reindexer

Spec == Init /\ [][Next]_vars

-----------------------------------------------------------------------------
(* Fairness: goroutines are scheduled and time passes; nothing is assumed of *)
(* the watcher's events, of other programs, or of restarts.                  *)

Fairness ==
    /\ WF_vars(Walk)
    /\ WF_vars(Store)
    /\ WF_vars(Reindexer)
    /\ WF_vars(\E o \in objects : GapElapses(o))

FairSpec == Spec /\ Fairness

-----------------------------------------------------------------------------
(* Properties *)

IndexedRow == {o \in Row : o.path \in Tree /\ (o.typ = "folder" <=> o.path \in Folders)}

\* The values each variable may take; in particular a row's type always agrees
\* with what its path is, through every index_add and index_rename.
TypeOK ==
    /\ files \in [Videos -> [ver : Nat, date : Nat]]
    /\ clock \in Nat
    /\ cache \in [Videos -> [date : Nat, info : Nat]]
    /\ objects \subseteq IndexedRow
    /\ nextId \in Nat \ {0}
    /\ phase \in {"down", "walking", "running"}
    /\ done \in BOOLEAN
    /\ starts \in Nat /\ events \in Nat
    /\ dirtyFlag \in {0, 1}
    /\ todo \subseteq Tree /\ visited \subseteq Tree
    /\ hpc \in {"idle", "store"}
    /\ rpc \in Pass \cup {"off", "sleep"}
    /\ batch \subseteq IndexedRow
    /\ last \in Nat
    /\ rpc \in {"stat", "probe", "update"} => cur \in [id : Nat \ {0}, path : Videos]
    /\ st \in Nat
    /\ vinfo \in Nat

\* A dirty row is never forgotten (reindexDirty, onWatcherEvent): while the
\* process runs and is not stopping, if some row waits for reindexing then the
\* reindexer exists, and it is inside a pass, or dirtyFlag will wake it, or the
\* handler is about to set dirtyFlag.  The flag is cleared, loaded and set from
\* two goroutines with database calls in between.
DirtyNeverForgotten ==
    (phase = "running" /\ ~done /\ StatusDirty(objects) # {}) =>
        /\ rpc # "off"
        /\ dirtyFlag = 1 \/ hpc = "store" \/ rpc \in Pass

\* A video a client can see (reindex_at IS NULL) has been probed at least once:
\* no path through index_add, index_rename, a failed Reindex or a restart
\* publishes a row with the default columns.
PublicHasInfo ==
    \A o \in StatusPublic(objects) : o.typ = "video" => o.info # 0

\* A cache file that GetVideoInfo would accept for the file as it is on disk
\* describes exactly that content.  The stat comes before the probe, so a write
\* in between leaves a cache file that is never accepted again.
InfoCacheSound ==
    \A v \in Videos :
        (files[v] # NoFile /\ cache[v].date = files[v].date) => cache[v].info = files[v].ver

\* When the start-up walk completes the table holds the paths the walk visited
\* and no others: rows of files deleted while the process was down are gone and
\* no visited one is lost (AllObjectsToOffline, index_add, DeleteOfflineObjects).
WalkIsExact ==
    [][(phase = "walking" /\ phase' = "running") =>
          {o.path : o \in objects'} = visited]_vars

\* Every pass of reindexDirty ends, although videos that can not be probed stay
\* due and rows are added while it runs.
PassEnds == rpc \in Pass ~> rpc \notin Pass

\* Once other programs and the watcher are quiet, a running server has nothing
\* left to reindex but files that are gone or that ffprobe rejects.
IndexSettles ==
    <>[]((phase = "running" /\ ~done) =>
            \A o \in StatusDirty(objects) :
                files[o.path] = NoFile \/ files[o.path].ver \in Broken)

=============================================================================

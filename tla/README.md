# A formal model of godlna

godlna is a DLNA media server for a NAS, written in Go. It watches directories
with videos, keeps a PostgreSQL table of what it found, probes each video with
ffprobe, makes thumbnails with ffmpeg, and serves the table to televisions over
UPnP; playback positions (bookmarks) come back from them.

This directory holds TLA+ modules for the parts of it that are hard to test, TLC
configurations that check them on small instances, and proofs checked by TLAPS.

## The system

| component (source) | state | operations | hard behaviour | module |
|---|---|---|---|---|
| index table (`scripts/schema.psql.sql`, `backend/db_driver_postgres.go`) | rows: path, type, online, `reindex_at`, video columns, bookmark | `index_add`, `index_delete`, `index_rename`, `UpdateObject`, offline/delete-offline, `GetObjects` | each statement is its own transaction; rows are read, used for seconds, and updated by id | Objects |
| backend (`backend/backend.go`, `video_info.go`) | `dirtyFlag`, the done channel, the reindexer goroutine, cache files in `@eaDir` | `onWatcherEvent`, `Start`, `Stop`, `reindexDirty`, `Reindex`, `GetVideoInfo` | handler, timers and reindexer interleave around one atomic flag; files change between stat and probe; crash and restart (`Restart=always`) | Backend |
| browsing (`content_directory_controller.go`, `backend.go`) | none | `Browse`, `Object`, `Children`, `ParentId` | several queries per answer; a single root has two names | Browse |
| bookmarks and thumbnails (`bookmark_info.go`, `thumbnail.go`, `ffmpeg/thumbnail.go`) | bookmark column, cache file, thumbnail | `SetBookmark`, `GetBookmarkInfo`, `makeThumbnail` | three writes, no transaction around them; Reindex reads the cache file back | Thumbnails, Bookmarks |
| inotify driver (`fswatcher/driver_inotify.go`, `..._watch_map.go`) | watches, watch map, reader goroutine | `start`, `walkStartingAt`, `handleInotifyEvent`, `handleMoveEvent`, `stop` | events describe the past, the walk sees the present; goroutines of timers change the watch map beside the reader | Inotify |
| fsevents driver (`driver_fsevents.go`, macOS) | `lastRenameItem`, stream, `w.done` | `start`, `stop`, `handleFsEvent`, `handleLastRenameEvent` | halves of renames are paired by successive numbers; a goroutine clears what a callback sets | FsEvents |
| grouping of deletions (`common_delete_events.go`) | map directory → items and channel; a goroutine per deletion | `add`, `stop`, `reset` | timer, close and replacement race; a channel must not be closed twice | DelEvents, HeldDeletions |
| pairing of moves (`driver_inotify_move_events.go`) | map cookie → first half; a goroutine per first half | `addMvFrom`, `addMvTo`, `stop` | the timer reports before it deletes its entry | MvEvents |
| event subscriptions (`upnp/events`) | subscribers (`sync.Map`), counter of visits | `Subscribe`, `renew`, `Unsubscribe`, `Clean`, `SendInitialState` | load and store without a lock; a copy used two seconds later; a counter compared for equality | EventManager |
| SSDP (`upnp/ssdp`) | socket, quit channel, goroutines of `runPeriodic`, `listen`, `send` | `Start`, `Stop`, answering searches | delayed messages race the ByeBye of `Stop` | Ssdp |
| process (`cmd/godlna`, `dlna/server.go`) | the order of the above | main and the goroutine of the signal handler | a signal during the start; Stop waiting for what never comes | Process |
| SOAP, descriptions, device XML; ffprobe, imaging, logger, network, tools | - | - | external programs, pixels, formatting | - |

How they interact. The watcher calls `onWatcherEvent` from the goroutine of
`Start` (the walk), from the reader of events and from the goroutines of its
timers. The handler changes the table and sets `dirtyFlag`. The reindexer wakes
up every ten seconds, takes the flag and works through the dirty rows. Browsing
and `X_SetBookmark` see only rows whose `reindex_at` is NULL. A signal makes a
goroutine of main close `b.done`, stop the watcher, SSDP and the HTTP server, in
this order; the last makes main return and ends the process.

What makes each part correct: no dirty row is forgotten and only probed videos
are published; the cache never lies; the walk at the start makes the table what
the disk is; the way up from an object is the way down to it; a position that was
reported as stored is kept, in all its copies; index and watch map mirror the
tree; each deletion and each move is reported once it has happened, and nothing
panics; subscriptions live as long as granted and no longer; SSDP announces
until it is stopped, then says ByeBye, and the process ends after that.

## Modules

    Paths <- Objects <- Backend <- Browse <- MCBackend
      |         |                    ^---- BackendProofs
      |         +---- Inotify <- MCInotify
      |                  ^---- InotifyProofs
      +-- HeldDeletions . . FsEvents <- MCFsEvents   (D == INSTANCE HeldDeletions)
      |        .               ^---- FsEventsProofs
      +-- DelEvents <- DelEventsProofs               (HeldSpec: refinement)
    MvEvents <- MvEventsProofs      Thumbnails <- Bookmarks <- MCBookmarks
                                               ^---- BookmarksProofs
    Ssdp <- Process <- ProcessProofs      EventManager <- EventManagerProofs

A definition named `X_Something` directly above a definition `X` and commented
"Mutant" is `X` with a plausible bug in it; it is used nowhere and shows which
property would catch the bug.

**Paths** path names as sequences. The string prefix tests of the code (`d + "/"`)
and the `LIKE` of the schema are `Under`; a name with `%` or `_`, which `LIKE`
would take for a pattern, is left out.

**Objects** the table as a set of rows, each SQL statement an operator from table
to table. `reindex_at` is `null`, `gap` (ahead) or `due`; all columns ffprobe
fills are one number, the version of the content they describe. The UNIQUE
constraint makes `index_rename` fail as a whole. `UpdateObject` writes only
columns that differ from the row as scanned; no one but the reindexer writes the
video columns, so this is the same as writing all of them (the bookmark column is
another matter, see Bookmarks).

**Backend** the handler of watcher events (`hpc` is its program counter: the
database call and the store of `dirtyFlag` are two steps), the walk of the start
(`todo`, `visited`), the reindexer (`rpc`; one step per database call, stat,
probe, and load or store of the flag), the cache files, other programs that
write, delete and move videos, time, `Stop`, and crash and restart at any point.
The watcher is not trusted: after the walk any Index, Remove or Rename may come
at any time, so what holds here holds for whatever order the real watcher
produces. `FaultyCalls` names the calls that may fail. A crash in the middle of
the write of a cache file is modelled as no cache file.

**Browse** adds no action: `Object`, `Children` (with its ORDER BY, LIMIT, OFFSET
and TotalMatches) and `ParentId` are operators over the table of Backend, and
the two forms of Browse are built from them. The object 0 has no row: with one
root it stands for that root, with several for their parent. A request runs two
or three of the queries one after the other, so page and count may be of different tables;
each is right for its own.

**Thumbnails** the arithmetic of the progress bar and of the frame to show,
beside what the repository's README says of it (`Tells`).

**Bookmarks** one video: its row, its bookmark cache file and its thumbnail;
handlers of `X_SetBookmark`, each `UpdateObject`, `makeThumbnail` and
`SetBookmarkInfo` a step; Reindex as far as it touches these; events that index
or remove the row; stop, crash and restart, with a write cut in the middle
(`Empty`, `Torn`) because `os.WriteFile` and `os.Create` truncate first. `Prompt`
says that a request is done before the ten second gap of an Index event that came
after it has passed; ffmpeg takes less.

**HeldDeletions** is what the grouping of deletions promises its users, without
map, channels and goroutines: items are held back, and reported or dropped, but as
long as the watcher runs no deletion is dropped that nothing else held covers.

**DelEvents** one goroutine per `add` with its slice of items and its channel.
A select with several cases ready takes any of them, so a goroutine whose channel
was closed may still fire and delete whichever entry its directory has by then.
Under the mapping `held` = items of goroutines that may still report, it implements
HeldDeletions (`HeldSpec`), by TLC and by proof; FsEvents builds on the abstract one.

**MvEvents** one move per cookie, its two halves, the goroutine of the first and
the reader in `addMvTo`. `within` says which ends are in watched directories. The
reset of a second start is left out, since godlna starts its watcher once.

**Inotify** the driver between kernel and index. The tree maps paths to inodes
(named by the path and the operation that made them), `kernel` the watch
descriptors to inodes, `queue` holds the events not yet read. The reader walks
(`lstat` and reading of the names, adding of the watch, Index event are three
steps), looks up, reports. DelEvents and MvEvents appear as what they promise: a
set of held deletions, and the entries of moves with their goroutines. A deletion
that a lost race reports twice is left out here: the second report can only
take rows away. Events that the handler ignores (IN_CREATE of a file,
IN_IGNORED) are not queued, and the queue does not overflow. `calm` remembers
whether everything so far happened one at a time, `moved` whether something was
moved, `disturbed` whether a walk met another tree than it had read of: it was given
up because something had gone, or it went on below a directory that had been
replaced and has no watch yet.

**FsEvents** the driver of macOS. The system numbers events; a rename inside the
watched directories is two of them with successive numbers, one that crosses
their border a single one. The callback takes an event (`Take`), gives up the
remembered half (`Flush`, `Ignore`), pairs (`Pair`), or remembers (`Remember`); the
goroutines of `lastRenameItem` run beside it. The walk of the start is one step, items do not
nest, and the stream drops nothing.

**EventManager** one goroutine per SUBSCRIBE, split at each load, store and
delete of the map and of the counter, the cleaning it may have to do, the copy
that `SendInitialState` keeps, and a clock. `granted` is what the client was
promised.

**Ssdp** the UDP server: `runPeriodic`, `listen`, one counter per message for the
goroutines of `send` that wait and for those that write, and `Stop`. `CloseQuit`
is guarded by the channel `Start` makes; what happens to a `Stop` before that is
in Process.

**Process** extends Ssdp by main, statement by statement, with its critical
errors; the goroutine of the signal; the start and stop of backend, watcher and
HTTP server; and the minissdpd client as the other SSDP server. A close of a nil
channel or a method of a nil server is a panic, which like the return of main
ends everything at once. `preStart` makes its two channels in two steps (`PreStart`,
`MakeStopDone`), and `stop` of the watcher takes four: the compare-and-swap, the close of
`w.done`, the evaluation of `w.stopDoneCh` and the receive. An evaluation that comes too
early finds nil, and the receive never returns (`sig = "stuck"`). What one goroutine
writes another sees at once; nothing in the code orders these writes and reads, and a
processor that delays them widens these windows by moments but adds no outcome.

## Runs

| run | bounds | shows |
|---|---|---|
| `restart` | a root with two videos, one content that can not be probed, 2 writes, 1 event, 2 starts | nothing dirty is forgotten, the info cache never lies, the way up is the way down, the walk is exact, every pass ends, a quiet index settles; deletes and crashes everywhere |
| `faults` | two roots, a folder each with one video name in both, moves, 1 write, 1 event | nothing dirty forgotten, nothing unprobed published, browsing consistent, with every call failing whose failure the code makes good |
| `del` | two levels, 3 deletions, 1 restart of the watcher | no channel closed twice, no deletion lost, each reported, and the refinement of HeldDeletions |
| `mv` | 2 moves, ends inside or outside | the old name leaves the index, the new one enters it, entries end with their goroutine, every first half is dealt with |
| `inotify` | root and outside directory, nested folders, an ignored one, 4 operations | index and watch map exact when things happen one at a time; no ghost row, no deaf watch at full pace unless a walk was `disturbed` |
| `fsevents` | two names (one of them a video or a directory), an ignored one, 2 changes, of which a rename is one | Rename events join what belongs together, the index follows the disk, nothing stays undecided |
| `bookmarks` | 2 handlers, 4 requests, 3 events, 2 rows, 4 positions of every kind | the position reported as stored is kept, its copies agree, the thumbnail tells it; every call failing, crashes everywhere |
| `events` | 1 client, 2 requests at once, timeouts shorter and longer than the delay, cleaning every second visit, counter modulo 4 | no subscription lost or brought back but in known ways, no cleaning missed, what has expired goes |
| `process` | either SSDP server, 1 target, 1 delayed message of a kind, failing starts, read errors, a signal at any moment | once up no panic, goodbye before the exit, watcher over when Stop returns, the signal ends the process, silence after Stop, announcing until then; an early signal too ends the process, but for one stop that is `stuck` |
| `inotify_mkdirp`, `fsevents_pair`, `ssdp_bye` | as above or smaller | violations, below |

Why these bounds are enough. The races are between two or three goroutines over one
flag, entry, channel or file: one event against one pass, two deletions that share a
directory and one above them, one move, two requests for one row, a renewal
against a cleaning and a delayed copy. `Limit = 1` makes each pass of the
reindexer take several batches. Two versions of a file are needed for a
stale cache, two starts for rows left over by a process that was down. In
Inotify one `rmdir` and one `mkdir` of the same name and their order against timer
and walk are two operations; four let them be nested and combined with a move.
Two changes in FsEvents are two renames in a row, with successive numbers; a
third adds states but no new kind of pair. In Bookmarks four requests let two
overlap after one that was cut short, and a fourth put it right.
EventManager has one sid in its run: sids share nothing but the counter, which the two requests
contend for. The theorems hold without these bounds.

Bounds are in the guards and named (`MaxWrites`, `MaxEvents`, `MaxStarts`,
`MaxAdds`, `MaxResets`, `MaxOps`, `MaxRequests`, `MaxRows`, `MaxTime`,
`MaxDelayed`). Deadlock is not checked: every part may come to rest, and with the
bounds used up it does.

Fairness is weak fairness of a goroutine's steps: the Go scheduler runs what can
run, timers fire, calls of database and ffprobe return. `GapElapses`: time
passes. In FsEvents what is owed is reported, which is `DeletesReported` of
DelEvents. In Process main, the reader, the stopping goroutine, the loop and
the senders of either SSDP server run; `SsdpFails` and `MiniSilent` (a connection
that fails) need not happen. `ExpiredGo` assumes in its own words that requests
go on arriving, since nothing else ever cleans, and KeepsAnnouncing that the minissdpd
client can connect but for finitely many times. Nothing is assumed of other programs,
clients, watcher events, searches, or of the signal. Strong fairness is not used.

## Where code and comments part

* `inotify_mkdirp`: `filepath.Walk` reads the names of a directory before it calls
  the function that adds the watch (`driver_inotify.go:196`). What is created in
  between is missed for good, though the comment at `:321` says that
  `mkdir -p 1/2/3` is handled.
* `fsevents_pair`: successive numbers are also those of the second half of one
  rename and the first of the next (`driver_fsevents.go:360`). A video moved in
  and another moved out right after become one Rename.
* `ssdp_bye`: a delayed Alive that has left its select is written after the ByeBye
  (`udp_server.go:213`), which the comment at `:87` excludes.

## What does not hold

Many of the properties above name the cases in which they fail. These cases were
found by writing the property without them first; no line of the repository
promises otherwise, so they are hazards and not disagreements.

* Index table: an Index event renews the ten second gap of a row while its file is
  being probed; the reindexer then publishes the row by id, with what it read
  before (`db_driver_postgres.go:211`). The row is clean from then on although the
  file has changed. `IndexSettles` does not see this; nothing claims the gap is kept.
* Backend: the error of the query after a pass is dropped (`backend.go:431`). With
  `"getOneObject" \in FaultyCalls` DirtyNeverForgotten fails; `ForgivenCalls`
  leaves it out.
* MvEvents (`raced`): the goroutine reports Remove before it deletes its
  entry; a MOVED_TO in between becomes a Rename of a row that is gone.
* Inotify: `Overwrite` (mv onto an existing name leaves the old row, and a replaced
  directory's wd in the map), `UnlinkOpen` (the close of a deleted file indexes it
  again), and what a `disturbed` walk leaves behind. One that is given up takes six
  operations to make a watch deaf. One that goes on below a directory that was
  replaced in the meantime takes nine: `rmdir` and `mkdir` of three nested directories,
  so that the watch of the innermost is not told of the end of the one above it, and
  what it says later unmaps the watch that has its path by then. The bounds of the run
  do not reach that, nor the rows such a watch leaves behind, which is why NoGhost too
  leaves these walks out; the attempt to prove NoDeafWatch without the condition did.
* FsEvents: `missed` (changes between walk and stream), `late` (indexed again while
  the deletion is held back), `crossed` (as above), `overlap` (callback and
  goroutine at once). Settles asks nothing once the watcher is stopped, so it does not
  see a goroutine that evaluated `w.done` before it was made and outlives `stop`.
* Bookmarks: `torn` (a SetBookmark cut short; the television that tries again is
  told success because the row already has the position), `raced` (Reindex makes
  a thumbnail beside a request), `crowd` (two requests at once), a torn thumbnail
  that is never made again, and a duration not above the leeway, whose thumbnail
  is always green. `Prompt = FALSE` lets a request outlast the gap and breaks
  PositionKept.
* EventManager (`overtaken`): a renewal stored under a deletion already decided on,
  or unknown to the copy of the initial state, is lost; one stored after an
  UNSUBSCRIBE brings the client back.
* Process: a signal before everything is started panics, most often by closing a nil
  channel. One whose `stop` closes `w.done` and evaluates `w.stopDoneCh` while `preStart`
  is between `driver_inotify.go:183` and `:184` waits for ever on a nil channel (`stuck`): main goes on to serve, nothing is stopped, the process does not end, and
  later signals are not received. The compare-and-swap does not protect it, since `start`
  sets the state before `preStart` runs. SignalEnds names this as the only other outcome;
  without that disjunct TLC shows it. Further, the ByeBye of the minissdpd client may be followed by its own Alive; when
  the port is taken main returns without a ByeBye.

Smaller things, seen on the way and not modelled: `SystemUpdateID` never changes;
a name with `%` or `_` is a pattern to `LIKE`; page and total of a Browse come
from two queries; an event may be sent to a client that has just left; Alive goes
out before HTTP listens; `rows.Err()` is not looked at; `X_SetBookmark` sends a
second reply after an error.

## Proofs

| theorem | says | argument (the inductive invariant) |
|---|---|---|
| BackendProofs!TypeCorrect | types; a row's type agrees with its path | inductive as it stands; lemmas on each table operator |
| BackendProofs!NothingForgotten | DirtyNeverForgotten, if `getOneObject` and `DeleteOfflineObjects` do not fail (`Dependable`) | FlagInv: DirtyNeverForgotten says nothing of the walk, after which dirty rows suddenly count; a walk always has an item left to visit, or the flag is set or about to be, and a running process that is not stopping has a reindexer |
| BackendProofs!PublicProbed | PublicHasInfo, whatever fails | InfoInv: no file, cache file or result of GetVideoInfo on its way to the table is empty |
| BackendProofs!CacheSound | InfoCacheSound, if every write changes size or mtime and nothing is moved (`FreshDates`) | DateInv: neither a cache file nor the stat the reindexer holds is newer than the clock, so a write leaves both behind |
| BackendProofs!WalkExact | WalkIsExact, if the walk's own calls do not fail (`Rebuilds`) | WalkInv: during a walk the rows online are exactly those of the paths visited, whatever rows a former run left, and neither handler nor reindexer is at work |
| BackendProofs!WayUpIsWayDown | ParentsAgree, whatever fails | TableInv: paths and ids of the rows are unique and below the next id, through each operator of Objects |
| BookmarksProofs!TypeCorrect | types, of every request and at every pace | inductive as it stands |
| BookmarksProofs!PositionStays, CopiesStayAlike, ThumbnailStaysTrue | PositionKept, CopiesAgree and ThumbnailTells, if requests are prompt, the last for videos longer than the leeway | IInv: `Turns` (Reindex works on a row nobody else is at work on, because a request needs a clean row and no row falls due under one) makes the three steps of either side a unit; `Copies`, `Promise` and `Thumb` say which of row, cache file, promise and thumbnail may differ at which step. ThumbnailIsRight is the arithmetic of the progress bar for every duration and position |
| DelEventsProofs!TypeCorrect, ClosesOnce, DeletesKept | types, NoDoubleClose, NoDeleteLost | IInv: an entry of the map is that of a goroutine still waiting, so its items are complete when `add` takes them over; all items of a goroutine lie in its directory, so the Remove of a deleted directory covers the entries dropped below it |
| DelEventsProofs!Implements | DelEvents implements HeldDeletions | the mapping of `held`; every step of a goroutine is a Report, a Drop or a stutter, NoDeleteLost being `Safe` |
| EventManagerProofs!TypeCorrect, LiveStay, GoneStay, NoCleanupMissed | types, LiveKept, GoneStaysGone, CleanupDue | IInv: a sid not handed out occurs nowhere (`Fresh`); what a cleaning has decided to delete has run out unless it was overtaken (`VictimsDue`); a renewal that stores is by a client that has not left unless it was (`StoresWanted`); the counter steps by one and stays put only while somebody is about to reset it |
| FsEventsProofs!RenamesArePairs | RenamesPair | IInv: the halves in the stream, in the callback's hands and remembered, taken together, are numbered below the next number; two with successive numbers belong together or pass each other; the one with the last number came with the latest change. Driver and goroutines only lose halves |
| FsEventsProofs!TypeCorrect | types | counting: each goroutine of `lastRenameItem` was made for an event, and goroutines, event in hand and stream together are no more than the numbers given out (`Bounded`), so that one is always free to make |
| FsEventsProofs!IndexIsTree | IndexFollows, for all items that do not nest | FollowInv: whatever is under way about a name is in an order (in the hands of a goroutine that has fired, remembered, in the callback's hands, in the stream), and the last of it tells what there is (`Follows`); a name whose deletion is held back and not owed is not in the index (`HeldBack`), or the next report would take away too much; a goroutine that waits or has fired is that of what is remembered (`Live`) |
| MvEventsProofs!TypeCorrect, OldNameLeaves, NewNameKept, EntriesOwned | types, OldNameGone, NewNameIndexed, NoStaleEntry | IInv: an entry is in the map exactly while its goroutine runs; a goroutine told to stand back leaves the old name to a Rename that is about to be reported, and that finds the new name free |
| InotifyProofs!NoWatchIsDeaf | NoDeafWatch, at any pace, for all trees of directories and files | DeafInv: for a choice P of the directory each descriptor was made for, the map never says other than P (`Map`), watches reach up to a root (`Watches`), and the queue is in order: before an event of a watched directory is read the map knows it, or an event or the walk still to come makes it known (`Known1`), even if an earlier directory of its name is yet to be forgotten (`Known2`, `Again`), and the last event of a dead watch is followed by the deletion of its directory (`Gone`) |
| InotifyProofs!IndexStaysExact, WatchesStayExact | IndexExact and WatchesExact, if no file is deleted while it is written (`~UnlinkOpen`) and no move replaces what has the new name (`~Overwrite`) | CalmInv: while things happen one at a time at most one change is under way, at one of eleven stages from the first walk to the report (`AtRest`, `Walking`, `New`, `Sending`, `Deleting`, `Holding`, `Moving`, `Halfway`, `Renaming`, `Leaves`, `Left`). Each says what index (`Rows`) and watch map (`Maps`) still lack or have too much, relative to the tree, or to the tree before the move (`Former`). Lemmas on `Relocate` say that a move keeps what is above what |
| InotifyProofs!NoRowIsGhost | NoGhost, at any pace, if `~UnlinkOpen` and `~Overwrite` | DeafInv and what covers each row: the thing itself is there in a watched directory (`Kept`), or its deletion or that of something above it is in the queue (`Doomed`) or held back. A deletion that is skipped has a later one above it in the queue (`CoveredShifts`, from `Gone` and `Known1`), one that is dropped is covered by the one that drops it; what a walk or an Index event is about to add is kept or doomed when the reader takes it up (`WalkCovered`, `CallCovered`, `WritesCovered`). For moves one at a time it follows from CalmInv |
| ProcessProofs!TypeCorrect, SilenceKept | types of the UDP server, silence after Stop | ClosedAtEnd: the connection is closed once Stop has returned |
| ProcessProofs!ProcessTyped, StopIsSafe, Goodbye, WatcherEnds, SilenceInProcess | types, NoPanicOnceUp, ByeBeforeExit, WatcherStops, SilentOnceStopped | ProcInv: what main has made by which statement, what the stopping goroutine has closed by which, and that everything is made before `up` can be |

They hold for all values of the constants that satisfy the modules' assumptions.
`Dependable`, `Rebuilds`, `FreshDates`, `Prompt` and `Duration > CompleteLeeway` are
hypotheses of the theorems, not assumptions of the modules, and so are `~UnlinkOpen`
and `~Overwrite`; each is needed, as TLC shows when it is dropped.

Model-checked only: liveness (PassEnds, IndexSettles, DeletesReported,
MoveDealtWith, Settles, ExpiredGo, SignalEnds, KeepsAnnouncing), which these provers
can not do under fairness, and the violations: every invariant a passing run checks
is a theorem. The type invariants of Backend, DelEvents and Process are proved and
not run again.

## Not modelled

* SOAP and XML, device descriptions, DIDL, the delivery of files, images, ffmpeg and
  ffprobe themselves, logging, network detection, command-line tools: formatting or
  external programs, with no state of their own. That ffmpeg and ffprobe fail is modelled.
* NotifyAll and Dump of the event manager, which nothing calls.
* The overflow of the kernel's queue of events (hazard at `driver_inotify.go:303`),
  `mvEvents.reset`. `validatedAddDir` refuses a directory that is, holds or is held by
  one already added, which is why the roots of Backend are assumed not to be nested.
* In FsEvents: nested items (`FsEventsAssumption` rules them out), dropped events, the
  interleaving of the walk, and events of different changes that the system joins into one
  with several flags (only creation and writing of a file are).
* Two videos in Bookmarks: bookmarks of different videos share nothing but the reindexer.

## Planned

1. Inotify over HeldDeletions, as FsEvents is, with double reports.

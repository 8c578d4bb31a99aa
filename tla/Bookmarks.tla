----------------------------- MODULE Bookmarks -----------------------------
(***************************************************************************)
(* The playback position of one video: the bookmark column of its row, the *)
(* cache file SYNOVIDEO_VIDEO_BOOKMARK that outlives the row, and the      *)
(* thumbnail that shows it.  SetBookmark of dlna/backend/backend.go writes *)
(* the three one after the other in the goroutine of a request; Reindex    *)
(* copies the cache file back into the row; the process may stop or die    *)
(* between any two steps, and its next start dirties every row.            *)
(*                                                                         *)
(* The video file stays where it is.  Events of the watcher come at any    *)
(* time (see Backend), and so may requests for the id of a deleted row.    *)
(* Positions are seconds; the milliseconds of the code and of half of the  *)
(* televisions differ from them by the factor of X_SetBookmark only.       *)
(***************************************************************************)
EXTENDS Thumbnails, FiniteSets

CONSTANTS
    Handlers,       \* goroutines that serve X_SetBookmark
    Positions,      \* what televisions send; a negative one is ignored
    Duration,       \* of the video
    FaultyCalls,    \* calls that may return an error
    Prompt,         \* is a request done within the ten second gap of an Index event?
    MaxRequests,    \* bound: requests
    MaxEvents,      \* bound: events of the watcher and starts of the process
    MaxRows         \* bound: rows the video ever has

Calls == {"UpdateObject", "makeThumbnail", "SetBookmarkInfo", "GetVideoInfo", "GetBookmarkInfo"}

ASSUME BookmarksAssumption ==
    /\ Positions \subseteq Int
    /\ Duration \in Nat \ {0}
    /\ FaultyCalls \subseteq Calls
    /\ Prompt \in BOOLEAN
    /\ MaxRequests \in Nat /\ MaxEvents \in Nat /\ MaxRows \in Nat

VARIABLES
    up,         \* the process runs
    row,        \* the row of the video (id 0: none)
    nextId,     \* its BIGSERIAL
    mark,       \* the cache file: a bookmark, NoFile or Empty
    thumb,      \* the thumbnail file: the bookmark it shows, NoFile or Torn
    hpc,        \* where each handler is in SetBookmark
    want,       \* bmi.Bookmark of each handler
    seen,       \* o.ID of each handler
    rpc,        \* where the reindexer is in Reindex
    snap,       \* o, the row as the reindexer scanned it
    read,       \* bmi, what GetBookmarkInfo returned
    requests,   \* requests so far
    events,     \* events and starts so far
    promise,    \* the position last reported as stored (history)
    crowd,      \* two handlers have been at work at once since all were idle (history)
    torn,       \* a SetBookmark ended between its UpdateObject and its cache file, or
                \* beside another one; none has been done alone since (history)
    raced       \* the last thumbnail of a handler was made beside one of Reindex (history)

handlers == <<hpc, want, seen>>
rx       == <<rpc, snap, read>>
bounds   == <<requests, events>>
history  == <<promise, crowd, torn, raced>>
vars     == <<up, row, nextId, mark, thumb, handlers, rx, bounds, history>>

NoRow  == [id |-> 0, status |-> "null", bookmark |-> NoBookmark]
NoFile == -2
Empty  == -3        \* a cache file that was truncated and not written
Torn   == -4        \* a thumbnail that was created and not completed

Bookmark == {NoBookmark} \cup {p \in Positions : p >= 0}

May(call) == call \in FaultyCalls

Idle(h) == hpc[h] = "idle"
Quiet   == \A h \in Handlers : Idle(h)

-----------------------------------------------------------------------------
(* The two files *)

\* Mutant: an empty file is parsed like any other
GetBookmarkInfo_ParsesEmpty(m) == IF m = NoFile THEN NoBookmark ELSE m

\* readCacheFile: a file that is missing or empty is the NULL bookmark
GetBookmarkInfo(m) == IF m \in {NoFile, Empty} THEN NoBookmark ELSE m

\* What a writeCacheFile that fails or is cut short may leave: os.WriteFile
\* truncates the file first
HalfWritten(m) == {m, Empty}

\* Likewise imaging.Save: os.Create, then the encoder
HalfSaved(t) == {t, Torn}

isThumbnailExists(t) == t # NoFile

\* A new installation, or a directory copied with the @eaDir of another server
Init ==
    /\ up = FALSE /\ row = NoRow /\ nextId = 1
    /\ mark \in {NoFile, Empty} \cup {b \in Bookmark : b >= 0}
    /\ thumb \in {NoFile, GetBookmarkInfo(mark)}
    /\ hpc = [h \in Handlers |-> "idle"]
    /\ want = [h \in Handlers |-> NoBookmark] /\ seen = [h \in Handlers |-> 0]
    /\ rpc = "sleep" /\ snap = NoRow /\ read = NoBookmark
    /\ requests = 0 /\ events = 0
    /\ promise = NoBookmark /\ crowd = FALSE /\ torn = FALSE /\ raced = FALSE

-----------------------------------------------------------------------------
(* The row: index_add, index_delete, time, and the process around it *)

\* index_add for a file: the row is dirty for ten seconds; a new row has no
\* bookmark, an old one keeps it
Indexed ==
    IF row.id # 0
    THEN row' = [row EXCEPT !.status = "gap"] /\ UNCHANGED nextId
    ELSE /\ nextId <= MaxRows
         /\ row' = [id |-> nextId, status |-> "gap", bookmark |-> NoBookmark]
         /\ nextId' = nextId + 1

Arrives == events < MaxEvents /\ events' = events + 1

IndexEvent ==
    /\ up /\ Arrives
    /\ Indexed
    /\ UNCHANGED <<up, mark, thumb, handlers, rx, requests, history>>

RemoveEvent ==
    /\ up /\ Arrives
    /\ row.id # 0 /\ row' = NoRow
    /\ UNCHANGED <<up, nextId, mark, thumb, handlers, rx, requests, history>>

\* Ten seconds after an Index event.  If Prompt, the requests that had read
\* the row before that event are done by now.
GapElapses ==
    /\ row.status = "gap"
    /\ Prompt => Quiet
    /\ row' = [row EXCEPT !.status = "due"]
    /\ UNCHANGED <<up, nextId, mark, thumb, handlers, rx, bounds, history>>

\* The walk of a start finds the file; rows survive in the database
Start ==
    /\ ~up /\ Arrives /\ up' = TRUE
    /\ Indexed
    /\ UNCHANGED <<mark, thumb, handlers, rx, requests, history>>

\* The process is killed, or main returns while requests are being served.
\* What was being written is lost: os.WriteFile and os.Create have truncated
\* it already.
Exit ==
    /\ up /\ up' = FALSE
    /\ mark'  \in IF \E h \in Handlers : hpc[h] = "mark" THEN HalfWritten(mark) ELSE {mark}
    /\ thumb' \in IF rpc = "thumb" \/ \E h \in Handlers : hpc[h] = "thumb"
                  THEN HalfSaved(thumb) ELSE {thumb}
    /\ torn' = (torn \/ \E h \in Handlers : hpc[h] \in {"thumb", "mark"})
    /\ hpc' = [h \in Handlers |-> "idle"]
    /\ want' = [h \in Handlers |-> NoBookmark] /\ seen' = [h \in Handlers |-> 0]
    /\ rpc' = "sleep" /\ snap' = NoRow /\ read' = NoBookmark
    /\ promise' = IF Quiet THEN promise ELSE NoBookmark
    /\ crowd' = FALSE
    /\ UNCHANGED <<row, nextId, bounds, raced>>

-----------------------------------------------------------------------------
(* X_SetBookmark: Backend.SetBookmark in the goroutine of a request *)

\* The handler h is done with position p; ok says which reply it sends first.
\* A reply of success is a promise unless other requests were around.
Reply(h, p, ok) ==
    /\ hpc' = [hpc EXCEPT ![h] = "idle"]
    /\ want' = [want EXCEPT ![h] = NoBookmark] /\ seen' = [seen EXCEPT ![h] = 0]
    /\ promise' = IF ok /\ ~crowd /\ \A g \in Handlers \ {h} : Idle(g) THEN p ELSE NoBookmark
    /\ crowd' = (crowd /\ \E g \in Handlers \ {h} : ~Idle(g))

\* A request up to UpdateObject.  A dirty row is not found (StatusPublic), a
\* negative position is ignored and one equal to the row's changes nothing;
\* the last two answer success.
Request(h, p) ==
    /\ up /\ Idle(h)
    /\ requests < MaxRequests /\ requests' = requests + 1
    /\ \/ /\ p < 0 \/ row.id = 0 \/ row.status # "null"
          /\ UNCHANGED <<handlers, promise, crowd>>
       \/ /\ p >= 0 /\ row.id # 0 /\ row.status = "null"
          /\ row.bookmark = p
          /\ promise' = IF Quiet THEN p ELSE NoBookmark
          /\ UNCHANGED <<handlers, crowd>>
       \/ /\ p >= 0 /\ row.id # 0 /\ row.status = "null"
          /\ row.bookmark # p
          /\ hpc' = [hpc EXCEPT ![h] = "update"]
          /\ want' = [want EXCEPT ![h] = p] /\ seen' = [seen EXCEPT ![h] = row.id]
          /\ crowd' = (crowd \/ ~Quiet)
          /\ promise' = NoBookmark
    /\ UNCHANGED <<up, row, nextId, mark, thumb, rx, events, torn, raced>>

\* UPDATE objects SET bookmark WHERE id: no error if the row is gone
Update(h) ==
    /\ hpc[h] = "update"
    /\ \/ /\ row' = IF row.id = seen[h] THEN [row EXCEPT !.bookmark = want[h]] ELSE row
          /\ hpc' = [hpc EXCEPT ![h] = "thumb"]
          /\ UNCHANGED <<want, seen, promise, crowd>>
       \/ /\ May("UpdateObject")
          /\ Reply(h, want[h], FALSE)
          /\ UNCHANGED row
    /\ UNCHANGED <<up, nextId, mark, thumb, rx, bounds, torn, raced>>

\* makeThumbnail: ffmpeg may fail, or the new file may not be completed; the
\* cache file is not written then
MakeThumb(h) ==
    /\ hpc[h] = "thumb"
    /\ \/ /\ thumb' = want[h] /\ raced' = (rpc = "thumb")
          /\ hpc' = [hpc EXCEPT ![h] = "mark"]
          /\ UNCHANGED <<want, seen, promise, torn, crowd>>
       \/ /\ May("makeThumbnail")
          /\ thumb' \in HalfSaved(thumb)
          /\ torn' = TRUE
          /\ Reply(h, want[h], FALSE)
          /\ UNCHANGED raced
    /\ UNCHANGED <<up, row, nextId, mark, rx, bounds>>

\* Mutant: the cache file is not written
WriteMark_Skipped(h) ==
    /\ hpc[h] = "mark"
    /\ torn' = crowd
    /\ Reply(h, want[h], TRUE)
    /\ UNCHANGED <<mark, up, row, nextId, thumb, rx, bounds, raced>>

\* SetBookmarkInfo
WriteMark(h) ==
    /\ hpc[h] = "mark"
    /\ \/ /\ mark' = want[h]
          /\ torn' = crowd
          /\ Reply(h, want[h], TRUE)
       \/ /\ May("SetBookmarkInfo")
          /\ mark' \in HalfWritten(mark)
          /\ torn' = TRUE
          /\ Reply(h, want[h], FALSE)
    /\ UNCHANGED <<up, row, nextId, thumb, rx, bounds, raced>>

SetBookmark == \E h \in Handlers : \/ \E p \in Positions : Request(h, p)
                                   \/ Update(h) \/ MakeThumb(h) \/ WriteMark(h)

-----------------------------------------------------------------------------
(* Reindex, for the row of this video *)

\* GetObjects returned the row, then GetVideoInfo: an error ends Reindex
RxScan ==
    /\ up /\ rpc = "sleep"
    /\ row.id # 0 /\ row.status = "due"
    /\ rpc' = "mark" /\ snap' = row
    /\ UNCHANGED <<up, row, nextId, mark, thumb, handlers, read, bounds, history>>

RxDone == rpc' = "sleep" /\ snap' = NoRow /\ read' = NoBookmark

\* GetVideoInfo, then GetBookmarkInfo; no file is no error
RxRead ==
    /\ rpc = "mark"
    /\ \/ rpc' = "update" /\ read' = GetBookmarkInfo(mark) /\ UNCHANGED snap
       \/ (May("GetVideoInfo") \/ May("GetBookmarkInfo")) /\ RxDone
    /\ UNCHANGED <<up, row, nextId, mark, thumb, handlers, bounds, history>>

\* Mutant: the bookmark of the row is left alone
RxUpdate_KeepsBookmark ==
    /\ rpc = "update"
    /\ row' = IF row.id = snap.id THEN [row EXCEPT !.status = "null"] ELSE row
    /\ IF isThumbnailExists(thumb) THEN RxDone ELSE rpc' = "thumb" /\ UNCHANGED <<snap, read>>
    /\ UNCHANGED <<up, nextId, mark, thumb, handlers, bounds, history>>

\* UpdateObject writes the bookmark only if it differs from the row as it was
\* scanned; isThumbnailExists asks for a file, whatever is in it
RxUpdate ==
    /\ rpc = "update"
    /\ \/ /\ row' = IF row.id # snap.id THEN row
                    ELSE [row EXCEPT !.status   = "null",
                                     !.bookmark = IF read = snap.bookmark THEN @ ELSE read]
          /\ IF isThumbnailExists(thumb) THEN RxDone ELSE rpc' = "thumb" /\ UNCHANGED <<snap, read>>
       \/ May("UpdateObject") /\ RxDone /\ UNCHANGED row
    /\ UNCHANGED <<up, nextId, mark, thumb, handlers, bounds, history>>

\* makeThumbnail of Reindex; its error is logged and nobody tries again
RxThumb ==
    /\ rpc = "thumb"
    /\ \/ thumb' = read
       \/ May("makeThumbnail") /\ thumb' \in HalfSaved(thumb)
    /\ RxDone
    /\ UNCHANGED <<up, row, nextId, mark, handlers, bounds, history>>

Reindexer == RxScan \/ RxRead \/ RxUpdate \/ RxThumb

Next == \/ IndexEvent \/ RemoveEvent \/ GapElapses \/ Start \/ Exit
        \/ SetBookmark \/ Reindexer

Spec == Init /\ [][Next]_vars

-----------------------------------------------------------------------------
(* Properties *)

\* The values of the variables.
TypeOK ==
    /\ up \in BOOLEAN
    /\ row \in [id : Nat, status : {"null", "gap", "due"}, bookmark : Bookmark]
    /\ nextId \in Nat \ {0}
    /\ mark \in Bookmark \cup {NoFile, Empty}
    /\ thumb \in Bookmark \cup {NoFile, Torn}
    /\ hpc \in [Handlers -> {"idle", "update", "thumb", "mark"}]
    /\ want \in [Handlers -> Bookmark]
    /\ seen \in [Handlers -> Nat]
    /\ rpc \in {"sleep", "mark", "update", "thumb"}
    /\ snap \in [id : Nat, status : {"null", "gap", "due"}, bookmark : Bookmark]
    /\ read \in Bookmark
    /\ requests \in Nat /\ events \in Nat
    /\ promise \in Bookmark
    /\ crowd \in BOOLEAN /\ torn \in BOOLEAN /\ raced \in BOOLEAN

\* A row clients can see, and nobody at work on its bookmark
Settled == row.id # 0 /\ row.status = "null" /\ Quiet

\* The position a television was told is stored is the one it will be offered.
PromiseKept == (Settled /\ promise # NoBookmark) => row.bookmark = promise

\* No event, deletion of the row, Reindex, stop, crash or restart takes back a
\* position that was reported as stored (SetBookmark, Reindex), provided that
\* the request had the row to itself and that none before it was cut short.
PositionKept == ~torn => PromiseKept

\* Row and cache file, written by different steps of two goroutines, agree
\* whenever clients can see the row (SetBookmark, Reindex, UpdateObject).
CopiesAgree == (Settled /\ ~torn) => row.bookmark = GetBookmarkInfo(mark)

\* A complete thumbnail shows how far the video has been watched according to
\* the row, in the words of the README (makeThumbnail, isThumbnailExists), once
\* Reindex is not about to make one and has not made one beside a request.
ThumbnailTells ==
    (Settled /\ ~torn /\ ~raced /\ rpc # "thumb" /\ thumb \notin {NoFile, Torn})
        => Tells(Thumbnail(Duration, thumb), Duration, row.bookmark)

=============================================================================

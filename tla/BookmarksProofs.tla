--------------------------- MODULE BookmarksProofs ---------------------------
(* Theorems about Bookmarks: for any number of handlers, positions, events and *)
(* rows, any duration, and whatever calls fail, a position that was reported  *)
(* as stored is kept, its copies agree, and the thumbnail tells it.           *)
EXTENDS Bookmarks, TLAPS

-----------------------------------------------------------------------------
(* Type correctness *)

LEMMA TypeInit == Init => TypeOK
<1> SUFFICES ASSUME Init PROVE TypeOK
  OBVIOUS
<1>1. mark \in Bookmark \cup {NoFile, Empty}
  BY DEF Init, Bookmark
<1>2. thumb \in Bookmark \cup {NoFile, Torn}
  BY <1>1 DEF Init, GetBookmarkInfo, Bookmark, NoBookmark, NoFile, Empty
<1>3. /\ row = NoRow /\ snap = NoRow /\ read = NoBookmark /\ promise = NoBookmark
      /\ want = [h \in Handlers |-> NoBookmark] /\ seen = [h \in Handlers |-> 0]
      /\ hpc = [h \in Handlers |-> "idle"]
  BY DEF Init
<1>4. nextId \in Nat \ {0} /\ requests \in Nat /\ events \in Nat /\ rpc = "sleep"
  BY DEF Init
<1>5. up \in BOOLEAN /\ crowd \in BOOLEAN /\ torn \in BOOLEAN /\ raced \in BOOLEAN
  BY DEF Init
<1>6. NoBookmark \in Bookmark
  BY DEF Bookmark
<1>7. /\ row \in [id : Nat, status : {"null", "gap", "due"}, bookmark : Bookmark]
      /\ snap \in [id : Nat, status : {"null", "gap", "due"}, bookmark : Bookmark]
      /\ read \in Bookmark /\ promise \in Bookmark
  BY <1>3, <1>6 DEF NoRow
<1>8. /\ want \in [Handlers -> Bookmark] /\ seen \in [Handlers -> Nat]
      /\ hpc \in [Handlers -> {"idle", "update", "thumb", "mark"}]
  BY <1>3, <1>6
<1> QED
  BY <1>1, <1>2, <1>4, <1>5, <1>7, <1>8 DEF TypeOK

LEMMA TypeStep == TypeOK /\ [Next]_vars => TypeOK'
<1> SUFFICES ASSUME TypeOK, [Next]_vars PROVE TypeOK'
  OBVIOUS
<1>1. CASE IndexEvent
  BY <1>1 DEF IndexEvent, TypeOK, Bookmark, Arrives, Indexed, handlers, rx, bounds, history
<1>2. CASE RemoveEvent
  BY <1>2 DEF RemoveEvent, TypeOK, Bookmark, NoRow, Arrives, handlers, rx, bounds, history
<1>3. CASE GapElapses
  BY <1>3 DEF GapElapses, TypeOK, handlers, rx, bounds, history
<1>4. CASE Start
  BY <1>4 DEF Start, TypeOK, Bookmark, Arrives, Indexed, handlers, rx, bounds, history
<1>5. CASE Exit
  BY <1>5 DEF Exit, TypeOK, Bookmark, NoRow, HalfWritten, HalfSaved, handlers, rx, bounds, history
<1>6. ASSUME NEW h \in Handlers, Update(h) PROVE TypeOK'
  <2>1. /\ row' \in [id : Nat, status : {"null", "gap", "due"}, bookmark : Bookmark]
        /\ mark' \in Bookmark \cup {NoFile, Empty} /\ thumb' \in Bookmark \cup {NoFile, Torn}
    BY <1>6 DEF Update, TypeOK, Bookmark, Reply, rx, bounds
  <2>2. /\ hpc' \in [Handlers -> {"idle", "update", "thumb", "mark"}]
        /\ want' \in [Handlers -> Bookmark] /\ seen' \in [Handlers -> Nat]
    BY <1>6 DEF Update, TypeOK, Bookmark, Reply, rx, bounds
  <2>3. promise' \in Bookmark
    BY <1>6 DEF Update, TypeOK, Bookmark, Reply, rx, bounds
  <2>4. up' \in BOOLEAN /\ crowd' \in BOOLEAN /\ torn' \in BOOLEAN /\ raced' \in BOOLEAN
    BY <1>6 DEF Update, TypeOK, Bookmark, Reply, rx, bounds
  <2>5. UNCHANGED <<nextId, rx, bounds>>
    BY <1>6 DEF Update, TypeOK, Bookmark, Reply, rx, bounds
  <2> QED
    BY <2>1, <2>2, <2>3, <2>4, <2>5 DEF TypeOK, rx, bounds
<1>7. ASSUME NEW h \in Handlers, MakeThumb(h) PROVE TypeOK'
  <2>1. /\ row' \in [id : Nat, status : {"null", "gap", "due"}, bookmark : Bookmark]
        /\ mark' \in Bookmark \cup {NoFile, Empty} /\ thumb' \in Bookmark \cup {NoFile, Torn}
    BY <1>7 DEF MakeThumb, TypeOK, Bookmark, Reply, HalfSaved, rx, bounds
  <2>2. /\ hpc' \in [Handlers -> {"idle", "update", "thumb", "mark"}]
        /\ want' \in [Handlers -> Bookmark] /\ seen' \in [Handlers -> Nat]
    BY <1>7 DEF MakeThumb, TypeOK, Bookmark, Reply, HalfSaved, rx, bounds
  <2>3. promise' \in Bookmark
    BY <1>7 DEF MakeThumb, TypeOK, Bookmark, Reply, HalfSaved, rx, bounds
  <2>4. up' \in BOOLEAN /\ crowd' \in BOOLEAN /\ torn' \in BOOLEAN /\ raced' \in BOOLEAN
    BY <1>7 DEF MakeThumb, TypeOK, Bookmark, Reply, HalfSaved, rx, bounds
  <2>5. UNCHANGED <<nextId, rx, bounds>>
    BY <1>7 DEF MakeThumb, TypeOK, Bookmark, Reply, HalfSaved, rx, bounds
  <2> QED
    BY <2>1, <2>2, <2>3, <2>4, <2>5 DEF TypeOK, rx, bounds
<1>8. ASSUME NEW h \in Handlers, WriteMark(h) PROVE TypeOK'
  <2>1. /\ row' \in [id : Nat, status : {"null", "gap", "due"}, bookmark : Bookmark]
        /\ mark' \in Bookmark \cup {NoFile, Empty} /\ thumb' \in Bookmark \cup {NoFile, Torn}
    BY <1>8 DEF WriteMark, TypeOK, Bookmark, Reply, HalfWritten, rx, bounds
  <2>2. /\ hpc' \in [Handlers -> {"idle", "update", "thumb", "mark"}]
        /\ want' \in [Handlers -> Bookmark] /\ seen' \in [Handlers -> Nat]
    BY <1>8 DEF WriteMark, TypeOK, Bookmark, Reply, HalfWritten, rx, bounds
  <2>3. promise' \in Bookmark
    BY <1>8 DEF WriteMark, TypeOK, Bookmark, Reply, HalfWritten, rx, bounds
  <2>4. up' \in BOOLEAN /\ crowd' \in BOOLEAN /\ torn' \in BOOLEAN /\ raced' \in BOOLEAN
    BY <1>8 DEF WriteMark, TypeOK, Bookmark, Reply, HalfWritten, rx, bounds
  <2>5. UNCHANGED <<nextId, rx, bounds>>
    BY <1>8 DEF WriteMark, TypeOK, Bookmark, Reply, HalfWritten, rx, bounds
  <2> QED
    BY <2>1, <2>2, <2>3, <2>4, <2>5 DEF TypeOK, rx, bounds
<1>9. CASE RxScan
  BY <1>9 DEF RxScan, TypeOK, handlers, rx, bounds, history
<1>10. CASE RxRead
  BY <1>10 DEF RxRead, TypeOK, Bookmark, NoBookmark, NoFile, Empty, NoRow,
     GetBookmarkInfo, RxDone, handlers, bounds, history
<1>11. CASE RxUpdate
  <2>1. row' \in [id : Nat, status : {"null", "gap", "due"}, bookmark : Bookmark]
    BY <1>11 DEF RxUpdate, TypeOK
  <2>2. rpc' \in {"sleep", "thumb"}
    BY <1>11 DEF RxUpdate, RxDone
  <2>3. /\ snap' \in [id : Nat, status : {"null", "gap", "due"}, bookmark : Bookmark]
        /\ read' \in Bookmark
    BY <1>11 DEF RxUpdate, RxDone, TypeOK, NoRow, Bookmark
  <2>4. UNCHANGED <<up, nextId, mark, thumb, handlers, bounds, history>>
    BY <1>11 DEF RxUpdate
  <2> QED
    BY <2>1, <2>2, <2>3, <2>4 DEF TypeOK, handlers, bounds, history
<1>12. CASE RxThumb
  BY <1>12 DEF RxThumb, TypeOK, Bookmark, NoRow, RxDone, HalfSaved, handlers, rx, bounds, history
<1>13. ASSUME NEW h \in Handlers, NEW p \in Positions, Request(h, p) PROVE TypeOK'
  <2>1. /\ promise' \in Bookmark /\ requests' \in Nat /\ crowd' \in BOOLEAN
        /\ UNCHANGED <<up, row, nextId, mark, thumb, rx, events, torn, raced>>
    <3>1. promise' \in {promise, p, NoBookmark} /\ (promise' = p => p >= 0 \/ promise' = NoBookmark \/ promise' = promise)
      BY <1>13 DEF Request
    <3>2. promise' \in Bookmark
      BY <3>1, <1>13 DEF TypeOK, Bookmark
    <3>3. requests' \in Nat
      BY <1>13 DEF Request, TypeOK
    <3>4. crowd' = crowd \/ crowd' = (crowd \/ ~Quiet)
      BY <1>13 DEF Request
    <3>5. crowd' \in BOOLEAN
      BY <3>4 DEF TypeOK
    <3> QED
      BY <1>13, <3>2, <3>3, <3>5 DEF Request
  <2>2. CASE UNCHANGED handlers
    BY <1>13, <2>1, <2>2 DEF Request, TypeOK, handlers, rx
  <2>3. CASE p \in Bookmark /\ hpc' = [hpc EXCEPT ![h] = "update"]
             /\ want' = [want EXCEPT ![h] = p] /\ seen' = [seen EXCEPT ![h] = row.id]
    BY <1>13, <2>1, <2>3 DEF Request, TypeOK, rx
  <2> QED
    BY <1>13, <2>2, <2>3, BookmarksAssumption DEF Request, Bookmark, handlers
<1>14. CASE UNCHANGED vars
  BY <1>14 DEF TypeOK, vars, handlers, rx, bounds, history
<1> QED
  BY <1>1, <1>2, <1>3, <1>4, <1>5, <1>6, <1>7, <1>8, <1>9, <1>10, <1>11, <1>12,
     <1>13, <1>14 DEF Next, SetBookmark, Reindexer

\* Whatever fails, and with requests at any pace, every reachable state is well
\* typed: what Reindex reads is a position or none, though the cache file may have
\* been cut short.
THEOREM TypeCorrect == Spec => []TypeOK
  BY TypeInit, TypeStep, PTL DEF Spec

-----------------------------------------------------------------------------
(* Who is at work, and what may differ meanwhile *)

Visible == row.id # 0 /\ row.status = "null"
Saved == \A h \in Handlers : hpc[h] # "mark"
Whole == \A h \in Handlers : hpc[h] \notin {"thumb", "mark"}

\* Who may be at work beside whom, as long as requests are prompt: no request
\* starts on a row that is dirty, and no row falls due before requests are done
Turns ==
    /\ row.status = "due" => Quiet
    /\ rpc \in {"mark", "update"} => Quiet /\ (row.id = 0 \/ row.status # "null")
    /\ \A h \in Handlers : ~Idle(h) => /\ want[h] \in Nat
                                       /\ Visible => row.id = seen[h]
    /\ ~crowd => \A g, h \in Handlers : ~Idle(g) /\ ~Idle(h) => g = h
    /\ row.id < nextId
    /\ rpc # "sleep" => snap.id \in 1 .. nextId - 1

\* Row and cache file differ between the two writes of a request only
Copies ==
    /\ (~torn /\ Visible /\ Whole) => row.bookmark = GetBookmarkInfo(mark)
    /\ \A h \in Handlers : (~crowd /\ Visible /\ hpc[h] \in {"thumb", "mark"}) => row.bookmark = want[h]
    /\ (rpc \in {"update", "thumb"} /\ ~raced) => read = GetBookmarkInfo(mark)
    /\ rpc = "update" => read = GetBookmarkInfo(mark)
    /\ (rpc \in {"mark", "update"} /\ row.id = snap.id) => row.bookmark = snap.bookmark

\* A promise stands while nobody is at work, and the cache file knows it
Promise == (~torn /\ promise # NoBookmark) => Quiet /\ GetBookmarkInfo(mark) = promise

\* Thumbnail and cache file
Missing == thumb \in {NoFile, Torn}
Thumb ==
    /\ (~torn /\ ~raced /\ rpc # "thumb" /\ Saved /\ ~Missing) => thumb = GetBookmarkInfo(mark)
    /\ \A h \in Handlers : (~crowd /\ ~raced /\ hpc[h] = "mark") => thumb = want[h]
    /\ (rpc = "thumb" /\ ~raced) => Missing /\ Saved

IInv == TypeOK /\ Turns /\ Copies /\ Promise /\ Thumb

LEMMA InitOK == Init => IInv
<1> SUFFICES ASSUME Init PROVE IInv
  OBVIOUS
<1>1. TypeOK
  BY TypeInit
<1>2. Turns
  BY DEF Init, Turns, Quiet, Idle, Visible, NoRow
<1>3. Copies
  BY DEF Init, Copies, Visible, NoRow
<1>4. Promise
  BY DEF Init, Promise
<1>5. Thumb
  BY DEF Init, Thumb, Missing
<1> QED
  BY <1>1, <1>2, <1>3, <1>4, <1>5 DEF IInv

-----------------------------------------------------------------------------
(* The row *)

LEMMA IndexOK ==
  ASSUME IInv, TypeOK', IndexEvent
  PROVE  IInv'
<1>1. Turns'
  BY DEF IndexEvent, IInv, Turns, TypeOK, Quiet, Idle, Visible, Arrives, Indexed, handlers, rx,
     bounds, history
<1>2. Copies'
  BY DEF IndexEvent, IInv, Copies, TypeOK, Turns, Visible, Whole, Arrives, Indexed, handlers, rx,
     bounds, history
<1>3. Promise'
  BY DEF IndexEvent, IInv, Promise, Quiet, Idle, Arrives, Indexed, handlers, rx, bounds, history
<1>4. Thumb'
  BY DEF IndexEvent, IInv, Thumb, Saved, Missing, Arrives, Indexed, handlers, rx, bounds, history
<1> QED
  BY <1>1, <1>2, <1>3, <1>4 DEF IInv

LEMMA RemoveOK ==
  ASSUME IInv, TypeOK', RemoveEvent
  PROVE  IInv'
<1>1. Turns'
  BY DEF RemoveEvent, IInv, Turns, TypeOK, Quiet, Idle, Visible, NoRow, Arrives, handlers, rx,
     bounds, history
<1>2. Copies'
  BY DEF RemoveEvent, IInv, Copies, TypeOK, Turns, Thumb, Visible, Whole, Saved, Quiet, Idle,
     NoRow, Arrives, handlers, rx, bounds, history
<1>3. Promise'
  BY DEF RemoveEvent, IInv, Promise, Quiet, Idle, Arrives, handlers, rx, bounds, history
<1>4. Thumb'
  BY DEF RemoveEvent, IInv, Thumb, Saved, Missing, Arrives, handlers, rx, bounds, history
<1> QED
  BY <1>1, <1>2, <1>3, <1>4 DEF IInv

LEMMA GapOK ==
  ASSUME IInv, TypeOK', GapElapses, Prompt
  PROVE  IInv'
<1>1. Turns'
  BY DEF GapElapses, IInv, Turns, Quiet, Idle, Visible, handlers, rx, bounds, history
<1>2. Copies'
  BY DEF GapElapses, IInv, Copies, Visible, Whole, handlers, rx, bounds, history
<1>3. Promise'
  BY DEF GapElapses, IInv, Promise, Quiet, Idle, handlers, rx, bounds, history
<1>4. Thumb'
  BY DEF GapElapses, IInv, Thumb, Saved, Missing, handlers, rx, bounds, history
<1> QED
  BY <1>1, <1>2, <1>3, <1>4 DEF IInv

LEMMA StartOK ==
  ASSUME IInv, TypeOK', Start
  PROVE  IInv'
<1>1. Turns'
  BY DEF Start, IInv, Turns, TypeOK, Quiet, Idle, Visible, Arrives, Indexed, handlers, rx, bounds,
     history
<1>2. Copies'
  BY DEF Start, IInv, Copies, TypeOK, Turns, Visible, Whole, Arrives, Indexed, handlers, rx,
     bounds, history
<1>3. Promise'
  BY DEF Start, IInv, Promise, Quiet, Idle, Arrives, Indexed, handlers, rx, bounds, history
<1>4. Thumb'
  BY DEF Start, IInv, Thumb, Saved, Missing, Arrives, Indexed, handlers, rx, bounds, history
<1> QED
  BY <1>1, <1>2, <1>3, <1>4 DEF IInv

LEMMA ExitOK ==
  ASSUME IInv, TypeOK', Exit
  PROVE  IInv'
<1>1. Turns'
  BY DEF Exit, IInv, Turns, Quiet, Idle, Visible, HalfWritten, HalfSaved, handlers
<1>2. Copies'
  BY DEF Exit, IInv, Copies, Visible, Whole, HalfWritten, HalfSaved, handlers
<1>3. Promise'
  BY DEF Exit, IInv, Promise, Quiet, Idle, HalfWritten, HalfSaved, handlers
<1>4. Thumb'
  BY DEF Exit, IInv, Thumb, Saved, Missing, HalfWritten, HalfSaved, handlers
<1> QED
  BY <1>1, <1>2, <1>3, <1>4 DEF IInv

-----------------------------------------------------------------------------
(* SetBookmark *)

LEMMA RequestOK ==
  ASSUME IInv, TypeOK', NEW h \in Handlers, NEW p \in Positions, Request(h, p)
  PROVE  IInv'
<1>1. CASE UNCHANGED <<handlers, crowd>>
  <2>1. CASE promise' \in {promise, NoBookmark}
    BY <1>1, <2>1 DEF Request, IInv, TypeOK, Turns, Copies, Promise, Thumb, Visible, Saved, Whole, Missing,
       Quiet, Idle, Bookmark, handlers, rx
  <2>2. CASE promise' = p /\ row.bookmark = p /\ Visible /\ Quiet
    BY <1>1, <2>2 DEF Request, IInv, TypeOK, Turns, Copies, Promise, Thumb, Visible, Saved, Whole, Missing,
       Quiet, Idle, Bookmark, handlers, rx
  <2> QED
    BY <1>1, <2>1, <2>2 DEF Request, handlers, Visible
<1>2. CASE ~UNCHANGED <<handlers, crowd>>
  <2> USE DEF Request, IInv, rx
  <2>0. p \in Nat /\ p \in Bookmark /\ Visible /\ hpc[h] = "idle"
    BY <1>2, BookmarksAssumption DEF Bookmark, Visible, handlers, Idle
  <2>1. /\ hpc' = [hpc EXCEPT ![h] = "update"]
        /\ want' = [want EXCEPT ![h] = p] /\ seen' = [seen EXCEPT ![h] = row.id]
        /\ crowd' = (crowd \/ ~Quiet)
        /\ promise' = NoBookmark
    BY <1>2
  <2>2. Turns'
    BY <2>0, <2>1, ZenonT(40) DEF Turns, TypeOK, Quiet, Idle, Visible
  <2>3. Copies'
    BY <2>0, <2>1 DEF Copies, TypeOK, Visible, Whole
  <2>4. Promise'
    BY <2>1 DEF Promise
  <2>5. Thumb'
    <3>1. thumb' = thumb /\ mark' = mark /\ torn' = torn /\ raced' = raced /\ rpc' = rpc /\ read' = read
      OBVIOUS
    <3>2. \A g \in Handlers : hpc'[g] = "mark" => hpc[g] = "mark" /\ want'[g] = want[g]
      BY <2>1 DEF TypeOK
    <3>3. Saved' => Saved
      BY <2>0, <2>1 DEF TypeOK, Saved
    <3>4. ~crowd' => ~crowd
      BY <2>1
    <3>5. GetBookmarkInfo(mark)' = GetBookmarkInfo(mark) /\ Missing' = Missing
      BY <3>1 DEF Missing, GetBookmarkInfo
    <3> QED
      BY <3>1, <3>2, <3>3, <3>4, <3>5 DEF Thumb, Saved
  <2> QED
    BY <2>2, <2>3, <2>4, <2>5
<1> QED
  BY <1>1, <1>2

LEMMA UpdateOK ==
  ASSUME IInv, TypeOK', NEW h \in Handlers, Update(h)
  PROVE  IInv'
<1>1. Turns'
  BY DEF Update, IInv, Turns, TypeOK, Quiet, Idle, Visible, Reply, handlers, rx, bounds, history
<1>2. Copies'
  BY DEF Update, IInv, Copies, TypeOK, Turns, Visible, Whole, Saved, Quiet, Idle, Reply, handlers,
     rx, bounds, history
<1>3. Promise'
  BY DEF Update, IInv, Promise, Quiet, Idle, Reply, handlers
<1>4. Thumb'
  BY DEF Update, IInv, Thumb, TypeOK, Turns, Quiet, Idle, Saved, Missing, Reply, handlers, rx,
     bounds, history
<1> QED
  BY <1>1, <1>2, <1>3, <1>4 DEF IInv

LEMMA MakeThumbShows ==
  ASSUME IInv, NEW h \in Handlers, MakeThumb(h)
  PROVE  Thumb'
<1>1. TypeOK
  BY DEF IInv
<1>2. CASE hpc' = [hpc EXCEPT ![h] = "mark"]
  <2>1. /\ thumb' = want[h] /\ raced' = (rpc = "thumb")
        /\ UNCHANGED <<want, torn, crowd, rx, mark>>
    BY <1>1, <1>2 DEF MakeThumb, Reply, TypeOK
  <2>2. ~crowd => \A g \in Handlers : g # h => hpc[g] = "idle"
    BY DEF IInv, Turns, Idle, MakeThumb
  <2>3. ~Saved'
    BY <1>1, <1>2 DEF Saved, TypeOK
  <2>4. (~crowd' /\ ~raced') => \A g \in Handlers : hpc'[g] = "mark" => thumb' = want'[g]
    BY <1>1, <1>2, <2>1, <2>2 DEF TypeOK
  <2>5. rpc' = "thumb" => raced'
    BY <2>1 DEF rx
  <2> QED
    BY <2>3, <2>4, <2>5 DEF Thumb
<1>3. CASE hpc' # [hpc EXCEPT ![h] = "mark"]
  <2>1. /\ thumb' \in {thumb, Torn} /\ torn' = TRUE /\ raced' = raced
        /\ hpc' = [hpc EXCEPT ![h] = "idle"] /\ want' = [want EXCEPT ![h] = NoBookmark]
        /\ UNCHANGED <<rx, mark>>
    BY <1>3 DEF MakeThumb, Reply, HalfSaved
  <2>2. ~crowd' => \A g \in Handlers : g # h => hpc[g] = "idle"
    BY <1>3 DEF IInv, Turns, Idle, MakeThumb, Reply
  <2>3. ~crowd' => \A g \in Handlers : hpc'[g] # "mark"
    BY <1>1, <2>1, <2>2 DEF TypeOK
  <2>4. Saved => Saved'
    BY <1>1, <2>1 DEF Saved, TypeOK
  <2>5. (rpc' = "thumb" /\ ~raced') => Missing' /\ Saved'
    BY <2>1, <2>4 DEF IInv, Thumb, Missing, rx
  <2> QED
    BY <2>1, <2>3, <2>5 DEF Thumb
<1> QED
  BY <1>2, <1>3

LEMMA MakeThumbOK ==
  ASSUME IInv, TypeOK', NEW h \in Handlers, MakeThumb(h)
  PROVE  IInv'
<1>1. Turns'
  BY DEF MakeThumb, IInv, Turns, TypeOK, Quiet, Idle, Visible, Reply, HalfSaved, handlers, rx,
     bounds, history
<1>2. Copies'
  BY DEF MakeThumb, IInv, Copies, TypeOK, Turns, Visible, Whole, Saved, Quiet, Idle, Reply,
     HalfSaved, handlers, rx, bounds, history
<1>3. Promise'
  BY DEF MakeThumb, IInv, Promise, Quiet, Idle, Reply, HalfSaved, handlers
<1>4. Thumb'
  BY MakeThumbShows
<1> QED
  BY <1>1, <1>2, <1>3, <1>4 DEF IInv

LEMMA WriteMarkOK ==
  ASSUME IInv, TypeOK', NEW h \in Handlers, WriteMark(h)
  PROVE  IInv'
<1>1. Turns'
  BY DEF WriteMark, IInv, Turns, TypeOK, Quiet, Idle, Visible, Reply, HalfWritten, handlers, rx,
     bounds, history
<1>2. Copies'
  BY DEF WriteMark, IInv, Copies, TypeOK, Turns, Thumb, Visible, Whole, Saved, Quiet, Idle,
     Bookmark, NoBookmark, NoFile, Empty, GetBookmarkInfo, Reply, HalfWritten, handlers, rx,
     bounds, history
<1>3. Promise'
  BY DEF WriteMark, IInv, Promise, TypeOK, Turns, Quiet, Idle, GetBookmarkInfo, NoFile, Empty,
     NoBookmark, Bookmark, Reply, HalfWritten, handlers
<1>4. Thumb'
  BY DEF WriteMark, IInv, Thumb, TypeOK, Turns, Copies, Quiet, Idle, Saved, Missing, NoFile, Empty,
     Bookmark, NoBookmark, Torn, GetBookmarkInfo, Reply, HalfWritten, handlers, rx, bounds, history
<1> QED
  BY <1>1, <1>2, <1>3, <1>4 DEF IInv

-----------------------------------------------------------------------------
(* Reindex *)

LEMMA RxScanOK ==
  ASSUME IInv, TypeOK', RxScan
  PROVE  IInv'
<1>1. Turns'
  BY DEF RxScan, IInv, Turns, TypeOK, Quiet, Idle, Visible, handlers
<1>2. Copies'
  BY DEF RxScan, IInv, Copies, Visible, Whole, handlers
<1>3. Promise'
  BY DEF RxScan, IInv, Promise, Quiet, Idle, handlers, rx, bounds, history
<1>4. Thumb'
  BY DEF RxScan, IInv, Thumb, Saved, Missing, handlers, rx, bounds, history
<1> QED
  BY <1>1, <1>2, <1>3, <1>4 DEF IInv

LEMMA RxReadOK ==
  ASSUME IInv, TypeOK', RxRead
  PROVE  IInv'
<1>1. Turns'
  BY DEF RxRead, IInv, Turns, TypeOK, Quiet, Idle, Visible, RxDone, handlers
<1>2. Copies'
  BY DEF RxRead, IInv, Copies, Turns, Visible, Whole, RxDone, GetBookmarkInfo, handlers, history
<1>3. Promise'
  BY DEF RxRead, IInv, Promise, Quiet, Idle, RxDone, handlers, bounds, history
<1>4. Thumb'
  BY DEF RxRead, IInv, Thumb, Saved, Missing, RxDone, GetBookmarkInfo, handlers, history
<1> QED
  BY <1>1, <1>2, <1>3, <1>4 DEF IInv

LEMMA RxUpdateOK ==
  ASSUME IInv, TypeOK', RxUpdate
  PROVE  IInv'
<1>1. Turns'
  <2>1. row'.id = row.id /\ (row'.status = "null" \/ row' = row)
    <3>1. row \in [id : Nat, status : {"null", "gap", "due"}, bookmark : Bookmark]
      BY DEF IInv, TypeOK
    <3>2. \/ row' = row
          \/ \E b : row' = [row EXCEPT !.status = "null", !.bookmark = b]
      BY DEF RxUpdate
    <3> QED
      BY <3>1, <3>2
  <2>2. /\ rpc = "update" /\ rpc' \in {"sleep", "thumb"}
        /\ rpc' = "thumb" => snap' = snap
    BY DEF RxUpdate, RxDone
  <2>3. UNCHANGED <<hpc, want, seen, crowd, nextId>>
    BY DEF RxUpdate, handlers, history
  <2>4. Quiet'
    BY <2>2, <2>3 DEF IInv, Turns, Quiet, Idle
  <2> QED
    BY <2>1, <2>2, <2>3, <2>4 DEF IInv, Turns, TypeOK, Quiet, Idle, Visible
<1>2. Copies'
  BY ZenonT(40) DEF RxUpdate, IInv, Copies, TypeOK, Turns, Visible, Whole, Saved, Quiet, Idle, RxDone,
     isThumbnailExists, handlers
<1>3. Promise'
  BY DEF RxUpdate, IInv, Promise, Quiet, Idle, RxDone, isThumbnailExists, handlers, rx, bounds,
     history
<1>4. Thumb'
  BY DEF RxUpdate, IInv, Thumb, TypeOK, Turns, Quiet, Idle, Saved, Missing, RxDone,
     isThumbnailExists, handlers, rx, bounds, history
<1> QED
  BY <1>1, <1>2, <1>3, <1>4 DEF IInv

LEMMA RxThumbOK ==
  ASSUME IInv, TypeOK', RxThumb
  PROVE  IInv'
<1>1. Turns'
  BY DEF RxThumb, IInv, Turns, Quiet, Idle, Visible, RxDone, HalfSaved, handlers, rx, bounds,
     history
<1>2. Copies'
  BY DEF RxThumb, IInv, Copies, Visible, Whole, RxDone, HalfSaved, handlers, rx, bounds, history
<1>3. Promise'
  BY DEF RxThumb, IInv, Promise, Quiet, Idle, RxDone, HalfSaved, handlers, rx, bounds, history
<1>4. Thumb'
  BY DEF RxThumb, IInv, Thumb, TypeOK, Turns, Copies, Quiet, Idle, Saved, Missing, RxDone,
     HalfSaved, handlers, rx, bounds, history
<1> QED
  BY <1>1, <1>2, <1>3, <1>4 DEF IInv

-----------------------------------------------------------------------------
(* The theorems *)

LEMMA StepOK ==
  ASSUME IInv, [Next]_vars, Prompt
  PROVE  IInv'
<1>0. TypeOK'
  BY TypeStep DEF IInv
<1>1. CASE UNCHANGED vars
  BY <1>1 DEF vars, handlers, rx, bounds, history, IInv, TypeOK, Turns, Copies, Promise, Thumb, Visible,
     Saved, Whole, Missing, Quiet, Idle, GetBookmarkInfo
<1>2. CASE SetBookmark
  BY <1>0, <1>2, RequestOK, UpdateOK, MakeThumbOK, WriteMarkOK DEF SetBookmark
<1>3. CASE Reindexer
  BY <1>0, <1>3, RxScanOK, RxReadOK, RxUpdateOK, RxThumbOK DEF Reindexer
<1> QED
  BY <1>0, <1>1, <1>2, <1>3, IndexOK, RemoveOK, GapOK, StartOK, ExitOK DEF Next

\* Requests being prompt, the promises,
\* copies and thumbnail of the video are as IInv says.
THEOREM Invariant ==
    ASSUME Prompt
    PROVE  Spec => []IInv
<1>1. IInv /\ [Next]_vars => IInv'
  BY StepOK
<1> QED
  BY InitOK, <1>1, PTL DEF Spec

\* Whatever fails, and whenever the process stops or dies, a position that was
\* reported as stored is the one that is offered, unless a SetBookmark has been
\* cut short since.
THEOREM PositionStays ==
    ASSUME Prompt
    PROVE  Spec => []PositionKept
<1>1. IInv => PositionKept
  BY DEF IInv, Copies, Promise, PositionKept, PromiseKept, Settled, Visible, Whole, Quiet, Idle
<1> QED
  BY Invariant, <1>1, PTL

\* Nor do row and cache file ever differ when clients can see the row.
THEOREM CopiesStayAlike ==
    ASSUME Prompt
    PROVE  Spec => []CopiesAgree
<1>1. IInv => CopiesAgree
  BY DEF IInv, Copies, CopiesAgree, Settled, Visible, Whole, Quiet, Idle
<1> QED
  BY Invariant, <1>1, PTL

-----------------------------------------------------------------------------
(* The thumbnail *)

\* What is known of \div
LEMMA Division ==
  ASSUME NEW a \in Nat, NEW d \in Nat \ {0}
  PROVE  /\ a \div d \in Nat
         /\ (a \div d) * d <= a
         /\ a < (a \div d + 1) * d
  OBVIOUS

\* A bar that is neither empty nor full
LEMMA Percentage ==
  ASSUME NEW a \in Nat, NEW d \in Nat \ {0}, d <= a, a < 100 * d
  PROVE  a \div d \in 1 .. 99
<1> DEFINE q == a \div d
<1>1. q \in Nat /\ q * d <= a /\ a < (q + 1) * d
  BY Division
<1> HIDE DEF q
<1>2. q # 0
  BY <1>1
<1>3. q < 100
  <2> SUFFICES ASSUME q >= 100 PROVE FALSE
    BY <1>1
  <2>1. q * d = 100 * d + (q - 100) * d
    BY <1>1
  <2>2. (q - 100) * d >= 0
    BY <1>1
  <2> QED
    BY <1>1, <2>1, <2>2
<1> QED
  BY <1>1, <1>2, <1>3 DEF q

\* The progress bar is what the README says, for every video longer than the leeway
LEMMA ThumbnailIsRight ==
  ASSUME NEW duration \in Nat, duration > CompleteLeeway, NEW bookmark \in Nat \cup {NoBookmark}
  PROVE  Tells(Thumbnail(duration, bookmark), duration, bookmark)
<1> DEFINE th == Thumbnail(duration, bookmark)
<1>1. CASE bookmark = NoBookmark
  BY <1>1, LeewayAssumption
  DEF Tells, Thumbnail, BookmarkShown, ProgressAndTimeToSeek, NoBookmark
<1>2. CASE bookmark # NoBookmark /\ Watched(duration, bookmark)
  BY <1>2, LeewayAssumption
  DEF Tells, Thumbnail, BookmarkShown, ProgressAndTimeToSeek, NoBookmark, Watched
<1>3. CASE bookmark # NoBookmark /\ ~Watched(duration, bookmark)
  <2>1. bookmark \in Nat \ {0} /\ bookmark < duration - CompleteLeeway /\ duration \in Nat \ {0} /\ bookmark < duration
    BY <1>3, LeewayAssumption DEF Watched, NoBookmark
  <2>2. th = [progress |-> IF 100 * bookmark < duration THEN 1 ELSE (100 * bookmark) \div duration,
              seek |-> bookmark]
    BY <2>1, LeewayAssumption DEF Thumbnail, BookmarkShown, ProgressAndTimeToSeek, NoBookmark
  <2>3. CASE 100 * bookmark < duration
    BY <2>2, <2>3, <1>3 DEF Tells
  <2>4. CASE 100 * bookmark >= duration
    <3>1. th = [progress |-> (100 * bookmark) \div duration, seek |-> bookmark]
      BY <2>1, <2>2, <2>4
    <3>2. (100 * bookmark) \div duration \in 1 .. 99
      BY <2>1, <2>4, Percentage
    <3>3. /\ ((100 * bookmark) \div duration) * duration <= 100 * bookmark
          /\ 100 * bookmark < ((100 * bookmark) \div duration + 1) * duration
      BY <2>1, Division
    <3> QED
      BY <3>1, <3>2, <3>3, <1>3 DEF Tells
  <2> QED
    BY <2>1, <2>3, <2>4
<1> QED
  BY <1>1, <1>2, <1>3

\* The thumbnail of a video that is longer than the leeway tells how far it has
\* been watched, whoever made it last.
THEOREM ThumbnailStaysTrue ==
    ASSUME Prompt, Duration > CompleteLeeway
    PROVE  Spec => []ThumbnailTells
<1>1. IInv => ThumbnailTells
  <2> SUFFICES ASSUME IInv, Settled, ~torn, ~raced, rpc # "thumb", thumb \notin {NoFile, Torn}
               PROVE  Tells(Thumbnail(Duration, thumb), Duration, row.bookmark)
    BY DEF ThumbnailTells
  <2>1. Saved /\ Whole /\ Visible
    BY DEF Settled, Quiet, Idle, Saved, Whole, Visible
  <2>2. thumb = GetBookmarkInfo(mark) /\ row.bookmark = GetBookmarkInfo(mark)
    BY <2>1 DEF IInv, Copies, Thumb, Missing
  <2>3. thumb \in Nat \cup {NoBookmark}
    <3>1. thumb \in Bookmark \cup {NoFile, Torn}
      BY DEF IInv, TypeOK
    <3>2. thumb \in Bookmark
      BY <3>1
    <3>3. \A p \in Positions : p >= 0 => p \in Nat
      BY BookmarksAssumption
    <3> QED
      BY <3>2, <3>3 DEF Bookmark
  <2> QED
    BY <2>2, <2>3, ThumbnailIsRight, BookmarksAssumption
<1> QED
  BY Invariant, <1>1, PTL

=============================================================================

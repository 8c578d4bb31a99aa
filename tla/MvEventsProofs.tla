--------------------------- MODULE MvEventsProofs ---------------------------
(* Theorems about MvEvents, for every set of moves. *)
EXTENDS MvEvents, TLAPS

LEMMA TypeInit == Init => TypeOK
<1> SUFFICES ASSUME Init PROVE TypeOK
  OBVIOUS
<1>1. sent \in [Cookies -> SUBSET Ends]
  BY DEF Init
<1>2. within \in [Cookies -> SUBSET Ends]
  BY DEF Init
<1>3. pc \in [Cookies -> {"unborn", "wait", "remove", "delete", "end"}]
  BY DEF Init
<1>4. rows \in [Cookies -> SUBSET {"old", "new"}]
  BY DEF Init
<1>5. stopped \in BOOLEAN
  BY DEF Init
<1>6. mvFrom \subseteq Cookies /\ closed \subseteq Cookies /\ reader = NoCall /\ raced \subseteq Cookies
  BY DEF Init
<1> QED
  BY <1>1, <1>2, <1>3, <1>4, <1>5, <1>6 DEF TypeOK

LEMMA TypeStep == TypeOK /\ [Next]_vars => TypeOK'
<1> SUFFICES ASSUME TypeOK, [Next]_vars PROVE TypeOK'
  OBVIOUS
<1> USE DEF TypeOK, Ends
<1>1. ASSUME NEW c \in Cookies, addMvFrom(c) PROVE TypeOK'
  BY <1>1 DEF addMvFrom
<1>2. ASSUME NEW c \in Cookies, addMvTo(c) PROVE TypeOK'
  BY <1>2 DEF addMvTo, NoCall
<1>3. ASSUME NEW c \in Cookies, Goroutine(c) PROVE TypeOK'
  BY <1>3 DEF Goroutine, Told, TimedOut, HandleRemove, DeleteEntry, Reported
<1>4. CASE HandleTo
  BY <1>4 DEF HandleTo, Reported, Renamed, NoCall
<1>5. CASE stop
  <2>1. stopped' \in BOOLEAN /\ UNCHANGED <<sent, within, mvFrom, closed, pc, reader, rows, raced>>
    BY <1>5 DEF stop
  <2> QED
    BY <2>1
<1>6. CASE UNCHANGED vars
  BY <1>6 DEF vars
<1> QED
  BY <1>1, <1>2, <1>3, <1>4, <1>5, <1>6 DEF Next

\* Every reachable state is well typed.
THEOREM TypeCorrect == Spec => []TypeOK
  BY TypeInit, TypeStep, PTL DEF Spec

-----------------------------------------------------------------------------
(* The entry of a move is in the map exactly while its goroutine runs; the   *)
(* goroutine that is told to stand back leaves the old name to the Rename    *)
(* the reader is about to report; and that Rename finds the new name free.   *)

RenamePending(c) == reader = [op |-> "Rename", cookie |-> c]

\* The entry and its goroutine
Entry(c) ==
    /\ c \in mvFrom <=> pc[c] \in {"wait", "remove", "delete"}
    /\ pc[c] = "unborn" <=> "from" \notin sent[c]
    /\ sent[c] \subseteq within[c]
    /\ "from" \notin within[c] => "old" \notin rows[c]
    /\ "new" \in rows[c] => "to" \in sent[c]

\* The new name is free for the call under way
NewFree(c) ==
    (reader # NoCall /\ reader.cookie = c) => "new" \notin rows[c] /\ "to" \in sent[c]

\* Who leaves the old name, leaves it to a Rename
Handed(c) ==
    /\ (c \in closed /\ "old" \in rows[c]) => RenamePending(c)
    /\ (pc[c] \in {"delete", "end"} /\ ~stopped /\ "old" \in rows[c]) => RenamePending(c)

IInv == \A c \in Cookies : Entry(c) /\ NewFree(c) /\ Handed(c)

LEMMA IInvInit == Init => IInv
<1> SUFFICES ASSUME Init, NEW c \in Cookies
             PROVE  Entry(c) /\ NewFree(c) /\ Handed(c)
  BY DEF IInv
<1>1. sent[c] = {} /\ pc[c] = "unborn" /\ mvFrom = {} /\ closed = {} /\ reader = NoCall
  BY DEF Init
<1>2. rows[c] = IF "from" \in within[c] THEN {"old"} ELSE {}
  BY DEF Init
<1> QED
  BY <1>1, <1>2 DEF Entry, NewFree, Handed

LEMMA IInvStep == TypeOK /\ IInv /\ [Next]_vars => IInv'
<1> SUFFICES ASSUME TypeOK, IInv, [Next]_vars PROVE IInv'
  OBVIOUS
<1> USE DEF TypeOK, Ends, IInv, Entry, NewFree, Handed, RenamePending, NoCall
<1>1. ASSUME NEW c \in Cookies, addMvFrom(c) PROVE IInv'
  <2>1. /\ ~stopped /\ reader = NoCall /\ "from" \in within[c] /\ "from" \notin sent[c]
        /\ UNCHANGED <<within, closed, reader, stopped, rows>>
    BY <1>1 DEF addMvFrom
  <2>2. /\ sent' = [sent EXCEPT ![c] = sent[c] \cup {"from"}]
        /\ mvFrom' = mvFrom \cup {c}
        /\ pc' = [pc EXCEPT ![c] = "wait"]
    BY <1>1 DEF addMvFrom
  <2>3. "old" \in rows[c] => c \notin closed
    BY <2>1
  <2>4. ASSUME NEW d \in Cookies, d # c
        PROVE  sent'[d] = sent[d] /\ pc'[d] = pc[d] /\ (d \in mvFrom' <=> d \in mvFrom)
    BY <2>2, <2>4
  <2>5. sent'[c] = sent[c] \cup {"from"} /\ pc'[c] = "wait" /\ c \in mvFrom'
    BY <2>2
  <2> QED
    BY <2>1, <2>3, <2>4, <2>5
<1>2. ASSUME NEW c \in Cookies, addMvTo(c) PROVE IInv'
  <2>1. /\ ~stopped /\ reader = NoCall /\ "to" \in within[c]
        /\ UNCHANGED <<within, mvFrom, pc, stopped, rows>>
    BY <1>2 DEF addMvTo
  <2>2. sent' = [sent EXCEPT ![c] = sent[c] \cup {"to"}]
    BY <1>2 DEF addMvTo
  <2>3. ASSUME NEW d \in Cookies
        PROVE  sent'[d] = IF d = c THEN sent[c] \cup {"to"} ELSE sent[d]
    BY <2>2, <2>3
  <2>4. \A d \in Cookies : d \in closed => "old" \notin rows[d]
    BY <2>1
  <2>5. \A d \in Cookies : pc[d] \in {"delete", "end"} => "old" \notin rows[d]
    BY <2>1
  <2>6. "to" \notin sent[c] /\ "new" \notin rows[c]
    BY <1>2 DEF addMvTo
  <2>7. \A d \in Cookies : pc'[d] = pc[d] /\ rows'[d] = rows[d] /\ within'[d] = within[d]
    BY <2>1
  <2>8. ASSUME NEW d \in Cookies PROVE Entry(d)'
    <3>1. Entry(d)
      OBVIOUS
    <3>2. d \in mvFrom' <=> pc'[d] \in {"wait", "remove", "delete"}
      BY <2>1, <2>7, <3>1
    <3>3. pc'[d] = "unborn" <=> "from" \notin sent'[d]
      BY <2>3, <2>7, <3>1
    <3>4. sent'[d] \subseteq within'[d]
      BY <2>1, <2>3, <2>7, <3>1
    <3>5. "from" \notin within'[d] => "old" \notin rows'[d]
      BY <2>7, <3>1
    <3>6. "new" \in rows'[d] => "to" \in sent'[d]
      BY <2>3, <2>7, <3>1
    <3> QED
      BY <3>2, <3>3, <3>4, <3>5, <3>6
  <2>9. CASE c \in mvFrom
    <3>1. closed' = closed \cup {c} /\ reader' = [op |-> "Rename", cookie |-> c]
      BY <1>2, <2>9 DEF addMvTo
    <3>2. ASSUME NEW d \in Cookies PROVE NewFree(d)'
      BY <2>3, <2>6, <2>7, <3>1
    <3>3. ASSUME NEW d \in Cookies PROVE Handed(d)'
      BY <2>4, <2>5, <2>7, <3>1
    <3> HIDE DEF TypeOK, Ends, Entry, NewFree, Handed, RenamePending, NoCall
    <3> QED
      BY <2>8, <3>2, <3>3
  <2>10. CASE c \notin mvFrom
    <3>1. closed' = closed /\ reader' = [op |-> "Index", cookie |-> c]
      BY <1>2, <2>10 DEF addMvTo
    <3>2. ASSUME NEW d \in Cookies PROVE NewFree(d)'
      BY <2>3, <2>6, <2>7, <3>1
    <3>3. ASSUME NEW d \in Cookies PROVE Handed(d)'
      BY <2>4, <2>5, <2>7, <3>1
    <3> HIDE DEF TypeOK, Ends, Entry, NewFree, Handed, RenamePending, NoCall
    <3> QED
      BY <2>8, <3>2, <3>3
  <2> QED
    BY <2>9, <2>10
<1>3. ASSUME NEW c \in Cookies, Told(c) \/ TimedOut(c) PROVE IInv'
  BY <1>3 DEF Told, TimedOut
<1>4. ASSUME NEW c \in Cookies, HandleRemove(c) PROVE IInv'
  BY <1>4 DEF HandleRemove, Reported
<1>5. ASSUME NEW c \in Cookies, DeleteEntry(c) PROVE IInv'
  BY <1>5 DEF DeleteEntry
<1>6. CASE HandleTo
  BY <1>6 DEF HandleTo, Reported, Renamed
<1>7. CASE stop
  BY <1>7 DEF stop
<1>8. CASE UNCHANGED vars
  BY <1>8 DEF vars
<1> QED
  BY <1>1, <1>2, <1>3, <1>4, <1>5, <1>6, <1>7, <1>8 DEF Next, Goroutine

LEMMA IInvInvariant == Spec => []IInv
  BY IInvInit, IInvStep, TypeCorrect, PTL DEF Spec

\* No race between the timer and the second half of a move leaves the old name
\* in the index.
THEOREM OldNameLeaves == Spec => []OldNameGone
<1>1. TypeOK /\ IInv => OldNameGone
  BY DEF TypeOK, IInv, Entry, NewFree, Handed, OldNameGone, Settled, RenamePending, NoCall, Ends
<1> QED
  BY <1>1, IInvInvariant, TypeCorrect, PTL

\* Every entry of the map still has its goroutine, which will delete it.
THEOREM EntriesOwned == Spec => []NoStaleEntry
<1>1. TypeOK /\ IInv => NoStaleEntry
  BY DEF TypeOK, IInv, Entry, NoStaleEntry
<1> QED
  BY <1>1, IInvInvariant, TypeCorrect, PTL

-----------------------------------------------------------------------------
(* The new name.  Until its MOVED_TO comes a move that has not been given up *)
(* has its old row, which the Rename takes over; unless the timer fired in   *)
(* between, nobody takes it away before the Rename is reported.              *)

\* closed channels belong to moves whose MOVED_TO came; a timer fires on one
\* only in a race
Partnered(c) ==
    /\ c \in closed => "to" \in sent[c]
    /\ RenamePending(c) => c \in closed
    /\ (c \in closed /\ c \notin raced) => pc[c] # "remove"

\* The old row is there for the Rename
RowKept(c) ==
    /\ ("from" \in within[c] /\ pc[c] \in {"unborn", "wait"} /\ c \notin closed) => "old" \in rows[c]
    /\ (RenamePending(c) /\ c \notin raced) => "old" \in rows[c]

\* What the MOVED_TO asked for has been done
NewDone(c) ==
    ("to" \in sent[c] /\ c \notin raced /\ (reader = NoCall \/ reader.cookie # c)) => "new" \in rows[c]

NInv == \A c \in Cookies : Partnered(c) /\ RowKept(c) /\ NewDone(c)

LEMMA NInvInit == Init => NInv
<1> SUFFICES ASSUME Init, NEW c \in Cookies
             PROVE  Partnered(c) /\ RowKept(c) /\ NewDone(c)
  BY DEF NInv
<1>1. sent[c] = {} /\ pc[c] = "unborn" /\ closed = {} /\ reader = NoCall
  BY DEF Init
<1>2. rows[c] = IF "from" \in within[c] THEN {"old"} ELSE {}
  BY DEF Init
<1> QED
  BY <1>1, <1>2 DEF Partnered, RowKept, NewDone, RenamePending, NoCall

LEMMA NInvStep == TypeOK /\ IInv /\ NInv /\ [Next]_vars => NInv'
<1> SUFFICES ASSUME TypeOK, IInv, NInv, [Next]_vars PROVE NInv'
  OBVIOUS
<1> USE DEF TypeOK, Ends, NInv, Partnered, RowKept, NewDone, RenamePending, NoCall
<1>1. ASSUME NEW c \in Cookies, addMvFrom(c) PROVE NInv'
  <2>1. /\ reader = NoCall /\ "from" \in within[c]
        /\ UNCHANGED <<within, closed, reader, stopped, rows, raced>>
    BY <1>1 DEF addMvFrom
  <2>2. sent' = [sent EXCEPT ![c] = sent[c] \cup {"from"}] /\ pc' = [pc EXCEPT ![c] = "wait"]
    BY <1>1 DEF addMvFrom
  <2>3. pc[c] = "unborn"
    BY <1>1 DEF addMvFrom, IInv, Entry
  <2>4. ASSUME NEW d \in Cookies, d # c PROVE sent'[d] = sent[d] /\ pc'[d] = pc[d]
    BY <2>2, <2>4
  <2>5. pc'[c] = "wait" /\ ("to" \in sent'[c] <=> "to" \in sent[c])
    BY <2>2
  <2> QED
    BY <2>1, <2>3, <2>4, <2>5
<1>2. ASSUME NEW c \in Cookies, addMvTo(c) PROVE NInv'
  <2>1. /\ reader = NoCall /\ "to" \in within[c] /\ "to" \notin sent[c]
        /\ "from" \in within[c] => "from" \in sent[c]
        /\ UNCHANGED <<within, mvFrom, pc, stopped, rows>>
    BY <1>2 DEF addMvTo
  <2>2. sent' = [sent EXCEPT ![c] = sent[c] \cup {"to"}]
    BY <1>2 DEF addMvTo
  <2>3. \A d \in Cookies : /\ pc'[d] = pc[d] /\ rows'[d] = rows[d] /\ within'[d] = within[d]
                           /\ d # c => sent'[d] = sent[d]
                           /\ "to" \in sent'[c]
    BY <2>1, <2>2
  <2>4. c \notin closed
    BY <2>1
  <2>5. raced' = IF c \in mvFrom /\ pc[c] # "wait" THEN raced \cup {c} ELSE raced
    BY <1>2 DEF addMvTo
  <2>6. CASE c \in mvFrom
    <3>1. closed' = closed \cup {c} /\ reader' = [op |-> "Rename", cookie |-> c]
      BY <1>2, <2>6 DEF addMvTo
    <3>2. pc[c] = "wait" => "from" \in within[c] /\ "old" \in rows[c]
      BY <2>4 DEF IInv, Entry
    <3>3. pc[c] # "wait" => c \in raced'
      BY <2>5, <2>6
    <3>4. \A d \in Cookies : d # c => (d \in raced' <=> d \in raced) /\ (d \in closed' <=> d \in closed)
      BY <2>5, <3>1
    <3>5. reader'.cookie = c /\ reader' # NoCall
      BY <3>1
    <3>6. ASSUME NEW d \in Cookies PROVE Partnered(d)'
      BY <2>3, <3>1, <3>3, <3>4
    <3>7. ASSUME NEW d \in Cookies PROVE RowKept(d)'
      BY <2>3, <3>1, <3>2, <3>3, <3>4
    <3>8. ASSUME NEW d \in Cookies PROVE NewDone(d)'
      BY <2>1, <2>3, <3>1, <3>4, <3>5
    <3> HIDE DEF TypeOK, Ends, Partnered, RowKept, NewDone, RenamePending, NoCall
    <3> QED
      BY <3>6, <3>7, <3>8
  <2>7. CASE c \notin mvFrom
    <3>1. closed' = closed /\ reader' = [op |-> "Index", cookie |-> c] /\ raced' = raced
      BY <1>2, <2>5, <2>7 DEF addMvTo
    <3>2. reader'.cookie = c /\ reader' # NoCall /\ reader'.op # "Rename"
      BY <3>1
    <3>3. ASSUME NEW d \in Cookies PROVE Partnered(d)'
      BY <2>3, <3>1, <3>2
    <3>4. ASSUME NEW d \in Cookies PROVE RowKept(d)'
      BY <2>3, <3>1, <3>2
    <3>5. ASSUME NEW d \in Cookies PROVE NewDone(d)'
      BY <2>1, <2>3, <3>1, <3>2
    <3> HIDE DEF TypeOK, Ends, Partnered, RowKept, NewDone, RenamePending, NoCall
    <3> QED
      BY <3>3, <3>4, <3>5
  <2> QED
    BY <2>6, <2>7
<1>3. ASSUME NEW c \in Cookies, Told(c) PROVE NInv'
  BY <1>3 DEF Told
<1>4. ASSUME NEW c \in Cookies, TimedOut(c) PROVE NInv'
  BY <1>4 DEF TimedOut
<1>5. ASSUME NEW c \in Cookies, HandleRemove(c) PROVE NInv'
  BY <1>5 DEF HandleRemove, Reported
<1>6. ASSUME NEW c \in Cookies, DeleteEntry(c) PROVE NInv'
  BY <1>6 DEF DeleteEntry
<1>7. CASE HandleTo
  BY <1>7 DEF HandleTo, Reported, Renamed, IInv, NewFree
<1>8. CASE stop
  BY <1>8 DEF stop
<1>9. CASE UNCHANGED vars
  BY <1>9 DEF vars
<1> QED
  BY <1>1, <1>2, <1>3, <1>4, <1>5, <1>6, <1>7, <1>8, <1>9 DEF Next, Goroutine

\* A move within the watched directories leads to the new name in the index,
\* unless the timer fires while the reader takes the entry.
THEOREM NewNameKept == Spec => []NewNameIndexed
<1>1. TypeOK /\ NInv => NewNameIndexed
  BY DEF TypeOK, NInv, NewDone, NewNameIndexed, Settled, Ends
<1> QED
  BY <1>1, NInvInit, NInvStep, IInvInvariant, TypeCorrect, PTL DEF Spec

=============================================================================

--------------------------- MODULE FsEventsProofs ---------------------------
(* Theorems about FsEvents, for all items, ignored names and numbers of        *)
(* changes.                                                                    *)
EXTENDS FsEvents, FiniteSetTheorems, SequenceTheorems, TLAPS

-----------------------------------------------------------------------------
(* Rename events join the halves of one rename, or those of two with         *)
(* successive numbers, and nothing else                                      *)

\* Half of a rename that the driver may still come to pair: it is in the
\* stream, in the hands of the callback, or remembered
Half(id, it) ==
    \/ \E i \in 1 .. Len(queue) : /\ queue[i].id = id /\ queue[i].it = it
                                  /\ "renamed" \in queue[i].flags
    \/ cb # "idle" /\ event.id = id /\ event.it = it /\ "renamed" \in event.flags
    \/ last.id # 0 /\ last.id = id /\ last.it = it

Typed ==
    /\ nextId \in Nat \ {0, 1} /\ nextId % 2 = 0
    /\ queue \in Seq(Event)
    /\ cb # "idle" => event \in Event
    /\ last.id \in Nat /\ (last.id # 0 => last.it \in Items)

\* Halves are numbered below nextId; the one with the last number is of the
\* latest change; those with successive numbers belong together, or pass if the
\* first of them is the second half of its rename
Numbered == \A id \in Nat, it \in Items : Half(id, it) => 1 < id /\ id < nextId
Latest   == \A id \in Nat, it \in Items : (Half(id, it) /\ id + 1 = nextId) => it \in came
Joined   == \A id \in Nat, x, y \in Items :
                (Half(id, x) /\ Half(id + 1, y)) => <<x, y>> \in IF id % 2 = 0 THEN moves ELSE crossed

IInv == Typed /\ Numbered /\ Latest /\ Joined /\ RenamesPair

LEMMA InitOK == Init => IInv
  BY DEF Init, IInv, Typed, Numbered, Latest, Joined, RenamesPair, Half

-----------------------------------------------------------------------------
(* The driver forgets halves and passes them on, but makes none *)

\* What holds of the halves holds of fewer of them
LEMMA Fewer ==
  ASSUME IInv, Typed',
         \A id \in Nat, it \in Items : Half(id, it)' => Half(id, it),
         UNCHANGED <<nextId, came, moves, crossed>>,
         told' \subseteq moves \cup crossed
  PROVE  IInv'
<1>1. Numbered'
  BY DEF IInv, Numbered
<1>2. Latest'
  BY DEF IInv, Latest
<1>3. Joined'
  BY DEF IInv, Joined
<1> QED
  BY <1>1, <1>2, <1>3 DEF IInv, RenamesPair

\* Nor do the steps that leave queue and callback alone and at most clear
\* lastRenameItem
LEMMA Forgotten ==
  ASSUME IInv, UNCHANGED <<nextId, queue, cb, event, passing, told>>,
         last' = last \/ Forget
  PROVE  IInv'
<1>1. Typed'
  BY DEF IInv, Typed, Forget
<1>2. ASSUME NEW id \in Nat, NEW it \in Items, Half(id, it)' PROVE Half(id, it)
  BY <1>2 DEF Half, Forget
<1> QED
  BY <1>1, <1>2, Fewer DEF passing, IInv, RenamesPair

LEMMA TakeOK ==
  ASSUME IInv, Take
  PROVE  IInv'
<1>1. queue \in Seq(Event) /\ queue # << >> /\ queue' = Tail(queue) /\ event' = Head(queue)
  BY DEF IInv, Typed, Take
<1>2. /\ event' = queue[1] /\ event' \in Event
      /\ queue' \in Seq(Event) /\ Len(queue') = Len(queue) - 1
      /\ \A i \in 1 .. Len(queue') : queue'[i] = queue[i + 1]
      /\ Len(queue) \in Nat \ {0}
  BY <1>1
<1>3. Typed'
  BY <1>2 DEF IInv, Typed, Take
<1>4. ASSUME NEW id \in Nat, NEW it \in Items, Half(id, it)' PROVE Half(id, it)
  BY <1>2, <1>4 DEF Half, Take
<1> QED
  BY <1>3, <1>4, Fewer DEF Take, passing, IInv, RenamesPair

\* The one step that sends a Rename
LEMMA PairOK ==
  ASSUME IInv, Pair
  PROVE  IInv'
<1>1. Typed'
  BY DEF IInv, Typed, Pair, Forget, Idle
<1>2. ASSUME NEW id \in Nat, NEW it \in Items, Half(id, it)' PROVE Half(id, it)
  BY <1>2 DEF Half, Pair, Forget, Idle
<1>3. event \in Event /\ Half(event.id, event.it)
  BY DEF IInv, Typed, Pair, Pairs, Has, Half
<1>4. last.id # 0
  BY <1>3 DEF IInv, Typed, Numbered, Pair, Pairs, Event
<1>5. last.it \in Items /\ Half(last.id, last.it) /\ last.id + 1 = event.id
  BY <1>4 DEF IInv, Typed, Pair, Pairs, Half
<1>6. <<last.it, event.it>> \in moves \cup crossed
  BY <1>3, <1>5 DEF IInv, Typed, Joined, Event
<1> QED
  BY <1>1, <1>2, <1>6, Fewer DEF Pair, Renamed, passing, IInv, RenamesPair

LEMMA CallbackOK ==
  ASSUME IInv, handleFsEvent
  PROVE  IInv'
<1>1. CASE Pair
  BY <1>1, PairOK
<1>2. CASE ~Pair
  <2>1. Typed'
    BY <1>2 DEF IInv, Typed, handleFsEvent, Ignore, Flush, Remove, Remember, IndexItem, Forget, Idle, Rest,
       Event, history, driver
  <2>2. ASSUME NEW id \in Nat, NEW it \in Items, Half(id, it)' PROVE Half(id, it)
    BY <1>2, <2>2 DEF Half, handleFsEvent, Ignore, Flush, Remove, Remember, IndexItem, Forget, Idle, Rest, Has
  <2>3. UNCHANGED <<nextId, came, moves, crossed, told>>
    BY <1>2 DEF handleFsEvent, Ignore, Flush, Remove, Remember, IndexItem, Given, Indexed, Removed,
       history, passing
  <2> QED
    BY <2>1, <2>2, <2>3, Fewer DEF IInv, RenamesPair
<1> QED
  BY <1>1, <1>2

-----------------------------------------------------------------------------
(* What others do *)

\* The halves after a change are those of before and those of the change
LEMMA Queued ==
  ASSUME IInv, NEW new, NEW paths, NEW evs \in Seq(Event), Change(new, evs, paths)
  PROVE  /\ Typed' /\ nextId' = nextId + 2 /\ told' = told
         /\ \A id \in Nat, it \in Items :
               Half(id, it)' => \/ Half(id, it)
                                \/ \E i \in 1 .. Len(evs) : /\ evs[i].id = id /\ evs[i].it = it
                                                            /\ "renamed" \in evs[i].flags
<1>1. queue' \in {queue, queue \o evs} /\ queue \in Seq(Event) /\ Len(queue) \in Nat /\ Len(evs) \in Nat
  BY DEF IInv, Typed, Change
<1>2. UNCHANGED <<cb, event, last, told>> /\ nextId' = nextId + 2
  BY DEF Change, driver
<1>3. Typed'
  <2>1. queue' \in Seq(Event)
    BY <1>1, ConcatProperties
  <2> QED
    BY <1>2, <2>1 DEF IInv, Typed
<1>4. ASSUME NEW i \in 1 .. Len(queue')
      PROVE  (\E j \in 1 .. Len(queue) : queue[j] = queue'[i]) \/ (\E j \in 1 .. Len(evs) : evs[j] = queue'[i])
  <2>1. CASE queue' = queue
    BY <2>1
  <2>2. CASE queue' = queue \o evs
    <3>1. CASE i <= Len(queue)
      BY <1>1, <2>2, <3>1
    <3>2. CASE i > Len(queue)
      <4>1. i - Len(queue) \in 1 .. Len(evs) /\ queue'[i] = evs[i - Len(queue)]
        BY <1>1, <2>2, <3>2
      <4> QED
        BY <4>1
    <3> QED
      BY <1>1, <3>1, <3>2
  <2> QED
    BY <1>1, <2>1, <2>2
<1>5. ASSUME NEW id \in Nat, NEW it \in Items, Half(id, it)'
      PROVE  \/ Half(id, it)
             \/ \E i \in 1 .. Len(evs) : evs[i].id = id /\ evs[i].it = it /\ "renamed" \in evs[i].flags
  <2>1. CASE \E i \in 1 .. Len(queue') : /\ queue'[i].id = id /\ queue'[i].it = it
                                         /\ "renamed" \in queue'[i].flags
    <3>1. PICK i \in 1 .. Len(queue') : queue'[i].id = id /\ queue'[i].it = it /\ "renamed" \in queue'[i].flags
      BY <2>1
    <3>2. CASE \E j \in 1 .. Len(queue) : queue[j] = queue'[i]
      BY <3>1, <3>2 DEF Half
    <3>3. CASE \E j \in 1 .. Len(evs) : evs[j] = queue'[i]
      BY <3>1, <3>3
    <3> QED
      BY <1>4, <3>2, <3>3
  <2>2. CASE ~ \E i \in 1 .. Len(queue') : /\ queue'[i].id = id /\ queue'[i].it = it
                                           /\ "renamed" \in queue'[i].flags
    BY <1>2, <1>5, <2>2 DEF Half
  <2> QED
    BY <2>1, <2>2
<1> QED
  BY <1>2, <1>3, <1>5

\* New halves have the two numbers of the change; what came with the change has
\* the second, what was there before may pass to the first
LEMMA Followed ==
  ASSUME IInv, Typed', nextId' = nextId + 2, told' = told,
         moves \subseteq moves', crossed \subseteq crossed',
         NEW froms \in SUBSET Items, NEW tos \in SUBSET Items,
         \A id \in Nat, it \in Items :
            Half(id, it)' => \/ Half(id, it)
                             \/ id = nextId /\ it \in froms
                             \/ id = nextId + 1 /\ it \in tos,
         tos \subseteq came',
         \A x \in came, y \in froms : <<x, y>> \in crossed',
         \A x \in froms, y \in tos : <<x, y>> \in moves'
  PROVE  IInv'
<1> nextId \in Nat \ {0, 1}
  BY DEF IInv, Typed
<1>1. Numbered'
  BY DEF IInv, Numbered
<1>2. Latest'
  BY DEF IInv, Numbered, Latest
<1>3. Joined'
  <2> SUFFICES ASSUME NEW id \in Nat, NEW x \in Items, NEW y \in Items, Half(id, x)', Half(id + 1, y)'
               PROVE  <<x, y>> \in IF id % 2 = 0 THEN moves' ELSE crossed'
    BY DEF Joined
  <2>1. CASE Half(id + 1, y)
    <3>1. id + 1 < nextId
      BY <2>1 DEF IInv, Numbered
    <3>2. Half(id, x)
      BY <3>1
    <3> QED
      BY <2>1, <3>2 DEF IInv, Joined
  <2>2. CASE id + 1 = nextId /\ y \in froms
    <3>1. Half(id, x)
      BY <2>2
    <3>2. id % 2 # 0
      BY <2>2 DEF IInv, Typed
    <3>3. x \in came
      BY <2>2, <3>1 DEF IInv, Latest
    <3> QED
      BY <2>2, <3>2, <3>3
  <2>3. CASE id + 1 = nextId + 1 /\ y \in tos
    <3>1. x \in froms
      BY <2>3 DEF IInv, Numbered
    <3>2. id % 2 = 0
      BY <2>3 DEF IInv, Typed
    <3> QED
      BY <2>3, <3>1, <3>2
  <2> QED
    BY <2>1, <2>2, <2>3
<1> QED
  BY <1>1, <1>2, <1>3 DEF IInv, RenamesPair

LEMMA NewOK ==
  ASSUME IInv, NEW it \in Items, New(it)
  PROVE  IInv'
<1>1. PICK flags \in IF it.isDir THEN {<<{"created"}>>}
                     ELSE {<<{"created", "modified"}>>, <<{"created"}, {"modified"}>>, <<{"cloned"}>>} :
          Change(fs \cup {it}, [k \in 1 .. Len(flags) |-> Seen(k - 1, it, flags[k])], {it.path})
  BY DEF New
<1> DEFINE evs == [k \in 1 .. Len(flags) |-> Seen(k - 1, it, flags[k])]
<1>2. Len(flags) \in {1, 2} /\ \A k \in 1 .. Len(flags) : flags[k] \in SUBSET {"created", "modified", "cloned"}
  BY <1>1
<1>3. ASSUME NEW k \in 1 .. Len(flags) PROVE evs[k] \in Event /\ "renamed" \notin evs[k].flags
  <2>1. evs[k] = [id |-> nextId + (k - 1), it |-> it, flags |-> flags[k]]
    BY DEF Seen
  <2>2. k \in Nat \ {0} /\ nextId + (k - 1) \in Nat
    BY <1>2 DEF IInv, Typed
  <2> QED
    BY <1>2, <2>1, <2>2 DEF Event
<1>4. evs \in Seq(Event) /\ Len(evs) = Len(flags)
  BY <1>2, <1>3
<1>5. /\ Typed' /\ nextId' = nextId + 2 /\ told' = told
      /\ \A id \in Nat, x \in Items : Half(id, x)' => Half(id, x)
  <2> HIDE DEF evs
  <2> QED
    BY <1>1, <1>3, <1>4, Queued DEF evs
<1> QED
  BY <1>5, Followed DEF New

LEMMA DeleteOK ==
  ASSUME IInv, NEW it \in Items, Delete(it)
  PROVE  IInv'
<1> DEFINE evs == <<Seen(0, it, {"removed"})>>
<1>1. evs \in Seq(Event) /\ Len(evs) = 1 /\ evs[1] = Seen(0, it, {"removed"})
  BY DEF IInv, Typed, Seen, Event
<1>2. Change(fs \ {it}, evs, {it.path})
  BY DEF Delete
<1> HIDE DEF evs
<1>3. evs[1].flags = {"removed"}
  BY <1>1 DEF Seen
<1>4. /\ Typed' /\ nextId' = nextId + 2 /\ told' = told
      /\ \A id \in Nat, x \in Items : Half(id, x)' => Half(id, x)
  BY <1>1, <1>2, <1>3, Queued
<1> QED
  BY <1>4, Followed DEF Delete

LEMMA MoveOutOK ==
  ASSUME IInv, NEW it \in Items, MoveOut(it)
  PROVE  IInv'
<1> DEFINE evs == <<Seen(0, it, {"renamed"})>>
<1>1. evs \in Seq(Event) /\ Len(evs) = 1 /\ evs[1] = Seen(0, it, {"renamed"})
  BY DEF IInv, Typed, Seen, Event
<1>2. Change(fs \ {it}, evs, {it.path})
  BY DEF MoveOut
<1> HIDE DEF evs
<1> DEFINE froms == {it}
       tos == {}
<1>3. froms \in SUBSET Items /\ tos \in SUBSET Items
  OBVIOUS
<1>4. /\ moves \subseteq moves' /\ crossed \subseteq crossed' /\ tos \subseteq came'
      /\ \A x \in came, y \in froms : <<x, y>> \in crossed'
      /\ \A x \in froms, y \in tos : <<x, y>> \in moves'
  BY DEF MoveOut
<1>5. /\ Typed' /\ nextId' = nextId + 2 /\ told' = told
      /\ \A id \in Nat, x \in Items :
            Half(id, x)' => \/ Half(id, x)
                            \/ \E i \in 1 .. Len(evs) : /\ evs[i].id = id /\ evs[i].it = x
                                                        /\ "renamed" \in evs[i].flags
  BY <1>1, <1>2, Queued
<1>6. \A i \in 1 .. Len(evs), x \in Items :
         evs[i].it = x => \/ evs[i].id = nextId /\ x \in froms
                          \/ evs[i].id = nextId + 1 /\ x \in tos
  BY <1>1 DEF Seen, IInv, Typed
<1> HIDE DEF froms, tos
<1>7. \A id \in Nat, x \in Items :
         Half(id, x)' => Half(id, x) \/ (id = nextId /\ x \in froms) \/ (id = nextId + 1 /\ x \in tos)
  BY <1>5, <1>6
<1> QED
  BY <1>3, <1>4, <1>5, <1>7, Followed

LEMMA MoveInOK ==
  ASSUME IInv, NEW it \in Items, MoveIn(it)
  PROVE  IInv'
<1> DEFINE evs == <<Seen(1, it, {"renamed"})>>
<1>1. evs \in Seq(Event) /\ Len(evs) = 1 /\ evs[1] = Seen(1, it, {"renamed"})
  BY DEF IInv, Typed, Seen, Event
<1>2. Change(fs \cup {it}, evs, {it.path})
  BY DEF MoveIn
<1> HIDE DEF evs
<1> DEFINE froms == {}
       tos == {it}
<1>3. froms \in SUBSET Items /\ tos \in SUBSET Items
  OBVIOUS
<1>4. /\ moves \subseteq moves' /\ crossed \subseteq crossed' /\ tos \subseteq came'
      /\ \A x \in came, y \in froms : <<x, y>> \in crossed'
      /\ \A x \in froms, y \in tos : <<x, y>> \in moves'
  BY DEF MoveIn
<1>5. /\ Typed' /\ nextId' = nextId + 2 /\ told' = told
      /\ \A id \in Nat, x \in Items :
            Half(id, x)' => \/ Half(id, x)
                            \/ \E i \in 1 .. Len(evs) : /\ evs[i].id = id /\ evs[i].it = x
                                                        /\ "renamed" \in evs[i].flags
  BY <1>1, <1>2, Queued
<1>6. \A i \in 1 .. Len(evs), x \in Items :
         evs[i].it = x => \/ evs[i].id = nextId /\ x \in froms
                          \/ evs[i].id = nextId + 1 /\ x \in tos
  BY <1>1 DEF Seen, IInv, Typed
<1> HIDE DEF froms, tos
<1>7. \A id \in Nat, x \in Items :
         Half(id, x)' => Half(id, x) \/ (id = nextId /\ x \in froms) \/ (id = nextId + 1 /\ x \in tos)
  BY <1>5, <1>6
<1> QED
  BY <1>3, <1>4, <1>5, <1>7, Followed

LEMMA MoveOK ==
  ASSUME IInv, NEW it \in Items, NEW to \in Items, Move(it, to)
  PROVE  IInv'
<1> DEFINE evs == <<Seen(0, it, {"renamed"}), Seen(1, to, {"renamed"})>>
<1>1. /\ evs \in Seq(Event) /\ Len(evs) = 2
      /\ evs[1] = Seen(0, it, {"renamed"}) /\ evs[2] = Seen(1, to, {"renamed"})
  BY DEF IInv, Typed, Seen, Event
<1>2. Change((fs \ ({it} \cup At(fs, to.path))) \cup {to}, evs, {it.path, to.path})
  BY DEF Move
<1> HIDE DEF evs
<1> DEFINE froms == {it}
       tos == {to}
<1>3. froms \in SUBSET Items /\ tos \in SUBSET Items
  OBVIOUS
<1>4. /\ moves \subseteq moves' /\ crossed \subseteq crossed' /\ tos \subseteq came'
      /\ \A x \in came, y \in froms : <<x, y>> \in crossed'
      /\ \A x \in froms, y \in tos : <<x, y>> \in moves'
  BY DEF Move
<1>5. /\ Typed' /\ nextId' = nextId + 2 /\ told' = told
      /\ \A id \in Nat, x \in Items :
            Half(id, x)' => \/ Half(id, x)
                            \/ \E i \in 1 .. Len(evs) : /\ evs[i].id = id /\ evs[i].it = x
                                                        /\ "renamed" \in evs[i].flags
  BY <1>1, <1>2, Queued
<1>6. \A i \in 1 .. Len(evs), x \in Items :
         evs[i].it = x => \/ evs[i].id = nextId /\ x \in froms
                          \/ evs[i].id = nextId + 1 /\ x \in tos
  BY <1>1 DEF Seen, IInv, Typed
<1> HIDE DEF froms, tos
<1>7. \A id \in Nat, x \in Items :
         Half(id, x)' => Half(id, x) \/ (id = nextId /\ x \in froms) \/ (id = nextId + 1 /\ x \in tos)
  BY <1>5, <1>6
<1> QED
  BY <1>3, <1>4, <1>5, <1>7, Followed

-----------------------------------------------------------------------------
(* The theorem *)

LEMMA StepOK ==
  ASSUME IInv, [Next]_vars
  PROVE  IInv'
<1>1. CASE Others
  BY <1>1, NewOK, DeleteOK, MoveOutOK, MoveInOK, MoveOK DEF Others
<1>2. CASE Callback
  BY <1>2, TakeOK, CallbackOK DEF Callback
<1>3. CASE StopStream
  <2>1. Typed'
    BY <1>3 DEF StopStream, driver, IInv, Typed
  <2>2. ASSUME NEW id \in Nat, NEW it \in Items, Half(id, it)' PROVE Half(id, it)
    BY <1>3, <2>2 DEF StopStream, driver, Half
  <2> QED
    BY <1>3, <2>1, <2>2, Fewer DEF StopStream, history, passing, IInv, RenamesPair
<1>4. CASE Start \/ DropHeld \/ (\E it \in Items : handleDeleteEvent(it)) \/ UNCHANGED vars
  BY <1>4, Forgotten
  DEF Start, Walk, StartStream, MakeDone, DropHeld, handleDeleteEvent, vars, driver, history, passing
<1>5. CASE \E g \in Timers : Timer(g)
  BY <1>5, Forgotten
  DEF Timer, TimerQuits, TimerFires, TimerHandles, TimerSends, Given, Indexed, Removed, driver, history, passing
<1> QED
  BY <1>1, <1>2, <1>3, <1>4, <1>5 DEF Next

\* Both halves of a Rename event are of one rename, or of two that have followed
\* each other with successive numbers, however callbacks and goroutines overlap.
THEOREM RenamesArePairs == Spec => []RenamesPair
<1>1. IInv /\ [Next]_vars => IInv'
  BY StepOK
<1>2. IInv => RenamesPair
  BY DEF IInv
<1> QED
  BY InitOK, <1>1, <1>2, PTL DEF Spec

-----------------------------------------------------------------------------
(* Types.  That the goroutines of lastRenameItem are never more than Timers is *)
(* a matter of counting: each was made for an event, and no change makes more  *)
(* events than it takes numbers.                                               *)

Busy == {g \in Timers : timers[g] # NoTimer}
Hand == IF cb = "idle" THEN 0 ELSE 1

Bounded ==
    /\ \E k \in 0 .. MaxOps : nextId = 2 * k + 2
    /\ Cardinality(Busy) + Hand + Len(queue) + 2 <= nextId

TypeInv == TypeOK /\ Bounded

LEMMA ItemType == ASSUME NEW it \in Items PROVE it.path \in Path /\ it.isDir \in BOOLEAN
  BY FsEventsAssumption

LEMMA BusyFinite ==
  ASSUME NEW S \in SUBSET Timers
  PROVE  IsFiniteSet(S) /\ Cardinality(S) \in Nat /\ Cardinality(S) <= 2 * MaxOps
<1>1. IsFiniteSet(Timers) /\ Cardinality(Timers) = 2 * MaxOps
  BY FS_Interval, FsEventsAssumption DEF Timers
<1> QED
  BY <1>1, FS_Subset, FS_CardinalityType

LEMMA TimerTypes ==
  ASSUME TypeOK, NEW g \in Timers
  PROVE  /\ timers[g].pc \in {"none", "wait", "fire", "send"}
         /\ timers[g] = NoTimer <=> timers[g].pc = "none"
         /\ timers[g].pc # "none" => timers[g].it \in Items
         /\ timers[g].pc = "wait" => timers[g] = [pc |-> "wait", it |-> timers[g].it, closed |-> timers[g].closed,
                                                  listens |-> timers[g].listens]
                                     /\ timers[g].closed \in BOOLEAN /\ timers[g].listens \in BOOLEAN
         /\ timers[g].pc = "send" => timers[g].found \in BOOLEAN
<1>1. timers[g] \in TimerState
  BY DEF TypeOK
<1> QED
  BY <1>1 DEF TimerState, NoTimer

LEMMA FreeTimer ==
  ASSUME TypeInv, cb # "idle"
  PROVE  \E g \in Timers : timers[g] = NoTimer
<1> SUFFICES ASSUME \A g \in Timers : timers[g] # NoTimer PROVE FALSE
  OBVIOUS
<1>1. Busy = Timers
  BY DEF Busy
<1>2. Cardinality(Timers) = 2 * MaxOps
  BY FS_Interval, FsEventsAssumption DEF Timers
<1>3. Len(queue) \in Nat
  BY DEF TypeInv, TypeOK
<1> QED
  BY <1>1, <1>2, <1>3, FsEventsAssumption DEF TypeInv, Bounded, Hand

\* Fewer events and goroutines are within the bounds
LEMMA StaysBounded ==
  ASSUME TypeInv, nextId' = nextId, Len(queue') \in Nat, Hand' + Len(queue') <= Hand + Len(queue),
         Busy' \subseteq Busy
  PROVE  Bounded'
<1>1. Cardinality(Busy') \in Nat /\ Cardinality(Busy) \in Nat /\ Cardinality(Busy') <= Cardinality(Busy)
  BY BusyFinite, FS_Subset DEF Busy
<1>2. Len(queue) \in Nat /\ Hand \in Nat /\ Hand' \in Nat
  BY DEF TypeInv, TypeOK, Hand
<1>3. nextId \in Nat /\ Cardinality(Busy) + Hand + Len(queue) + 2 <= nextId
  BY DEF TypeInv, TypeOK, Bounded
<1>4. Cardinality(Busy') + Hand' + Len(queue') + 2 <= nextId
  <2>1. \A b, c, h, i, l, m, n \in Nat :
           (b <= c /\ h + l <= i + m /\ c + i + m + 2 <= n) => b + h + l + 2 <= n
    OBVIOUS
  <2> QED
    BY <1>1, <1>2, <1>3, <2>1
<1>5. \E k \in 0 .. MaxOps : nextId' = 2 * k + 2
  BY DEF TypeInv, Bounded
<1> QED
  BY <1>4, <1>5 DEF Bounded

LEMMA CloseTypes ==
  ASSUME TypeOK, NEW t \in Timers \cup {0}
  PROVE  /\ Close(t) \in [Timers -> TimerState]
         /\ \A g \in Timers : /\ Close(t)[g].pc = timers[g].pc
                              /\ timers[g].pc # "none" => Close(t)[g].it = timers[g].it
                              /\ timers[g].pc # "wait" => Close(t)[g] = timers[g]
                              /\ timers[g].pc = "wait" => (Close(t)[g].closed <=> timers[g].closed \/ g = t)
                              /\ Close(t)[g] = NoTimer <=> timers[g] = NoTimer
<1>1. CASE t # 0 /\ timers[t].pc = "wait"
  <2>1. t \in Timers /\ Close(t) = [timers EXCEPT ![t].closed = TRUE]
    BY <1>1 DEF Close
  <2>2. [timers[t] EXCEPT !.closed = TRUE] \in TimerState
    <3>1. timers[t] \in [pc : {"wait"}, it : Items, closed : BOOLEAN, listens : BOOLEAN]
      BY <1>1, <2>1 DEF TypeOK, TimerState, NoTimer
    <3>2. [timers[t] EXCEPT !.closed = TRUE] \in [pc : {"wait"}, it : Items, closed : BOOLEAN, listens : BOOLEAN]
      BY <3>1
    <3> QED
      BY <3>2 DEF TimerState
  <2>3. timers \in [Timers -> TimerState]
    BY DEF TypeOK
  <2>4. [timers[t] EXCEPT !.closed = TRUE].pc = "wait" /\ [timers[t] EXCEPT !.closed = TRUE].it = timers[t].it
        /\ [timers[t] EXCEPT !.closed = TRUE].closed = TRUE
    BY <1>1, <2>1, TimerTypes
  <2>5. Close(t) \in [Timers -> TimerState] /\ Close(t)[t] = [timers[t] EXCEPT !.closed = TRUE]
        /\ \A g \in Timers : g # t => Close(t)[g] = timers[g]
    BY <2>1, <2>2, <2>3
  <2>6. timers[t] # NoTimer /\ Close(t)[t] # NoTimer
    BY <1>1, <2>4, <2>5 DEF NoTimer
  <2>7. \A g \in Timers : timers[g].pc = "wait" => timers[g].closed \in BOOLEAN
    BY TimerTypes
  <2> QED
    BY <1>1, <2>1, <2>4, <2>5, <2>6, <2>7
<1>2. CASE ~(t # 0 /\ timers[t].pc = "wait")
  <2>1. Close(t) = timers
    BY <1>2 DEF Close
  <2> QED
    <3>1. timers \in [Timers -> TimerState] /\ 0 \notin Timers
      BY DEF TypeOK, Timers
    <3>2. \A g \in Timers : timers[g].pc = "wait" => g # t
      BY <1>2, <3>1
    <3> QED
      BY <2>1, <3>1, <3>2
<1> QED
  BY <1>1, <1>2

LEMMA TypeInit == Init => TypeInv
<1> SUFFICES ASSUME Init PROVE TypeInv
  OBVIOUS
<1>1. Busy = {} /\ Hand = 0 /\ Len(queue) = 0
  BY DEF Init, Busy, Hand
<1>2. Cardinality(Busy) = 0
  BY <1>1, FS_EmptySet
<1>3. Bounded
  BY <1>1, <1>2, FsEventsAssumption DEF Init, Bounded
<1>4. TypeOK
  <2>1. timers \in [Timers -> TimerState]
    BY DEF Init, TimerState
  <2>2. queue \in Seq(Event) /\ last.id = 0 /\ last.timer = 0
    BY DEF Init
  <2> QED
    BY <2>1, <2>2 DEF Init, TypeOK
<1> QED
  BY <1>3, <1>4 DEF TypeInv

\* The events of a change are not more than the numbers it takes
LEMMA ChangeTypes ==
  ASSUME TypeInv, NEW new \in SUBSET Items, NEW evs \in Seq(Event), Len(evs) <= 2,
         NEW paths \in SUBSET {it.path : it \in Items}, Change(new, evs, paths),
         moves' \subseteq Items \X Items, came' \subseteq Items, crossed' \subseteq Items \X Items
  PROVE  TypeInv'
<1>1. queue' \in {queue, queue \o evs} /\ queue \in Seq(Event) /\ Len(queue) \in Nat /\ Len(evs) \in Nat
  BY DEF TypeInv, TypeOK, Change
<1>2. queue' \in Seq(Event) /\ Len(queue') \in Nat /\ Len(queue') <= Len(queue) + 2
  <2>1. queue \o evs \in Seq(Event) /\ Len(queue \o evs) = Len(queue) + Len(evs)
    BY <1>1
  <2>2. CASE queue' = queue
    BY <1>1, <2>2
  <2>3. CASE queue' = queue \o evs
    BY <1>1, <2>1, <2>3
  <2> QED
    BY <1>1, <2>2, <2>3
<1>3. /\ fs' = new /\ nextId' = nextId + 2 /\ missed' \subseteq missed \cup paths
      /\ UNCHANGED <<phase, last, timers, cb, event, held, owed, stopped, index, told, late, overlap>>
  BY DEF Change, driver, deleted
<1>4. TypeOK'
  BY <1>2, <1>3 DEF TypeInv, TypeOK
<1>5. Busy' = Busy /\ Hand' = Hand
  BY <1>3 DEF Busy, Hand
<1>6. Cardinality(Busy) \in Nat /\ Hand \in Nat
  BY BusyFinite DEF Busy, Hand
<1>7. PICK k \in 0 .. MaxOps : nextId = 2 * k + 2
  BY DEF TypeInv, Bounded
<1>8. nextId < 2 * MaxOps + 2
  BY DEF Change
<1>9. k + 1 \in 0 .. MaxOps /\ nextId' = 2 * (k + 1) + 2
  BY <1>3, <1>7, <1>8, FsEventsAssumption
<1>10. Cardinality(Busy') + Hand' + Len(queue') + 2 <= nextId'
  <2>1. nextId \in Nat /\ Cardinality(Busy) + Hand + Len(queue) + 2 <= nextId
    BY DEF TypeInv, TypeOK, Bounded
  <2>2. Cardinality(Busy') = Cardinality(Busy)
    BY <1>5
  <2> QED
    BY <1>1, <1>2, <1>3, <1>5, <1>6, <2>1, <2>2
<1> QED
  BY <1>4, <1>9, <1>10 DEF TypeInv, Bounded

LEMMA SeenType ==
  ASSUME TypeInv, NEW k \in Nat, NEW it \in Items,
         NEW flags \in SUBSET {"created", "modified", "cloned", "removed", "renamed"}
  PROVE  Seen(k, it, flags) \in Event
  BY FsEventsAssumption DEF TypeInv, TypeOK, Seen, Event

\* The flags of the events of a new item
NewFlags(it) == IF it.isDir THEN {<<{"created"}>>}
                ELSE {<<{"created", "modified"}>>, <<{"created"}, {"modified"}>>, <<{"cloned"}>>}
NewEvents(it, flags) == [k \in 1 .. Len(flags) |-> Seen(k - 1, it, flags[k])]

LEMMA NewEventsType ==
  ASSUME TypeInv, NEW it \in Items, NEW flags \in NewFlags(it)
  PROVE  /\ NewEvents(it, flags) \in Seq(Event) /\ Len(NewEvents(it, flags)) = Len(flags)
         /\ Len(flags) \in {1, 2}
         /\ \A k \in 1 .. Len(flags) : /\ NewEvents(it, flags)[k].it = it
                                       /\ NewEvents(it, flags)[k].flags = flags[k]
<1>1. Len(flags) \in {1, 2} /\ \A k \in 1 .. Len(flags) : flags[k] \in SUBSET {"created", "modified", "cloned"}
  BY DEF NewFlags
<1>2. ASSUME NEW k \in 1 .. Len(flags) PROVE Seen(k - 1, it, flags[k]) \in Event
  <2>1. k - 1 \in Nat /\ flags[k] \in SUBSET {"created", "modified", "cloned", "removed", "renamed"}
    BY <1>1
  <2> QED
    BY <2>1, SeenType
<1>3. NewEvents(it, flags) \in [1 .. Len(flags) -> Event]
  BY <1>2 DEF NewEvents
<1>4. NewEvents(it, flags) \in Seq(Event) /\ Len(NewEvents(it, flags)) = Len(flags)
  BY <1>1, <1>3
<1>5. ASSUME NEW k \in 1 .. Len(flags)
      PROVE  NewEvents(it, flags)[k].it = it /\ NewEvents(it, flags)[k].flags = flags[k]
  <2>1. NewEvents(it, flags)[k] = Seen(k - 1, it, flags[k])
    BY DEF NewEvents
  <2> QED
    BY <2>1 DEF Seen
<1> QED
  BY <1>1, <1>4, <1>5

LEMMA OthersTypes ==
  ASSUME TypeInv, Others
  PROVE  TypeInv'
<1> USE DEF TypeInv, TypeOK
<1>1. PICK it \in Items : New(it) \/ Delete(it) \/ MoveOut(it) \/ MoveIn(it) \/ \E to \in Items : Move(it, to)
  BY DEF Others
<1>2. {it.path} \in SUBSET {x.path : x \in Items}
  OBVIOUS
<1>3. CASE New(it)
  <2>1. PICK flags \in NewFlags(it) : Change(fs \cup {it}, NewEvents(it, flags), {it.path})
    BY <1>3 DEF New, NewFlags, NewEvents
  <2>2. NewEvents(it, flags) \in Seq(Event) /\ Len(NewEvents(it, flags)) <= 2
    BY NewEventsType
  <2>3. moves' = moves /\ crossed' = crossed /\ came' = {}
    BY <1>3 DEF New
  <2> HIDE DEF TypeInv, TypeOK
  <2>4. fs \cup {it} \in SUBSET Items /\ moves' \subseteq Items \X Items /\ came' \subseteq Items /\ crossed' \subseteq Items \X Items
    BY <2>3 DEF TypeInv, TypeOK
  <2> QED
    BY <1>2, <2>1, <2>2, <2>4, ChangeTypes
<1>4. CASE Delete(it)
  <2>1. Seen(0, it, {"removed"}) \in Event
    BY SeenType
  <2>2. <<Seen(0, it, {"removed"})>> \in Seq(Event) /\ Len(<<Seen(0, it, {"removed"})>>) <= 2
    BY <2>1
  <2>3. moves' = moves /\ crossed' = crossed /\ came' = {} /\ Change(fs \ {it}, <<Seen(0, it, {"removed"})>>, {it.path})
    BY <1>4 DEF Delete
  <2> HIDE DEF TypeInv, TypeOK
  <2>4. fs \ {it} \in SUBSET Items /\ moves' \subseteq Items \X Items /\ came' \subseteq Items /\ crossed' \subseteq Items \X Items
    BY <2>3 DEF TypeInv, TypeOK
  <2> QED
    BY <1>2, <2>2, <2>3, <2>4, ChangeTypes
<1>5. CASE MoveOut(it)
  <2>1. Seen(0, it, {"renamed"}) \in Event
    BY SeenType
  <2>2. <<Seen(0, it, {"renamed"})>> \in Seq(Event) /\ Len(<<Seen(0, it, {"renamed"})>>) <= 2
    BY <2>1
  <2>3. moves' = moves /\ crossed' = crossed \cup {<<x, it>> : x \in came} /\ came' = {}
        /\ Change(fs \ {it}, <<Seen(0, it, {"renamed"})>>, {it.path})
    BY <1>5 DEF MoveOut
  <2> HIDE DEF TypeInv, TypeOK
  <2>4. fs \ {it} \in SUBSET Items /\ moves' \subseteq Items \X Items /\ came' \subseteq Items /\ crossed' \subseteq Items \X Items
    BY <2>3 DEF TypeInv, TypeOK
  <2> QED
    BY <1>2, <2>2, <2>3, <2>4, ChangeTypes
<1>6. CASE MoveIn(it)
  <2>1. Seen(1, it, {"renamed"}) \in Event
    BY SeenType
  <2>2. <<Seen(1, it, {"renamed"})>> \in Seq(Event) /\ Len(<<Seen(1, it, {"renamed"})>>) <= 2
    BY <2>1
  <2>3. moves' = moves /\ crossed' = crossed /\ came' = {it}
        /\ Change(fs \cup {it}, <<Seen(1, it, {"renamed"})>>, {it.path})
    BY <1>6 DEF MoveIn
  <2> HIDE DEF TypeInv, TypeOK
  <2>4. fs \cup {it} \in SUBSET Items /\ moves' \subseteq Items \X Items /\ came' \subseteq Items /\ crossed' \subseteq Items \X Items
    BY <2>3 DEF TypeInv, TypeOK
  <2> QED
    BY <1>2, <2>2, <2>3, <2>4, ChangeTypes
<1>7. ASSUME NEW to \in Items, Move(it, to) PROVE TypeInv'
  <2>1. Seen(0, it, {"renamed"}) \in Event /\ Seen(1, to, {"renamed"}) \in Event
    BY SeenType
  <2>2. <<Seen(0, it, {"renamed"}), Seen(1, to, {"renamed"})>> \in Seq(Event)
        /\ Len(<<Seen(0, it, {"renamed"}), Seen(1, to, {"renamed"})>>) <= 2
    BY <2>1
  <2>3. moves' = moves \cup {<<it, to>>} /\ crossed' = crossed \cup {<<x, it>> : x \in came} /\ came' = {to}
        /\ Change((fs \ ({it} \cup At(fs, to.path))) \cup {to},
                  <<Seen(0, it, {"renamed"}), Seen(1, to, {"renamed"})>>, {it.path, to.path})
    BY <1>7 DEF Move
  <2> HIDE DEF TypeInv, TypeOK
  <2>4. (fs \ ({it} \cup At(fs, to.path))) \cup {to} \in SUBSET Items
        /\ moves' \subseteq Items \X Items /\ came' \subseteq Items /\ crossed' \subseteq Items \X Items
    BY <2>3 DEF TypeInv, TypeOK
  <2>5. {it.path, to.path} \in SUBSET {x.path : x \in Items}
    OBVIOUS
  <2> QED
    BY <2>2, <2>3, <2>4, <2>5, ChangeTypes
<1> QED
  BY <1>1, <1>3, <1>4, <1>5, <1>6, <1>7

LEMMA GivenTypes ==
  ASSUME TypeOK, NEW it \in Items, NEW found, Given(it, found)
  PROVE  index' \subseteq Items /\ late' \subseteq {x.path : x \in Items}
  BY DEF TypeOK, Given, Indexed, Removed, At

LEMMA TakeTypes ==
  ASSUME TypeInv, Take
  PROVE  TypeInv'
<1>1. queue \in Seq(Event) /\ queue # << >> /\ queue' = Tail(queue) /\ event' = Head(queue) /\ cb' = "got"
  BY DEF TypeInv, TypeOK, Take
<1>2. event' \in Event /\ queue' \in Seq(Event) /\ Len(queue') = Len(queue) - 1 /\ Len(queue) \in Nat \ {0}
  BY <1>1
<1>3. timers' \in [Timers -> TimerState] /\ \A g \in Timers : timers'[g] = NoTimer <=> timers[g] = NoTimer
  BY CloseTypes DEF Take, TypeInv, TypeOK
<1>4. TypeOK'
  BY <1>1, <1>2, <1>3 DEF Take, deleted, passing, TypeInv, TypeOK
<1>5. Busy' = Busy /\ Hand' + Len(queue') <= Hand + Len(queue) /\ Len(queue') \in Nat
  BY <1>1, <1>2, <1>3 DEF Busy, Hand, Take
<1>6. Bounded'
  BY <1>5, StaysBounded DEF Take
<1> QED
  BY <1>4, <1>6 DEF TypeInv

LEMMA RememberTypes ==
  ASSUME TypeInv, Remember
  PROVE  /\ TypeInv'
         /\ \E g \in Timers :
               /\ timers[g] = NoTimer /\ last' = [id |-> event.id, it |-> event.it, timer |-> g]
               /\ timers' = [timers EXCEPT ![g] = [pc |-> "wait", it |-> event.it, closed |-> FALSE,
                                                   listens |-> phase = "run"]]
<1>1. cb # "idle" /\ event \in Event /\ cb' = "idle" /\ queue' = queue /\ nextId' = nextId
  BY DEF Remember, Rest, Idle, TypeInv, TypeOK
<1>2. PICK g \in Timers : g = (CHOOSE x \in Timers : timers[x] = NoTimer) /\ timers[g] = NoTimer
  BY <1>1, FreeTimer
<1>3. /\ last' = [id |-> event.id, it |-> event.it, timer |-> g]
      /\ timers' = [timers EXCEPT ![g] = [pc |-> "wait", it |-> event.it, closed |-> FALSE,
                                          listens |-> phase = "run"]]
  BY <1>2 DEF Remember
<1>4. event.id \in Nat /\ event.it \in Items
  BY <1>1 DEF Event
<1>5. [pc |-> "wait", it |-> event.it, closed |-> FALSE, listens |-> phase = "run"] \in TimerState
  BY <1>4 DEF TimerState
<1>6. timers' \in [Timers -> TimerState]
  BY <1>3, <1>5 DEF TypeInv, TypeOK
<1>7. last'.id \in Nat /\ last'.timer \in Timers \cup {0} /\ (last'.id # 0 => last'.it \in Items)
  BY <1>3, <1>4
<1>8. TypeOK'
  BY <1>1, <1>6, <1>7 DEF Remember, deleted, history, passing, TypeInv, TypeOK
<1>9. Busy' \subseteq Busy \cup {g} /\ g \notin Busy
  BY <1>2, <1>3 DEF Busy, TypeInv, TypeOK
<1>10. /\ Cardinality(Busy \cup {g}) = Cardinality(Busy) + 1 /\ Cardinality(Busy') <= Cardinality(Busy \cup {g})
       /\ Cardinality(Busy) \in Nat /\ Cardinality(Busy') \in Nat
  <2>1. IsFiniteSet(Busy) /\ Cardinality(Busy) \in Nat /\ Cardinality(Busy') \in Nat /\ IsFiniteSet(Busy \cup {g})
    BY BusyFinite DEF Busy
  <2> QED
    BY <1>9, <2>1, FS_AddElement, FS_Subset
<1>11. Hand = 1 /\ Hand' = 0 /\ Len(queue) \in Nat
  BY <1>1 DEF Hand, TypeInv, TypeOK
<1>12. Bounded'
  BY <1>1, <1>10, <1>11, FsEventsAssumption DEF TypeInv, Bounded
<1> QED
  BY <1>2, <1>3, <1>8, <1>12 DEF TypeInv

LEMMA CallbackTypes ==
  ASSUME IInv, TypeInv, handleFsEvent
  PROVE  TypeInv'
<1>1. CASE Remember
  BY <1>1, RememberTypes
<1>2. CASE ~Remember
  <2>1. UNCHANGED <<fs, nextId, queue, phase, timers, stopped, passing, missed, overlap>>
        /\ cb # "idle" /\ cb' \in {"idle", "rest"} /\ event' \in {event, << >>} /\ (cb' # "idle" => event' = event)
    BY <1>2 DEF handleFsEvent, Ignore, Pair, Flush, Remove, IndexItem, Rest, Idle, Forget, deleted, history,
       passing, D!Delete
  <2>2. event \in Event /\ event.it \in Items
    BY <2>1 DEF TypeInv, TypeOK, Event
  <2>3. last'.id \in Nat /\ last'.timer \in Timers \cup {0} /\ (last'.id # 0 => last'.it \in Items)
    BY <1>2 DEF handleFsEvent, Ignore, Pair, Flush, Remove, IndexItem, Forget, TypeInv, TypeOK
  <2>4. last.id > 0 => last.id # 0
    BY DEF TypeInv, TypeOK
  <2>5. index' \subseteq Items /\ late' \subseteq {x.path : x \in Items} /\ told' \subseteq Items \X Items
        /\ held' \subseteq Items /\ owed' \subseteq {x.path : x \in Items}
    <3>1. CASE Ignore
      BY <2>4, <3>1, GivenTypes DEF Ignore, deleted, passing, TypeInv, TypeOK
    <3>2. CASE Pair
      <4>1. last.it \in Items
        BY <2>1, <2>2, <3>2 DEF Pair, Pairs, Has, IInv, Numbered, Half, Event, TypeInv, TypeOK
      <4> QED
        BY <3>2, <2>2, <4>1 DEF Pair, Renamed, deleted, passing, At, TypeInv, TypeOK
    <3>3. CASE Flush
      BY <2>4, <3>3, GivenTypes DEF Flush, deleted, passing, TypeInv, TypeOK
    <3>4. CASE Remove
      BY <2>2, <3>4 DEF Remove, D!Delete, history, passing, TypeInv, TypeOK
    <3>5. CASE IndexItem
      BY <2>2, <3>5 DEF IndexItem, Indexed, At, deleted, passing, TypeInv, TypeOK
    <3> QED
      BY <1>2, <3>1, <3>2, <3>3, <3>4, <3>5 DEF handleFsEvent
  <2>6. TypeOK'
    BY <2>1, <2>2, <2>3, <2>5 DEF TypeInv, TypeOK, passing
  <2>7. Busy' = Busy /\ Len(queue') \in Nat /\ Hand' + Len(queue') <= Hand + Len(queue)
    BY <2>1 DEF Busy, Hand, TypeInv, TypeOK
  <2> QED
    BY <2>1, <2>6, <2>7, StaysBounded DEF TypeInv
<1> QED
  BY <1>1, <1>2

LEMMA TimerOK ==
  ASSUME TypeInv, NEW g \in Timers, Timer(g)
  PROVE  TypeInv'
<1>1. timers \in [Timers -> TimerState] /\ timers[g].pc # "none"
  BY DEF Timer, TimerQuits, TimerFires, TimerHandles, TimerSends, TypeInv, TypeOK
<1>2. timers[g].it \in Items /\ timers[g] # NoTimer
  BY <1>1, TimerTypes DEF TypeInv
<1>3. \E v \in TimerState : timers' = [timers EXCEPT ![g] = v]
  BY <1>2 DEF Timer, TimerQuits, TimerFires, TimerHandles, TimerSends, TimerState, Exists
<1>4. timers' \in [Timers -> TimerState] /\ Busy' \subseteq Busy
  BY <1>1, <1>2, <1>3 DEF Busy
<1>5. UNCHANGED <<fs, nextId, queue, phase, cb, event, held, owed, stopped, passing, told, missed>>
      /\ (last' = last \/ Forget)
  BY DEF Timer, TimerQuits, TimerFires, TimerHandles, TimerSends, history, passing, deleted
<1>6. index' \subseteq Items /\ late' \subseteq {x.path : x \in Items}
  <2>1. CASE TimerSends(g)
    BY <1>2, <2>1, GivenTypes DEF TimerSends, TypeInv
  <2>2. CASE TimerQuits(g) \/ TimerFires(g) \/ TimerHandles(g)
    BY <2>2 DEF TimerQuits, TimerFires, TimerHandles, history, TypeInv, TypeOK
  <2> QED
    BY <2>1, <2>2 DEF Timer
<1>7. overlap' \in BOOLEAN
  BY DEF Timer, TimerQuits, TimerFires, TimerHandles, TimerSends, history, TypeInv, TypeOK
<1>8. TypeOK'
  BY <1>4, <1>5, <1>6, <1>7 DEF TypeInv, TypeOK, Forget, passing
<1>9. Len(queue') \in Nat /\ Hand' + Len(queue') <= Hand + Len(queue)
  BY <1>5 DEF Hand, TypeInv, TypeOK
<1> QED
  BY <1>4, <1>5, <1>8, <1>9, StaysBounded DEF TypeInv

LEMMA RestTypes ==
  ASSUME TypeInv, Start \/ StopStream \/ DropHeld \/ (\E it \in Items : handleDeleteEvent(it)) \/ UNCHANGED vars
  PROVE  TypeInv'
<1>1. TypeOK'
  <2>1. UNCHANGED <<fs, nextId, last, timers, cb, event, passing, told, missed, overlap>>
        /\ late' = late /\ queue' \in {queue, << >>} /\ phase' \in {phase, "create", "stream", "run", "stopped"}
    BY DEF Start, Walk, StartStream, MakeDone, StopStream, DropHeld, handleDeleteEvent, Removed,
       vars, driver, history, passing
  <2>2. queue' \in Seq(Event)
    <3>1. << >> \in Seq(Event) /\ queue \in Seq(Event)
      BY DEF TypeInv, TypeOK
    <3> QED
      BY <2>1, <3>1
  <2>3. /\ held' \subseteq held /\ owed' \subseteq owed /\ stopped' \in {stopped, TRUE}
        /\ index' \subseteq index \cup fs
    BY DEF Start, Walk, StartStream, MakeDone, StopStream, DropHeld, handleDeleteEvent, Removed, D!Stop, D!Drop,
       D!Report, vars, deleted
  <2> QED
    BY <2>1, <2>2, <2>3 DEF TypeInv, TypeOK, passing
<1>2. UNCHANGED <<nextId, timers, cb>> /\ queue' \in {queue, << >>}
  BY DEF Start, Walk, StartStream, MakeDone, StopStream, DropHeld, handleDeleteEvent, vars, driver
<1>3. Busy' = Busy /\ Len(queue') \in Nat /\ Hand' + Len(queue') <= Hand + Len(queue)
  BY <1>2 DEF Busy, Hand, TypeInv, TypeOK
<1> QED
  BY <1>1, <1>2, <1>3, StaysBounded DEF TypeInv

LEMMA TypeStep ==
  ASSUME IInv, TypeInv, [Next]_vars
  PROVE  TypeInv'
  BY OthersTypes, TakeTypes, CallbackTypes, TimerOK, RestTypes DEF Next, Callback

\* All values are of their types: what is remembered and given up is an item, and
\* there is always a goroutine free for the next half of a rename.
THEOREM TypeCorrect == Spec => []TypeOK
<1>1. IInv /\ TypeInv /\ [Next]_vars => (IInv /\ TypeInv)'
  BY StepOK, TypeStep
<1>2. TypeInv => TypeOK
  BY DEF TypeInv
<1> QED
  BY InitOK, TypeInit, <1>1, <1>2, PTL DEF Spec

-----------------------------------------------------------------------------
(* The index follows.  Whatever is under way about a path is in an order: in   *)
(* the hands of a goroutine that has fired, remembered, in the hands of the    *)
(* callback, in the stream.  The last of them tells what there is.             *)

\* No goroutine has fired while a callback was at work.  One that waits and has
\* not been told to stop, or has fired, is that of what is remembered
Live ==
    /\ \A g \in Timers : (timers[g].pc = "fire" \/ (timers[g].pc = "wait" /\ ~timers[g].closed)) =>
          cb = "idle" /\ g = last.timer /\ last.id # 0 /\ last.it = timers[g].it
    /\ \A g \in Timers : timers[g].pc = "send" => cb = "idle" /\ g = last.timer /\ last.id = 0
    /\ last.id # 0 /\ cb = "idle" =>
          /\ last.timer \in Timers /\ timers[last.timer].pc \in {"wait", "fire"}
          /\ timers[last.timer].pc = "wait" => ~timers[last.timer].closed
    /\ cb = "rest" => last.id = 0

InQueue(p) == \E i \in 1 .. Len(queue) : queue[i].it.path = p
InHand(p)  == cb # "idle" /\ event.it.path = p
InMind(p)  == last.id # 0 /\ last.it.path = p
InSend(p)  == \E g \in Timers : timers[g].pc = "send" /\ timers[g].it.path = p

\* What there is by the name after the change the event e is of
Says(e) == IF "removed" \in e.flags \/ ("renamed" \in e.flags /\ e.id % 2 = 0) THEN {} ELSE {e.it}
Clear(e) ==
    /\ "created" \in e.flags /\ ~e.it.isDir => "modified" \in e.flags
    /\ ~({"removed", "renamed"} \subseteq e.flags)

\* i is the last event about its name
LastOf(q, i) == \A j \in i + 1 .. Len(q) : q[j].it.path # q[i].it.path

QueueTells(p) == \A i \in 1 .. Len(queue) :
    (queue[i].it.path = p /\ LastOf(queue, i)) => Clear(queue[i]) /\ At(fs, p) = Says(queue[i])

HandTells(p) == InHand(p) => Clear(event) /\ At(fs, p) = Says(event)

MindTells(p) == (~InHand(p) /\ InMind(p)) => At(fs, p) = IF last.id % 2 = 0 THEN {} ELSE {last.it}

SendTells(p) == ~InHand(p) /\ ~InMind(p) =>
    \A g \in Timers : (timers[g].pc = "send" /\ timers[g].it.path = p) =>
        At(fs, p) = IF timers[g].found THEN {timers[g].it} ELSE {}

IndexTells(p) == (~InHand(p) /\ ~InMind(p) /\ ~InSend(p) /\ phase # "walk" /\ p \notin Ignored) =>
    IF p \in owed THEN At(fs, p) = {} ELSE At(index, p) = At(fs, p)

\* A deletion reported again takes nothing away
HeldBack(p) == (p \notin owed /\ \E h \in held : Covers(h, p)) => At(index, p) = {}

Follows(p) ==
    /\ QueueTells(p) /\ HeldBack(p)
    /\ ~InQueue(p) => HandTells(p) /\ MindTells(p) /\ SendTells(p) /\ IndexTells(p)

Excused(p) == p \in missed \cup late \cup Misjoined

\* The walk finds nothing under way
Fresh == phase \in {"walk", "create"} =>
    queue = << >> /\ cb = "idle" /\ last.id = 0 /\ held = {} /\ owed = {} /\ \A g \in Timers : timers[g] = NoTimer

Single == \A it, x \in fs : it.path = x.path => it = x

FollowInv ==
    /\ Single /\ Fresh /\ D!Safe
    /\ stopped => phase = "stopped"
    /\ ~overlap /\ phase # "stopped" => Live /\ \A p \in Path : Excused(p) \/ Follows(p)

LEMMA CoversItself ==
  ASSUME NEW it \in Items, NEW x \in Items
  PROVE  Covers(it, x.path) <=> x.path = it.path
  BY FsEventsAssumption DEF Covers

LEMMA AtOne ==
  ASSUME Single, NEW it \in fs
  PROVE  At(fs, it.path) = {it}
  BY DEF At, Single

\* What a deletion, or an item found or not, makes of the index
LEMMA RemovedAt ==
  ASSUME TypeOK, NEW it \in Items, Removed(it), NEW p
  PROVE  At(index', p) = IF p = it.path THEN {} ELSE At(index, p)
<1>1. \A x \in index : Covers(it, x.path) <=> x.path = it.path
  BY CoversItself DEF TypeOK
<1> QED
  BY <1>1 DEF Removed, At

LEMMA IndexedAt ==
  ASSUME NEW it \in Items, Indexed(it), NEW p
  PROVE  /\ At(index', p) = IF p = it.path THEN {it} ELSE At(index, p)
         /\ p = it.path /\ p \notin late' => \A h \in held : ~Covers(h, p)
  BY DEF Indexed, At

LEMMA GivenAt ==
  ASSUME TypeOK, NEW it \in Items, NEW found \in BOOLEAN, Given(it, found), NEW p
  PROVE  /\ At(index', p) = IF p # it.path THEN At(index, p) ELSE IF found THEN {it} ELSE {}
         /\ p = it.path /\ found /\ p \notin late' => \A h \in held : ~Covers(h, p)
         /\ late \subseteq late'
<1>1. CASE found
  BY <1>1, IndexedAt DEF Given, Indexed
<1>2. CASE ~found
  BY <1>2, RemovedAt DEF Given, Removed
<1> QED
  BY <1>1, <1>2

LEMMA SameCovers == \A it, p : D!Covers(it, p) <=> Covers(it, p)
  BY DEF D!Covers, Covers, D!Under, Under

\* A path that is owed is held back
LEMMA OwedIsHeld ==
  ASSUME D!Safe, ~stopped, NEW p \in owed
  PROVE  \E h \in held : Covers(h, p)
  BY SameCovers DEF D!Safe

LEMMA ExcusedStays ==
  ASSUME missed \subseteq missed', late \subseteq late', told \subseteq told', crossed \subseteq crossed',
         NEW p, ~Excused(p)'
  PROVE  ~Excused(p)
  BY DEF Excused, Misjoined

LEMMA LastOfConcat ==
  ASSUME NEW q \in Seq(Event), NEW evs \in Seq(Event), NEW i \in 1 .. Len(q \o evs), LastOf(q \o evs, i)
  PROVE  \/ /\ i \in 1 .. Len(q) /\ (q \o evs)[i] = q[i] /\ LastOf(q, i)
            /\ \A j \in 1 .. Len(evs) : evs[j].it.path # q[i].it.path
         \/ \E k \in 1 .. Len(evs) : (q \o evs)[i] = evs[k] /\ LastOf(evs, k)
<1> PICK n \in Nat, m \in Nat : n = Len(q) /\ m = Len(evs)
  OBVIOUS
<1> DEFINE s == q \o evs
<1>1. /\ Len(s) = n + m
      /\ \A j \in 1 .. n : s[j] = q[j]
      /\ \A j \in 1 .. m : n + j \in n + 1 .. n + m /\ s[n + j] = evs[j]
  OBVIOUS
<1> HIDE DEF s
<1>2. \A j \in i + 1 .. n + m : s[j].it.path # s[i].it.path
  BY <1>1 DEF LastOf, s
<1>3. CASE i \in 1 .. n
  <2>1. s[i] = q[i] /\ LastOf(q, i)
    BY <1>1, <1>2, <1>3 DEF LastOf
  <2>2. ASSUME NEW j \in 1 .. m PROVE evs[j].it.path # q[i].it.path
    <3>1. n + j \in i + 1 .. n + m /\ s[n + j] = evs[j]
      BY <1>1, <1>3
    <3> QED
      BY <1>2, <2>1, <3>1
  <2> QED
    BY <1>3, <2>1, <2>2 DEF s
<1>4. CASE i \notin 1 .. n
  <2>1. i - n \in 1 .. m /\ n + (i - n) = i
    BY <1>1, <1>4 DEF s
  <2>2. s[i] = evs[i - n]
    BY <1>1, <2>1
  <2>3. ASSUME NEW j \in (i - n) + 1 .. m PROVE evs[j].it.path # evs[i - n].it.path
    <3>1. j \in 1 .. m /\ n + j \in i + 1 .. n + m
      BY <2>1
    <3> QED
      BY <1>1, <1>2, <2>2, <3>1
  <2>4. LastOf(evs, i - n)
    BY <2>3 DEF LastOf
  <2> QED
    BY <2>1, <2>2, <2>4 DEF s
<1> QED
  BY <1>3, <1>4

\* The last event of a change tells what there is by its name
Telling(new, evs, paths) ==
    /\ \A p \in Path : p \notin paths => At(new, p) = At(fs, p)
    /\ \A i \in 1 .. Len(evs) : evs[i].it.path \in paths
    /\ \A p \in paths : \E i \in 1 .. Len(evs) : evs[i].it.path = p
    /\ \A i \in 1 .. Len(evs) : LastOf(evs, i) => Clear(evs[i]) /\ At(new, evs[i].it.path) = Says(evs[i])
    /\ \A it, x \in new : it.path = x.path => it = x

\* What others do
LEMMA ChangeFollows ==
  ASSUME TypeOK, FollowInv, NEW new \in SUBSET Items, NEW evs \in Seq(Event), NEW paths,
         Change(new, evs, paths), crossed \subseteq crossed', Telling(new, evs, paths)
  PROVE  FollowInv'
<1>0. /\ \A p \in Path : p \notin paths => At(new, p) = At(fs, p)
      /\ \A i \in 1 .. Len(evs) : evs[i].it.path \in paths
      /\ \A p \in paths : \E i \in 1 .. Len(evs) : evs[i].it.path = p
      /\ \A i \in 1 .. Len(evs) : LastOf(evs, i) => Clear(evs[i]) /\ At(new, evs[i].it.path) = Says(evs[i])
      /\ \A it, x \in new : it.path = x.path => it = x
  BY DEF Telling
<1>1. /\ fs' = new
      /\ UNCHANGED <<phase, last, timers, cb, event, held, owed, stopped, index, told, late, overlap>>
      /\ missed \subseteq missed'
      /\ \/ queue' = queue \o evs /\ phase \in {"stream", "run"}
         \/ queue' = queue /\ paths \subseteq missed' /\ phase \notin {"stream", "run"}
  BY DEF Change, driver, deleted
<1>2. Single' /\ Fresh' /\ D!Safe' /\ (stopped => phase = "stopped")'
  BY <1>0, <1>1 DEF FollowInv, Single, Fresh, D!Safe
<1>3. ASSUME NEW p \in Path, ~Excused(p)', ~overlap, phase # "stopped"
      PROVE  Follows(p)'
  <2>1. Follows(p)
    BY <1>1, <1>3, ExcusedStays DEF FollowInv
  <2>2. HeldBack(p)'
    BY <1>1, <2>1 DEF Follows, HeldBack
  <2>3. queue \in Seq(Event)
    BY DEF TypeOK
  <2>4. CASE queue' = queue /\ p \notin paths
    <3>1. At(fs', p) = At(fs, p)
      BY <1>0, <1>1, <2>4
    <3> QED
      BY <1>1, <2>1, <2>2, <2>4, <3>1 DEF Follows, QueueTells, InQueue, HandTells, MindTells, SendTells, IndexTells,
         InHand, InMind, InSend
  <2>5. CASE queue' = queue \o evs
    <3>1. ASSUME NEW i \in 1 .. Len(queue'), queue'[i].it.path = p, LastOf(queue', i)
          PROVE  Clear(queue'[i]) /\ At(new, p) = Says(queue'[i])
      <4>1. CASE /\ i \in 1 .. Len(queue) /\ queue'[i] = queue[i] /\ LastOf(queue, i)
                 /\ \A j \in 1 .. Len(evs) : evs[j].it.path # queue[i].it.path
        <5>1. p \notin paths
          BY <1>0, <3>1, <4>1
        <5> QED
          BY <1>0, <2>1, <3>1, <4>1, <5>1 DEF Follows, QueueTells
      <4>2. CASE \E k \in 1 .. Len(evs) : queue'[i] = evs[k] /\ LastOf(evs, k)
        BY <1>0, <3>1, <4>2
      <4> QED
        BY <2>3, <2>5, <3>1, <4>1, <4>2, LastOfConcat
    <3>2. QueueTells(p)'
      BY <1>1, <3>1 DEF QueueTells
    <3>3. CASE p \in paths
      <4>1. PICK j \in 1 .. Len(evs) : evs[j].it.path = p
        BY <1>0, <3>3
      <4>2. Len(queue) + j \in 1 .. Len(queue') /\ queue'[Len(queue) + j] = evs[j]
        BY <2>3, <2>5
      <4>3. InQueue(p)'
        BY <4>1, <4>2 DEF InQueue
      <4> QED
        BY <2>2, <3>2, <4>3 DEF Follows
    <3>4. CASE p \notin paths
      <4>1. InQueue(p) => InQueue(p)'
        <5> SUFFICES ASSUME NEW j \in 1 .. Len(queue), queue[j].it.path = p PROVE InQueue(p)'
          BY DEF InQueue
        <5>1. j \in 1 .. Len(queue') /\ queue'[j] = queue[j]
          BY <2>3, <2>5
        <5> QED
          BY <5>1 DEF InQueue
      <4>2. At(fs', p) = At(fs, p)
        BY <1>0, <1>1, <3>4
      <4> QED
        BY <1>1, <2>1, <2>2, <3>2, <4>1, <4>2 DEF Follows, HandTells, MindTells, SendTells, IndexTells,
           InHand, InMind, InSend
    <3> QED
      BY <3>3, <3>4
  <2> QED
    BY <1>1, <1>3, <2>4, <2>5 DEF Excused
<1>4. Live => Live'
  BY <1>1 DEF Live
<1> QED
  BY <1>1, <1>2, <1>3, <1>4 DEF FollowInv

LEMMA NewFollows ==
  ASSUME IInv, TypeInv, FollowInv, NEW it \in Items, New(it)
  PROVE  FollowInv'
<1>1. PICK flags \in NewFlags(it) : Change(fs \cup {it}, NewEvents(it, flags), {it.path})
  BY DEF New, NewFlags, NewEvents
<1> PICK evs \in Seq(Event) : evs = NewEvents(it, flags)
  BY NewEventsType
<1>2. /\ Len(evs) = Len(flags) /\ Len(flags) \in {1, 2}
      /\ \A k \in 1 .. Len(flags) : evs[k].it = it /\ evs[k].flags = flags[k]
  BY NewEventsType
<1>3. \A x \in fs : x.path # it.path
  BY DEF New, Exists
<1>4. fs \cup {it} \in SUBSET Items /\ it.path \in Path
  BY ItemType DEF TypeInv, TypeOK
<1>5. \A p \in Path : p \notin {it.path} => At(fs \cup {it}, p) = At(fs, p)
  BY DEF At
<1>6. At(fs \cup {it}, it.path) = {it}
  BY <1>3 DEF At
<1>7. ASSUME NEW i \in 1 .. Len(evs), LastOf(evs, i)
      PROVE  Clear(evs[i]) /\ At(fs \cup {it}, evs[i].it.path) = Says(evs[i])
  <2>1. i = Len(flags)
    <3> SUFFICES ASSUME i # Len(flags) PROVE FALSE
      OBVIOUS
    <3>1. i = 1 /\ Len(flags) = 2
      BY <1>2
    <3> QED
      BY <1>2, <1>7, <3>1 DEF LastOf
  <2>2. evs[i].it = it /\ evs[i].flags = flags[Len(flags)]
    BY <1>2, <2>1
  <2>3. /\ flags[Len(flags)] \subseteq {"created", "modified", "cloned"}
        /\ "created" \in flags[Len(flags)] => it.isDir \/ "modified" \in flags[Len(flags)]
    <3>1. CASE flags = <<{"created"}>> /\ it.isDir
      <4>1. Len(flags) = 1 /\ flags[1] = {"created"}
        BY <3>1
      <4> QED
        BY <3>1, <4>1
    <3>2. CASE flags = <<{"created", "modified"}>>
      <4>1. Len(flags) = 1 /\ flags[1] = {"created", "modified"}
        BY <3>2
      <4> QED
        BY <4>1
    <3>3. CASE flags = <<{"created"}, {"modified"}>>
      <4>1. Len(flags) = 2 /\ flags[2] = {"modified"}
        BY <3>3
      <4> QED
        BY <4>1
    <3>4. CASE flags = <<{"cloned"}>>
      <4>1. Len(flags) = 1 /\ flags[1] = {"cloned"}
        BY <3>4
      <4> QED
        BY <4>1
    <3> QED
      BY <3>1, <3>2, <3>3, <3>4 DEF NewFlags
  <2> QED
    <3>1. "removed" \notin evs[i].flags /\ "renamed" \notin evs[i].flags
      BY <2>2, <2>3
    <3> QED
      BY <1>6, <2>2, <2>3, <3>1 DEF Clear, Says
<1>8. \A x, y \in fs \cup {it} : x.path = y.path => x = y
  BY <1>3 DEF FollowInv, Single
<1>9. crossed' = crossed
  BY DEF New
<1>10. \A i \in 1 .. Len(evs) : evs[i].it.path \in {it.path}
  BY <1>2
<1>11. \A p \in {it.path} : \E i \in 1 .. Len(evs) : evs[i].it.path = p
  BY <1>2
<1>12. Telling(fs \cup {it}, evs, {it.path})
  BY <1>5, <1>7, <1>8, <1>10, <1>11 DEF Telling
<1> QED
  BY <1>1, <1>4, <1>9, <1>12, ChangeFollows DEF TypeInv

\* An item goes, and e tells of it
LEMMA GoneFollows ==
  ASSUME TypeInv, FollowInv, NEW it \in fs, NEW e \in Event, e.it = it, Clear(e), Says(e) = {},
         Change(fs \ {it}, <<e>>, {it.path}), crossed \subseteq crossed'
  PROVE  FollowInv'
<1>1. fs \ {it} \in SUBSET Items
  BY DEF TypeInv, TypeOK
<1>2. At(fs \ {it}, it.path) = {} /\ \A p \in Path : p \notin {it.path} => At(fs \ {it}, p) = At(fs, p)
  BY DEF At, FollowInv, Single
<1>3. \A x, y \in fs \ {it} : x.path = y.path => x = y
  BY DEF FollowInv, Single
<1>0. <<e>> \in Seq(Event)
  OBVIOUS
<1> PICK evs \in Seq(Event) : evs = <<e>>
  BY <1>0
<1>4. Len(evs) = 1 /\ evs[1] = e
  OBVIOUS
<1>5. /\ \A i \in 1 .. Len(evs) : evs[i].it.path \in {it.path}
      /\ \A p \in {it.path} : \E i \in 1 .. Len(evs) : evs[i].it.path = p
      /\ \A i \in 1 .. Len(evs) : LastOf(evs, i) => Clear(evs[i]) /\ At(fs \ {it}, evs[i].it.path) = Says(evs[i])
  BY <1>2, <1>4
<1>6. Telling(fs \ {it}, evs, {it.path})
  BY <1>2, <1>3, <1>5 DEF Telling
<1> QED
  BY <1>1, <1>6, ChangeFollows DEF TypeInv

LEMMA DeleteFollows ==
  ASSUME TypeInv, FollowInv, NEW it \in Items, Delete(it)
  PROVE  FollowInv'
<1> PICK e \in Event : e = Seen(0, it, {"removed"})
  BY SeenType
<1>1. e.it = it /\ Clear(e) /\ Says(e) = {}
  BY DEF Seen, Clear, Says
<1> QED
  BY <1>1, GoneFollows DEF Delete

LEMMA MoveOutFollows ==
  ASSUME IInv, TypeInv, FollowInv, NEW it \in Items, MoveOut(it)
  PROVE  FollowInv'
<1> PICK e \in Event : e = Seen(0, it, {"renamed"})
  BY SeenType
<1>1. e.it = it /\ e.flags = {"renamed"} /\ e.id % 2 = 0
  BY DEF Seen, IInv, Typed
<1>2. Clear(e) /\ Says(e) = {}
  BY <1>1 DEF Clear, Says
<1>3. crossed \subseteq crossed'
  BY DEF MoveOut
<1> QED
  BY <1>1, <1>2, <1>3, GoneFollows DEF MoveOut

\* The second half of a rename
LEMMA SaysTo ==
  ASSUME IInv, NEW it \in Items
  PROVE  Clear(Seen(1, it, {"renamed"})) /\ Says(Seen(1, it, {"renamed"})) = {it} /\ Seen(1, it, {"renamed"}).it = it
<1> PICK e : e = Seen(1, it, {"renamed"})
  OBVIOUS
<1>1. e.it = it /\ e.flags = {"renamed"} /\ e.id = nextId + 1
  BY DEF Seen
<1>2. e.id % 2 # 0
  BY <1>1 DEF IInv, Typed
<1> QED
  BY <1>1, <1>2 DEF Clear, Says

LEMMA MoveInFollows ==
  ASSUME IInv, TypeInv, FollowInv, NEW it \in Items, MoveIn(it)
  PROVE  FollowInv'
<1> PICK e \in Event : e = Seen(1, it, {"renamed"})
  BY SeenType
<1>1. e.it = it /\ Clear(e) /\ Says(e) = {it}
  BY SaysTo
<1>2. fs \cup {it} \in SUBSET Items
  BY DEF TypeInv, TypeOK
<1>3. \A x \in fs : x.path # it.path
  BY DEF MoveIn, Exists
<1>4. At(fs \cup {it}, it.path) = {it} /\ \A p \in Path : p \notin {it.path} => At(fs \cup {it}, p) = At(fs, p)
  BY <1>3 DEF At
<1>5. \A x, y \in fs \cup {it} : x.path = y.path => x = y
  BY <1>3 DEF FollowInv, Single
<1>0. <<e>> \in Seq(Event)
  OBVIOUS
<1> PICK evs \in Seq(Event) : evs = <<e>>
  BY <1>0
<1>6. Len(evs) = 1 /\ evs[1] = e
  OBVIOUS
<1>7. /\ \A i \in 1 .. Len(evs) : evs[i].it.path \in {it.path}
      /\ \A p \in {it.path} : \E i \in 1 .. Len(evs) : evs[i].it.path = p
      /\ \A i \in 1 .. Len(evs) : LastOf(evs, i) => Clear(evs[i]) /\ At(fs \cup {it}, evs[i].it.path) = Says(evs[i])
  BY <1>1, <1>4, <1>6
<1>8. Change(fs \cup {it}, evs, {it.path}) /\ crossed' = crossed
  BY DEF MoveIn
<1>9. Telling(fs \cup {it}, evs, {it.path})
  BY <1>4, <1>5, <1>7 DEF Telling
<1> QED
  BY <1>2, <1>8, <1>9, ChangeFollows DEF TypeInv

LEMMA MoveFollows ==
  ASSUME IInv, TypeInv, FollowInv, NEW it \in Items, NEW to \in Items, Move(it, to)
  PROVE  FollowInv'
<1> PICK e \in Event, f \in Event : e = Seen(0, it, {"renamed"}) /\ f = Seen(1, to, {"renamed"})
  BY SeenType
<1>1. f.it = to /\ Clear(f) /\ Says(f) = {to}
  BY SaysTo
<1>2. e.it = it /\ e.flags = {"renamed"} /\ e.id % 2 = 0
  BY DEF Seen, IInv, Typed
<1>3. Clear(e) /\ Says(e) = {}
  BY <1>2 DEF Clear, Says
<1> PICK new \in SUBSET Items : new = (fs \ ({it} \cup At(fs, to.path))) \cup {to}
  BY DEF TypeInv, TypeOK
<1>4. it \in fs /\ it # to /\ it.isDir = to.isDir /\ Change(new, <<e, f>>, {it.path, to.path})
      /\ crossed \subseteq crossed'
  BY DEF Move
<1>5. it.path # to.path
  BY <1>4, FsEventsAssumption
<1>6. At(new, to.path) = {to}
  BY DEF At
<1>7. At(new, it.path) = {}
  BY <1>4, <1>5 DEF At, FollowInv, Single
<1>8. \A p \in Path : p \notin {it.path, to.path} => At(new, p) = At(fs, p)
  BY DEF At
<1>9. \A x, y \in new : x.path = y.path => x = y
  BY DEF At, FollowInv, Single
<1>0. <<e, f>> \in Seq(Event)
  OBVIOUS
<1> PICK evs \in Seq(Event) : evs = <<e, f>>
  BY <1>0
<1>10. Len(evs) = 2 /\ evs[1] = e /\ evs[2] = f
  OBVIOUS
<1>11. /\ \A i \in 1 .. Len(evs) : evs[i].it.path \in {it.path, to.path}
       /\ \A p \in {it.path, to.path} : \E i \in 1 .. Len(evs) : evs[i].it.path = p
  BY <1>1, <1>2, <1>10
<1>12. ASSUME NEW i \in 1 .. Len(evs)
       PROVE  Clear(evs[i]) /\ At(new, evs[i].it.path) = Says(evs[i])
  <2>1. CASE i = 1
    BY <1>2, <1>3, <1>7, <1>10, <2>1
  <2>2. CASE i = 2
    BY <1>1, <1>6, <1>10, <2>2
  <2> QED
    BY <1>10, <2>1, <2>2
<1>13. Telling(new, evs, {it.path, to.path})
  BY <1>8, <1>9, <1>11, <1>12 DEF Telling
<1> QED
  BY <1>4, <1>13, ChangeFollows DEF TypeInv

-----------------------------------------------------------------------------
(* ... and the driver *)

LEMMA TakeFollows ==
  ASSUME TypeInv, FollowInv, Take
  PROVE  FollowInv'
<1>1. /\ queue \in Seq(Event) /\ queue # << >> /\ cb = "idle" /\ phase \in {"stream", "run"}
      /\ queue' = Tail(queue) /\ event' = Head(queue) /\ cb' = "got" /\ timers' = Close(last.timer)
      /\ UNCHANGED <<fs, phase, last, held, owed, stopped, index, told, crossed, missed, late>>
      /\ overlap' = (overlap \/ Firing)
  BY DEF Take, TypeInv, TypeOK, deleted, passing
<1> PICK n \in Nat : n = Len(queue)
  BY <1>1
<1>2. /\ event' = queue[1] /\ 1 <= n
      /\ Len(queue') = n - 1 /\ \A i \in 1 .. n - 1 : queue'[i] = queue[i + 1]
  BY <1>1
<1>3. Single' /\ Fresh' /\ D!Safe' /\ (stopped => phase = "stopped")'
  BY <1>1 DEF FollowInv, Single, Fresh, D!Safe
<1>4. /\ last.timer \in Timers \cup {0}
      /\ \A g \in Timers : /\ timers'[g].pc = timers[g].pc
                           /\ timers[g].pc # "none" => timers'[g].it = timers[g].it
                           /\ timers[g].pc # "wait" => timers'[g] = timers[g]
                           /\ timers[g].pc = "wait" => (timers'[g].closed <=> timers[g].closed \/ g = last.timer)
  BY <1>1, CloseTypes DEF TypeInv, TypeOK
<1> SUFFICES ASSUME ~overlap, ~Firing PROVE Live' /\ \A p \in Path : (Excused(p) \/ Follows(p))'
  BY <1>1, <1>3 DEF FollowInv
<1>5. Live /\ \A p \in Path : Excused(p) \/ Follows(p)
  BY <1>1 DEF FollowInv
<1>6. \A g \in Timers : timers[g].pc \notin {"fire", "send"} /\ timers'[g].pc \notin {"fire", "send"}
  BY <1>4 DEF Firing
<1>7. Live'
  BY <1>1, <1>4, <1>5, <1>6 DEF Live
<1>8. ASSUME NEW p \in Path, ~Excused(p)' PROVE Follows(p)'
  <2>1. Follows(p)
    BY <1>1, <1>5, <1>8 DEF Excused, Misjoined
  <2>2. HeldBack(p)'
    BY <1>1, <2>1 DEF Follows, HeldBack
  <2>3. ASSUME NEW i \in 1 .. n - 1, LastOf(queue', i) PROVE LastOf(queue, i + 1)
    <3> SUFFICES ASSUME NEW j \in i + 2 .. n PROVE queue[j].it.path # queue[i + 1].it.path
      BY DEF LastOf
    <3>1. j - 1 \in i + 1 .. n - 1 /\ j - 1 \in 1 .. n - 1 /\ (j - 1) + 1 = j
      OBVIOUS
    <3>2. queue'[j - 1] = queue[j] /\ queue'[i] = queue[i + 1]
      BY <1>2, <3>1
    <3> QED
      BY <1>2, <2>3, <3>1, <3>2 DEF LastOf
  <2>4. QueueTells(p)'
    <3> SUFFICES ASSUME NEW i \in 1 .. n - 1, queue'[i].it.path = p, LastOf(queue', i)
                 PROVE  Clear(queue'[i]) /\ At(fs, p) = Says(queue'[i])
      BY <1>1, <1>2 DEF QueueTells
    <3>1. i + 1 \in 1 .. n /\ queue'[i] = queue[i + 1] /\ LastOf(queue, i + 1)
      BY <1>2, <2>3
    <3> QED
      BY <2>1, <3>1 DEF Follows, QueueTells
  <2>5. ASSUME ~InQueue(p)', event'.it.path = p
        PROVE  Clear(event') /\ At(fs, p) = Says(event')
    <3>1. LastOf(queue, 1)
      <4> SUFFICES ASSUME NEW j \in 2 .. n PROVE queue[j].it.path # p
        BY <1>2, <2>5 DEF LastOf
      <4>1. j - 1 \in 1 .. n - 1 /\ (j - 1) + 1 = j
        OBVIOUS
      <4>2. queue'[j - 1] = queue[j]
        BY <1>2, <4>1
      <4> QED
        BY <1>2, <2>5, <4>1, <4>2 DEF InQueue
    <3> QED
      BY <1>2, <2>1, <2>5, <3>1 DEF Follows, QueueTells
  <2>6. ASSUME ~InQueue(p)', event'.it.path # p PROVE ~InQueue(p)
    <3> SUFFICES ASSUME NEW j \in 1 .. n, queue[j].it.path = p PROVE FALSE
      BY DEF InQueue
    <3>1. CASE j = 1
      BY <1>2, <2>6, <3>1
    <3>2. CASE j # 1
      <4>1. j - 1 \in 1 .. n - 1 /\ (j - 1) + 1 = j
        BY <3>2
      <4>2. queue'[j - 1] = queue[j]
        BY <1>2, <4>1
      <4> QED
        BY <1>2, <2>6, <4>1, <4>2 DEF InQueue
    <3> QED
      BY <3>1, <3>2
  <2>7. InHand(p)' <=> event'.it.path = p
    BY <1>1 DEF InHand
  <2>8. CASE InQueue(p)'
    BY <2>2, <2>4, <2>8 DEF Follows
  <2>9. CASE ~InQueue(p)' /\ event'.it.path = p
    BY <1>1, <2>2, <2>4, <2>5, <2>7, <2>9 DEF Follows, HandTells, MindTells, SendTells, IndexTells
  <2>10. CASE ~InQueue(p)' /\ event'.it.path # p
    <3>1. ~InQueue(p) /\ ~InHand(p)
      BY <1>1, <2>6, <2>10 DEF InHand
    <3>2. ~InSend(p)
      BY <1>6 DEF InSend
    <3>3. InMind(p)' <=> InMind(p)
      BY <1>1 DEF InMind
    <3>4. MindTells(p)' /\ HandTells(p)' /\ SendTells(p)'
      BY <1>1, <1>6, <2>1, <2>7, <2>10, <3>1, <3>3 DEF Follows, MindTells, HandTells, SendTells
    <3>5. IndexTells(p)'
      BY <1>1, <2>1, <3>1, <3>2, <3>3 DEF Follows, IndexTells
    <3> QED
      BY <2>2, <2>4, <3>4, <3>5 DEF Follows
  <2> QED
    BY <2>8, <2>9, <2>10
<1> QED
  BY <1>7, <1>8

\* While the callback is at work no goroutine has fired
LEMMA AtWork ==
  ASSUME TypeInv, FollowInv, cb # "idle", ~overlap, phase # "stopped"
  PROVE  /\ event \in Event /\ event.it \in Items /\ event.it.path \in Path /\ event.id \in Nat
         /\ phase \notin {"walk", "create"} /\ ~stopped /\ D!Safe /\ Live
         /\ \A g \in Timers : timers[g].pc \in {"none", "wait"} /\ (timers[g].pc = "wait" => timers[g].closed)
         /\ \A p \in Path : ~InSend(p) /\ (Excused(p) \/ Follows(p))
<1>1. event \in Event /\ event.it \in Items /\ event.id \in Nat
  BY DEF TypeInv, TypeOK, Event
<1>2. Live /\ D!Safe /\ ~stopped /\ phase \notin {"walk", "create"} /\ \A p \in Path : Excused(p) \/ Follows(p)
  BY DEF FollowInv, Fresh
<1>3. ASSUME NEW g \in Timers
      PROVE  timers[g].pc \in {"none", "wait"} /\ (timers[g].pc = "wait" => timers[g].closed)
  BY <1>2, TimerTypes DEF Live, TypeInv
<1> QED
  BY <1>1, <1>2, <1>3, ItemType DEF InSend

\* An item given up as it is found says what there is
LEMMA GivenTells ==
  ASSUME TypeOK, D!Safe, ~stopped, NEW it \in Items, NEW found \in BOOLEAN, Given(it, found),
         UNCHANGED <<fs, held, owed>>, it.path \notin late',
         At(fs, it.path) = IF found THEN {it} ELSE {}
  PROVE  IF it.path \in owed THEN At(fs, it.path) = {} ELSE At(index', it.path) = At(fs, it.path)
<1>1. CASE found
  <2>1. At(index', it.path) = {it} /\ \A h \in held : ~Covers(h, it.path)
    BY <1>1, GivenAt
  <2> QED
    BY <1>1, <2>1, OwedIsHeld
<1>2. CASE ~found
  BY <1>2, GivenAt
<1> QED
  BY <1>1, <1>2

LEMMA MindFound ==
  ASSUME NEW p, InMind(p), ~InHand(p), MindTells(p)
  PROVE  At(fs, last.it.path) = IF Exists(last.it.path) THEN {last.it} ELSE {}
<1>1. last.it.path = p /\ (Exists(p) <=> At(fs, p) # {})
  BY DEF InMind, Exists, At
<1> QED
  BY <1>1 DEF MindTells

LEMMA GivenHeldBack ==
  ASSUME TypeOK, NEW it \in Items, NEW found \in BOOLEAN, Given(it, found), UNCHANGED <<held, owed>>,
         NEW p, HeldBack(p), p \notin late'
  PROVE  HeldBack(p)'
  BY GivenAt DEF HeldBack

LEMMA IgnoreFollows ==
  ASSUME TypeInv, FollowInv, Ignore
  PROVE  FollowInv'
<1>1. /\ cb = "got" /\ cb' = "idle" /\ event.it.path \in Ignored /\ last'.id = 0
      /\ UNCHANGED <<fs, queue, phase, timers, held, owed, stopped, told, crossed, missed, overlap>>
      /\ last.id # 0 => Given(last.it, Exists(last.it.path))
      /\ last.id = 0 => UNCHANGED <<index, late>>
  <2>1. last.id \in Nat /\ (last.id # 0 <=> last.id > 0)
    BY DEF TypeInv, TypeOK
  <2> QED
    BY <2>1 DEF Ignore, Ignores, Idle, Forget, deleted, passing
<1>2. last.id # 0 => last.it \in Items
  BY DEF TypeInv, TypeOK
<1>3. Single' /\ Fresh' /\ D!Safe' /\ (stopped => phase = "stopped")'
  BY <1>1 DEF FollowInv, Single, Fresh, D!Safe
<1> SUFFICES ASSUME ~overlap, phase # "stopped" PROVE Live' /\ \A p \in Path : (Excused(p) \/ Follows(p))'
  BY <1>1, <1>3 DEF FollowInv
<1>4. Live'
  BY <1>1, AtWork DEF Live
<1>5. ASSUME NEW p \in Path, ~Excused(p)' PROVE Follows(p)'
  <2>1. late \subseteq late' /\ p \notin late'
    BY <1>1, <1>2, <1>5, GivenAt DEF Excused, Exists, TypeInv
  <2>2. Follows(p) /\ ~InSend(p)
    BY <1>1, <1>5, <2>1, ExcusedStays, AtWork
  <2>3. QueueTells(p)' /\ (InQueue(p)' <=> InQueue(p))
    BY <1>1, <2>2 DEF Follows, QueueTells, InQueue
  <2>4. HeldBack(p)'
    <3>1. CASE last.id = 0
      BY <1>1, <2>2, <3>1 DEF Follows, HeldBack
    <3>2. CASE last.id # 0
      BY <1>1, <1>2, <2>1, <2>2, <3>2, GivenHeldBack DEF Follows, TypeInv, Exists
    <3> QED
      BY <3>1, <3>2
  <2>5. HandTells(p)' /\ MindTells(p)' /\ SendTells(p)'
    BY <1>1, AtWork DEF HandTells, MindTells, SendTells, InHand, InMind
  <2>6. ASSUME ~InQueue(p), p \notin Ignored PROVE IF p \in owed THEN At(fs, p) = {} ELSE At(index', p) = At(fs, p)
    <3>1. ~InHand(p) /\ MindTells(p) /\ IndexTells(p)
      BY <1>1, <2>2, <2>6 DEF InHand, Follows
    <3>2. CASE InMind(p)
      <4>1. last.id # 0 /\ last.it.path = p /\ Exists(last.it.path) \in BOOLEAN
        BY <3>2 DEF InMind, Exists
      <4> QED
        BY <1>1, <1>2, <2>1, <3>1, <3>2, <4>1, GivenTells, MindFound, AtWork DEF TypeInv
    <3>3. CASE ~InMind(p)
      <4>1. At(index', p) = At(index, p)
        BY <1>1, <1>2, <3>3, GivenAt DEF InMind, Exists, TypeInv
      <4>2. IF p \in owed THEN At(fs, p) = {} ELSE At(index, p) = At(fs, p)
        BY <1>1, <2>2, <2>6, <3>1, <3>3, AtWork DEF IndexTells
      <4> QED
        BY <4>1, <4>2
    <3> QED
      BY <3>2, <3>3
  <2> QED
    BY <1>1, <2>3, <2>4, <2>5, <2>6 DEF Follows, IndexTells
<1> QED
  BY <1>4, <1>5

LEMMA FlushFollows ==
  ASSUME TypeInv, FollowInv, Flush
  PROVE  FollowInv'
<1>1. /\ cb = "got" /\ cb' = "rest" /\ event' = event /\ last'.id = 0 /\ last.id # 0
      /\ UNCHANGED <<fs, queue, phase, timers, held, owed, stopped, told, crossed, missed, overlap>>
      /\ Given(last.it, Exists(last.it.path))
  BY DEF Flush, Forget, deleted, passing, TypeInv, TypeOK
<1>2. last.it \in Items
  BY <1>1 DEF TypeInv, TypeOK
<1>3. Single' /\ Fresh' /\ D!Safe' /\ (stopped => phase = "stopped")'
  BY <1>1 DEF FollowInv, Single, Fresh, D!Safe
<1> SUFFICES ASSUME ~overlap, phase # "stopped" PROVE Live' /\ \A p \in Path : (Excused(p) \/ Follows(p))'
  BY <1>1, <1>3 DEF FollowInv
<1>4. Live'
  BY <1>1, AtWork DEF Live
<1>5. ASSUME NEW p \in Path, ~Excused(p)' PROVE Follows(p)'
  <2>1. late \subseteq late' /\ p \notin late'
    BY <1>1, <1>2, <1>5, GivenAt DEF Excused, Exists, TypeInv
  <2>2. Follows(p) /\ ~InSend(p)
    BY <1>1, <1>5, <2>1, ExcusedStays, AtWork
  <2>3. QueueTells(p)' /\ (InQueue(p)' <=> InQueue(p))
    BY <1>1, <2>2 DEF Follows, QueueTells, InQueue
  <2>4. HeldBack(p)'
    BY <1>1, <1>2, <2>1, <2>2, GivenHeldBack DEF Follows, TypeInv, Exists
  <2>5. InHand(p)' <=> InHand(p)
    BY <1>1 DEF InHand
  <2>6. MindTells(p)' /\ SendTells(p)'
    BY <1>1, AtWork DEF MindTells, SendTells, InMind
  <2>7. ~InQueue(p) => HandTells(p)'
    BY <1>1, <2>2 DEF Follows, HandTells, InHand
  <2>8. ASSUME ~InQueue(p), ~InHand(p), p \notin Ignored
        PROVE  IF p \in owed THEN At(fs, p) = {} ELSE At(index', p) = At(fs, p)
    <3>1. MindTells(p) /\ IndexTells(p)
      BY <2>2, <2>8 DEF Follows
    <3>2. CASE InMind(p)
      <4>1. last.it.path = p /\ Exists(last.it.path) \in BOOLEAN
        BY <3>2 DEF InMind, Exists
      <4> QED
        BY <1>1, <1>2, <2>1, <2>8, <3>1, <3>2, <4>1, GivenTells, MindFound, AtWork DEF TypeInv
    <3>3. CASE ~InMind(p)
      <4>1. At(index', p) = At(index, p)
        BY <1>1, <1>2, <3>3, GivenAt DEF InMind, Exists, TypeInv
      <4>2. IF p \in owed THEN At(fs, p) = {} ELSE At(index, p) = At(fs, p)
        BY <1>1, <2>2, <2>8, <3>1, <3>3, AtWork DEF IndexTells
      <4> QED
        BY <4>1, <4>2
    <3> QED
      BY <3>2, <3>3
  <2> QED
    BY <1>1, <2>3, <2>4, <2>5, <2>6, <2>7, <2>8 DEF Follows, IndexTells
<1> QED
  BY <1>4, <1>5

\* Two halves that were taken for one rename though they are not are excused
LEMMA PairFollows ==
  ASSUME IInv, TypeInv, FollowInv, Pair
  PROVE  FollowInv'
<1>1. /\ cb = "got" /\ cb' = "idle" /\ last'.id = 0 /\ last.id + 1 = event.id /\ "renamed" \in event.flags
      /\ UNCHANGED <<fs, queue, phase, timers, held, owed, stopped, crossed, missed, overlap>>
      /\ index' = (index \ (At(index, last.it.path) \cup At(index, event.it.path))) \cup {event.it}
      /\ late' = late \cup {p \in {event.it.path} : \E h \in held : Covers(h, p)}
      /\ told' = told \cup {<<last.it, event.it>>}
  BY DEF Pair, Pairs, Has, Renamed, Idle, Forget, deleted, passing, TypeInv, TypeOK
<1>2. event \in Event /\ event.id \in Nat /\ event.it \in Items /\ last.id \in Nat
  BY <1>1 DEF TypeInv, TypeOK, Event
<1>3. last.id # 0 /\ last.it \in Items
  BY <1>1, <1>2 DEF IInv, Numbered, Half, TypeInv, TypeOK
<1>4. last.id % 2 # 0 => <<last.it, event.it>> \in crossed
  <2>1. Half(last.id, last.it) /\ Half(last.id + 1, event.it)
    BY <1>1, <1>3 DEF Half
  <2> QED
    BY <1>2, <1>3, <2>1 DEF IInv, Joined
<1>5. Single' /\ Fresh' /\ D!Safe' /\ (stopped => phase = "stopped")'
  BY <1>1 DEF FollowInv, Single, Fresh, D!Safe
<1> SUFFICES ASSUME ~overlap, phase # "stopped" PROVE Live' /\ \A p \in Path : (Excused(p) \/ Follows(p))'
  BY <1>1, <1>5 DEF FollowInv
<1>6. Live'
  BY <1>1, AtWork DEF Live
<1>7. ASSUME NEW p \in Path, ~Excused(p)' PROVE Follows(p)'
  <2>1. p \notin late' /\ ~Excused(p)
    <3>1. late \subseteq late' /\ told \subseteq told'
      BY <1>1
    <3> QED
      BY <1>1, <1>7, <3>1, ExcusedStays DEF Excused
  <2>2. Follows(p) /\ ~InSend(p)
    BY <1>1, <2>1, AtWork
  <2>3. QueueTells(p)' /\ (InQueue(p)' <=> InQueue(p))
    BY <1>1, <2>2 DEF Follows, QueueTells, InQueue
  <2>4. p = event.it.path => \A h \in held : ~Covers(h, p)
    BY <1>1, <2>1
  <2>5. At(index', p) = IF p = event.it.path THEN {event.it} ELSE IF p = last.it.path THEN {} ELSE At(index, p)
    BY <1>1 DEF At
  <2>6. HeldBack(p)'
    BY <1>1, <2>2, <2>4, <2>5 DEF Follows, HeldBack
  <2>7. HandTells(p)' /\ MindTells(p)' /\ SendTells(p)'
    BY <1>1, AtWork DEF HandTells, MindTells, SendTells, InHand, InMind
  <2>8. p \in {last.it.path, event.it.path} => last.id % 2 = 0
    <3> SUFFICES ASSUME p \in {last.it.path, event.it.path}, last.id % 2 # 0 PROVE p \in Misjoined'
      BY <1>7 DEF Excused
    <3>1. <<last.it, event.it>> \in told' \cap crossed'
      BY <1>1, <1>4
    <3>2. {last.it, event.it} \in {{pr[1], pr[2]} : pr \in told' \cap crossed'}
      <4>1. <<last.it, event.it>>[1] = last.it /\ <<last.it, event.it>>[2] = event.it
        OBVIOUS
      <4> QED
        BY <3>1, <4>1
    <3>3. {last.it, event.it} \subseteq UNION {{pr[1], pr[2]} : pr \in told' \cap crossed'}
      BY <3>2
    <3> QED
      BY <3>3 DEF Misjoined
  <2>9. ASSUME ~InQueue(p), p \notin Ignored PROVE IF p \in owed THEN At(fs, p) = {} ELSE At(index', p) = At(fs, p)
    <3>1. HandTells(p) /\ MindTells(p) /\ IndexTells(p)
      BY <2>2, <2>9 DEF Follows
    <3>2. CASE p = event.it.path
      <4>1. event.id % 2 # 0
        BY <1>1, <1>2, <2>8, <3>2
      <4>2. At(fs, p) = {event.it}
        BY <1>1, <3>1, <3>2, <4>1 DEF HandTells, InHand, Says, Clear
      <4>3. p \notin owed
        BY <1>1, <2>4, <3>2, OwedIsHeld, AtWork
      <4> QED
        BY <2>5, <3>2, <4>2, <4>3
    <3>3. CASE p # event.it.path /\ p = last.it.path
      <4>1. At(fs, p) = {}
        BY <1>3, <2>8, <3>1, <3>3 DEF MindTells, InMind, InHand
      <4> QED
        BY <2>5, <3>3, <4>1
    <3>4. CASE p # event.it.path /\ p # last.it.path
      BY <1>1, <2>2, <2>5, <2>9, <3>1, <3>4, AtWork DEF IndexTells, InHand, InMind
    <3> QED
      BY <3>2, <3>3, <3>4
  <2> QED
    BY <1>1, <2>3, <2>6, <2>7, <2>9 DEF Follows, IndexTells
<1> QED
  BY <1>6, <1>7

LEMMA RemoveFollows ==
  ASSUME TypeInv, FollowInv, Remove
  PROVE  FollowInv'
<1>1. /\ cb # "idle" /\ cb' = "idle" /\ "removed" \in event.flags /\ (cb = "got" => last.id = 0)
      /\ UNCHANGED <<fs, queue, phase, last, timers, stopped, index, told, crossed, missed, late, overlap>>
      /\ ~stopped /\ held' = held \cup {event.it} /\ owed' = owed \cup {event.it.path}
  BY DEF Remove, Rest, Has, Idle, history, passing, D!Delete
<1>2. event.it \in Items /\ cb \in {"got", "rest"}
  BY <1>1 DEF TypeInv, TypeOK, Event
<1>3. Single' /\ Fresh' /\ D!Safe' /\ (stopped => phase = "stopped")'
  <2>1. D!Covers(event.it, event.it.path)
    BY SameCovers DEF Covers
  <2> QED
    BY <1>1, <2>1 DEF FollowInv, Single, Fresh, D!Safe
<1> SUFFICES ASSUME ~overlap, phase # "stopped" PROVE Live' /\ \A p \in Path : (Excused(p) \/ Follows(p))'
  BY <1>1, <1>3 DEF FollowInv
<1>4. last.id = 0
  BY <1>1, <1>2, AtWork DEF Live
<1>5. Live'
  BY <1>1, <1>4, AtWork DEF Live
<1>6. ASSUME NEW p \in Path, ~Excused(p)' PROVE Follows(p)'
  <2>1. Follows(p) /\ ~InSend(p)
    BY <1>1, <1>6, AtWork DEF Excused, Misjoined
  <2>2. QueueTells(p)' /\ (InQueue(p)' <=> InQueue(p))
    BY <1>1, <2>1 DEF Follows, QueueTells, InQueue
  <2>3. HeldBack(p)'
    <3> SUFFICES ASSUME p \notin owed', NEW h \in held', Covers(h, p) PROVE At(index, p) = {}
      BY <1>1 DEF HeldBack
    <3>1. CASE h \in held
      BY <1>1, <2>1, <3>1 DEF Follows, HeldBack
    <3>2. CASE h = event.it
      <4> SUFFICES ASSUME NEW x \in index, x.path = p PROVE FALSE
        BY DEF At
      <4> QED
        BY <1>1, <1>2, <3>2, CoversItself DEF TypeInv, TypeOK
    <3> QED
      BY <1>1, <3>1, <3>2
  <2>4. HandTells(p)' /\ MindTells(p)' /\ SendTells(p)'
    BY <1>1, <1>4, AtWork DEF HandTells, MindTells, SendTells, InHand, InMind
  <2>5. ASSUME ~InQueue(p), p \notin Ignored PROVE IF p \in owed' THEN At(fs, p) = {} ELSE At(index, p) = At(fs, p)
    <3>1. HandTells(p) /\ IndexTells(p)
      BY <2>1, <2>5 DEF Follows
    <3>2. CASE p = event.it.path
      BY <1>1, <3>1, <3>2 DEF HandTells, InHand, Says
    <3>3. CASE p # event.it.path
      BY <1>1, <1>4, <2>1, <2>5, <3>1, <3>3, AtWork DEF IndexTells, InHand, InMind
    <3> QED
      BY <3>2, <3>3
  <2> QED
    BY <1>1, <2>2, <2>3, <2>4, <2>5 DEF Follows, IndexTells
<1> QED
  BY <1>5, <1>6

LEMMA RememberFollows ==
  ASSUME IInv, TypeInv, FollowInv, Remember
  PROVE  FollowInv'
<1>1. /\ cb # "idle" /\ cb' = "idle" /\ "removed" \notin event.flags /\ "renamed" \in event.flags
      /\ cb = "got" => last.id = 0
      /\ UNCHANGED <<fs, queue, phase, held, owed, stopped, index, told, crossed, missed, late, overlap>>
  BY DEF Remember, Rest, Has, Idle, deleted, history, passing
<1>2. event.it \in Items /\ event.id \in Nat \ {0} /\ cb \in {"got", "rest"}
  BY <1>1 DEF TypeInv, TypeOK, Event, IInv, Numbered, Half
<1>3. PICK g \in Timers :
         /\ timers[g] = NoTimer /\ last' = [id |-> event.id, it |-> event.it, timer |-> g]
         /\ timers' = [timers EXCEPT ![g] = [pc |-> "wait", it |-> event.it, closed |-> FALSE,
                                             listens |-> phase = "run"]]
  BY RememberTypes
<1>4. /\ timers'[g].pc = "wait" /\ timers'[g].closed = FALSE /\ timers'[g].it = event.it
      /\ \A h \in Timers : h # g => timers'[h] = timers[h]
      /\ last'.id = event.id /\ last'.it = event.it /\ last'.timer = g
  BY <1>3 DEF TypeInv, TypeOK
<1>5. Single' /\ D!Safe' /\ (stopped => phase = "stopped")' /\ (Fresh => Fresh')
  BY <1>1 DEF FollowInv, Single, Fresh, D!Safe
<1> SUFFICES ASSUME ~overlap, phase # "stopped" PROVE Live' /\ \A p \in Path : (Excused(p) \/ Follows(p))'
  BY <1>1, <1>5 DEF FollowInv
<1>6. last.id = 0
  BY <1>1, <1>2, AtWork DEF Live
<1>7. \A h \in Timers : h # g => timers'[h].pc \in {"none", "wait"} /\ (timers'[h].pc = "wait" => timers'[h].closed)
  BY <1>1, <1>4, AtWork
<1>8. Live'
  BY <1>1, <1>2, <1>4, <1>7 DEF Live
<1>9. ASSUME NEW p \in Path, ~Excused(p)' PROVE Follows(p)'
  <2>1. Follows(p) /\ ~InSend(p)
    BY <1>1, <1>9, AtWork DEF Excused, Misjoined
  <2>2. QueueTells(p)' /\ (InQueue(p)' <=> InQueue(p)) /\ HeldBack(p)'
    BY <1>1, <2>1 DEF Follows, QueueTells, InQueue, HeldBack
  <2>3. HandTells(p)' /\ SendTells(p)'
    BY <1>1, <1>4, <1>7 DEF HandTells, SendTells, InHand
  <2>4. InMind(p)' <=> p = event.it.path
    BY <1>2, <1>4 DEF InMind
  <2>5. ASSUME ~InQueue(p) PROVE MindTells(p)' /\ IndexTells(p)'
    <3>1. HandTells(p) /\ IndexTells(p)
      BY <2>1, <2>5 DEF Follows
    <3>2. CASE p = event.it.path
      <4>1. At(fs, p) = Says(event)
        BY <1>1, <3>1, <3>2 DEF HandTells, InHand
      <4>2. MindTells(p)'
        BY <1>1, <1>4, <4>1 DEF MindTells, Says, At
      <4> QED
        BY <2>4, <3>2, <4>2 DEF IndexTells
    <3>3. CASE p # event.it.path
      <4>1. p \notin Ignored => IF p \in owed THEN At(fs, p) = {} ELSE At(index, p) = At(fs, p)
        BY <1>1, <1>6, <2>1, <3>1, <3>3, AtWork DEF IndexTells, InHand, InMind
      <4> QED
        BY <1>1, <2>4, <3>3, <4>1 DEF MindTells, IndexTells
    <3> QED
      BY <3>2, <3>3
  <2> QED
    BY <2>2, <2>3, <2>5 DEF Follows
<1> QED
  BY <1>8, <1>9

LEMMA IndexFollowsEvent ==
  ASSUME TypeInv, FollowInv, IndexItem
  PROVE  FollowInv'
<1>1. /\ cb # "idle" /\ cb' = "idle" /\ "removed" \notin event.flags /\ "renamed" \notin event.flags
      /\ cb = "got" => last.id = 0
      /\ UNCHANGED <<fs, queue, phase, last, timers, held, owed, stopped, told, crossed, missed, overlap>>
      /\ IF "created" \in event.flags /\ ~event.it.isDir /\ "modified" \notin event.flags
         THEN UNCHANGED <<index, late>> ELSE Indexed(event.it)
  BY DEF IndexItem, Rest, Has, Idle, deleted, passing
<1>2. event.it \in Items /\ cb \in {"got", "rest"}
  BY <1>1 DEF TypeInv, TypeOK, Event
<1>3. Single' /\ Fresh' /\ D!Safe' /\ (stopped => phase = "stopped")'
  BY <1>1 DEF FollowInv, Single, Fresh, D!Safe
<1> SUFFICES ASSUME ~overlap, phase # "stopped" PROVE Live' /\ \A p \in Path : (Excused(p) \/ Follows(p))'
  BY <1>1, <1>3 DEF FollowInv
<1>4. last.id = 0
  BY <1>1, <1>2, AtWork DEF Live
<1>5. Live'
  BY <1>1, <1>4, AtWork DEF Live
<1>6. ASSUME NEW p \in Path, ~Excused(p)' PROVE Follows(p)'
  <2>1. late \subseteq late' /\ p \notin late'
    BY <1>1, <1>6 DEF Indexed, Excused
  <2>2. Follows(p) /\ ~InSend(p)
    BY <1>1, <1>6, <2>1, ExcusedStays, AtWork
  <2>3. QueueTells(p)' /\ (InQueue(p)' <=> InQueue(p))
    BY <1>1, <2>2 DEF Follows, QueueTells, InQueue
  <2>4. p # event.it.path => At(index', p) = At(index, p)
    BY <1>1, <1>2, IndexedAt
  <2>5. HeldBack(p)'
    BY <1>1, <1>2, <2>1, <2>2, IndexedAt DEF Follows, HeldBack
  <2>6. HandTells(p)' /\ MindTells(p)' /\ SendTells(p)'
    BY <1>1, <1>4, AtWork DEF HandTells, MindTells, SendTells, InHand, InMind
  <2>7. ASSUME ~InQueue(p), p \notin Ignored PROVE IF p \in owed THEN At(fs, p) = {} ELSE At(index', p) = At(fs, p)
    <3>1. HandTells(p) /\ IndexTells(p)
      BY <2>2, <2>7 DEF Follows
    <3>2. CASE p = event.it.path
      <4>1. At(fs, p) = {event.it} /\ Indexed(event.it)
        BY <1>1, <3>1, <3>2 DEF HandTells, InHand, Says, Clear
      <4>2. At(index', p) = {event.it} /\ \A h \in held : ~Covers(h, p)
        BY <1>2, <2>1, <3>2, <4>1, IndexedAt
      <4> QED
        BY <1>1, <4>1, <4>2, OwedIsHeld, AtWork
    <3>3. CASE p # event.it.path
      BY <1>1, <1>4, <2>2, <2>4, <2>7, <3>1, <3>3, AtWork DEF IndexTells, InHand, InMind
    <3> QED
      BY <3>2, <3>3
  <2> QED
    BY <1>1, <2>3, <2>5, <2>6, <2>7 DEF Follows, IndexTells
<1> QED
  BY <1>5, <1>6

\* A goroutine that goes, or fires, tells nothing new
LEMMA WaitFollows ==
  ASSUME TypeInv, FollowInv, NEW g \in Timers, TimerQuits(g) \/ TimerFires(g)
  PROVE  FollowInv'
<1>1. /\ timers[g].pc = "wait" /\ timers[g].closed \in BOOLEAN
      /\ UNCHANGED <<fs, queue, phase, last, cb, event, held, owed, stopped, index, told, crossed, missed, late>>
      /\ overlap => overlap'
  BY TimerTypes DEF TimerQuits, TimerFires, history, passing, deleted, TypeInv, TypeOK
<1>2. \/ timers' = [timers EXCEPT ![g] = NoTimer] /\ (timers[g].closed \/ phase = "stopped")
      \/ timers' = [timers EXCEPT ![g] = [pc |-> "fire", it |-> timers[g].it]]
         /\ (~overlap' => cb = "idle" /\ ~timers[g].closed)
  BY DEF TimerQuits, TimerFires
<1>3. /\ \A h \in Timers : h # g => timers'[h] = timers[h]
      /\ timers'[g].pc \in {"none", "fire"} /\ (timers'[g].pc = "fire" => timers'[g].it = timers[g].it)
      /\ timers'[g].pc = "none" => timers[g].closed \/ phase = "stopped"
      /\ timers'[g].pc = "fire" /\ ~overlap' => ~timers[g].closed
  BY <1>2 DEF TypeInv, TypeOK, NoTimer
<1>4. Single' /\ D!Safe' /\ (stopped => phase = "stopped")'
  BY <1>1 DEF FollowInv, Single, D!Safe
<1>5. Fresh'
  BY <1>1 DEF FollowInv, Fresh, NoTimer
<1> SUFFICES ASSUME ~overlap', phase # "stopped" PROVE Live' /\ \A p \in Path : (Excused(p) \/ Follows(p))'
  BY <1>1, <1>4, <1>5 DEF FollowInv
<1>6. ~overlap /\ Live /\ \A p \in Path : Excused(p) \/ Follows(p)
  BY <1>1 DEF FollowInv
<1>7. Live'
  BY <1>1, <1>3, <1>6 DEF Live
<1>8. ASSUME NEW h \in Timers, timers[h].pc = "send" \/ timers'[h].pc = "send" PROVE timers'[h] = timers[h]
  BY <1>1, <1>3, <1>8
<1>9. ASSUME NEW p \in Path, ~Excused(p)' PROVE Follows(p)'
  <2>1. Follows(p)
    BY <1>1, <1>6, <1>9 DEF Excused, Misjoined
  <2>2. (InSend(p)' <=> InSend(p)) /\ (SendTells(p) => SendTells(p)')
    BY <1>1, <1>8 DEF InSend, SendTells, InHand, InMind
  <2> QED
    BY <1>1, <2>1, <2>2 DEF Follows, QueueTells, InQueue, HeldBack, HandTells, MindTells, IndexTells, InHand, InMind
<1> QED
  BY <1>7, <1>9

\* It finds what is remembered as it is, and clears it
LEMMA HandlesFollows ==
  ASSUME TypeInv, FollowInv, NEW g \in Timers, TimerHandles(g)
  PROVE  FollowInv'
<1>1. /\ timers[g].pc = "fire" /\ last'.id = 0 /\ last'.timer = last.timer
      /\ timers' = [timers EXCEPT ![g] = [pc |-> "send", it |-> timers[g].it, found |-> Exists(timers[g].it.path)]]
      /\ UNCHANGED <<fs, queue, phase, cb, event, held, owed, stopped, index, told, crossed, missed, late, overlap>>
  BY DEF TimerHandles, Forget, history, passing, deleted
<1>2. /\ \A h \in Timers : h # g => timers'[h] = timers[h]
      /\ timers'[g].pc = "send" /\ timers'[g].it = timers[g].it /\ timers'[g].found = Exists(timers[g].it.path)
  BY <1>1 DEF TypeInv, TypeOK
<1>3. Single' /\ D!Safe' /\ (stopped => phase = "stopped")'
  BY <1>1 DEF FollowInv, Single, D!Safe
<1>4. Fresh'
  BY <1>1 DEF FollowInv, Fresh, NoTimer
<1> SUFFICES ASSUME ~overlap, phase # "stopped" PROVE Live' /\ \A p \in Path : (Excused(p) \/ Follows(p))'
  BY <1>1, <1>3, <1>4 DEF FollowInv
<1>5. Live /\ \A p \in Path : Excused(p) \/ Follows(p)
  BY DEF FollowInv
<1>6. cb = "idle" /\ g = last.timer /\ last.id # 0 /\ last.it = timers[g].it
  BY <1>1, <1>5 DEF Live
<1>7. \A h \in Timers : h # g => timers[h].pc \in {"none", "wait"} /\ (timers[h].pc = "wait" => timers[h].closed)
  BY <1>5, <1>6, TimerTypes DEF Live, TypeInv
<1>8. Live'
  BY <1>1, <1>2, <1>6, <1>7 DEF Live
<1>9. ASSUME NEW p \in Path, ~Excused(p)' PROVE Follows(p)'
  <2>1. Follows(p)
    BY <1>1, <1>5, <1>9 DEF Excused, Misjoined
  <2>2. ~InHand(p) /\ ~InHand(p)' /\ ~InMind(p)'
    BY <1>1, <1>6 DEF InHand, InMind
  <2>3. InSend(p)' <=> p = last.it.path
    BY <1>2, <1>6, <1>7 DEF InSend
  <2>4. ~InSend(p)
    BY <1>1, <1>7 DEF InSend
  <2>5. ASSUME ~InQueue(p) PROVE SendTells(p)' /\ IndexTells(p)'
    <3>1. MindTells(p) /\ IndexTells(p)
      BY <2>1, <2>5 DEF Follows
    <3>2. CASE p = last.it.path
      <4>1. At(fs, p) = IF Exists(p) THEN {last.it} ELSE {}
        BY <1>6, <2>2, <3>1, <3>2, MindFound DEF InMind
      <4>2. \A h \in Timers : timers'[h].pc = "send" => h = g
        BY <1>2, <1>7
      <4>3. At(fs, p)' = At(fs, p) /\ timers'[g].it = last.it /\ timers'[g].found = Exists(p)
        BY <1>1, <1>2, <1>6, <3>2 DEF At
      <4>4. SendTells(p)'
        BY <4>1, <4>2, <4>3 DEF SendTells
      <4> QED
        BY <2>3, <3>2, <4>4 DEF IndexTells
    <3>3. CASE p # last.it.path
      <4>1. SendTells(p)'
        BY <1>2, <1>6, <1>7, <3>3 DEF SendTells
      <4>2. IndexTells(p)'
        BY <1>1, <2>2, <2>4, <3>1, <3>3 DEF IndexTells, InMind
      <4> QED
        BY <4>1, <4>2
    <3> QED
      BY <3>2, <3>3
  <2> QED
    BY <1>1, <2>1, <2>2, <2>5 DEF Follows, QueueTells, InQueue, HeldBack, HandTells, MindTells
<1> QED
  BY <1>8, <1>9

LEMMA SendsFollows ==
  ASSUME TypeInv, FollowInv, NEW g \in Timers, TimerSends(g)
  PROVE  FollowInv'
<1>1. /\ timers[g].pc = "send" /\ timers' = [timers EXCEPT ![g] = NoTimer]
      /\ Given(timers[g].it, timers[g].found)
      /\ UNCHANGED <<fs, queue, phase, last, cb, event, held, owed, stopped, told, crossed, missed, overlap>>
  BY DEF TimerSends, passing, deleted
<1>2. timers[g].it \in Items /\ timers[g].found \in BOOLEAN
  BY <1>1, TimerTypes DEF TypeInv
<1>3. timers'[g].pc = "none" /\ \A h \in Timers : h # g => timers'[h] = timers[h]
  BY <1>1 DEF TypeInv, TypeOK, NoTimer
<1>4. Single' /\ D!Safe' /\ (stopped => phase = "stopped")'
  BY <1>1 DEF FollowInv, Single, D!Safe
<1>5. Fresh'
  BY <1>1 DEF FollowInv, Fresh, NoTimer
<1> SUFFICES ASSUME ~overlap, phase # "stopped" PROVE Live' /\ \A p \in Path : (Excused(p) \/ Follows(p))'
  BY <1>1, <1>4, <1>5 DEF FollowInv
<1>6. Live /\ (\A p \in Path : Excused(p) \/ Follows(p)) /\ ~stopped /\ D!Safe /\ phase # "walk"
  BY <1>1 DEF FollowInv, Fresh, NoTimer
<1>7. cb = "idle" /\ g = last.timer /\ last.id = 0 /\ \A h \in Timers : timers[h].pc = "send" => h = g
  BY <1>1, <1>6 DEF Live
<1>8. Live'
  BY <1>1, <1>3, <1>6, <1>7 DEF Live
<1>9. ASSUME NEW p \in Path, ~Excused(p)' PROVE Follows(p)'
  <2>1. late \subseteq late' /\ p \notin late'
    BY <1>1, <1>2, <1>9, GivenAt DEF Excused, TypeInv
  <2>2. Follows(p)
    BY <1>1, <1>6, <1>9, <2>1, ExcusedStays
  <2>3. QueueTells(p)' /\ (InQueue(p)' <=> InQueue(p))
    BY <1>1, <2>2 DEF Follows, QueueTells, InQueue
  <2>4. HeldBack(p)'
    BY <1>1, <1>2, <2>1, <2>2, GivenHeldBack DEF Follows, TypeInv
  <2>5. HandTells(p)' /\ MindTells(p)' /\ SendTells(p)'
    BY <1>1, <1>3, <1>7 DEF HandTells, MindTells, SendTells, InHand, InMind
  <2>6. ASSUME ~InQueue(p), p \notin Ignored PROVE IF p \in owed THEN At(fs, p) = {} ELSE At(index', p) = At(fs, p)
    <3>1. SendTells(p) /\ IndexTells(p) /\ ~InHand(p) /\ ~InMind(p)
      BY <1>7, <2>2, <2>6 DEF Follows, InHand, InMind
    <3>2. CASE p = timers[g].it.path
      <4>1. At(fs, p) = IF timers[g].found THEN {timers[g].it} ELSE {}
        BY <1>1, <3>1, <3>2 DEF SendTells
      <4> QED
        BY <1>1, <1>2, <1>6, <2>1, <3>2, <4>1, GivenTells DEF TypeInv
    <3>3. CASE p # timers[g].it.path
      <4>1. ~InSend(p)
        BY <1>7, <3>3 DEF InSend
      <4>2. At(index', p) = At(index, p)
        BY <1>1, <1>2, <3>3, GivenAt DEF TypeInv
      <4> QED
        BY <1>6, <2>6, <3>1, <4>1, <4>2 DEF IndexTells
    <3> QED
      BY <3>2, <3>3
  <2> QED
    BY <1>1, <2>3, <2>4, <2>5, <2>6 DEF Follows, IndexTells
<1> QED
  BY <1>8, <1>9

-----------------------------------------------------------------------------
(* Start, stop, and the deletions that are held back *)

LEMMA ReportFollows ==
  ASSUME TypeInv, FollowInv, NEW it \in Items, handleDeleteEvent(it)
  PROVE  FollowInv'
<1>1. /\ it \in held /\ held' \subseteq held /\ owed' = {p \in owed : ~Covers(it, p)} /\ D!Safe' /\ Removed(it)
      /\ UNCHANGED <<fs, queue, phase, last, timers, cb, event, stopped, told, crossed, missed, late, overlap>>
  BY SameCovers DEF handleDeleteEvent, D!Report, Removed, driver, passing
<1>2. Single' /\ Fresh' /\ (stopped => phase = "stopped")'
  BY <1>1 DEF FollowInv, Single, Fresh
<1> SUFFICES ASSUME ~overlap, phase # "stopped" PROVE Live' /\ \A p \in Path : (Excused(p) \/ Follows(p))'
  BY <1>1, <1>2 DEF FollowInv
<1>3. Live'
  BY <1>1 DEF FollowInv, Live
<1>4. ASSUME NEW p \in Path, ~Excused(p)' PROVE Follows(p)'
  <2>1. Follows(p)
    BY <1>1, <1>4 DEF FollowInv, Excused, Misjoined
  <2>2. At(index', p) = IF p = it.path THEN {} ELSE At(index, p)
    BY <1>1, RemovedAt DEF TypeInv
  <2>3. p = it.path => Covers(it, p) /\ p \notin owed'
    BY <1>1 DEF Covers
  <2>4. p \in owed => p \in owed' \/ p = it.path
    BY <1>1, CoversItself DEF TypeInv, TypeOK
  <2>5. HeldBack(p)'
    BY <1>1, <2>1, <2>2, <2>4 DEF Follows, HeldBack
  <2>6. QueueTells(p)' /\ (InQueue(p)' <=> InQueue(p))
        /\ (~InQueue(p) => HandTells(p)' /\ MindTells(p)' /\ SendTells(p)')
    BY <1>1, <2>1 DEF Follows, QueueTells, InQueue, HandTells, MindTells, SendTells, InHand, InMind
  <2>7. ASSUME ~InQueue(p) PROVE IndexTells(p)'
    <3> SUFFICES ASSUME ~InHand(p), ~InMind(p), ~InSend(p), phase # "walk", p \notin Ignored
                 PROVE  IF p \in owed' THEN At(fs, p) = {} ELSE At(index', p) = At(fs, p)
      BY <1>1 DEF IndexTells, InHand, InMind, InSend, At
    <3>1. IF p \in owed THEN At(fs, p) = {} ELSE At(index, p) = At(fs, p)
      BY <2>1, <2>7 DEF Follows, IndexTells
    <3>2. CASE p = it.path
      <4>1. p \notin owed => At(index, p) = {}
        BY <1>1, <2>1, <2>3, <3>2 DEF Follows, HeldBack
      <4> QED
        BY <2>2, <2>3, <3>1, <3>2, <4>1
    <3>3. CASE p # it.path
      BY <1>1, <2>2, <2>4, <3>1, <3>3
    <3> QED
      BY <3>2, <3>3
  <2> QED
    BY <2>5, <2>6, <2>7 DEF Follows
<1> QED
  BY <1>3, <1>4

LEMMA RestFollows ==
  ASSUME TypeInv, FollowInv, StartStream \/ MakeDone \/ StopStream \/ DropHeld \/ UNCHANGED vars
  PROVE  FollowInv'
<1>1. /\ UNCHANGED <<fs, last, timers, cb, event, index, told, crossed, missed, late, overlap>>
      /\ held' \subseteq held /\ (stopped' => phase' = "stopped")
      /\ phase' # "stopped" => queue' = queue /\ owed' = owed /\ phase # "stopped"
      /\ phase' \in {"walk", "create"} => phase' = phase
      /\ phase = "walk" => phase' \in {"walk", "stopped"}
  <2>1. CASE StartStream
    BY <2>1 DEF StartStream, driver, deleted, history, passing, FollowInv
  <2>2. CASE MakeDone
    BY <2>2 DEF MakeDone, driver, deleted, history, passing, FollowInv
  <2>3. CASE StopStream
    BY <2>3 DEF StopStream, D!Stop, driver, history, passing
  <2>4. CASE DropHeld
    BY <2>4 DEF DropHeld, D!Drop, driver, history, passing, FollowInv
  <2>5. CASE UNCHANGED vars
    BY <2>5 DEF vars, driver, deleted, history, passing, FollowInv
  <2> QED
    BY <2>1, <2>2, <2>3, <2>4, <2>5
<1>2. D!Safe'
  <2>1. CASE StopStream
    BY <2>1 DEF StopStream, D!Stop, D!Safe
  <2>2. CASE DropHeld
    BY <2>2 DEF DropHeld, D!Drop
  <2>3. CASE StartStream \/ MakeDone \/ UNCHANGED vars
    BY <2>3 DEF StartStream, MakeDone, vars, deleted, FollowInv, D!Safe
  <2> QED
    BY <2>1, <2>2, <2>3
<1>3. Single' /\ Fresh'
  BY <1>1 DEF FollowInv, Single, Fresh
<1> SUFFICES ASSUME ~overlap, phase' # "stopped" PROVE Live' /\ \A p \in Path : (Excused(p) \/ Follows(p))'
  BY <1>1, <1>2, <1>3 DEF FollowInv
<1>4. Live'
  BY <1>1 DEF FollowInv, Live
<1>5. ASSUME NEW p \in Path, ~Excused(p)' PROVE Follows(p)'
  <2>1. Follows(p)
    BY <1>1, <1>5 DEF FollowInv, Excused, Misjoined
  <2>2. (IndexTells(p) => IndexTells(p)') /\ HeldBack(p)'
    BY <1>1, <2>1 DEF IndexTells, InHand, InMind, InSend, Follows, HeldBack
  <2> QED
    BY <1>1, <2>1, <2>2
    DEF Follows, QueueTells, InQueue, HandTells, MindTells, SendTells, InHand, InMind
<1> QED
  BY <1>4, <1>5

LEMMA WalkFollows ==
  ASSUME TypeInv, FollowInv, Walk
  PROVE  FollowInv'
<1>1. /\ phase = "walk" /\ phase' = "create" /\ index' = {it \in fs : it.path \notin Ignored}
      /\ UNCHANGED <<fs, queue, last, timers, cb, event, held, owed, stopped, told, crossed, missed, late, overlap>>
  BY DEF Walk, driver, deleted, history, passing
<1>2. /\ queue = << >> /\ cb = "idle" /\ last.id = 0 /\ held = {} /\ owed = {}
      /\ \A g \in Timers : timers[g].pc = "none"
  BY <1>1 DEF FollowInv, Fresh, NoTimer
<1>3. Single' /\ Fresh' /\ D!Safe' /\ (stopped => phase = "stopped")'
  BY <1>1 DEF FollowInv, Single, Fresh, D!Safe
<1>4. Live'
  BY <1>1, <1>2 DEF Live
<1>5. ASSUME NEW p \in Path PROVE Follows(p)'
  <2>1. QueueTells(p)' /\ HeldBack(p)' /\ HandTells(p)' /\ MindTells(p)' /\ SendTells(p)'
    BY <1>1, <1>2 DEF QueueTells, HeldBack, HandTells, MindTells, SendTells, InHand, InMind
  <2>2. IndexTells(p)'
    BY <1>1, <1>2 DEF IndexTells, At
  <2> QED
    BY <2>1, <2>2 DEF Follows
<1> QED
  BY <1>1, <1>3, <1>4, <1>5 DEF FollowInv

LEMMA FollowInit == Init => FollowInv
<1> SUFFICES ASSUME Init PROVE FollowInv
  OBVIOUS
<1>1. \A g \in Timers : timers[g] = NoTimer /\ timers[g].pc = "none"
  BY DEF Init, NoTimer
<1>2. /\ queue = << >> /\ cb = "idle" /\ last.id = 0 /\ held = {} /\ owed = {} /\ phase = "walk"
      /\ stopped = FALSE
  BY DEF Init
<1>3. Single /\ Fresh /\ D!Safe
  BY <1>1, <1>2 DEF Init, Single, Fresh, D!Safe
<1>4. Live
  BY <1>1, <1>2 DEF Live
<1>5. \A p \in Path : Follows(p)
  BY <1>1, <1>2 DEF Follows, QueueTells, HeldBack, HandTells, MindTells, SendTells, IndexTells, InHand, InMind
<1> QED
  BY <1>2, <1>3, <1>4, <1>5 DEF FollowInv

LEMMA FollowStep ==
  ASSUME IInv, TypeInv, FollowInv, [Next]_vars
  PROVE  FollowInv'
<1>1. CASE Others
  BY <1>1, NewFollows, DeleteFollows, MoveOutFollows, MoveInFollows, MoveFollows DEF Others
<1>2. CASE Callback
  BY <1>2, TakeFollows, IgnoreFollows, PairFollows, FlushFollows, RemoveFollows, RememberFollows, IndexFollowsEvent
  DEF Callback, handleFsEvent
<1>3. CASE \E g \in Timers : Timer(g)
  BY <1>3, WaitFollows, HandlesFollows, SendsFollows DEF Timer
<1>4. CASE Start \/ StopStream \/ DropHeld \/ (\E it \in Items : handleDeleteEvent(it)) \/ UNCHANGED vars
  BY <1>4, WalkFollows, RestFollows, ReportFollows DEF Start
<1> QED
  BY <1>1, <1>2, <1>3, <1>4 DEF Next

\* Once nothing is under way the index is what there is, however callbacks,
\* goroutines of renames and held deletions have followed each other; except where
\* a change came before the stream, an item came again while its deletion was held
\* back, two halves were taken for one rename, or callback and goroutine overlapped.
THEOREM IndexIsTree == Spec => []IndexFollows
<1>1. IInv /\ TypeInv /\ FollowInv /\ [Next]_vars => (IInv /\ TypeInv /\ FollowInv)'
  BY StepOK, TypeStep, FollowStep
<1>2. IInv /\ TypeInv /\ FollowInv => IndexFollows
  <2> SUFFICES ASSUME TypeInv, FollowInv, Settled, ~overlap, NEW it \in Items,
                      it.path \notin Ignored \cup missed \cup late \cup Misjoined
               PROVE  it \in index <=> it \in fs
    BY DEF IndexFollows
  <2>1. /\ phase = "run" /\ queue = << >> /\ cb = "idle" /\ owed = {}
        /\ \A g \in Timers : timers[g].pc = "none"
    BY DEF Settled, NoTimer
  <2>2. Live /\ Follows(it.path)
    BY <2>1, ItemType DEF FollowInv, Excused
  <2>3. last.id = 0
    BY <2>1, <2>2 DEF Live
  <2>4. IndexTells(it.path) /\ ~InHand(it.path) /\ ~InMind(it.path) /\ ~InSend(it.path)
    BY <2>1, <2>2, <2>3 DEF Follows, InQueue, InHand, InMind, InSend
  <2>5. At(index, it.path) = At(fs, it.path)
    BY <2>1, <2>4 DEF IndexTells
  <2> QED
    BY <2>5 DEF At
<1> QED
  BY InitOK, TypeInit, FollowInit, <1>1, <1>2, PTL DEF Spec
=============================================================================

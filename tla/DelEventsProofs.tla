-------------------------- MODULE DelEventsProofs --------------------------
(***************************************************************************)
(* Theorems about DelEvents, for every set of items and any number of adds *)
(* and restarts.                                                           *)
(***************************************************************************)
EXTENDS DelEvents, TLAPS, SequenceTheorems

-----------------------------------------------------------------------------
(* Paths *)

LEMMA UnderPointwise ==
    ASSUME NEW p \in Path, NEW d \in Path
    PROVE  Under(p, d) <=> /\ Len(p) > Len(d)
                           /\ \A i \in 1 .. Len(d) : p[i] = d[i]
<1>1. CASE ~(Len(p) > Len(d))
  BY <1>1 DEF Under
<1>2. CASE Len(p) > Len(d)
  <2> DEFINE s == SubSeq(p, 1, Len(d))
  <2>1. s \in Seq(Names) /\ Len(s) = Len(d) /\ \A i \in 1 .. Len(d) : s[i] = p[i]
    BY <1>2 DEF Path
  <2>2. s = d <=> \A i \in 1 .. Len(d) : s[i] = d[i]
    BY <2>1, SeqEqual DEF Path
  <2> HIDE DEF s
  <2>3. Under(p, d) <=> s = d
    BY <1>2 DEF Under, s
  <2> QED
    BY <1>2, <2>1, <2>2, <2>3
<1> QED
  BY <1>1, <1>2

LEMMA UnderTransitive ==
    ASSUME NEW a \in Path, NEW b \in Path, NEW c \in Path, Under(a, b), Under(b, c)
    PROVE  Under(a, c)
<1>1. Len(a) > Len(b) /\ \A i \in 1 .. Len(b) : a[i] = b[i]
  BY UnderPointwise
<1>2. Len(b) > Len(c) /\ \A i \in 1 .. Len(c) : b[i] = c[i]
  BY UnderPointwise
<1>3. Len(a) \in Nat /\ Len(b) \in Nat /\ Len(c) \in Nat
  BY DEF Path
<1>4. Len(a) > Len(c) /\ \A i \in 1 .. Len(c) : a[i] = c[i]
  BY <1>1, <1>2, <1>3
<1> QED
  BY <1>4, UnderPointwise

\* What lies in a directory at or below d lies below d
LEMMA ParentUnder ==
    ASSUME NEW x \in Path, x # << >>, NEW d \in Path, Parent(x) = d \/ Under(Parent(x), d)
    PROVE  Under(x, d)
<1>1. Len(x) \in Nat /\ Len(x) # 0
  BY EmptySeq DEF Path
<1> DEFINE n1 == Len(x) - 1
<1>2. n1 \in Nat /\ n1 <= Len(x) /\ n1 + 1 = Len(x)
  BY <1>1
<1> HIDE DEF n1
<1>3. /\ Parent(x) \in Path /\ Len(Parent(x)) = n1
      /\ \A i \in 1 .. n1 : Parent(x)[i] = x[i]
  <2>1. Parent(x) = SubSeq(x, 1, n1)
    BY DEF Parent, n1
  <2> QED
    BY <1>1, <1>2, <2>1 DEF Path
<1>4. CASE Parent(x) = d
  BY <1>1, <1>2, <1>3, <1>4, UnderPointwise
<1>5. CASE Under(Parent(x), d)
  <2>1. Len(Parent(x)) > Len(d) /\ \A i \in 1 .. Len(d) : Parent(x)[i] = d[i]
    BY <1>3, <1>5, UnderPointwise
  <2>2. Len(d) \in Nat
    BY DEF Path
  <2> QED
    BY <1>1, <1>2, <1>3, <2>1, <2>2, UnderPointwise
<1> QED
  BY <1>4, <1>5

-----------------------------------------------------------------------------
(* Type correctness *)

LEMMA TypeInit == Init => TypeOK
<1> SUFFICES ASSUME Init PROVE TypeOK
  OBVIOUS
<1>1. Unborn \in Goroutine
  BY EmptySeq DEF Unborn, Goroutine
<1>2. gs \in [Ids -> Goroutine] /\ \A g \in Ids : gs[g].pc = "unborn"
  BY <1>1 DEF Init, Unborn
<1>3. stopped \in BOOLEAN
  BY DEF Init
<1> QED
  BY <1>2, <1>3, AddsAssumption DEF Init, TypeOK, Ids

\* The goroutine that add starts, and the slice it takes over
LEMMA AddedGoroutine ==
    ASSUME TypeOK, NEW it \in Items, NEW old \in 0 .. n, old = ev[Parent(it.path)]
    PROVE  [pc |-> "wait", key |-> Parent(it.path), closed |-> FALSE, over |-> FALSE,
            items |-> IF old # 0 THEN Append(gs[old].items, it) ELSE <<it>>] \in Goroutine
<1>1. old # 0 => old \in Ids
  BY AddsAssumption DEF TypeOK, Ids
<1>2. old # 0 => gs[old].items \in Seq(Items)
  BY <1>1 DEF TypeOK, Goroutine
<1>3. (IF old # 0 THEN Append(gs[old].items, it) ELSE <<it>>) \in Seq(Items)
  BY <1>2
<1> QED
  BY <1>3 DEF Goroutine, Keys

LEMMA TypeAdd == ASSUME TypeOK, NEW it \in Items, Add(it) PROVE TypeOK'
<1> DEFINE key == Parent(it.path)
           old == ev[key]
           new == [pc |-> "wait", key |-> key, closed |-> FALSE, over |-> FALSE,
                   items |-> IF old # 0 THEN Append(gs[old].items, it) ELSE <<it>>]
           gone == {ev[k] : k \in Dropped(it)} \cup (IF old # 0 THEN {old} ELSE {})
<1>1. key \in Keys /\ old \in 0 .. n
  BY DEF TypeOK, Keys
<1>2. new \in Goroutine
  BY <1>1, AddedGoroutine
<1>3. new.pc = "wait" /\ new.key = key
  OBVIOUS
<1>4. /\ n \in Nat /\ n < MaxAdds /\ n' = n + 1 /\ n + 1 \in Ids
      /\ UNCHANGED <<stopped, resets>> /\ owed' = owed \cup {it.path}
  BY AddsAssumption DEF Add, TypeOK, Ids
<1>5. gs' = [g \in Ids |-> IF g = n + 1 THEN new
                           ELSE IF g \in gone THEN [gs[g] EXCEPT !.closed = TRUE] ELSE gs[g]]
  BY DEF Add
<1>6. ev' = [k \in Keys |-> IF k = key THEN n + 1 ELSE IF k \in Dropped(it) THEN 0 ELSE ev[k]]
  BY DEF Add
<1> HIDE DEF key, old, new, gone
<1>7. ASSUME NEW g \in Ids
      PROVE  /\ [gs[g] EXCEPT !.closed = TRUE] \in Goroutine
             /\ [gs[g] EXCEPT !.closed = TRUE].pc = gs[g].pc
             /\ [gs[g] EXCEPT !.closed = TRUE].key = gs[g].key
  BY DEF TypeOK, Goroutine
<1>8. gs' \in [Ids -> Goroutine]
  BY <1>2, <1>5, <1>7 DEF TypeOK
<1>9. /\ gs'[n + 1].pc = "wait" /\ gs'[n + 1].key = key
      /\ \A g \in Ids : g # n + 1 => gs'[g].pc = gs[g].pc /\ gs'[g].key = gs[g].key
  BY <1>3, <1>4, <1>5, <1>7
<1>10. ev' \in [Keys -> 0 .. n + 1]
  BY <1>4, <1>6 DEF TypeOK
<1>11. /\ \A g \in Ids : gs'[g].pc = "unborn" <=> g > n + 1
       /\ \A g \in Ids : g <= n + 1 => gs'[g].key \in Keys
  BY <1>1, <1>4, <1>9 DEF TypeOK, Ids
<1>12. \A k \in Keys : ev'[k] # 0 => gs'[ev'[k]].key = k
  <2> SUFFICES ASSUME NEW k \in Keys, ev'[k] # 0 PROVE gs'[ev'[k]].key = k
    OBVIOUS
  <2>1. CASE k = key
    BY <2>1, <1>6, <1>9
  <2>2. CASE k # key
    <3>1. ev'[k] = ev[k] /\ ev[k] \in 0 .. n
      BY <2>2, <1>6 DEF TypeOK
    <3>2. ev'[k] = ev[k] /\ ev[k] \in Ids /\ ev[k] # n + 1
      BY <3>1, <1>4, AddsAssumption DEF Ids
    <3> QED
      BY <3>2, <1>9 DEF TypeOK
  <2> QED
    BY <2>1, <2>2
<1>13. n + 1 \in 0 .. MaxAdds
  BY <1>4, AddsAssumption
<1> QED
  BY <1>4, <1>8, <1>10, <1>11, <1>12, <1>13 DEF TypeOK

\* A goroutine moves on, the map can only lose entries
LEMMA TypeUpdate ==
    ASSUME TypeOK, NEW g \in Ids, NEW h \in Goroutine,
           h.key = gs[g].key, gs[g].pc # "unborn", h.pc # "unborn",
           gs' = [gs EXCEPT ![g] = h], UNCHANGED <<n, stopped, resets>>, owed' \subseteq owed,
           ev' \in [Keys -> 0 .. n], \A k \in Keys : ev'[k] = 0 \/ ev'[k] = ev[k]
    PROVE  TypeOK'
<1>1. gs' \in [Ids -> Goroutine]
  BY DEF TypeOK
<1>2. \A x \in Ids : gs'[x].key = gs[x].key /\ (gs'[x].pc = "unborn" <=> gs[x].pc = "unborn")
  BY DEF TypeOK
<1>3. \A k \in Keys : ev'[k] # 0 => gs'[ev'[k]].key = k
  <2> SUFFICES ASSUME NEW k \in Keys, ev'[k] # 0 PROVE gs'[ev'[k]].key = k
    OBVIOUS
  <2>1. ev'[k] = ev[k] /\ ev[k] \in Ids
    BY AddsAssumption DEF TypeOK, Ids
  <2> QED
    BY <1>2, <2>1 DEF TypeOK
<1> QED
  BY <1>1, <1>2, <1>3 DEF TypeOK

LEMMA TypeGoroutine ==
    ASSUME TypeOK, NEW g \in Ids, Quit(g) \/ TimerFires(g) \/ Handle(g) \/ Return(g)
    PROVE  TypeOK'
<1>1. gs[g] \in Goroutine /\ gs[g].items \in Seq(Items) /\ gs[g].pc # "unborn"
  BY DEF TypeOK, Goroutine, Quit, TimerFires, Handle, Return
<1>2. ev \in [Keys -> 0 .. n]
  BY DEF TypeOK
<1>3. CASE Quit(g) \/ Return(g)
  <2> DEFINE h == [gs[g] EXCEPT !.pc = "end"]
  <2>1. h \in Goroutine /\ h.key = gs[g].key /\ h.pc = "end"
    BY <1>1 DEF Goroutine
  <2>2. gs' = [gs EXCEPT ![g] = h] /\ UNCHANGED <<ev, n, stopped, resets, owed>>
    BY <1>3 DEF Quit, Return
  <2> HIDE DEF h
  <2> QED
    BY <1>1, <1>2, <2>1, <2>2, TypeUpdate
<1>4. CASE TimerFires(g)
  <2> DEFINE h == [gs[g] EXCEPT !.pc = "fire"]
  <2>1. h \in Goroutine /\ h.key = gs[g].key /\ h.pc = "fire"
    BY <1>1 DEF Goroutine
  <2>2. /\ gs' = [gs EXCEPT ![g] = h] /\ ev' = [ev EXCEPT ![gs[g].key] = 0]
        /\ UNCHANGED <<n, stopped, resets, owed>>
    BY <1>4 DEF TimerFires
  <2> HIDE DEF h
  <2>3. ev' \in [Keys -> 0 .. n] /\ \A k \in Keys : ev'[k] = 0 \/ ev'[k] = ev[k]
    <3>1. 0 \in 0 .. n
      BY AddsAssumption DEF TypeOK
    <3> QED
      BY <1>2, <2>2, <3>1
  <2> QED
    BY <1>1, <2>1, <2>2, <2>3, TypeUpdate
<1>5. CASE Handle(g)
  <2> DEFINE h == [gs[g] EXCEPT !.items = Tail(@)]
  <2>1. Tail(gs[g].items) \in Seq(Items)
    BY <1>1, <1>5 DEF Handle
  <2>2. h \in Goroutine /\ h.key = gs[g].key /\ h.pc = gs[g].pc
    BY <1>1, <2>1 DEF Goroutine
  <2>3. /\ gs' = [gs EXCEPT ![g] = h] /\ owed' \subseteq owed
        /\ UNCHANGED <<ev, n, stopped, resets>>
    BY <1>5 DEF Handle
  <2> HIDE DEF h
  <2> QED
    BY <1>1, <1>2, <2>2, <2>3, TypeUpdate
<1> QED
  BY <1>3, <1>4, <1>5

LEMMA TypeStopReset == ASSUME TypeOK, Stop \/ Reset PROVE TypeOK'
<1>1. CASE Stop
  <2> DEFINE h(g) == [gs[g] EXCEPT !.over = (@ \/ gs[g].pc # "unborn")]
  <2>1. ASSUME NEW g \in Ids PROVE h(g) \in Goroutine /\ h(g).pc = gs[g].pc /\ h(g).key = gs[g].key
    BY DEF TypeOK, Goroutine
  <2>2. gs' = [g \in Ids |-> h(g)] /\ owed' = {} /\ UNCHANGED <<ev, n, resets>> /\ stopped' = TRUE
    BY <1>1 DEF Stop
  <2> HIDE DEF h
  <2>3. gs' \in [Ids -> Goroutine] /\ \A g \in Ids : gs'[g].pc = gs[g].pc /\ gs'[g].key = gs[g].key
    BY <2>1, <2>2
  <2>4. \A k \in Keys : ev[k] # 0 => ev[k] \in Ids
    BY AddsAssumption DEF TypeOK, Ids
  <2> QED
    BY <2>2, <2>3, <2>4 DEF TypeOK
<1>2. CASE Reset
  <2>1. stopped' = FALSE /\ resets' = resets + 1
    BY <1>2 DEF Reset
  <2>2. ev' \in [Keys -> 0 .. n] /\ \A k \in Keys : ev'[k] = 0
    BY <1>2, AddsAssumption DEF Reset, TypeOK
  <2>3. UNCHANGED <<gs, n, owed>>
    BY <1>2 DEF Reset
  <2> QED
    <3>1. stopped' \in BOOLEAN
      BY <2>1
    <3>2. resets' \in Nat
      BY <2>1 DEF TypeOK
    <3> QED
      BY <2>2, <2>3, <3>1, <3>2 DEF TypeOK
<1> QED
  BY <1>1, <1>2

\* Every reachable state is well typed; an entry belongs to a started goroutine
\* of its directory.
THEOREM TypeCorrect == Spec => []TypeOK
<1>1. TypeOK /\ [Next]_vars => TypeOK'
  <2> SUFFICES ASSUME TypeOK, [Next]_vars PROVE TypeOK'
    OBVIOUS
  <2>1. CASE UNCHANGED vars
    BY <2>1 DEF TypeOK, vars
  <2> QED
    BY <2>1, TypeAdd, TypeGoroutine, TypeStopReset DEF Next, Goroutines
<1> QED
  BY TypeInit, <1>1, PTL DEF Spec

-----------------------------------------------------------------------------
(* No double close, no lost deletion *)

\* Two further facts make the two properties inductive.  While the watcher runs
\* an entry of the map is that of a goroutine still waiting, so its items are
\* complete when add takes them over.  And all items of a goroutine lie in its
\* directory, so the items dropped with an entry below a deleted directory are
\* covered by the Remove of that directory.
EntryWaits ==
    ~stopped => \A k \in Keys : ev[k] # 0 => gs[ev[k]].pc = "wait" /\ ~gs[ev[k]].over

ItemsInDir ==
    \A g \in Ids : \A i \in 1 .. Len(gs[g].items) : Parent(gs[g].items[i].path) = gs[g].key

IInv ==
    /\ NoDoubleClose
    /\ EntryWaits
    /\ ItemsInDir
    /\ stopped => owed = {}
    /\ NoDeleteLost

LEMMA IInvInit == Init => IInv
<1> SUFFICES ASSUME Init PROVE IInv
  OBVIOUS
<1>1. \A g \in Ids : Len(gs[g].items) = 0
  BY DEF Init, Unborn
<1>2. \A k \in Keys : ev[k] = 0
  BY DEF Init
<1>3. owed = {}
  BY DEF Init
<1> QED
  BY <1>1, <1>2, <1>3 DEF IInv, NoDoubleClose, EntryWaits, ItemsInDir, NoDeleteLost

\* What one entry's item covers, the Remove of a directory above the entry covers
LEMMA CoversDropped ==
    ASSUME NEW it \in Items, NEW x \in Items, NEW p \in {y.path : y \in Items},
           it.isDir, Parent(x.path) = it.path \/ Under(Parent(x.path), it.path), Covers(x, p)
    PROVE  Covers(it, p)
<1>1. it.path \in Path /\ x.path \in Path /\ x.path # << >> /\ p \in Path
  BY ItemsAssumption
<1>2. Under(x.path, it.path)
  BY <1>1, ParentUnder
<1>3. CASE p = x.path
  BY <1>2, <1>3 DEF Covers
<1>4. CASE Under(p, x.path)
  <2>1. Under(p, it.path)
    BY <1>1, <1>2, <1>4, UnderTransitive
  <2> QED
    BY <2>1 DEF Covers
<1> QED
  BY <1>3, <1>4 DEF Covers

LEMMA IInvAdd == ASSUME TypeOK, IInv, NEW it \in Items, Add(it) PROVE IInv'
<1> DEFINE key == Parent(it.path)
           old == ev[key]
           its == IF old # 0 THEN Append(gs[old].items, it) ELSE <<it>>
           new == [pc |-> "wait", key |-> key, closed |-> FALSE, over |-> FALSE, items |-> its]
           gone == {ev[k] : k \in Dropped(it)} \cup (IF old # 0 THEN {old} ELSE {})
<1>1. /\ ~stopped /\ n \in Nat /\ n < MaxAdds /\ n' = n + 1 /\ n + 1 \in Ids
      /\ stopped' = stopped /\ owed' = owed \cup {it.path}
  BY AddsAssumption DEF Add, TypeOK, Ids
<1>2. gs' = [g \in Ids |-> IF g = n + 1 THEN new
                           ELSE IF g \in gone THEN [gs[g] EXCEPT !.closed = TRUE] ELSE gs[g]]
  BY DEF Add
<1>3. ev' = [k \in Keys |-> IF k = key THEN n + 1 ELSE IF k \in Dropped(it) THEN 0 ELSE ev[k]]
  BY DEF Add
<1>4. key \in Keys /\ \A k \in Keys : ev[k] # 0 => ev[k] \in Ids /\ ev[k] # n + 1 /\ gs[ev[k]].key = k
  BY <1>1, AddsAssumption DEF TypeOK, Ids, Keys
<1>5. \A g \in Ids : gs[g] \in Goroutine /\ gs[g].items \in Seq(Items)
  BY DEF TypeOK, Goroutine
<1>6. /\ its \in Seq(Items) /\ Len(its) \in Nat \ {0} /\ its[Len(its)] = it
      /\ old # 0 => /\ Len(its) = Len(gs[old].items) + 1
                    /\ \A i \in 1 .. Len(gs[old].items) : its[i] = gs[old].items[i]
      /\ old = 0 => Len(its) = 1
  <2>1. CASE old = 0
    BY <2>1
  <2>2. CASE old # 0
    <3>1. gs[old].items \in Seq(Items)
      BY <2>2, <1>4, <1>5
    <3> QED
      BY <2>2, <3>1
  <2> QED
    BY <2>1, <2>2
<1>7. /\ gs'[n + 1].pc = "wait" /\ gs'[n + 1].key = key /\ gs'[n + 1].items = its
      /\ ~gs'[n + 1].closed /\ ~gs'[n + 1].over
  BY <1>1, <1>2
<1>8. \A g \in Ids : g # n + 1 =>
        /\ gs'[g].pc = gs[g].pc /\ gs'[g].key = gs[g].key /\ gs'[g].items = gs[g].items
        /\ gs'[g].over = gs[g].over
        /\ g \notin gone => gs'[g].closed = gs[g].closed
  BY <1>2, <1>5 DEF Goroutine
<1> HIDE DEF its, new
<1>9. \A k \in Keys : (ev'[k] # 0 /\ k # key) =>
        ev'[k] = ev[k] /\ ev[k] # 0 /\ ev[k] # n + 1 /\ ev[k] \in Ids /\ ev[k] \notin gone
  <2> SUFFICES ASSUME NEW k \in Keys, ev'[k] # 0, k # key
               PROVE  ev'[k] = ev[k] /\ ev[k] # 0 /\ ev[k] # n + 1 /\ ev[k] \in Ids /\ ev[k] \notin gone
    OBVIOUS
  <2>1. ev'[k] = ev[k] /\ k \notin Dropped(it)
    BY <1>3
  <2>2. ASSUME NEW j \in Keys, ev[j] = ev[k] PROVE j = k
    BY <1>4, <2>1, <2>2
  <2> QED
    BY <1>4, <2>1, <2>2 DEF Dropped
<1>10. NoDoubleClose'
  <2> SUFFICES ASSUME NEW k \in Keys, ev'[k] # 0 PROVE ~gs'[ev'[k]].closed
    BY DEF NoDoubleClose
  <2>1. CASE k = key
    BY <2>1, <1>3, <1>7
  <2>2. CASE k # key
    BY <2>2, <1>8, <1>9 DEF IInv, NoDoubleClose
  <2> QED
    BY <2>1, <2>2
<1>11. EntryWaits'
  <2> SUFFICES ASSUME NEW k \in Keys, ev'[k] # 0
               PROVE  gs'[ev'[k]].pc = "wait" /\ ~gs'[ev'[k]].over
    BY DEF EntryWaits
  <2>1. CASE k = key
    BY <2>1, <1>3, <1>7
  <2>2. CASE k # key
    BY <2>2, <1>1, <1>8, <1>9 DEF IInv, EntryWaits
  <2> QED
    BY <2>1, <2>2
<1>12. ItemsInDir'
  <2> SUFFICES ASSUME NEW g \in Ids, NEW i \in 1 .. Len(gs'[g].items)
               PROVE  Parent(gs'[g].items[i].path) = gs'[g].key
    BY DEF ItemsInDir
  <2>1. CASE g # n + 1
    BY <2>1, <1>8 DEF IInv, ItemsInDir
  <2>2. CASE g = n + 1 /\ i = Len(its)
    BY <2>2, <1>6, <1>7
  <2>3. CASE g = n + 1 /\ i # Len(its)
    <3>1. old # 0 /\ i \in 1 .. Len(gs[old].items) /\ its[i] = gs[old].items[i] /\ old \in Ids
      <4>1. i \in 1 .. Len(its)
        BY <2>3, <1>7
      <4>2. old # 0
        BY <4>1, <2>3, <1>6
      <4>3. Len(gs[old].items) \in Nat /\ old \in Ids
        BY <4>2, <1>4, <1>5
      <4> QED
        BY <4>1, <4>2, <4>3, <2>3, <1>6
    <3>2. Parent(its[i].path) = key
      BY <3>1, <1>4 DEF IInv, ItemsInDir
    <3> QED
      BY <2>3, <3>2, <1>7
  <2> QED
    BY <2>1, <2>2, <2>3
<1>13. NoDeleteLost'
  <2> SUFFICES ASSUME NEW p \in owed'
               PROVE  \E g \in Ids : /\ Live(g)'
                                     /\ \E i \in 1 .. Len(gs'[g].items) : Covers(gs'[g].items[i], p)
    BY DEF NoDeleteLost
  <2>0. PICK m \in Ids : m = n + 1
    BY <1>1
  <2>1. Live(m)'
    BY <2>0, <1>7 DEF Live
  <2> DEFINE Cov(g) == \E i \in 1 .. Len(gs'[g].items) : Covers(gs'[g].items[i], p)
  <2>2. CASE Covers(it, p)
    <3>1. Len(its) \in 1 .. Len(its) /\ Covers(its[Len(its)], p)
      BY <2>2, <1>6
    <3>2. Cov(m)
      BY <3>1, <2>0, <1>7
    <3> QED
      BY <2>1, <3>2
  <2>3. CASE ~Covers(it, p)
    <3>1. p \in owed
      BY <2>3, <1>1 DEF Covers
    <3>2. PICK g \in Ids : Live(g) /\ \E i \in 1 .. Len(gs[g].items) : Covers(gs[g].items[i], p)
      BY <3>1, <1>1 DEF IInv, NoDeleteLost
    <3>3. PICK i \in 1 .. Len(gs[g].items) : Covers(gs[g].items[i], p)
      BY <3>2
    <3>4. g # n + 1
      BY <3>2, <1>1 DEF TypeOK, Live, Ids
    <3>5. CASE g \notin gone
      <4>1. Live(g)'
        BY <3>2, <3>4, <3>5, <1>8 DEF Live
      <4> QED
        BY <3>3, <3>4, <4>1, <1>8
    <3>6. CASE old # 0 /\ g = old
      <4>1. Len(gs[old].items) \in Nat
        BY <3>6, <1>5
      <4>2. i \in 1 .. Len(its) /\ its[i] = gs[g].items[i]
        BY <3>3, <3>6, <4>1, <1>6
      <4>3. Cov(m)
        BY <3>3, <4>2, <2>0, <1>7
      <4> QED
        BY <2>1, <4>3
    <3>7. ASSUME NEW k \in Dropped(it), g = ev[k] PROVE FALSE
      <4>1. k \in Keys /\ it.isDir /\ (k = it.path \/ Under(k, it.path)) /\ ev[k] # 0
        BY <3>7 DEF Dropped
      <4>2. Parent(gs[g].items[i].path) = k /\ gs[g].items[i] \in Items
        BY <3>7, <4>1, <1>4, <1>5, <3>3 DEF IInv, ItemsInDir
      <4>3. p \in {y.path : y \in Items}
        BY <3>1 DEF TypeOK
      <4> QED
        BY <3>3, <2>3, <4>1, <4>2, <4>3, CoversDropped
    <3> QED
      BY <3>5, <3>6, <3>7
  <2> QED
    BY <2>2, <2>3
<1> QED
  BY <1>1, <1>10, <1>11, <1>12, <1>13 DEF IInv

LEMMA IInvQuit == ASSUME TypeOK, IInv, NEW g \in Ids, Quit(g) \/ Return(g) PROVE IInv'
<1>1. /\ gs' = [gs EXCEPT ![g] = [gs[g] EXCEPT !.pc = "end"]] /\ UNCHANGED <<ev, stopped, owed>>
  BY DEF Quit, Return
<1>2. \A x \in Ids : /\ gs'[x].items = gs[x].items /\ gs'[x].key = gs[x].key
                     /\ gs'[x].closed = gs[x].closed /\ gs'[x].over = gs[x].over
                     /\ x # g => gs'[x].pc = gs[x].pc
  BY <1>1 DEF TypeOK, Goroutine
<1>3. \A k \in Keys : ev[k] # 0 => ev[k] \in Ids
  BY AddsAssumption DEF TypeOK, Ids
<1>4. \A k \in Keys : (~stopped /\ ev[k] # 0) => ev[k] # g
  BY <1>3 DEF IInv, NoDoubleClose, EntryWaits, Quit, Return
<1>5. NoDoubleClose' /\ EntryWaits'
  BY <1>1, <1>2, <1>3, <1>4 DEF IInv, NoDoubleClose, EntryWaits
<1>6. ItemsInDir'
  BY <1>2 DEF IInv, ItemsInDir
<1>7. ~(Live(g) /\ \E i \in 1 .. Len(gs[g].items) : TRUE)
  BY DEF Live, Quit, Return
<1>8. NoDeleteLost'
  <2> SUFFICES ASSUME ~stopped, NEW p \in owed
               PROVE  \E x \in Ids : /\ Live(x)'
                                     /\ \E i \in 1 .. Len(gs'[x].items) : Covers(gs'[x].items[i], p)
    BY <1>1 DEF NoDeleteLost
  <2>1. PICK x \in Ids : Live(x) /\ \E i \in 1 .. Len(gs[x].items) : Covers(gs[x].items[i], p)
    BY DEF IInv, NoDeleteLost
  <2>2. x # g
    BY <1>7, <2>1
  <2>3. Live(x)'
    BY <1>2, <2>1, <2>2 DEF Live
  <2> QED
    BY <1>2, <2>1, <2>3
<1> QED
  BY <1>1, <1>5, <1>6, <1>8 DEF IInv

LEMMA IInvTimer == ASSUME TypeOK, IInv, NEW g \in Ids, TimerFires(g) PROVE IInv'
<1>1. /\ gs' = [gs EXCEPT ![g] = [gs[g] EXCEPT !.pc = "fire"]] /\ UNCHANGED <<stopped, owed>>
      /\ ev' = [ev EXCEPT ![gs[g].key] = 0]
  BY DEF TimerFires
<1>2. \A x \in Ids : /\ gs'[x].items = gs[x].items /\ gs'[x].key = gs[x].key
                     /\ gs'[x].closed = gs[x].closed /\ gs'[x].over = gs[x].over
                     /\ x # g => gs'[x].pc = gs[x].pc
                     /\ gs'[g].pc = "fire"
  BY <1>1 DEF TypeOK, Goroutine
<1>3. \A k \in Keys : ev[k] # 0 => ev[k] \in Ids /\ gs[ev[k]].key = k
  BY AddsAssumption DEF TypeOK, Ids
<1>4. \A k \in Keys : ev'[k] # 0 => ev'[k] = ev[k] /\ ev[k] # g
  BY <1>1, <1>3 DEF TypeOK
<1>5. NoDoubleClose' /\ EntryWaits'
  BY <1>1, <1>2, <1>3, <1>4 DEF IInv, NoDoubleClose, EntryWaits
<1>6. ItemsInDir'
  BY <1>2 DEF IInv, ItemsInDir
<1>7. \A x \in Ids : Live(x) => Live(x)'
  BY <1>2 DEF Live
<1>8. NoDeleteLost'
  BY <1>1, <1>2, <1>7 DEF IInv, NoDeleteLost
<1> QED
  BY <1>1, <1>5, <1>6, <1>8 DEF IInv

LEMMA IInvHandle == ASSUME TypeOK, IInv, NEW g \in Ids, Handle(g) PROVE IInv'
<1> DEFINE its == gs[g].items
<1>1. /\ gs' = [gs EXCEPT ![g] = [gs[g] EXCEPT !.items = Tail(its)]] /\ UNCHANGED <<ev, stopped>>
      /\ owed' = {p \in owed : ~Covers(Head(its), p)}
      /\ gs[g].pc = "fire" /\ its # << >> /\ its \in Seq(Items)
  BY DEF Handle, TypeOK, Goroutine
<1>2. \A x \in Ids : /\ gs'[x].key = gs[x].key /\ gs'[x].pc = gs[x].pc
                     /\ gs'[x].closed = gs[x].closed /\ gs'[x].over = gs[x].over
                     /\ x # g => gs'[x].items = gs[x].items
                     /\ gs'[g].items = Tail(its)
  BY <1>1 DEF TypeOK, Goroutine
<1>3. /\ Len(its) \in Nat \ {0} /\ Len(Tail(its)) = Len(its) - 1 /\ Head(its) = its[1]
      /\ \A i \in 1 .. Len(its) - 1 : Tail(its)[i] = its[i + 1]
  BY <1>1
<1> HIDE DEF its
<1>4. \A k \in Keys : ev[k] # 0 => ev[k] \in Ids
  BY AddsAssumption DEF TypeOK, Ids
<1>5. NoDoubleClose' /\ EntryWaits'
  BY <1>1, <1>2, <1>4 DEF IInv, NoDoubleClose, EntryWaits
<1>6. ItemsInDir'
  <2> SUFFICES ASSUME NEW x \in Ids, NEW i \in 1 .. Len(gs'[x].items)
               PROVE  Parent(gs'[x].items[i].path) = gs'[x].key
    BY DEF ItemsInDir
  <2>1. CASE x # g
    BY <2>1, <1>2 DEF IInv, ItemsInDir
  <2>2. CASE x = g
    <3>1. i + 1 \in 1 .. Len(its) /\ gs'[x].items[i] = its[i + 1]
      BY <2>2, <1>2, <1>3
    <3> QED
      BY <2>2, <3>1, <1>2 DEF IInv, ItemsInDir, its
  <2> QED
    BY <2>1, <2>2
<1>7. \A x \in Ids : Live(x) <=> Live(x)'
  BY <1>2 DEF Live
<1>8. NoDeleteLost'
  <2> SUFFICES ASSUME ~stopped, NEW p \in owed, ~Covers(Head(its), p)
               PROVE  \E x \in Ids : /\ Live(x)'
                                     /\ \E i \in 1 .. Len(gs'[x].items) : Covers(gs'[x].items[i], p)
    BY <1>1 DEF NoDeleteLost
  <2>1. PICK x \in Ids : Live(x) /\ \E i \in 1 .. Len(gs[x].items) : Covers(gs[x].items[i], p)
    BY DEF IInv, NoDeleteLost
  <2>2. CASE x # g
    BY <1>2, <1>7, <2>1, <2>2
  <2>3. CASE x = g
    <3>1. PICK i \in 1 .. Len(its) : Covers(its[i], p)
      BY <2>1, <2>3 DEF its
    <3>2. i # 1
      BY <3>1, <1>3
    <3>3. i - 1 \in 1 .. Len(its) - 1 /\ Tail(its)[i - 1] = its[i]
      BY <3>1, <3>2, <1>3
    <3>4. i - 1 \in 1 .. Len(gs'[x].items) /\ Covers(gs'[x].items[i - 1], p)
      BY <3>1, <3>3, <2>3, <1>2, <1>3
    <3> QED
      BY <3>4, <2>1, <1>7
  <2> QED
    BY <2>2, <2>3
<1> QED
  BY <1>1, <1>5, <1>6, <1>8 DEF IInv

LEMMA IInvStopReset == ASSUME TypeOK, IInv, Stop \/ Reset PROVE IInv'
<1>1. CASE Stop
  <2>1. \A x \in Ids : /\ gs'[x].key = gs[x].key /\ gs'[x].items = gs[x].items
                       /\ gs'[x].closed = gs[x].closed
    BY <1>1 DEF Stop, TypeOK, Goroutine
  <2>2. \A k \in Keys : ev[k] # 0 => ev[k] \in Ids
    BY AddsAssumption DEF TypeOK, Ids
  <2>3. stopped' /\ owed' = {} /\ ev' = ev
    BY <1>1 DEF Stop
  <2>4. NoDoubleClose' /\ ItemsInDir'
    BY <2>1, <2>2, <2>3 DEF IInv, NoDoubleClose, ItemsInDir
  <2> QED
    BY <2>3, <2>4 DEF IInv, EntryWaits, NoDeleteLost
<1>2. CASE Reset
  <2>1. owed' = {} /\ gs' = gs /\ \A k \in Keys : ev'[k] = 0
    BY <1>2 DEF Reset, IInv
  <2> QED
    BY <2>1 DEF IInv, NoDoubleClose, EntryWaits, ItemsInDir, NoDeleteLost
<1> QED
  BY <1>1, <1>2

LEMMA IInvInvariant == Spec => []IInv
<1>1. TypeOK /\ IInv /\ [Next]_vars => IInv'
  <2> SUFFICES ASSUME TypeOK, IInv, [Next]_vars PROVE IInv'
    OBVIOUS
  <2>1. CASE UNCHANGED vars
    BY <2>1 DEF IInv, NoDoubleClose, EntryWaits, ItemsInDir, NoDeleteLost, Live, vars
  <2> QED
    BY <2>1, IInvAdd, IInvQuit, IInvTimer, IInvHandle, IInvStopReset DEF Next, Goroutines
<1> QED
  BY IInvInit, <1>1, TypeCorrect, PTL DEF Spec

\* delEvents.add never closes a channel twice, whichever goroutine wins a race.
THEOREM ClosesOnce == Spec => []NoDoubleClose
<1>1. IInv => NoDoubleClose
  BY DEF IInv
<1> QED
  BY <1>1, IInvInvariant, PTL

\* Grouping, replacing and dropping entries never loses a deletion.
THEOREM DeletesKept == Spec => []NoDeleteLost
<1>1. IInv => NoDeleteLost
  BY DEF IInv
<1> QED
  BY <1>1, IInvInvariant, PTL

-----------------------------------------------------------------------------
(* DelEvents implements HeldDeletions *)

\* g will still hand its items to the handler, or quit
Active(g) == gs[g].pc \in {"wait", "fire"}

LEMMA InHeld ==
    ASSUME NEW x
    PROVE  x \in Held <=> \E g \in Ids : Active(g) /\ \E i \in 1 .. Len(gs[g].items) : gs[g].items[i] = x
  BY DEF Held, Active

LEMMA SameCovers == ASSUME NEW it, NEW p PROVE H!Covers(it, p) <=> Covers(it, p)
  BY DEF H!Covers, Covers, H!Under, Under

\* NoDeleteLost is what the abstract specification calls Safe
LEMMA SafeHeld == NoDeleteLost => H!Safe
<1> SUFFICES ASSUME NoDeleteLost, ~stopped, NEW p \in owed
             PROVE  \E it \in Held : H!Covers(it, p)
  BY DEF H!Safe
<1>1. PICK g \in Ids : Live(g) /\ \E i \in 1 .. Len(gs[g].items) : Covers(gs[g].items[i], p)
  BY DEF NoDeleteLost
<1>2. PICK i \in 1 .. Len(gs[g].items) : Covers(gs[g].items[i], p)
  BY <1>1
<1>3. Active(g)
  BY <1>1 DEF Live, Active
<1>4. gs[g].items[i] \in Held
  BY <1>3, InHeld
<1> QED
  BY <1>2, <1>4, SameCovers

\* What is held back by a goroutine whose items and state do not change stays so
LEMMA HeldShrinks ==
    ASSUME \A g \in Ids : Active(g)' =>
               /\ Active(g)
               /\ \A i \in 1 .. Len(gs'[g].items) :
                      \E j \in 1 .. Len(gs[g].items) : gs'[g].items[i] = gs[g].items[j]
    PROVE  Held' \in SUBSET Held
<1> SUFFICES ASSUME NEW x, x \in Held' PROVE x \in Held
  OBVIOUS
<1>1. PICK g \in Ids : Active(g)' /\ \E i \in 1 .. Len(gs'[g].items) : gs'[g].items[i] = x
  BY DEF Held, Active
<1> QED
  BY <1>1, InHeld

LEMMA HeldSame ==
    ASSUME \A g \in Ids : /\ Active(g)' <=> Active(g)
                          /\ gs'[g].items = gs[g].items
    PROVE  Held' = Held
  BY DEF Held, Active

LEMMA AddImplements ==
    ASSUME TypeOK, IInv, NEW it \in Items, Add(it) PROVE H!Delete(it)
<1> DEFINE key == Parent(it.path)
           old == ev[key]
           its == IF old # 0 THEN Append(gs[old].items, it) ELSE <<it>>
           new == [pc |-> "wait", key |-> key, closed |-> FALSE, over |-> FALSE, items |-> its]
           gone == {ev[k] : k \in Dropped(it)} \cup (IF old # 0 THEN {old} ELSE {})
<1>1. /\ ~stopped /\ n \in Nat /\ n + 1 \in Ids
      /\ stopped' = stopped /\ owed' = owed \cup {it.path}
  BY AddsAssumption DEF Add, TypeOK, Ids
<1>2. gs' = [g \in Ids |-> IF g = n + 1 THEN new
                           ELSE IF g \in gone THEN [gs[g] EXCEPT !.closed = TRUE] ELSE gs[g]]
  BY DEF Add
<1>3. \A g \in Ids : gs[g] \in Goroutine /\ gs[g].items \in Seq(Items)
  BY DEF TypeOK, Goroutine
<1>4. old # 0 => old \in Ids /\ gs[old].pc = "wait"
  BY <1>1, AddsAssumption DEF TypeOK, Ids, Keys, IInv, EntryWaits
<1>5. gs'[n + 1].pc = "wait" /\ gs'[n + 1].items = its
  BY <1>1, <1>2
<1>6. \A g \in Ids : g # n + 1 => gs'[g].pc = gs[g].pc /\ gs'[g].items = gs[g].items
  BY <1>2, <1>3 DEF Goroutine
<1>7. ~Active(n + 1)
  BY <1>1 DEF TypeOK, Active, Ids
<1>8. /\ Len(its) \in Nat \ {0} /\ its[Len(its)] = it
      /\ \A i \in 1 .. Len(its) : i # Len(its) =>
              old # 0 /\ i \in 1 .. Len(gs[old].items) /\ its[i] = gs[old].items[i]
  <2>1. CASE old = 0
    BY <2>1
  <2>2. CASE old # 0
    <3>1. gs[old].items \in Seq(Items)
      BY <2>2, <1>3, <1>4
    <3>2. its = Append(gs[old].items, it) /\ Len(its) = Len(gs[old].items) + 1
      BY <2>2, <3>1
    <3>3. \A i \in 1 .. Len(gs[old].items) : its[i] = gs[old].items[i]
      BY <3>1, <3>2
    <3>4. its[Len(its)] = it /\ Len(gs[old].items) \in Nat
      BY <3>1, <3>2
    <3> HIDE DEF its
    <3> QED
      BY <2>2, <3>2, <3>3, <3>4
  <2> QED
    BY <2>1, <2>2
<1> HIDE DEF its, new, gone
<1>9. Held' \subseteq Held \cup {it}
  <2> SUFFICES ASSUME NEW x, x \in Held', x # it PROVE x \in Held
    OBVIOUS
  <2>1. PICK g \in Ids : Active(g)' /\ \E i \in 1 .. Len(gs'[g].items) : gs'[g].items[i] = x
    BY DEF Held, Active
  <2>2. PICK i \in 1 .. Len(gs'[g].items) : gs'[g].items[i] = x
    BY <2>1
  <2>3. CASE g # n + 1
    BY <2>1, <2>2, <2>3, <1>6, InHeld DEF Active
  <2>4. CASE g = n + 1
    <3>1. old # 0 /\ i \in 1 .. Len(gs[old].items) /\ x = gs[old].items[i]
      BY <2>2, <2>4, <1>5, <1>8
    <3> QED
      BY <3>1, <1>4, InHeld DEF Active
  <2> QED
    BY <2>3, <2>4
<1>10. Held \subseteq Held'
  <2> SUFFICES ASSUME NEW x, x \in Held PROVE x \in Held'
    OBVIOUS
  <2>1. PICK g \in Ids : Active(g) /\ \E i \in 1 .. Len(gs[g].items) : gs[g].items[i] = x
    BY InHeld
  <2>2. g # n + 1
    BY <2>1, <1>7
  <2>3. Active(g)' /\ \E i \in 1 .. Len(gs'[g].items) : gs'[g].items[i] = x
    BY <2>1, <2>2, <1>6 DEF Active
  <2> QED
    BY <2>3 DEF Held, Active
<1>11. it \in Held'
  <2>1. PICK m \in Ids : m = n + 1
    BY <1>1
  <2>2. gs'[m].pc = "wait" /\ gs'[m].items[Len(its)] = it /\ Len(its) \in 1 .. Len(gs'[m].items)
    BY <2>1, <1>5, <1>8
  <2> QED
    BY <2>2 DEF Held
<1> QED
  BY <1>1, <1>9, <1>10, <1>11 DEF H!Delete

\* Quit, Return and TimerFires may drop what a goroutine holds, and no more
LEMMA DropImplements ==
    ASSUME TypeOK, NoDeleteLost', NEW g \in Ids, Quit(g) \/ Return(g) \/ TimerFires(g)
    PROVE  H!Drop
<1>1. PICK pc \in {"end", "fire"} : gs' = [gs EXCEPT ![g].pc = pc]
  BY DEF Quit, Return, TimerFires
<1>2. \A x \in Ids : gs'[x].items = gs[x].items /\ (x # g => gs'[x].pc = gs[x].pc)
  BY <1>1 DEF TypeOK, Goroutine
<1>3. Active(g)
  BY DEF Quit, Return, TimerFires, Active
<1>4. Held' \in SUBSET Held
  BY <1>2, <1>3, HeldShrinks DEF Active
<1>5. UNCHANGED <<owed, stopped>>
  BY DEF Quit, Return, TimerFires
<1>6. H!Safe'
  BY SafeHeld, PTL
<1> QED
  BY <1>4, <1>5, <1>6 DEF H!Drop

LEMMA HandleImplements ==
    ASSUME TypeOK, NoDeleteLost', NEW g \in Ids, Handle(g)
    PROVE  \E it \in Items : H!Report(it)
<1> DEFINE its == gs[g].items
<1>1. /\ gs' = [gs EXCEPT ![g] = [gs[g] EXCEPT !.items = Tail(its)]] /\ UNCHANGED stopped
      /\ owed' = {p \in owed : ~Covers(Head(its), p)}
      /\ gs[g].pc = "fire" /\ its # << >> /\ its \in Seq(Items)
  BY DEF Handle, TypeOK, Goroutine
<1>2. \A x \in Ids : /\ gs'[x].pc = gs[x].pc
                     /\ x # g => gs'[x].items = gs[x].items
                     /\ gs'[g].items = Tail(its)
  BY <1>1 DEF TypeOK, Goroutine
<1>3. /\ Len(its) \in Nat \ {0} /\ Len(Tail(its)) = Len(its) - 1 /\ Head(its) = its[1]
      /\ \A i \in 1 .. Len(its) - 1 : Tail(its)[i] = its[i + 1]
      /\ Head(its) \in Items
  BY <1>1
<1> HIDE DEF its
<1>4. Head(its) \in Held
  <2>1. 1 \in 1 .. Len(gs[g].items) /\ gs[g].items[1] = Head(its)
    BY <1>3 DEF its
  <2> QED
    BY <2>1, <1>1, InHeld DEF Active
<1>5. ASSUME NEW x \in Ids, Active(x)'
      PROVE  /\ Active(x)
             /\ \A i \in 1 .. Len(gs'[x].items) :
                    \E j \in 1 .. Len(gs[x].items) : gs'[x].items[i] = gs[x].items[j]
  <2>1. Active(x)
    BY <1>2, <1>5 DEF Active
  <2>2. CASE x # g
    BY <2>1, <2>2, <1>2
  <2>3. CASE x = g
    <3>1. ASSUME NEW i \in 1 .. Len(Tail(its))
          PROVE  \E j \in 1 .. Len(its) : Tail(its)[i] = its[j]
      <4>1. i + 1 \in 1 .. Len(its) /\ Tail(its)[i] = its[i + 1]
        BY <1>3
      <4> QED
        BY <4>1
    <3>2. gs'[x].items = Tail(its) /\ gs[x].items = its
      BY <2>3, <1>2 DEF its
    <3> QED
      BY <2>1, <3>1, <3>2
  <2> QED
    BY <2>2, <2>3
<1>6. Held' \in SUBSET Held
  BY <1>5, HeldShrinks
<1>7. H!Safe'
  BY SafeHeld, PTL
<1>8. owed' = {p \in owed : ~H!Covers(Head(its), p)}
  BY <1>1, SameCovers DEF its
<1> QED
  BY <1>1, <1>3, <1>4, <1>6, <1>7, <1>8 DEF H!Report

LEMMA StopResetImplements == ASSUME TypeOK, IInv, Stop \/ Reset PROVE H!Stop \/ H!Reset
<1>1. CASE Stop
  <2>1. \A x \in Ids : gs'[x].items = gs[x].items /\ gs'[x].pc = gs[x].pc
    BY <1>1 DEF Stop, TypeOK, Goroutine
  <2>2. Held' = Held
    BY <2>1, HeldSame DEF Active
  <2> QED
    BY <1>1, <2>2 DEF Stop, H!Stop
<1>2. CASE Reset
  <2>1. Held' = Held
    BY <1>2 DEF Reset, Held
  <2> QED
    BY <1>2, <2>1 DEF Reset, H!Reset
<1> QED
  BY <1>1, <1>2

\* The map, the channels and the goroutines of delEvents do what HeldDeletions
\* promises, for every set of items and any number of adds and restarts.
THEOREM Implements == Spec => HeldSpec
<1>1. Init => H!Init
  BY DEF Init, H!Init, Held, Unborn
<1>2. TypeOK /\ IInv /\ IInv' /\ [Next]_vars => [H!Next]_(H!hvars)
  <2> SUFFICES ASSUME TypeOK, IInv, IInv', [Next]_vars PROVE H!Next \/ UNCHANGED H!hvars
    OBVIOUS
  <2>1. CASE UNCHANGED vars
    BY <2>1 DEF vars, H!hvars, Held
  <2>2. NoDeleteLost'
    BY DEF IInv
  <2>3. ASSUME NEW it \in Items, Add(it) PROVE H!Next
    BY <2>3, AddImplements DEF H!Next
  <2>4. ASSUME NEW g \in Ids, Quit(g) \/ TimerFires(g) \/ Return(g) PROVE H!Next
    BY <2>2, <2>4, DropImplements DEF H!Next
  <2>5. ASSUME NEW g \in Ids, Handle(g) PROVE H!Next
    BY <2>2, <2>5, HandleImplements DEF H!Next
  <2>6. CASE Stop \/ Reset
    BY <2>6, StopResetImplements DEF H!Next
  <2> QED
    BY <2>1, <2>3, <2>4, <2>5, <2>6 DEF Next, Goroutines
<1> QED
  BY <1>1, <1>2, TypeCorrect, IInvInvariant, PTL DEF Spec, HeldSpec, H!Spec

=============================================================================

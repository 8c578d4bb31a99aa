--------------------------- MODULE BackendProofs ---------------------------
(***************************************************************************)
(* Theorems about Backend, for every tree, every bound and every set of    *)
(* faulty calls.                                                           *)
(***************************************************************************)
EXTENDS Browse, TLAPS

-----------------------------------------------------------------------------
(* The table: every statement yields rows of the tree *)

\* Relocating the renamed path itself gives the new path
LEMMA RelocateSelf ==
    ASSUME NEW old \in Path, NEW new \in Path
    PROVE  Relocate(old, old, new) = new
<1>1. SubSeq(old, Len(old) + 1, Len(old)) = << >>
  BY DEF Path
<1>2. new \o << >> = new
  BY DEF Path
<1> QED
  BY <1>1, <1>2 DEF Relocate

\* index_add of a path of the tree
LEMMA IndexAddRows ==
    ASSUME NEW t, t \subseteq IndexedRow, NEW next \in Nat \ {0}, NEW p \in Tree
    PROVE  index_add(t, next, p \in Folders, p) \subseteq IndexedRow
<1>1. p \in Path
  BY TreeAssumption DEF Tree
<1>2. ASSUME NEW o \in IndexedRow, o.path = p
      PROVE  Upserted(o, p \in Folders) \in IndexedRow
  <2> DEFINE u == Upserted(o, p \in Folders)
  <2>1. u \in Row /\ u.path = p
    BY <1>2 DEF Upserted, IndexedRow, Row, ReindexAt
  <2>2. u.typ = "folder" <=> p \in Folders
    BY <1>2 DEF Upserted, IndexedRow, Row
  <2> QED
    BY <2>1, <2>2 DEF IndexedRow
<1> DEFINE n == [id |-> next, path |-> p, typ |-> "folder", online |-> TRUE,
                 reindex_at |-> "null", info |-> 0]
<1>3. Upserted(n, p \in Folders) \in IndexedRow
  <2>1. n \in Row /\ n.path = p
    BY <1>1 DEF Row, ReindexAt
  <2> DEFINE u == Upserted(n, p \in Folders)
  <2>2. u \in Row /\ u.path = p
    BY <2>1 DEF Upserted, Row, ReindexAt
  <2>3. u.typ = "folder" <=> p \in Folders
    BY <2>1 DEF Upserted, Row
  <2> QED
    BY <2>2, <2>3 DEF IndexedRow
<1> QED
  BY <1>2, <1>3 DEF index_add

\* index_rename between two names of one mv
LEMMA IndexRenameRows ==
    ASSUME NEW t, t \subseteq IndexedRow, NEW old \in Tree, NEW new \in Tree, Movable(old, new)
    PROVE  index_rename(t, old \in Folders, old, new) \subseteq IndexedRow
<1> DEFINE r(p) == Renamed(p, old \in Folders, old, new)
<1>1. ASSUME NEW p \in Tree
      PROVE  r(p) \in Tree /\ (p \in Folders <=> r(p) \in Folders)
  <2>1. CASE p = old
    <3>1. r(p) = new
      BY <2>1, RelocateSelf, TreeAssumption DEF Renamed, Tree
    <3> QED
      BY <2>1, <3>1 DEF Movable
  <2>2. CASE p # old
    BY <2>2 DEF Renamed, Movable
  <2> QED
    BY <2>1, <2>2
<1>2. ASSUME NEW o \in IndexedRow
      PROVE  [o EXCEPT !.path = r(o.path)] \in IndexedRow
  <2> DEFINE u == [o EXCEPT !.path = r(o.path)]
  <2>1. r(o.path) \in Tree /\ (o.path \in Folders <=> r(o.path) \in Folders)
    BY <1>1 DEF IndexedRow
  <2>2. r(o.path) \in Path
    BY <2>1, TreeAssumption DEF Tree
  <2>3. o \in Row
    BY DEF IndexedRow
  <2> HIDE DEF r
  <2>4. u \in Row /\ u.path = r(o.path) /\ u.typ = o.typ
    BY <2>2, <2>3 DEF Row
  <2> QED
    BY <2>1, <2>4 DEF IndexedRow
<1> QED
  BY <1>2 DEF index_rename

\* The statements that keep every path and type
LEMMA DeleteRows ==
    ASSUME NEW t, t \subseteq IndexedRow, NEW p, NEW d
    PROVE  index_delete(t, d, p) \subseteq IndexedRow
  BY DEF index_delete

LEMMA OfflineRows ==
    ASSUME NEW t, t \subseteq IndexedRow
    PROVE  /\ AllObjectsToOffline(t) \subseteq IndexedRow
           /\ DeleteOfflineObjects(t) \subseteq IndexedRow
<1>1. AllObjectsToOffline(t) \subseteq IndexedRow
  BY DEF AllObjectsToOffline, IndexedRow, Row
<1>2. DeleteOfflineObjects(t) \subseteq IndexedRow
  BY DEF DeleteOfflineObjects
<1> QED
  BY <1>1, <1>2

LEMMA UpdateRows ==
    ASSUME NEW t, t \subseteq IndexedRow, NEW id, NEW info \in Nat
    PROVE  UpdateObject(t, id, info) \subseteq IndexedRow
  BY DEF UpdateObject, IndexedRow, Row, ReindexAt

LEMMA DueRows ==
    ASSUME NEW t, t \subseteq IndexedRow, NEW o \in t
    PROVE  (t \ {o}) \cup {[o EXCEPT !.reindex_at = "due"]} \subseteq IndexedRow
  BY DEF IndexedRow, Row, ReindexAt

\* index_rename makes no row dirty
LEMMA RenameNoNewDirty ==
    ASSUME NEW t, t \subseteq IndexedRow, NEW d, NEW p, NEW q, StatusDirty(t) = {}
    PROVE  StatusDirty(index_rename(t, d, p, q)) = {}
<1>1. ASSUME NEW o \in t, NEW x
      PROVE  [o EXCEPT !.path = x].reindex_at = "null"
  BY DEF StatusDirty, IndexedRow, Row
<1> QED
  BY <1>1 DEF StatusDirty, index_rename

-----------------------------------------------------------------------------
(* Type correctness *)

LEMMA TypeInit == Init => TypeOK
<1> SUFFICES ASSUME Init PROVE TypeOK
  OBVIOUS
<1>1. files \in [Videos -> [ver : Nat, date : Nat]]
  BY DEF Init, NoFile
<1>2. cache \in [Videos -> [date : Nat, info : Nat]]
  BY DEF Init, NoCache
<1>3. done \in BOOLEAN
  BY DEF Init
<1>4. rpc \in Pass \cup {"off", "sleep"} /\ rpc \notin {"stat", "probe", "update"}
  BY DEF Init
<1>5. hpc \in {"idle", "store"} /\ hpc # "store" /\ phase \in {"down", "walking", "running"}
  BY DEF Init
<1>6. /\ clock \in Nat /\ starts \in Nat /\ events \in Nat /\ dirtyFlag \in {0, 1}
      /\ nextId \in Nat \ {0} /\ last \in Nat /\ st \in Nat /\ vinfo \in Nat
  BY DEF Init
<1>7. objects = {} /\ todo = {} /\ visited = {} /\ batch = {}
  BY DEF Init
<1> QED
  BY <1>1, <1>2, <1>3, <1>4, <1>5, <1>6, <1>7 DEF TypeOK

LEMMA TypeEnvironment == TypeOK /\ Environment => TypeOK'
<1> SUFFICES ASSUME TypeOK, Environment PROVE TypeOK'
  OBVIOUS
<1> USE DEF TypeOK, disk, table, process, walk, rx
<1>1. ASSUME NEW p \in Videos, Write(p) PROVE TypeOK'
  BY <1>1 DEF Write, NoFile
<1>2. ASSUME NEW p \in Videos, Delete(p) PROVE TypeOK'
  BY <1>2 DEF Delete, NoFile
<1>3. ASSUME NEW p \in Videos, NEW q \in Videos, Move(p, q) PROVE TypeOK'
  BY <1>3 DEF Move, NoFile
<1>4. ASSUME NEW o \in objects, GapElapses(o) PROVE TypeOK'
  <2>1. objects' \subseteq IndexedRow
    BY <1>4, DueRows DEF GapElapses
  <2> QED
    BY <1>4, <2>1 DEF GapElapses
<1> QED
  BY <1>1, <1>2, <1>3, <1>4 DEF Environment

LEMMA TypeProcess == TypeOK /\ (Start \/ Stop \/ Exit) => TypeOK'
<1> SUFFICES ASSUME TypeOK, Start \/ Stop \/ Exit PROVE TypeOK'
  OBVIOUS
<1> USE DEF TypeOK, disk, table, process, walk, rx
<1>1. CASE Start
  <2>1. objects' \subseteq IndexedRow
    BY <1>1, OfflineRows DEF Start
  <2>2. Roots \subseteq Tree
    BY TreeAssumption DEF Tree
  <2> QED
    BY <1>1, <2>1, <2>2 DEF Start
<1>2. CASE Stop
  BY <1>2 DEF Stop
<1>3. CASE Exit
  BY <1>3 DEF Exit, Fresh
<1> QED
  BY <1>1, <1>2, <1>3

LEMMA TypeWalk == TypeOK /\ Walk => TypeOK'
<1> SUFFICES ASSUME TypeOK, Walk PROVE TypeOK'
  OBVIOUS
<1> USE DEF TypeOK, disk, table, process, walk, rx
<1>1. CASE WalkComplete
  <2>1. objects' \subseteq IndexedRow
    BY <1>1, OfflineRows DEF WalkComplete
  <2> QED
    BY <1>1, <2>1 DEF WalkComplete
<1>2. ASSUME NEW p \in Tree, WalkVisit(p) PROVE TypeOK'
  <2>1. objects' \subseteq IndexedRow
    BY <1>2, IndexAddRows DEF WalkVisit, IndexEvent
  <2> QED
    BY <1>2, <2>1 DEF WalkVisit, IndexEvent, Entries
<1>3. ASSUME NEW p \in Tree, WalkVanished(p) PROVE TypeOK'
  BY <1>3 DEF WalkVanished, Fresh
<1> QED
  BY <1>1, <1>2, <1>3 DEF Walk

LEMMA TypeWatcher == TypeOK /\ Watcher => TypeOK'
<1> SUFFICES ASSUME TypeOK, Watcher PROVE TypeOK'
  OBVIOUS
<1> USE DEF TypeOK, disk, table, process, walk, rx, Arrives
<1>1. ASSUME NEW p \in Tree, Index(p) PROVE TypeOK'
  <2>1. objects' \subseteq IndexedRow
    BY <1>1, IndexAddRows DEF Index, IndexEvent
  <2> QED
    BY <1>1, <2>1 DEF Index, IndexEvent
<1>2. ASSUME NEW p \in Tree, Remove(p) PROVE TypeOK'
  <2>1. objects' \subseteq IndexedRow
    BY <1>2, DeleteRows DEF Remove
  <2> QED
    BY <1>2, <2>1 DEF Remove
<1>3. ASSUME NEW p \in Tree, NEW q \in Tree, Rename(p, q) PROVE TypeOK'
  <2>1. objects' \subseteq IndexedRow
    BY <1>3, IndexRenameRows DEF Rename
  <2> QED
    BY <1>3, <2>1 DEF Rename
<1>4. CASE Store
  BY <1>4 DEF Store, StoreDirty
<1> QED
  BY <1>1, <1>2, <1>3, <1>4 DEF Watcher

LEMMA TypeReindexer == TypeOK /\ Reindexer => TypeOK'
<1> SUFFICES ASSUME TypeOK, Reindexer PROVE TypeOK'
  OBVIOUS
<1> USE DEF TypeOK, disk, table, process, walk, rx, Pass
<1>1. CASE RxTick
  BY <1>1 DEF RxTick
<1>2. CASE RxQuit
  BY <1>2 DEF RxQuit
<1>3. CASE RxScan
  <2>1. batch' \subseteq objects
    BY <1>3 DEF RxScan, FirstById, StatusReindex
  <2> QED
    BY <1>3, <2>1 DEF RxScan
<1>4. CASE RxItem
  <2>1. ASSUME NEW o \in batch
        PROVE  o.id \in Nat \ {0} /\ (o.typ = "video" => o.path \in Videos)
    BY DEF IndexedRow, Row, Tree
  <2> QED
    BY <1>4, <2>1 DEF RxItem
<1>5. CASE RxStat
  BY <1>5 DEF RxStat, NextItem
<1>6. CASE RxProbe
  <2>1. files[cur.path].ver \in Nat
    BY <1>6 DEF RxProbe
  <2>2. cache' \in [Videos -> [date : Nat, info : Nat]]
    BY <1>6, <2>1 DEF RxProbe, NoCache
  <2> QED
    BY <1>6, <2>1, <2>2 DEF RxProbe, NextItem
<1>7. CASE RxUpdate
  <2>1. objects' \subseteq IndexedRow
    BY <1>7, UpdateRows DEF RxUpdate
  <2> QED
    BY <1>7, <2>1 DEF RxUpdate, NextItem
<1>8. CASE RxCheck
  BY <1>8 DEF RxCheck
<1>9. CASE RxQuery
  BY <1>9 DEF RxQuery
<1>10. CASE RxStore
  BY <1>10 DEF RxStore
<1> QED
  BY <1>1, <1>2, <1>3, <1>4, <1>5, <1>6, <1>7, <1>8, <1>9, <1>10 DEF Reindexer

\* Every reachable state is well typed: rows keep the type of their path through
\* every statement of the schema, and the reindexer only ever holds videos.
THEOREM TypeCorrect == Spec => []TypeOK
<1>1. TypeOK /\ [Next]_vars => TypeOK'
  <2> SUFFICES ASSUME TypeOK, [Next]_vars PROVE TypeOK'
    OBVIOUS
  <2>1. CASE Next
    BY <2>1, TypeEnvironment, TypeProcess, TypeWalk, TypeWatcher, TypeReindexer DEF Next
  <2>2. CASE UNCHANGED vars
    BY <2>2 DEF TypeOK, vars, disk, table, process, walk, rx
  <2> QED
    BY <2>1, <2>2
<1> QED
  BY TypeInit, <1>1, PTL DEF Spec

-----------------------------------------------------------------------------
(* No dirty row is forgotten *)

\* The two calls whose failure the code does not make good: the query after a
\* pass (its error is dropped) and the one that decides whether the reindexer
\* is started at all
Dependable == ~May("getOneObject") /\ ~May("DeleteOfflineObjects")

\* DirtyNeverForgotten is not inductive: it says nothing of the walk, after
\* which dirty rows suddenly count.  The walk visits at least one root, so by
\* its end some Index event has set the flag.
FlagInv ==
    /\ phase # "running" => rpc = "off"
    /\ phase = "down" => hpc = "idle"
    /\ phase = "walking" => (todo # {} \/ hpc = "store" \/ dirtyFlag = 1)
    /\ (phase = "running" /\ ~done) => rpc # "off"
    /\ DirtyNeverForgotten

LEMMA FlagInit == Init => FlagInv
  BY DEF Init, FlagInv, DirtyNeverForgotten

LEMMA FlagEnvironment == TypeOK /\ FlagInv /\ Environment => FlagInv'
<1> SUFFICES ASSUME TypeOK, FlagInv, Environment PROVE FlagInv'
  OBVIOUS
<1> USE DEF FlagInv, DirtyNeverForgotten, table, process, walk, rx
<1>1. ASSUME NEW p \in Videos, NEW q \in Videos, Write(p) \/ Delete(p) \/ Move(p, q)
      PROVE  FlagInv'
  BY <1>1 DEF Write, Delete, Move
<1>2. ASSUME NEW o \in objects, GapElapses(o) PROVE FlagInv'
  <2>1. o \in StatusDirty(objects)
    BY <1>2 DEF GapElapses, StatusDirty
  <2> QED
    BY <1>2, <2>1 DEF GapElapses
<1> QED
  BY <1>1, <1>2 DEF Environment

LEMMA FlagProcess == TypeOK /\ FlagInv /\ (Start \/ Stop \/ Exit) => FlagInv'
<1> SUFFICES ASSUME TypeOK, FlagInv, Start \/ Stop \/ Exit PROVE FlagInv'
  OBVIOUS
<1> USE DEF FlagInv, DirtyNeverForgotten, table, process, walk, rx
<1>1. CASE Start
  BY <1>1, TreeAssumption DEF Start
<1>2. CASE Stop
  BY <1>2 DEF Stop
<1>3. CASE Exit
  BY <1>3 DEF Exit, Fresh
<1> QED
  BY <1>1, <1>2, <1>3

LEMMA FlagWalk == ASSUME Dependable PROVE TypeOK /\ FlagInv /\ Walk => FlagInv'
<1> SUFFICES ASSUME TypeOK, FlagInv, Walk PROVE FlagInv'
  OBVIOUS
<1> USE DEF FlagInv, DirtyNeverForgotten, table, process, walk, rx
<1>1. CASE WalkComplete
  BY <1>1 DEF WalkComplete, Dependable
<1>2. ASSUME NEW p \in Tree, WalkVisit(p) PROVE FlagInv'
  BY <1>2 DEF WalkVisit, IndexEvent
<1>3. ASSUME NEW p \in Tree, WalkVanished(p) PROVE FlagInv'
  BY <1>3 DEF WalkVanished, Fresh
<1> QED
  BY <1>1, <1>2, <1>3 DEF Walk

LEMMA FlagWatcher == TypeOK /\ FlagInv /\ Watcher => FlagInv'
<1> SUFFICES ASSUME TypeOK, FlagInv, Watcher PROVE FlagInv'
  OBVIOUS
<1> USE DEF FlagInv, DirtyNeverForgotten, table, process, walk, rx, Arrives
<1>1. ASSUME NEW p \in Tree, Index(p) PROVE FlagInv'
  BY <1>1 DEF Index, IndexEvent
<1>2. ASSUME NEW p \in Tree, Remove(p) PROVE FlagInv'
  <2>1. StatusDirty(objects) = {} => StatusDirty(objects') = {}
    BY <1>2 DEF Remove, StatusDirty, index_delete
  <2> QED
    BY <1>2, <2>1 DEF Remove
<1>3. ASSUME NEW p \in Tree, NEW q \in Tree, Rename(p, q) PROVE FlagInv'
  <2>1. StatusDirty(objects) = {} => StatusDirty(objects') = {}
    BY <1>3, RenameNoNewDirty DEF Rename, TypeOK
  <2> QED
    BY <1>3, <2>1 DEF Rename
<1>4. CASE Store
  BY <1>4 DEF Store, StoreDirty
<1> QED
  BY <1>1, <1>2, <1>3, <1>4 DEF Watcher

LEMMA FlagReindexer == ASSUME Dependable PROVE TypeOK /\ FlagInv /\ Reindexer => FlagInv'
<1> SUFFICES ASSUME TypeOK, FlagInv, Reindexer PROVE FlagInv'
  OBVIOUS
<1> USE DEF FlagInv, DirtyNeverForgotten, table, process, walk, rx, Pass
<1>1. CASE RxTick
  BY <1>1 DEF RxTick
<1>2. CASE RxQuit
  BY <1>2 DEF RxQuit
<1>3. CASE RxScan
  BY <1>3 DEF RxScan
<1>4. CASE RxItem
  BY <1>4 DEF RxItem
<1>5. CASE RxStat
  BY <1>5 DEF RxStat, NextItem
<1>6. CASE RxProbe
  BY <1>6 DEF RxProbe, NextItem
<1>7. CASE RxUpdate
  BY <1>7 DEF RxUpdate, NextItem
<1>8. CASE RxCheck
  BY <1>8 DEF RxCheck, TypeOK
<1>9. CASE RxQuery
  BY <1>9 DEF RxQuery, Dependable
<1>10. CASE RxStore
  BY <1>10 DEF RxStore
<1> QED
  BY <1>1, <1>2, <1>3, <1>4, <1>5, <1>6, <1>7, <1>8, <1>9, <1>10 DEF Reindexer

\* If the two calls of Dependable do not fail, then whatever else fails, whatever
\* the watcher sends and wherever the process is killed, no dirty row of a running
\* server is ever left without a reindexer that will look at it.
THEOREM NothingForgotten ==
    ASSUME Dependable
    PROVE  Spec => []DirtyNeverForgotten
<1>1. TypeOK /\ FlagInv /\ [Next]_vars => FlagInv'
  <2> SUFFICES ASSUME TypeOK, FlagInv, [Next]_vars PROVE FlagInv'
    OBVIOUS
  <2>1. CASE Next
    BY <2>1, FlagEnvironment, FlagProcess, FlagWalk, FlagWatcher, FlagReindexer DEF Next
  <2>2. CASE UNCHANGED vars
    BY <2>2 DEF FlagInv, DirtyNeverForgotten, vars, disk, table, process, walk, rx
  <2> QED
    BY <2>1, <2>2
<1>2. FlagInv => DirtyNeverForgotten
  BY DEF FlagInv
<1> QED
  BY FlagInit, <1>1, <1>2, TypeCorrect, PTL DEF Spec

-----------------------------------------------------------------------------
(* What clients see has been probed *)

\* A row is published with what GetVideoInfo returned, and that is never empty
\* because neither a file nor a cache file is
InfoInv ==
    /\ \A v \in Videos : files[v] # NoFile => files[v].ver # 0 /\ files[v].date # 0
    /\ \A v \in Videos : cache[v].date # 0 => cache[v].info # 0
    /\ rpc = "update" => vinfo # 0
    /\ PublicHasInfo

LEMMA InfoInit == Init => InfoInv
  BY DEF Init, InfoInv, PublicHasInfo, StatusPublic, NoFile, NoCache

\* Statements that publish nothing
LEMMA PublicKept ==
    ASSUME NEW t, t \subseteq IndexedRow, NEW u,
           \A q \in u : \/ q \in t
                        \/ \E o \in t : q = [o EXCEPT !.online = FALSE]
                        \/ \E o \in t : \E x : q = [o EXCEPT !.path = x]
                        \/ q.typ # "video" \/ q.reindex_at # "null",
           \A o \in StatusPublic(t) : o.typ = "video" => o.info # 0
    PROVE  \A o \in StatusPublic(u) : o.typ = "video" => o.info # 0
  BY DEF StatusPublic, IndexedRow, Row

LEMMA PublicAdd ==
    ASSUME NEW t, t \subseteq IndexedRow, NEW next \in Nat \ {0}, NEW d \in BOOLEAN, NEW p,
           \A o \in StatusPublic(t) : o.typ = "video" => o.info # 0
    PROVE  \A o \in StatusPublic(index_add(t, next, d, p)) : o.typ = "video" => o.info # 0
<1>1. ASSUME NEW o \in Row PROVE Upserted(o, d).typ # "video" \/ Upserted(o, d).reindex_at # "null"
  BY DEF Upserted, Row
<1> DEFINE n == [id |-> next, path |-> p, typ |-> "folder", online |-> TRUE,
                 reindex_at |-> "null", info |-> 0]
<1>2. Upserted(n, d).typ # "video" \/ Upserted(n, d).reindex_at # "null"
  BY DEF Upserted
<1>3. t \subseteq Row
  BY DEF IndexedRow
<1> HIDE DEF n
<1>4. index_add(t, next, d, p) = IF \E o \in t : o.path = p
        THEN {IF o.path = p THEN Upserted(o, d) ELSE o : o \in t}
        ELSE t \cup {Upserted(n, d)}
  BY DEF index_add, n
<1> QED
  BY <1>1, <1>2, <1>3, <1>4, PublicKept

LEMMA InfoStep == TypeOK /\ InfoInv /\ Next => InfoInv'
<1> SUFFICES ASSUME TypeOK, InfoInv, Next PROVE InfoInv'
  OBVIOUS
<1> USE DEF InfoInv, PublicHasInfo, disk, table, process, walk, rx
<1>1. ASSUME NEW p \in Videos, Write(p) PROVE InfoInv'
  BY <1>1 DEF Write, TypeOK, NoFile
<1>2. ASSUME NEW p \in Videos, Delete(p) PROVE InfoInv'
  BY <1>2 DEF Delete, TypeOK, NoFile
<1>3. ASSUME NEW p \in Videos, NEW q \in Videos, Move(p, q) PROVE InfoInv'
  BY <1>3 DEF Move, TypeOK, NoFile
<1>4. ASSUME NEW o \in objects, GapElapses(o) PROVE InfoInv'
  <2>1. [o EXCEPT !.reindex_at = "due"].reindex_at = "due"
    BY DEF TypeOK, IndexedRow, Row
  <2> QED
    BY <1>4, <2>1 DEF GapElapses, StatusPublic
<1>5. CASE Start
  <2>1. PublicHasInfo'
    BY <1>5, PublicKept DEF Start, AllObjectsToOffline, TypeOK
  <2> QED
    BY <1>5, <2>1 DEF Start
<1>6. CASE Stop
  BY <1>6 DEF Stop
<1>7. CASE Exit
  BY <1>7 DEF Exit, Fresh
<1>8. CASE Store
  BY <1>8 DEF Store, StoreDirty
<1>9. CASE WalkComplete
  BY <1>9 DEF WalkComplete, DeleteOfflineObjects, StatusPublic
<1>10. ASSUME NEW p \in Tree, WalkVisit(p) \/ Index(p) PROVE InfoInv'
  <2>1. (p \in Folders) \in BOOLEAN /\ nextId \in Nat \ {0} /\ objects \subseteq IndexedRow
    BY DEF TypeOK
  <2> DEFINE t == index_add(objects, nextId, p \in Folders, p)
  <2>2. \A o \in StatusPublic(t) : o.typ = "video" => o.info # 0
    BY <2>1, PublicAdd
  <2>3. objects' = t \/ objects' = objects
    BY <1>10 DEF WalkVisit, Index, IndexEvent
  <2> HIDE DEF t
  <2>4. PublicHasInfo'
    BY <2>2, <2>3
  <2> QED
    BY <1>10, <2>4 DEF WalkVisit, Index
<1>11. ASSUME NEW p \in Tree, WalkVanished(p) PROVE InfoInv'
  BY <1>11 DEF WalkVanished, Fresh
<1>12. ASSUME NEW p \in Tree, Remove(p) PROVE InfoInv'
  BY <1>12 DEF Remove, index_delete, StatusPublic
<1>13. ASSUME NEW p \in Tree, NEW q \in Tree, Rename(p, q) PROVE InfoInv'
  <2>1. ASSUME NEW r \in objects'
        PROVE  \E o \in objects : r = o \/ \E x : r = [o EXCEPT !.path = x]
    BY <1>13 DEF Rename, index_rename
  <2>2. objects \subseteq IndexedRow
    BY DEF TypeOK
  <2>3. ASSUME NEW o \in objects, NEW x, NEW r, r = [o EXCEPT !.path = x]
        PROVE  r.typ = o.typ /\ r.reindex_at = o.reindex_at /\ r.info = o.info
    BY <2>2, <2>3 DEF IndexedRow, Row
  <2>4. ASSUME NEW r \in objects', r.reindex_at = "null", r.typ = "video"
        PROVE  r.info # 0
    <3>1. PICK o \in objects : r = o \/ \E x : r = [o EXCEPT !.path = x]
      BY <2>1
    <3>2. o.typ = r.typ /\ o.reindex_at = r.reindex_at /\ o.info = r.info
      BY <2>3, <3>1
    <3> QED
      BY <2>4, <3>2 DEF StatusPublic
  <2>5. PublicHasInfo'
    BY <2>4 DEF StatusPublic
  <2> QED
    BY <1>13, <2>5 DEF Rename
<1>14. CASE RxTick \/ RxQuit \/ RxScan \/ RxCheck \/ RxQuery \/ RxStore
  BY <1>14 DEF RxTick, RxQuit, RxScan, RxCheck, RxQuery, RxStore
<1>15. CASE RxItem
  BY <1>15 DEF RxItem
<1>16. CASE RxStat
  BY <1>16 DEF RxStat, NextItem, TypeOK
<1>17. CASE RxProbe
  <2>1. \A v \in Videos : (cache[v].date # 0 => cache[v].info # 0)'
    BY <1>17 DEF RxProbe, NextItem, TypeOK, NoCache
  <2> QED
    BY <1>17, <2>1 DEF RxProbe, NextItem, TypeOK
<1>18. CASE RxUpdate
  <2>1. ASSUME NEW o \in objects
        PROVE  [o EXCEPT !.info = vinfo, !.reindex_at = "null"].info = vinfo
    BY DEF TypeOK, IndexedRow, Row
  <2>2. ASSUME NEW q \in UpdateObject(objects, cur.id, vinfo), q \in StatusPublic({q}), q.typ = "video"
        PROVE  q.info # 0
    <3>1. PICK o \in objects : q = IF o.id = cur.id
                                  THEN [o EXCEPT !.info = vinfo, !.reindex_at = "null"] ELSE o
      BY <2>2 DEF UpdateObject
    <3>2. CASE o.id = cur.id
      BY <3>1, <3>2, <2>1, <1>18 DEF RxUpdate
    <3>3. CASE o.id # cur.id
      BY <3>1, <3>3, <2>2 DEF StatusPublic
    <3> QED
      BY <3>2, <3>3
  <2>3. PublicHasInfo'
    BY <1>18, <2>2 DEF RxUpdate, StatusPublic
  <2> QED
    BY <1>18, <2>3 DEF RxUpdate, NextItem
<1> QED
  BY <1>1, <1>2, <1>3, <1>4, <1>5, <1>6, <1>7, <1>8, <1>9, <1>10, <1>11, <1>12, <1>13,
     <1>14, <1>15, <1>16, <1>17, <1>18 DEF Next, Environment, Walk, Watcher, Reindexer

\* Whatever fails, a video that clients can browse has been probed.
THEOREM PublicProbed == Spec => []PublicHasInfo
<1>1. TypeOK /\ InfoInv /\ [Next]_vars => InfoInv'
  <2> SUFFICES ASSUME TypeOK, InfoInv, [Next]_vars PROVE InfoInv'
    OBVIOUS
  <2>1. CASE UNCHANGED vars
    BY <2>1 DEF InfoInv, PublicHasInfo, vars, disk, table, rx
  <2> QED
    BY <2>1, InfoStep
<1>2. InfoInv => PublicHasInfo
  BY DEF InfoInv
<1> QED
  BY InfoInit, <1>1, <1>2, TypeCorrect, PTL DEF Spec

-----------------------------------------------------------------------------
(* A cache file that is accepted describes the file *)

\* What the argument needs of the world: a write shows in size or mtime, and no
\* file with an older date is moved over another
FreshDates == ~SameDate /\ "Move" \notin FsOps

\* Dates only grow: neither a cache file nor the stat the reindexer holds is
\* newer than the clock, so a write always leaves them behind
DateInv ==
    /\ \A v \in Videos : files[v].date = files[v].ver /\ files[v].date <= clock
    /\ \A v \in Videos : cache[v].date <= clock
    /\ st <= clock
    /\ InfoCacheSound

LEMMA DateInit == Init => DateInv
  BY DEF Init, DateInv, InfoCacheSound, NoFile, NoCache

LEMMA DateStep == ASSUME FreshDates PROVE TypeOK /\ DateInv /\ Next => DateInv'
<1> SUFFICES ASSUME TypeOK, DateInv, Next PROVE DateInv'
  OBVIOUS
<1> USE DEF DateInv, InfoCacheSound, disk, table, process, walk, rx
<1>1. ASSUME NEW p \in Videos, Write(p) PROVE DateInv'
  <2>1. files' = [files EXCEPT ![p] = [ver |-> clock + 1, date |-> clock + 1]]
    BY <1>1 DEF Write, FreshDates
  <2>2. clock' = clock + 1 /\ UNCHANGED <<cache, st>>
    BY <1>1 DEF Write
  <2> QED
    BY <2>1, <2>2 DEF TypeOK, NoFile
<1>2. ASSUME NEW p \in Videos, Delete(p) PROVE DateInv'
  BY <1>2 DEF Delete, TypeOK, NoFile
<1>3. ASSUME NEW p \in Videos, NEW q \in Videos, Move(p, q) PROVE DateInv'
  BY <1>3 DEF Move, FreshDates
<1>4. ASSUME NEW o \in objects, GapElapses(o) PROVE DateInv'
  BY <1>4 DEF GapElapses
<1>5. CASE Start \/ Stop
  BY <1>5 DEF Start, Stop
<1>6. CASE Exit
  BY <1>6 DEF Exit, Fresh, TypeOK
<1>7. CASE Walk
  BY <1>7 DEF Walk, WalkComplete, WalkVisit, WalkVanished, Fresh, TypeOK
<1>8. CASE Watcher
  BY <1>8 DEF Watcher, Index, Store, Remove, Rename
<1>9. CASE RxTick \/ RxQuit \/ RxScan \/ RxItem \/ RxCheck \/ RxQuery \/ RxStore
  BY <1>9 DEF RxTick, RxQuit, RxScan, RxItem, RxCheck, RxQuery, RxStore
<1>10. CASE RxStat
  BY <1>10 DEF RxStat, NextItem, TypeOK
<1>11. CASE RxProbe
  <2> DEFINE f == files[cur.path]
  <2>1. cur.path \in Videos /\ f.ver \in Nat /\ UNCHANGED <<files, clock>> /\ st' = 0
    BY <1>11 DEF RxProbe, NextItem, TypeOK
  <2>2. \/ cache' = cache
        \/ cache' = [cache EXCEPT ![cur.path] = NoCache]
        \/ f # NoFile /\ cache' = [cache EXCEPT ![cur.path] = [date |-> st, info |-> f.ver]]
    BY <1>11 DEF RxProbe
  <2>3. CASE cache' = cache
    BY <2>1, <2>3 DEF TypeOK
  <2>4. CASE cache' = [cache EXCEPT ![cur.path] = NoCache]
    BY <2>1, <2>4 DEF TypeOK, NoCache, NoFile
  <2>5. CASE f # NoFile /\ cache' = [cache EXCEPT ![cur.path] = [date |-> st, info |-> f.ver]]
    BY <2>1, <2>5 DEF TypeOK
  <2> QED
    BY <2>2, <2>3, <2>4, <2>5
<1>12. CASE RxUpdate
  BY <1>12 DEF RxUpdate, NextItem, TypeOK
<1> QED
  BY <1>1, <1>2, <1>3, <1>4, <1>5, <1>6, <1>7, <1>8, <1>9, <1>10, <1>11, <1>12
  DEF Next, Environment, Reindexer

\* Writes racing stat, probe and the write of the cache file never leave a cache
\* file that GetVideoInfo would take for a different content.
THEOREM CacheSound ==
    ASSUME FreshDates
    PROVE  Spec => []InfoCacheSound
<1>1. TypeOK /\ DateInv /\ [Next]_vars => DateInv'
  <2> SUFFICES ASSUME TypeOK, DateInv, [Next]_vars PROVE DateInv'
    OBVIOUS
  <2>1. CASE UNCHANGED vars
    BY <2>1 DEF DateInv, InfoCacheSound, vars, disk, rx
  <2> QED
    BY <2>1, DateStep
<1>2. DateInv => InfoCacheSound
  BY DEF DateInv
<1> QED
  BY DateInit, <1>1, <1>2, TypeCorrect, PTL DEF Spec

-----------------------------------------------------------------------------
(* The start-up walk rebuilds the table *)

\* The calls whose failure leaves a path out or an old row in
Rebuilds == ~May("Index") /\ ~May("AllObjectsToOffline") /\ ~May("DeleteOfflineObjects")

\* Paths of the rows that are online
OnlinePaths(t) == {o.path : o \in DeleteOfflineObjects(t)}

\* While the walk runs the rows that are online are those of the paths it has
\* visited: nobody else is at work on the table
WalkInv ==
    /\ phase # "running" => rpc = "off"
    /\ phase = "down" => visited = {}
    /\ phase = "walking" => OnlinePaths(objects) = visited

LEMMA WalkInit == Init => WalkInv
  BY DEF Init, WalkInv

\* index_add puts p online and leaves the others as they are
LEMMA OnlineAdd ==
    ASSUME NEW t, t \subseteq Row, NEW next \in Nat \ {0}, NEW p \in Path
    PROVE  OnlinePaths(index_add(t, next, p \in Folders, p)) = OnlinePaths(t) \cup {p}
<1> DEFINE n == [id |-> next, path |-> p, typ |-> "folder", online |-> TRUE,
                 reindex_at |-> "null", info |-> 0]
<1>1. ASSUME NEW o \in Row PROVE Upserted(o, p \in Folders).online = TRUE /\ Upserted(o, p \in Folders).path = o.path
  BY DEF Upserted, Row
<1>2. n \in Row /\ n.path = p
  BY DEF Row, ReindexAt
<1>3. index_add(t, next, p \in Folders, p) = IF \E o \in t : o.path = p
        THEN {IF o.path = p THEN Upserted(o, p \in Folders) ELSE o : o \in t}
        ELSE t \cup {Upserted(n, p \in Folders)}
  BY DEF index_add
<1> DEFINE new == index_add(t, next, p \in Folders, p)
           u(o) == Upserted(o, p \in Folders)
<1> HIDE DEF n, new, u
<1>4. \A o \in t : o.path = p => u(o) \in new
  BY <1>3 DEF new, u
<1>5. \A o \in t : o.path # p => o \in new
  BY <1>3 DEF new
<1>6. \E o \in Row : o.path = p /\ u(o) \in new
  BY <1>2, <1>3, <1>4 DEF new, u
<1>7. \A x \in new : (x \in t /\ x.path # p) \/ (\E o \in Row : o.path = p /\ x = u(o))
  BY <1>2, <1>3 DEF new, u
<1>8. \A o \in Row : u(o).online = TRUE /\ u(o).path = o.path
  BY <1>1 DEF u
<1>9. \A x \in new : x.online => x.path = p \/ \E o \in t : o.online /\ o.path = x.path
  BY <1>7, <1>8
<1>10. \A o \in t : o.online => \E x \in new : x.online /\ x.path = o.path
  BY <1>4, <1>5, <1>8
<1>11. \E x \in new : x.online /\ x.path = p
  BY <1>6, <1>8
<1> QED
  BY <1>9, <1>10, <1>11 DEF OnlinePaths, DeleteOfflineObjects, new

LEMMA WalkInvStep == ASSUME Rebuilds PROVE TypeOK /\ WalkInv /\ Next => WalkInv'
<1> SUFFICES ASSUME TypeOK, WalkInv, Next PROVE WalkInv'
  OBVIOUS
<1> USE DEF WalkInv, disk, table, process, walk, rx
<1>1. ASSUME NEW p \in Videos, NEW q \in Videos, Write(p) \/ Delete(p) \/ Move(p, q)
      PROVE  WalkInv'
  BY <1>1 DEF Write, Delete, Move
<1>2. ASSUME NEW o \in objects, GapElapses(o) PROVE WalkInv'
  <2> DEFINE d == [o EXCEPT !.reindex_at = "due"]
  <2>1. d.path = o.path /\ d.online = o.online
    BY DEF TypeOK, IndexedRow, Row
  <2>2. objects' = (objects \ {o}) \cup {d}
    BY <1>2 DEF GapElapses
  <2> HIDE DEF d
  <2>3. OnlinePaths(objects') = OnlinePaths(objects)
    BY <2>1, <2>2 DEF OnlinePaths, DeleteOfflineObjects
  <2> QED
    BY <1>2, <2>3 DEF GapElapses
<1>3. CASE Start
  <2>1. OnlinePaths(AllObjectsToOffline(objects)) = {}
    BY DEF OnlinePaths, AllObjectsToOffline, DeleteOfflineObjects, TypeOK, IndexedRow, Row
  <2> QED
    BY <1>3, <2>1 DEF Start, Rebuilds
<1>4. CASE Stop \/ Exit \/ Store
  BY <1>4 DEF Stop, Exit, Fresh, Store, StoreDirty
<1>5. CASE WalkComplete
  BY <1>5 DEF WalkComplete
<1>6. ASSUME NEW p \in Tree, WalkVisit(p) PROVE WalkInv'
  <2>1. objects' = index_add(objects, nextId, p \in Folders, p) /\ visited' = visited \cup {p}
    BY <1>6 DEF WalkVisit, IndexEvent, Rebuilds
  <2>2. objects \subseteq Row /\ nextId \in Nat \ {0} /\ p \in Path
    BY TreeAssumption DEF TypeOK, IndexedRow, Tree
  <2>3. OnlinePaths(index_add(objects, nextId, p \in Folders, p)) = OnlinePaths(objects) \cup {p}
    BY <2>2, OnlineAdd
  <2> QED
    BY <1>6, <2>1, <2>3 DEF WalkVisit
<1>7. ASSUME NEW p \in Tree, WalkVanished(p) PROVE WalkInv'
  BY <1>7 DEF WalkVanished, Fresh
<1>8. ASSUME NEW p \in Tree, NEW q \in Tree, Index(p) \/ Remove(p) \/ Rename(p, q) PROVE WalkInv'
  BY <1>8 DEF Index, Remove, Rename, Arrives
<1>9. CASE Reindexer
  BY <1>9 DEF Reindexer, RxTick, RxQuit, RxScan, RxItem, RxStat, RxProbe, RxUpdate, RxCheck, RxQuery, RxStore
<1> QED
  BY <1>1, <1>2, <1>3, <1>4, <1>5, <1>6, <1>7, <1>8, <1>9 DEF Next, Environment, Walk, Watcher

\* Only the end of the walk gets the process to run, and then the table has the
\* visited paths
LEMMA WalkEndsExact ==
    ASSUME Rebuilds, TypeOK, WalkInv, [Next]_vars
    PROVE  (phase = "walking" /\ phase' = "running") => {o.path : o \in objects'} = visited
<1> SUFFICES ASSUME phase = "walking", phase' = "running" PROVE {o.path : o \in objects'} = visited
  OBVIOUS
<1>1. CASE WalkComplete
  BY <1>1 DEF WalkComplete, WalkInv, Rebuilds, OnlinePaths
<1>2. CASE ~WalkComplete
  BY <1>2 DEF vars, process, Next, Environment, Write, Delete, Move, GapElapses, Start, Stop, Exit, Walk, WalkVisit,
     WalkVanished, Watcher, Index, Remove, Rename, Arrives, Store, Reindexer, RxTick, RxQuit, RxScan,
     RxItem, RxStat, RxProbe, RxUpdate, RxCheck, RxQuery, RxStore
<1> QED
  BY <1>1, <1>2

\* If the three calls of Rebuilds do not fail, a walk that is completed leaves the
\* rows of the paths it has visited and no others, whatever the table held before
\* and however often the process has died in earlier walks.
THEOREM WalkExact ==
    ASSUME Rebuilds
    PROVE  Spec => WalkIsExact
<1>1. TypeOK /\ WalkInv /\ [Next]_vars => WalkInv'
  <2> SUFFICES ASSUME TypeOK, WalkInv, [Next]_vars PROVE WalkInv'
    OBVIOUS
  <2>1. CASE UNCHANGED vars
    BY <2>1 DEF WalkInv, vars, table, process, walk, rx
  <2> QED
    BY <2>1, WalkInvStep
<1>2. TypeOK /\ WalkInv /\ [Next]_vars
        => [(phase = "walking" /\ phase' = "running") => {o.path : o \in objects'} = visited]_vars
  BY WalkEndsExact
<1> QED
  BY WalkInit, <1>1, <1>2, TypeCorrect, PTL DEF Spec, WalkIsExact

-----------------------------------------------------------------------------
(* Browsing up and down *)

\* The UNIQUE constraints of the table: a path has one row, and so has an id
TableInv ==
    /\ \A o, q \in objects : o.path = q.path => o = q
    /\ \A o, q \in objects : o.id = q.id => o = q
    /\ \A o \in objects : o.id < nextId

LEMMA UnderTransitive ==
    ASSUME NEW p \in Path, NEW d \in Path, NEW r \in Path, Under(p, d), Under(d, r) \/ d = r
    PROVE  Under(p, r)
<1> SUFFICES ASSUME Under(d, r) PROVE Under(p, r)
  OBVIOUS
<1>1. Len(p) > Len(d) /\ Len(d) > Len(r) /\ Len(p) \in Nat /\ Len(d) \in Nat /\ Len(r) \in Nat
  BY DEF Under, Path
<1>2. SubSeq(p, 1, Len(d)) = d /\ SubSeq(d, 1, Len(r)) = r
  BY DEF Under
<1>3. \A i \in 1 .. Len(r) : p[i] = r[i]
  BY <1>1, <1>2 DEF Path
<1>4. SubSeq(p, 1, Len(r)) = r
  BY <1>1, <1>3 DEF Path
<1> QED
  BY <1>1, <1>4 DEF Under

LEMMA ParentOfChild ==
    ASSUME NEW p \in Path, NEW d \in Path, Under(p, d), Len(p) = Len(d) + 1
    PROVE  Parent(p) = d
  BY DEF Under, Path, Parent

\* Statements that keep path and id of every row
LEMMA TableSame ==
    ASSUME TableInv, nextId' = nextId,
           \A q \in objects' : \E o \in objects : q.id = o.id /\ q.path = o.path,
           \A o, q \in objects' : o.id = q.id => o = q
    PROVE  TableInv'
  BY DEF TableInv

LEMMA TableAdd ==
    ASSUME TypeOK, TableInv, NEW p \in Tree, nextId' = nextId + 1,
           objects' = index_add(objects, nextId, p \in Folders, p)
    PROVE  TableInv'
<1> DEFINE n == [id |-> nextId, path |-> p, typ |-> "folder", online |-> TRUE,
                 reindex_at |-> "null", info |-> 0]
           u(o) == Upserted(o, p \in Folders)
<1>1. ASSUME NEW o \in Row PROVE u(o).id = o.id /\ u(o).path = o.path
  BY DEF Upserted, Row
<1>2. objects \subseteq Row /\ nextId \in Nat \ {0} /\ \A o \in objects : o.id \in Nat
  BY DEF TypeOK, IndexedRow, Row
<1>3. n \in Row /\ n.path = p /\ n.id = nextId
  BY <1>2, TreeAssumption DEF Row, ReindexAt, Tree
<1>4. objects' = IF \E o \in objects : o.path = p
        THEN {IF o.path = p THEN u(o) ELSE o : o \in objects}
        ELSE objects \cup {u(n)}
  BY DEF index_add
<1> HIDE DEF n, u
<1>5. CASE \E o \in objects : o.path = p
  BY <1>1, <1>2, <1>4, <1>5 DEF TableInv
<1>6. CASE ~\E o \in objects : o.path = p
  BY <1>1, <1>2, <1>3, <1>4, <1>6 DEF TableInv
<1> QED
  BY <1>5, <1>6

LEMMA TableRename ==
    ASSUME TypeOK, TableInv, NEW d, NEW p, NEW r, nextId' = nextId,
           objects' = index_rename(objects, d, p, r)
    PROVE  TableInv'
<1> DEFINE to(o) == [o EXCEPT !.path = Renamed(o.path, d, p, r)]
<1>1. ASSUME NEW o \in objects PROVE to(o).id = o.id /\ to(o).path = Renamed(o.path, d, p, r)
  BY DEF TypeOK, IndexedRow, Row
<1>2. CASE RenameConflicts(objects, d, p, r)
  BY <1>2 DEF index_rename, TableInv
<1>3. CASE ~RenameConflicts(objects, d, p, r)
  <2>1. objects' = {to(o) : o \in objects}
    BY <1>3 DEF index_rename
  <2>2. \A o, q \in objects : Renamed(o.path, d, p, r) = Renamed(q.path, d, p, r) => o.path = q.path
    BY <1>3 DEF RenameConflicts
  <2> HIDE DEF to
  <2> QED
    BY <1>1, <2>1, <2>2 DEF TableInv
<1> QED
  BY <1>2, <1>3

LEMMA TableStep == TypeOK /\ TableInv /\ Next => TableInv'
<1> SUFFICES ASSUME TypeOK, TableInv, Next PROVE TableInv'
  OBVIOUS
<1> USE DEF table
<1>1. CASE objects' \subseteq objects /\ nextId' = nextId
  BY <1>1 DEF TableInv
<1>2. ASSUME NEW o \in objects, GapElapses(o) PROVE TableInv'
  <2> DEFINE d == [o EXCEPT !.reindex_at = "due"]
  <2>1. d.path = o.path /\ d.id = o.id
    BY DEF TypeOK, IndexedRow, Row
  <2>2. objects' = (objects \ {o}) \cup {d} /\ nextId' = nextId
    BY <1>2 DEF GapElapses
  <2> HIDE DEF d
  <2> QED
    BY <2>1, <2>2 DEF TableInv
<1>3. CASE objects' = AllObjectsToOffline(objects) /\ nextId' = nextId
  <2> DEFINE off(o) == [o EXCEPT !.online = FALSE]
  <2>1. ASSUME NEW o \in objects PROVE off(o).path = o.path /\ off(o).id = o.id
    BY DEF TypeOK, IndexedRow, Row
  <2>2. objects' = {off(o) : o \in objects}
    BY <1>3 DEF AllObjectsToOffline
  <2> HIDE DEF off
  <2> QED
    BY <1>3, <2>1, <2>2 DEF TableInv
<1>4. ASSUME NEW p \in Tree, WalkVisit(p) \/ Index(p) PROVE TableInv'
  <2>1. CASE objects' = objects
    BY <1>4, <2>1 DEF WalkVisit, Index, IndexEvent, TableInv, TypeOK, IndexedRow, Row
  <2> QED
    BY <1>4, <2>1, TableAdd DEF WalkVisit, Index, IndexEvent
<1>5. ASSUME NEW p \in Tree, NEW q \in Tree, Rename(p, q) PROVE TableInv'
  BY <1>1, <1>5, TableRename DEF Rename
<1>6. CASE objects' = UpdateObject(objects, cur.id, vinfo) /\ nextId' = nextId
  <2> DEFINE u(o) == [o EXCEPT !.info = vinfo, !.reindex_at = "null"]
  <2>1. ASSUME NEW o \in objects PROVE u(o).path = o.path /\ u(o).id = o.id
    BY DEF TypeOK, IndexedRow, Row
  <2>2. objects' = {IF o.id = cur.id THEN u(o) ELSE o : o \in objects}
    BY <1>6 DEF UpdateObject
  <2> HIDE DEF u
  <2> QED
    BY <1>6, <2>1, <2>2 DEF TableInv
<1>7. CASE Environment \/ Start \/ Stop \/ Exit
  BY <1>1, <1>2, <1>3, <1>7 DEF Environment, Write, Delete, Move, Start, Stop, Exit
<1>8. CASE Walk \/ Watcher
  BY <1>1, <1>4, <1>5, <1>8
  DEF Walk, WalkComplete, WalkVanished, DeleteOfflineObjects, Watcher, Remove, index_delete, Store
<1>9. CASE Reindexer
  BY <1>1, <1>6, <1>9 DEF Reindexer, RxTick, RxQuit, RxScan, RxItem, RxStat, RxProbe, RxUpdate, RxCheck, RxQuery, RxStore
<1> QED
  BY <1>7, <1>8, <1>9 DEF Next

\* What a page shows is among the rows Children selects
LEMMA PageRows ==
    ASSUME NEW t, NEW o, NEW limit, NEW offset
    PROVE  BrowseDirectChildren(t, o, limit, offset).Result
              \subseteq {[ID |-> q.id, ParentID |-> o.id] : q \in ChildRows(t, o)}
  BY DEF BrowseDirectChildren, Children

\* The parent of a row found below o is o
LEMMA ParentIsFolder ==
    ASSUME TypeOK, TableInv, \A r \in Roots : \E f \in StatusPublic(objects) : f.path = r,
           NEW o \in Reachable, NEW q \in ChildRows(objects, o)
    PROVE  ParentId(objects, q) = {o.id}
<1>1. /\ \A x \in StatusPublic(objects) : x \in objects /\ x.id \in Nat \ {0} /\ x.path \in Path
      /\ Roots \subseteq Path /\ Roots # {}
  BY TreeAssumption DEF StatusPublic, TypeOK, IndexedRow, Row
<1>2. q \in StatusPublic(objects)
  BY DEF ChildRows, DirectlyBelow
<1>3. CASE o = VideoRoot /\ SingleRoot
  <2>1. o.id = 0
    BY <1>3 DEF VideoRoot
  <2>2. PICK r \in Roots : Under(q.path, r) /\ Len(q.path) = Len(r) + 1
    BY <1>3, <2>1 DEF ChildRows, DirectlyBelow
  <2>3. Parent(q.path) = r
    BY <1>1, <1>2, <2>2, ParentOfChild
  <2> QED
    BY <1>1, <1>2, <1>3, <2>1, <2>3 DEF ParentId, SingleRoot
<1>4. CASE o = VideoRoot /\ ~SingleRoot
  <2>1. o.id = 0
    BY <1>4 DEF VideoRoot
  <2>2. q.path \in Roots
    BY <1>4, <2>1 DEF ChildRows
  <2> QED
    BY <1>1, <1>2, <1>4, <2>1, <2>2 DEF ParentId
<1>5. CASE o # VideoRoot
  <2>1. o \in StatusPublic(objects) /\ \E r \in Roots : Under(o.path, r) \/ (o.path = r /\ ~SingleRoot)
    BY <1>5 DEF Reachable
  <2>2. Under(q.path, o.path) /\ Parent(q.path) = o.path
    BY <1>1, <1>2, <2>1, ParentOfChild DEF ChildRows, DirectlyBelow
  <2>3. q.path \notin Roots
    BY <1>1, <1>2, <2>1, <2>2, UnderTransitive, TreeAssumption
  <2>4. {x \in StatusPublic(objects) : x.path = Parent(q.path)} = {o}
    BY <1>1, <2>1, <2>2 DEF TableInv
  <2>5. ~(SingleRoot /\ o.path \in Roots)
    BY <1>1, <2>1, TreeAssumption DEF SingleRoot
  <2>6. ParentId(objects, q) = {IF SingleRoot /\ x.path \in Roots THEN 0 ELSE x.id :
                                   x \in {y \in StatusPublic(objects) : y.path = Parent(q.path)}}
    BY <1>1, <1>2, <2>3 DEF ParentId
  <2> QED
    BY <2>4, <2>5, <2>6
<1> QED
  BY <1>3, <1>4, <1>5

LEMMA UpIsDown == TypeOK /\ TableInv => ParentsAgree
<1> SUFFICES ASSUME TypeOK, TableInv, \A r \in Roots : \E f \in StatusPublic(objects) : f.path = r,
                    NEW o \in Reachable, NEW count \in 0 .. 1, NEW q \in ChildRows(objects, o)
             PROVE  LET page == BrowseDirectChildren(objects, o, count, count)
                        seen == {x \in page.Result : x.ID = q.id}
                    IN seen # {} => BrowseMetadata(objects, q).Result = seen
  BY DEF ParentsAgree
<1> DEFINE page == BrowseDirectChildren(objects, o, count, count)
           seen == {x \in page.Result : x.ID = q.id}
<1>1. seen \subseteq {[ID |-> q.id, ParentID |-> o.id]}
  BY PageRows
<1>2. BrowseMetadata(objects, q).Result = {[ID |-> q.id, ParentID |-> o.id]}
  BY ParentIsFolder DEF BrowseMetadata
<1> QED
  BY <1>1, <1>2

\* Whatever the watcher does to the table, and whatever fails, the way up from an
\* object a client was shown is the way it came, for every tree and any roots
\* of which none lies in another.
THEOREM WayUpIsWayDown == Spec => []ParentsAgree
<1>1. Init => TableInv
  BY DEF Init, TableInv
<1>2. TypeOK /\ TableInv /\ [Next]_vars => TableInv'
  <2> SUFFICES ASSUME TypeOK, TableInv, [Next]_vars PROVE TableInv'
    OBVIOUS
  <2>1. CASE UNCHANGED vars
    BY <2>1 DEF TableInv, vars, table
  <2> QED
    BY <2>1, TableStep
<1> QED
  BY <1>1, <1>2, UpIsDown, TypeCorrect, PTL DEF Spec

=============================================================================

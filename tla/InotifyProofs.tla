--------------------------- MODULE InotifyProofs ---------------------------
(* Theorems about Inotify, for all trees, roots, operations and bounds.       *)
EXTENDS Inotify, FiniteSetTheorems, SequenceTheorems, TLAPS

-----------------------------------------------------------------------------
(* Paths *)

\* p is c, or below it
In(p, c) == p = c \/ Under(p, c)

LEMMA InTransitive ==
  ASSUME NEW p \in Path, NEW c \in Path, NEW d \in Path, In(p, c), In(c, d)
  PROVE  In(p, d)
<1> SUFFICES ASSUME Under(p, c), Under(c, d) PROVE Under(p, d)
  BY DEF In
<1>1. Len(p) > Len(c) /\ Len(c) > Len(d) /\ Len(p) \in Nat /\ Len(c) \in Nat /\ Len(d) \in Nat
  BY DEF Under, Path
<1>2. SubSeq(p, 1, Len(c)) = c /\ SubSeq(c, 1, Len(d)) = d
  BY DEF Under
<1>3. \A i \in 1 .. Len(d) : p[i] = d[i]
  BY <1>1, <1>2 DEF Path
<1>4. SubSeq(p, 1, Len(d)) = d
  BY <1>1, <1>3 DEF Path
<1> QED
  BY <1>1, <1>4 DEF Under

LEMMA ParentAndBase ==
  ASSUME NEW p \in Path \ {<< >>}
  PROVE  /\ Parent(p) \in Path /\ Base(p) \in Names
         /\ Append(Parent(p), Base(p)) = p
         /\ Len(Parent(p)) = Len(p) - 1
         /\ Under(p, Parent(p)) /\ ~In(Parent(p), p)
<1>1. Len(p) \in Nat /\ Len(p) > 0 /\ p \in Seq(Names)
  BY DEF Path
<1>2. Parent(p) \in Seq(Names) /\ Len(Parent(p)) = Len(p) - 1
      /\ \A i \in 1 .. Len(p) - 1 : Parent(p)[i] = p[i]
  BY <1>1 DEF Parent
<1>3. Base(p) \in Names /\ Base(p) = p[Len(p)]
  BY <1>1 DEF Base
<1>4. Append(Parent(p), Base(p)) = p
  <2> DEFINE a == Append(Parent(p), Base(p))
  <2>1. a \in Seq(Names) /\ Len(a) = Len(p)
    BY <1>1, <1>2, <1>3
  <2>2. \A i \in 1 .. Len(p) : a[i] = p[i]
    BY <1>1, <1>2, <1>3
  <2> HIDE DEF a
  <2>3. a = p
    BY <1>1, <2>1, <2>2
  <2> QED
    BY <2>3 DEF a
<1>5. Under(p, Parent(p)) /\ ~In(Parent(p), p)
  <2>1. SubSeq(p, 1, Len(Parent(p))) = Parent(p)
    BY <1>1, <1>2 DEF Parent
  <2> QED
    BY <1>1, <1>2, <2>1 DEF Under, In
<1> QED
  BY <1>2, <1>3, <1>4, <1>5 DEF Path

LEMMA ParentOfAppend ==
  ASSUME NEW c \in Path, NEW x \in Names
  PROVE  Append(c, x) \in Path \ {<< >>} /\ Parent(Append(c, x)) = c /\ Under(Append(c, x), c)
<1>1. c \in Seq(Names) /\ Len(c) \in Nat
  BY DEF Path
<1> DEFINE a == Append(c, x)
<1>2. a \in Seq(Names) /\ Len(a) = Len(c) + 1 /\ \A i \in 1 .. Len(c) : a[i] = c[i]
  BY <1>1
<1>3. SubSeq(a, 1, Len(c)) = c
  <2>1. /\ SubSeq(a, 1, Len(c)) \in Seq(Names) /\ Len(SubSeq(a, 1, Len(c))) = Len(c)
        /\ \A i \in 1 .. Len(c) : SubSeq(a, 1, Len(c))[i] = c[i]
    BY <1>1, <1>2
  <2> QED
    BY <1>1, <2>1, SeqEqual
<1> HIDE DEF a
<1>4. a \in Path \ {<< >>} /\ Parent(a) = c /\ Under(a, c)
  BY <1>1, <1>2, <1>3 DEF Path, Parent, Under
<1> QED
  BY <1>4 DEF a

\* Whoever is below c is in a child of c, and its parent is in c
LEMMA ChildTowards ==
  ASSUME NEW p \in Path, NEW c \in Path, Under(p, c)
  PROVE  LET b == SubSeq(p, 1, Len(c) + 1)
         IN  /\ b \in Path \ {<< >>} /\ Parent(b) = c /\ In(p, b)
             /\ In(Parent(p), c)
<1> DEFINE b == SubSeq(p, 1, Len(c) + 1)
<1>1. p \in Seq(Names) /\ c \in Seq(Names) /\ Len(p) \in Nat /\ Len(c) \in Nat /\ Len(p) > Len(c)
      /\ SubSeq(p, 1, Len(c)) = c
  BY DEF Path, Under
<1>2. b \in Seq(Names) /\ Len(b) = Len(c) + 1 /\ \A i \in 1 .. Len(c) + 1 : b[i] = p[i]
  BY <1>1
<1>3. Parent(b) = c
  <2>1. Parent(b) \in Seq(Names) /\ Len(Parent(b)) = Len(c) /\ \A i \in 1 .. Len(c) : Parent(b)[i] = p[i]
    BY <1>2 DEF Parent
  <2> QED
    BY <1>1, <2>1
<1>4. In(p, b)
  <2>1. CASE Len(p) = Len(c) + 1
    BY <1>1, <1>2, <2>1 DEF In
  <2>2. CASE Len(p) > Len(c) + 1
    BY <1>1, <1>2, <2>2 DEF In, Under
  <2> QED
    BY <1>1, <2>1, <2>2
<1>5. In(Parent(p), c)
  <2>1. Parent(p) \in Seq(Names) /\ Len(Parent(p)) = Len(p) - 1
        /\ \A i \in 1 .. Len(p) - 1 : Parent(p)[i] = p[i]
    BY <1>1, SMTT(30) DEF Parent
  <2>2. CASE Len(p) = Len(c) + 1
    BY <1>1, <2>1, <2>2 DEF In
  <2>3. CASE Len(p) > Len(c) + 1
    <3>1. SubSeq(Parent(p), 1, Len(c)) = c
      BY <1>1, <2>1, <2>3
    <3> QED
      BY <1>1, <2>1, <2>3, <3>1 DEF In, Under
  <2> QED
    BY <1>1, <2>2, <2>3
<1>6. b \in Path \ {<< >>}
  BY <1>1, <1>2 DEF Path
<1> QED
  BY <1>3, <1>4, <1>5, <1>6

\* A parent in the tree is a folder
LEMMA ParentIsFolder ==
  ASSUME NEW p \in Tree, Parent(p) \in Tree
  PROVE  Parent(p) \in Folders
<1>1. p \in Path \ {<< >>} /\ Len(p) \in Nat \ {0}
  BY TreeAssumption DEF Path
<1>2. Under(p, Parent(p))
  BY <1>1, ParentAndBase
<1>3. Len(Parent(p)) = Len(p) - 1
  BY <1>1, ParentAndBase
<1>4. \A k \in Len(Parent(p)) .. Len(p) - 1 : SubSeq(p, 1, k) \in Folders
  BY <1>2, TreeAssumption
<1>5. Len(p) - 1 \in Len(Parent(p)) .. Len(p) - 1
  BY <1>1, <1>3
<1> QED
  BY <1>4, <1>5 DEF Parent

\* A path is ignored with everything below it
LEMMA IgnoredBelow ==
  ASSUME NEW p \in Path, NEW c \in Path, In(p, c), shouldIgnore(c)
  PROVE  shouldIgnore(p)
  BY DEF Path, In, Under, shouldIgnore

\* The directory an event about p is queued for
LEMMA Folder ==
  ASSUME NEW p \in Tree \ Top
  PROVE  /\ p \in Path \ {<< >>} /\ Parent(p) \in Folders /\ Parent(p) \in Tree
         /\ At(Parent(p)) = tree[Parent(p)]
  BY TreeAssumption DEF Tree, At

-----------------------------------------------------------------------------
(* Maps and sequences *)

LEMMA SetToSeqOfOne ==
  ASSUME NEW x
  PROVE  SetToSeq({x}) = <<x>>
<1>1. Cardinality({x}) = 1
  BY FS_Singleton
<1>2. <<x>> \in [1 .. Cardinality({x}) -> {x}] /\ IsInjective(<<x>>)
  BY <1>1 DEF IsInjective
<1>3. SetToSeq({x}) \in [1 .. Cardinality({x}) -> {x}]
  BY <1>2 DEF SetToSeq
<1> QED
  BY <1>1, <1>3

LEMMA SetToSeqOfNone == SetToSeq({}) = << >>
<1>1. Cardinality({}) = 0
  BY FS_EmptySet
<1>2. << >> \in [1 .. 0 -> {}] /\ IsInjective(<< >>)
  BY DEF IsInjective
<1>3. SetToSeq({}) \in [1 .. 0 -> {}]
  BY <1>1, <1>2 DEF SetToSeq
<1> QED
  BY <1>3

-----------------------------------------------------------------------------
(* What holds as long as nothing is moved and every walk meets the tree it has *)
(* read of.  P gives the directory each wd was made for.                       *)

Places(P) ==
    /\ nextWd \in Nat \ {0}
    /\ P \in [1 .. nextWd - 1 -> Folders]

\* What is above something is there too, and an inode has one name
Rooted ==
    /\ ops \in Nat
    /\ DOMAIN tree = Tree
    /\ \A p \in Top : tree[p] # NoNode
    /\ \A p \in Tree, d \in Folders : (tree[p] # NoNode /\ Under(p, d)) => tree[d] # NoNode
    /\ \A p \in Folders : tree[p] # NoNode => \E k \in Nat : tree[p] = <<p, k>>
    /\ \A o \in open : o.name \in Names

\* The watches: of directories that are there, one for each, and of what is above
\* them up to a root
Watches(P) ==
    /\ DOMAIN kernel \subseteq 1 .. nextWd - 1
    /\ \A w \in DOMAIN kernel :
          /\ kernel[w] = tree[P[w]] /\ kernel[w] # NoNode
          /\ ~shouldIgnore(P[w])
          /\ P[w] \in Roots \/ \E v \in DOMAIN kernel : P[v] = Parent(P[w])
    /\ \A v, w \in DOMAIN kernel : P[v] = P[w] => v = w

Map(P) ==
    /\ DOMAIN pathByWd \subseteq 1 .. nextWd - 1
    /\ \A w \in DOMAIN pathByWd : pathByWd[w] = P[w]
    /\ \A p \in DOMAIN wdByPath : wdByPath[p] \in DOMAIN pathByWd /\ P[wdByPath[p]] = p

Queued == [wd : Nat, mask : {"CREATE", "CLOSE_WRITE", "DELETE"}, name : Names,
           isDir : BOOLEAN, cookie : Nat]

\* The path the event e is about
PathOf(P, e) == Append(P[e.wd], e.name)

About(P, e) ==
    /\ e \in Queued
    /\ e.wd \in 1 .. nextWd - 1
    /\ e.mask \in {"CREATE", "DELETE"} => /\ PathOf(P, e) \in Tree \ Top
                                          /\ e.isDir <=> PathOf(P, e) \in Folders
    /\ e.mask = "CREATE" => e.isDir

Events(P) ==
    /\ queue \in Seq(Queued)
    /\ \A i \in 1 .. Len(queue) : About(P, queue[i])

Stages ==
    /\ rpc \in {"walk", "add", "index", "next", "send"}
    /\ todo \subseteq Tree /\ names \subseteq Tree
    /\ rpc \in {"add", "index"} => cur \in Folders /\ ~shouldIgnore(cur)
    /\ mvs = {}

Deleted(P, k, p) == k \in 1 .. Len(queue) /\ queue[k].mask = "DELETE" /\ PathOf(P, queue[k]) = p

\* Between the events k and j there is one that has the reader walk to p
Told(P, p, k, j) ==
    \E i \in 1 .. Len(queue) :
        /\ k < i /\ i < j
        /\ queue[i].mask = "CREATE" /\ queue[i].wd \in DOMAIN kernel
        /\ In(p, PathOf(P, queue[i]))

\* The reader walks, and will come to p
Ahead(p) ==
    \/ rpc \in {"walk", "add", "index"} /\ \E c \in todo : In(p, c)
    \/ rpc \in {"add", "index"} /\ \E c \in names : In(p, c)
    \/ rpc = "add" /\ cur = p

\* The map must know w by the j-th event
Needed(w, j) == j \in 1 .. Len(queue) + 1 /\ (j <= Len(queue) => queue[j].wd = w)

\* The map knows a watch, or will when it is needed
Known1(P) == \A w \in DOMAIN kernel, j \in Nat :
    Needed(w, j) => w \in DOMAIN pathByWd \/ Ahead(P[w]) \/ Told(P, P[w], 0, j)

\* ... though an earlier directory of the same name makes it forget
Known2(P) == \A w \in DOMAIN kernel, j, k \in Nat :
    (Needed(w, j) /\ Deleted(P, k, P[w])) => k < j /\ Told(P, P[w], k, j)

\* Whatever is made again in a watched directory is told of after the deletion
Again(P) == \A d \in Folders :
    (tree[d] # NoNode /\ \E w \in DOMAIN kernel : P[w] = Parent(d)) =>
        \A k \in Nat : Deleted(P, k, d) => Told(P, d, k, Len(queue) + 1)

\* The deletion of a directory follows the events in it
Gone(P) == \A k \in 1 .. Len(queue) : queue[k].wd \notin DOMAIN kernel =>
    \E m \in Nat : m > k /\ Deleted(P, m, P[queue[k].wd])

State(P) == Places(P) /\ Rooted /\ Watches(P) /\ Map(P) /\ Events(P) /\ Stages
Order(P) == Known1(P) /\ Known2(P) /\ Again(P) /\ Gone(P)

DeafInv == (~moved /\ ~disturbed) => \E P : State(P) /\ Order(P)

LEMMA SameInode ==
  ASSUME NEW P, State(P), NEW w \in DOMAIN kernel, NEW p \in Folders
  PROVE  kernel[w] = At(p) <=> P[w] = p
<1>1. P[w] \in Folders /\ kernel[w] = tree[P[w]] /\ kernel[w] # NoNode
  BY DEF State, Places, Watches
<1>2. At(p) = tree[p]
  BY DEF At, Tree
<1>3. PICK k \in Nat : tree[P[w]] = <<P[w], k>>
  BY <1>1 DEF State, Rooted
<1>4. tree[p] # NoNode => \E m \in Nat : tree[p] = <<p, m>>
  BY DEF State, Rooted
<1> QED
  BY <1>1, <1>2, <1>3, <1>4

\* An event about p is queued for the watch of its directory, if there is one
LEMMA EventQueued ==
  ASSUME NEW P, State(P), NEW p \in Tree \ Top, NEW mask \in {"CREATE", "DELETE"},
         mask = "CREATE" => p \in Folders
  PROVE  LET q == Queue(queue, Event(At(Parent(p)), p, mask))
         IN  \/ (\A w \in DOMAIN kernel : P[w] # Parent(p)) /\ q = queue
             \/ \E e : /\ q = Append(queue, e)
                       /\ About(P, e) /\ e.mask = mask /\ PathOf(P, e) = p
                       /\ e.wd \in DOMAIN kernel /\ P[e.wd] = Parent(p)
<1> DEFINE e(u) == [wd |-> u, mask |-> mask, name |-> Base(p), isDir |-> p \in Folders, cookie |-> ops]
           W == {v \in DOMAIN kernel : kernel[v] = At(Parent(p))}
           q == Queue(queue, Event(At(Parent(p)), p, mask))
<1>1. Event(At(Parent(p)), p, mask) = {e(u) : u \in W}
  BY DEF Event
<1>2. \A w \in DOMAIN kernel : w \in W <=> P[w] = Parent(p)
  BY Folder, SameInode
<1>3. queue \in Seq(Queued)
  BY DEF State, Events
<1>4. CASE W = {}
  <2>1. Event(At(Parent(p)), p, mask) = {}
    BY <1>1, <1>4
  <2>2. q = queue
    BY <1>3, <2>1, SetToSeqOfNone, ConcatEmptySeq DEF Queue
  <2> QED
    BY <1>2, <1>4, <2>2
<1>5. ASSUME NEW u \in W
      PROVE  /\ q = Append(queue, e(u)) /\ About(P, e(u)) /\ e(u).mask = mask /\ PathOf(P, e(u)) = p
             /\ e(u).wd \in DOMAIN kernel /\ P[e(u).wd] = Parent(p)
  <2>1. W = {u}
    BY <1>2, <1>5 DEF State, Watches
  <2>2. Event(At(Parent(p)), p, mask) = {e(u)}
    BY <1>1, <2>1
  <2>3. SetToSeq({e(u)}) = <<e(u)>>
    BY SetToSeqOfOne
  <2>4. q = queue \o <<e(u)>>
    BY <2>2, <2>3 DEF Queue
  <2>5. queue \o <<e(u)>> = Append(queue, e(u))
    BY <1>3
  <2>6. P[u] = Parent(p) /\ u \in DOMAIN kernel /\ u \in 1 .. nextWd - 1 /\ u \in Nat
    BY <1>2, <1>5 DEF State, Watches, Places
  <2>7. PathOf(P, e(u)) = p
    BY <2>6, ParentAndBase, Folder DEF PathOf
  <2>8. e(u) \in Queued
    BY <2>6, ParentAndBase, Folder DEF Queued, State, Rooted
  <2>9. About(P, e(u))
    BY <2>6, <2>7, <2>8 DEF About
  <2> HIDE DEF q
  <2> QED
    BY <2>4, <2>5, <2>6, <2>7, <2>9
<1> HIDE DEF e, q
<1> QED
  BY <1>2, <1>4, <1>5 DEF q

\* What others do: an event e may be queued, for a watch that stays
LEMMA OrderGrows ==
  ASSUME NEW P, State(P), Order(P), Watches(P)', Rooted', NEW e,
         DOMAIN kernel' \subseteq DOMAIN kernel,
         UNCHANGED <<nextWd, pathByWd, rpc, todo, cur, names>>,
         queue' = queue \/ (queue' = Append(queue, e) /\ e.wd \in DOMAIN kernel'),
         \* what is there needs none of the watches that go
         \A d \in Folders, i \in 1 .. Len(queue) :
             (tree'[d] # NoNode /\ queue[i].wd \in DOMAIN kernel /\ In(d, PathOf(P, queue[i])))
                 => queue[i].wd \in DOMAIN kernel',
         \* e tells what has changed
         queue' # queue /\ e.mask = "DELETE" =>
             \A d \in Folders : PathOf(P, e) = d => tree'[d] = NoNode,
         \A d \in Folders : (tree[d] = NoNode /\ tree'[d] # NoNode /\ \E w \in DOMAIN kernel' : P[w] = Parent(d)) =>
             queue' = Append(queue, e) /\ e.mask = "CREATE" /\ PathOf(P, e) = d,
         \A k \in 1 .. Len(queue) : queue[k].wd \in DOMAIN kernel \ DOMAIN kernel' =>
             queue' = Append(queue, e) /\ e.mask = "DELETE" /\ PathOf(P, e) = P[queue[k].wd]
  PROVE  Order(P)'
<1>1. queue \in Seq(Queued) /\ Len(queue) \in Nat
  BY DEF State, Events
<1> PICK n \in Nat : n = Len(queue)
  BY <1>1
<1>2. /\ \A i \in 1 .. n : queue'[i] = queue[i]
      /\ queue' = queue => Len(queue') = n
      /\ queue' # queue => Len(queue') = n + 1 /\ queue'[n + 1] = e /\ e.wd \in DOMAIN kernel'
      /\ Len(queue') \in {n, n + 1}
  BY <1>1
<1>3. \A w \in DOMAIN kernel' : /\ w \in DOMAIN kernel /\ P[w] \in Folders
                                /\ tree'[P[w]] # NoNode
  BY DEF State, Places, Watches
<1>4. ASSUME NEW d \in Folders, tree'[d] # NoNode, NEW k \in Nat, NEW j \in Nat, Told(P, d, k, j)
      PROVE  Told(P, d, k, j)'
  BY <1>1, <1>2, <1>4 DEF Told, PathOf
<1>5. ASSUME NEW d \in Folders, NEW k \in Nat, tree'[d] # NoNode, Deleted(P, k, d)'
      PROVE  Deleted(P, k, d)
  <2>1. k \in 1 .. Len(queue')
    BY <1>5 DEF Deleted
  <2>2. CASE k \in 1 .. n
    BY <1>2, <1>5, <2>2 DEF Deleted, PathOf
  <2>3. CASE k \notin 1 .. n
    <3>1. queue' # queue /\ k = n + 1
      BY <1>1, <1>2, <2>1, <2>3
    <3> QED
      BY <1>2, <1>5, <3>1 DEF Deleted, PathOf
  <2> QED
    BY <2>2, <2>3
<1>6. ASSUME NEW w \in DOMAIN kernel', NEW j \in Nat, Needed(w, j)'
      PROVE  \E i \in Nat : i <= j /\ Needed(w, i) /\ (i < j => i = n + 1)
  <2>1. CASE j \in 1 .. n
    BY <1>1, <1>2, <1>6, <2>1 DEF Needed
  <2>2. CASE j \notin 1 .. n
    BY <1>1, <1>2, <1>6, <2>2 DEF Needed
  <2> QED
    BY <2>1, <2>2
<1>7. Known1(P)'
  <2> SUFFICES ASSUME NEW w \in DOMAIN kernel', NEW j \in Nat, Needed(w, j)'
               PROVE  w \in DOMAIN pathByWd \/ Ahead(P[w]) \/ Told(P, P[w], 0, j)'
    BY DEF Known1, Ahead
  <2>1. PICK i \in Nat : i <= j /\ Needed(w, i)
    BY <1>6
  <2>2. w \in DOMAIN pathByWd \/ Ahead(P[w]) \/ Told(P, P[w], 0, i)
    BY <1>3, <2>1 DEF Order, Known1
  <2>3. Told(P, P[w], 0, i) => Told(P, P[w], 0, j)
    BY <1>1, <2>1 DEF Told
  <2> QED
    BY <1>3, <1>4, <2>2, <2>3
<1>8. Known2(P)'
  <2> SUFFICES ASSUME NEW w \in DOMAIN kernel', NEW j \in Nat, NEW k \in Nat, Needed(w, j)', Deleted(P, k, P[w])'
               PROVE  k < j /\ Told(P, P[w], k, j)'
    BY DEF Known2
  <2>1. PICK i \in Nat : i <= j /\ Needed(w, i)
    BY <1>6
  <2>2. k < i /\ Told(P, P[w], k, i)
    BY <1>3, <1>5, <2>1 DEF Order, Known2
  <2>3. k < j /\ Told(P, P[w], k, j)
    BY <1>1, <2>1, <2>2 DEF Told
  <2> QED
    BY <1>3, <1>4, <2>3
<1>9. Again(P)'
  <2> SUFFICES ASSUME NEW d \in Folders, tree'[d] # NoNode, NEW w \in DOMAIN kernel', P[w] = Parent(d),
                      NEW k \in Nat, Deleted(P, k, d)'
               PROVE  Told(P, d, k, Len(queue) + 1)'
    BY DEF Again
  <2>1. Deleted(P, k, d) /\ k \in 1 .. n
    BY <1>5 DEF Deleted
  <2>2. CASE tree[d] # NoNode
    <3>1. Told(P, d, k, n + 1)
      BY <1>3, <2>1, <2>2 DEF Order, Again
    <3>2. Told(P, d, k, n + 1)'
      BY <1>4, <3>1
    <3> QED
      BY <1>1, <1>2, <3>2 DEF Told
  <2>3. CASE tree[d] = NoNode
    <3>1. queue' = Append(queue, e) /\ e.mask = "CREATE" /\ PathOf(P, e) = d
      BY <2>3
    <3>2. queue' # queue
      BY <1>1, <3>1
    <3>3. Len(queue') = n + 1 /\ queue'[n + 1] = e /\ e.wd \in DOMAIN kernel' /\ n + 1 \in 1 .. Len(queue')
          /\ k < n + 1 /\ n + 1 < Len(queue') + 1
      BY <1>2, <2>1, <3>2
    <3> QED
      BY <3>1, <3>3 DEF Told, In, PathOf
  <2> QED
    BY <2>2, <2>3
<1>10. Gone(P)'
  <2> SUFFICES ASSUME NEW k \in 1 .. Len(queue'), queue'[k].wd \notin DOMAIN kernel'
               PROVE  \E m \in Nat : m > k /\ Deleted(P, m, P[queue[k].wd])'
    BY DEF Gone
  <2>1. k \in 1 .. n /\ queue'[k] = queue[k]
    BY <1>1, <1>2
  <2>2. CASE queue[k].wd \notin DOMAIN kernel
    <3>1. PICK m \in Nat : m > k /\ Deleted(P, m, P[queue[k].wd])
      BY <2>1, <2>2 DEF Order, Gone
    <3>2. m \in 1 .. Len(queue') /\ queue'[m] = queue[m]
      BY <1>2, <3>1 DEF Deleted
    <3> QED
      BY <2>1, <3>1, <3>2 DEF Deleted, PathOf
  <2>3. CASE queue[k].wd \in DOMAIN kernel
    <3>1. queue' = Append(queue, e) /\ e.mask = "DELETE" /\ PathOf(P, e) = P[queue[k].wd]
      BY <2>1, <2>3
    <3>2. queue' # queue
      BY <1>1, <3>1
    <3>3. Len(queue') = n + 1 /\ queue'[n + 1] = e /\ n + 1 \in 1 .. Len(queue') /\ n + 1 > k /\ n + 1 \in Nat
      BY <1>2, <2>1, <3>2
    <3>4. Deleted(P, n + 1, P[queue[k].wd])'
      BY <2>1, <3>1, <3>3 DEF Deleted, PathOf
    <3> QED
      BY <3>3, <3>4
  <2> QED
    BY <2>2, <2>3
<1> QED
  BY <1>7, <1>8, <1>9, <1>10 DEF Order

\* The reader takes an event: one that has it walk does so, and what makes the map
\* forget a watch is the deletion of a directory of its name
LEMMA OrderShifts ==
  ASSUME NEW P, State(P), Order(P), rpc = "next", queue # << >>, queue' = Tail(queue),
         UNCHANGED <<tree, kernel, nextWd>>,
         \A w \in DOMAIN kernel : w \in DOMAIN pathByWd => w \in DOMAIN pathByWd' \/ Deleted(P, 1, P[w]),
         \A w \in DOMAIN kernel : (Told(P, P[w], 0, 2)) => Ahead(P[w])'
  PROVE  Order(P)'
<1>0. Len(queue) \in Nat \ {0}
  BY DEF State, Events
<1> PICK n \in Nat \ {0} : n = Len(queue)
  BY <1>0
<1>1. Len(queue') = n - 1 /\ \A i \in 1 .. n - 1 : queue'[i] = queue[i + 1]
  BY DEF State, Events
<1>2. ASSUME NEW p, NEW k \in Nat, NEW j \in Nat,
             Told(P, p, k + 1, j + 1) \/ (k = 0 /\ Told(P, p, 0, j + 1) /\ ~Told(P, p, 0, 2))
      PROVE  Told(P, p, k, j)'
  <2>1. PICK i \in 1 .. n : /\ k < i /\ i < j + 1 /\ i # 1
                            /\ queue[i].mask = "CREATE" /\ queue[i].wd \in DOMAIN kernel
                            /\ In(p, PathOf(P, queue[i]))
    BY <1>1, <1>2 DEF Told
  <2>2. i - 1 \in 1 .. Len(queue') /\ queue'[i - 1] = queue[i] /\ k < i /\ i - 1 < j
    BY <1>1, <2>1
  <2>3. CASE k < i - 1
    BY <2>1, <2>2, <2>3 DEF Told, PathOf
  <2> QED
    BY <1>2, <2>1, <2>2, <2>3 DEF Told, PathOf
<1>3. ASSUME NEW w \in DOMAIN kernel, NEW j \in Nat, Needed(w, j)' PROVE Needed(w, j + 1)
  BY <1>1, <1>3 DEF Needed
<1>4. ASSUME NEW p, NEW k \in Nat, Deleted(P, k, p)' PROVE Deleted(P, k + 1, p)
  BY <1>1, <1>4 DEF Deleted, PathOf
<1>5. Known1(P)'
  <2> SUFFICES ASSUME NEW w \in DOMAIN kernel, NEW j \in Nat, Needed(w, j)'
               PROVE  w \in DOMAIN pathByWd' \/ Ahead(P[w])' \/ Told(P, P[w], 0, j)'
    BY DEF Known1
  <2>1. Needed(w, j + 1)
    BY <1>3
  <2>2. w \in DOMAIN pathByWd \/ Told(P, P[w], 0, j + 1)
    BY <2>1 DEF Order, Known1, Ahead
  <2>3. CASE Told(P, P[w], 0, 2)
    BY <2>3
  <2>4. CASE Told(P, P[w], 0, j + 1) /\ ~Told(P, P[w], 0, 2)
    BY <1>2, <2>1, <2>4
  <2>5. CASE Deleted(P, 1, P[w])
    <3>1. Told(P, P[w], 1, j + 1)
      BY <2>1, <2>5 DEF Order, Known2
    <3>2. Told(P, P[w], 0 + 1, j + 1)
      BY <3>1
    <3> QED
      BY <1>2, <3>2
  <2> QED
    BY <2>2, <2>3, <2>4, <2>5
<1>6. Known2(P)'
  <2> SUFFICES ASSUME NEW w \in DOMAIN kernel, NEW j \in Nat, NEW k \in Nat, Needed(w, j)', Deleted(P, k, P[w])'
               PROVE  k < j /\ Told(P, P[w], k, j)'
    BY DEF Known2
  <2>1. k + 1 < j + 1 /\ Told(P, P[w], k + 1, j + 1)
    BY <1>3, <1>4 DEF Order, Known2
  <2> QED
    BY <1>2, <2>1
<1>7. Again(P)'
  <2> SUFFICES ASSUME NEW d \in Folders, tree[d] # NoNode, NEW w \in DOMAIN kernel, P[w] = Parent(d),
                      NEW k \in Nat, Deleted(P, k, d)'
               PROVE  Told(P, d, k, Len(queue) + 1)'
    BY DEF Again
  <2>1. Told(P, d, k + 1, n + 1)
    BY <1>4 DEF Order, Again
  <2>2. Told(P, d, k, n)'
    BY <1>2, <2>1
  <2> QED
    BY <1>1, <2>2 DEF Told
<1>8. Gone(P)'
  <2> SUFFICES ASSUME NEW k \in 1 .. Len(queue'), queue'[k].wd \notin DOMAIN kernel
               PROVE  \E m \in Nat : m > k /\ Deleted(P, m, P[queue[k].wd])'
    BY DEF Gone
  <2>1. k + 1 \in 1 .. n /\ queue'[k] = queue[k + 1]
    BY <1>1
  <2>2. PICK m \in Nat : m > k + 1 /\ Deleted(P, m, P[queue[k + 1].wd])
    BY <2>1 DEF Order, Gone
  <2>3. PICK i \in Nat : m = i + 1
    BY <2>2
  <2>4. i > k /\ i \in 1 .. Len(queue') /\ queue'[i] = queue[m]
    BY <1>1, <2>1, <2>2, <2>3 DEF Deleted
  <2> QED
    BY <2>1, <2>2, <2>4 DEF Deleted, PathOf
<1> QED
  BY <1>5, <1>6, <1>7, <1>8 DEF Order

\* The reader walks on
LEMMA OrderStays ==
  ASSUME NEW P, State(P), Order(P),
         UNCHANGED <<tree, kernel, queue>>,
         \A w \in DOMAIN kernel : w \in DOMAIN pathByWd \/ Ahead(P[w])
                                  => w \in DOMAIN pathByWd' \/ Ahead(P[w])'
  PROVE  Order(P)'
<1>1. \A p, k, j : Told(P, p, k, j)' <=> Told(P, p, k, j)
  BY DEF Told, PathOf
<1>2. \A p, k : Deleted(P, k, p)' <=> Deleted(P, k, p)
  BY DEF Deleted, PathOf
<1>3. Known1(P)'
  BY <1>1 DEF Order, Known1, Needed
<1>4. Known2(P)'
  BY <1>1, <1>2 DEF Order, Known2, Needed
<1>5. Again(P)'
  BY <1>1, <1>2 DEF Order, Again
<1>6. Gone(P)'
  BY <1>1, <1>2 DEF Order, Gone
<1> QED
  BY <1>3, <1>4, <1>5, <1>6 DEF Order

-----------------------------------------------------------------------------
(* What others do *)

LEMMA EventsGrow ==
  ASSUME NEW P, State(P), NEW e, queue' = queue \/ (queue' = Append(queue, e) /\ About(P, e)), nextWd' = nextWd
  PROVE  Events(P)'
<1>1. queue \in Seq(Queued) /\ Len(queue) \in Nat
  BY DEF State, Events
<1>2. CASE queue' = queue
  BY <1>2 DEF State, Events, About, PathOf
<1>3. CASE queue' = Append(queue, e) /\ About(P, e)
  <2>1. /\ queue' \in Seq(Queued) /\ Len(queue') = Len(queue) + 1 /\ queue'[Len(queue) + 1] = e
        /\ \A i \in 1 .. Len(queue) : queue'[i] = queue[i]
    BY <1>1, <1>3 DEF About
  <2>2. ASSUME NEW i \in 1 .. Len(queue') PROVE About(P, queue'[i])
    BY <1>1, <1>3, <2>1 DEF State, Events
  <2> QED
    BY <2>1, <2>2 DEF Events, About, PathOf
<1> QED
  BY <1>2, <1>3

LEMMA MkdirOK ==
  ASSUME NEW P, State(P), Order(P), NEW p \in Folders \ Top, Mkdir(p)
  PROVE  State(P)' /\ Order(P)'
<1>1. /\ p \in Tree \ Top /\ tree[p] = NoNode /\ tree[Parent(p)] # NoNode /\ Parent(p) \in Folders
      /\ tree' = [tree EXCEPT ![p] = <<p, ops + 1>>]
  BY Folder DEF Mkdir, Tree, At, Inode
<1>2. PICK e : \/ (\A w \in DOMAIN kernel : P[w] # Parent(p)) /\ queue' = queue
               \/ /\ queue' = Append(queue, e)
                  /\ About(P, e) /\ e.mask = "CREATE" /\ PathOf(P, e) = p
                  /\ e.wd \in DOMAIN kernel /\ P[e.wd] = Parent(p)
  BY <1>1, EventQueued DEF Mkdir
<1>3. UNCHANGED <<open, kernel, nextWd, pathByWd, wdByPath, rpc, todo, cur, names, mvs>> /\ ops' = ops + 1
  BY DEF Mkdir, Op, wm, reader, walk
<1>4. Rooted'
  <2>1. DOMAIN tree' = Tree /\ \A q \in Tree \ {p} : tree'[q] = tree[q]
    BY <1>1 DEF State, Rooted
  <2>2. tree'[p] = <<p, ops + 1>> /\ tree'[p] # NoNode /\ ops + 1 \in Nat
    BY <1>1 DEF State, Rooted, NoNode
  <2>3. ASSUME NEW q \in Tree, NEW d \in Folders, tree'[q] # NoNode, Under(q, d) PROVE tree'[d] # NoNode
    <3>1. CASE q = p
      <4>1. In(Parent(p), d)
        BY <2>3, <3>1, ChildTowards, TreeAssumption DEF Tree
      <4>2. tree[d] # NoNode
        BY <1>1, <4>1 DEF State, Rooted, In, Tree
      <4> QED
        BY <2>1, <2>2, <4>2 DEF Tree
    <3>2. CASE q # p
      <4>1. tree[d] # NoNode
        BY <2>1, <2>3, <3>2 DEF State, Rooted
      <4> QED
        BY <2>1, <2>2, <4>1 DEF Tree
    <3> QED
      BY <3>1, <3>2
  <2>4. \A q \in Folders : tree'[q] # NoNode => \E k \in Nat : tree'[q] = <<q, k>>
    BY <2>1, <2>2 DEF State, Rooted, Tree
  <2>5. \A q \in Top : tree'[q] # NoNode
    BY <2>1, TreeAssumption DEF State, Rooted, Tree
  <2> QED
    BY <1>3, <2>1, <2>3, <2>4, <2>5 DEF State, Rooted
<1>5. Watches(P)'
  <2>1. \A w \in DOMAIN kernel : P[w] \in Folders /\ P[w] # p /\ tree'[P[w]] = tree[P[w]]
    BY <1>1 DEF State, Watches, Places, Rooted, Tree
  <2> QED
    BY <1>3, <2>1 DEF State, Watches
<1>6. Places(P)' /\ Map(P)' /\ Stages'
  BY <1>3 DEF State, Places, Map, Stages
<1>7. Events(P)'
  BY <1>2, <1>3, EventsGrow
<1>8. Order(P)'
  <2>1. \A d \in Folders : tree[d] = NoNode /\ tree'[d] # NoNode => d = p
    BY <1>1 DEF State, Rooted, Tree
  <2> QED
    BY <1>2, <1>3, <1>4, <1>5, <2>1, OrderGrows
<1> QED
  BY <1>4, <1>5, <1>6, <1>7, <1>8 DEF State

LEMMA RmdirOK ==
  ASSUME NEW P, State(P), Order(P), NEW p \in Folders \ Top, Rmdir(p)
  PROVE  State(P)' /\ Order(P)'
<1>1. /\ p \in Tree \ Top /\ tree[p] # NoNode /\ Parent(p) \in Folders /\ At(p) = tree[p] /\ p # Parent(p)
      /\ tree' = [tree EXCEPT ![p] = NoNode]
  BY Folder, ParentAndBase DEF Rmdir, Tree, At, In
<1>2. PICK e : \/ (\A w \in DOMAIN kernel : P[w] # Parent(p)) /\ queue' = queue
               \/ /\ queue' = Append(queue, e)
                  /\ About(P, e) /\ e.mask = "DELETE" /\ PathOf(P, e) = p
                  /\ e.wd \in DOMAIN kernel /\ P[e.wd] = Parent(p)
  BY <1>1, EventQueued DEF Rmdir
<1>3. UNCHANGED <<open, nextWd, pathByWd, wdByPath, rpc, todo, cur, names, mvs>> /\ ops' = ops + 1
  BY DEF Rmdir, Op, wm, reader, walk
<1>4. /\ DOMAIN kernel' = {w \in DOMAIN kernel : P[w] # p}
      /\ \A w \in DOMAIN kernel' : kernel'[w] = kernel[w]
  BY SameInode DEF Rmdir, Unwatched, Restrict
\* Nothing is below p
<1>5. ASSUME NEW q \in Tree, tree[q] # NoNode PROVE ~Under(q, p)
  <2> SUFFICES ASSUME Under(q, p) PROVE FALSE
    OBVIOUS
  <2> DEFINE b == SubSeq(q, 1, Len(p) + 1)
  <2>1. q \in Path /\ p \in Path /\ Len(p) \in Nat /\ Len(q) \in Nat /\ Len(q) > Len(p)
    BY TreeAssumption DEF Tree, Under, Path
  <2>2. b \in Path /\ Parent(b) = p /\ In(q, b)
    BY <2>1, ChildTowards
  <2>3. CASE q = b
    BY <1>5, <2>2, <2>3 DEF Rmdir, Entries
  <2>4. CASE q # b
    <3>1. Under(q, b) /\ Len(b) = Len(p) + 1 /\ Len(q) > Len(b)
      BY <2>1, <2>2, <2>4 DEF In, Under, Path
    <3>2. b \in Folders
      BY <1>1, <2>1, <3>1, TreeAssumption
    <3>3. tree[b] # NoNode
      BY <1>5, <3>1, <3>2 DEF State, Rooted
    <3> QED
      BY <2>2, <3>2, <3>3 DEF Rmdir, Entries, Tree
  <2> QED
    BY <2>3, <2>4
<1>6. Rooted'
  <2>1. DOMAIN tree' = Tree /\ tree'[p] = NoNode /\ \A q \in Tree \ {p} : tree'[q] = tree[q]
    BY <1>1 DEF State, Rooted
  <2>2. ASSUME NEW q \in Tree, NEW d \in Folders, tree'[q] # NoNode, Under(q, d) PROVE tree'[d] # NoNode
    <3>1. tree[q] # NoNode /\ tree[d] # NoNode /\ d # p
      BY <1>5, <2>1, <2>2 DEF State, Rooted
    <3> QED
      BY <2>1, <3>1 DEF Tree
  <2>3. \A q \in Folders : tree'[q] # NoNode => \E k \in Nat : tree'[q] = <<q, k>>
    BY <2>1 DEF State, Rooted, Tree
  <2>4. \A q \in Top : tree'[q] # NoNode
    BY <1>1, <2>1, TreeAssumption DEF State, Rooted, Tree
  <2> QED
    BY <1>3, <2>1, <2>2, <2>3, <2>4 DEF State, Rooted
<1>7. Watches(P)'
  <2>1. \A w \in DOMAIN kernel' : P[w] \in Folders /\ P[w] # p /\ tree'[P[w]] = tree[P[w]]
    BY <1>1, <1>4 DEF State, Watches, Places, Rooted, Tree
  <2>2. ASSUME NEW w \in DOMAIN kernel', P[w] \notin Roots PROVE \E v \in DOMAIN kernel' : P[v] = Parent(P[w])
    <3>1. PICK v \in DOMAIN kernel : P[v] = Parent(P[w])
      BY <1>4, <2>2 DEF State, Watches
    <3>2. P[w] \in Tree /\ tree[P[w]] # NoNode /\ P[w] \in Path \ {<< >>}
      BY <1>4, <2>1, TreeAssumption DEF State, Watches, Tree
    <3>3. P[v] # p
      BY <1>5, <3>1, <3>2, ParentAndBase
    <3> QED
      BY <1>4, <3>1, <3>3
  <2> QED
    BY <1>3, <1>4, <2>1, <2>2 DEF State, Watches
<1>8. Places(P)' /\ Map(P)' /\ Stages'
  BY <1>3 DEF State, Places, Map, Stages
<1>9. Events(P)'
  BY <1>2, <1>3, EventsGrow
<1>10. Order(P)'
  <2>1. \A d \in Folders : tree'[d] # NoNode => tree[d] # NoNode /\ d # p
    BY <1>1 DEF State, Rooted, Tree
  <2>2. ASSUME NEW d \in Folders, NEW i \in 1 .. Len(queue),
               tree'[d] # NoNode, queue[i].wd \in DOMAIN kernel, In(d, PathOf(P, queue[i]))
        PROVE  queue[i].wd \in DOMAIN kernel'
    <3> SUFFICES ASSUME P[queue[i].wd] = p PROVE FALSE
      BY <1>4, <2>2
    <3>1. queue[i].name \in Names /\ p \in Path \ {<< >>} /\ d \in Path
      BY TreeAssumption DEF State, Events, About, Queued, Tree
    <3>2. PathOf(P, queue[i]) \in Path \ {<< >>} /\ Under(PathOf(P, queue[i]), p)
      BY <3>1 DEF PathOf, Path, Under
    <3>3. In(d, p)
      BY <2>2, <3>1, <3>2, InTransitive DEF In
    <3> QED
      BY <1>5, <2>1, <2>2, <3>3 DEF In, Tree
  <2>3. ASSUME NEW k \in 1 .. Len(queue), queue[k].wd \in DOMAIN kernel \ DOMAIN kernel'
        PROVE  queue' = Append(queue, e) /\ e.mask = "DELETE" /\ PathOf(P, e) = P[queue[k].wd]
    <3>1. P[queue[k].wd] = p
      BY <1>4, <2>3
    <3>2. \E v \in DOMAIN kernel : P[v] = Parent(p)
      BY <2>3, <3>1, TreeAssumption DEF State, Watches
    <3> QED
      BY <1>2, <3>1, <3>2
  <2>4. queue' = Append(queue, e) => e.wd \in DOMAIN kernel'
    BY <1>1, <1>2, <1>4
  <2>5. queue' # queue /\ e.mask = "DELETE" => \A d \in Folders : PathOf(P, e) = d => tree'[d] = NoNode
    BY <1>2, <2>1
  <2>6. queue' = queue \/ (queue' = Append(queue, e) /\ e.wd \in DOMAIN kernel')
    BY <1>2, <2>4
  <2>7. DOMAIN kernel' \subseteq DOMAIN kernel
    BY <1>4
  <2>8. \A d \in Folders : ~(tree[d] = NoNode /\ tree'[d] # NoNode)
    BY <2>1
  <2> QED
    BY <1>3, <1>6, <1>7, <2>2, <2>3, <2>5, <2>6, <2>7, <2>8, OrderGrows
<1> QED
  BY <1>6, <1>7, <1>8, <1>9, <1>10 DEF State

LEMMA FileOK ==
  ASSUME NEW P, State(P), Order(P), NEW p \in Files, Create(p) \/ Unlink(p)
  PROVE  State(P)' /\ Order(P)'
<1>1. p \in Tree \ Top /\ p \notin Folders /\ Parent(p) \in Folders
  BY Folder, TreeAssumption DEF Tree
<1>2. PICK e : \/ queue' = queue
               \/ /\ queue' = Append(queue, e)
                  /\ About(P, e) /\ e.mask = "DELETE" /\ PathOf(P, e) = p /\ e.wd \in DOMAIN kernel
  <2>1. CASE Create(p)
    BY <2>1 DEF Create
  <2>2. CASE Unlink(p)
    BY <1>1, <2>2, EventQueued DEF Unlink
  <2> QED
    BY <2>1, <2>2
<1>3. UNCHANGED <<kernel, nextWd, pathByWd, wdByPath, rpc, todo, cur, names, mvs>> /\ ops' = ops + 1
  BY DEF Create, Unlink, Op, wm, reader, walk
<1>4. /\ DOMAIN tree' = Tree /\ \A q \in Folders : tree'[q] = tree[q]
      /\ \A q \in Tree : tree'[q] # NoNode => tree[q] # NoNode \/ (q = p /\ tree[Parent(p)] # NoNode)
  BY <1>1 DEF Create, Unlink, State, Rooted, Tree, At
<1>5. Rooted'
  <2>1. ASSUME NEW q \in Tree, NEW d \in Folders, tree'[q] # NoNode, Under(q, d) PROVE tree'[d] # NoNode
    <3>1. CASE tree[q] # NoNode
      BY <1>4, <2>1, <3>1 DEF State, Rooted
    <3>2. CASE q = p /\ tree[Parent(p)] # NoNode
      <4>1. In(Parent(p), d)
        BY <2>1, <3>2, ChildTowards, TreeAssumption DEF Tree
      <4> QED
        BY <1>1, <1>4, <3>2, <4>1 DEF State, Rooted, In, Tree
    <3> QED
      BY <1>4, <2>1, <3>1, <3>2
  <2>2. \A o \in open' : o.name \in Names
    BY <1>1, ParentAndBase, Folder DEF Create, Unlink, OpenFile, State, Rooted
  <2> QED
    BY <1>3, <1>4, <2>1, <2>2, TreeAssumption DEF State, Rooted
<1>6. Watches(P)'
  BY <1>3, <1>4 DEF State, Watches, Places
<1>7. Places(P)' /\ Map(P)' /\ Stages'
  BY <1>3 DEF State, Places, Map, Stages
<1>8. Events(P)'
  BY <1>2, <1>3, EventsGrow
<1>9. Order(P)'
  BY <1>1, <1>2, <1>3, <1>4, <1>5, <1>6, OrderGrows
<1> QED
  BY <1>5, <1>6, <1>7, <1>8, <1>9 DEF State

\* The close of a file is queued for the watch of its directory, if there is one
LEMMA CloseQueued ==
  ASSUME NEW P, State(P), NEW o \in open, CloseWrite(o)
  PROVE  \/ queue' = queue
         \/ \E v \in DOMAIN kernel :
               /\ kernel[v] = o.dir
               /\ queue' = Append(queue, [wd |-> v, mask |-> "CLOSE_WRITE", name |-> o.name,
                                          isDir |-> FALSE, cookie |-> 0])
<1> DEFINE e(u) == [wd |-> u, mask |-> "CLOSE_WRITE", name |-> o.name, isDir |-> FALSE, cookie |-> 0]
           W == {v \in DOMAIN kernel : kernel[v] = o.dir}
           Q == {[wd |-> w, mask |-> "CLOSE_WRITE", name |-> o.name, isDir |-> FALSE, cookie |-> 0] : w \in W}
<1>1. queue' = queue \o SetToSeq(Q) /\ queue \in Seq(Queued)
  BY DEF CloseWrite, Queue, State, Events
<1>2. CASE W = {}
  <2>1. Q = {}
    BY <1>2
  <2> QED
    BY <1>1, <2>1, SetToSeqOfNone, ConcatEmptySeq
<1>3. ASSUME NEW v \in W PROVE queue' = Append(queue, e(v)) /\ v \in DOMAIN kernel /\ kernel[v] = o.dir
  <2>1. \A w \in W : w = v
    <3> SUFFICES ASSUME NEW w \in W PROVE w = v
      OBVIOUS
    <3>1. /\ P[v] \in Folders /\ P[w] \in Folders /\ kernel[v] = kernel[w]
          /\ kernel[v] = tree[P[v]] /\ kernel[w] = tree[P[w]] /\ kernel[v] # NoNode
      BY <1>3 DEF State, Places, Watches
    <3>2. P[v] = P[w]
      BY <3>1 DEF State, Rooted
    <3> QED
      BY <1>3, <3>2 DEF State, Watches
  <2>2. Q = {e(v)}
    BY <1>3, <2>1
  <2>3. SetToSeq({e(v)}) = <<e(v)>>
    BY SetToSeqOfOne
  <2>4. queue' = queue \o <<e(v)>>
    BY <1>1, <2>2, <2>3
  <2>5. queue \o <<e(v)>> = Append(queue, e(v))
    BY <1>1
  <2> QED
    BY <1>3, <2>4, <2>5
<1> QED
  BY <1>2, <1>3

LEMMA CloseWriteOK ==
  ASSUME NEW P, State(P), Order(P), NEW o \in open, CloseWrite(o)
  PROVE  State(P)' /\ Order(P)'
<1> DEFINE e(u) == [wd |-> u, mask |-> "CLOSE_WRITE", name |-> o.name, isDir |-> FALSE, cookie |-> 0]
<1>1. PICK v : queue' = queue \/ (queue' = Append(queue, e(v)) /\ v \in DOMAIN kernel)
  BY CloseQueued
<1>2. UNCHANGED <<tree, kernel, nextWd, pathByWd, wdByPath, rpc, todo, cur, names, mvs, ops>> /\ open' \subseteq open
  BY DEF CloseWrite, wm, reader, walk
<1>3. v \in DOMAIN kernel => About(P, e(v)) /\ e(v).mask = "CLOSE_WRITE" /\ e(v).wd = v
  BY DEF About, Queued, State, Rooted, Watches, Places
<1>4. Rooted' /\ Watches(P)' /\ Places(P)' /\ Map(P)' /\ Stages'
  BY <1>2 DEF State, Rooted, Watches, Places, Map, Stages
<1> HIDE DEF e
<1>5. Events(P)'
  BY <1>1, <1>2, <1>3, EventsGrow
<1>6. Order(P)'
  BY <1>1, <1>2, <1>3, <1>4, OrderGrows
<1> QED
  BY <1>4, <1>5, <1>6 DEF State

-----------------------------------------------------------------------------
(* The walk *)

\* A folder is above what is in it
LEMMA OnTheWay ==
  ASSUME NEW P, State(P), NEW w \in DOMAIN kernel, NEW c \in Tree, In(P[w], c)
  PROVE  /\ c \in Folders /\ ~shouldIgnore(c)
         /\ P[w] = c \/ \E b \in Entries(c) : In(P[w], b)
<1>1. P[w] \in Folders /\ P[w] \in Tree /\ tree[P[w]] # NoNode /\ P[w] \in Path /\ c \in Path
  BY TreeAssumption DEF State, Places, Watches, Tree
<1>2. ~shouldIgnore(c)
  BY <1>1, IgnoredBelow DEF State, Watches
<1>3. CASE P[w] = c
  BY <1>1, <1>2, <1>3
<1>4. CASE Under(P[w], c)
  <2> DEFINE b == SubSeq(P[w], 1, Len(c) + 1)
  <2>1. Len(c) \in Nat /\ Len(P[w]) \in Nat /\ Len(P[w]) > Len(c) /\ SubSeq(P[w], 1, Len(c)) = c
    BY <1>1, <1>4 DEF Path, Under
  <2>2. \A k \in Len(c) .. Len(P[w]) - 1 : SubSeq(P[w], 1, k) \in Folders
    BY <1>1, <1>4, TreeAssumption
  <2>3. c \in Folders
    <3>1. Len(c) \in Len(c) .. Len(P[w]) - 1
      BY <2>1
    <3>2. SubSeq(P[w], 1, Len(c)) \in Folders
      BY <2>2, <3>1
    <3> QED
      BY <2>1, <3>2
  <2>4. b \in Path /\ Parent(b) = c /\ In(P[w], b)
    BY <1>1, <1>4, ChildTowards
  <2>5. b \in Tree /\ tree[b] # NoNode
    <3>1. CASE P[w] = b
      BY <1>1, <3>1
    <3>2. CASE Under(P[w], b)
      <4>1. Len(b) = Len(c) + 1 /\ Len(P[w]) > Len(b)
        BY <1>1, <2>1, <3>2 DEF Under, Path
      <4>2. b \in Folders
        BY <2>1, <2>2, <4>1
      <4> QED
        BY <1>1, <3>2, <4>2 DEF State, Rooted, Tree
    <3> QED
      BY <2>4, <3>1, <3>2 DEF In
  <2> HIDE DEF b
  <2> QED
    BY <1>2, <2>3, <2>4, <2>5 DEF Entries
<1> QED
  BY <1>3, <1>4 DEF In

LEMMA WalkItemOK ==
  ASSUME NEW P, State(P), Order(P), NEW p \in todo, WalkItem(p), ~disturbed'
  PROVE  State(P)' /\ Order(P)'
<1>1. /\ p \in Tree /\ At(p) # NoNode /\ tree[p] # NoNode /\ rpc = "walk"
      /\ UNCHANGED <<tree, open, kernel, nextWd, queue, ops, pathByWd, wdByPath, mvs>>
      /\ todo' = todo \ {p}
  BY DEF WalkItem, Abort, State, Stages, At, fs, wm
<1>2. \/ /\ shouldIgnore(p) \/ p \in Files
         /\ UNCHANGED <<rpc, cur, names>>
      \/ /\ p \in Folders /\ ~shouldIgnore(p)
         /\ cur' = p /\ names' = Entries(p) /\ rpc' = "add"
  BY <1>1 DEF WalkItem
<1>3. State(P)'
  BY <1>1, <1>2 DEF State, Places, Rooted, Watches, Map, Events, About, PathOf, Stages, Entries
<1>4. ASSUME NEW w \in DOMAIN kernel, Ahead(P[w]) PROVE Ahead(P[w])'
  <2>1. PICK c \in todo : In(P[w], c)
    BY <1>1, <1>4 DEF Ahead
  <2>2. CASE c # p
    BY <1>1, <1>2, <2>1, <2>2 DEF Ahead
  <2>3. CASE c = p
    <3>1. p \in Folders /\ ~shouldIgnore(p) /\ (P[w] = p \/ \E b \in Entries(p) : In(P[w], b))
      BY <1>1, <2>1, <2>3, OnTheWay
    <3>2. cur' = p /\ names' = Entries(p) /\ rpc' = "add"
      BY <1>2, <3>1, TreeAssumption
    <3> QED
      BY <3>1, <3>2 DEF Ahead
  <2> QED
    BY <2>2, <2>3
<1>5. Order(P)'
  BY <1>1, <1>4, OrderStays
<1> QED
  BY <1>3, <1>5

LEMMA WalkAddOK ==
  ASSUME NEW P, State(P), Order(P), WalkAdd, ~disturbed'
  PROVE  \E Q : State(Q)' /\ Order(Q)' /\ \A w \in 1 .. nextWd - 1 : Q[w] = P[w]
<1>1. /\ rpc = "add" /\ rpc' = "index" /\ At(cur) # NoNode /\ cur \in Folders /\ At(cur) = tree[cur]
      /\ ~shouldIgnore(cur)
      /\ UNCHANGED <<tree, open, queue, ops, mvs, todo, cur, names>>
      /\ cur \notin Roots => Watched(Parent(cur))
  BY DEF WalkAdd, Abort, walk, State, Stages, At, Tree
<1>2. ASSUME NEW w \in DOMAIN kernel, kernel[w] = At(cur), add(w, cur), UNCHANGED <<kernel, nextWd>>
      PROVE  State(P)' /\ Order(P)'
  <2>1. P[w] = cur /\ w \in 1 .. nextWd - 1
    BY <1>1, <1>2, SameInode DEF State, Watches
  <2>2. Map(P)'
    BY <1>2, <2>1 DEF State, Map, add, Put
  <2>3. Places(P)' /\ Rooted' /\ Watches(P)' /\ Events(P)' /\ Stages'
    BY <1>1, <1>2 DEF State, Places, Rooted, Watches, Events, About, PathOf, Stages
  <2>4. ASSUME NEW v \in DOMAIN kernel, v \in DOMAIN pathByWd \/ Ahead(P[v])
        PROVE  v \in DOMAIN pathByWd' \/ Ahead(P[v])'
    <3>1. CASE P[v] = cur
      BY <1>2, <2>1, <3>1 DEF State, Watches, add, Put
    <3>2. CASE P[v] # cur
      BY <1>1, <1>2, <2>4, <3>2 DEF Ahead, add, Put
    <3> QED
      BY <3>1, <3>2
  <2>5. Order(P)'
    BY <1>1, <1>2, <2>4, OrderStays
  <2> QED
    BY <2>2, <2>3, <2>5 DEF State
<1>3. ASSUME ~Watched(cur), kernel' = Put(kernel, nextWd, At(cur)), nextWd' = nextWd + 1, add(nextWd, cur)
      PROVE  \E Q : State(Q)' /\ Order(Q)' /\ \A w \in 1 .. nextWd - 1 : Q[w] = P[w]
  <2> DEFINE Q == [w \in 1 .. nextWd |-> IF w = nextWd THEN cur ELSE P[w]]
  <2> PICK n \in Nat \ {0} : n = nextWd
    BY DEF State, Places
  <2> PICK R : R = Q
    OBVIOUS
  <2>1. /\ R \in [1 .. n -> Folders] /\ R[n] = cur
        /\ \A w \in 1 .. n - 1 : R[w] = P[w]
    BY <1>1 DEF State, Places
  <2> HIDE DEF Q
  <2>2. /\ DOMAIN kernel' = DOMAIN kernel \cup {n} /\ DOMAIN kernel \subseteq 1 .. n - 1
        /\ kernel'[n] = tree[cur] /\ \A w \in DOMAIN kernel : kernel'[w] = kernel[w]
    BY <1>1, <1>3 DEF Put, State, Watches
  <2>3. \A w \in DOMAIN kernel : P[w] # cur /\ R[w] = P[w]
    BY <1>1, <1>3, <2>1, <2>2, SameInode DEF Watched
  <2>4. /\ DOMAIN pathByWd' = DOMAIN pathByWd \cup {n} /\ DOMAIN pathByWd \subseteq 1 .. n - 1
        /\ pathByWd'[n] = cur /\ \A w \in DOMAIN pathByWd : pathByWd'[w] = pathByWd[w]
    BY <1>3 DEF add, Put, State, Map
  <2>5. Map(R)'
    <3>1. \A w \in DOMAIN pathByWd' : w \in 1 .. n /\ pathByWd'[w] = R[w]
      BY <2>1, <2>4 DEF State, Map
    <3>2. ASSUME NEW p \in DOMAIN wdByPath' PROVE wdByPath'[p] \in DOMAIN pathByWd' /\ R[wdByPath'[p]] = p
      <4>1. CASE p = cur
        BY <1>3, <2>1, <2>4, <4>1 DEF add, Put
      <4>2. CASE p # cur
        <5>1. p \in DOMAIN wdByPath /\ wdByPath'[p] = wdByPath[p]
          BY <1>3, <3>2, <4>2 DEF add, Put
        <5>2. wdByPath[p] \in DOMAIN pathByWd /\ P[wdByPath[p]] = p
          BY <5>1 DEF State, Map
        <5> QED
          BY <2>1, <2>4, <5>1, <5>2
      <4> QED
        BY <4>1, <4>2
    <3> QED
      BY <1>3, <3>1, <3>2 DEF Map
  <2>6. Watches(R)'
    <3>1. ASSUME NEW w \in DOMAIN kernel'
          PROVE  /\ kernel'[w] = tree[R[w]] /\ kernel'[w] # NoNode /\ ~shouldIgnore(R[w])
                 /\ R[w] \in Roots \/ \E v \in DOMAIN kernel' : R[v] = Parent(R[w])
      <4>1. CASE w = n
        <5>1. CASE cur \in Roots
          BY <1>1, <2>1, <2>2, <4>1, <5>1
        <5>2. CASE cur \notin Roots
          <6>1. PICK v \in DOMAIN kernel : kernel[v] = At(Parent(cur))
            BY <1>1, <5>2 DEF Watched
          <6>2. kernel[v] # NoNode /\ Parent(cur) \in Tree
            BY <6>1 DEF State, Watches, At
          <6>5. Parent(cur) \in Folders
            BY <1>1, <6>2, ParentIsFolder DEF Tree
          <6>6. P[v] = Parent(cur)
            BY <6>1, <6>5, SameInode
          <6> QED
            BY <1>1, <2>1, <2>2, <2>3, <4>1, <6>6
        <5> QED
          BY <5>1, <5>2
      <4>2. CASE w # n
        BY <2>2, <2>3, <4>2 DEF State, Watches
      <4> QED
        BY <4>1, <4>2
    <3>2. \A v, w \in DOMAIN kernel' : R[v] = R[w] => v = w
      BY <2>1, <2>2, <2>3 DEF State, Watches
    <3>3. DOMAIN kernel' \subseteq 1 .. n
      BY <2>2
    <3> QED
      BY <1>1, <1>3, <3>1, <3>2, <3>3 DEF Watches
  <2>7. ASSUME NEW i \in 1 .. Len(queue)
        PROVE  /\ queue[i].wd \in 1 .. n - 1 /\ R[queue[i].wd] = P[queue[i].wd]
               /\ PathOf(R, queue[i]) = PathOf(P, queue[i])
    BY <2>1 DEF State, Events, About, PathOf
  <2>8. State(R)'
    <3>1. Places(R)' /\ Rooted' /\ Stages'
      BY <1>1, <1>3, <2>1 DEF State, Places, Rooted, Stages
    <3>2. Events(R)'
      <4>1. queue \in Seq(Queued) /\ \A i \in 1 .. Len(queue) : About(P, queue[i])
        BY DEF State, Events
      <4>2. ASSUME NEW i \in 1 .. Len(queue) PROVE About(R, queue[i])'
        <5>1. About(P, queue[i]) /\ queue[i].wd \in 1 .. nextWd'  - 1
          BY <1>3, <2>7, <4>1
        <5> QED
          BY <1>1, <2>7, <5>1 DEF About, PathOf
      <4> QED
        BY <1>1, <4>1, <4>2 DEF Events, About, PathOf
    <3> QED
      BY <2>5, <2>6, <3>1, <3>2 DEF State
  <2>9. \A p, k : Deleted(R, k, p)' <=> Deleted(P, k, p)
    BY <1>1, <2>7 DEF Deleted, PathOf
  <2>10. \A p, k, j : Told(P, p, k, j) => Told(R, p, k, j)'
    BY <1>1, <2>2, <2>7 DEF Told, PathOf
  <2>11. \A w \in DOMAIN kernel : \A j : Needed(w, j)' <=> Needed(w, j)
    BY <1>1 DEF Needed
  \* An earlier directory of the name has been told of after its deletion
  <2>12. ASSUME NEW k \in Nat, Deleted(P, k, cur) PROVE Told(P, cur, k, Len(queue) + 1)
    <3>1. cur \notin Roots
      BY <2>12, TreeAssumption DEF Deleted, State, Events, About
    <3>2. PICK v \in DOMAIN kernel' : R[v] = Parent(cur)
      BY <1>1, <2>1, <2>2, <2>6, <3>1 DEF Watches
    <3>3. Parent(cur) # cur
      BY <1>1, ParentAndBase, TreeAssumption DEF In, Tree
    <3>4. v \in DOMAIN kernel /\ P[v] = Parent(cur)
      BY <2>1, <2>2, <2>3, <3>2, <3>3
    <3> QED
      BY <1>1, <2>12, <3>4 DEF Order, Again
  <2>13. Needed(n, Len(queue) + 1)' /\ \A j \in Nat : Needed(n, j)' => j = Len(queue) + 1
    BY <1>1, <2>7 DEF Needed, State, Events
  <2>14. Known1(R)'
    <3> SUFFICES ASSUME NEW w \in DOMAIN kernel', NEW j \in Nat, Needed(w, j)'
                 PROVE  w \in DOMAIN pathByWd' \/ Ahead(R[w])' \/ Told(R, R[w], 0, j)'
      BY DEF Known1
    <3>1. CASE w = n
      BY <2>4, <3>1
    <3>2. CASE w \in DOMAIN kernel
      <4>1. w \in DOMAIN pathByWd \/ Ahead(P[w]) \/ Told(P, P[w], 0, j)
        BY <2>11, <3>2 DEF Order, Known1
      <4>2. Ahead(P[w]) => Ahead(P[w])'
        BY <1>1, <2>3, <3>2 DEF Ahead
      <4> QED
        BY <2>3, <2>4, <2>10, <3>2, <4>1, <4>2
    <3> QED
      BY <2>2, <3>1, <3>2
  <2>15. Known2(R)'
    <3> SUFFICES ASSUME NEW w \in DOMAIN kernel', NEW j \in Nat, NEW k \in Nat, Needed(w, j)', Deleted(R, k, R[w])'
                 PROVE  k < j /\ Told(R, R[w], k, j)'
      BY DEF Known2
    <3>1. Deleted(P, k, R[w])
      BY <2>9
    <3>2. CASE w = n
      <4>1. j = Len(queue) + 1 /\ k \in 1 .. Len(queue)
        BY <2>13, <3>1, <3>2 DEF Deleted
      <4>2. Told(P, cur, k, j)
        BY <2>1, <2>12, <3>1, <3>2, <4>1
      <4>3. Len(queue) \in Nat
        BY DEF State, Events
      <4> QED
        BY <2>1, <2>10, <3>2, <4>1, <4>2, <4>3
    <3>3. CASE w \in DOMAIN kernel
      BY <2>3, <2>10, <2>11, <3>1, <3>3 DEF Order, Known2
    <3> QED
      BY <2>2, <3>2, <3>3
  <2>16. Again(R)'
    <3> SUFFICES ASSUME NEW d \in Folders, tree[d] # NoNode, NEW w \in DOMAIN kernel', R[w] = Parent(d),
                        NEW k \in Nat, Deleted(R, k, d)'
                 PROVE  Told(R, d, k, Len(queue) + 1)'
      BY <1>1 DEF Again
    <3>1. Deleted(P, k, d) /\ Len(queue') = Len(queue)
      BY <1>1, <2>9
    <3>2. Told(P, d, k, Len(queue) + 1)
      <4>1. CASE w \in DOMAIN kernel
        BY <2>3, <3>1, <4>1 DEF Order, Again
      <4>2. CASE w = n
        <5>1. Parent(d) = cur /\ queue[k].wd \in 1 .. n - 1 /\ k \in 1 .. Len(queue) /\ PathOf(P, queue[k]) = d
              /\ queue[k].name \in Names /\ P[queue[k].wd] \in Path /\ cur \in Path /\ d \in Path \ {<< >>}
          BY <1>1, <2>1, <2>7, <3>1, <4>2, TreeAssumption DEF Deleted, State, Events, About, Queued, Places, Tree
        <5>2. P[queue[k].wd] = cur
          BY <5>1, ParentOfAppend DEF PathOf
        <5>3. queue[k].wd \notin DOMAIN kernel
          BY <2>3, <5>2
        <5>4. PICK m \in Nat : m > k /\ Deleted(P, m, cur)
          BY <5>1, <5>2, <5>3 DEF Order, Gone
        <5>5. Told(P, cur, m, Len(queue) + 1)
          BY <2>12, <5>4
        <5>6. PICK i \in 1 .. Len(queue) : /\ m < i /\ i < Len(queue) + 1
                                          /\ queue[i].mask = "CREATE" /\ queue[i].wd \in DOMAIN kernel
                                          /\ In(cur, PathOf(P, queue[i]))
          BY <5>5 DEF Told
        <5>7. PathOf(P, queue[i]) \in Path
          BY <5>6, TreeAssumption DEF State, Events, About, Tree
        <5>8. In(d, cur)
          BY <5>1, ParentAndBase DEF In
        <5>9. In(d, PathOf(P, queue[i]))
          BY <5>1, <5>6, <5>7, <5>8, InTransitive
        <5>10. k < i
          BY <5>4, <5>6
        <5> QED
          BY <5>6, <5>9, <5>10 DEF Told
      <4> QED
        BY <2>2, <4>1, <4>2
    <3>3. \A j : Told(P, d, k, j) => Told(R, d, k, j)'
      BY <2>10
    <3>4. PICK j : j = Len(queue) + 1
      OBVIOUS
    <3>5. Told(R, d, k, j)'
      BY <3>2, <3>3, <3>4
    <3> QED
      BY <3>1, <3>4, <3>5 DEF Told
  <2>17. Gone(R)'
    <3> SUFFICES ASSUME NEW k \in 1 .. Len(queue), queue[k].wd \notin DOMAIN kernel'
                 PROVE  \E m \in Nat : m > k /\ Deleted(R, m, R[queue[k].wd])'
      BY <1>1 DEF Gone, Deleted, PathOf
    <3>1. PICK m \in Nat : m > k /\ Deleted(P, m, P[queue[k].wd])
      BY <2>2 DEF Order, Gone
    <3>2. Deleted(P, m, R[queue[k].wd])
      BY <2>7, <3>1
    <3> QED
      BY <1>1, <2>7, <3>1, <3>2 DEF Deleted, PathOf
  <2> QED
    BY <2>1, <2>8, <2>14, <2>15, <2>16, <2>17 DEF Order
<1> QED
  BY <1>1, <1>2, <1>3 DEF WalkAdd

LEMMA WalkEndOK ==
  ASSUME NEW P, State(P), Order(P), WalkIndex \/ WalkEnd
  PROVE  State(P)' /\ Order(P)'
<1>1. CASE WalkIndex
  <2>1. State(P)'
    BY <1>1 DEF WalkIndex, fs, wm, hist, State, Places, Rooted, Watches, Map, Events, About, PathOf, Stages
  <2>2. \A w \in DOMAIN kernel : Ahead(P[w]) => Ahead(P[w])'
    BY <1>1 DEF WalkIndex, Ahead
  <2>3. Order(P)'
    BY <1>1, <2>2, OrderStays DEF WalkIndex, fs, wm
  <2> QED
    BY <2>1, <2>3
<1>2. CASE WalkEnd
  <2>1. State(P)'
    BY <1>2 DEF WalkEnd, fs, wm, walk, hist, State, Places, Rooted, Watches, Map, Events, About, PathOf, Stages
  <2>2. \A w \in DOMAIN kernel : ~Ahead(P[w])
    BY <1>2 DEF WalkEnd, Ahead
  <2>3. Order(P)'
    BY <1>2, <2>2, OrderStays DEF WalkEnd, fs, wm
  <2> QED
    BY <2>1, <2>3
<1> QED
  BY <1>1, <1>2

LEMMA WalkOK ==
  ASSUME NEW P, State(P), Order(P), Walk, ~disturbed'
  PROVE  \E Q : State(Q)' /\ Order(Q)'
BY WalkItemOK, WalkAddOK, WalkEndOK DEF Walk

-----------------------------------------------------------------------------
(* The reader *)

\* An event that has the reader walk to a watched directory is understood
LEMMA HeadTells ==
  ASSUME NEW P, State(P), Order(P), rpc = "next", queue # << >>,
         NEW w \in DOMAIN kernel, Told(P, P[w], 0, 2)
  PROVE  Head(queue).mask = "CREATE" /\ Known(Head(queue)) /\ In(P[w], AbsPath)
<1>1. /\ Head(queue) = queue[1] /\ queue[1].mask = "CREATE" /\ queue[1].wd \in DOMAIN kernel
      /\ In(P[w], PathOf(P, queue[1])) /\ 1 \in 1 .. Len(queue)
  BY DEF Told, State, Events
<1>2. queue[1].wd \in DOMAIN pathByWd /\ pathByWd[queue[1].wd] = P[queue[1].wd]
  <2>1. Needed(queue[1].wd, 1)
    BY <1>1 DEF Needed
  <2>2. ~Told(P, P[queue[1].wd], 0, 1)
    BY DEF Told
  <2> QED
    BY <1>1, <2>1, <2>2 DEF Order, Known1, Ahead, State, Map
<1>3. PathOf(P, queue[1]) = AbsPath
  BY <1>1, <1>2 DEF PathOf, AbsPath
<1>4. PathOf(P, queue[1]) \in Tree
  BY <1>1 DEF State, Events, About
<1>5. ~shouldIgnore(PathOf(P, queue[1]))
  BY <1>1, <1>4, OnTheWay
<1> QED
  BY <1>1, <1>2, <1>3, <1>5 DEF Known, PathOf

LEMMA EventsShift ==
  ASSUME NEW P, State(P), queue # << >>, queue' = Tail(queue), nextWd' = nextWd
  PROVE  Events(P)'
<1>1. /\ queue' \in Seq(Queued) /\ Len(queue') = Len(queue) - 1 /\ Len(queue) \in Nat \ {0}
      /\ \A i \in 1 .. Len(queue') : queue'[i] = queue[i + 1]
  BY DEF State, Events
<1>2. \A i \in 1 .. Len(queue') : About(P, queue'[i])
  BY <1>1 DEF State, Events
<1> QED
  BY <1>1, <1>2 DEF Events, About, PathOf

LEMMA SkipOK ==
  ASSUME NEW P, State(P), Order(P), Skip
  PROVE  State(P)' /\ Order(P)'
<1>1. /\ rpc = "next" /\ queue # << >> /\ ~Known(Head(queue)) /\ queue' = Tail(queue)
      /\ UNCHANGED <<tree, open, kernel, nextWd, ops, pathByWd, wdByPath, rpc, todo, cur, names, mvs>>
  BY DEF Skip, wm, reader, walk
<1>2. State(P)'
  <2>1. Events(P)'
    BY <1>1, EventsShift
  <2> QED
    BY <1>1, <2>1 DEF State, Places, Rooted, Watches, Map, Stages
<1>3. Order(P)'
  BY <1>1, OrderShifts, HeadTells
<1> QED
  BY <1>2, <1>3

\* The path of an event that is understood is the one it is about
LEMMA Understood ==
  ASSUME NEW P, State(P), queue # << >>, Known(Head(queue))
  PROVE  /\ Head(queue) = queue[1] /\ 1 \in 1 .. Len(queue) /\ About(P, queue[1])
         /\ AbsPath = PathOf(P, queue[1])
  BY DEF State, Events, Map, Known, AbsPath, PathOf

LEMMA HandleOK ==
  ASSUME NEW P, State(P), Order(P), HandleCreate \/ HandleCloseWrite \/ HandleDelete
  PROVE  State(P)' /\ Order(P)'
<1>1. /\ rpc = "next" /\ queue # << >> /\ Known(Head(queue)) /\ queue' = Tail(queue)
      /\ UNCHANGED <<tree, open, kernel, nextWd, ops, cur, names, mvs>>
  BY DEF HandleCreate, HandleCloseWrite, HandleDelete, Take
<1>2. /\ Head(queue) = queue[1] /\ 1 \in 1 .. Len(queue) /\ About(P, queue[1])
      /\ AbsPath = PathOf(P, queue[1])
  BY <1>1, Understood
<1>3. Events(P)'
  BY <1>1, EventsShift
<1>4. Places(P)' /\ Rooted' /\ Watches(P)'
  BY <1>1 DEF State, Places, Rooted, Watches
<1>5. CASE HandleCreate
  <2>1. Head(queue).mask = "CREATE" /\ rpc' = "walk" /\ todo' = {AbsPath} /\ UNCHANGED <<pathByWd, wdByPath>>
    BY <1>5 DEF HandleCreate, Take, wm
  <2>2. Map(P)' /\ Stages'
    BY <1>1, <1>2, <2>1 DEF State, Map, Stages, About
  <2>3. \A w \in DOMAIN kernel : Told(P, P[w], 0, 2) => Ahead(P[w])'
    <3> SUFFICES ASSUME NEW w \in DOMAIN kernel, Told(P, P[w], 0, 2) PROVE Ahead(P[w])'
      OBVIOUS
    <3>1. In(P[w], AbsPath)
      BY <1>1, HeadTells
    <3>2. PICK a : a = AbsPath
      OBVIOUS
    <3> QED
      BY <2>1, <3>1, <3>2 DEF Ahead
  <2>4. Order(P)'
    BY <1>1, <2>1, <2>3, OrderShifts
  <2> QED
    BY <1>3, <1>4, <2>2, <2>4 DEF State
<1>6. CASE HandleCloseWrite
  <2>1. Head(queue).mask = "CLOSE_WRITE" /\ rpc' = "send" /\ UNCHANGED <<pathByWd, wdByPath, todo>>
    BY <1>6 DEF HandleCloseWrite, Take, wm
  <2>2. Map(P)' /\ Stages'
    BY <1>1, <1>2, <2>1 DEF State, Map, Stages
  <2>3. \A w \in DOMAIN kernel : ~Told(P, P[w], 0, 2)
    BY <1>1, <2>1, HeadTells
  <2>4. Order(P)'
    BY <1>1, <2>1, <2>3, OrderShifts
  <2> QED
    BY <1>3, <1>4, <2>2, <2>4 DEF State
<1>7. CASE HandleDelete
  <2>1. /\ Head(queue).mask = "DELETE" /\ UNCHANGED <<rpc, todo>>
        /\ IF Head(queue).isDir THEN rmByPath(AbsPath) ELSE UNCHANGED wm
    BY <1>7 DEF HandleDelete, Take
  <2>2. \/ UNCHANGED <<pathByWd, wdByPath>>
        \/ /\ AbsPath \in DOMAIN wdByPath /\ AbsPath \in Folders
           /\ pathByWd' = Restrict(pathByWd, DOMAIN pathByWd \ {wdByPath[AbsPath]})
           /\ wdByPath' = Restrict(wdByPath, DOMAIN wdByPath \ {AbsPath})
    BY <1>2, <2>1 DEF rmByPath, wm, About
  <2>3. Stages'
    BY <1>1, <2>1 DEF State, Stages
  <2>4. Map(P)' /\ \A w \in DOMAIN pathByWd : w \in DOMAIN pathByWd' \/ P[w] = AbsPath
    <3>1. CASE UNCHANGED <<pathByWd, wdByPath>>
      BY <1>1, <3>1 DEF State, Map
    <3>2. CASE /\ AbsPath \in DOMAIN wdByPath /\ AbsPath \in Folders
               /\ pathByWd' = Restrict(pathByWd, DOMAIN pathByWd \ {wdByPath[AbsPath]})
               /\ wdByPath' = Restrict(wdByPath, DOMAIN wdByPath \ {AbsPath})
      <4> DEFINE a == AbsPath
                 u == wdByPath[a]
      <4>1. /\ DOMAIN pathByWd' = DOMAIN pathByWd \ {u} /\ \A w \in DOMAIN pathByWd' : pathByWd'[w] = pathByWd[w]
            /\ DOMAIN wdByPath' = DOMAIN wdByPath \ {a} /\ \A p \in DOMAIN wdByPath' : wdByPath'[p] = wdByPath[p]
        BY <3>2 DEF Restrict
      <4>2. u \in DOMAIN pathByWd /\ P[u] = a
        BY <3>2 DEF State, Map
      <4>3. \A p \in DOMAIN wdByPath' : wdByPath[p] # u
        BY <4>1, <4>2 DEF State, Map
      <4>4. Map(P)'
        BY <1>1, <4>1, <4>3 DEF State, Map
      <4> QED
        BY <4>1, <4>2, <4>4
    <3> QED
      BY <2>2, <3>1, <3>2
  <2>5. \A w \in DOMAIN kernel : ~Told(P, P[w], 0, 2)
    BY <1>1, <2>1, HeadTells
  <2>6. Deleted(P, 1, AbsPath)
    BY <1>2, <2>1 DEF Deleted
  <2>7. Order(P)'
    BY <1>1, <2>4, <2>5, <2>6, OrderShifts
  <2> QED
    BY <1>3, <1>4, <2>3, <2>4, <2>7 DEF State
<1> QED
  BY <1>5, <1>6, <1>7

LEMMA ReaderOK ==
  ASSUME NEW P, State(P), Order(P), Reader
  PROVE  State(P)' /\ Order(P)'
<1>1. CASE Skip
  BY <1>1, SkipOK
<1>2. CASE HandleCreate \/ HandleCloseWrite \/ HandleDelete
  BY <1>2, HandleOK
<1>3. CASE HandleMovedFrom \/ HandleMovedTo
  <2>1. queue # << >> /\ Known(Head(queue)) /\ Head(queue).mask \in {"MOVED_FROM", "MOVED_TO"}
    BY <1>3 DEF HandleMovedFrom, HandleMovedTo, Take
  <2> QED
    BY <2>1, Understood DEF About, Queued
<1>4. CASE RenameWatches
  BY <1>4 DEF RenameWatches, State, Stages
<1>5. CASE Send
  <2>1. /\ rpc = "send" /\ rpc' = "next"
        /\ UNCHANGED <<tree, open, kernel, nextWd, queue, ops, pathByWd, wdByPath, todo, cur, names, mvs>>
    BY <1>5 DEF Send, fs, wm, walk
  <2>2. State(P)'
    BY <2>1 DEF State, Places, Rooted, Watches, Map, Events, About, PathOf, Stages
  <2>3. \A w \in DOMAIN kernel : ~Ahead(P[w])
    BY <2>1 DEF Ahead
  <2>4. Order(P)'
    BY <2>1, <2>3, OrderStays
  <2> QED
    BY <2>2, <2>4
<1> QED
  BY <1>1, <1>2, <1>3, <1>4, <1>5 DEF Reader

LEMMA SameOK ==
  ASSUME NEW P, State(P), Order(P), UNCHANGED <<fs, wm, reader, mvs>>
  PROVE  State(P)' /\ Order(P)'
<1>1. UNCHANGED <<tree, open, kernel, nextWd, queue, ops, pathByWd, wdByPath, rpc, todo, cur, names, mvs>>
  BY DEF fs, wm, reader, walk
<1>2. State(P)'
  BY <1>1 DEF State, Places, Rooted, Watches, Map, Events, About, PathOf, Stages
<1>3. Order(P)'
  BY <1>1, OrderStays DEF Ahead
<1> QED
  BY <1>2, <1>3

-----------------------------------------------------------------------------
(* The theorem *)

LEMMA DeafInit == Init => DeafInv
<1> SUFFICES ASSUME Init PROVE \E P : State(P) /\ Order(P)
  BY DEF DeafInv
<1> DEFINE P == [w \in {} |-> << >>]
<1>1. PICK t \in Trees : tree = [p \in Tree |-> IF p \in t \cup Top THEN Inode(p, 0) ELSE NoNode]
  BY DEF Init
<1>2. Rooted
  <2>1. DOMAIN tree = Tree /\ \A p \in Tree : tree[p] # NoNode <=> p \in t \cup Top
    BY <1>1 DEF Inode, NoNode, AFile
  <2>2. \A p \in Folders : tree[p] # NoNode => tree[p] = <<p, 0>>
    BY <1>1 DEF Inode, NoNode, Tree
  <2> QED
    BY <2>1, <2>2, TreeAssumption DEF Rooted, Init, Tree
<1>3. DOMAIN kernel = {} /\ DOMAIN pathByWd = {} /\ DOMAIN wdByPath = {} /\ nextWd = 1
  BY DEF Init
<1>4. queue \in Seq(Queued) /\ Len(queue) = 0
  BY DEF Init
<1>5. Places(P) /\ Watches(P) /\ Map(P)
  BY <1>3 DEF Places, Watches, Map
<1>6. Events(P)
  BY <1>4 DEF Events
<1>7. Stages
  BY TreeAssumption DEF Init, Stages, Tree
<1>8. Order(P)
  BY <1>3, <1>4 DEF Order, Known1, Known2, Again, Gone
<1> QED
  BY <1>2, <1>5, <1>6, <1>7, <1>8 DEF State

\* Neither history is taken back
LEMMA HistoryGrows ==
  ASSUME [Next]_vars
  PROVE  (moved => moved') /\ (disturbed => disturbed')
<1>1. CASE Others
  <2>1. ASSUME NEW op, Op(op) PROVE (moved => moved') /\ disturbed' = disturbed
    BY <2>1 DEF Op
  <2>2. ASSUME NEW o, CloseWrite(o) PROVE moved' = moved /\ disturbed' = disturbed
    BY <2>2 DEF CloseWrite
  <2> QED
    BY <1>1, <2>1, <2>2 DEF Others, Mkdir, Rmdir, Move, Create, Unlink
<1>2. CASE Walk
  <2>1. CASE WalkAdd
    BY <2>1 DEF WalkAdd, Abort
  <2>2. CASE ~WalkAdd
    BY <1>2, <2>2 DEF Walk, WalkItem, WalkIndex, WalkEnd, Abort, hist
  <2> QED
    BY <2>1, <2>2
<1>3. CASE Reader
  BY <1>3 DEF Reader, Skip, HandleCreate, HandleCloseWrite, HandleDelete, HandleMovedFrom,
              HandleMovedTo, Take, RenameWatches, Send, hist
<1>4. CASE Goroutines
  <2>1. ASSUME NEW m, MvTimeout(m) PROVE moved' = moved /\ disturbed' = disturbed
    BY <2>1 DEF MvTimeout
  <2>2. ASSUME NEW m, MvUnmap(m) \/ MvRmWatch(m) \/ MvRemove(m) \/ MvDelete(m) PROVE UNCHANGED hist
    BY <2>2 DEF MvUnmap, MvRmWatch, MvRemove, MvDelete
  <2> QED
    BY <1>4, <2>1, <2>2 DEF Goroutines, ReportDelete, MvGoroutine, hist
<1>5. CASE UNCHANGED vars
  BY <1>5 DEF vars, hist
<1> QED
  BY <1>1, <1>2, <1>3, <1>4, <1>5 DEF Next

LEMMA DeafStep ==
  ASSUME DeafInv, [Next]_vars
  PROVE  DeafInv'
<1> SUFFICES ASSUME ~moved', ~disturbed' PROVE \E Q : State(Q)' /\ Order(Q)'
  BY DEF DeafInv
<1>1. ~moved /\ ~disturbed
  BY HistoryGrows
<1>2. PICK P : State(P) /\ Order(P)
  BY <1>1 DEF DeafInv
<1>3. CASE Others
  <2>1. ASSUME NEW p \in Tree, NEW q \in Tree, Move(p, q) PROVE FALSE
    BY <2>1 DEF Move, Op
  <2> QED
    BY <1>2, <1>3, <2>1, MkdirOK, RmdirOK, FileOK, CloseWriteOK DEF Others, Tree
<1>4. CASE Walk
  BY <1>2, <1>4, WalkOK
<1>5. CASE Reader
  BY <1>2, <1>5, ReaderOK
<1>6. CASE Goroutines
  BY <1>2, <1>6, SameOK DEF Goroutines, ReportDelete, State, Stages
<1>7. CASE UNCHANGED vars
  BY <1>2, <1>7, SameOK DEF vars
<1> QED
  BY <1>3, <1>4, <1>5, <1>6, <1>7 DEF Next

\* Whatever the pace at which directories are made and deleted, and whatever name
\* is used again: at rest the map gives every watch the directory it is of.
THEOREM NoWatchIsDeaf == Spec => []NoDeafWatch
<1>1. DeafInv => NoDeafWatch
  <2> SUFFICES ASSUME DeafInv, Quiet, ~moved, ~disturbed, NEW w \in DOMAIN kernel
               PROVE  w \in DOMAIN pathByWd /\ At(pathByWd[w]) = kernel[w]
    BY DEF NoDeafWatch
  <2>1. PICK P : State(P) /\ Order(P)
    BY DEF DeafInv
  <2>2. Len(queue) = 0 /\ rpc = "next"
    BY DEF Quiet
  <2>3. Needed(w, 1)
    BY <2>2 DEF Needed
  <2>4. w \in DOMAIN pathByWd
    BY <2>1, <2>2, <2>3 DEF Order, Known1, Ahead, Told
  <2> QED
    BY <2>1, <2>4 DEF State, Map, Places, Watches, At, Tree
<1>2. DeafInv /\ [Next]_vars => DeafInv'
  BY DeafStep
<1> QED
  BY DeafInit, <1>1, <1>2, PTL DEF Spec

-----------------------------------------------------------------------------
(* What covers a row.  P is as above; nothing is deleted that is being written. *)

\* A deletion of p would be noticed
Noticed(P, p) == p \in Top \/ \E w \in DOMAIN kernel : P[w] = Parent(p)

Kept(P, p) == tree[p] # NoNode /\ Noticed(P, p)

\* The deletion of p, or of something above it, is in the queue after the i-th event
Doomed(P, p, i) ==
    \E k \in 1 .. Len(queue) : i < k /\ queue[k].mask = "DELETE" /\ In(p, PathOf(P, queue[k]))

\* Every row is of something there, or will be taken out
RowsCovered(P) == \A p \in index :
    /\ p \in Tree /\ ~shouldIgnore(p)
    /\ Kept(P, p) \/ Doomed(P, p, 0) \/ \E it \in dels : Covers(it, p)

Held == \A it \in dels : it.path \in Tree /\ (it.isDir <=> it.path \in Folders)

\* What the walk will make rows for
WalkCovered(P) ==
    /\ rpc \in {"walk", "add", "index"} => \A p \in todo : Noticed(P, p) \/ Doomed(P, p, 0)
    /\ rpc \in {"add", "index"} => \A p \in names : Parent(p) = cur
    /\ rpc = "index" => (\E w \in DOMAIN kernel : P[w] = cur) \/ Doomed(P, cur, 0)

\* ... and Index events
CallCovered(P) == rpc = "send" =>
    /\ call.op = "Index" /\ call.name \in Tree /\ ~shouldIgnore(call.name)
    /\ Kept(P, call.name) \/ Doomed(P, call.name, 0)

OpenThere == \A o \in open : \E p \in Files : tree[p] # NoNode /\ o = OpenFile(p)

WritesCovered(P) == \A i \in 1 .. Len(queue) : queue[i].mask = "CLOSE_WRITE" =>
    LET p == PathOf(P, queue[i])
    IN  p \in Files /\ (Kept(P, p) \/ Doomed(P, p, i))

Covered(P) == RowsCovered(P) /\ Held /\ WalkCovered(P) /\ CallCovered(P) /\ OpenThere /\ WritesCovered(P)

GhostInv == (~moved /\ ~disturbed) => \E P : State(P) /\ Order(P) /\ Covered(P)

\* Others queue the event e, and it tells of the end of p
Ends(P, e, p) == queue' = Append(queue, e) /\ e.mask = "DELETE" /\ In(p, PathOf(P, e))

\* What others do: an event e may be queued, and tells of whatever is not kept
LEMMA CoveredGrows ==
  ASSUME NEW P, State(P), Covered(P), NEW e,
         UNCHANGED <<rpc, todo, cur, names, call, dels, index>>,
         queue' = queue \/ queue' = Append(queue, e),
         \A p \in Tree : Noticed(P, p) => Noticed(P, p)' \/ Ends(P, e, p),
         \A p \in Tree : Kept(P, p) => Kept(P, p)' \/ Ends(P, e, p),
         \A w \in DOMAIN kernel : w \in DOMAIN kernel' \/ Ends(P, e, P[w]),
         OpenThere',
         queue' = Append(queue, e) /\ e.mask = "CLOSE_WRITE" => PathOf(P, e) \in Files /\ Kept(P, PathOf(P, e))'
  PROVE  Covered(P)'
<1> PICK n \in Nat : n = Len(queue)
  BY DEF State, Events
<1>1. \A k \in 1 .. n : k \in 1 .. Len(queue') /\ queue'[k] = queue[k]
  BY DEF State, Events
<1>2. queue' = Append(queue, e) => n + 1 \in 1 .. Len(queue') /\ queue'[n + 1] = e /\ Len(queue') = n + 1
  BY DEF State, Events
<1>3. \A p : \A i \in 0 .. n : Doomed(P, p, i) => Doomed(P, p, i)'
  BY <1>1 DEF Doomed, PathOf
<1>4. \A p : \A i \in 0 .. n : Ends(P, e, p) => Doomed(P, p, i)'
  BY <1>2 DEF Doomed, PathOf, Ends
<1>5. 0 \in 0 .. n
  OBVIOUS
<1>6. RowsCovered(P)'
  BY <1>3, <1>4, <1>5 DEF Covered, RowsCovered
<1>7. Held'
  BY DEF Covered, Held
<1>8. WalkCovered(P)'
  BY <1>3, <1>4, <1>5 DEF Covered, WalkCovered, State, Stages
<1>9. CallCovered(P)'
  BY <1>3, <1>4, <1>5 DEF Covered, CallCovered
<1>10. WritesCovered(P)'
  <2> SUFFICES ASSUME NEW i \in 1 .. Len(queue'), queue'[i].mask = "CLOSE_WRITE"
               PROVE  \E p \in Files : p = PathOf(P, queue'[i]) /\ (Kept(P, p)' \/ Doomed(P, p, i)')
    BY DEF WritesCovered, PathOf
  <2>1. CASE i \in 1 .. n
    <3>1. queue'[i] = queue[i] /\ i \in 0 .. n
      BY <1>1, <2>1
    <3>2. PICK p \in Files : p = PathOf(P, queue[i]) /\ (Kept(P, p) \/ Doomed(P, p, i))
      BY <2>1, <3>1 DEF Covered, WritesCovered
    <3>3. Kept(P, p)' \/ Doomed(P, p, i)'
      BY <1>3, <1>4, <3>1, <3>2 DEF Tree
    <3> QED
      BY <3>1, <3>2, <3>3
  <2>2. CASE i \notin 1 .. n
    BY <1>2, <2>2
  <2> QED
    BY <2>1, <2>2
<1> QED
  BY <1>6, <1>7, <1>8, <1>9, <1>10 DEF Covered

\* The directory of a file that is open is there
LEMMA OpenIn ==
  ASSUME NEW P, State(P), NEW p \in Files, tree[p] # NoNode
  PROVE  /\ p \in Tree \ Top /\ Parent(p) \in Folders /\ tree[Parent(p)] # NoNode
         /\ OpenFile(p) = [dir |-> tree[Parent(p)], name |-> Base(p)]
<1>1. p \in Tree \ Top
  BY TreeAssumption DEF Tree
<1>2. p \in Path \ {<< >>} /\ Parent(p) \in Folders /\ At(Parent(p)) = tree[Parent(p)]
  BY <1>1, Folder
<1>3. Under(p, Parent(p))
  BY <1>2, ParentAndBase
<1> QED
  BY <1>1, <1>2, <1>3 DEF State, Rooted, OpenFile

LEMMA MkdirCovered ==
  ASSUME NEW P, State(P), Covered(P), NEW p \in Folders \ Top, Mkdir(p)
  PROVE  Covered(P)'
<1>1. /\ p \in Tree \ Top /\ tree[p] = NoNode /\ tree' = [tree EXCEPT ![p] = <<p, ops + 1>>]
      /\ UNCHANGED <<open, kernel, rpc, todo, cur, names, call, dels, index>>
  BY DEF Mkdir, Op, wm, reader, walk, Tree, At, Inode
<1>2. PICK e : \/ queue' = queue
               \/ queue' = Append(queue, e) /\ e.mask = "CREATE"
  BY <1>1, EventQueued DEF Mkdir
<1>3. \A q \in Tree : tree[q] # NoNode => tree'[q] = tree[q]
  BY <1>1 DEF State, Rooted
<1>4. \A q \in Tree : (Noticed(P, q) => Noticed(P, q)') /\ (Kept(P, q) => Kept(P, q)')
  BY <1>1, <1>3 DEF Noticed, Kept
<1>5. OpenThere'
  <2> SUFFICES ASSUME NEW o \in open PROVE \E q \in Files : tree'[q] # NoNode /\ o = OpenFile(q)'
    BY <1>1 DEF OpenThere
  <2>1. PICK q \in Files : tree[q] # NoNode /\ o = OpenFile(q)
    BY DEF Covered, OpenThere
  <2>2. tree'[q] = tree[q] /\ At(Parent(q))' = At(Parent(q))
    BY <1>3, <2>1, OpenIn DEF At, Tree
  <2> QED
    BY <2>1, <2>2 DEF OpenFile
<1>6. queue' = Append(queue, e) => e.mask # "CLOSE_WRITE" \/ queue' = queue
  BY <1>2
<1>7. queue' # queue \/ queue' # Append(queue, e)
  BY DEF State, Events
<1> QED
  BY <1>1, <1>2, <1>4, <1>5, <1>6, <1>7, CoveredGrows

\* Whoever is watched can be noticed to go, unless it is always there
LEMMA WatchedNoticed ==
  ASSUME NEW P, State(P), NEW w \in DOMAIN kernel
  PROVE  P[w] \in Folders /\ Kept(P, P[w])
<1>1. P[w] \in Folders /\ tree[P[w]] # NoNode /\ (P[w] \in Roots \/ \E v \in DOMAIN kernel : P[v] = Parent(P[w]))
  BY DEF State, Places, Watches
<1> QED
  BY <1>1, TreeAssumption DEF Kept, Noticed

LEMMA RmdirCovered ==
  ASSUME NEW P, State(P), Covered(P), NEW p \in Folders \ Top, Rmdir(p)
  PROVE  Covered(P)'
<1>1. /\ p \in Tree \ Top /\ tree' = [tree EXCEPT ![p] = NoNode] /\ Entries(p) = {}
      /\ UNCHANGED <<open, rpc, todo, cur, names, call, dels, index>>
  BY DEF Rmdir, Op, wm, reader, walk, Tree
<1>2. PICK e : \/ (\A w \in DOMAIN kernel : P[w] # Parent(p)) /\ queue' = queue
               \/ queue' = Append(queue, e) /\ e.mask = "DELETE" /\ PathOf(P, e) = p
  BY <1>1, EventQueued DEF Rmdir
<1>3. DOMAIN kernel' = {w \in DOMAIN kernel : P[w] # p}
  BY <1>1, SameInode DEF Rmdir, Unwatched, Restrict
<1>4. \A q \in Tree \ {p} : tree'[q] = tree[q]
  BY <1>1 DEF State, Rooted
<1>5. Noticed(P, p) => Ends(P, e, p)
  BY <1>1, <1>2 DEF Noticed, Ends, In
<1>6. ASSUME NEW w \in DOMAIN kernel, P[w] = p PROVE Ends(P, e, p)
  BY <1>5, <1>6, WatchedNoticed DEF Kept
<1>7. ASSUME NEW q \in Tree, Noticed(P, q) PROVE Noticed(P, q)' \/ Ends(P, e, q)
  <2>1. CASE q \in Top
    BY <2>1 DEF Noticed
  <2>2. ASSUME NEW w \in DOMAIN kernel, P[w] = Parent(q), P[w] # p PROVE Noticed(P, q)'
    BY <1>3, <2>2 DEF Noticed
  <2>3. ASSUME NEW w \in DOMAIN kernel, P[w] = Parent(q), P[w] = p PROVE Ends(P, e, q)
    <3>1. q \in Path \ {<< >>}
      BY TreeAssumption DEF Tree
    <3>2. Under(q, p)
      BY <2>3, <3>1, ParentAndBase
    <3> QED
      BY <1>2, <1>6, <2>3, <3>2 DEF Ends, In
  <2> QED
    BY <1>7, <2>1, <2>2, <2>3 DEF Noticed
<1>8. ASSUME NEW q \in Tree, Kept(P, q) PROVE Kept(P, q)' \/ Ends(P, e, q)
  <2>1. CASE q = p
    BY <1>5, <1>8, <2>1 DEF Kept
  <2>2. CASE q # p
    BY <1>4, <1>7, <1>8, <2>2 DEF Kept
  <2> QED
    BY <2>1, <2>2
<1>9. \A w \in DOMAIN kernel : w \in DOMAIN kernel' \/ Ends(P, e, P[w])
  BY <1>3, <1>6
<1>10. OpenThere'
  <2> SUFFICES ASSUME NEW o \in open PROVE \E q \in Files : tree'[q] # NoNode /\ o = OpenFile(q)'
    BY <1>1 DEF OpenThere
  <2>1. PICK q \in Files : tree[q] # NoNode /\ o = OpenFile(q)
    BY DEF Covered, OpenThere
  <2>2. q # p /\ Parent(q) # p
    BY <1>1, <2>1, OpenIn, TreeAssumption DEF Entries, Tree
  <2>3. tree'[q] = tree[q] /\ At(Parent(q))' = At(Parent(q))
    BY <1>4, <2>1, <2>2, OpenIn DEF At, Tree
  <2> QED
    BY <2>1, <2>3 DEF OpenFile
<1>11. queue' # queue \/ queue' # Append(queue, e)
  BY DEF State, Events
<1>12. queue' = Append(queue, e) => e.mask # "CLOSE_WRITE"
  BY <1>2, <1>11
<1> QED
  BY <1>1, <1>2, <1>7, <1>8, <1>9, <1>10, <1>12, CoveredGrows

LEMMA CreateCovered ==
  ASSUME NEW P, State(P), Covered(P), NEW p \in Files, Create(p)
  PROVE  Covered(P)'
<1>1. /\ p \in Tree \ Top /\ p \notin Folders /\ tree' = [tree EXCEPT ![p] = AFile]
      /\ open' = open \cup {OpenFile(p)}
      /\ UNCHANGED <<kernel, queue, rpc, todo, cur, names, call, dels, index>>
  BY TreeAssumption DEF Create, Op, wm, reader, walk, Tree
<1>2. /\ \A q \in Tree : tree[q] # NoNode => tree'[q] # NoNode
      /\ tree'[p] # NoNode /\ \A q \in Folders : tree'[q] = tree[q]
  BY <1>1 DEF State, Rooted, AFile, NoNode, Tree
<1>3. \A q \in Tree : (Noticed(P, q) => Noticed(P, q)') /\ (Kept(P, q) => Kept(P, q)')
  BY <1>1, <1>2 DEF Noticed, Kept
<1>4. \A q \in Files : OpenFile(q)' = OpenFile(q)
  <2> SUFFICES ASSUME NEW q \in Files PROVE At(Parent(q))' = At(Parent(q))
    BY DEF OpenFile
  <2>1. Parent(q) \in Folders
    BY Folder, TreeAssumption DEF Tree
  <2> QED
    BY <1>2, <2>1 DEF At
<1>5. OpenThere'
  BY <1>1, <1>2, <1>4 DEF Covered, OpenThere, Tree
<1>6. PICK e : queue' # Append(queue, e)
  BY <1>1 DEF State, Events
<1> QED
  BY <1>1, <1>3, <1>5, <1>6, CoveredGrows

LEMMA UnlinkCovered ==
  ASSUME ~UnlinkOpen, NEW P, State(P), Covered(P), NEW p \in Files, Unlink(p)
  PROVE  Covered(P)'
<1>1. /\ p \in Tree \ Top /\ p \notin Folders /\ tree' = [tree EXCEPT ![p] = NoNode]
      /\ OpenFile(p) \notin open
      /\ UNCHANGED <<open, kernel, rpc, todo, cur, names, call, dels, index>>
  BY TreeAssumption DEF Unlink, Op, wm, reader, walk, Tree
<1>2. PICK e : \/ (\A w \in DOMAIN kernel : P[w] # Parent(p)) /\ queue' = queue
               \/ queue' = Append(queue, e) /\ e.mask = "DELETE" /\ PathOf(P, e) = p
  BY <1>1, EventQueued DEF Unlink
<1>3. \A q \in Tree \ {p} : tree'[q] = tree[q]
  BY <1>1 DEF State, Rooted
<1>4. \A q \in Tree : Noticed(P, q) => Noticed(P, q)'
  BY <1>1 DEF Noticed
<1>5. Noticed(P, p) => Ends(P, e, p)
  BY <1>1, <1>2 DEF Noticed, Ends, In
<1>6. \A q \in Tree : Kept(P, q) => Kept(P, q)' \/ Ends(P, e, q)
  BY <1>3, <1>4, <1>5 DEF Kept
<1>7. OpenThere'
  <2> SUFFICES ASSUME NEW o \in open PROVE \E q \in Files : tree'[q] # NoNode /\ o = OpenFile(q)'
    BY <1>1 DEF OpenThere
  <2>1. PICK q \in Files : tree[q] # NoNode /\ o = OpenFile(q)
    BY DEF Covered, OpenThere
  <2>2. q # p /\ Parent(q) # p
    BY <1>1, <2>1, OpenIn
  <2>3. tree'[q] = tree[q] /\ At(Parent(q))' = At(Parent(q))
    BY <1>3, <2>1, <2>2, OpenIn DEF At, Tree
  <2> QED
    BY <2>1, <2>3 DEF OpenFile
<1>8. queue' # queue \/ queue' # Append(queue, e)
  BY DEF State, Events
<1>9. queue' = Append(queue, e) => e.mask # "CLOSE_WRITE"
  BY <1>2, <1>8
<1> QED
  BY <1>1, <1>2, <1>4, <1>6, <1>7, <1>9, CoveredGrows

LEMMA CloseWriteCovered ==
  ASSUME NEW P, State(P), Covered(P), NEW o \in open, CloseWrite(o)
  PROVE  Covered(P)'
<1> DEFINE e(u) == [wd |-> u, mask |-> "CLOSE_WRITE", name |-> o.name, isDir |-> FALSE, cookie |-> 0]
<1>1. /\ open' = open \ {o}
      /\ UNCHANGED <<tree, kernel, rpc, todo, cur, names, call, dels, index>>
  BY DEF CloseWrite, wm, reader, walk
<1>2. PICK v : queue' = queue \/ (queue' = Append(queue, e(v)) /\ v \in DOMAIN kernel /\ kernel[v] = o.dir)
  BY CloseQueued
<1>3. PICK q \in Files : tree[q] # NoNode /\ o = OpenFile(q)
  BY DEF Covered, OpenThere
<1>4. ASSUME v \in DOMAIN kernel, kernel[v] = o.dir PROVE PathOf(P, e(v)) = q /\ Kept(P, q)'
  <2>1. q \in Tree \ Top /\ Parent(q) \in Folders /\ At(Parent(q)) = tree[Parent(q)] /\ o.dir = tree[Parent(q)]
        /\ o.name = Base(q)
    BY <1>3, OpenIn DEF At, Tree
  <2>2. P[v] = Parent(q)
    BY <1>4, <2>1, SameInode
  <2>3. q \in Path \ {<< >>}
    BY <2>1, Folder
  <2>4. Append(Parent(q), Base(q)) = q
    BY <2>3, ParentAndBase
  <2>5. PathOf(P, e(v)) = q
    BY <2>1, <2>2, <2>4 DEF PathOf
  <2> QED
    BY <1>1, <1>3, <1>4, <2>2, <2>5 DEF Kept, Noticed
<1>5. OpenThere'
  BY <1>1 DEF Covered, OpenThere, OpenFile, At
<1>6. \A p \in Tree : (Noticed(P, p) => Noticed(P, p)') /\ (Kept(P, p) => Kept(P, p)')
  BY <1>1 DEF Noticed, Kept
<1> HIDE DEF e
<1>7. queue' # queue \/ queue' # Append(queue, e(v))
  BY DEF State, Events
<1>8. queue' = Append(queue, e(v)) => PathOf(P, e(v)) \in Files /\ Kept(P, PathOf(P, e(v)))'
  <2> SUFFICES ASSUME queue' = Append(queue, e(v)) PROVE PathOf(P, e(v)) \in Files /\ Kept(P, PathOf(P, e(v)))'
    OBVIOUS
  <2>1. PathOf(P, e(v)) = q /\ Kept(P, q)'
    BY <1>2, <1>4, <1>7
  <2> QED
    BY <2>1 DEF Kept, Noticed
<1> QED
  BY <1>1, <1>2, <1>5, <1>6, <1>8, CoveredGrows

LEMMA WalkItemCovered ==
  ASSUME NEW P, State(P), Covered(P), NEW p \in todo, WalkItem(p), ~disturbed'
  PROVE  Covered(P)'
<1>1. /\ p \in Tree /\ tree[p] # NoNode /\ At(p) # NoNode /\ rpc = "walk" /\ todo' = todo \ {p}
      /\ UNCHANGED <<tree, open, kernel, queue, dels, call>>
  BY DEF WalkItem, Abort, State, Stages, At, fs
<1>2. \/ /\ rpc' = "walk" /\ index' = index
      \/ /\ rpc' = "walk" /\ index' = index \cup {p} /\ ~shouldIgnore(p)
      \/ /\ rpc' = "add" /\ index' = index
         /\ cur' = p /\ names' = Entries(p)
  BY <1>1 DEF WalkItem
<1>3. Noticed(P, p) \/ Doomed(P, p, 0)
  BY <1>1 DEF Covered, WalkCovered
<1>4. \A q, i : /\ Noticed(P, q)' <=> Noticed(P, q)
                /\ Kept(P, q)' <=> Kept(P, q)
                /\ Doomed(P, q, i)' <=> Doomed(P, q, i)
  BY <1>1 DEF Noticed, Kept, Doomed, PathOf
<1>5. RowsCovered(P)'
  BY <1>1, <1>2, <1>3, <1>4 DEF Covered, RowsCovered, Kept
<1>6. WalkCovered(P)'
  BY <1>1, <1>2, <1>4 DEF Covered, WalkCovered, Entries
<1>7. CallCovered(P)'
  BY <1>2 DEF CallCovered
<1>8. Held' /\ OpenThere' /\ WritesCovered(P)'
  BY <1>1, <1>4 DEF Covered, Held, OpenThere, OpenFile, At, WritesCovered, PathOf
<1> QED
  BY <1>5, <1>6, <1>7, <1>8 DEF Covered

LEMMA WalkAddCovered ==
  ASSUME NEW P, State(P), Covered(P), WalkAdd, ~disturbed',
         NEW Q, State(Q)', \A w \in 1 .. nextWd - 1 : Q[w] = P[w]
  PROVE  Covered(Q)'
<1>1. /\ rpc = "add" /\ rpc' = "index" /\ cur \in Folders /\ At(cur) = tree[cur]
      /\ UNCHANGED <<tree, open, queue, dels, todo, cur, names, call, index>>
  BY DEF WalkAdd, Abort, walk, State, Stages, At, Tree
<1>2. DOMAIN kernel \subseteq DOMAIN kernel' /\ \E w \in DOMAIN kernel' : kernel'[w] = At(cur)
  BY DEF WalkAdd, Abort, Put
<1>3. \E w \in DOMAIN kernel' : Q[w] = cur
  <2>1. PICK w \in DOMAIN kernel' : kernel'[w] = tree[cur]
    BY <1>1, <1>2
  <2>2. Q[w] \in Folders /\ kernel'[w] = tree[Q[w]] /\ tree[cur] # NoNode
    BY <1>1, <2>1 DEF State, Places, Watches
  <2>3. \A d \in Folders : tree[d] # NoNode => \E k \in Nat : tree[d] = <<d, k>>
    BY DEF State, Rooted
  <2>4. PICK k \in Nat : tree[cur] = <<cur, k>>
    BY <1>1, <2>1, <2>2, <2>3
  <2>5. PICK m \in Nat : tree[Q[w]] = <<Q[w], m>>
    BY <1>1, <2>1, <2>2, <2>3
  <2>6. <<cur, k>> = <<Q[w], m>>
    BY <2>1, <2>2, <2>4, <2>5
  <2> QED
    BY <2>1, <2>6
<1>4. \A w \in DOMAIN kernel : Q[w] = P[w]
  BY DEF State, Watches
<1>5. \A i \in 1 .. Len(queue) : PathOf(Q, queue[i]) = PathOf(P, queue[i])
  BY DEF State, Events, About, PathOf
<1>6. \A q : (Noticed(P, q) => Noticed(Q, q)') /\ (Kept(P, q) => Kept(Q, q)')
  BY <1>1, <1>2, <1>4 DEF Noticed, Kept
<1>7. \A q, i : Doomed(P, q, i) => Doomed(Q, q, i)'
  BY <1>1, <1>5 DEF Doomed, PathOf
<1>8. RowsCovered(Q)'
  BY <1>1, <1>6, <1>7 DEF Covered, RowsCovered
<1>9. WalkCovered(Q)'
  BY <1>1, <1>3, <1>6, <1>7 DEF Covered, WalkCovered
<1>10. CallCovered(Q)'
  BY <1>1 DEF CallCovered
<1>11. Held' /\ OpenThere'
  BY <1>1 DEF Covered, Held, OpenThere, OpenFile, At
<1>12. WritesCovered(Q)'
  BY <1>1, <1>5, <1>6, <1>7 DEF Covered, WritesCovered, PathOf
<1> QED
  BY <1>8, <1>9, <1>10, <1>11, <1>12 DEF Covered

LEMMA WalkCoveredOK ==
  ASSUME NEW P, State(P), Order(P), Covered(P), Walk, ~disturbed'
  PROVE  \E Q : State(Q)' /\ Order(Q)' /\ Covered(Q)'
<1>1. CASE \E p \in todo : WalkItem(p)
  BY <1>1, WalkItemOK, WalkItemCovered
<1>2. CASE WalkAdd
  BY <1>2, WalkAddOK, WalkAddCovered
<1>3. CASE WalkIndex \/ WalkEnd
  <2>1. State(P)' /\ Order(P)'
    BY <1>3, WalkEndOK
  <2>2. /\ rpc' \in {"walk", "next"}
        /\ UNCHANGED <<tree, open, kernel, queue, dels, call>>
        /\ \/ index' = index /\ rpc' = "next"
           \/ rpc = "index" /\ index' = index \cup {cur} /\ todo' = todo \cup names
    BY <1>3 DEF WalkIndex, WalkEnd, fs, walk
  <2>3. \A q, i : /\ Noticed(P, q)' <=> Noticed(P, q)
                  /\ Kept(P, q)' <=> Kept(P, q)
                  /\ Doomed(P, q, i)' <=> Doomed(P, q, i)
    BY <2>2 DEF Noticed, Kept, Doomed, PathOf
  <2>4. rpc = "index" => cur \in Tree /\ ~shouldIgnore(cur) /\ (Kept(P, cur) \/ Doomed(P, cur, 0))
    BY WatchedNoticed DEF Covered, WalkCovered, State, Stages, Tree
  <2>5. ASSUME rpc = "index", NEW c \in names PROVE Noticed(P, c) \/ Doomed(P, c, 0)
    <3>1. Parent(c) = cur /\ c \in Tree
      BY <2>5 DEF Covered, WalkCovered, State, Stages
    <3>2. CASE \E w \in DOMAIN kernel : P[w] = cur
      BY <3>1, <3>2 DEF Noticed
    <3>3. CASE Doomed(P, cur, 0)
      <4>1. PICK k \in 1 .. Len(queue) : /\ 0 < k /\ queue[k].mask = "DELETE"
                                         /\ In(cur, PathOf(P, queue[k]))
        BY <3>3 DEF Doomed
      <4>2. c \in Path \ {<< >>} /\ cur \in Path /\ PathOf(P, queue[k]) \in Path
        BY <3>1, <4>1, ParentAndBase, TreeAssumption DEF State, Events, About, Tree
      <4>3. In(c, cur)
        BY <3>1, <4>2, ParentAndBase DEF In
      <4>4. In(c, PathOf(P, queue[k]))
        BY <4>1, <4>2, <4>3, InTransitive
      <4> QED
        BY <4>1, <4>4 DEF Doomed
    <3> QED
      BY <2>5, <3>2, <3>3 DEF Covered, WalkCovered
  <2>6. RowsCovered(P)'
    BY <2>2, <2>3, <2>4 DEF Covered, RowsCovered
  <2>7. WalkCovered(P)'
    BY <2>2, <2>3, <2>5 DEF Covered, WalkCovered
  <2>8. CallCovered(P)'
    BY <2>2 DEF CallCovered
  <2>9. Held' /\ OpenThere' /\ WritesCovered(P)'
    BY <2>2, <2>3 DEF Covered, Held, OpenThere, OpenFile, At, WritesCovered, PathOf
  <2> QED
    BY <2>1, <2>6, <2>7, <2>8, <2>9 DEF Covered
<1> QED
  BY <1>1, <1>2, <1>3 DEF Walk

\* The reader takes an event: a deletion it skips is of something ignored, or is
\* followed by the deletion of its directory
LEMMA CoveredShifts ==
  ASSUME NEW P, State(P), Order(P), rpc = "next", queue # << >>, queue' = Tail(queue),
         UNCHANGED <<tree, kernel>>
  PROVE  /\ \A p : (Noticed(P, p)' <=> Noticed(P, p)) /\ (Kept(P, p)' <=> Kept(P, p))
         /\ \A p : \A i \in Nat \ {0} : Doomed(P, p, i) => Doomed(P, p, i - 1)'
         /\ \A p \in Tree : Doomed(P, p, 0) /\ ~shouldIgnore(p) =>
               \/ Doomed(P, p, 0)'
               \/ /\ Head(queue).mask = "DELETE" /\ Known(Head(queue))
                  /\ In(p, AbsPath) /\ AbsPath \in Tree
                  /\ Head(queue).isDir <=> AbsPath \in Folders
<1> PICK n \in Nat \ {0} : n = Len(queue)
  BY DEF State, Events
<1>1. Len(queue') = n - 1 /\ (\A i \in 1 .. n - 1 : queue'[i] = queue[i + 1]) /\ Head(queue) = queue[1]
  BY DEF State, Events
<1>2. \A p : (Noticed(P, p)' <=> Noticed(P, p)) /\ (Kept(P, p)' <=> Kept(P, p))
  BY DEF Noticed, Kept
<1>3. ASSUME NEW p, NEW i \in Nat \ {0}, Doomed(P, p, i) PROVE Doomed(P, p, i - 1)'
  <2>1. PICK k \in 1 .. n : i < k /\ queue[k].mask = "DELETE" /\ In(p, PathOf(P, queue[k]))
    BY <1>3 DEF Doomed
  <2>2. k - 1 \in 1 .. n - 1 /\ i - 1 < k - 1 /\ queue'[k - 1] = queue[k]
    BY <1>1, <2>1
  <2> QED
    BY <1>1, <2>1, <2>2 DEF Doomed, PathOf
<1>4. ASSUME NEW p \in Tree, Doomed(P, p, 0), ~shouldIgnore(p), ~Doomed(P, p, 0)'
      PROVE  /\ Head(queue).mask = "DELETE" /\ Known(Head(queue))
             /\ In(p, AbsPath) /\ AbsPath \in Tree
             /\ Head(queue).isDir <=> AbsPath \in Folders
  <2>1. ~Doomed(P, p, 1)
    <3>1. Doomed(P, p, 1) => Doomed(P, p, 1 - 1)'
      BY <1>3
    <3> QED
      BY <1>4, <3>1
  <2>2. queue[1].mask = "DELETE" /\ In(p, PathOf(P, queue[1])) /\ 1 \in 1 .. n
    BY <1>4, <2>1 DEF Doomed
  <2>3. /\ About(P, queue[1]) /\ PathOf(P, queue[1]) \in Tree \ Top /\ queue[1] \in Queued
        /\ (queue[1].isDir <=> PathOf(P, queue[1]) \in Folders)
        /\ P[queue[1].wd] \in Folders
    BY <2>2 DEF State, Events, About, Places
  <2>4. PathOf(P, queue[1]) \in Path /\ p \in Path /\ P[queue[1].wd] \in Path /\ queue[1].name \in Names
    BY <2>3, TreeAssumption DEF Tree, Queued
  <2>5. queue[1].wd \in DOMAIN kernel
    <3> SUFFICES ASSUME queue[1].wd \notin DOMAIN kernel PROVE FALSE
      OBVIOUS
    <3>1. PICK m \in Nat : m > 1 /\ Deleted(P, m, P[queue[1].wd])
      BY <2>2 DEF Order, Gone
    <3>2. In(PathOf(P, queue[1]), P[queue[1].wd])
      BY <2>4, ParentOfAppend DEF PathOf, In
    <3>3. In(p, P[queue[1].wd])
      BY <2>2, <2>4, <3>2, InTransitive
    <3> QED
      BY <2>1, <3>1, <3>3 DEF Deleted, Doomed
  <2>6. queue[1].wd \in DOMAIN pathByWd /\ pathByWd[queue[1].wd] = P[queue[1].wd]
    <3>1. Needed(queue[1].wd, 1)
      BY <2>2 DEF Needed
    <3>2. ~Told(P, P[queue[1].wd], 0, 1)
      BY DEF Told
    <3> QED
      BY <2>5, <3>1, <3>2 DEF Order, Known1, Ahead, State, Map
  <2>7. ~shouldIgnore(PathOf(P, queue[1]))
    BY <1>4, <2>2, <2>4, IgnoredBelow
  <2>8. AbsPath = PathOf(P, queue[1])
    BY <1>1, <2>6 DEF AbsPath, PathOf
  <2> QED
    BY <1>1, <2>2, <2>3, <2>6, <2>7, <2>8 DEF Known, PathOf
<1> QED
  BY <1>2, <1>3, <1>4

LEMMA AboveIsFolder ==
  ASSUME NEW p \in Tree, NEW d \in Tree, Under(p, d)
  PROVE  d \in Folders
<1>1. p \in Path /\ d \in Path /\ Len(p) \in Nat /\ Len(d) \in Nat /\ Len(p) > Len(d)
  BY TreeAssumption DEF Under, Path
<1>2. Len(d) \in Len(d) .. Len(p) - 1
  BY <1>1
<1>3. SubSeq(p, 1, Len(d)) \in Folders
  BY <1>2, TreeAssumption
<1> QED
  BY <1>3 DEF Under

LEMMA ReadsCovered ==
  ASSUME NEW P, State(P), Order(P), Covered(P), rpc = "next", queue # << >>, queue' = Tail(queue),
         UNCHANGED <<tree, open, kernel, index>>,
         \A p \in Tree : (\E it \in dels : Covers(it, p)) => \E it \in dels' : Covers(it, p),
         (Head(queue).mask = "DELETE" /\ Known(Head(queue))) =>
             \E it \in dels' : it.path = AbsPath /\ it.isDir = Head(queue).isDir
  PROVE  RowsCovered(P)' /\ WritesCovered(P)' /\ OpenThere'
<1> PICK n \in Nat \ {0} : n = Len(queue)
  BY DEF State, Events
<1>1. Len(queue') = n - 1 /\ \A i \in 1 .. n - 1 : queue'[i] = queue[i + 1]
  BY DEF State, Events
<1>2. RowsCovered(P)'
  <2> SUFFICES ASSUME NEW p \in index
               PROVE  /\ p \in Tree /\ ~shouldIgnore(p)
                      /\ Kept(P, p)' \/ Doomed(P, p, 0)' \/ \E it \in dels' : Covers(it, p)
    BY DEF RowsCovered
  <2>1. p \in Tree /\ ~shouldIgnore(p) /\ (Kept(P, p) \/ Doomed(P, p, 0) \/ \E it \in dels : Covers(it, p))
    BY DEF Covered, RowsCovered
  <2>2. CASE Kept(P, p) \/ \E it \in dels : Covers(it, p)
    BY <2>1, <2>2, CoveredShifts
  <2>3. CASE Doomed(P, p, 0) /\ ~Doomed(P, p, 0)'
    <3>1. /\ Head(queue).mask = "DELETE" /\ Known(Head(queue))
          /\ In(p, AbsPath) /\ AbsPath \in Tree
          /\ Head(queue).isDir <=> AbsPath \in Folders
      BY <2>1, <2>3, CoveredShifts
    <3>2. PICK it \in dels' : it.path = AbsPath /\ it.isDir = Head(queue).isDir
      BY <3>1
    <3>3. Covers(it, p)
      BY <2>1, <3>1, <3>2, AboveIsFolder DEF Covers, In
    <3> QED
      BY <2>1, <3>3
  <2> QED
    BY <2>1, <2>2, <2>3
<1>3. WritesCovered(P)'
  <2> SUFFICES ASSUME NEW i \in 1 .. Len(queue'), queue'[i].mask = "CLOSE_WRITE"
               PROVE  \E p \in Files : p = PathOf(P, queue'[i]) /\ (Kept(P, p)' \/ Doomed(P, p, i)')
    BY DEF WritesCovered, PathOf
  <2>1. i + 1 \in 1 .. n /\ queue'[i] = queue[i + 1]
    BY <1>1
  <2>2. PICK p \in Files : p = PathOf(P, queue[i + 1]) /\ (Kept(P, p) \/ Doomed(P, p, i + 1))
    BY <2>1 DEF Covered, WritesCovered
  <2>3. Doomed(P, p, i + 1) => Doomed(P, p, (i + 1) - 1)'
    BY <2>1, CoveredShifts
  <2>4. (i + 1) - 1 = i
    BY <2>1
  <2>5. Kept(P, p) => Kept(P, p)'
    BY CoveredShifts
  <2>6. Doomed(P, p, i + 1) => Doomed(P, p, i)'
    BY <2>3, <2>4
  <2> QED
    BY <2>1, <2>2, <2>5, <2>6
<1>4. OpenThere'
  BY DEF Covered, OpenThere, OpenFile, At
<1> QED
  BY <1>2, <1>3, <1>4

LEMMA ReaderCovered ==
  ASSUME NEW P, State(P), Order(P), Covered(P), Reader
  PROVE  Covered(P)'
<1>1. CASE Skip
  <2>1. /\ rpc = "next" /\ queue # << >> /\ ~Known(Head(queue)) /\ queue' = Tail(queue)
        /\ UNCHANGED <<tree, open, kernel, rpc, todo, cur, names, call, dels, index>>
    BY <1>1 DEF Skip, reader, walk
  <2>2. RowsCovered(P)' /\ WritesCovered(P)' /\ OpenThere'
    BY <2>1, ReadsCovered
  <2>3. Held' /\ WalkCovered(P)' /\ CallCovered(P)'
    BY <2>1 DEF Covered, Held, WalkCovered, CallCovered
  <2> QED
    BY <2>2, <2>3 DEF Covered
<1>2. CASE HandleCreate \/ HandleCloseWrite \/ HandleDelete
  <2>1. /\ rpc = "next" /\ queue # << >> /\ Known(Head(queue)) /\ queue' = Tail(queue)
        /\ UNCHANGED <<tree, open, kernel, cur, names, index>>
    BY <1>2 DEF HandleCreate, HandleCloseWrite, HandleDelete, Take
  <2>2. /\ Head(queue) = queue[1] /\ 1 \in 1 .. Len(queue) /\ About(P, queue[1])
        /\ AbsPath = PathOf(P, queue[1]) /\ ~shouldIgnore(AbsPath)
    BY <2>1, Understood DEF Known, AbsPath
  <2>3. CASE HandleCreate
    <3>1. Head(queue).mask = "CREATE" /\ rpc' = "walk" /\ todo' = {AbsPath} /\ UNCHANGED <<call, dels>>
      BY <2>3 DEF HandleCreate, Take
    <3>2. RowsCovered(P)' /\ WritesCovered(P)' /\ OpenThere'
      BY <2>1, <3>1, ReadsCovered
    <3>3. P[queue[1].wd] \in Path /\ queue[1].name \in Names
      BY <2>2, TreeAssumption DEF About, Queued, State, Places, Tree
    <3>4. Parent(AbsPath) = P[queue[1].wd] /\ Under(AbsPath, P[queue[1].wd])
      BY <2>2, <3>3, ParentOfAppend DEF PathOf
    <3>5. Noticed(P, AbsPath) \/ Doomed(P, AbsPath, 1)
      <4>1. CASE queue[1].wd \in DOMAIN kernel
        BY <3>4, <4>1 DEF Noticed
      <4>2. CASE queue[1].wd \notin DOMAIN kernel
        <5>1. PICK m \in Nat : m > 1 /\ Deleted(P, m, P[queue[1].wd])
          BY <2>2, <4>2 DEF Order, Gone
        <5> QED
          BY <3>4, <5>1 DEF Deleted, Doomed, In
      <4> QED
        BY <4>1, <4>2
    <3>6. PICK a : a = AbsPath
      OBVIOUS
    <3>7. Noticed(P, a)' \/ Doomed(P, a, 1 - 1)'
      BY <2>1, <3>5, <3>6, CoveredShifts
    <3>8. WalkCovered(P)'
      BY <3>1, <3>6, <3>7 DEF WalkCovered
    <3>9. Held' /\ CallCovered(P)'
      BY <3>1 DEF Covered, Held, CallCovered
    <3> QED
      BY <3>2, <3>8, <3>9 DEF Covered
  <2>4. CASE HandleCloseWrite
    <3>1. /\ Head(queue).mask = "CLOSE_WRITE" /\ rpc' = "send" /\ call' = [op |-> "Index", name |-> AbsPath]
          /\ UNCHANGED <<todo, dels>>
      BY <2>4 DEF HandleCloseWrite, Take
    <3>2. RowsCovered(P)' /\ WritesCovered(P)' /\ OpenThere'
      BY <2>1, <3>1, ReadsCovered
    <3>3. PICK a \in Files : a = AbsPath /\ (Kept(P, a) \/ Doomed(P, a, 1))
      BY <2>2, <3>1 DEF Covered, WritesCovered
    <3>4. Kept(P, a)' \/ Doomed(P, a, 1 - 1)'
      BY <2>1, <3>3, CoveredShifts
    <3>5. call'.op = "Index" /\ call'.name = a /\ a \in Tree /\ ~shouldIgnore(a)
      BY <2>2, <3>1, <3>3 DEF Tree
    <3>6. CallCovered(P)'
      BY <3>4, <3>5 DEF CallCovered
    <3>7. Held' /\ WalkCovered(P)'
      BY <3>1 DEF Covered, Held, WalkCovered
    <3> QED
      BY <3>2, <3>6, <3>7 DEF Covered
  <2>5. CASE HandleDelete
    <3> DEFINE it == [path |-> AbsPath, isDir |-> Head(queue).isDir]
    <3>1. /\ Head(queue).mask = "DELETE" /\ UNCHANGED <<rpc, todo, call>>
          /\ dels' = {d \in dels : ~(it.isDir /\ Under(d.path, it.path))} \cup {it}
      BY <2>5 DEF HandleDelete, Take
    <3>2. AbsPath \in Tree /\ (it.isDir <=> AbsPath \in Folders) /\ it.path = AbsPath /\ it.isDir = Head(queue).isDir
      BY <2>2, <3>1 DEF About
    <3>3. ASSUME NEW p \in Tree, NEW d \in dels, Covers(d, p) PROVE \E i \in dels' : Covers(i, p)
      <4>1. CASE it.isDir /\ Under(d.path, it.path)
        <5>1. d.path \in Path /\ it.path \in Path /\ p \in Path
          BY <3>2, TreeAssumption DEF Covered, Held, Tree
        <5>2. In(p, d.path) /\ In(d.path, it.path)
          BY <3>3, <4>1 DEF Covers, In
        <5>3. In(p, it.path)
          BY <5>1, <5>2, InTransitive
        <5> QED
          BY <3>1, <4>1, <5>3 DEF Covers, In
      <4>2. CASE ~(it.isDir /\ Under(d.path, it.path))
        BY <3>1, <3>3, <4>2
      <4> QED
        BY <4>1, <4>2
    <3>4. it \in dels' /\ \A d \in dels' : d = it \/ d \in dels
      BY <3>1
    <3>5. Held'
      BY <3>2, <3>4 DEF Covered, Held
    <3> HIDE DEF it
    <3>6. RowsCovered(P)' /\ WritesCovered(P)' /\ OpenThere'
      BY <2>1, <3>2, <3>3, <3>4, ReadsCovered
    <3>7. WalkCovered(P)' /\ CallCovered(P)'
      BY <2>1, <3>1 DEF WalkCovered, CallCovered
    <3> QED
      BY <3>5, <3>6, <3>7 DEF Covered
  <2> QED
    BY <1>2, <2>3, <2>4, <2>5
<1>3. CASE HandleMovedFrom \/ HandleMovedTo
  <2>1. queue # << >> /\ Known(Head(queue)) /\ Head(queue).mask \in {"MOVED_FROM", "MOVED_TO"}
    BY <1>3 DEF HandleMovedFrom, HandleMovedTo, Take
  <2> QED
    BY <2>1, Understood DEF About, Queued
<1>4. CASE RenameWatches
  BY <1>4 DEF RenameWatches, State, Stages
<1>5. CASE Send
  <2>1. /\ rpc = "send" /\ rpc' = "next"
        /\ UNCHANGED <<tree, open, kernel, queue, dels>>
    BY <1>5 DEF Send, fs
  <2>2. /\ call.op = "Index" /\ index' = index \cup {call.name}
    BY <1>5, <2>1 DEF Send, Covered, CallCovered
  <2>3. \A q, i : /\ Noticed(P, q)' <=> Noticed(P, q)
                  /\ Kept(P, q)' <=> Kept(P, q)
                  /\ Doomed(P, q, i)' <=> Doomed(P, q, i)
    BY <2>1 DEF Noticed, Kept, Doomed, PathOf
  <2>4. RowsCovered(P)'
    BY <2>1, <2>2, <2>3 DEF Covered, RowsCovered, CallCovered
  <2>5. WalkCovered(P)' /\ CallCovered(P)'
    BY <2>1 DEF WalkCovered, CallCovered
  <2>6. Held' /\ OpenThere' /\ WritesCovered(P)'
    BY <2>1, <2>3 DEF Covered, Held, OpenThere, OpenFile, At, WritesCovered, PathOf
  <2> QED
    BY <2>4, <2>5, <2>6 DEF Covered
<1> QED
  BY <1>1, <1>2, <1>3, <1>4, <1>5 DEF Reader

\* A report takes out what it covers, and no other
LEMMA ReportCovered ==
  ASSUME NEW P, State(P), Covered(P), NEW it \in dels, ReportDelete(it)
  PROVE  Covered(P)'
<1>1. /\ dels' = dels \ {it} /\ index' = {p \in index : ~Covers(it, p)}
      /\ UNCHANGED <<tree, open, kernel, queue, rpc, todo, cur, names, call>>
  BY DEF ReportDelete, Without, Covers, fs, reader, walk
<1>2. \A q, i : /\ Noticed(P, q)' <=> Noticed(P, q)
                /\ Kept(P, q)' <=> Kept(P, q)
                /\ Doomed(P, q, i)' <=> Doomed(P, q, i)
  BY <1>1 DEF Noticed, Kept, Doomed, PathOf
<1>3. RowsCovered(P)'
  BY <1>1, <1>2 DEF Covered, RowsCovered
<1>4. Held' /\ WalkCovered(P)' /\ CallCovered(P)' /\ OpenThere' /\ WritesCovered(P)'
  BY <1>1, <1>2 DEF Covered, Held, WalkCovered, CallCovered, OpenThere, OpenFile, At, WritesCovered, PathOf
<1> QED
  BY <1>3, <1>4 DEF Covered

LEMMA SameCovered ==
  ASSUME NEW P, Covered(P), UNCHANGED <<fs, reader, dels, index>>
  PROVE  Covered(P)'
<1>1. UNCHANGED <<tree, open, kernel, queue, rpc, todo, cur, names, call, dels, index>>
  BY DEF fs, reader, walk
<1>2. \A q, i : /\ Noticed(P, q)' <=> Noticed(P, q)
                /\ Kept(P, q)' <=> Kept(P, q)
                /\ Doomed(P, q, i)' <=> Doomed(P, q, i)
  BY <1>1 DEF Noticed, Kept, Doomed, PathOf
<1> QED
  BY <1>1, <1>2 DEF Covered, RowsCovered, Held, WalkCovered, CallCovered, OpenThere, OpenFile, At,
                    WritesCovered, PathOf

LEMMA GhostInit == Init => GhostInv
<1> SUFFICES ASSUME Init PROVE \E P : State(P) /\ Order(P) /\ Covered(P)
  BY DEF GhostInv
<1>1. PICK P : State(P) /\ Order(P)
  BY DeafInit DEF DeafInv, Init
<1>2. /\ rpc = "walk" /\ todo = Roots /\ dels = {} /\ index = {} /\ open = {} /\ Len(queue) = 0
  BY DEF Init
<1>3. Covered(P)
  BY <1>2, TreeAssumption DEF Covered, RowsCovered, Held, WalkCovered, CallCovered, OpenThere, WritesCovered, Noticed
<1> QED
  BY <1>1, <1>3

LEMMA GhostStep ==
  ASSUME ~UnlinkOpen, GhostInv, [Next]_vars
  PROVE  GhostInv'
<1> SUFFICES ASSUME ~moved', ~disturbed' PROVE \E Q : State(Q)' /\ Order(Q)' /\ Covered(Q)'
  BY DEF GhostInv
<1>1. ~moved /\ ~disturbed
  BY HistoryGrows
<1>2. PICK P : State(P) /\ Order(P) /\ Covered(P)
  BY <1>1 DEF GhostInv
<1>3. CASE Others
  <2>1. ASSUME NEW p \in Tree, NEW q \in Tree, Move(p, q) PROVE FALSE
    BY <2>1 DEF Move, Op
  <2>2. ASSUME NEW p \in Folders \ Top, Mkdir(p) \/ Rmdir(p) PROVE State(P)' /\ Order(P)' /\ Covered(P)'
    BY <1>2, <2>2, MkdirOK, MkdirCovered, RmdirOK, RmdirCovered
  <2>3. ASSUME NEW p \in Files, Create(p) \/ Unlink(p) PROVE State(P)' /\ Order(P)' /\ Covered(P)'
    BY <1>2, <2>3, FileOK, CreateCovered, UnlinkCovered
  <2>4. ASSUME NEW o \in open, CloseWrite(o) PROVE State(P)' /\ Order(P)' /\ Covered(P)'
    BY <1>2, <2>4, CloseWriteOK, CloseWriteCovered
  <2> QED
    BY <1>3, <2>1, <2>2, <2>3, <2>4 DEF Others, Tree
<1>4. CASE Walk
  BY <1>2, <1>4, WalkCoveredOK
<1>5. CASE Reader
  BY <1>2, <1>5, ReaderOK, ReaderCovered
<1>6. CASE Goroutines
  <2>1. PICK it \in dels : ReportDelete(it)
    BY <1>2, <1>6 DEF Goroutines, State, Stages
  <2>2. UNCHANGED <<fs, wm, reader, mvs>>
    BY <2>1 DEF ReportDelete
  <2> QED
    BY <1>2, <2>1, <2>2, SameOK, ReportCovered
<1>7. CASE UNCHANGED vars
  BY <1>2, <1>7, SameOK, SameCovered DEF vars
<1> QED
  BY <1>3, <1>4, <1>5, <1>6, <1>7 DEF Next

LEMMA GhostAlways ==
  ASSUME ~UnlinkOpen
  PROVE  Spec => []GhostInv
<1>1. GhostInv /\ [Next]_vars => GhostInv'
  BY GhostStep
<1> QED
  BY GhostInit, <1>1, PTL DEF Spec

-----------------------------------------------------------------------------
(* Paths again: what is above, and what a move makes of a path *)

\* In, name by name
LEMMA InAt ==
  ASSUME NEW c \in Path, NEW d \in Path
  PROVE  In(c, d) <=> Len(d) <= Len(c) /\ \A i \in 1 .. Len(d) : c[i] = d[i]
<1>1. c \in Seq(Names) /\ d \in Seq(Names) /\ Len(c) \in Nat /\ Len(d) \in Nat
  BY DEF Path
<1>2. ASSUME Under(c, d) PROVE Len(d) <= Len(c) /\ \A i \in 1 .. Len(d) : c[i] = d[i]
  <2>1. Len(c) > Len(d) /\ SubSeq(c, 1, Len(d)) = d
    BY <1>2 DEF Under
  <2> QED
    BY <1>1, <2>1
<1>3. ASSUME Len(d) <= Len(c), \A i \in 1 .. Len(d) : c[i] = d[i] PROVE In(c, d)
  <2>1. CASE Len(d) = Len(c)
    <3>1. c = d
      BY <1>1, <1>3, <2>1, SeqEqual
    <3> QED
      BY <3>1 DEF In
  <2>2. CASE Len(d) < Len(c)
    <3>1. SubSeq(c, 1, Len(d)) = d
      BY <1>1, <1>3, <2>2
    <3> QED
      BY <1>1, <2>2, <3>1 DEF In, Under
  <2> QED
    BY <1>1, <1>3, <2>1, <2>2
<1> QED
  BY <1>1, <1>2, <1>3 DEF In

\* Of two paths above one, one is above the other
LEMMA Comparable ==
  ASSUME NEW c \in Path, NEW p \in Path, NEW r \in Path, In(c, p), In(c, r)
  PROVE  In(p, r) \/ Under(r, p)
<1>1. c \in Seq(Names) /\ p \in Seq(Names) /\ r \in Seq(Names)
      /\ Len(c) \in Nat /\ Len(p) \in Nat /\ Len(r) \in Nat
  BY DEF Path
<1>2. /\ Len(p) <= Len(c) /\ \A i \in 1 .. Len(p) : p[i] = c[i]
      /\ Len(r) <= Len(c) /\ \A i \in 1 .. Len(r) : r[i] = c[i]
  BY InAt
<1>3. CASE Len(r) <= Len(p)
  <2>1. In(p, r)
    BY <1>1, <1>2, <1>3, InAt
  <2> QED
    BY <2>1
<1>4. CASE Len(r) > Len(p)
  <2>1. In(r, p) /\ r # p
    BY <1>1, <1>2, <1>4, InAt
  <2> QED
    BY <2>1 DEF In
<1> QED
  BY <1>1, <1>3, <1>4

LEMMA Concatenated ==
  ASSUME NEW a \in Seq(Names), NEW b \in Seq(Names)
  PROVE  \E y \in Seq(Names) : /\ y = a \o b /\ Len(y) = Len(a) + Len(b)
                               /\ \A i \in 1 .. Len(a) : y[i] = a[i]
                               /\ \A i \in 1 .. Len(b) : y[Len(a) + i] = b[i]
<1> PICK y : y = a \o b
  OBVIOUS
<1>1. Len(a) \in Nat /\ Len(b) \in Nat /\ y \in Seq(Names) /\ Len(y) = Len(a) + Len(b)
  OBVIOUS
<1>2. \A i \in 1 .. Len(a) + Len(b) : y[i] = IF i <= Len(a) THEN a[i] ELSE b[i - Len(a)]
  BY ConcatProperties
<1>3. ASSUME NEW i \in 1 .. Len(b) PROVE y[Len(a) + i] = b[i]
  <2> PICK j : j = Len(a) + i
    OBVIOUS
  <2>1. j \in 1 .. Len(a) + Len(b) /\ ~(j <= Len(a)) /\ j - Len(a) = i
    BY <1>1
  <2> QED
    BY <1>2, <2>1
<1>4. \A i \in 1 .. Len(a) : y[i] = a[i]
  BY <1>1, <1>2
<1> QED
  BY <1>1, <1>3, <1>4

\* x is c with its prefix p replaced by q, name by name
Relocates(c, p, q, x) ==
    /\ x = Relocate(c, p, q) /\ Len(x) = Len(q) + Len(c) - Len(p)
    /\ \A i \in 1 .. Len(q) : x[i] = q[i]
    /\ \A i \in 1 .. Len(c) - Len(p) : x[Len(q) + i] = c[Len(p) + i]

LEMMA RelocatedAt ==
  ASSUME NEW c \in Path, NEW p \in Path, NEW q \in Path, In(c, p)
  PROVE  \E x \in Seq(Names) : Relocates(c, p, q, x)
<1>1. c \in Seq(Names) /\ p \in Seq(Names) /\ q \in Seq(Names)
      /\ Len(c) \in Nat /\ Len(p) \in Nat /\ Len(q) \in Nat
  BY DEF Path
<1>2. Len(p) <= Len(c)
  BY InAt
<1> PICK s : s = SubSeq(c, Len(p) + 1, Len(c))
  OBVIOUS
<1>3. /\ s \in Seq(Names) /\ Len(s) = Len(c) - Len(p)
      /\ \A i \in 1 .. Len(c) - Len(p) : s[i] = c[Len(p) + i]
  <2>1. \A i \in Len(p) + 1 .. Len(c) : c[i] \in Names
    BY <1>1
  <2>2. s \in Seq(Names)
    BY <1>1, <1>2, <2>1
  <2>3. Len(s) = Len(c) - Len(p)
    BY <1>1, <1>2
  <2>4. \A i \in 1 .. Len(c) - Len(p) : s[i] = c[Len(p) + i]
    BY <1>1, <1>2
  <2> QED
    BY <2>2, <2>3, <2>4
<1> PICK x \in Seq(Names) :
        /\ x = q \o s /\ Len(x) = Len(q) + Len(s)
        /\ \A i \in 1 .. Len(q) : x[i] = q[i]
        /\ \A i \in 1 .. Len(s) : x[Len(q) + i] = s[i]
  BY <1>1, <1>3, Concatenated
<1>4. Relocate(c, p, q) = x
  BY DEF Relocate
<1>5. Len(x) = Len(q) + Len(c) - Len(p)
  BY <1>1, <1>2, <1>3
<1>6. \A i \in 1 .. Len(c) - Len(p) : x[Len(q) + i] = c[Len(p) + i]
  BY <1>3
<1> QED
  BY <1>4, <1>5, <1>6 DEF Relocates

LEMMA Relocated ==
  ASSUME NEW c \in Path, NEW p \in Path, NEW q \in Path, In(c, p)
  PROVE  /\ Relocate(c, p, q) \in Path
         /\ In(Relocate(c, p, q), q)
         /\ Relocate(Relocate(c, p, q), q, p) = c
         /\ Relocate(c, p, q) = q <=> c = p
<1>1. c \in Seq(Names) /\ p \in Seq(Names) /\ q \in Seq(Names)
      /\ Len(c) \in Nat /\ Len(p) \in Nat /\ Len(q) \in Nat
  BY DEF Path
<1>2. Len(p) <= Len(c) /\ \A i \in 1 .. Len(p) : p[i] = c[i]
  BY InAt
<1>0. \A a, d \in Path : In(a, d) => \E y \in Seq(Names) : Relocates(a, d, p, y)
  BY RelocatedAt
<1> PICK x \in Seq(Names) : Relocates(c, p, q, x)
  BY RelocatedAt
<1> USE DEF Relocates
<1>3. x \in Path /\ In(x, q)
  <2>1. x \in Path
    BY DEF Path
  <2>2. Len(q) <= Len(x)
    BY <1>1, <1>2
  <2> QED
    BY <2>1, <2>2, InAt
<1>4. Relocate(x, q, p) = c
  <2> PICK y \in Seq(Names) : Relocates(x, q, p, y)
    BY <1>3, <1>0
  <2>1. Len(y) = Len(c)
    BY <1>1, <1>2
  <2>2. ASSUME NEW i \in 1 .. Len(c) PROVE y[i] = c[i]
    <3>1. CASE i <= Len(p)
      BY <1>1, <1>2, <3>1
    <3>2. CASE i > Len(p)
      <4> PICK j : j = i - Len(p)
        OBVIOUS
      <4>1. j \in 1 .. Len(c) - Len(p) /\ j \in 1 .. Len(x) - Len(q) /\ Len(p) + j = i
        BY <1>1, <1>2, <3>2
      <4>2. y[Len(p) + j] = x[Len(q) + j] /\ x[Len(q) + j] = c[Len(p) + j]
        BY <4>1
      <4> QED
        BY <4>1, <4>2
    <3> QED
      BY <1>1, <3>1, <3>2
  <2> QED
    BY <1>1, <2>1, <2>2, SeqEqual
<1>5. x = q <=> c = p
  <2>1. CASE Len(c) = Len(p)
    <3>1. c = p
      BY <1>1, <1>2, <2>1, SeqEqual
    <3>2. Len(x) = Len(q)
      BY <1>1, <2>1
    <3>3. x = q
      BY <1>1, <3>2, SeqEqual
    <3> QED
      BY <3>1, <3>3
  <2>2. CASE Len(c) # Len(p)
    BY <1>1, <2>2
  <2> QED
    BY <2>1, <2>2
<1> QED
  BY <1>3, <1>4, <1>5

LEMMA RelocatedBelow ==
  ASSUME NEW d \in Path, NEW c \in Path, NEW p \in Path, NEW q \in Path, In(d, c), In(c, p)
  PROVE  In(d, p) /\ In(Relocate(d, p, q), Relocate(c, p, q))
<1>1. Len(d) \in Nat /\ Len(c) \in Nat /\ Len(p) \in Nat /\ Len(q) \in Nat
  BY DEF Path
<1>2. In(d, p)
  BY InTransitive
<1>3. /\ Len(p) <= Len(c) /\ \A i \in 1 .. Len(p) : c[i] = p[i]
      /\ Len(c) <= Len(d) /\ \A i \in 1 .. Len(c) : d[i] = c[i]
  BY InAt
<1> PICK x \in Seq(Names) : Relocates(c, p, q, x)
  BY RelocatedAt
<1> PICK y \in Seq(Names) : Relocates(d, p, q, y)
  BY <1>2, RelocatedAt
<1> USE DEF Relocates
<1>4. Len(x) <= Len(y)
  BY <1>1, <1>3
<1>5. ASSUME NEW i \in 1 .. Len(x) PROVE y[i] = x[i]
  <2>1. CASE i <= Len(q)
    BY <1>1, <2>1
  <2>2. CASE i > Len(q)
    <3> PICK j : j = i - Len(q)
      OBVIOUS
    <3>1. j \in 1 .. Len(c) - Len(p) /\ j \in 1 .. Len(d) - Len(p) /\ Len(q) + j = i /\ Len(p) + j \in 1 .. Len(c)
      BY <1>1, <1>3, <2>2
    <3>2. x[Len(q) + j] = c[Len(p) + j] /\ y[Len(q) + j] = d[Len(p) + j] /\ d[Len(p) + j] = c[Len(p) + j]
      BY <1>3, <3>1
    <3> QED
      BY <3>1, <3>2
  <2> QED
    BY <1>1, <2>1, <2>2
<1>6. x \in Path /\ y \in Path
  BY DEF Path
<1> QED
  BY <1>2, <1>4, <1>5, <1>6, InAt

\* What is below p comes to be below q, in its directory and with its name
LEMMA RelocatedParent ==
  ASSUME NEW c \in Path, NEW p \in Path, NEW q \in Path, Under(c, p)
  PROVE  /\ In(Parent(c), p) /\ Parent(Relocate(c, p, q)) = Relocate(Parent(c), p, q)
         /\ Base(Relocate(c, p, q)) = Base(c) /\ Under(Relocate(c, p, q), q)
<1>1. Len(c) \in Nat /\ Len(p) \in Nat /\ Len(q) \in Nat /\ Len(c) > Len(p) /\ c # << >>
  BY DEF Path, Under
<1>2. In(Parent(c), p) /\ Parent(c) \in Path /\ Len(Parent(c)) = Len(c) - 1 /\ In(c, p)
      /\ Parent(c) \in Seq(Names)
  BY <1>1, ChildTowards, ParentAndBase DEF In, Path
<1>3. \A i \in 1 .. Len(c) - 1 : Parent(c)[i] = c[i]
  BY <1>1 DEF Parent, Path
<1> PICK x \in Seq(Names) : Relocates(c, p, q, x)
  BY <1>2, RelocatedAt
<1> PICK y \in Seq(Names) : Relocates(Parent(c), p, q, y)
  BY <1>2, RelocatedAt
<1> USE DEF Relocates
<1>4. /\ Parent(x) \in Seq(Names) /\ Len(Parent(x)) = Len(x) - 1
      /\ \A i \in 1 .. Len(x) - 1 : Parent(x)[i] = x[i]
  BY <1>1 DEF Parent
<1>5. Len(Parent(x)) = Len(y) /\ Len(y) = Len(q) + Len(c) - 1 - Len(p)
  BY <1>1, <1>2, <1>4
<1>6. ASSUME NEW i \in 1 .. Len(y) PROVE Parent(x)[i] = y[i]
  <2>1. i \in 1 .. Len(x) - 1
    BY <1>4, <1>5
  <2>2. CASE i <= Len(q)
    BY <1>1, <1>4, <2>1, <2>2
  <2>3. CASE i > Len(q)
    <3> PICK j : j = i - Len(q)
      OBVIOUS
    <3>1. j \in 1 .. Len(c) - 1 - Len(p) /\ Len(q) + j = i
      BY <1>1, <1>5, <2>3
    <3>2. j \in 1 .. Len(c) - Len(p) /\ j \in 1 .. Len(Parent(c)) - Len(p) /\ Len(p) + j \in 1 .. Len(c) - 1
      BY <1>1, <1>2, <3>1
    <3>3. x[Len(q) + j] = c[Len(p) + j] /\ y[Len(q) + j] = Parent(c)[Len(p) + j]
          /\ Parent(c)[Len(p) + j] = c[Len(p) + j]
      BY <1>3, <3>2
    <3> QED
      BY <1>4, <2>1, <3>1, <3>3
  <2> QED
    BY <1>1, <2>2, <2>3
<1>7. Parent(x) = y
  BY <1>4, <1>5, <1>6, SeqEqual
<1>8. Base(x) = Base(c)
  <2> PICK j : j = Len(c) - Len(p)
    OBVIOUS
  <2>1. j \in 1 .. Len(c) - Len(p) /\ Len(q) + j = Len(x) /\ Len(p) + j = Len(c)
    BY <1>1
  <2>2. x[Len(q) + j] = c[Len(p) + j]
    BY <2>1
  <2> QED
    BY <2>1, <2>2 DEF Base
<1>9. Under(x, q)
  <2>1. In(x, q) /\ Len(x) # Len(q)
    BY <1>1, <1>2, Relocated
  <2> QED
    BY <2>1 DEF In
<1> QED
  BY <1>2, <1>7, <1>8, <1>9

\* Neither p nor q being ignored, what is below them is alike
LEMMA RelocatedIgnored ==
  ASSUME NEW c \in Path, NEW p \in Path, NEW q \in Path, In(c, p), ~shouldIgnore(p), ~shouldIgnore(q)
  PROVE  shouldIgnore(Relocate(c, p, q)) <=> shouldIgnore(c)
<1>1. Len(c) \in Nat /\ Len(p) \in Nat /\ Len(q) \in Nat /\ Len(p) <= Len(c)
      /\ \A i \in 1 .. Len(p) : c[i] = p[i]
  BY InAt DEF Path
<1> PICK x \in Seq(Names) : Relocates(c, p, q, x)
  BY RelocatedAt
<1> USE DEF Relocates
<1>2. ASSUME NEW i \in 1 .. Len(c), c[i] \in IgnoredNames PROVE shouldIgnore(x)
  <2>1. i > Len(p)
    BY <1>1, <1>2 DEF shouldIgnore
  <2> PICK j : j = i - Len(p)
    OBVIOUS
  <2>2. j \in 1 .. Len(c) - Len(p) /\ Len(p) + j = i /\ Len(q) + j \in 1 .. Len(x)
    BY <1>1, <2>1
  <2>3. x[Len(q) + j] = c[i]
    BY <2>2
  <2> QED
    BY <1>2, <2>2, <2>3 DEF shouldIgnore
<1>3. ASSUME NEW i \in 1 .. Len(x), x[i] \in IgnoredNames PROVE shouldIgnore(c)
  <2>1. i > Len(q)
    BY <1>1, <1>3 DEF shouldIgnore
  <2> PICK j : j = i - Len(q)
    OBVIOUS
  <2>2. j \in 1 .. Len(c) - Len(p) /\ Len(q) + j = i /\ Len(p) + j \in 1 .. Len(c)
    BY <1>1, <2>1
  <2>3. x[i] = c[Len(p) + j]
    BY <2>2
  <2> QED
    BY <1>3, <2>2, <2>3 DEF shouldIgnore
<1> QED
  BY <1>2, <1>3 DEF shouldIgnore


-----------------------------------------------------------------------------
(* Things happen one at a time: while nothing has overtaken the watcher, one   *)
(* change at the most is under way, and it is at one of the stages below.      *)

\* What of the tree t has a row, and a watch
Shown(c) == ~shouldIgnore(c) /\ \E r \in Roots : In(c, r)
Seen(t)  == {c \in Tree : t[c] # NoNode /\ Shown(c)}
Dirs(t)  == Seen(t) \cap Folders

\* The index is t, except that it may lack some and have others
Rows(t, less, more) ==
    /\ index \subseteq Seen(t) \cup more
    /\ \A c \in index : c \in Tree /\ Shown(c)
    /\ Seen(t) \ less \subseteq index

\* The map is t, ...; the kernel may watch more
Maps(t, less, more, extra) ==
    /\ DOMAIN pathByWd \subseteq 1 .. nextWd - 1 /\ DOMAIN kernel \subseteq 1 .. nextWd - 1
    /\ \A w \in DOMAIN pathByWd : pathByWd[w] \in DOMAIN wdByPath /\ wdByPath[pathByWd[w]] = w
    /\ \A d \in DOMAIN wdByPath : wdByPath[d] \in DOMAIN pathByWd /\ pathByWd[wdByPath[d]] = d
    /\ DOMAIN wdByPath \subseteq Dirs(t) \cup more
    /\ \A d \in DOMAIN wdByPath : d \in Folders /\ Shown(d)
    /\ Dirs(t) \ less \subseteq DOMAIN wdByPath
    /\ \A d \in DOMAIN wdByPath \ more : wdByPath[d] \in DOMAIN kernel /\ kernel[wdByPath[d]] = t[d]
    /\ DOMAIN kernel \ extra \subseteq DOMAIN pathByWd
    /\ extra \cap DOMAIN pathByWd = {}

Subtree(p) == {c \in Tree : In(c, p)}

\* The tree, and the files being written, before q was p
Former(p, q) == [c \in Tree |-> IF In(c, q) THEN NoNode
                                ELSE IF In(c, p) THEN At(Relocate(c, p, q)) ELSE tree[c]]
FormerUnfinished(p, q) == {c \in Files : ~In(c, q) /\ (IF In(c, p) THEN Relocate(c, p, q) ELSE c) \in Unfinished}

\* What is at q was at p
Was(p, q) ==
    /\ p \in Tree \ Top /\ q \in Tree \ Top /\ (p \in Folders <=> q \in Folders)
    /\ ~In(p, q) /\ ~In(q, p)
    /\ tree[q] # NoNode /\ \A c \in Subtree(p) : tree[c] = NoNode
    /\ \A c \in Subtree(q) : tree[c] # NoNode => Relocate(c, q, p) \in IF c \in Folders THEN Folders ELSE Files

PathTold(e) == Append(pathByWd[e.wd], e.name)

Knows(e, p) == e.wd \in DOMAIN pathByWd /\ p = PathTold(e) /\ p \in Tree \ Top /\ (e.isDir <=> p \in Folders)

Waits(m, p) ==
    /\ m = [cookie |-> m.cookie, path |-> p, isDir |-> m.isDir, closed |-> m.closed, pc |-> m.pc, wds |-> m.wds]
    /\ p \in Tree \ Top /\ Shown(p) /\ (m.isDir <=> p \in Folders)

Ended == \A m \in mvs : m.pc = "delete" \/ (m.pc = "wait" /\ m.closed)

AtRest ==
    /\ rpc = "next" /\ queue = << >> /\ dels = {} /\ Ended
    /\ Rows(tree, Unfinished, {}) /\ Maps(tree, {}, {}, {})

Walking ==
    /\ rpc \in {"walk", "add", "index"} /\ queue = << >> /\ dels = {} /\ mvs = {}
    /\ \A c \in todo : c \in Tree /\ tree[c] # NoNode /\ \E r \in Roots : In(c, r)
    /\ rpc # "walk" => cur \in Dirs(tree) /\ names = Entries(cur)
    /\ Rows(tree, Unfinished \cup {c \in Tree : Ahead(c) \/ (rpc = "index" /\ c = cur)}, {})
    /\ Maps(tree, {c \in Tree : Ahead(c)}, {}, {})

New(e, q) ==
    /\ rpc = "next" /\ queue = <<e>> /\ dels = {} /\ mvs = {}
    /\ Knows(e, q) /\ tree[q] # NoNode
    /\ \/ e.mask = "CREATE" /\ q \in Folders
       \/ e.mask = "CLOSE_WRITE" /\ q \in Files
       \/ e.mask = "MOVED_TO"
    /\ Rows(tree, Unfinished \cup Subtree(q), {}) /\ Maps(tree, Subtree(q), {}, {})

Sending(q) ==
    /\ rpc = "send" /\ call.op = "Index" /\ call.name = q /\ q \in Files \cap Seen(tree)
    /\ queue = << >> /\ dels = {} /\ mvs = {}
    /\ Rows(tree, Unfinished \cup {q}, {}) /\ Maps(tree, {}, {}, {})

Deleting(e, p) ==
    /\ rpc = "next" /\ queue = <<e>> /\ e.mask = "DELETE" /\ dels = {} /\ mvs = {}
    /\ Knows(e, p) /\ \A c \in Subtree(p) : tree[c] = NoNode
    /\ p \in DOMAIN wdByPath => wdByPath[p] \notin DOMAIN kernel
    /\ Rows(tree, Unfinished, {p}) /\ Maps(tree, {}, {p}, {})

Holding(it, p) ==
    /\ rpc = "next" /\ queue = << >> /\ dels = {it} /\ mvs = {}
    /\ it.path = p /\ p \in Tree /\ (it.isDir <=> p \in Folders) /\ \A c \in Subtree(p) : tree[c] = NoNode
    /\ Rows(tree, Unfinished, {p}) /\ Maps(tree, {}, {}, {})

Moving(e, f, p, q) ==
    /\ rpc = "next" /\ queue = <<e, f>> /\ e.mask = "MOVED_FROM" /\ f.mask = "MOVED_TO" /\ e.cookie = f.cookie
    /\ dels = {} /\ mvs = {}
    /\ Knows(e, p) /\ Knows(f, q) /\ Was(p, q)
    /\ Rows(Former(p, q), FormerUnfinished(p, q), {}) /\ Maps(Former(p, q), {}, {}, {})

Halfway(m, f, p, q) ==
    /\ rpc = "next" /\ queue = <<f>> /\ f.mask = "MOVED_TO" /\ dels = {}
    /\ mvs = {m} /\ m.pc = "wait" /\ ~m.closed /\ m.cookie = f.cookie
    /\ Waits(m, p) /\ Knows(f, q) /\ Was(p, q)
    /\ Rows(Former(p, q), FormerUnfinished(p, q), {}) /\ Maps(Former(p, q), {}, {}, {})

Renaming(p, q) ==
    /\ rpc \in {"rename", "send"} /\ queue = << >> /\ dels = {} /\ Ended
    /\ call.op = "Rename" /\ call.old = p /\ call.name = q /\ (call.isDir <=> p \in Folders)
    /\ Shown(p) /\ Shown(q) /\ Was(p, q)
    /\ Rows(Former(p, q), FormerUnfinished(p, q), {})
    /\ Maps(IF rpc = "rename" THEN Former(p, q) ELSE tree, {}, {}, {})

Leaves(e, p) ==
    /\ rpc = "next" /\ queue = <<e>> /\ e.mask = "MOVED_FROM" /\ dels = {} /\ mvs = {}
    /\ Knows(e, p) /\ \A c \in Subtree(p) : tree[c] = NoNode
    /\ Rows(tree, Unfinished, Subtree(p)) /\ Maps(tree, {}, Subtree(p), {})

Left(m, p) ==
    /\ rpc = "next" /\ queue = << >> /\ dels = {} /\ mvs = {m}
    /\ Waits(m, p) /\ \A c \in Subtree(p) : tree[c] = NoNode
    /\ m.pc \in {"wait", "unmap", "rm", "remove"} /\ (m.pc = "wait" => ~m.closed)
    /\ (m.pc \in {"unmap", "rm"} => m.isDir)
    /\ Rows(tree, Unfinished, Subtree(p))
    /\ Maps(tree, {}, IF m.pc \in {"wait", "unmap"} THEN Subtree(p) ELSE {}, IF m.pc = "rm" THEN m.wds ELSE {})

\* The tree
Wood ==
    /\ ops \in Nat /\ DOMAIN tree = Tree /\ nextWd \in Nat \ {0}
    /\ \A p \in Top : tree[p] # NoNode
    /\ \A p \in Tree, d \in Folders : (tree[p] # NoNode /\ Under(p, d)) => tree[d] # NoNode
    /\ \A p, d \in Folders : (tree[p] = tree[d] /\ tree[p] # NoNode) => p = d
    /\ \A p \in Folders : tree[p] # NoNode => \E x \in Folders, k \in 0 .. ops : tree[p] = <<x, k>>
    /\ \A o \in open : \E c \in Files : tree[c] # NoNode /\ OpenFile(c) = o

Stage ==
    \/ AtRest \/ Walking
    \/ \E q : Sending(q) \/ \E e : New(e, q)
    \/ \E p, e : Deleting(e, p) \/ Leaves(e, p)
    \/ \E p, it : Holding(it, p)
    \/ \E p, m : Left(m, p)
    \/ \E p, q : Renaming(p, q)
    \/ \E p, q, e, f : Moving(e, f, p, q)
    \/ \E p, q, m, f : Halfway(m, f, p, q)

CalmInv == calm => Wood /\ Stage

-----------------------------------------------------------------------------
(* The tree *)

LEMMA TreePath == ASSUME NEW p \in Tree PROVE p \in Path /\ p # << >> /\ p \in Path \ {<< >>}
  BY TreeAssumption

\* What lies between two paths of the tree is a folder
LEMMA Between ==
  ASSUME NEW p \in Tree, NEW c \in Path, NEW d \in Tree, Under(p, c), In(c, d)
  PROVE  c \in Folders
<1>1. p \in Path /\ d \in Path /\ Len(p) \in Nat /\ Len(c) \in Nat /\ Len(d) \in Nat
  BY TreePath DEF Path
<1>2. Len(p) > Len(c) /\ SubSeq(p, 1, Len(c)) = c /\ Len(d) <= Len(c)
  BY <1>1, InAt DEF Under
<1>3. In(p, c) /\ In(p, d)
  BY <1>1, InTransitive DEF In
<1>4. Under(p, d)
  BY <1>1, <1>2, <1>3 DEF In
<1>5. \A k \in Len(d) .. Len(p) - 1 : SubSeq(p, 1, k) \in Folders
  BY <1>4, TreeAssumption
<1>6. Len(c) \in Len(d) .. Len(p) - 1
  BY <1>1, <1>2
<1> QED
  BY <1>2, <1>5, <1>6

LEMMA FileAlone ==
  ASSUME NEW p \in Files, NEW c \in Tree, In(c, p)
  PROVE  c = p
<1> SUFFICES ASSUME Under(c, p) PROVE FALSE
  BY DEF In
<1>1. p \in Tree /\ p \in Path
  BY TreePath DEF Tree
<1>2. p \in Folders
  BY <1>1, Between DEF In
<1> QED
  BY <1>2, TreeAssumption

\* What is below a folder that may go is below a root only if the folder is
LEMMA ShownAbove ==
  ASSUME NEW p \in Tree \ Top, NEW c \in Tree, In(c, p), Shown(c)
  PROVE  Shown(p) /\ \E r \in Roots : Under(p, r)
<1>1. p \in Path /\ c \in Path /\ p \in Tree
  BY TreePath
<1>2. ~shouldIgnore(p)
  BY <1>1, IgnoredBelow DEF Shown
<1>3. PICK r \in Roots : In(c, r)
  BY DEF Shown
<1>4. r \in Top /\ r \in Folders /\ r \in Tree /\ r \in Path
  BY TreeAssumption, TreePath DEF Tree
<1>5. CASE Under(r, p)
  <2>1. p \in Folders
    BY <1>1, <1>4, <1>5, Between DEF In
  <2> QED
    BY <1>4, <1>5, <2>1, TreeAssumption
<1>6. CASE In(p, r)
  BY <1>2, <1>3, <1>4, <1>6 DEF Shown, In
<1> QED
  BY <1>1, <1>3, <1>4, <1>5, <1>6, Comparable

LEMMA ShownParent ==
  ASSUME NEW p \in Tree \ Top
  PROVE  /\ Shown(p) => Shown(Parent(p))
         /\ Shown(Parent(p)) => \E r \in Roots : In(p, r)
         /\ Shown(Parent(p)) /\ ~shouldIgnore(p) => Shown(p)
<1>1. p \in Path \ {<< >>} /\ Parent(p) \in Path /\ Under(p, Parent(p)) /\ p \in Path
  BY TreePath, ParentAndBase
<1>2. Shown(p) => Shown(Parent(p))
  <2> SUFFICES ASSUME Shown(p) PROVE Shown(Parent(p))
    OBVIOUS
  <2>1. PICK r \in Roots : Under(p, r)
    BY ShownAbove DEF In
  <2>2. r \in Path
    BY TreeAssumption, TreePath DEF Tree
  <2>3. In(Parent(p), r)
    BY <1>1, <2>1, <2>2, ChildTowards
  <2>4. ~shouldIgnore(Parent(p))
    BY <1>1, IgnoredBelow DEF Shown, In
  <2> QED
    BY <2>3, <2>4 DEF Shown
<1>3. Shown(Parent(p)) => \E r \in Roots : In(p, r)
  <2> SUFFICES ASSUME NEW r \in Roots, In(Parent(p), r) PROVE In(p, r)
    BY DEF Shown
  <2>1. r \in Path
    BY TreeAssumption, TreePath DEF Tree
  <2> QED
    BY <1>1, <2>1, InTransitive DEF In
<1> QED
  BY <1>2, <1>3 DEF Shown

\* What is in something is there only if that is
LEMMA WoodUp ==
  ASSUME Wood, NEW c \in Tree, NEW p \in Tree, In(c, p), tree[c] # NoNode
  PROVE  tree[p] # NoNode
<1>1. CASE c = p
  BY <1>1
<1>2. CASE Under(c, p)
  <2>1. p \in Folders
    BY <1>2, TreePath, Between DEF In
  <2> QED
    BY <1>2, <2>1 DEF Wood
<1> QED
  BY <1>1, <1>2 DEF In

LEMMA WoodParent ==
  ASSUME Wood, NEW c \in Tree \ Top, tree[c] # NoNode
  PROVE  Parent(c) \in Folders /\ tree[Parent(c)] # NoNode
<1>1. Parent(c) \in Folders /\ Parent(c) \in Tree /\ Under(c, Parent(c))
  BY Folder, TreePath, ParentAndBase
<1> QED
  BY <1>1, WoodUp DEF In

\* An open file has one path
LEMMA OneOpenFile ==
  ASSUME Wood, NEW c \in Tree \ Top, NEW d \in Tree \ Top, tree[c] # NoNode, OpenFile(c) = OpenFile(d)
  PROVE  c = d
<1>1. /\ Parent(c) \in Folders /\ tree[Parent(c)] # NoNode /\ Parent(d) \in Folders
      /\ At(Parent(c)) = tree[Parent(c)] /\ At(Parent(d)) = tree[Parent(d)]
  BY Folder, WoodParent
<1>2. At(Parent(c)) = At(Parent(d)) /\ Base(c) = Base(d)
  BY DEF OpenFile
<1>3. Parent(c) = Parent(d)
  BY <1>1, <1>2 DEF Wood
<1> QED
  BY <1>2, <1>3, TreePath, ParentAndBase

LEMMA FileBelow == ASSUME NEW c \in Files PROVE c \in Tree \ Top
  BY TreeAssumption DEF Tree

-----------------------------------------------------------------------------
(* Index and map *)

\* The watch of a directory
LEMMA WatchOf ==
  ASSUME Wood, Maps(tree, {}, {}, {}), NEW d \in Folders, tree[d] # NoNode
  PROVE  \A w \in DOMAIN kernel : kernel[w] = At(d) <=> (Shown(d) /\ d \in DOMAIN wdByPath /\ w = wdByPath[d])
<1>1. At(d) = tree[d] /\ d \in Tree
  BY DEF At, Tree
<1>2. ASSUME NEW w \in DOMAIN kernel
      PROVE  /\ pathByWd[w] \in DOMAIN wdByPath /\ wdByPath[pathByWd[w]] = w
             /\ pathByWd[w] \in Folders /\ tree[pathByWd[w]] = kernel[w] /\ kernel[w] # NoNode
  <2>1. w \in DOMAIN pathByWd
    BY DEF Maps
  <2> QED
    BY <2>1 DEF Maps, Dirs, Seen
<1>3. ASSUME NEW w \in DOMAIN kernel, kernel[w] = At(d)
      PROVE  Shown(d) /\ d \in DOMAIN wdByPath /\ w = wdByPath[d]
  <2>1. pathByWd[w] = d
    BY <1>1, <1>2, <1>3 DEF Wood
  <2> QED
    BY <1>2, <2>1 DEF Maps
<1>4. ASSUME d \in DOMAIN wdByPath
      PROVE  kernel[wdByPath[d]] = At(d)
  BY <1>1, <1>4 DEF Maps
<1> QED
  BY <1>3, <1>4

\* The event about p, if its directory is watched
LEMMA EventOf ==
  ASSUME Wood, Maps(tree, {}, {}, {}), NEW p \in Tree \ Top, tree[Parent(p)] # NoNode, NEW mask
  PROVE  \/ ~Shown(Parent(p)) /\ Event(At(Parent(p)), p, mask) = {}
         \/ Shown(Parent(p)) /\ \E e : /\ Event(At(Parent(p)), p, mask) = {e}
                                       /\ e.mask = mask /\ e.cookie = ops /\ Knows(e, p)
<1>1. Parent(p) \in Folders /\ Parent(p) \in Tree
  BY Folder
<1>2. \A w \in DOMAIN kernel :
          kernel[w] = At(Parent(p)) <=> (Shown(Parent(p)) /\ Parent(p) \in DOMAIN wdByPath /\ w = wdByPath[Parent(p)])
  BY <1>1, WatchOf
<1> DEFINE e(u) == [wd |-> u, mask |-> mask, name |-> Base(p), isDir |-> p \in Folders, cookie |-> ops]
           W == {v \in DOMAIN kernel : kernel[v] = At(Parent(p))}
<1>3. Event(At(Parent(p)), p, mask) = {e(u) : u \in W}
  BY DEF Event
<1>4. CASE ~Shown(Parent(p))
  <2>1. W = {}
    BY <1>2, <1>4
  <2> QED
    BY <1>3, <1>4, <2>1
<1>5. CASE Shown(Parent(p))
  <2> PICK u : u = wdByPath[Parent(p)]
    OBVIOUS
  <2>1. Parent(p) \in DOMAIN wdByPath /\ u \in DOMAIN kernel /\ u \in DOMAIN pathByWd /\ pathByWd[u] = Parent(p)
    BY <1>1, <1>5 DEF Maps, Dirs, Seen
  <2>2. W = {u}
    BY <1>2, <1>5, <2>1
  <2>3. Event(At(Parent(p)), p, mask) = {e(u)}
    BY <1>3, <2>2
  <2>4. Append(pathByWd[u], Base(p)) = p
    BY <2>1, TreePath, ParentAndBase
  <2>5. Knows(e(u), p)
    BY <2>1, <2>4 DEF Knows, PathTold
  <2>6. e(u).mask = mask /\ e(u).cookie = ops
    OBVIOUS
  <2> HIDE DEF e, W
  <2> QED
    BY <1>5, <2>3, <2>5, <2>6
<1> QED
  BY <1>4, <1>5

LEMMA QueueOf ==
  ASSUME NEW e, NEW x
  PROVE  /\ Queue(<< >>, {}) = << >> /\ Queue(<< >>, {e}) = <<e>>
         /\ Queue(<<x>>, {}) = <<x>> /\ Queue(<<x>>, {e}) = <<x, e>>
<1>1. SetToSeq({e}) = <<e>> /\ SetToSeq({}) = << >>
  BY SetToSeqOfOne, SetToSeqOfNone
<1>2. << >> \o <<e>> = <<e>> /\ << >> \o << >> = << >> /\ <<x>> \o << >> = <<x>>
  <2>1. <<e>> \in Seq({e, x}) /\ <<x>> \in Seq({e, x}) /\ << >> \in Seq({e, x})
    OBVIOUS
  <2> QED
    BY <2>1, ConcatEmptySeq
<1>3. <<x>> \o <<e>> = <<x, e>>
  <2>1. <<x>> \in Seq({e, x}) /\ <<x>> \o <<e>> = Append(<<x>>, e)
    OBVIOUS
  <2>2. Append(<<x>>, e) = <<x, e>>
    <3> PICK y : y = Append(<<x>>, e)
      OBVIOUS
    <3>1. y \in Seq({e, x}) /\ Len(y) = 2 /\ y[1] = x /\ y[2] = e
      BY <2>1
    <3>2. <<x, e>> \in Seq({e, x}) /\ Len(<<x, e>>) = 2 /\ <<x, e>>[1] = x /\ <<x, e>>[2] = e
      OBVIOUS
    <3>3. \A i \in 1 .. 2 : y[i] = <<x, e>>[i]
      BY <3>1, <3>2
    <3> QED
      BY <3>1, <3>2, <3>3, SeqEqual
  <2> QED
    BY <2>1, <2>2
<1> QED
  BY <1>1, <1>2, <1>3 DEF Queue

\* What a known event is about lies in a root
LEMMA KnownIsShown ==
  ASSUME NEW t, NEW less, NEW more, NEW x, Maps(t, less, more, x), NEW e, NEW p, Knows(e, p)
  PROVE  /\ \E r \in Roots : In(p, r)
         /\ Shown(p) <=> ~shouldIgnore(p)
         /\ Known(e) <=> Shown(p)
<1>1. p \in Tree \ Top /\ e.wd \in DOMAIN pathByWd /\ p = Append(pathByWd[e.wd], e.name)
  BY DEF Knows, PathTold
<1>2. Parent(p) = pathByWd[e.wd]
  <2>1. pathByWd[e.wd] \in DOMAIN wdByPath /\ pathByWd[e.wd] \in Folders
    BY <1>1 DEF Maps
  <2>2. pathByWd[e.wd] \in Path
    BY <2>1, TreePath DEF Tree
  <2> PICK d \in Path : d = pathByWd[e.wd]
    BY <2>2
  <2>3. p \in Seq(Names) /\ d \in Seq(Names) /\ p = Append(d, e.name)
    BY <1>1, TreePath DEF Path
  <2>4. Len(p) = Len(d) + 1 /\ \A i \in 1 .. Len(d) : p[i] = d[i]
    BY <2>3
  <2>5. /\ Parent(p) \in Seq(Names) /\ Len(Parent(p)) = Len(d)
        /\ \A i \in 1 .. Len(d) : Parent(p)[i] = p[i]
    BY <2>3, <2>4 DEF Parent
  <2> QED
    BY <2>3, <2>4, <2>5, SeqEqual
<1>3. Shown(Parent(p))
  BY <1>1, <1>2 DEF Maps
<1> QED
  BY <1>1, <1>3, ShownParent DEF Known, Shown

-----------------------------------------------------------------------------
(* What others do, when the watcher is at rest *)

LEMMA QuietRests ==
  ASSUME CalmInv, calm, Quiet
  PROVE  /\ Wood /\ Rows(tree, Unfinished, {}) /\ Maps(tree, {}, {}, {})
         /\ queue = << >> /\ dels = {} /\ mvs = {} /\ rpc = "next"
<1>1. Wood /\ Stage /\ queue = << >> /\ dels = {} /\ mvs = {} /\ rpc = "next"
  BY DEF CalmInv, Quiet
<1>2. \A e, f : queue # <<e>> /\ queue # <<e, f>>
  BY <1>1
<1>3. \A e : dels # {e} /\ mvs # {e}
  BY <1>1
<1>4. ~Walking /\ (\A q : ~Sending(q)) /\ (\A p, q : ~Renaming(p, q))
  BY <1>1 DEF Walking, Sending, Renaming
<1>5. /\ \A p, e : ~New(e, p) /\ ~Deleting(e, p) /\ ~Leaves(e, p)
      /\ \A p, q, e, f : ~Moving(e, f, p, q) /\ ~Halfway(e, f, p, q)
  BY <1>2 DEF New, Deleting, Leaves, Moving, Halfway
<1>6. \A p, e : ~Holding(e, p) /\ ~Left(e, p)
  BY <1>3 DEF Holding, Left
<1>7. AtRest
  BY <1>1, <1>4, <1>5, <1>6 DEF Stage
<1> QED
  BY <1>1, <1>7 DEF AtRest

LEMMA OpCalm ==
  ASSUME NEW op, Op(op), calm'
  PROVE  /\ calm /\ Quiet /\ ops' = ops + 1
         /\ UNCHANGED <<pathByWd, wdByPath, rpc, started, todo, cur, names, call, dels, mvs, index>>
  BY DEF Op, wm, reader, walk

\* Something appears at p
LEMMA Appears ==
  ASSUME Wood, NEW p \in Tree \ Top, NEW n, n # NoNode, tree[p] = NoNode, tree[Parent(p)] # NoNode,
         tree' = [tree EXCEPT ![p] = n], open \subseteq open'
  PROVE  /\ DOMAIN tree' = Tree /\ \A c \in Tree : tree'[c] = IF c = p THEN n ELSE tree[c]
         /\ \A d \in Top : tree'[d] # NoNode
         /\ \A c \in Tree, d \in Folders : (tree'[c] # NoNode /\ Under(c, d)) => tree'[d] # NoNode
         /\ \A c \in Tree \ Top : tree[c] # NoNode => OpenFile(c)' = OpenFile(c)
         /\ OpenFile(p)' = OpenFile(p)
         /\ Unfinished \subseteq Unfinished'
         /\ \A c \in Tree : c \in Seen(tree)' <=> c \in Seen(tree) \/ (c = p /\ Shown(p))
<1>1. DOMAIN tree = Tree
  BY DEF Wood
<1>2. DOMAIN tree' = Tree /\ \A c \in Tree : tree'[c] = IF c = p THEN n ELSE tree[c]
  BY <1>1
<1>3. \A c \in Tree : tree[c] # NoNode => tree'[c] = tree[c]
  BY <1>2
<1>4. \A d \in Top : tree'[d] # NoNode
  BY <1>3, TreeAssumption DEF Wood, Tree
<1>5. ASSUME NEW c \in Tree, NEW d \in Folders, tree'[c] # NoNode, Under(c, d) PROVE tree'[d] # NoNode
  <2>1. d \in Tree
    BY DEF Tree
  <2>2. CASE c # p
    BY <1>2, <1>3, <1>5, <2>1, <2>2 DEF Wood
  <2>3. CASE c = p
    <3>1. Parent(p) \in Tree /\ In(Parent(p), d)
      BY <1>5, <2>1, <2>3, Folder, TreePath, ChildTowards
    <3>2. tree[d] # NoNode
      BY <2>1, <3>1, WoodUp
    <3> QED
      BY <1>3, <2>1, <3>2
  <2> QED
    BY <2>2, <2>3
<1>6. ASSUME NEW c \in Tree \ Top, tree[Parent(c)] # NoNode PROVE OpenFile(c)' = OpenFile(c)
  <2>1. Parent(c) \in Tree
    BY Folder
  <2> QED
    BY <1>3, <1>6, <2>1 DEF OpenFile, At
<1>7. \A c \in Tree \ Top : tree[c] # NoNode => OpenFile(c)' = OpenFile(c)
  BY <1>6, WoodParent
<1>8. Unfinished \subseteq Unfinished'
  <2> SUFFICES ASSUME NEW c \in Files, tree[c] # NoNode, OpenFile(c) \in open
               PROVE  tree'[c] # NoNode /\ OpenFile(c)' \in open'
    BY DEF Unfinished
  <2>1. c \in Tree \ Top
    BY FileBelow
  <2> QED
    BY <1>3, <1>7, <2>1
<1>9. \A c \in Tree : c \in Seen(tree)' <=> c \in Seen(tree) \/ (c = p /\ Shown(p))
  BY <1>2 DEF Seen
<1> QED
  BY <1>2, <1>4, <1>5, <1>6, <1>7, <1>8, <1>9

\* ... and while the index need not know and the map does not
LEMMA AppearsMaps ==
  ASSUME Maps(tree, {}, {}, {}), NEW p \in Tree, tree[p] = NoNode,
         \A c \in Tree : c # p => tree'[c] = tree[c],
         UNCHANGED <<pathByWd, wdByPath, kernel, nextWd>>
  PROVE  Maps(tree, Subtree(p), {}, {})'
<1>1. \A d \in Dirs(tree) : d # p /\ tree'[d] = tree[d] /\ d \in Dirs(tree)'
  BY DEF Dirs, Seen, Tree
<1>2. \A d \in Dirs(tree)' : d \notin Subtree(p) => d \in Dirs(tree)
  BY DEF Dirs, Seen, Subtree, In
<1>3. DOMAIN wdByPath \subseteq Dirs(tree)
  BY DEF Maps
<1> QED
  BY <1>1, <1>2, <1>3 DEF Maps

LEMMA MkdirStage ==
  ASSUME CalmInv, calm', NEW p \in Folders \ Top, Mkdir(p)
  PROVE  Wood' /\ Stage'
<1>1. /\ calm /\ Quiet /\ ops' = ops + 1
      /\ UNCHANGED <<pathByWd, wdByPath, rpc, started, todo, cur, names, call, dels, mvs, index>>
  BY OpCalm DEF Mkdir
<1>2. /\ Wood /\ Rows(tree, Unfinished, {}) /\ Maps(tree, {}, {}, {})
      /\ queue = << >> /\ dels = {} /\ mvs = {} /\ rpc = "next"
  BY <1>1, QuietRests
<1> PICK n : n = <<p, ops + 1>>
  OBVIOUS
<1>3. p \in Tree \ Top /\ Parent(p) \in Tree /\ At(p) = tree[p] /\ At(Parent(p)) = tree[Parent(p)]
  BY Folder DEF Tree, At
<1>4. /\ tree[p] = NoNode /\ tree[Parent(p)] # NoNode /\ n # NoNode
      /\ tree' = [tree EXCEPT ![p] = n] /\ UNCHANGED <<open, kernel, nextWd>>
      /\ queue' = Queue(queue, Event(At(Parent(p)), p, "CREATE"))
  BY <1>3 DEF Mkdir, Inode, NoNode
<1>5. /\ DOMAIN tree' = Tree /\ \A c \in Tree : tree'[c] = IF c = p THEN n ELSE tree[c]
      /\ \A d \in Top : tree'[d] # NoNode
      /\ \A c \in Tree, d \in Folders : (tree'[c] # NoNode /\ Under(c, d)) => tree'[d] # NoNode
      /\ \A c \in Tree \ Top : tree[c] # NoNode => OpenFile(c)' = OpenFile(c)
      /\ Unfinished \subseteq Unfinished'
      /\ \A c \in Tree : c \in Seen(tree)' <=> c \in Seen(tree) \/ (c = p /\ Shown(p))
  BY <1>2, <1>3, <1>4, Appears
<1>6. Wood'
  <2>1. ops \in Nat /\ ops' \in Nat /\ ops' = ops + 1
    BY <1>1, <1>2 DEF Wood
  <2>2. \A d \in Folders : tree'[d] # NoNode => \E x \in Folders, k \in 0 .. ops' : tree'[d] = <<x, k>>
    <3> SUFFICES ASSUME NEW d \in Folders, tree'[d] # NoNode
                 PROVE  \E x \in Folders, k \in 0 .. ops' : tree'[d] = <<x, k>>
      OBVIOUS
    <3>1. d \in Tree
      BY DEF Tree
    <3>2. CASE d = p
      BY <1>5, <2>1, <3>1, <3>2
    <3>3. CASE d # p
      <4>1. PICK x \in Folders, k \in 0 .. ops : tree[d] = <<x, k>>
        BY <1>2, <1>5, <3>1, <3>3 DEF Wood
      <4> QED
        BY <1>5, <2>1, <3>1, <3>3, <4>1
    <3> QED
      BY <3>2, <3>3
  <2>3. ASSUME NEW c \in Folders, NEW d \in Folders, tree'[c] = tree'[d], tree'[c] # NoNode PROVE c = d
    <3>1. c \in Tree /\ d \in Tree
      BY DEF Tree
    <3>2. \A x \in Folders : x # p /\ tree[x] # NoNode => tree[x] # n
      <4> SUFFICES ASSUME NEW x \in Folders, tree[x] # NoNode PROVE tree[x] # n
        OBVIOUS
      <4>1. PICK y \in Folders, k \in 0 .. ops : tree[x] = <<y, k>>
        BY <1>2 DEF Wood
      <4> QED
        BY <2>1, <4>1
    <3> QED
      BY <1>2, <1>4, <1>5, <2>3, <3>1, <3>2 DEF Wood
  <2>4. \A o \in open' : \E c \in Files : tree'[c] # NoNode /\ OpenFile(c)' = o
    <3> SUFFICES ASSUME NEW o \in open PROVE \E c \in Files : tree'[c] # NoNode /\ OpenFile(c)' = o
      BY <1>4
    <3>1. PICK c \in Files : tree[c] # NoNode /\ OpenFile(c) = o
      BY <1>2 DEF Wood
    <3> QED
      BY <1>4, <1>5, <3>1, FileBelow
  <2> QED
    BY <1>2, <1>4, <1>5, <2>1, <2>2, <2>3, <2>4 DEF Wood
<1>7. Maps(tree, Subtree(p), {}, {})'
  BY <1>1, <1>2, <1>3, <1>4, <1>5, AppearsMaps
<1>8. Rows(tree, Unfinished \cup Subtree(p), {})'
  <2>1. index' = index /\ index \subseteq Seen(tree) /\ Seen(tree) \ Unfinished \subseteq index
    BY <1>1, <1>2 DEF Rows
  <2>2. index' \subseteq Seen(tree)' /\ Seen(tree)' \ (Unfinished' \cup Subtree(p)) \subseteq index'
    BY <1>5, <2>1 DEF Seen, Subtree, In
  <2> QED
    BY <2>1, <2>2 DEF Rows, Seen
<1>9. CASE ~Shown(Parent(p)) /\ Event(At(Parent(p)), p, "CREATE") = {}
  <2>1. \A c \in Tree : (c \in Subtree(p) \cup {} /\ Shown(c)) => tree'[c] = NoNode /\ c \notin {}
    BY <1>3, <1>9, ShownAbove, ShownParent DEF Subtree
  <2>2. Maps(tree, {}, {}, {})'
    BY <1>7, <2>1 DEF Maps, Dirs, Seen
  <2>3. Rows(tree, Unfinished, {})'
    BY <1>8, <2>1 DEF Rows, Seen
  <2>4. queue' = << >>
    BY <1>2, <1>4, <1>9, QueueOf
  <2> QED
    BY <1>1, <1>2, <1>6, <2>2, <2>3, <2>4 DEF Stage, AtRest, Ended
<1>10. ASSUME NEW e, Event(At(Parent(p)), p, "CREATE") = {e}, e.mask = "CREATE", Knows(e, p) PROVE Wood' /\ Stage'
  <2>1. queue' = <<e>> /\ Knows(e, p)'
    BY <1>1, <1>2, <1>4, <1>10, QueueOf DEF Knows, PathTold
  <2>2. New(e, p)'
    BY <1>1, <1>2, <1>3, <1>4, <1>5, <1>7, <1>8, <1>10, <2>1 DEF New
  <2> QED
    BY <1>6, <2>2 DEF Stage
<1> QED
  BY <1>2, <1>3, <1>4, <1>9, <1>10, EventOf

LEMMA CreateStage ==
  ASSUME CalmInv, calm', NEW p \in Files, Create(p)
  PROVE  Wood' /\ Stage'
<1>1. /\ calm /\ Quiet /\ ops' = ops + 1
      /\ UNCHANGED <<pathByWd, wdByPath, rpc, started, todo, cur, names, call, dels, mvs, index>>
  BY OpCalm DEF Create
<1>2. /\ Wood /\ Rows(tree, Unfinished, {}) /\ Maps(tree, {}, {}, {})
      /\ queue = << >> /\ dels = {} /\ mvs = {} /\ rpc = "next"
  BY <1>1, QuietRests
<1>3. p \in Tree \ Top /\ Parent(p) \in Tree /\ At(p) = tree[p] /\ At(Parent(p)) = tree[Parent(p)] /\ p \notin Folders
  BY Folder, FileBelow, TreeAssumption DEF Tree, At
<1>4. /\ tree[p] = NoNode /\ tree[Parent(p)] # NoNode /\ AFile # NoNode
      /\ tree' = [tree EXCEPT ![p] = AFile] /\ open' = open \cup {OpenFile(p)}
      /\ UNCHANGED <<kernel, nextWd, queue>>
  BY <1>3 DEF Create, AFile, NoNode
<1>5. /\ DOMAIN tree' = Tree /\ \A c \in Tree : tree'[c] = IF c = p THEN AFile ELSE tree[c]
      /\ \A d \in Top : tree'[d] # NoNode
      /\ \A c \in Tree, d \in Folders : (tree'[c] # NoNode /\ Under(c, d)) => tree'[d] # NoNode
      /\ \A c \in Tree \ Top : tree[c] # NoNode => OpenFile(c)' = OpenFile(c)
      /\ OpenFile(p)' = OpenFile(p)
      /\ Unfinished \subseteq Unfinished'
      /\ \A c \in Tree : c \in Seen(tree)' <=> c \in Seen(tree) \/ (c = p /\ Shown(p))
  BY <1>2, <1>3, <1>4, Appears
<1>6. Wood'
  <2>1. ops \in Nat /\ ops' \in Nat /\ ops' = ops + 1
    BY <1>1, <1>2 DEF Wood
  <2>2. \A d \in Folders : d \in Tree /\ tree'[d] = tree[d]
    BY <1>3, <1>5 DEF Tree
  <2>3. \A d \in Folders : tree'[d] # NoNode => \E x \in Folders, k \in 0 .. ops' : tree'[d] = <<x, k>>
    <3> SUFFICES ASSUME NEW d \in Folders, tree[d] # NoNode
                 PROVE  \E x \in Folders, k \in 0 .. ops' : tree[d] = <<x, k>>
      BY <2>2
    <3>1. PICK x \in Folders, k \in 0 .. ops : tree[d] = <<x, k>>
      BY <1>2 DEF Wood
    <3> QED
      BY <2>1, <3>1
  <2>4. \A o \in open' : \E c \in Files : tree'[c] # NoNode /\ OpenFile(c)' = o
    <3> SUFFICES ASSUME NEW o \in open' PROVE \E c \in Files : tree'[c] # NoNode /\ OpenFile(c)' = o
      OBVIOUS
    <3>1. CASE o = OpenFile(p)
      BY <1>3, <1>4, <1>5, <3>1
    <3>2. CASE o \in open
      <4>1. PICK c \in Files : tree[c] # NoNode /\ OpenFile(c) = o
        BY <1>2, <3>2 DEF Wood
      <4> QED
        BY <1>4, <1>5, <4>1, FileBelow
    <3> QED
      BY <1>4, <3>1, <3>2
  <2> QED
    BY <1>2, <1>4, <1>5, <2>1, <2>2, <2>3, <2>4 DEF Wood
<1>7. Maps(tree, {}, {}, {})'
  <2>1. Maps(tree, Subtree(p), {}, {})'
    BY <1>1, <1>2, <1>3, <1>4, <1>5, AppearsMaps
  <2>2. \A d \in Folders : d \notin Subtree(p)
    BY <1>3, FileAlone DEF Subtree
  <2> QED
    BY <2>1, <2>2 DEF Maps, Dirs
<1>8. Rows(tree, Unfinished, {})'
  <2>1. index' = index /\ index \subseteq Seen(tree) /\ Seen(tree) \ Unfinished \subseteq index
    BY <1>1, <1>2 DEF Rows
  <2>2. p \in Unfinished'
    BY <1>3, <1>4, <1>5 DEF Unfinished
  <2>3. index' \subseteq Seen(tree)' /\ Seen(tree)' \ Unfinished' \subseteq index'
    BY <1>5, <2>1, <2>2 DEF Seen
  <2> QED
    BY <2>1, <2>3 DEF Rows, Seen
<1> QED
  BY <1>1, <1>2, <1>4, <1>6, <1>7, <1>8 DEF Stage, AtRest, Ended

LEMMA CloseWriteStage ==
  ASSUME CalmInv, calm', NEW o \in open, CloseWrite(o)
  PROVE  Wood' /\ Stage'
<1>1. /\ calm /\ Quiet /\ open' = open \ {o}
      /\ UNCHANGED <<tree, kernel, nextWd, ops, pathByWd, wdByPath, rpc, started, todo, cur, names, call, dels, mvs, index>>
  BY DEF CloseWrite, wm, reader, walk
<1>2. /\ Wood /\ Rows(tree, Unfinished, {}) /\ Maps(tree, {}, {}, {})
      /\ queue = << >> /\ dels = {} /\ mvs = {} /\ rpc = "next"
  BY <1>1, QuietRests
<1>3. PICK p \in Files : tree[p] # NoNode /\ OpenFile(p) = o
  BY <1>2 DEF Wood
<1>4. /\ p \in Tree \ Top /\ Parent(p) \in Folders /\ tree[Parent(p)] # NoNode /\ p \notin Folders
      /\ o.dir = At(Parent(p)) /\ o.name = Base(p)
  BY <1>2, <1>3, FileBelow, WoodParent, TreeAssumption DEF OpenFile
<1>5. \A c : OpenFile(c)' = OpenFile(c)
  BY <1>1 DEF OpenFile, At
<1>6. Wood'
  BY <1>1, <1>2, <1>5 DEF Wood
<1>7. Maps(tree, {}, {}, {})'
  BY <1>1, <1>2 DEF Maps, Dirs, Seen
<1>8. \A c \in Unfinished : c = p \/ c \in Unfinished'
  <2> SUFFICES ASSUME NEW c \in Files, tree[c] # NoNode, OpenFile(c) \in open, OpenFile(c) = o PROVE c = p
    BY <1>1, <1>5 DEF Unfinished
  <2> QED
    BY <1>2, <1>3, <1>4, FileBelow, OneOpenFile
<1>9. Rows(tree, Unfinished \cup {p}, {})'
  BY <1>1, <1>2, <1>8 DEF Rows, Seen
<1> DEFINE e(u) == [wd |-> u, mask |-> "CLOSE_WRITE", name |-> o.name, isDir |-> FALSE, cookie |-> 0]
           W == {v \in DOMAIN kernel : kernel[v] = o.dir}
<1>10. queue' = Queue(queue, {e(u) : u \in W})
  BY DEF CloseWrite
<1>11. \A w \in DOMAIN kernel :
           kernel[w] = o.dir <=> (Shown(Parent(p)) /\ Parent(p) \in DOMAIN wdByPath /\ w = wdByPath[Parent(p)])
  BY <1>2, <1>4, WatchOf
<1>12. CASE ~Shown(Parent(p))
  <2>1. W = {}
    BY <1>11, <1>12
  <2>2. queue' = << >>
    BY <1>2, <1>10, <2>1, QueueOf
  <2>3. ~Shown(p)
    BY <1>4, <1>12, ShownParent
  <2>4. Rows(tree, Unfinished, {})'
    BY <1>9, <2>3 DEF Rows, Seen
  <2> QED
    BY <1>1, <1>2, <1>6, <1>7, <2>2, <2>4 DEF Stage, AtRest, Ended
<1>13. CASE Shown(Parent(p))
  <2> PICK u : u = wdByPath[Parent(p)]
    OBVIOUS
  <2>1. Parent(p) \in DOMAIN wdByPath /\ u \in DOMAIN kernel /\ u \in DOMAIN pathByWd /\ pathByWd[u] = Parent(p)
    BY <1>2, <1>4, <1>13 DEF Maps, Dirs, Seen, Tree
  <2>2. W = {u}
    BY <1>11, <1>13, <2>1
  <2>3. queue' = <<e(u)>>
    <3>1. {e(v) : v \in W} = {e(u)}
      BY <2>2
    <3> HIDE DEF e, W
    <3> QED
      BY <1>2, <1>10, <3>1, QueueOf
  <2>4. Append(pathByWd[u], o.name) = p
    BY <1>4, <2>1, TreePath, ParentAndBase
  <2>5. Knows(e(u), p)'
    BY <1>1, <1>4, <2>1, <2>4 DEF Knows, PathTold
  <2>6. p \in Subtree(p)
    BY <1>4 DEF Subtree, In
  <2>7. Rows(tree, Unfinished \cup Subtree(p), {})'
    BY <1>9, <2>6 DEF Rows
  <2>8. Maps(tree, Subtree(p), {}, {})'
    BY <1>7 DEF Maps
  <2>9. e(u).mask = "CLOSE_WRITE"
    OBVIOUS
  <2> HIDE DEF e, W
  <2>10. New(e(u), p)'
    BY <1>1, <1>2, <1>3, <2>3, <2>5, <2>7, <2>8, <2>9 DEF New
  <2> QED
    BY <1>6, <2>10 DEF Stage
<1> QED
  BY <1>12, <1>13

\* The directory or file p goes, and its watch with it
LEMMA GoneStage ==
  ASSUME CalmInv, calm', NEW op, Op(op), NEW p \in Tree \ Top, tree[p] # NoNode,
         \A c \in Subtree(p) : c = p \/ tree[c] = NoNode,
         p \in Files => OpenFile(p) \notin open,
         tree' = [tree EXCEPT ![p] = NoNode],
         kernel' = kernel \/ (kernel' = Unwatched(At(p)) /\ p \in Folders), p \in Folders => kernel' = Unwatched(At(p)),
         queue' = Queue(queue, Event(At(Parent(p)), p, "DELETE")),
         UNCHANGED <<open, nextWd>>
  PROVE  Wood' /\ Stage'
<1>1. /\ calm /\ Quiet /\ ops' = ops + 1
      /\ UNCHANGED <<pathByWd, wdByPath, rpc, started, todo, cur, names, call, dels, mvs, index>>
  BY OpCalm
<1>2. /\ Wood /\ Rows(tree, Unfinished, {}) /\ Maps(tree, {}, {}, {})
      /\ queue = << >> /\ dels = {} /\ mvs = {} /\ rpc = "next"
  BY <1>1, QuietRests
<1>3. p \in Tree /\ Parent(p) \in Folders /\ tree[Parent(p)] # NoNode /\ At(p) = tree[p]
  BY <1>2, WoodParent DEF At
<1>4. DOMAIN tree' = Tree /\ \A c \in Tree : tree'[c] = IF c = p THEN NoNode ELSE tree[c]
  BY <1>2 DEF Wood
<1>5. \A c \in Subtree(p) : tree'[c] = NoNode
  BY <1>4 DEF Subtree
<1>6. ASSUME NEW c \in Tree \ Top, tree'[c] # NoNode PROVE tree[c] # NoNode /\ OpenFile(c)' = OpenFile(c)
  <2>1. c # p /\ tree[c] # NoNode
    BY <1>4, <1>6
  <2>2. Parent(c) # p
    <3> SUFFICES ASSUME Parent(c) = p PROVE FALSE
      OBVIOUS
    <3>1. c \in Subtree(p)
      BY TreePath, ParentAndBase DEF Subtree, In
    <3> QED
      BY <2>1, <3>1
  <2>3. Parent(c) \in Tree
    BY Folder
  <2> QED
    BY <1>4, <2>1, <2>2, <2>3 DEF OpenFile, At
<1>7. Wood'
  <2>1. ops \in Nat /\ ops' \in Nat /\ ops' = ops + 1
    BY <1>1, <1>2 DEF Wood
  <2>2. \A d \in Folders : d \in Tree
    BY DEF Tree
  <2>3. \A d \in Folders : tree'[d] # NoNode => \E x \in Folders, k \in 0 .. ops' : tree'[d] = <<x, k>>
    <3> SUFFICES ASSUME NEW d \in Folders, tree'[d] # NoNode
                 PROVE  \E x \in Folders, k \in 0 .. ops' : tree'[d] = <<x, k>>
      OBVIOUS
    <3>1. tree'[d] = tree[d]
      BY <1>4, <2>2
    <3>2. PICK x \in Folders, k \in 0 .. ops : tree[d] = <<x, k>>
      BY <1>2, <3>1 DEF Wood
    <3> QED
      BY <2>1, <3>1, <3>2
  <2>4. \A c \in Tree, d \in Folders : (tree'[c] # NoNode /\ Under(c, d)) => tree'[d] # NoNode
    <3> SUFFICES ASSUME NEW c \in Tree, NEW d \in Folders, tree'[c] # NoNode, Under(c, d) PROVE tree'[d] # NoNode
      OBVIOUS
    <3>1. tree[c] # NoNode /\ c # p
      BY <1>4
    <3>2. d # p
      BY <3>1 DEF Subtree, In
    <3> QED
      BY <1>2, <1>4, <2>2, <3>1, <3>2 DEF Wood
  <2>5. \A o \in open' : \E c \in Files : tree'[c] # NoNode /\ OpenFile(c)' = o
    <3> SUFFICES ASSUME NEW o \in open PROVE \E c \in Files : tree'[c] # NoNode /\ OpenFile(c)' = o
      OBVIOUS
    <3>1. PICK c \in Files : tree[c] # NoNode /\ OpenFile(c) = o
      BY <1>2 DEF Wood
    <3>2. c # p
      BY <3>1
    <3> QED
      BY <1>4, <1>6, <3>1, <3>2, FileBelow
  <2>6. \A d \in Top : tree'[d] # NoNode
    BY <1>2, <1>4, TreeAssumption, <2>2 DEF Wood
  <2>7. \A c, d \in Folders : (tree'[c] = tree'[d] /\ tree'[c] # NoNode) => c = d
    BY <1>2, <1>4, <2>2 DEF Wood
  <2> QED
    BY <1>2, <1>4, <2>1, <2>3, <2>4, <2>5, <2>6, <2>7 DEF Wood
<1>8. Rows(tree, Unfinished, {p})'
  <2>1. index' = index /\ index \subseteq Seen(tree) /\ Seen(tree) \ Unfinished \subseteq index
    BY <1>1, <1>2 DEF Rows
  <2>2. \A c \in Tree : c \in Seen(tree)' <=> c \in Seen(tree) /\ c # p
    BY <1>4 DEF Seen
  <2>3. \A c \in Seen(tree)' : c \in Unfinished => c \in Unfinished'
    <3> SUFFICES ASSUME NEW c \in Files, tree'[c] # NoNode, OpenFile(c) \in open PROVE OpenFile(c)' \in open'
      BY DEF Unfinished, Seen
    <3> QED
      BY <1>6, FileBelow
  <2>4. index' \subseteq Seen(tree)' \cup {p} /\ Seen(tree)' \ Unfinished' \subseteq index'
    BY <2>1, <2>2, <2>3 DEF Seen
  <2> QED
    BY <2>1, <2>4 DEF Rows, Seen
<1>9. Maps(tree, {}, {p}, {})'
  <2>1. \A d \in Folders : d \in Tree /\ (d \in Dirs(tree)' <=> d \in Dirs(tree) /\ d # p)
    BY <1>4 DEF Dirs, Seen, Tree
  <2>2. DOMAIN kernel' \subseteq DOMAIN kernel
    BY DEF Unwatched, Restrict
  <2>3. ASSUME NEW d \in DOMAIN wdByPath, d # p
        PROVE  wdByPath[d] \in DOMAIN kernel' /\ kernel'[wdByPath[d]] = tree'[d]
    <3>1. d \in Folders /\ d \in Tree /\ wdByPath[d] \in DOMAIN kernel /\ kernel[wdByPath[d]] = tree[d] /\ tree[d] # NoNode
      BY <1>2, <2>1 DEF Maps, Dirs, Seen
    <3>2. p \in Folders => kernel[wdByPath[d]] # At(p)
      BY <1>2, <1>3, <2>3, <3>1 DEF Wood
    <3> QED
      BY <1>4, <2>3, <3>1, <3>2 DEF Unwatched, Restrict
  <2>4. DOMAIN wdByPath \subseteq Dirs(tree) /\ Dirs(tree) \subseteq DOMAIN wdByPath
    BY <1>2 DEF Maps
  <2>5. DOMAIN wdByPath \subseteq Dirs(tree)' \cup {p} /\ Dirs(tree)' \subseteq DOMAIN wdByPath
    BY <2>1, <2>4 DEF Dirs
  <2>6. /\ DOMAIN pathByWd \subseteq 1 .. nextWd - 1 /\ DOMAIN kernel' \subseteq 1 .. nextWd - 1
        /\ \A w \in DOMAIN pathByWd : pathByWd[w] \in DOMAIN wdByPath /\ wdByPath[pathByWd[w]] = w
        /\ \A d \in DOMAIN wdByPath : wdByPath[d] \in DOMAIN pathByWd /\ pathByWd[wdByPath[d]] = d
        /\ \A d \in DOMAIN wdByPath : d \in Folders /\ Shown(d)
        /\ DOMAIN kernel' \subseteq DOMAIN pathByWd
    BY <1>2, <2>2 DEF Maps
  <2>7. UNCHANGED <<pathByWd, wdByPath, nextWd>>
    BY <1>1
  <2> HIDE DEF Dirs, Shown
  <2> QED
    BY <2>3, <2>5, <2>6, <2>7 DEF Maps
<1>10. CASE ~Shown(Parent(p)) /\ Event(At(Parent(p)), p, "DELETE") = {}
  <2>1. ~Shown(p)
    BY <1>10, ShownParent
  <2>2. Maps(tree, {}, {}, {})'
    <3>1. p \notin DOMAIN wdByPath'
      BY <1>9, <2>1 DEF Maps
    <3>2. DOMAIN wdByPath' \ {p} = DOMAIN wdByPath' \ {}
      BY <3>1
    <3> QED
      BY <1>9, <3>1, <3>2 DEF Maps
  <2>3. Rows(tree, Unfinished, {})'
    BY <1>8, <2>1 DEF Rows
  <2>4. queue' = << >>
    BY <1>2, <1>10, QueueOf
  <2> QED
    BY <1>1, <1>2, <1>7, <2>2, <2>3, <2>4 DEF Stage, AtRest, Ended
<1>11. ASSUME NEW e, Event(At(Parent(p)), p, "DELETE") = {e}, e.mask = "DELETE", Knows(e, p) PROVE Wood' /\ Stage'
  <2>1. queue' = <<e>> /\ Knows(e, p)'
    BY <1>1, <1>2, <1>11, QueueOf DEF Knows, PathTold
  <2>3. p \in DOMAIN wdByPath => wdByPath[p] \notin DOMAIN kernel'
    <3> SUFFICES ASSUME p \in DOMAIN wdByPath PROVE wdByPath[p] \notin DOMAIN kernel'
      OBVIOUS
    <3>1. p \in Folders /\ kernel[wdByPath[p]] = At(p)
      BY <1>2, <1>3 DEF Maps
    <3> QED
      BY <3>1 DEF Unwatched, Restrict
  <2>2. Deleting(e, p)'
    BY <2>3, <1>1, <1>2, <1>5, <1>8, <1>9, <1>11, <2>1 DEF Deleting, Subtree
  <2> QED
    BY <1>7, <2>2 DEF Stage
<1> QED
  BY <1>2, <1>3, <1>10, <1>11, EventOf

LEMMA UnlinkStage ==
  ASSUME CalmInv, calm', ~UnlinkOpen, NEW p \in Files, Unlink(p)
  PROVE  Wood' /\ Stage'
<1>1. p \in Tree \ Top /\ At(p) = tree[p] /\ p \notin Folders
  BY FileBelow, TreeAssumption DEF At
<1>2. \A c \in Subtree(p) : c = p
  BY FileAlone DEF Subtree
<1> QED
  BY <1>1, <1>2, GoneStage DEF Unlink

LEMMA RmdirStage ==
  ASSUME CalmInv, calm', NEW p \in Folders \ Top, Rmdir(p)
  PROVE  Wood' /\ Stage'
<1>1. p \in Tree \ Top /\ At(p) = tree[p] /\ p \notin Files /\ p \in Path
  BY TreeAssumption, TreePath DEF Tree, At
<1>2. Wood
  <2>1. calm /\ Quiet
    BY OpCalm DEF Rmdir
  <2> QED
    BY <2>1 DEF CalmInv
<1>3. ASSUME NEW c \in Tree, Under(c, p) PROVE tree[c] = NoNode
  <2> PICK b : b = SubSeq(c, 1, Len(p) + 1)
    OBVIOUS
  <2>1. b \in Path \ {<< >>} /\ Parent(b) = p /\ In(c, b)
    BY <1>1, <1>3, TreePath, ChildTowards
  <2>2. b \in Tree
    <3>1. In(b, p)
      BY <2>1, ParentAndBase DEF In
    <3> QED
      BY <1>1, <2>1, <3>1, Between DEF In, Tree
  <2>3. tree[b] = NoNode
    BY <2>1, <2>2 DEF Rmdir, Entries
  <2> QED
    BY <1>2, <2>1, <2>2, <2>3, WoodUp
<1> QED
  BY <1>1, <1>3, GoneStage DEF Rmdir, Subtree, In

-----------------------------------------------------------------------------
(* A move *)

To(c, p, q) == IF In(c, p) THEN Relocate(c, p, q) ELSE c

CanMove(p, q) ==
    /\ p \in Tree \ Top /\ q \in Tree \ Top /\ (p \in Folders <=> q \in Folders)
    /\ ~In(p, q) /\ ~In(q, p)
    /\ tree[p] # NoNode /\ tree[q] = NoNode /\ tree[Parent(q)] # NoNode
    /\ \A c \in Subtree(p) : tree[c] # NoNode => Relocate(c, p, q) \in IF c \in Folders THEN Folders ELSE Files

TreeMoved(p, q) ==
    /\ DOMAIN tree' = Tree
    /\ \A c \in Tree : tree'[c] = IF In(c, p) THEN NoNode ELSE IF In(c, q) THEN At(Relocate(c, q, p)) ELSE tree[c]

\* Nothing is in both
LEMMA Apart ==
  ASSUME NEW p \in Tree, NEW q \in Tree, ~In(p, q), ~In(q, p), NEW c \in Path
  PROVE  ~(In(c, p) /\ In(c, q))
BY TreePath, Comparable DEF In

\* Where everything goes
LEMMA MovedTo ==
  ASSUME Wood, NEW p, NEW q, CanMove(p, q), TreeMoved(p, q), NEW c \in Tree, tree[c] # NoNode
  PROVE  /\ To(c, p, q) \in Tree /\ (To(c, p, q) \in Folders <=> c \in Folders)
         /\ tree'[To(c, p, q)] = tree[c] /\ ~In(c, q)
<1>1. p \in Tree /\ q \in Tree /\ p \in Path /\ q \in Path /\ c \in Path /\ Files \cap Folders = {}
  BY TreePath, TreeAssumption DEF CanMove
<1>2. ~In(c, q)
  BY <1>1, WoodUp DEF CanMove
<1>3. CASE In(c, p)
  <2>1. c \in Subtree(p)
    BY <1>3 DEF Subtree
  <2>2. Relocate(c, p, q) \in Tree /\ (Relocate(c, p, q) \in Folders <=> c \in Folders)
    BY <1>1, <2>1 DEF CanMove, Tree
  <2>3. In(Relocate(c, p, q), q) /\ Relocate(Relocate(c, p, q), q, p) = c /\ Relocate(c, p, q) \in Path
    BY <1>1, <1>3, Relocated
  <2>4. ~In(Relocate(c, p, q), p)
    BY <1>1, <2>3, Apart DEF CanMove
  <2>5. tree'[Relocate(c, p, q)] = At(c)
    BY <2>2, <2>3, <2>4 DEF TreeMoved
  <2> QED
    BY <1>2, <1>3, <2>2, <2>5 DEF To, At
<1>4. CASE ~In(c, p)
  BY <1>2, <1>4 DEF To, TreeMoved
<1> QED
  BY <1>3, <1>4

\* ... and where everything has come from
LEMMA MovedFrom ==
  ASSUME Wood, NEW p, NEW q, CanMove(p, q), TreeMoved(p, q), NEW c \in Tree, tree'[c] # NoNode
  PROVE  /\ ~In(c, p)
         /\ \E b \in Tree : /\ tree[b] = tree'[c] /\ To(b, p, q) = c /\ (b \in Folders <=> c \in Folders)
                            /\ b = IF In(c, q) THEN Relocate(c, q, p) ELSE c
<1>1. p \in Tree /\ q \in Tree /\ p \in Path /\ q \in Path /\ c \in Path
  BY TreePath DEF CanMove
<1>2. ~In(c, p)
  BY DEF TreeMoved
<1>3. CASE In(c, q)
  <2> PICK b : b = Relocate(c, q, p)
    OBVIOUS
  <2>1. tree'[c] = At(b)
    BY <1>2, <1>3 DEF TreeMoved
  <2>2. b \in Tree /\ tree[b] = tree'[c]
    BY <2>1 DEF At
  <2>3. In(b, p) /\ Relocate(b, p, q) = c
    BY <1>1, <1>3, Relocated
  <2>4. To(b, p, q) = c
    BY <2>3 DEF To
  <2> QED
    BY <1>2, <1>3, <2>2, <2>4, MovedTo
<1>4. CASE ~In(c, q)
  BY <1>2, <1>4 DEF TreeMoved, To
<1> QED
  BY <1>2, <1>3, <1>4

LEMMA MovedOpen ==
  ASSUME Wood, NEW p, NEW q, CanMove(p, q), TreeMoved(p, q)
  PROVE  /\ OpenFile(q)' = OpenFile(q)
         /\ \A c \in Tree \ Top : c # p /\ tree[c] # NoNode => OpenFile(To(c, p, q))' = OpenFile(c)
<1>1. p \in Tree /\ q \in Tree /\ p \in Path /\ q \in Path /\ p \in Tree \ Top /\ q \in Tree \ Top
  BY TreePath DEF CanMove
<1>2. OpenFile(q)' = OpenFile(q)
  <2>1. Parent(q) \in Tree /\ ~In(Parent(q), q) /\ Under(q, Parent(q)) /\ Parent(q) \in Path
    BY <1>1, Folder, TreePath, ParentAndBase
  <2>2. ~In(Parent(q), p)
    BY <1>1, <2>1, InTransitive DEF In, CanMove
  <2> QED
    BY <2>1, <2>2 DEF OpenFile, At, TreeMoved
<1>3. ASSUME NEW c \in Tree \ Top, c # p, tree[c] # NoNode PROVE OpenFile(To(c, p, q))' = OpenFile(c)
  <2>1. Parent(c) \in Tree /\ tree[Parent(c)] # NoNode /\ Under(c, Parent(c)) /\ c \in Path /\ Parent(c) \in Path
        /\ ~In(Parent(c), c)
    BY <1>3, WoodParent, TreePath, ParentAndBase DEF Tree
  <2>2. Parent(To(c, p, q)) = To(Parent(c), p, q) /\ Base(To(c, p, q)) = Base(c)
    <3>1. CASE In(c, p)
      <4>1. Under(c, p)
        BY <1>3, <3>1 DEF In
      <4> QED
        BY <1>1, <2>1, <3>1, <4>1, RelocatedParent DEF To
    <3>2. CASE ~In(c, p)
      <4>1. ~In(Parent(c), p)
        BY <1>1, <2>1, <3>2, InTransitive DEF In
      <4> QED
        BY <3>2, <4>1 DEF To
    <3> QED
      BY <3>1, <3>2
  <2>3. To(Parent(c), p, q) \in Tree /\ tree'[To(Parent(c), p, q)] = tree[Parent(c)]
    BY <2>1, MovedTo
  <2> QED
    BY <2>1, <2>2, <2>3 DEF OpenFile, At
<1> QED
  BY <1>2, <1>3

LEMMA MovedWood ==
  ASSUME Wood, NEW p, NEW q, CanMove(p, q), TreeMoved(p, q), ops' = ops + 1, nextWd' = nextWd,
         open' = {IF o = OpenFile(p) THEN OpenFile(q) ELSE o : o \in open}
  PROVE  Wood'
<1>1. /\ p \in Tree /\ q \in Tree /\ p \in Path /\ q \in Path /\ p \in Tree \ Top /\ q \in Tree \ Top
      /\ Parent(q) \in Tree /\ tree[Parent(q)] # NoNode
  BY TreePath, Folder DEF CanMove
<1>2. ops \in Nat /\ ops' \in Nat /\ ops' = ops + 1 /\ nextWd' \in Nat \ {0} /\ DOMAIN tree' = Tree
  BY DEF Wood, TreeMoved
<1>3. ASSUME NEW d \in Top PROVE tree'[d] # NoNode
  <2>1. d \in Folders /\ d \in Tree /\ d \in Path
    BY TreeAssumption, TreePath DEF Tree
  <2>2. \A c \in Tree \ Top : ~In(d, c)
    <3> SUFFICES ASSUME NEW c \in Tree \ Top, In(d, c) PROVE FALSE
      OBVIOUS
    <3>1. Under(d, c) /\ c \in Path
      BY TreePath DEF In
    <3>2. c \in Folders
      BY <2>1, <3>1, Between DEF In
    <3> QED
      BY <3>1, <3>2, TreeAssumption
  <2> QED
    BY <1>1, <2>1, <2>2 DEF TreeMoved, Wood
<1>4. ASSUME NEW c \in Tree, NEW d \in Folders, tree'[c] # NoNode, Under(c, d) PROVE tree'[d] # NoNode
  <2>1. d \in Tree /\ d \in Path /\ c \in Path /\ In(c, d)
    BY <1>4, TreePath DEF Tree, In
  <2>2. ~In(d, p)
    <3>1. ~In(c, p)
      BY <1>4, MovedFrom
    <3> QED
      BY <1>1, <2>1, <3>1, InTransitive
  <2>3. PICK b \in Tree : tree[b] = tree'[c] /\ b = IF In(c, q) THEN Relocate(c, q, p) ELSE c
    BY <1>4, MovedFrom
  <2>4. CASE In(d, q)
    <3> PICK a : a = Relocate(d, q, p)
      OBVIOUS
    <3>1. In(c, q) /\ In(b, a)
      BY <1>1, <2>1, <2>3, <2>4, RelocatedBelow
    <3>2. a \in Path /\ In(a, p) /\ Relocate(a, p, q) = d /\ Relocate(b, p, q) = c
      BY <1>1, <2>1, <2>3, <2>4, <3>1, Relocated
    <3>3. a # b
      BY <1>4, <2>1, <3>2 DEF Under
    <3>4. a \in Folders
      BY <1>1, <3>1, <3>2, <3>3, Between DEF In
    <3>5. tree[a] # NoNode
      BY <1>4, <2>3, <3>1, <3>4, WoodUp DEF Tree
    <3> QED
      BY <2>1, <2>2, <2>4, <3>4, <3>5 DEF TreeMoved, At, Tree
  <2>5. CASE ~In(d, q)
    <3>1. tree'[d] = tree[d]
      BY <2>1, <2>2, <2>5 DEF TreeMoved
    <3>2. CASE In(c, q)
      <4>1. Under(q, d)
        BY <1>1, <2>1, <2>5, <3>2, Comparable DEF In
      <4>2. In(Parent(q), d)
        BY <1>1, <2>1, <4>1, TreePath, ChildTowards
      <4> QED
        BY <1>1, <2>1, <3>1, <4>2, WoodUp
    <3>3. CASE ~In(c, q)
      BY <1>4, <2>1, <2>3, <3>1, <3>3, WoodUp
    <3> QED
      BY <3>2, <3>3
  <2> QED
    BY <2>4, <2>5
<1>5. ASSUME NEW c \in Folders, NEW d \in Folders, tree'[c] = tree'[d], tree'[c] # NoNode PROVE c = d
  <2>1. c \in Tree /\ d \in Tree
    BY DEF Tree
  <2>2. PICK a \in Tree : tree[a] = tree'[c] /\ To(a, p, q) = c /\ a \in Folders
    BY <1>5, <2>1, MovedFrom
  <2>3. PICK b \in Tree : tree[b] = tree'[d] /\ To(b, p, q) = d /\ b \in Folders
    BY <1>5, <2>1, MovedFrom
  <2>4. a = b
    BY <1>5, <2>2, <2>3 DEF Wood
  <2> QED
    BY <2>2, <2>3, <2>4
<1>6. ASSUME NEW c \in Folders, tree'[c] # NoNode PROVE \E x \in Folders, k \in 0 .. ops' : tree'[c] = <<x, k>>
  <2>1. PICK b \in Tree : tree[b] = tree'[c] /\ b \in Folders
    BY <1>6, MovedFrom DEF Tree
  <2>2. PICK x \in Folders, k \in 0 .. ops : tree[b] = <<x, k>>
    BY <1>6, <2>1 DEF Wood
  <2> QED
    BY <1>2, <2>1, <2>2
<1>7. ASSUME NEW o \in open' PROVE \E c \in Files : tree'[c] # NoNode /\ OpenFile(c)' = o
  <2>1. PICK u \in open : o = IF u = OpenFile(p) THEN OpenFile(q) ELSE u
    OBVIOUS
  <2>2. PICK b \in Files : tree[b] # NoNode /\ OpenFile(b) = u
    BY DEF Wood
  <2>3. b \in Tree \ Top /\ b \notin Folders /\ b \in Tree
    BY FileBelow, TreeAssumption
  <2>4. To(b, p, q) \in Files /\ tree'[To(b, p, q)] # NoNode
    BY <2>2, <2>3, MovedTo DEF Tree
  <2>5. CASE b = p
    <3>1. To(b, p, q) = q
      BY <1>1, <2>5, Relocated DEF To, In
    <3> QED
      BY <2>1, <2>2, <2>4, <2>5, <3>1, MovedOpen
  <2>6. CASE b # p
    <3>1. u # OpenFile(p)
      BY <1>1, <2>2, <2>3, <2>6, OneOpenFile
    <3> QED
      BY <2>1, <2>2, <2>3, <2>4, <2>6, <3>1, MovedOpen
  <2> QED
    BY <2>5, <2>6
<1> QED
  BY <1>2, <1>3, <1>4, <1>5, <1>6, <1>7 DEF Wood

\* The tree as it was, seen from afterwards
LEMMA MovedFormer ==
  ASSUME Wood, NEW p, NEW q, CanMove(p, q), TreeMoved(p, q),
         open' = {IF o = OpenFile(p) THEN OpenFile(q) ELSE o : o \in open}
  PROVE  /\ Was(p, q)'
         /\ \A c \in Tree : Former(p, q)'[c] = tree[c]
         /\ Unfinished \subseteq FormerUnfinished(p, q)'
<1>1. /\ p \in Tree /\ q \in Tree /\ p \in Path /\ q \in Path /\ p \in Tree \ Top /\ q \in Tree \ Top
      /\ Files \cap Folders = {}
  BY TreePath, TreeAssumption DEF CanMove
<1>2. Was(p, q)'
  <2>1. tree'[q] # NoNode
    <3>1. To(p, p, q) = q
      BY <1>1, Relocated DEF To, In
    <3> QED
      BY <1>1, <3>1, MovedTo DEF CanMove
  <2>2. \A c \in Subtree(p) : tree'[c] = NoNode
    BY DEF Subtree, TreeMoved
  <2>3. ASSUME NEW c \in Subtree(q), tree'[c] # NoNode
        PROVE  Relocate(c, q, p) \in IF c \in Folders THEN Folders ELSE Files
    <3>1. c \in Tree /\ In(c, q)
      BY DEF Subtree
    <3>2. PICK b \in Tree : (b \in Folders <=> c \in Folders) /\ b = Relocate(c, q, p)
      BY <2>3, <3>1, MovedFrom
    <3> QED
      BY <3>2 DEF Tree
  <2> QED
    BY <2>1, <2>2, <2>3 DEF Was, CanMove, Subtree
<1>3. ASSUME NEW c \in Tree PROVE Former(p, q)'[c] = tree[c]
  <2>1. Former(p, q)'[c] = IF In(c, q) THEN NoNode ELSE IF In(c, p) THEN At(Relocate(c, p, q))' ELSE tree'[c]
    BY DEF Former
  <2>2. c \in Path
    BY TreePath
  <2>3. CASE In(c, q)
    <3>1. tree[c] = NoNode
      BY <1>1, <2>3, WoodUp DEF CanMove
    <3> QED
      BY <2>1, <2>3, <3>1
  <2>4. CASE ~In(c, q) /\ In(c, p)
    <3> PICK b : b = Relocate(c, p, q)
      OBVIOUS
    <3>1. In(b, q) /\ Relocate(b, q, p) = c /\ b \in Path
      BY <1>1, <2>2, <2>4, Relocated
    <3>2. ~In(b, p)
      BY <1>1, <3>1, Apart DEF CanMove
    <3>3. CASE b \in Tree
      <4>1. tree'[b] = tree[c]
        BY <3>1, <3>2, <3>3 DEF TreeMoved, At
      <4> QED
        BY <2>1, <2>4, <3>3, <4>1 DEF At
    <3>4. CASE b \notin Tree
      <4>1. tree[c] = NoNode
        BY <2>4, <3>4 DEF CanMove, Subtree, Tree
      <4> QED
        BY <2>1, <2>4, <3>4, <4>1 DEF At
    <3> QED
      BY <3>3, <3>4
  <2>5. CASE ~In(c, q) /\ ~In(c, p)
    BY <2>1, <2>5 DEF TreeMoved
  <2> QED
    BY <2>3, <2>4, <2>5
<1>4. ASSUME NEW c \in Unfinished PROVE c \in FormerUnfinished(p, q)'
  <2>1. c \in Files /\ tree[c] # NoNode /\ OpenFile(c) \in open /\ c \in Tree \ Top /\ c \in Tree
    BY FileBelow DEF Unfinished
  <2>2. To(c, p, q) \in Files /\ tree'[To(c, p, q)] # NoNode /\ ~In(c, q)
    BY <1>1, <2>1, MovedTo DEF Tree
  <2>3. OpenFile(To(c, p, q))' \in open'
    <3>1. CASE c = p
      <4>1. To(c, p, q) = q
        BY <1>1, <3>1, Relocated DEF To, In
      <4> QED
        BY <2>1, <3>1, <4>1, MovedOpen
    <3>2. CASE c # p
      <4>1. OpenFile(c) # OpenFile(p)
        BY <1>1, <2>1, <3>2, OneOpenFile
      <4> QED
        BY <2>1, <3>2, <4>1, MovedOpen
    <3> QED
      BY <3>1, <3>2
  <2>4. To(c, p, q) \in Unfinished'
    BY <2>2, <2>3 DEF Unfinished
  <2> QED
    BY <2>1, <2>2, <2>4 DEF FormerUnfinished, To
<1> QED
  BY <1>2, <1>3, <1>4

\* What has gone where it is not shown is just gone
LEMMA FormerGone ==
  \A p, q : (/\ Was(p, q) /\ DOMAIN tree = Tree /\ (\A c \in Subtree(q) : ~Shown(c))
             /\ Rows(Former(p, q), FormerUnfinished(p, q), {}) /\ Maps(Former(p, q), {}, {}, {}))
            => Rows(tree, Unfinished, Subtree(p)) /\ Maps(tree, {}, Subtree(p), {})
<1> SUFFICES ASSUME NEW p, NEW q, Was(p, q), DOMAIN tree = Tree, \A c \in Subtree(q) : ~Shown(c),
                    Rows(Former(p, q), FormerUnfinished(p, q), {}), Maps(Former(p, q), {}, {}, {})
             PROVE  Rows(tree, Unfinished, Subtree(p)) /\ Maps(tree, {}, Subtree(p), {})
  OBVIOUS
<1> PICK t : t = Former(p, q)
  OBVIOUS
<1>1. \A c \in Tree : t[c] = IF In(c, q) THEN NoNode ELSE IF In(c, p) THEN At(Relocate(c, p, q)) ELSE tree[c]
  BY DEF Former
<1>2. \A c \in Tree : In(c, p) => tree[c] = NoNode
  BY DEF Was, Subtree
<1>3. \A c \in Tree : In(c, q) => ~Shown(c)
  BY DEF Subtree
<1>4. \A c \in Tree : c \in Seen(t) /\ ~In(c, p) => c \in Seen(tree) /\ t[c] = tree[c]
  BY <1>1, <1>3 DEF Seen
<1>5. \A c \in Tree : c \in Seen(tree) => c \in Seen(t) /\ ~In(c, p) /\ ~In(c, q)
  BY <1>1, <1>2, <1>3 DEF Seen
<1>6. \A c \in Tree : c \in FormerUnfinished(p, q) /\ ~In(c, p) => c \in Unfinished
  BY DEF FormerUnfinished
<1>7. Rows(tree, Unfinished, Subtree(p))
  <2>1. index \subseteq Seen(t) /\ Seen(t) \ FormerUnfinished(p, q) \subseteq index /\ \A c \in index : c \in Tree /\ Shown(c)
    BY DEF Rows
  <2>2. index \subseteq Seen(tree) \cup Subtree(p)
    BY <1>4, <2>1 DEF Subtree
  <2>3. Seen(tree) \ Unfinished \subseteq index
    <3> SUFFICES ASSUME NEW c \in Seen(tree), c \notin Unfinished PROVE c \in index
      OBVIOUS
    <3>1. c \in Tree
      BY DEF Seen
    <3> QED
      BY <1>5, <1>6, <2>1, <3>1
  <2> QED
    BY <2>1, <2>2, <2>3 DEF Rows
<1>8. Maps(tree, {}, Subtree(p), {})
  <2>1. /\ DOMAIN wdByPath \subseteq Dirs(t) /\ Dirs(t) \subseteq DOMAIN wdByPath
        /\ \A d \in DOMAIN wdByPath : wdByPath[d] \in DOMAIN kernel /\ kernel[wdByPath[d]] = t[d]
    BY DEF Maps
  <2>2. \A d \in Dirs(t) : d \in Tree /\ d \in Folders /\ d \in Seen(t)
    BY DEF Dirs, Seen
  <2>3. DOMAIN wdByPath \subseteq Dirs(tree) \cup Subtree(p)
    BY <1>4, <2>1, <2>2 DEF Dirs, Subtree
  <2>4. Dirs(tree) \subseteq DOMAIN wdByPath
    BY <1>5, <2>1 DEF Dirs, Tree
  <2>5. \A d \in DOMAIN wdByPath \ Subtree(p) : wdByPath[d] \in DOMAIN kernel /\ kernel[wdByPath[d]] = tree[d]
    BY <1>4, <2>1, <2>2 DEF Subtree
  <2>6. /\ DOMAIN pathByWd \subseteq 1 .. nextWd - 1 /\ DOMAIN kernel \subseteq 1 .. nextWd - 1
        /\ \A w \in DOMAIN pathByWd : pathByWd[w] \in DOMAIN wdByPath /\ wdByPath[pathByWd[w]] = w
        /\ \A d \in DOMAIN wdByPath : wdByPath[d] \in DOMAIN pathByWd /\ pathByWd[wdByPath[d]] = d
        /\ \A d \in DOMAIN wdByPath : d \in Folders /\ Shown(d)
        /\ DOMAIN kernel \subseteq DOMAIN pathByWd
    BY DEF Maps
  <2> HIDE DEF Dirs, Shown, Subtree
  <2> QED
    BY <2>3, <2>4, <2>5, <2>6 DEF Maps
<1> QED
  BY <1>7, <1>8

\* ... and what has come from where it was not is just new
LEMMA FormerNew ==
  \A p, q : (/\ Was(p, q) /\ DOMAIN tree = Tree /\ (\A c \in Subtree(p) : ~Shown(c))
             /\ Rows(Former(p, q), FormerUnfinished(p, q), {}) /\ Maps(Former(p, q), {}, {}, {}))
            => Rows(tree, Unfinished \cup Subtree(q), {}) /\ Maps(tree, Subtree(q), {}, {})
<1> SUFFICES ASSUME NEW p, NEW q, Was(p, q), DOMAIN tree = Tree, \A c \in Subtree(p) : ~Shown(c),
                    Rows(Former(p, q), FormerUnfinished(p, q), {}), Maps(Former(p, q), {}, {}, {})
             PROVE  Rows(tree, Unfinished \cup Subtree(q), {}) /\ Maps(tree, Subtree(q), {}, {})
  OBVIOUS
<1> PICK t : t = Former(p, q)
  OBVIOUS
<1>1. \A c \in Tree : t[c] = IF In(c, q) THEN NoNode ELSE IF In(c, p) THEN At(Relocate(c, p, q)) ELSE tree[c]
  BY DEF Former
<1>2. \A c \in Tree : In(c, p) => tree[c] = NoNode /\ ~Shown(c)
  BY DEF Was, Subtree
<1>3. \A c \in Tree : c \in Seen(t) => c \in Seen(tree) /\ t[c] = tree[c] /\ ~In(c, p) /\ ~In(c, q)
  BY <1>1, <1>2 DEF Seen
<1>4. \A c \in Tree : c \in Seen(tree) /\ ~In(c, q) => c \in Seen(t) /\ ~In(c, p)
  BY <1>1, <1>2 DEF Seen
<1>6. \A c \in Tree : c \in FormerUnfinished(p, q) /\ ~In(c, p) => c \in Unfinished
  BY DEF FormerUnfinished
<1>7. Rows(tree, Unfinished \cup Subtree(q), {})
  <2>1. index \subseteq Seen(t) /\ Seen(t) \ FormerUnfinished(p, q) \subseteq index /\ \A c \in index : c \in Tree /\ Shown(c)
    BY DEF Rows
  <2>2. index \subseteq Seen(tree)
    BY <1>3, <2>1
  <2>3. Seen(tree) \ (Unfinished \cup Subtree(q)) \subseteq index
    <3> SUFFICES ASSUME NEW c \in Seen(tree), c \notin Unfinished, c \notin Subtree(q) PROVE c \in index
      OBVIOUS
    <3>1. c \in Tree /\ ~In(c, q)
      BY DEF Seen, Subtree
    <3> QED
      BY <1>4, <1>6, <2>1, <3>1
  <2> QED
    BY <2>1, <2>2, <2>3 DEF Rows
<1>8. Maps(tree, Subtree(q), {}, {})
  <2>1. /\ DOMAIN wdByPath \subseteq Dirs(t) /\ Dirs(t) \subseteq DOMAIN wdByPath
        /\ \A d \in DOMAIN wdByPath : wdByPath[d] \in DOMAIN kernel /\ kernel[wdByPath[d]] = t[d]
    BY DEF Maps
  <2>2. \A d \in Dirs(t) : d \in Tree /\ d \in Folders /\ d \in Seen(t)
    BY DEF Dirs, Seen
  <2>3. DOMAIN wdByPath \subseteq Dirs(tree)
    BY <1>3, <2>1, <2>2 DEF Dirs
  <2>4. Dirs(tree) \ Subtree(q) \subseteq DOMAIN wdByPath
    BY <1>4, <2>1 DEF Dirs, Tree, Subtree
  <2>5. \A d \in DOMAIN wdByPath : wdByPath[d] \in DOMAIN kernel /\ kernel[wdByPath[d]] = tree[d]
    BY <1>3, <2>1, <2>2
  <2>6. /\ DOMAIN pathByWd \subseteq 1 .. nextWd - 1 /\ DOMAIN kernel \subseteq 1 .. nextWd - 1
        /\ \A w \in DOMAIN pathByWd : pathByWd[w] \in DOMAIN wdByPath /\ wdByPath[pathByWd[w]] = w
        /\ \A d \in DOMAIN wdByPath : wdByPath[d] \in DOMAIN pathByWd /\ pathByWd[wdByPath[d]] = d
        /\ \A d \in DOMAIN wdByPath : d \in Folders /\ Shown(d)
        /\ DOMAIN kernel \subseteq DOMAIN pathByWd
    BY DEF Maps
  <2> HIDE DEF Dirs, Shown, Subtree
  <2> QED
    BY <2>3, <2>4, <2>5, <2>6 DEF Maps
<1> QED
  BY <1>7, <1>8

\* Both, of the state a step leads to
LEMMA FormerGoneNext ==
  (\A p, q : (/\ Was(p, q) /\ DOMAIN tree = Tree /\ (\A c \in Subtree(q) : ~Shown(c))
              /\ Rows(Former(p, q), FormerUnfinished(p, q), {}) /\ Maps(Former(p, q), {}, {}, {}))
             => Rows(tree, Unfinished, Subtree(p)) /\ Maps(tree, {}, Subtree(p), {}))'
BY FormerGone, PTL

LEMMA FormerNewNext ==
  (\A p, q : (/\ Was(p, q) /\ DOMAIN tree = Tree /\ (\A c \in Subtree(p) : ~Shown(c))
              /\ Rows(Former(p, q), FormerUnfinished(p, q), {}) /\ Maps(Former(p, q), {}, {}, {}))
             => Rows(tree, Unfinished \cup Subtree(q), {}) /\ Maps(tree, Subtree(q), {}, {}))'
BY FormerNew, PTL

LEMMA MoveStage ==
  ASSUME CalmInv, calm', ~Overwrite, NEW p \in Tree \ Top, NEW q \in Tree \ Top, Move(p, q)
  PROVE  Wood' /\ Stage'
<1>1. /\ calm /\ Quiet /\ ops' = ops + 1
      /\ UNCHANGED <<pathByWd, wdByPath, rpc, started, todo, cur, names, call, dels, mvs, index>>
  BY OpCalm DEF Move
<1>2. /\ Wood /\ Rows(tree, Unfinished, {}) /\ Maps(tree, {}, {}, {})
      /\ queue = << >> /\ dels = {} /\ mvs = {} /\ rpc = "next"
  BY <1>1, QuietRests
<1>3. p \in Tree /\ q \in Tree /\ At(p) = tree[p] /\ At(q) = tree[q]
      /\ Parent(q) \in Tree /\ At(Parent(q)) = tree[Parent(q)]
  BY Folder DEF At
<1>4. CanMove(p, q)
  <2>1. At(p) # NoNode /\ At(q) = NoNode /\ At(Parent(q)) # NoNode /\ Movable(p, q)
    BY DEF Move
  <2>2. ASSUME NEW c \in Subtree(p), tree[c] # NoNode
        PROVE  Relocate(c, p, q) \in IF c \in Folders THEN Folders ELSE Files
    <3>1. CASE c = p
      <4>1. Relocate(c, p, q) = q
        BY <1>3, <3>1, TreePath, Relocated DEF In
      <4> QED
        BY <1>3, <2>1, <3>1, <4>1 DEF Movable, Tree
    <3>2. CASE c # p
      BY <2>1, <2>2, <3>2 DEF Movable, Subtree, In
    <3> QED
      BY <3>1, <3>2
  <2> QED
    BY <1>3, <2>1, <2>2 DEF CanMove, Movable, In
<1>5. TreeMoved(p, q)
  BY DEF Move, TreeMoved, In
<1>6. /\ open' = {IF o = OpenFile(p) THEN OpenFile(q) ELSE o : o \in open}
      /\ nextWd' = nextWd
      /\ queue' = Queue(Queue(queue, Event(At(Parent(p)), p, "MOVED_FROM")), Event(At(Parent(q)), q, "MOVED_TO"))
  BY DEF Move
<1>7. DOMAIN kernel' = DOMAIN kernel /\ \A w \in DOMAIN kernel : kernel'[w] = kernel[w]
  <2>1. \A w \in DOMAIN kernel : kernel[w] # At(q)
    <3> SUFFICES ASSUME NEW w \in DOMAIN kernel PROVE kernel[w] # At(q)
      OBVIOUS
    <3>1. w \in DOMAIN pathByWd /\ pathByWd[w] \in DOMAIN wdByPath /\ wdByPath[pathByWd[w]] = w
      BY <1>2 DEF Maps
    <3>2. kernel[w] = tree[pathByWd[w]] /\ tree[pathByWd[w]] # NoNode
      BY <1>2, <3>1 DEF Maps, Dirs, Seen
    <3> QED
      BY <1>3, <1>4, <3>2 DEF CanMove
  <2>2. kernel' = kernel \/ kernel' = Unwatched(At(q))
    BY DEF Move
  <2>3. {w \in DOMAIN kernel : kernel[w] # At(q)} = DOMAIN kernel
    BY <2>1
  <2> QED
    BY <2>2, <2>3 DEF Unwatched, Restrict
<1>8. Wood'
  BY <1>1, <1>2, <1>4, <1>5, <1>6, MovedWood
<1>9. /\ Was(p, q)' /\ \A c \in Tree : Former(p, q)'[c] = tree[c]
      /\ Unfinished \subseteq FormerUnfinished(p, q)'
  BY <1>2, <1>4, <1>5, <1>6, MovedFormer
<1> PICK t : t = Former(p, q)'
  OBVIOUS
<1>10. \A c \in Tree : c \in Seen(t) <=> c \in Seen(tree)
  BY <1>9 DEF Seen
<1>11. Rows(Former(p, q), FormerUnfinished(p, q), {})'
  <2>1. /\ index' = index /\ index \subseteq Seen(tree) /\ Seen(tree) \ Unfinished \subseteq index
        /\ \A c \in index : c \in Tree /\ Shown(c)
    BY <1>1, <1>2 DEF Rows
  <2>2. index \subseteq Seen(t) /\ Seen(t) \ FormerUnfinished(p, q)' \subseteq index
    <3>1. Seen(t) \subseteq Tree /\ Seen(tree) \subseteq Tree
      BY DEF Seen
    <3> QED
      BY <1>9, <1>10, <2>1, <3>1
  <2>3. Seen(Former(p, q))' = Seen(t)
    BY DEF Seen, Shown, shouldIgnore
  <2>4. \A c : Shown(c)' <=> Shown(c)
    BY DEF Shown, shouldIgnore
  <2> QED
    BY <2>1, <2>2, <2>3, <2>4 DEF Rows
<1>12. Maps(Former(p, q), {}, {}, {})'
  <2>1. \A d \in Folders : d \in Tree /\ (d \in Dirs(t) <=> d \in Dirs(tree)) /\ t[d] = tree[d]
    BY <1>9, <1>10 DEF Dirs, Tree
  <2>2. /\ DOMAIN wdByPath \subseteq Dirs(tree) /\ Dirs(tree) \subseteq DOMAIN wdByPath
        /\ \A d \in DOMAIN wdByPath : wdByPath[d] \in DOMAIN kernel /\ kernel[wdByPath[d]] = tree[d]
        /\ \A d \in DOMAIN wdByPath : d \in Folders /\ Shown(d)
    BY <1>2 DEF Maps
  <2>3. DOMAIN wdByPath \subseteq Dirs(t) /\ Dirs(t) \subseteq DOMAIN wdByPath
    BY <2>1, <2>2 DEF Dirs
  <2>4. \A d \in DOMAIN wdByPath : wdByPath[d] \in DOMAIN kernel' /\ kernel'[wdByPath[d]] = t[d]
    BY <1>7, <2>1, <2>2
  <2>5. /\ DOMAIN pathByWd \subseteq 1 .. nextWd - 1 /\ DOMAIN kernel' \subseteq 1 .. nextWd - 1
        /\ \A w \in DOMAIN pathByWd : pathByWd[w] \in DOMAIN wdByPath /\ wdByPath[pathByWd[w]] = w
        /\ \A d \in DOMAIN wdByPath : wdByPath[d] \in DOMAIN pathByWd /\ pathByWd[wdByPath[d]] = d
        /\ DOMAIN kernel' \subseteq DOMAIN pathByWd
    BY <1>2, <1>7 DEF Maps
  <2>6. UNCHANGED <<pathByWd, wdByPath, nextWd>>
    BY <1>1, <1>6
  <2>7. Dirs(Former(p, q))' = Dirs(t)
    BY DEF Dirs, Seen, Shown, shouldIgnore
  <2>8. \A c : Shown(c)' <=> Shown(c)
    BY DEF Shown, shouldIgnore
  <2> HIDE DEF Dirs, Shown
  <2> QED
    BY <2>2, <2>3, <2>4, <2>5, <2>6, <2>7, <2>8 DEF Maps
<1>13. DOMAIN tree' = Tree
  BY <1>5 DEF TreeMoved
<1>14. (\A c \in Subtree(q) : ~Shown(c)) => Rows(tree, Unfinished, Subtree(p))' /\ Maps(tree, {}, Subtree(p), {})'
  BY <1>9, <1>11, <1>12, <1>13, FormerGoneNext DEF Subtree, Shown, shouldIgnore
<1>15. (\A c \in Subtree(p) : ~Shown(c)) => Rows(tree, Unfinished \cup Subtree(q), {})' /\ Maps(tree, Subtree(q), {}, {})'
  BY <1>9, <1>11, <1>12, <1>13, FormerNewNext DEF Subtree, Shown, shouldIgnore
<1>16. \A d \in Tree \ Top : ~Shown(Parent(d)) => \A c \in Subtree(d) : ~Shown(c)
  BY ShownAbove, ShownParent DEF Subtree
<1>17. \A e, d : Knows(e, d) => Knows(e, d)'
  BY <1>1 DEF Knows, PathTold
<1>18. tree[Parent(p)] # NoNode
  BY <1>2, <1>4, WoodParent DEF CanMove
<1>19. /\ tree'[q] # NoNode /\ \A c \in Subtree(p) : tree'[c] = NoNode
  BY <1>9 DEF Was, Subtree
<1>20. CASE ~Shown(Parent(p)) /\ Event(At(Parent(p)), p, "MOVED_FROM") = {}
  <2>1. \A c \in Subtree(p) : ~Shown(c)
    BY <1>16, <1>20
  <2>2. CASE ~Shown(Parent(q)) /\ Event(At(Parent(q)), q, "MOVED_TO") = {}
    <3>1. queue' = << >>
      BY <1>2, <1>6, <1>20, <2>2, QueueOf
    <3>2. \A c \in Subtree(q) : ~Shown(c)
      BY <1>16, <2>2
    <3>3. Rows(tree, Unfinished, Subtree(p))' /\ Maps(tree, Subtree(q), {}, {})'
      BY <1>14, <1>15, <2>1, <3>2
    <3>4. Rows(tree, Unfinished, {})'
      BY <2>1, <3>3 DEF Rows, Subtree
    <3>5. Maps(tree, {}, {}, {})'
      <4>1. Dirs(tree)' \cap Subtree(q) = {}
        BY <3>2 DEF Dirs, Seen
      <4> QED
        BY <3>3, <4>1 DEF Maps
    <3> QED
      BY <1>1, <1>2, <1>8, <3>1, <3>4, <3>5 DEF Stage, AtRest, Ended
  <2>3. ASSUME NEW f, Event(At(Parent(q)), q, "MOVED_TO") = {f}, f.mask = "MOVED_TO", Knows(f, q) PROVE Wood' /\ Stage'
    <3>1. queue' = <<f>>
      BY <1>2, <1>6, <1>20, <2>3, QueueOf
    <3>2. New(f, q)'
      BY <1>1, <1>2, <1>15, <1>17, <1>19, <2>1, <2>3, <3>1 DEF New
    <3> QED
      BY <1>8, <3>2 DEF Stage
  <2> QED
    BY <1>2, <1>3, <1>4, <2>2, <2>3, EventOf DEF CanMove
<1>21. ASSUME NEW e, Event(At(Parent(p)), p, "MOVED_FROM") = {e}, e.mask = "MOVED_FROM", e.cookie = ops, Knows(e, p)
       PROVE  Wood' /\ Stage'
  <2>2. CASE ~Shown(Parent(q)) /\ Event(At(Parent(q)), q, "MOVED_TO") = {}
    <3>1. queue' = <<e>>
      BY <1>2, <1>6, <1>21, <2>2, QueueOf
    <3>2. \A c \in Subtree(q) : ~Shown(c)
      BY <1>16, <2>2
    <3>3. Leaves(e, p)'
      BY <1>1, <1>2, <1>14, <1>17, <1>19, <1>21, <3>1, <3>2 DEF Leaves, Subtree
    <3> QED
      BY <1>8, <3>3 DEF Stage
  <2>3. ASSUME NEW f, Event(At(Parent(q)), q, "MOVED_TO") = {f}, f.mask = "MOVED_TO", f.cookie = ops, Knows(f, q)
        PROVE  Wood' /\ Stage'
    <3>1. queue' = <<e, f>>
      BY <1>2, <1>6, <1>21, <2>3, QueueOf
    <3>2. Moving(e, f, p, q)'
      BY <1>1, <1>2, <1>9, <1>11, <1>12, <1>17, <1>21, <2>3, <3>1 DEF Moving
    <3> QED
      BY <1>8, <3>2 DEF Stage
  <2> QED
    BY <1>2, <1>3, <1>4, <2>2, <2>3, EventOf DEF CanMove
<1> QED
  BY <1>2, <1>3, <1>18, <1>20, <1>21, EventOf

LEMMA OthersStage ==
  ASSUME CalmInv, calm', ~UnlinkOpen, ~Overwrite, Others
  PROVE  Wood' /\ Stage'
<1>1. Folders \ Top \subseteq Tree \ Top /\ Files \subseteq Tree \ Top
  BY FileBelow DEF Tree
<1>2. ASSUME NEW p \in Folders \ Top, NEW q \in Folders \ Top, Move(p, q) PROVE Wood' /\ Stage'
  BY <1>1, <1>2, MoveStage
<1>3. ASSUME NEW p \in Files, NEW q \in Files, Move(p, q) PROVE Wood' /\ Stage'
  BY <1>1, <1>3, MoveStage
<1>4. ASSUME NEW p \in Folders \ Top, Mkdir(p) \/ Rmdir(p) PROVE Wood' /\ Stage'
  BY <1>4, MkdirStage, RmdirStage
<1>5. ASSUME NEW p \in Files, Create(p) \/ Unlink(p) PROVE Wood' /\ Stage'
  BY <1>5, CreateStage, UnlinkStage
<1> QED
  BY <1>2, <1>3, <1>4, <1>5, CloseWriteStage DEF Others

-----------------------------------------------------------------------------
(* What the watcher does, stage by stage *)

LEMMA Same ==
  ASSUME UNCHANGED <<tree, open, kernel, nextWd, ops, pathByWd, wdByPath, index>>
  PROVE  /\ Wood => Wood'
         /\ Unfinished' = Unfinished /\ Seen(tree)' = Seen(tree) /\ Dirs(tree)' = Dirs(tree)
         /\ Rows(tree, Unfinished, {}) => Rows(tree, Unfinished, {})'
         /\ Maps(tree, {}, {}, {}) => Maps(tree, {}, {}, {})'
         /\ \A e, p : Knows(e, p) => Knows(e, p)'
         /\ \A p : /\ Rows(tree, Unfinished \cup Subtree(p), {}) => Rows(tree, Unfinished \cup Subtree(p), {})'
                   /\ Rows(tree, Unfinished, {p}) => Rows(tree, Unfinished, {p})'
                   /\ Rows(tree, Unfinished, Subtree(p)) => Rows(tree, Unfinished, Subtree(p))'
                   /\ Maps(tree, Subtree(p), {}, {}) => Maps(tree, Subtree(p), {}, {})'
                   /\ Maps(tree, {}, {p}, {}) => Maps(tree, {}, {p}, {})'
                   /\ Maps(tree, {}, Subtree(p), {}) => Maps(tree, {}, Subtree(p), {})'
         /\ \A p, q : /\ Was(p, q) => Was(p, q)'
                      /\ Rows(Former(p, q), FormerUnfinished(p, q), {}) => Rows(Former(p, q), FormerUnfinished(p, q), {})'
                      /\ Maps(Former(p, q), {}, {}, {}) => Maps(Former(p, q), {}, {}, {})'
<1>1. \A c : At(c)' = At(c) /\ OpenFile(c)' = OpenFile(c)
  BY DEF At, OpenFile
<1>2. Unfinished' = Unfinished /\ Seen(tree)' = Seen(tree) /\ Dirs(tree)' = Dirs(tree)
  BY <1>1 DEF Unfinished, Seen, Dirs, Shown, shouldIgnore
<1>3. \A c : (Shown(c)' <=> Shown(c)) /\ Subtree(c)' = Subtree(c)
  BY DEF Shown, shouldIgnore, Subtree
<1>4. \A p, q : /\ Former(p, q)' = Former(p, q) /\ FormerUnfinished(p, q)' = FormerUnfinished(p, q)
                /\ Seen(Former(p, q))' = Seen(Former(p, q)) /\ Dirs(Former(p, q))' = Dirs(Former(p, q))
  <2> SUFFICES ASSUME NEW p, NEW q
               PROVE  /\ Former(p, q)' = Former(p, q) /\ FormerUnfinished(p, q)' = FormerUnfinished(p, q)
                      /\ Seen(Former(p, q))' = Seen(Former(p, q)) /\ Dirs(Former(p, q))' = Dirs(Former(p, q))
    OBVIOUS
  <2>1. Former(p, q)' = Former(p, q)
    BY <1>1 DEF Former
  <2>2. FormerUnfinished(p, q)' = FormerUnfinished(p, q)
    BY <1>2 DEF FormerUnfinished
  <2>3. Seen(Former(p, q))' = Seen(Former(p, q)) /\ Dirs(Former(p, q))' = Dirs(Former(p, q))
    BY <1>1, <2>1 DEF Seen, Dirs, Shown, shouldIgnore
  <2> QED
    BY <2>1, <2>2, <2>3
<1>5. Wood => Wood'
  BY <1>1 DEF Wood
<1>6. \A e, p : Knows(e, p) => Knows(e, p)'
  BY DEF Knows, PathTold
<1>7. \A p, q : Was(p, q) => Was(p, q)'
  BY DEF Was, Subtree
<1> HIDE DEF Seen, Dirs, Shown, Subtree, Former, FormerUnfinished, Unfinished
<1>8. /\ Rows(tree, Unfinished, {}) => Rows(tree, Unfinished, {})'
      /\ \A p : /\ Rows(tree, Unfinished \cup Subtree(p), {}) => Rows(tree, Unfinished \cup Subtree(p), {})'
                /\ Rows(tree, Unfinished, {p}) => Rows(tree, Unfinished, {p})'
                /\ Rows(tree, Unfinished, Subtree(p)) => Rows(tree, Unfinished, Subtree(p))'
  BY <1>2, <1>3 DEF Rows
<1>9. \A p, q : Rows(Former(p, q), FormerUnfinished(p, q), {}) => Rows(Former(p, q), FormerUnfinished(p, q), {})'
  BY <1>3, <1>4 DEF Rows
<1>10. Maps(tree, {}, {}, {}) => Maps(tree, {}, {}, {})'
  BY <1>2, <1>3 DEF Maps
<1>11. \A p : Maps(tree, Subtree(p), {}, {}) => Maps(tree, Subtree(p), {}, {})'
  BY <1>2, <1>3 DEF Maps
<1>12. \A p : Maps(tree, {}, {p}, {}) => Maps(tree, {}, {p}, {})'
  BY <1>2, <1>3 DEF Maps
<1>13. \A p : Maps(tree, {}, Subtree(p), {}) => Maps(tree, {}, Subtree(p), {})'
  BY <1>2, <1>3 DEF Maps
<1>14. \A p, q : Maps(Former(p, q), {}, {}, {}) => Maps(Former(p, q), {}, {}, {})'
  BY <1>3, <1>4 DEF Maps
<1> QED
  BY <1>2, <1>5, <1>6, <1>7, <1>8, <1>9, <1>10, <1>11, <1>12, <1>13, <1>14

Watcher == Walk \/ Reader \/ Goroutines

\* Of one event
LEMMA TailOf ==
  ASSUME NEW e, NEW f
  PROVE  /\ Head(<<e>>) = e /\ Tail(<<e>>) = << >> /\ <<e>> # << >>
         /\ Head(<<e, f>>) = e /\ Tail(<<e, f>>) = <<f>> /\ <<e, f>> # << >>
OBVIOUS

\* With nothing held back and an event in the queue, the reader reads it
LEMMA Reads ==
  ASSUME Watcher, rpc = "next", dels = {}, mvs = {}
  PROVE  \/ Skip \/ HandleCreate \/ HandleCloseWrite \/ HandleDelete
         \/ HandleMovedFrom \/ HandleMovedTo
BY DEF Watcher, Walk, WalkItem, WalkAdd, WalkIndex, WalkEnd, Reader, RenameWatches, Send, Goroutines

LEMMA NewStage ==
  ASSUME Wood, NEW e, NEW q, New(e, q), Watcher
  PROVE  Wood' /\ Stage'
<1>1. /\ rpc = "next" /\ queue = <<e>> /\ dels = {} /\ mvs = {}
      /\ Knows(e, q) /\ tree[q] # NoNode /\ q \in Tree \ Top /\ (e.isDir <=> q \in Folders)
      /\ (e.mask = "CREATE" /\ q \in Folders) \/ (e.mask = "CLOSE_WRITE" /\ q \in Files) \/ e.mask = "MOVED_TO"
      /\ Rows(tree, Unfinished \cup Subtree(q), {}) /\ Maps(tree, Subtree(q), {}, {})
  BY DEF New, Knows
<1>2. /\ \E r \in Roots : In(q, r)
      /\ Shown(q) <=> ~shouldIgnore(q)
      /\ Known(e) <=> Shown(q)
  BY <1>1, KnownIsShown
<1>3. Head(queue) = e /\ Tail(queue) = << >> /\ AbsPath = q
  BY <1>1, TailOf DEF Knows, PathTold, AbsPath
<1>4. CASE Skip
  <2>1. ~Shown(q)
    BY <1>2, <1>3, <1>4 DEF Skip
  <2>2. Seen(tree) \cap Subtree(q) = {}
    BY <1>1, <2>1, ShownAbove DEF Subtree, Seen
  <2>3. Rows(tree, Unfinished, {})
    BY <1>1, <2>2 DEF Rows
  <2>4. Maps(tree, {}, {}, {})
    BY <1>1, <2>2 DEF Maps, Dirs
  <2>5. UNCHANGED <<tree, open, kernel, nextWd, ops, pathByWd, wdByPath, index, rpc, dels, mvs>> /\ queue' = << >>
    BY <1>3, <1>4 DEF Skip, wm, reader
  <2>6. Rows(tree, Unfinished, {})' /\ Maps(tree, {}, {}, {})' /\ Wood'
    BY <2>3, <2>4, <2>5, Same
  <2> QED
    BY <1>1, <2>5, <2>6 DEF Stage, AtRest, Ended
<1>5. ASSUME UNCHANGED <<tree, open, kernel, nextWd, ops, pathByWd, wdByPath, index, dels, mvs, cur, names>>,
             queue' = << >>, rpc' = "walk", todo' = {q}
      PROVE  Wood' /\ Stage'
  <2>1. Rows(tree, Unfinished \cup Subtree(q), {})' /\ Maps(tree, Subtree(q), {}, {})' /\ Wood'
    BY <1>1, <1>5, Same
  <2>2. {c \in Tree : Ahead(c)}' = Subtree(q) /\ {c \in Tree : Ahead(c) \/ (rpc = "index" /\ c = cur)}' = Subtree(q)
    BY <1>5 DEF Ahead, Subtree
  <2>3. Rows(tree, Unfinished \cup {c \in Tree : Ahead(c) \/ (rpc = "index" /\ c = cur)}, {})'
    BY <2>1, <2>2 DEF Rows, Subtree
  <2>4. Maps(tree, {c \in Tree : Ahead(c)}, {}, {})'
    BY <2>1, <2>2 DEF Maps, Subtree
  <2>5. Walking'
    BY <1>1, <1>2, <1>5, <2>3, <2>4 DEF Walking
  <2> QED
    BY <2>1, <2>5 DEF Stage
<1>6. ASSUME UNCHANGED <<tree, open, kernel, nextWd, ops, pathByWd, wdByPath, index, dels, mvs>>,
             queue' = << >>, rpc' = "send", call' = [op |-> "Index", name |-> q], q \in Files, Known(e)
      PROVE  Wood' /\ Stage'
  <2>1. Rows(tree, Unfinished \cup Subtree(q), {})' /\ Maps(tree, Subtree(q), {}, {})' /\ Wood'
    BY <1>1, <1>6, Same
  <2>2. Subtree(q) = {q} /\ q \notin Folders
    BY <1>1, <1>6, FileAlone, TreeAssumption DEF Subtree, In
  <2>3. Rows(tree, Unfinished \cup {q}, {})'
    BY <2>1, <2>2 DEF Rows, Subtree
  <2>4. Maps(tree, {}, {}, {})'
    BY <2>1, <2>2 DEF Maps, Dirs, Subtree
  <2>5. q \in Files \cap Seen(tree)'
    BY <1>1, <1>2, <1>6 DEF Seen
  <2>6. Sending(q)'
    BY <1>1, <1>6, <2>3, <2>4, <2>5 DEF Sending
  <2> QED
    BY <2>1, <2>6 DEF Stage
<1>7. CASE HandleCreate
  BY <1>3, <1>5, <1>7 DEF HandleCreate, Take, wm
<1>8. CASE HandleCloseWrite
  <2>1. e.mask = "CLOSE_WRITE" /\ Known(e)
    BY <1>3, <1>8 DEF HandleCloseWrite, Take
  <2> QED
    BY <1>1, <1>3, <1>6, <1>8, <2>1 DEF HandleCloseWrite, Take, wm
<1>9. CASE HandleMovedTo
  <2>1. Known(e) /\ \A m \in mvs : m.cookie # e.cookie
    BY <1>1, <1>3, <1>9 DEF HandleMovedTo, Take
  <2>2. CASE e.isDir
    BY <1>1, <1>3, <1>5, <1>9, <2>1, <2>2 DEF HandleMovedTo, Take, wm
  <2>3. CASE ~e.isDir
    <3>1. q \in Files
      BY <1>1, <2>3 DEF Tree
    <3> QED
      BY <1>1, <1>3, <1>6, <1>9, <2>1, <2>3, <3>1 DEF HandleMovedTo, Take, wm
  <2> QED
    BY <2>2, <2>3
<1>10. ~HandleDelete /\ ~HandleMovedFrom
  BY <1>1, <1>3 DEF HandleDelete, HandleMovedFrom, Take
<1> QED
  BY <1>1, <1>4, <1>7, <1>8, <1>9, <1>10, Reads

LEMMA DeletingStage ==
  ASSUME Wood, NEW e, NEW p, Deleting(e, p), Watcher
  PROVE  Wood' /\ Stage'
<1>1. /\ rpc = "next" /\ queue = <<e>> /\ dels = {} /\ mvs = {} /\ e.mask = "DELETE"
      /\ Knows(e, p) /\ p \in Tree \ Top /\ p \in Tree /\ (e.isDir <=> p \in Folders)
      /\ \A c \in Subtree(p) : tree[c] = NoNode
      /\ p \in DOMAIN wdByPath => wdByPath[p] \notin DOMAIN kernel
      /\ Rows(tree, Unfinished, {p}) /\ Maps(tree, {}, {p}, {})
  BY DEF Deleting, Knows
<1>2. Known(e) <=> Shown(p)
  BY <1>1, KnownIsShown
<1>3. Head(queue) = e /\ Tail(queue) = << >> /\ AbsPath = p
  BY <1>1, TailOf DEF Knows, PathTold, AbsPath
<1>4. CASE Skip
  <2>1. ~Shown(p)
    BY <1>2, <1>3, <1>4 DEF Skip
  <2>2. Rows(tree, Unfinished, {})
    BY <1>1, <2>1 DEF Rows
  <2>3. Maps(tree, {}, {}, {})
    BY <1>1, <2>1 DEF Maps
  <2>4. UNCHANGED <<tree, open, kernel, nextWd, ops, pathByWd, wdByPath, index, rpc, dels, mvs>> /\ queue' = << >>
    BY <1>3, <1>4 DEF Skip, wm, reader
  <2>5. Rows(tree, Unfinished, {})' /\ Maps(tree, {}, {}, {})' /\ Wood'
    BY <2>2, <2>3, <2>4, Same
  <2> QED
    BY <1>1, <2>4, <2>5 DEF Stage, AtRest, Ended
<1>5. CASE HandleDelete
  <2> PICK it : it = [path |-> p, isDir |-> e.isDir]
    OBVIOUS
  <2>1. /\ UNCHANGED <<tree, open, kernel, nextWd, ops, index, rpc, mvs>> /\ queue' = << >>
        /\ dels' = {it}
        /\ IF e.isDir THEN rmByPath(p) ELSE UNCHANGED wm
    BY <1>1, <1>3, <1>5 DEF HandleDelete, Take
  <2>2. Wood' /\ Rows(tree, Unfinished, {p})'
    BY <1>1, <2>1 DEF Wood, OpenFile, At, Rows, Seen, Unfinished, Shown, shouldIgnore
  <2>3. Dirs(tree)' = Dirs(tree) /\ p \notin Dirs(tree) /\ \A c : Shown(c)' <=> Shown(c)
    BY <1>1, <2>1 DEF Dirs, Seen, Shown, shouldIgnore, Subtree, In
  <2>4. Maps(tree, {}, {}, {})'
    <3>1. CASE p \in DOMAIN wdByPath
      <4>1. p \in Folders
        BY <1>1, <3>1 DEF Maps
      <4>2. /\ pathByWd' = Restrict(pathByWd, DOMAIN pathByWd \ {wdByPath[p]})
            /\ wdByPath' = Restrict(wdByPath, DOMAIN wdByPath \ {p})
        BY <1>1, <2>1, <3>1, <4>1 DEF rmByPath
      <4>3. /\ DOMAIN pathByWd' = DOMAIN pathByWd \ {wdByPath[p]} /\ \A w \in DOMAIN pathByWd' : pathByWd'[w] = pathByWd[w]
            /\ DOMAIN wdByPath' = DOMAIN wdByPath \ {p} /\ \A d \in DOMAIN wdByPath' : wdByPath'[d] = wdByPath[d]
        BY <4>2 DEF Restrict
      <4>4. DOMAIN kernel \subseteq DOMAIN pathByWd'
        BY <1>1, <3>1, <4>3 DEF Maps
      <4> HIDE DEF Dirs, Shown
      <4> QED
        BY <1>1, <2>1, <2>3, <4>3, <4>4 DEF Maps
    <3>2. CASE p \notin DOMAIN wdByPath
      <4>1. UNCHANGED <<pathByWd, wdByPath>>
        BY <2>1, <3>2 DEF rmByPath, wm
      <4> HIDE DEF Dirs, Shown
      <4> QED
        BY <1>1, <2>1, <2>3, <3>2, <4>1 DEF Maps
    <3> QED
      BY <3>1, <3>2
  <2>5. Holding(it, p)'
    BY <1>1, <2>1, <2>2, <2>4 DEF Holding, Subtree
  <2> QED
    BY <2>2, <2>5 DEF Stage
<1>6. ~HandleCreate /\ ~HandleCloseWrite /\ ~HandleMovedFrom /\ ~HandleMovedTo
  BY <1>1, <1>3 DEF HandleCreate, HandleCloseWrite, HandleMovedFrom, HandleMovedTo, Take
<1> QED
  BY <1>1, <1>4, <1>5, <1>6, Reads

\* With the queue empty, only what is held back goes on
LEMMA Idle ==
  ASSUME Watcher, rpc = "next", queue = << >>
  PROVE  Goroutines
BY DEF Watcher, Walk, WalkItem, WalkAdd, WalkIndex, WalkEnd, Reader, RenameWatches, Send,
       Skip, HandleCreate, HandleCloseWrite, HandleDelete, HandleMovedFrom, HandleMovedTo, Take

LEMMA HoldingStage ==
  ASSUME Wood, NEW it, NEW p, Holding(it, p), Watcher
  PROVE  Wood' /\ Stage'
<1>1. /\ rpc = "next" /\ queue = << >> /\ dels = {it} /\ mvs = {}
      /\ it.path = p /\ p \in Tree /\ (it.isDir <=> p \in Folders) /\ \A c \in Subtree(p) : tree[c] = NoNode
      /\ Rows(tree, Unfinished, {p}) /\ Maps(tree, {}, {}, {})
  BY DEF Holding
<1>2. ReportDelete(it)
  BY <1>1, Idle DEF Goroutines
<1>3. /\ UNCHANGED <<tree, open, kernel, nextWd, ops, queue, pathByWd, wdByPath, rpc, mvs>>
      /\ dels' = {} /\ index' = Without(it.isDir, p)
  BY <1>1, <1>2 DEF ReportDelete, fs, wm, reader
<1>4. Wood' /\ Maps(tree, {}, {}, {})' /\ Unfinished' = Unfinished /\ Seen(tree)' = Seen(tree)
  BY <1>1, <1>3 DEF Wood, Maps, OpenFile, At, Unfinished, Seen, Dirs, Shown, shouldIgnore
<1>5. Rows(tree, Unfinished, {})'
  <2>1. index \subseteq Seen(tree) \cup {p} /\ Seen(tree) \ Unfinished \subseteq index /\ \A c \in index : c \in Tree /\ Shown(c)
    BY <1>1 DEF Rows
  <2>2. index' \subseteq index \ {p} /\ \A c \in index : In(c, p) \/ c \in index'
    BY <1>3 DEF Without, In
  <2>3. \A c \in Seen(tree) : c \in Tree /\ ~In(c, p)
    BY <1>1 DEF Seen, Subtree
  <2>4. index' \subseteq Seen(tree) /\ Seen(tree) \ Unfinished \subseteq index' /\ \A c \in index' : c \in Tree /\ Shown(c)
    BY <2>1, <2>2, <2>3
  <2> QED
    BY <1>4, <2>4 DEF Rows, Shown, shouldIgnore
<1> QED
  BY <1>1, <1>3, <1>4, <1>5 DEF Stage, AtRest, Ended

LEMMA SendingStage ==
  ASSUME Wood, NEW q, Sending(q), Watcher
  PROVE  Wood' /\ Stage'
<1>1. /\ rpc = "send" /\ call.op = "Index" /\ call.name = q /\ q \in Files \cap Seen(tree)
      /\ queue = << >> /\ dels = {} /\ mvs = {}
      /\ Rows(tree, Unfinished \cup {q}, {}) /\ Maps(tree, {}, {}, {})
  BY DEF Sending
<1>2. Send
  BY <1>1 DEF Watcher, Walk, WalkItem, WalkAdd, WalkIndex, WalkEnd, Reader, RenameWatches, Goroutines,
       Skip, HandleCreate, HandleCloseWrite, HandleDelete, HandleMovedFrom, HandleMovedTo, Take
<1>3. /\ UNCHANGED <<tree, open, kernel, nextWd, ops, queue, pathByWd, wdByPath, dels, mvs>>
      /\ index' = index \cup {q} /\ rpc' = "next"
  BY <1>1, <1>2 DEF Send, fs, wm
<1>4. Wood' /\ Maps(tree, {}, {}, {})' /\ Unfinished' = Unfinished /\ Seen(tree)' = Seen(tree)
  BY <1>1, <1>3 DEF Wood, Maps, OpenFile, At, Unfinished, Seen, Dirs, Shown, shouldIgnore
<1>5. Rows(tree, Unfinished, {})'
  <2>1. index' \subseteq Seen(tree) /\ Seen(tree) \ Unfinished \subseteq index' /\ \A c \in index' : c \in Tree /\ Shown(c)
    BY <1>1, <1>3 DEF Rows, Seen
  <2> QED
    BY <1>4, <2>1 DEF Rows, Shown, shouldIgnore
<1> QED
  BY <1>1, <1>3, <1>4, <1>5 DEF Stage, AtRest, Ended

\* The move of a closed entry has been reported; its time running out is too slow for calm
LEMMA RestStage ==
  ASSUME Wood, AtRest, Watcher, calm'
  PROVE  Wood' /\ Stage'
<1>1. /\ rpc = "next" /\ queue = << >> /\ dels = {} /\ Ended
      /\ Rows(tree, Unfinished, {}) /\ Maps(tree, {}, {}, {})
  BY DEF AtRest
<1>2. PICK m \in mvs : MvGoroutine(m)
  BY <1>1, Idle DEF Goroutines
<1>3. MvDelete(m)
  BY <1>1, <1>2 DEF MvGoroutine, MvTimeout, MvUnmap, MvRmWatch, MvRemove, Ended
<1>4. UNCHANGED <<tree, open, kernel, nextWd, ops, queue, pathByWd, wdByPath, dels, index, rpc>> /\ mvs' \subseteq mvs
  BY <1>3 DEF MvDelete, fs, wm, reader
<1>5. Wood' /\ Rows(tree, Unfinished, {})' /\ Maps(tree, {}, {}, {})'
  BY <1>1, <1>4, Same
<1> QED
  BY <1>1, <1>4, <1>5 DEF Stage, AtRest, Ended

LEMMA LeavesStage ==
  ASSUME Wood, NEW e, NEW p, Leaves(e, p), Watcher
  PROVE  Wood' /\ Stage'
<1>1. /\ rpc = "next" /\ queue = <<e>> /\ dels = {} /\ mvs = {} /\ e.mask = "MOVED_FROM"
      /\ Knows(e, p) /\ p \in Tree \ Top /\ (e.isDir <=> p \in Folders)
      /\ \A c \in Subtree(p) : tree[c] = NoNode
      /\ Rows(tree, Unfinished, Subtree(p)) /\ Maps(tree, {}, Subtree(p), {})
  BY DEF Leaves, Knows
<1>2. Known(e) <=> Shown(p)
  BY <1>1, KnownIsShown
<1>3. Head(queue) = e /\ Tail(queue) = << >> /\ AbsPath = p
  BY <1>1, TailOf DEF Knows, PathTold, AbsPath
<1>4. CASE Skip
  <2>1. \A c \in Subtree(p) : ~Shown(c)
    BY <1>1, <1>2, <1>3, <1>4, ShownAbove DEF Skip, Subtree
  <2>2. Rows(tree, Unfinished, {})
    BY <1>1, <2>1 DEF Rows
  <2>3. Maps(tree, {}, {}, {})
    BY <1>1, <2>1 DEF Maps
  <2>4. UNCHANGED <<tree, open, kernel, nextWd, ops, pathByWd, wdByPath, index, rpc, dels, mvs>> /\ queue' = << >>
    BY <1>3, <1>4 DEF Skip, wm, reader
  <2>5. Rows(tree, Unfinished, {})' /\ Maps(tree, {}, {}, {})' /\ Wood'
    BY <2>2, <2>3, <2>4, Same
  <2> QED
    BY <1>1, <2>4, <2>5 DEF Stage, AtRest, Ended
<1>5. CASE HandleMovedFrom
  <2> PICK m : m = [cookie |-> e.cookie, path |-> p, isDir |-> e.isDir, closed |-> FALSE, pc |-> "wait", wds |-> {}]
    OBVIOUS
  <2>1. /\ UNCHANGED <<tree, open, kernel, nextWd, ops, pathByWd, wdByPath, index, rpc, dels>> /\ queue' = << >>
        /\ mvs' = {m} /\ Known(e)
    BY <1>1, <1>3, <1>5 DEF HandleMovedFrom, Take, wm
  <2>2. Wood' /\ Rows(tree, Unfinished, Subtree(p))' /\ Maps(tree, {}, Subtree(p), {})'
    BY <1>1, <2>1, Same
  <2>3. Waits(m, p)' /\ m.pc = "wait" /\ m.closed = FALSE
    BY <1>1, <1>2, <2>1 DEF Waits, Shown, shouldIgnore
  <2>4. Left(m, p)'
    BY <1>1, <2>1, <2>2, <2>3 DEF Left, Subtree
  <2> QED
    BY <2>2, <2>4 DEF Stage
<1>6. ~HandleCreate /\ ~HandleCloseWrite /\ ~HandleDelete /\ ~HandleMovedTo
  BY <1>1, <1>3 DEF HandleCreate, HandleCloseWrite, HandleDelete, HandleMovedTo, Take
<1> QED
  BY <1>1, <1>4, <1>5, <1>6, Reads

\* Entries of mvEvents, field by field
LEMMA Entry ==
  ASSUME NEW a, NEW p, NEW d, NEW c, NEW s, NEW w
  PROVE  \A m : m = [cookie |-> a, path |-> p, isDir |-> d, closed |-> c, pc |-> s, wds |-> w] =>
         /\ m.cookie = a /\ m.path = p /\ m.isDir = d /\ m.closed = c /\ m.pc = s /\ m.wds = w
         /\ \A x, y : [m EXCEPT !.pc = x, !.wds = y] =
                        [cookie |-> a, path |-> p, isDir |-> d, closed |-> c, pc |-> x, wds |-> y]
<1>1. SUFFICES ASSUME NEW m, m = [cookie |-> a, path |-> p, isDir |-> d, closed |-> c, pc |-> s, wds |-> w]
      PROVE  /\ m.cookie = a /\ m.path = p /\ m.isDir = d /\ m.closed = c /\ m.pc = s /\ m.wds = w
             /\ \A x, y : [m EXCEPT !.pc = x, !.wds = y] =
                            [cookie |-> a, path |-> p, isDir |-> d, closed |-> c, pc |-> x, wds |-> y]
  OBVIOUS
<1>2. m.cookie = a /\ m.path = p /\ m.isDir = d /\ m.closed = c /\ m.pc = s /\ m.wds = w
  BY <1>1
<1>3. ASSUME NEW x, NEW y
      PROVE  [m EXCEPT !.pc = x, !.wds = y] =
             [cookie |-> a, path |-> p, isDir |-> d, closed |-> c, pc |-> x, wds |-> y]
  <2>1. PICK k : k = [m EXCEPT !.pc = x]
    OBVIOUS
  <2>2. k = [cookie |-> a, path |-> p, isDir |-> d, closed |-> c, pc |-> x, wds |-> w]
    BY <1>1, <2>1
  <2>3. [k EXCEPT !.wds = y] = [cookie |-> a, path |-> p, isDir |-> d, closed |-> c, pc |-> x, wds |-> y]
    BY <2>2
  <2>4. [m EXCEPT !.pc = x, !.wds = y] = [k EXCEPT !.wds = y]
    BY <2>1
  <2> QED
    BY <2>3, <2>4
<1> QED
  BY <1>2, <1>3

LEMMA LeftStage ==
  ASSUME Wood, NEW m, NEW p, Left(m, p), Watcher
  PROVE  Wood' /\ Stage'
<1>1. /\ rpc = "next" /\ queue = << >> /\ dels = {} /\ mvs = {m}
      /\ \A c \in Subtree(p) : tree[c] = NoNode
      /\ m.pc \in {"wait", "unmap", "rm", "remove"} /\ (m.pc = "wait" => ~m.closed)
      /\ (m.pc \in {"unmap", "rm"} => m.isDir)
      /\ Rows(tree, Unfinished, Subtree(p))
  BY DEF Left
<1>2. /\ p \in Tree \ Top /\ p \in Tree /\ Shown(p) /\ (m.isDir <=> p \in Folders)
      /\ m = [cookie |-> m.cookie, path |-> p, isDir |-> m.isDir, closed |-> m.closed, pc |-> m.pc, wds |-> m.wds]
  BY DEF Left, Waits
<1>3. /\ m.pc \in {"wait", "unmap"} => Maps(tree, {}, Subtree(p), {})
      /\ m.pc = "rm" => Maps(tree, {}, {}, m.wds)
      /\ m.pc = "remove" => Maps(tree, {}, {}, {})
  BY DEF Left
<1>4. \A c : Shown(c)' <=> Shown(c)
  BY DEF Shown, shouldIgnore
<1>5. CASE MvTimeout(m)
  <2> PICK n : n = [m EXCEPT !.pc = IF m.isDir THEN "unmap" ELSE "remove"]
    OBVIOUS
  <2>1. /\ UNCHANGED <<tree, open, kernel, nextWd, ops, queue, pathByWd, wdByPath, index, rpc, dels>>
        /\ mvs' = {n} /\ m.pc = "wait"
    BY <1>1, <1>5 DEF MvTimeout, Step, fs, wm, reader
  <2>2. /\ n.path = p /\ n.pc = (IF m.isDir THEN "unmap" ELSE "remove") /\ n.isDir = m.isDir
        /\ n = [cookie |-> n.cookie, path |-> p, isDir |-> n.isDir, closed |-> n.closed, pc |-> n.pc, wds |-> n.wds]
    BY <1>2
  <2>3. Maps(tree, {}, Subtree(p), {}) /\ (~m.isDir => Maps(tree, {}, {}, {}))
    <3>1. Maps(tree, {}, Subtree(p), {})
      BY <1>3, <2>1
    <3>2. ~m.isDir => Subtree(p) \cap Folders = {}
      BY <1>2, FileAlone, TreeAssumption DEF Subtree, Tree
    <3> QED
      BY <3>1, <3>2 DEF Maps
  <2>4. Wood' /\ Rows(tree, Unfinished, Subtree(p))' /\ Maps(tree, {}, Subtree(p), {})' /\ (~m.isDir => Maps(tree, {}, {}, {})')
    BY <1>1, <2>1, <2>3, Same
  <2>5. Waits(n, p)'
    BY <1>2, <1>4, <2>2 DEF Waits
  <2>6. Left(n, p)'
    BY <1>1, <2>1, <2>2, <2>4, <2>5 DEF Left, Subtree
  <2> QED
    BY <2>4, <2>6 DEF Stage
<1>6. CASE MvUnmap(m)
  <2> PICK n : n = [m EXCEPT !.pc = "rm", !.wds = Below(m.path)]
    OBVIOUS
  <2>1. /\ UNCHANGED <<tree, open, kernel, nextWd, ops, queue, index, rpc, dels>>
        /\ rmByPathRecursive(p) /\ mvs' = {n} /\ m.pc = "unmap"
    BY <1>1, <1>2, <1>6 DEF MvUnmap, Step, fs, reader
  <2>2. /\ n.path = p /\ n.pc = "rm" /\ n.isDir = m.isDir /\ n.wds = Below(p)
        /\ n = [cookie |-> n.cookie, path |-> p, isDir |-> n.isDir, closed |-> n.closed, pc |-> n.pc, wds |-> n.wds]
    <3> PICK a, d, c, s, w : m = [cookie |-> a, path |-> p, isDir |-> d, closed |-> c, pc |-> s, wds |-> w]
      BY <1>2
    <3>1. m.path = p /\ m.isDir = d
      BY Entry
    <3>2. n = [cookie |-> a, path |-> p, isDir |-> d, closed |-> c, pc |-> "rm", wds |-> Below(p)]
      BY <3>1, Entry
    <3>3. n.cookie = a /\ n.path = p /\ n.isDir = d /\ n.closed = c /\ n.pc = "rm" /\ n.wds = Below(p)
      BY <3>2
    <3> QED
      BY <3>1, <3>2, <3>3, Zenon
  <2>3. Maps(tree, {}, Subtree(p), {})
    BY <1>3, <2>1
  <2>4. \A w \in DOMAIN pathByWd : w \in Below(p) <=> pathByWd[w] \in Subtree(p)
    BY <2>3 DEF Below, Subtree, In, Maps, Tree
  <2>5. /\ DOMAIN pathByWd' = DOMAIN pathByWd \ Below(p) /\ \A w \in DOMAIN pathByWd' : pathByWd'[w] = pathByWd[w]
        /\ DOMAIN wdByPath' = DOMAIN wdByPath \ Subtree(p) /\ \A d \in DOMAIN wdByPath' : wdByPath'[d] = wdByPath[d]
    <3>1. \A d \in DOMAIN wdByPath : d \in {pathByWd[w] : w \in Below(p)} <=> d \in Subtree(p)
      <4> SUFFICES ASSUME NEW d \in DOMAIN wdByPath PROVE d \in {pathByWd[w] : w \in Below(p)} <=> d \in Subtree(p)
        OBVIOUS
      <4>1. wdByPath[d] \in DOMAIN pathByWd /\ pathByWd[wdByPath[d]] = d
        BY <2>3 DEF Maps
      <4>2. Below(p) \subseteq DOMAIN pathByWd
        BY DEF Below
      <4> QED
        BY <2>4, <4>1, <4>2
    <3> QED
      BY <2>1, <3>1 DEF rmByPathRecursive, Restrict
  <2>6. Wood' /\ Unfinished' = Unfinished /\ Seen(tree)' = Seen(tree) /\ Dirs(tree)' = Dirs(tree)
    BY <2>1 DEF Wood, OpenFile, At, Unfinished, Seen, Dirs, Shown, shouldIgnore
  <2>7. Rows(tree, Unfinished, Subtree(p))'
    BY <1>1, <1>4, <2>1, <2>6 DEF Rows, Subtree
  <2>8. Maps(tree, {}, {}, n.wds)'
    <3>1. Below(p) \cap DOMAIN pathByWd' = {} /\ DOMAIN kernel \ Below(p) \subseteq DOMAIN pathByWd'
      BY <2>3, <2>5 DEF Maps
    <3>2. \A w \in DOMAIN pathByWd' : pathByWd[w] \in DOMAIN wdByPath'
      BY <2>3, <2>4, <2>5 DEF Maps
    <3>3. \A d \in DOMAIN wdByPath' : wdByPath[d] \in DOMAIN pathByWd'
      BY <2>3, <2>4, <2>5 DEF Maps
    <3>4. Dirs(tree) \subseteq DOMAIN wdByPath'
      <4>1. Dirs(tree) \cap Subtree(p) = {}
        BY <1>1 DEF Dirs, Seen
      <4> QED
        BY <2>3, <2>5, <4>1 DEF Maps
    <3> HIDE DEF Dirs, Shown, Below, Subtree
    <3> QED
      BY <1>4, <2>1, <2>2, <2>3, <2>5, <2>6, <3>1, <3>2, <3>3, <3>4 DEF Maps
  <2>9. Waits(n, p)'
    BY <1>2, <1>4, <2>2 DEF Waits
  <2>10. Left(n, p)'
    BY <1>1, <2>1, <2>2, <2>7, <2>8, <2>9 DEF Left, Subtree
  <2> QED
    BY <2>6, <2>10 DEF Stage
<1>7. CASE MvRmWatch(m)
  <2> PICK n : n = [m EXCEPT !.pc = "remove", !.wds = {}]
    OBVIOUS
  <2>1. /\ UNCHANGED <<tree, open, nextWd, ops, queue, pathByWd, wdByPath, index, rpc, dels>>
        /\ kernel' = Restrict(kernel, DOMAIN kernel \ m.wds) /\ mvs' = {n} /\ m.pc = "rm"
    BY <1>1, <1>7 DEF MvRmWatch, Step, wm, reader
  <2>2. /\ n.path = p /\ n.pc = "remove" /\ n.isDir = m.isDir
        /\ n = [cookie |-> n.cookie, path |-> p, isDir |-> n.isDir, closed |-> n.closed, pc |-> n.pc, wds |-> n.wds]
    <3> PICK a, d, c, s, w : m = [cookie |-> a, path |-> p, isDir |-> d, closed |-> c, pc |-> s, wds |-> w]
      BY <1>2
    <3>1. m.isDir = d
      BY Entry
    <3>2. n = [cookie |-> a, path |-> p, isDir |-> d, closed |-> c, pc |-> "remove", wds |-> {}]
      BY Entry
    <3>3. n.cookie = a /\ n.path = p /\ n.isDir = d /\ n.closed = c /\ n.pc = "remove" /\ n.wds = {}
      BY <3>2
    <3> QED
      BY <3>1, <3>2, <3>3, Zenon
  <2>3. DOMAIN kernel' = DOMAIN kernel \ m.wds /\ \A w \in DOMAIN kernel' : kernel'[w] = kernel[w]
    BY <2>1 DEF Restrict
  <2>4. Maps(tree, {}, {}, m.wds)
    BY <1>3, <2>1
  <2>5. Wood' /\ Unfinished' = Unfinished /\ Seen(tree)' = Seen(tree) /\ Dirs(tree)' = Dirs(tree)
    BY <2>1 DEF Wood, OpenFile, At, Unfinished, Seen, Dirs, Shown, shouldIgnore
  <2>6. Rows(tree, Unfinished, Subtree(p))'
    BY <1>1, <1>4, <2>1, <2>5 DEF Rows, Subtree
  <2>7. Maps(tree, {}, {}, {})'
    <3>1. \A d \in DOMAIN wdByPath : wdByPath[d] \in DOMAIN kernel' /\ kernel'[wdByPath[d]] = tree[d]
      BY <2>3, <2>4 DEF Maps
    <3>2. DOMAIN kernel' \subseteq DOMAIN pathByWd /\ DOMAIN kernel' \subseteq 1 .. nextWd - 1
      BY <2>3, <2>4 DEF Maps
    <3> HIDE DEF Dirs, Shown
    <3> QED
      BY <1>4, <2>1, <2>4, <2>5, <3>1, <3>2 DEF Maps
  <2>8. Waits(n, p)'
    BY <1>2, <1>4, <2>2 DEF Waits
  <2>9. Left(n, p)'
    BY <1>1, <2>1, <2>2, <2>6, <2>7, <2>8 DEF Left, Subtree
  <2> QED
    BY <2>5, <2>9 DEF Stage
<1>8. CASE MvRemove(m)
  <2> PICK n : n = [m EXCEPT !.pc = "delete"]
    OBVIOUS
  <2>1. /\ UNCHANGED <<tree, open, kernel, nextWd, ops, queue, pathByWd, wdByPath, rpc, dels>>
        /\ mvs' = {n} /\ m.pc = "remove" /\ index' = Without(m.isDir, p)
    BY <1>1, <1>2, <1>8 DEF MvRemove, Step, fs, wm, reader
  <2>2. n.pc = "delete"
    BY <1>2
  <2>3. Wood' /\ Maps(tree, {}, {}, {})' /\ Unfinished' = Unfinished /\ Seen(tree)' = Seen(tree)
    <3>1. Maps(tree, {}, {}, {})
      BY <1>3, <2>1
    <3>2. Maps(tree, {}, {}, {})'
      BY <2>1, <3>1 DEF Maps, Seen, Dirs, Shown, shouldIgnore
    <3> QED
      BY <2>1, <3>2 DEF Wood, OpenFile, At, Unfinished, Seen, Shown, shouldIgnore
  <2>4. Rows(tree, Unfinished, {})'
    <3>1. index \subseteq Seen(tree) \cup Subtree(p) /\ Seen(tree) \ Unfinished \subseteq index
          /\ \A c \in index : c \in Tree /\ Shown(c)
      BY <1>1 DEF Rows
    <3>2. \A c \in Tree : c \in Subtree(p) => c = p \/ (m.isDir /\ Under(c, p))
      BY <1>2, FileAlone DEF Subtree, In, Tree
    <3>3. index' \subseteq index \ Subtree(p) /\ \A c \in index : In(c, p) \/ c \in index'
      BY <2>1, <3>1, <3>2 DEF Without, In
    <3>4. \A c \in Seen(tree) : c \in Tree /\ ~In(c, p)
      BY <1>1 DEF Seen, Subtree
    <3>5. index' \subseteq Seen(tree) /\ Seen(tree) \ Unfinished \subseteq index' /\ \A c \in index' : c \in Tree /\ Shown(c)
      BY <3>1, <3>3, <3>4
    <3> QED
      BY <1>4, <2>3, <3>5 DEF Rows
  <2> QED
    BY <1>1, <2>1, <2>2, <2>3, <2>4 DEF Stage, AtRest, Ended
<1>9. ~MvDelete(m)
  BY <1>1 DEF MvDelete
<1> QED
  BY <1>1, <1>5, <1>6, <1>7, <1>8, <1>9, Idle DEF Goroutines, MvGoroutine

LEMMA MovingStage ==
  ASSUME Wood, NEW e, NEW f, NEW p, NEW q, Moving(e, f, p, q), Watcher
  PROVE  Wood' /\ Stage'
<1>1. /\ rpc = "next" /\ queue = <<e, f>> /\ e.mask = "MOVED_FROM" /\ f.mask = "MOVED_TO" /\ e.cookie = f.cookie
      /\ dels = {} /\ mvs = {}
      /\ Knows(e, p) /\ p \in Tree \ Top /\ (e.isDir <=> p \in Folders) /\ Knows(f, q) /\ Was(p, q)
      /\ Rows(Former(p, q), FormerUnfinished(p, q), {}) /\ Maps(Former(p, q), {}, {}, {})
  BY DEF Moving, Knows
<1>2. Known(e) <=> Shown(p)
  BY <1>1, KnownIsShown
<1>3. Head(queue) = e /\ Tail(queue) = <<f>> /\ AbsPath = p
  BY <1>1, TailOf DEF Knows, PathTold, AbsPath
<1>4. CASE Skip
  <2>1. \A c \in Subtree(p) : ~Shown(c)
    BY <1>1, <1>2, <1>3, <1>4, ShownAbove DEF Skip, Subtree
  <2>2. Rows(tree, Unfinished \cup Subtree(q), {}) /\ Maps(tree, Subtree(q), {}, {})
    BY <1>1, <2>1, FormerNew DEF Wood
  <2>3. UNCHANGED <<tree, open, kernel, nextWd, ops, pathByWd, wdByPath, index, rpc, dels, mvs>> /\ queue' = <<f>>
    BY <1>3, <1>4 DEF Skip, wm, reader
  <2>4. Rows(tree, Unfinished \cup Subtree(q), {})' /\ Maps(tree, Subtree(q), {}, {})' /\ Wood' /\ Knows(f, q)'
    BY <1>1, <2>2, <2>3, Same
  <2>5. New(f, q)'
    BY <1>1, <2>3, <2>4 DEF New, Was
  <2> QED
    BY <2>4, <2>5 DEF Stage
<1>5. CASE HandleMovedFrom
  <2> PICK m : m = [cookie |-> e.cookie, path |-> p, isDir |-> e.isDir, closed |-> FALSE, pc |-> "wait", wds |-> {}]
    OBVIOUS
  <2>1. /\ UNCHANGED <<tree, open, kernel, nextWd, ops, pathByWd, wdByPath, index, rpc, dels>> /\ queue' = <<f>>
        /\ mvs' = {m} /\ Known(e)
    BY <1>1, <1>3, <1>5 DEF HandleMovedFrom, Take, wm
  <2>2. /\ Wood' /\ Rows(Former(p, q), FormerUnfinished(p, q), {})' /\ Maps(Former(p, q), {}, {}, {})'
        /\ Knows(f, q)' /\ Was(p, q)'
    BY <1>1, <2>1, Same
  <2>3. Waits(m, p)' /\ m.pc = "wait" /\ m.closed = FALSE /\ m.cookie = f.cookie
    BY <1>1, <1>2, <2>1 DEF Waits, Shown, shouldIgnore
  <2>4. Halfway(m, f, p, q)'
    BY <1>1, <2>1, <2>2, <2>3 DEF Halfway
  <2> QED
    BY <2>2, <2>4 DEF Stage
<1>6. ~HandleCreate /\ ~HandleCloseWrite /\ ~HandleDelete /\ ~HandleMovedTo
  BY <1>1, <1>3 DEF HandleCreate, HandleCloseWrite, HandleDelete, HandleMovedTo, Take
<1> QED
  BY <1>1, <1>4, <1>5, <1>6, Reads

LEMMA HalfwayStage ==
  ASSUME Wood, NEW m, NEW f, NEW p, NEW q, Halfway(m, f, p, q), Watcher, calm'
  PROVE  Wood' /\ Stage'
<1>1. /\ rpc = "next" /\ queue = <<f>> /\ f.mask = "MOVED_TO" /\ dels = {}
      /\ mvs = {m} /\ m.pc = "wait" /\ ~m.closed /\ m.cookie = f.cookie
      /\ Waits(m, p) /\ Knows(f, q) /\ Was(p, q) /\ (f.isDir <=> q \in Folders)
      /\ Rows(Former(p, q), FormerUnfinished(p, q), {}) /\ Maps(Former(p, q), {}, {}, {})
  BY DEF Halfway, Knows
<1>2. Known(f) <=> Shown(q)
  BY <1>1, KnownIsShown
<1>3. Head(queue) = f /\ Tail(queue) = << >> /\ AbsPath = q
  BY <1>1, TailOf DEF Knows, PathTold, AbsPath
<1>4. /\ m = [cookie |-> m.cookie, path |-> p, isDir |-> m.isDir, closed |-> m.closed, pc |-> m.pc, wds |-> m.wds]
      /\ p \in Tree \ Top /\ Shown(p) /\ (m.isDir <=> p \in Folders) /\ (p \in Folders <=> q \in Folders)
      /\ q \in Tree \ Top
  BY <1>1 DEF Waits, Was
<1>5. CASE Skip
  <2>1. \A c \in Subtree(q) : ~Shown(c)
    BY <1>2, <1>3, <1>4, <1>5, ShownAbove DEF Skip, Subtree
  <2>2. Rows(tree, Unfinished, Subtree(p)) /\ Maps(tree, {}, Subtree(p), {})
    BY <1>1, <2>1, FormerGone DEF Wood
  <2>3. UNCHANGED <<tree, open, kernel, nextWd, ops, pathByWd, wdByPath, index, rpc, dels, mvs>> /\ queue' = << >>
    BY <1>3, <1>5 DEF Skip, wm, reader
  <2>4. Wood' /\ Rows(tree, Unfinished, Subtree(p))' /\ Maps(tree, {}, Subtree(p), {})'
    BY <1>1, <2>2, <2>3, Same
  <2>5. Waits(m, p)' /\ \A c \in Subtree(p) : tree'[c] = NoNode
    BY <1>1, <2>3 DEF Waits, Was, Shown, shouldIgnore
  <2>6. Left(m, p)'
    BY <1>1, <2>3, <2>4, <2>5 DEF Left, Subtree
  <2> QED
    BY <2>4, <2>6 DEF Stage
<1>6. CASE HandleMovedTo
  <2> PICK n : n = [m EXCEPT !.closed = TRUE]
    OBVIOUS
  <2>1. /\ UNCHANGED <<tree, open, kernel, nextWd, ops, pathByWd, wdByPath, index, dels>> /\ queue' = << >>
        /\ Known(f)
    BY <1>1, <1>3, <1>6 DEF HandleMovedTo, Take, wm
  <2>2. /\ mvs' = {n} /\ rpc' = (IF f.isDir THEN "rename" ELSE "send")
        /\ call' = [op |-> "Rename", name |-> q, old |-> p, isDir |-> f.isDir]
    BY <1>1, <1>3, <1>4, <1>6 DEF HandleMovedTo
  <2>3. n.pc = "wait" /\ n.closed = TRUE
    BY <1>1, <1>4
  <2>4. /\ Wood' /\ Rows(Former(p, q), FormerUnfinished(p, q), {})' /\ Maps(Former(p, q), {}, {}, {})' /\ Was(p, q)'
    BY <1>1, <2>1, Same
  <2>5. ~f.isDir => Maps(tree, {}, {}, {})'
    <3> SUFFICES ASSUME ~f.isDir PROVE Maps(tree, {}, {}, {})
      BY <2>1, Same
    <3>1. p \in Files /\ q \in Files /\ p \in Tree /\ q \in Tree
      BY <1>1, <1>4 DEF Tree
    <3>2. \A c \in Folders : c \in Tree /\ ~In(c, p) /\ ~In(c, q)
      BY <3>1, FileAlone, TreeAssumption DEF Tree
    <3> PICK t : t = Former(p, q)
      OBVIOUS
    <3>3. \A c \in Folders : c \in Tree /\ t[c] = tree[c]
      BY <3>2 DEF Former
    <3>4. Dirs(t) = Dirs(tree)
      BY <3>3 DEF Dirs, Seen
    <3>5. Maps(t, {}, {}, {})
      BY <1>1
    <3> HIDE DEF Dirs, Shown
    <3> QED
      BY <3>3, <3>4, <3>5 DEF Maps
  <2>6. Shown(q) /\ (\A c : Shown(c)' <=> Shown(c))
    BY <1>2, <2>1 DEF Shown, shouldIgnore
  <2>7. Renaming(p, q)'
    BY <1>1, <1>4, <2>1, <2>2, <2>3, <2>4, <2>5, <2>6 DEF Renaming, Ended
  <2> QED
    BY <2>4, <2>7 DEF Stage
<1>7. ~HandleCreate /\ ~HandleCloseWrite /\ ~HandleDelete /\ ~HandleMovedFrom
  BY <1>1, <1>3 DEF HandleCreate, HandleCloseWrite, HandleDelete, HandleMovedFrom, Take
<1>8. ~MvGoroutine(m)
  <2>1. ~MvTimeout(m)
    <3>1. 1 \in DOMAIN queue /\ queue[1].cookie = m.cookie
      BY <1>1
    <3> QED
      BY <3>1 DEF MvTimeout
  <2> QED
    BY <1>1, <2>1 DEF MvGoroutine, MvUnmap, MvRmWatch, MvRemove, MvDelete
<1> QED
  BY <1>1, <1>5, <1>6, <1>7, <1>8 DEF Watcher, Walk, WalkItem, WalkAdd, WalkIndex, WalkEnd, Reader, RenameWatches, Send, Goroutines

\* The rows and watches of the tree before a move and after it
LEMMA FormerTo ==
  ASSUME NEW p, NEW q, Was(p, q), Shown(p), Shown(q), NEW d \in Seen(Former(p, q))
  PROVE  /\ d \in Tree /\ Shown(d) /\ ~In(d, q)
         /\ To(d, p, q) \in Seen(tree) /\ (To(d, p, q) \in Folders <=> d \in Folders)
         /\ tree[To(d, p, q)] = Former(p, q)[d]
         /\ In(d, p) => In(To(d, p, q), q)
<1>1. p \in Tree /\ q \in Tree /\ p \in Path /\ q \in Path /\ d \in Tree /\ Shown(d) /\ d \in Path
  BY TreePath DEF Was, Seen
<1>2. Former(p, q)[d] = IF In(d, q) THEN NoNode ELSE IF In(d, p) THEN At(Relocate(d, p, q)) ELSE tree[d]
  BY <1>1 DEF Former
<1>3. Former(p, q)[d] # NoNode /\ ~In(d, q)
  BY <1>2 DEF Seen
<1>4. CASE In(d, p)
  <2> PICK c : c = Relocate(d, p, q)
    OBVIOUS
  <2>1. c \in Tree /\ tree[c] = Former(p, q)[d] /\ tree[c] # NoNode
    BY <1>2, <1>3, <1>4 DEF At
  <2>2. In(c, q) /\ Relocate(c, q, p) = d /\ c \in Path
    BY <1>1, <1>4, Relocated
  <2>3. d \in IF c \in Folders THEN Folders ELSE Files
    BY <2>1, <2>2 DEF Was, Subtree
  <2>4. c \in Folders <=> d \in Folders
    BY <2>3, TreeAssumption
  <2>5. Shown(c)
    <3>1. ~shouldIgnore(c)
      BY <1>1, <1>4, RelocatedIgnored DEF Shown
    <3>2. PICK r \in Roots : In(q, r)
      BY DEF Shown
    <3>3. r \in Path
      BY TreeAssumption, TreePath DEF Tree
    <3>4. In(c, r)
      BY <1>1, <2>2, <3>2, <3>3, InTransitive
    <3> QED
      BY <3>1, <3>4 DEF Shown
  <2> QED
    BY <1>1, <1>3, <1>4, <2>1, <2>2, <2>4, <2>5 DEF To, Seen
<1>5. CASE ~In(d, p)
  BY <1>1, <1>2, <1>3, <1>5 DEF To, Seen
<1> QED
  BY <1>4, <1>5

LEMMA FormerFrom ==
  ASSUME NEW p, NEW q, Was(p, q), Shown(p), Shown(q), NEW c \in Seen(tree)
  PROVE  \E d \in Seen(Former(p, q)) : To(d, p, q) = c /\ (c \in Folders <=> d \in Folders)
<1>1. /\ p \in Tree /\ q \in Tree /\ p \in Path /\ q \in Path /\ ~In(p, q) /\ ~In(q, p)
      /\ c \in Tree /\ Shown(c) /\ c \in Path /\ tree[c] # NoNode
  BY TreePath DEF Was, Seen
<1>2. \A d \in Tree : Former(p, q)[d] = IF In(d, q) THEN NoNode ELSE IF In(d, p) THEN At(Relocate(d, p, q)) ELSE tree[d]
  BY DEF Former
<1>3. CASE In(c, q)
  <2> PICK d : d = Relocate(c, q, p)
    OBVIOUS
  <2>1. d \in IF c \in Folders THEN Folders ELSE Files
    BY <1>1, <1>3 DEF Was, Subtree
  <2>2. d \in Tree /\ (c \in Folders <=> d \in Folders)
    BY <2>1, TreeAssumption DEF Tree
  <2>3. In(d, p) /\ Relocate(d, p, q) = c /\ d \in Path
    BY <1>1, <1>3, Relocated
  <2>4. ~In(d, q)
    BY <1>1, <2>3, Apart
  <2>5. Former(p, q)[d] # NoNode
    BY <1>1, <1>2, <2>2, <2>3, <2>4 DEF At
  <2>6. Shown(d)
    <3>1. ~shouldIgnore(d)
      BY <1>1, <1>3, RelocatedIgnored DEF Shown
    <3>2. PICK r \in Roots : In(p, r)
      BY DEF Shown
    <3>3. r \in Path
      BY TreeAssumption, TreePath DEF Tree
    <3>4. In(d, r)
      BY <1>1, <2>3, <3>2, <3>3, InTransitive
    <3> QED
      BY <3>1, <3>4 DEF Shown
  <2> QED
    BY <2>2, <2>3, <2>5, <2>6 DEF To, Seen
<1>4. CASE ~In(c, q)
  <2>1. ~In(c, p)
    BY <1>1 DEF Was, Subtree
  <2> QED
    BY <1>1, <1>2, <1>4, <2>1 DEF To, Seen
<1> QED
  BY <1>3, <1>4

LEMMA ToInjective ==
  ASSUME NEW p, NEW q, Was(p, q), Shown(p), Shown(q),
         NEW c \in Seen(Former(p, q)), NEW d \in Seen(Former(p, q)), To(c, p, q) = To(d, p, q)
  PROVE  c = d
<1>1. p \in Path /\ q \in Path /\ c \in Path /\ d \in Path
  BY TreePath DEF Was, Seen
<1>2. /\ ~In(c, q) /\ (In(c, p) => In(To(c, p, q), q))
      /\ ~In(d, q) /\ (In(d, p) => In(To(d, p, q), q))
  BY FormerTo
<1>3. /\ In(c, p) => Relocate(Relocate(c, p, q), q, p) = c
      /\ In(d, p) => Relocate(Relocate(d, p, q), q, p) = d
  BY <1>1, Relocated
<1> QED
  BY <1>2, <1>3 DEF To

LEMMA RenamingStage ==
  ASSUME Wood, NEW p, NEW q, Renaming(p, q), Watcher, calm'
  PROVE  Wood' /\ Stage'
<1>1. /\ rpc \in {"rename", "send"} /\ queue = << >> /\ dels = {} /\ Ended
      /\ call.op = "Rename" /\ call.old = p /\ call.name = q /\ (call.isDir <=> p \in Folders)
      /\ Shown(p) /\ Shown(q) /\ Was(p, q)
      /\ Rows(Former(p, q), FormerUnfinished(p, q), {})
      /\ rpc = "rename" => Maps(Former(p, q), {}, {}, {})
      /\ rpc = "send" => Maps(tree, {}, {}, {})
  BY DEF Renaming
<1>2. CASE \E m \in mvs : MvGoroutine(m)
  <2>1. PICK m \in mvs : MvGoroutine(m)
    BY <1>2
  <2>2. MvDelete(m)
    BY <1>1, <2>1 DEF MvGoroutine, MvTimeout, MvUnmap, MvRmWatch, MvRemove, Ended
  <2>3. UNCHANGED <<tree, open, kernel, nextWd, ops, queue, pathByWd, wdByPath, dels, index, rpc, call>> /\ mvs' \subseteq mvs
    BY <2>2 DEF MvDelete, fs, wm, reader
  <2>4. /\ Wood' /\ Rows(Former(p, q), FormerUnfinished(p, q), {})' /\ Was(p, q)'
        /\ rpc = "rename" => Maps(Former(p, q), {}, {}, {})'
        /\ rpc = "send" => Maps(tree, {}, {}, {})'
    BY <1>1, <2>3, Same
  <2>5. \A c : Shown(c)' <=> Shown(c)
    BY DEF Shown, shouldIgnore
  <2>6. Renaming(p, q)'
    BY <1>1, <2>3, <2>4, <2>5 DEF Renaming, Ended
  <2> QED
    BY <2>4, <2>6 DEF Stage
<1>3. CASE RenameWatches
  <2>1. /\ rpc = "rename" /\ rpc' = "send" /\ rename(p, q)
        /\ UNCHANGED <<tree, open, kernel, nextWd, ops, queue, dels, mvs, index, call>>
    BY <1>1, <1>3 DEF RenameWatches, fs
  <2> PICK t : t = Former(p, q)
    OBVIOUS
  <2>2. Maps(t, {}, {}, {})
    BY <1>1, <2>1
  <2>3. \A d \in DOMAIN wdByPath :
            /\ d \in Seen(t) /\ To(d, p, q) \in Dirs(tree) /\ tree[To(d, p, q)] = t[d] /\ ~In(d, q)
            /\ In(d, p) => In(To(d, p, q), q)
    BY <1>1, <2>2, FormerTo DEF Maps, Dirs
  <2>4. DOMAIN pathByWd' = DOMAIN pathByWd /\ \A w \in DOMAIN pathByWd : pathByWd'[w] = To(pathByWd[w], p, q)
    BY <2>1 DEF rename, Renamed, To, In
  <2>5. \A w \in DOMAIN pathByWd : pathByWd[w] \in DOMAIN wdByPath /\ wdByPath[pathByWd[w]] = w
    BY <2>2 DEF Maps
  <2>6. \A d \in DOMAIN wdByPath : wdByPath[d] \in DOMAIN pathByWd /\ pathByWd[wdByPath[d]] = d
    BY <2>2 DEF Maps
  <2>7. Below(p) = {w \in DOMAIN pathByWd : In(pathByWd[w], p)}
    BY DEF Below, In
  <2>8. PICK f \in [{pathByWd'[w] : w \in Below(p)} -> Below(p)] :
              /\ \A x \in DOMAIN f : pathByWd'[f[x]] = x
              /\ wdByPath' = [x \in DOMAIN f \cup DOMAIN Restrict(wdByPath, DOMAIN wdByPath \ {pathByWd[w] : w \in Below(p)})
                              |-> IF x \in DOMAIN f THEN f[x]
                                  ELSE Restrict(wdByPath, DOMAIN wdByPath \ {pathByWd[w] : w \in Below(p)})[x]]
    BY <2>1, Zenon DEF rename
  <2> PICK kept : kept = Restrict(wdByPath, DOMAIN wdByPath \ {pathByWd[w] : w \in Below(p)})
    OBVIOUS
  <2>9. /\ DOMAIN wdByPath' = DOMAIN f \cup DOMAIN kept
         /\ \A x \in DOMAIN wdByPath' : wdByPath'[x] = IF x \in DOMAIN f THEN f[x] ELSE kept[x]
    BY <2>8
  <2>10. DOMAIN kept = {d \in DOMAIN wdByPath : ~In(d, p)} /\ \A d \in DOMAIN kept : kept[d] = wdByPath[d]
    <3>1. \A d \in DOMAIN wdByPath : d \in {pathByWd[w] : w \in Below(p)} <=> In(d, p)
      BY <2>5, <2>6, <2>7
    <3> QED
      BY <3>1 DEF Restrict
  <2>11. ASSUME NEW d \in DOMAIN wdByPath
         PROVE  To(d, p, q) \in DOMAIN wdByPath' /\ wdByPath'[To(d, p, q)] = wdByPath[d]
    <3>1. CASE In(d, p)
      <4>1. wdByPath[d] \in Below(p) /\ pathByWd'[wdByPath[d]] = To(d, p, q)
        BY <2>4, <2>6, <2>7, <3>1
      <4>2. To(d, p, q) \in DOMAIN f
        BY <4>1
      <4>3. f[To(d, p, q)] \in DOMAIN pathByWd /\ pathByWd'[f[To(d, p, q)]] = To(d, p, q)
        BY <2>7, <2>8, <4>2
      <4>4. To(pathByWd[f[To(d, p, q)]], p, q) = To(d, p, q) /\ pathByWd[f[To(d, p, q)]] \in DOMAIN wdByPath
        BY <2>4, <2>5, <4>3
      <4>5. pathByWd[f[To(d, p, q)]] = d
        BY <1>1, <2>3, <4>4, ToInjective
      <4>6. f[To(d, p, q)] = wdByPath[d]
        BY <2>5, <4>3, <4>5
      <4> QED
        BY <2>9, <4>2, <4>6
    <3>2. CASE ~In(d, p)
      <4>1. To(d, p, q) = d /\ d \in DOMAIN kept
        BY <2>10, <3>2 DEF To
      <4>2. d \notin DOMAIN f
        <5> SUFFICES ASSUME NEW w \in Below(p), d = pathByWd'[w] PROVE FALSE
          OBVIOUS
        <5>1. d = To(pathByWd[w], p, q) /\ In(pathByWd[w], p) /\ pathByWd[w] \in DOMAIN wdByPath
          BY <2>4, <2>5, <2>7
        <5> QED
          BY <2>3, <5>1
      <4> QED
        BY <2>10, <2>9, <4>1, <4>2
    <3> QED
      BY <3>1, <3>2
  <2>12. ASSUME NEW x \in DOMAIN wdByPath' PROVE \E d \in DOMAIN wdByPath : x = To(d, p, q)
    <3>1. CASE x \in DOMAIN f
      <4>1. PICK w \in Below(p) : x = pathByWd'[w]
        BY <3>1
      <4> QED
        BY <2>4, <2>5, <2>7, <4>1
    <3>2. CASE x \in DOMAIN kept
      BY <2>10, <3>2 DEF To
    <3> QED
      BY <2>9, <3>1, <3>2
  <2>13. Wood' /\ Seen(tree)' = Seen(tree) /\ Dirs(tree)' = Dirs(tree) /\ \A c : Shown(c)' <=> Shown(c)
    BY <2>1 DEF Wood, OpenFile, At, Seen, Dirs, Shown, shouldIgnore
  <2>14. Maps(tree, {}, {}, {})'
    <3>1. \A w \in DOMAIN pathByWd' : pathByWd'[w] \in DOMAIN wdByPath' /\ wdByPath'[pathByWd'[w]] = w
      BY <2>4, <2>5, <2>11
    <3>2. \A x \in DOMAIN wdByPath' : /\ wdByPath'[x] \in DOMAIN pathByWd' /\ pathByWd'[wdByPath'[x]] = x
                                      /\ wdByPath'[x] \in DOMAIN kernel /\ kernel[wdByPath'[x]] = tree[x]
                                      /\ x \in Dirs(tree)
      <4> SUFFICES ASSUME NEW x \in DOMAIN wdByPath'
                   PROVE  /\ wdByPath'[x] \in DOMAIN pathByWd' /\ pathByWd'[wdByPath'[x]] = x
                          /\ wdByPath'[x] \in DOMAIN kernel /\ kernel[wdByPath'[x]] = tree[x]
                          /\ x \in Dirs(tree)
        OBVIOUS
      <4>1. PICK d \in DOMAIN wdByPath : x = To(d, p, q)
        BY <2>12
      <4>2. wdByPath'[x] = wdByPath[d]
        BY <2>11, <4>1
      <4>3. wdByPath[d] \in DOMAIN kernel /\ kernel[wdByPath[d]] = t[d]
        BY <2>2 DEF Maps
      <4> QED
        BY <2>3, <2>4, <2>6, <4>1, <4>2, <4>3
    <3>3. Dirs(tree) \subseteq DOMAIN wdByPath'
      <4> SUFFICES ASSUME NEW c \in Dirs(tree) PROVE c \in DOMAIN wdByPath'
        OBVIOUS
      <4>1. c \in Seen(tree) /\ c \in Folders
        BY DEF Dirs
      <4>2. PICK d \in Seen(t) : To(d, p, q) = c /\ d \in Folders
        BY <1>1, <4>1, FormerFrom
      <4>3. d \in DOMAIN wdByPath
        BY <2>2, <4>2 DEF Maps, Dirs
      <4> QED
        BY <2>11, <4>2, <4>3
    <3>4. \A x \in Dirs(tree) : x \in Folders /\ Shown(x)
      BY DEF Dirs, Seen
    <3>5. DOMAIN pathByWd' \subseteq 1 .. nextWd - 1 /\ DOMAIN kernel \subseteq 1 .. nextWd - 1 /\ DOMAIN kernel \subseteq DOMAIN pathByWd'
      BY <2>2, <2>4 DEF Maps
    <3> HIDE DEF Dirs, Shown
    <3> QED
      BY <2>1, <2>13, <3>1, <3>2, <3>3, <3>4, <3>5 DEF Maps
  <2>15. Rows(Former(p, q), FormerUnfinished(p, q), {})' /\ Was(p, q)'
    <3>1. /\ Former(p, q)' = Former(p, q) /\ Unfinished' = Unfinished
      BY <2>1 DEF Former, Unfinished, At, OpenFile
    <3>2. FormerUnfinished(p, q)' = FormerUnfinished(p, q) /\ Seen(Former(p, q))' = Seen(Former(p, q))
      BY <2>1, <3>1 DEF FormerUnfinished, Seen, Shown, shouldIgnore
    <3>3. Rows(Former(p, q), FormerUnfinished(p, q), {})'
      BY <1>1, <2>1, <2>13, <3>2 DEF Rows
    <3> QED
      BY <1>1, <2>1, <3>3 DEF Was, Subtree
  <2>16. Renaming(p, q)'
    BY <1>1, <2>1, <2>13, <2>14, <2>15 DEF Renaming, Ended
  <2> QED
    BY <2>13, <2>16 DEF Stage
<1>4. CASE Send
  <2>1. /\ rpc = "send" /\ rpc' = "next" /\ index' = WithRenamed(call.isDir, p, q)
        /\ UNCHANGED <<tree, open, kernel, nextWd, ops, queue, pathByWd, wdByPath, dels, mvs>>
    BY <1>1, <1>4 DEF Send, fs, wm
  <2> PICK t : t = Former(p, q)
    OBVIOUS
  <2>2. index \subseteq Seen(t) /\ Seen(t) \ FormerUnfinished(p, q) \subseteq index
    BY <1>1 DEF Rows
  <2>3. \A c \in Seen(t) : Renamed(c, call.isDir, p, q) = To(c, p, q)
    <3> SUFFICES ASSUME NEW c \in Seen(t) PROVE Renamed(c, call.isDir, p, q) = To(c, p, q)
      OBVIOUS
    <3>1. CASE p \in Folders
      BY <1>1, <3>1 DEF Renamed, To, In
    <3>2. CASE p \notin Folders
      <4>1. p \in Files /\ c \in Tree
        BY <1>1, <3>2 DEF Was, Tree, Seen
      <4>2. In(c, p) => c = p
        BY <4>1, FileAlone
      <4> QED
        BY <1>1, <3>2, <4>2 DEF Renamed, To, In
    <3> QED
      BY <3>1, <3>2
  <2>4. \A c, d \in index : c # d => Renamed(c, call.isDir, p, q) # Renamed(d, call.isDir, p, q)
    BY <1>1, <2>2, <2>3, ToInjective
  <2>5. index' = {Renamed(c, call.isDir, p, q) : c \in index}
    BY <2>1, <2>4 DEF WithRenamed
  <2>6. \A x : x \in index' <=> \E c \in index : x = To(c, p, q)
    BY <2>2, <2>3, <2>5
  <2>7. index' \subseteq Seen(tree)
    BY <1>1, <2>2, <2>6, FormerTo
  <2>8. Seen(tree) \ Unfinished \subseteq index'
    <3> SUFFICES ASSUME NEW c \in Seen(tree), c \notin Unfinished PROVE c \in index'
      OBVIOUS
    <3>1. PICK d \in Seen(t) : To(d, p, q) = c
      BY <1>1, FormerFrom
    <3>2. d \notin FormerUnfinished(p, q)
      BY <3>1 DEF FormerUnfinished, To
    <3> QED
      BY <2>2, <2>6, <3>1, <3>2
  <2>9. Wood' /\ Maps(tree, {}, {}, {})' /\ Unfinished' = Unfinished /\ Seen(tree)' = Seen(tree)
    <3>1. Maps(tree, {}, {}, {})
      BY <1>1, <2>1
    <3>2. Maps(tree, {}, {}, {})'
      BY <2>1, <3>1 DEF Maps, Seen, Dirs, Shown, shouldIgnore
    <3> QED
      BY <2>1, <3>2 DEF Wood, OpenFile, At, Unfinished, Seen, Shown, shouldIgnore
  <2>10. Rows(tree, Unfinished, {})'
    BY <2>7, <2>8, <2>9 DEF Rows, Seen, Shown, shouldIgnore
  <2> QED
    BY <1>1, <2>1, <2>9, <2>10 DEF Stage, AtRest, Ended
<1> QED
  BY <1>1, <1>2, <1>3, <1>4 DEF Watcher, Walk, WalkItem, WalkAdd, WalkIndex, WalkEnd, Reader, Goroutines,
       Skip, HandleCreate, HandleCloseWrite, HandleDelete, HandleMovedFrom, HandleMovedTo, Take

\* What is below a directory that is read is below one of its names
LEMMA InEntries ==
  ASSUME Wood, NEW p \in Folders, NEW c \in Tree, tree[c] # NoNode, Under(c, p)
  PROVE  \E b \in Entries(p) : In(c, b)
<1>1. p \in Tree /\ p \in Path /\ c \in Path
  BY TreePath DEF Tree
<1> PICK b : b = SubSeq(c, 1, Len(p) + 1)
  OBVIOUS
<1>2. b \in Path \ {<< >>} /\ Parent(b) = p /\ In(c, b)
  BY <1>1, ChildTowards
<1>3. b \in Tree
  <2>1. In(b, p)
    BY <1>2, ParentAndBase DEF In
  <2> QED
    BY <1>1, <1>2, <2>1, Between DEF In, Tree
<1> QED
  BY <1>2, <1>3, WoodUp DEF Entries

LEMMA WalkingStage ==
  ASSUME Wood, Walking, Watcher
  PROVE  Wood' /\ Stage'
<1>1. /\ rpc \in {"walk", "add", "index"} /\ queue = << >> /\ dels = {} /\ mvs = {}
      /\ \A c \in todo : c \in Tree /\ tree[c] # NoNode /\ \E r \in Roots : In(c, r)
      /\ rpc # "walk" => cur \in Dirs(tree) /\ names = Entries(cur)
      /\ Rows(tree, Unfinished \cup {c \in Tree : Ahead(c) \/ (rpc = "index" /\ c = cur)}, {})
      /\ Maps(tree, {c \in Tree : Ahead(c)}, {}, {})
  BY DEF Walking
<1>2. Seen(tree) \subseteq Tree /\ Dirs(tree) = Seen(tree) \cap Folders /\ Folders \subseteq Tree
  BY DEF Seen, Dirs, Tree
\* What a step that leaves the tree alone has to show
<1>3. ASSUME UNCHANGED <<tree, open, kernel, nextWd, ops, queue, pathByWd, wdByPath, dels, mvs>>, rpc' \in {"walk", "add", "index"},
             index \subseteq index', index' \subseteq index \cup Seen(tree),
             \A c \in todo' : c \in Tree /\ tree[c] # NoNode /\ \E r \in Roots : In(c, r),
             rpc' # "walk" => cur' \in Dirs(tree) /\ names' = Entries(cur'),
             \A c \in Seen(tree) : Ahead(c) => Ahead(c)' \/ (c \in index' /\ c \notin Folders),
             rpc = "index" => rpc' # "index" /\ cur \in index'
      PROVE  Wood' /\ Stage'
  <2>1. /\ Wood' /\ Unfinished' = Unfinished /\ Seen(tree)' = Seen(tree) /\ Dirs(tree)' = Dirs(tree)
        /\ \A c : (Shown(c)' <=> Shown(c)) /\ Entries(c)' = Entries(c)
    BY <1>3 DEF Wood, OpenFile, At, Unfinished, Seen, Dirs, Shown, shouldIgnore, Entries
  <2>2. Rows(tree, Unfinished \cup {c \in Tree : Ahead(c) \/ (rpc = "index" /\ c = cur)}, {})'
    <3>1. index' \subseteq Seen(tree) /\ \A c \in index' : c \in Tree /\ Shown(c)
      BY <1>1, <1>3 DEF Rows, Seen
    <3>2. ASSUME NEW c \in Seen(tree), c \notin Unfinished, ~Ahead(c)' PROVE c \in index'
      <4>1. CASE Ahead(c) \/ (rpc = "index" /\ c = cur)
        BY <1>3, <3>2, <4>1
      <4>2. CASE ~Ahead(c) /\ ~(rpc = "index" /\ c = cur)
        BY <1>1, <1>3, <3>2, <4>2 DEF Rows
      <4> QED
        BY <4>1, <4>2
    <3>3. Seen(tree) \ (Unfinished \cup {c \in Tree : Ahead(c)' \/ (rpc' = "index" /\ c = cur')}) \subseteq index'
      BY <1>2, <3>2
    <3> HIDE DEF Seen, Shown, Unfinished, Ahead
    <3> QED
      BY <2>1, <3>1, <3>3 DEF Rows
  <2>3. Maps(tree, {c \in Tree : Ahead(c)}, {}, {})'
    <3>1. Dirs(tree) \ {c \in Tree : Ahead(c)'} \subseteq DOMAIN wdByPath
      <4>1. Dirs(tree) \ {c \in Tree : Ahead(c)} \subseteq DOMAIN wdByPath
        BY <1>1 DEF Maps
      <4>2. \A c \in Dirs(tree) : Ahead(c) => Ahead(c)'
        BY <1>2, <1>3
      <4> QED
        BY <4>1, <4>2
    <3> HIDE DEF Dirs, Shown, Ahead
    <3> QED
      BY <1>1, <1>3, <2>1, <3>1 DEF Maps
  <2>4. Walking'
    BY <1>1, <1>3, <2>1, <2>2, <2>3 DEF Walking
  <2> QED
    BY <2>1, <2>4 DEF Stage
<1>4. ASSUME NEW p \in todo, WalkItem(p) PROVE Wood' /\ Stage'
  <2>1. p \in Tree /\ At(p) # NoNode /\ tree[p] # NoNode /\ \E r \in Roots : In(p, r)
    BY <1>1 DEF At
  <2>2. UNCHANGED <<tree, open, kernel, nextWd, ops, queue, pathByWd, wdByPath, dels, mvs>> /\ rpc = "walk"
    BY <1>4 DEF WalkItem, fs, wm
  <2>3. CASE shouldIgnore(p)
    <3>1. rpc' = "walk" /\ todo' = todo \ {p} /\ index' = index
      BY <1>4, <2>1, <2>2, <2>3 DEF WalkItem
    <3>2. \A c \in Seen(tree) : ~In(c, p)
      BY <2>1, <2>3, TreePath, IgnoredBelow DEF Seen, Shown, In
    <3>3. \A c \in Seen(tree) : Ahead(c) => Ahead(c)'
      BY <2>2, <3>1, <3>2 DEF Ahead
    <3> QED
      BY <1>1, <1>3, <2>2, <3>1, <3>3
  <2>4. CASE ~shouldIgnore(p) /\ p \in Files
    <3>1. rpc' = "walk" /\ todo' = todo \ {p} /\ index' = index \cup {p}
      BY <1>4, <2>1, <2>2, <2>4, TreeAssumption DEF WalkItem
    <3>2. p \in Seen(tree) /\ p \notin Folders
      BY <2>1, <2>4, TreeAssumption DEF Seen, Shown
    <3>3. \A c \in Seen(tree) : Ahead(c) => Ahead(c)' \/ (c \in index' /\ c \notin Folders)
      <4>1. \A c \in Seen(tree) : In(c, p) => c = p
        BY <1>2, <2>4, FileAlone
      <4> QED
        BY <2>2, <3>1, <3>2, <4>1 DEF Ahead
    <3> QED
      BY <1>1, <1>3, <2>2, <3>1, <3>2, <3>3
  <2>5. CASE ~shouldIgnore(p) /\ p \in Folders
    <3>1. rpc' = "add" /\ todo' = todo \ {p} /\ cur' = p /\ names' = Entries(p) /\ index' = index
      BY <1>4, <2>1, <2>2, <2>5, TreeAssumption DEF WalkItem
    <3>2. p \in Dirs(tree)
      BY <2>1, <2>5 DEF Seen, Dirs, Shown
    <3>3. ASSUME NEW c \in Seen(tree), Ahead(c) PROVE Ahead(c)'
      <4>1. c \in Tree /\ tree[c] # NoNode
        BY DEF Seen
      <4>2. CASE Under(c, p)
        <5>1. \E b \in names' : In(c, b)
          BY <2>5, <3>1, <4>1, <4>2, InEntries
        <5> QED
          BY <3>1, <5>1 DEF Ahead
      <4>3. CASE c = p
        BY <3>1, <4>3 DEF Ahead
      <4>4. CASE ~In(c, p)
        BY <2>2, <3>1, <3>3, <4>4 DEF Ahead
      <4> QED
        BY <4>2, <4>3, <4>4 DEF In
    <3> QED
      BY <1>1, <1>3, <2>2, <3>1, <3>2, <3>3
  <2> QED
    BY <2>1, <2>3, <2>4, <2>5 DEF Tree
<1>5. CASE WalkIndex
  <2>1. /\ UNCHANGED <<tree, open, kernel, nextWd, ops, queue, pathByWd, wdByPath, dels, mvs>> /\ rpc = "index"
        /\ rpc' = "walk" /\ index' = index \cup {cur} /\ todo' = todo \cup names
    BY <1>5 DEF WalkIndex, fs, wm
  <2>2. cur \in Dirs(tree) /\ names = Entries(cur) /\ cur \in Seen(tree) /\ cur \in Tree
    BY <1>1, <1>2, <2>1
  <2>3. \A c \in Seen(tree) : Ahead(c) => Ahead(c)'
    BY <2>1 DEF Ahead
  <2>4. ASSUME NEW c \in names PROVE c \in Tree /\ tree[c] # NoNode /\ \E r \in Roots : In(c, r)
    <3>1. c \in Tree /\ tree[c] # NoNode /\ Parent(c) = cur
      BY <2>2, <2>4 DEF Entries
    <3>2. PICK r \in Roots : In(cur, r)
      BY <2>2 DEF Seen, Shown
    <3>3. r \in Path /\ cur \in Path /\ c \in Path
      BY <2>2, <3>1, TreeAssumption, TreePath DEF Tree
    <3>4. In(c, cur)
      BY <3>1, TreePath, ParentAndBase DEF In
    <3>5. In(c, r)
      BY <3>2, <3>3, <3>4, InTransitive
    <3> QED
      BY <3>1, <3>5
  <2> QED
    BY <1>1, <1>3, <2>1, <2>2, <2>3, <2>4
<1>6. CASE WalkEnd
  <2>1. /\ UNCHANGED <<tree, open, kernel, nextWd, ops, queue, pathByWd, wdByPath, dels, mvs, index>> /\ rpc = "walk"
        /\ rpc' = "next" /\ todo = {}
    BY <1>6 DEF WalkEnd, fs, wm
  <2>2. \A c : ~Ahead(c)
    BY <2>1 DEF Ahead
  <2>3. Rows(tree, Unfinished, {}) /\ Maps(tree, {}, {}, {})
    BY <1>1, <2>1, <2>2 DEF Rows, Maps
  <2>4. Wood' /\ Rows(tree, Unfinished, {})' /\ Maps(tree, {}, {}, {})'
    BY <2>1, <2>3, Same
  <2> QED
    BY <1>1, <2>1, <2>4 DEF Stage, AtRest, Ended
<1>7. CASE WalkAdd
  <2>1. /\ UNCHANGED <<tree, open, queue, ops, dels, mvs, index>> /\ rpc = "add"
        /\ cur \in Dirs(tree) /\ names = Entries(cur) /\ cur \in Seen(tree) /\ cur \in Folders /\ cur \in Tree
        /\ tree[cur] # NoNode /\ At(cur) = tree[cur] /\ Shown(cur)
    BY <1>1, <1>2, <1>7 DEF WalkAdd, Seen, At
  <2>2. /\ rpc' = "index" /\ UNCHANGED <<todo, cur, names>>
        /\ \/ \E w \in DOMAIN kernel : kernel[w] = At(cur) /\ add(w, cur) /\ UNCHANGED <<kernel, nextWd>>
           \/ /\ ~Watched(cur)
              /\ kernel' = Put(kernel, nextWd, At(cur))
              /\ nextWd' = nextWd + 1
              /\ add(nextWd, cur)
    BY <1>7, <2>1 DEF WalkAdd, walk
  <2>3. nextWd \in Nat \ {0}
    BY DEF Wood
  <2>4. ASSUME NEW w, add(w, cur), w \in 1 .. nextWd' - 1, nextWd' \in Nat, nextWd' >= nextWd,
               DOMAIN kernel' = DOMAIN kernel \cup {w}, kernel'[w] = tree[cur],
               \A v \in DOMAIN kernel : kernel'[v] = kernel[v],
               \A v \in DOMAIN pathByWd : pathByWd[v] = cur <=> v = w,
               cur \in DOMAIN wdByPath => wdByPath[cur] = w
        PROVE  Wood' /\ Stage'
    <3>1. /\ DOMAIN pathByWd' = DOMAIN pathByWd \cup {w} /\ pathByWd'[w] = cur
          /\ \A v \in DOMAIN pathByWd : pathByWd'[v] = pathByWd[v]
          /\ DOMAIN wdByPath' = DOMAIN wdByPath \cup {cur} /\ wdByPath'[cur] = w
          /\ \A d \in DOMAIN wdByPath : wdByPath'[d] = wdByPath[d]
      BY <2>4 DEF add, Put
    <3>2. /\ Wood' /\ Unfinished' = Unfinished /\ Seen(tree)' = Seen(tree) /\ Dirs(tree)' = Dirs(tree)
          /\ \A c : (Shown(c)' <=> Shown(c)) /\ Entries(c)' = Entries(c)
      BY <2>1, <2>3, <2>4 DEF Wood, OpenFile, At, Unfinished, Seen, Dirs, Shown, shouldIgnore, Entries
    <3>3. \A c : Ahead(c) => Ahead(c)' \/ c = cur
      BY <2>1, <2>2 DEF Ahead
    <3>4. Rows(tree, Unfinished \cup {c \in Tree : Ahead(c) \/ (rpc = "index" /\ c = cur)}, {})'
      <4>1. Seen(tree) \ (Unfinished \cup {c \in Tree : Ahead(c)' \/ (rpc' = "index" /\ c = cur')}) \subseteq index
        <5> SUFFICES ASSUME NEW c \in Seen(tree), c \notin Unfinished, ~Ahead(c)', c # cur PROVE c \in index
          BY <1>2, <2>2
        <5> QED
          BY <1>1, <2>1, <3>3 DEF Rows
      <4> HIDE DEF Seen, Shown, Unfinished, Ahead
      <4> QED
        BY <1>1, <2>1, <3>2, <4>1 DEF Rows
    <3>5. Maps(tree, {c \in Tree : Ahead(c)}, {}, {})'
      <4>1. DOMAIN pathByWd' \subseteq 1 .. nextWd' - 1 /\ DOMAIN kernel' \subseteq 1 .. nextWd' - 1
        BY <1>1, <2>3, <2>4, <3>1 DEF Maps
      <4>2. \A v \in DOMAIN pathByWd' : pathByWd'[v] \in DOMAIN wdByPath' /\ wdByPath'[pathByWd'[v]] = v
        BY <1>1, <3>1 DEF Maps
      <4>3. \A d \in DOMAIN wdByPath' : wdByPath'[d] \in DOMAIN pathByWd' /\ pathByWd'[wdByPath'[d]] = d
        BY <1>1, <3>1 DEF Maps
      <4>4. DOMAIN wdByPath' \subseteq Dirs(tree) /\ \A d \in DOMAIN wdByPath' : d \in Folders /\ Shown(d)
        BY <1>1, <2>1, <3>1 DEF Maps
      <4>5. Dirs(tree) \ {c \in Tree : Ahead(c)'} \subseteq DOMAIN wdByPath'
        BY <1>1, <3>1, <3>3 DEF Maps
      <4>6. \A d \in DOMAIN wdByPath' : wdByPath'[d] \in DOMAIN kernel' /\ kernel'[wdByPath'[d]] = tree[d]
        BY <1>1, <2>4, <3>1 DEF Maps
      <4>7. DOMAIN kernel' \subseteq DOMAIN pathByWd'
        BY <1>1, <2>4, <3>1 DEF Maps
      <4> HIDE DEF Dirs, Shown, Ahead
      <4> QED
        BY <2>1, <3>2, <4>1, <4>2, <4>3, <4>4, <4>5, <4>6, <4>7 DEF Maps
    <3>6. Walking'
      BY <1>1, <2>1, <2>2, <3>2, <3>4, <3>5 DEF Walking
    <3> QED
      BY <3>2, <3>6 DEF Stage
  <2>5. ASSUME NEW w \in DOMAIN kernel, kernel[w] = At(cur), add(w, cur), UNCHANGED <<kernel, nextWd>>
        PROVE  Wood' /\ Stage'
    <3>1. w \in DOMAIN pathByWd /\ w \in 1 .. nextWd' - 1
      BY <1>1, <2>5 DEF Maps
    <3>2. /\ pathByWd[w] \in DOMAIN wdByPath /\ wdByPath[pathByWd[w]] = w /\ pathByWd[w] \in Folders
          /\ kernel[w] = tree[pathByWd[w]]
      BY <1>1, <3>1 DEF Maps
    <3>3. pathByWd[w] = cur
      BY <2>1, <2>5, <3>2 DEF Wood
    <3>4. \A v \in DOMAIN pathByWd : pathByWd[v] = cur <=> v = w
      BY <1>1, <3>2, <3>3 DEF Maps
    <3> QED
      BY <2>1, <2>3, <2>4, <2>5, <3>1, <3>2, <3>3, <3>4
  <2>6. ASSUME ~Watched(cur), kernel' = Put(kernel, nextWd, At(cur)), nextWd' = nextWd + 1, add(nextWd, cur)
        PROVE  Wood' /\ Stage'
    <3>1. nextWd \notin DOMAIN kernel /\ nextWd \notin DOMAIN pathByWd
      BY <1>1, <2>3 DEF Maps
    <3>2. cur \notin DOMAIN wdByPath
      BY <1>1, <2>1, <2>6 DEF Maps, Watched
    <3>3. \A v \in DOMAIN pathByWd : pathByWd[v] # cur
      BY <1>1, <3>2 DEF Maps
    <3>4. /\ DOMAIN kernel' = DOMAIN kernel \cup {nextWd} /\ kernel'[nextWd] = tree[cur]
          /\ \A v \in DOMAIN kernel : kernel'[v] = kernel[v]
      BY <2>1, <2>6, <3>1 DEF Put
    <3>5. nextWd \in 1 .. nextWd' - 1 /\ nextWd' \in Nat /\ nextWd' >= nextWd
      BY <2>3, <2>6
    <3> QED
      BY <2>4, <2>6, <3>1, <3>2, <3>3, <3>4, <3>5
  <2> QED
    BY <2>2, <2>5, <2>6
<1> QED
  BY <1>1, <1>4, <1>5, <1>6, <1>7 DEF Watcher, Walk, Reader, Goroutines, RenameWatches, Send,
       Skip, HandleCreate, HandleCloseWrite, HandleDelete, HandleMovedFrom, HandleMovedTo, Take

LEMMA CalmStill == CalmInv /\ UNCHANGED vars => CalmInv'
<1> SUFFICES ASSUME CalmInv, UNCHANGED vars PROVE CalmInv'
  OBVIOUS
<1>1. UNCHANGED <<tree, open, kernel, nextWd, queue, ops, pathByWd, wdByPath, rpc, started, todo, cur, names, call,
                  dels, mvs, index, calm, moved, disturbed>>
  BY DEF vars, fs, wm, walk, reader, hist
<1>2. \A c : (Shown(c)' <=> Shown(c)) /\ Subtree(c)' = Subtree(c)
  BY DEF Shown, shouldIgnore, Subtree
<1>3. CASE AtRest
  BY <1>1, <1>3, Same DEF CalmInv, Stage, AtRest, Ended
<1>4. CASE Walking
  <2>1. Walking'
    BY <1>1, <1>4 DEF Walking, Rows, Maps, Dirs, Seen, Ahead, Unfinished, OpenFile, At, Entries, Shown, shouldIgnore
  <2> QED
    BY <1>1, <2>1, Same DEF CalmInv, Stage
<1>5. ASSUME NEW q, Sending(q) PROVE CalmInv'
  <2>1. Sending(q)'
    BY <1>1, <1>5 DEF Sending, Rows, Maps, Dirs, Seen, Unfinished, OpenFile, At, Shown, shouldIgnore
  <2> QED
    BY <1>1, <2>1, Same DEF CalmInv, Stage
<1>6. ASSUME NEW e, NEW q, New(e, q) PROVE CalmInv'
  <2>1. New(e, q)'
    BY <1>1, <1>6, Same DEF New
  <2> QED
    BY <1>1, <2>1, Same DEF CalmInv, Stage
<1>7. ASSUME NEW e, NEW p, Deleting(e, p) PROVE CalmInv'
  <2>1. Deleting(e, p)'
    BY <1>1, <1>2, <1>7, Same DEF Deleting
  <2> QED
    BY <1>1, <2>1, Same DEF CalmInv, Stage
<1>8. ASSUME NEW e, NEW p, Leaves(e, p) PROVE CalmInv'
  <2>1. Leaves(e, p)'
    BY <1>1, <1>2, <1>8, Same DEF Leaves
  <2> QED
    BY <1>1, <2>1, Same DEF CalmInv, Stage
<1>9. ASSUME NEW it, NEW p, Holding(it, p) PROVE CalmInv'
  <2>1. Holding(it, p)'
    BY <1>1, <1>2, <1>9, Same DEF Holding
  <2> QED
    BY <1>1, <2>1, Same DEF CalmInv, Stage
<1>10. ASSUME NEW m, NEW p, Left(m, p) PROVE CalmInv'
  <2>1. Waits(m, p)' /\ Rows(tree, Unfinished, Subtree(p))'
    BY <1>1, <1>2, <1>10, Same DEF Left, Waits
  <2>2. Maps(tree, {}, IF m.pc \in {"wait", "unmap"} THEN Subtree(p) ELSE {}, IF m.pc = "rm" THEN m.wds ELSE {})'
    BY <1>1, <1>2, <1>10 DEF Left, Maps, Dirs, Seen
  <2>3. Left(m, p)'
    BY <1>1, <1>2, <1>10, <2>1, <2>2 DEF Left
  <2> QED
    BY <1>1, <2>3, Same DEF CalmInv, Stage
<1>11. ASSUME NEW p, NEW q, Renaming(p, q) PROVE CalmInv'
  <2>1. Renaming(p, q)'
    BY <1>1, <1>2, <1>11, Same DEF Renaming, Ended
  <2> QED
    BY <1>1, <2>1, Same DEF CalmInv, Stage
<1>12. ASSUME NEW p, NEW q, NEW e, NEW f, Moving(e, f, p, q) PROVE CalmInv'
  <2>1. Moving(e, f, p, q)'
    BY <1>1, <1>12, Same DEF Moving
  <2> QED
    BY <1>1, <2>1, Same DEF CalmInv, Stage
<1>13. ASSUME NEW p, NEW q, NEW m, NEW f, Halfway(m, f, p, q) PROVE CalmInv'
  <2>1. Waits(m, p)'
    BY <1>2, <1>13 DEF Halfway, Waits
  <2>2. Halfway(m, f, p, q)'
    BY <1>1, <1>13, <2>1, Same DEF Halfway
  <2> QED
    BY <1>1, <2>2, Same DEF CalmInv, Stage
<1>14. CASE ~calm
  BY <1>1, <1>14 DEF CalmInv
<1> QED
  BY <1>3, <1>4, <1>5, <1>6, <1>7, <1>8, <1>9, <1>10, <1>11, <1>12, <1>13, <1>14 DEF CalmInv, Stage

LEMMA CalmBefore == Watcher /\ calm' => calm
BY DEF Watcher, Walk, WalkItem, WalkAdd, WalkIndex, WalkEnd, Reader, Skip, HandleCreate, HandleCloseWrite, HandleDelete,
   HandleMovedFrom, HandleMovedTo, Take, RenameWatches, Send, Goroutines, ReportDelete, MvGoroutine, MvTimeout, MvUnmap,
   MvRmWatch, MvRemove, MvDelete, hist

LEMMA CalmStep ==
  ASSUME ~UnlinkOpen, ~Overwrite
  PROVE  CalmInv /\ [Next]_vars => CalmInv'
<1> SUFFICES ASSUME CalmInv, Next, calm' PROVE Wood' /\ Stage'
  BY CalmStill DEF CalmInv
<1>1. CASE Others
  BY <1>1, OthersStage
<1>2. CASE Watcher
  <2>1. Wood /\ Stage
    BY <1>2, CalmBefore DEF CalmInv
  <2>2. ASSUME NEW q, Sending(q) \/ \E e : New(e, q) PROVE Wood' /\ Stage'
    BY <1>2, <2>1, <2>2, SendingStage, NewStage
  <2>3. ASSUME NEW p, NEW e, Deleting(e, p) \/ Leaves(e, p) PROVE Wood' /\ Stage'
    BY <1>2, <2>1, <2>3, DeletingStage, LeavesStage
  <2>4. ASSUME NEW p, NEW m, Holding(m, p) \/ Left(m, p) PROVE Wood' /\ Stage'
    BY <1>2, <2>1, <2>4, HoldingStage, LeftStage
  <2>5. ASSUME NEW p, NEW q, Renaming(p, q) PROVE Wood' /\ Stage'
    BY <1>2, <2>1, <2>5, RenamingStage
  <2>6. ASSUME NEW p, NEW q, NEW e, NEW f, Moving(e, f, p, q) \/ Halfway(e, f, p, q) PROVE Wood' /\ Stage'
    BY <1>2, <2>1, <2>6, MovingStage, HalfwayStage
  <2> QED
    BY <1>2, <2>1, <2>2, <2>3, <2>4, <2>5, <2>6, RestStage, WalkingStage DEF Stage
<1> QED
  BY <1>1, <1>2 DEF Next, Watcher

LEMMA CalmInit == Init => CalmInv
<1> SUFFICES ASSUME Init PROVE Wood /\ Stage
  BY DEF CalmInv
<1>1. PICK t \in Trees : tree = [p \in Tree |-> IF p \in t \cup Top THEN Inode(p, 0) ELSE NoNode]
  BY DEF Init
<1>2. /\ open = {} /\ kernel = << >> /\ nextWd = 1 /\ queue = << >> /\ ops = 0
      /\ pathByWd = << >> /\ wdByPath = << >> /\ rpc = "walk" /\ todo = Roots /\ dels = {} /\ mvs = {} /\ index = {}
  BY DEF Init
<1>3. /\ Roots \subseteq Top /\ Top \subseteq Folders /\ t \subseteq Tree \ Top
      /\ \A p \in t, d \in Folders : Under(p, d) => d \in t \cup Top
      /\ \A p \in Top, d \in Folders : Under(p, d) => d \in Top
  BY TreeAssumption
<1>4. DOMAIN tree = Tree /\ \A p \in Tree : /\ tree[p] # NoNode <=> p \in t \cup Top
                                            /\ p \in Folders /\ tree[p] # NoNode => tree[p] = <<p, 0>>
  BY <1>1 DEF Inode, AFile, NoNode
<1>5. Wood
  <2>1. \A p \in Folders : p \in Tree
    BY DEF Tree
  <2>2. \A p \in Folders : tree[p] # NoNode => \E x \in Folders, k \in 0 .. ops : tree[p] = <<x, k>>
    BY <1>2, <1>4, <2>1
  <2>3. \A p, d \in Folders : (tree[p] = tree[d] /\ tree[p] # NoNode) => p = d
    BY <1>4, <2>1
  <2>4. \A p \in Tree, d \in Folders : (tree[p] # NoNode /\ Under(p, d)) => tree[d] # NoNode
    BY <1>3, <1>4, <2>1
  <2> QED
    BY <1>2, <1>3, <1>4, <2>1, <2>2, <2>3, <2>4 DEF Wood
<1>6. DOMAIN kernel = {} /\ DOMAIN pathByWd = {} /\ DOMAIN wdByPath = {}
  BY <1>2
<1>7. \A c \in Seen(tree) : Ahead(c)
  BY <1>2 DEF Seen, Shown, Ahead
<1>8. \A c \in todo : c \in Tree /\ tree[c] # NoNode /\ \E r \in Roots : In(c, r)
  BY <1>2, <1>3, <1>4 DEF In, Tree
<1>9. Rows(tree, Unfinished \cup {c \in Tree : Ahead(c) \/ (rpc = "index" /\ c = cur)}, {})
  BY <1>2, <1>7 DEF Rows, Seen
<1>10. Maps(tree, {c \in Tree : Ahead(c)}, {}, {})
  BY <1>6, <1>7 DEF Maps, Dirs, Seen
<1> QED
  BY <1>2, <1>5, <1>8, <1>9, <1>10 DEF Stage, Walking

LEMMA CalmAlways ==
  ASSUME ~UnlinkOpen, ~Overwrite
  PROVE  Spec => []CalmInv
<1>1. Init => CalmInv
  BY CalmInit
<1>2. CalmInv /\ [Next]_vars => CalmInv'
  BY CalmStep
<1> QED
  BY <1>1, <1>2, PTL DEF Spec

\* What is seen is what is visible
LEMMA SeenIsVisible == Seen(tree) = {p \in Tree : Visible(p)}
BY DEF Seen, Shown, Visible, In

\* If no file is deleted that is being written, and no move replaces what has
\* the new name, the index follows a tree that changes no faster than the
\* watcher: the walks, Index, Remove and Rename events of driver_inotify.go
\* leave exactly the rows of what is there below the roots and not ignored.
THEOREM IndexStaysExact ==
  ASSUME ~UnlinkOpen, ~Overwrite
  PROVE  Spec => []IndexExact
<1>1. CalmInv => IndexExact
  <2> SUFFICES ASSUME CalmInv, calm, Quiet
               PROVE  index \ Unfinished = {p \in Tree : Visible(p)} \ Unfinished
    BY DEF IndexExact
  <2>1. index \subseteq Seen(tree) /\ Seen(tree) \ Unfinished \subseteq index
    BY QuietRests DEF Rows
  <2> QED
    BY <2>1, SeenIsVisible
<1> QED
  BY <1>1, CalmAlways, PTL

\* ... and its watch map does: the directories below the roots are watched, and
\* no others, and the map of driver_inotify_watch_map.go knows their paths.
THEOREM WatchesStayExact ==
  ASSUME ~UnlinkOpen, ~Overwrite
  PROVE  Spec => []WatchesExact
<1>1. CalmInv => WatchesExact
  <2> SUFFICES ASSUME CalmInv, calm, Quiet
               PROVE  /\ DOMAIN pathByWd = DOMAIN kernel
                      /\ DOMAIN wdByPath = {p \in Folders : Visible(p)}
                      /\ \A p \in DOMAIN wdByPath :
                            /\ wdByPath[p] \in DOMAIN kernel
                            /\ kernel[wdByPath[p]] = tree[p]
                            /\ pathByWd[wdByPath[p]] = p
    BY DEF WatchesExact
  <2>1. Maps(tree, {}, {}, {})
    BY QuietRests
  <2>2. Dirs(tree) = {p \in Folders : Visible(p)}
    BY SeenIsVisible DEF Dirs, Tree
  <2>3. DOMAIN wdByPath = Dirs(tree)
    BY <2>1 DEF Maps
  <2>4. \A w \in DOMAIN pathByWd : w \in DOMAIN kernel
    BY <2>1 DEF Maps
  <2> QED
    BY <2>1, <2>2, <2>3, <2>4 DEF Maps
<1> QED
  BY <1>1, CalmAlways, PTL

\* However fast files and directories come and go, once all is quiet no row is
\* left of something that is gone: the deletions of driver_inotify.go, held back
\* and grouped, reach the index after whatever the walks and Index events that
\* they race with put there. Moves one at a time leave none either.
THEOREM NoRowIsGhost ==
  ASSUME ~UnlinkOpen, ~Overwrite
  PROVE  Spec => []NoGhost
<1>1. CalmInv /\ GhostInv => NoGhost
  <2> SUFFICES ASSUME CalmInv, GhostInv, Quiet, calm \/ (~moved /\ ~disturbed), NEW p \in index
               PROVE  At(p) # NoNode
    BY DEF NoGhost
  <2>1. CASE calm
    <3>1. p \in Seen(tree)
      BY <2>1, QuietRests DEF Rows
    <3> QED
      BY <3>1 DEF Seen, At
  <2>2. CASE ~moved /\ ~disturbed
    <3>1. PICK P : State(P) /\ Order(P) /\ Covered(P)
      BY <2>2 DEF GhostInv
    <3>2. Len(queue) = 0 /\ dels = {}
      BY DEF Quiet
    <3>3. p \in Tree /\ Kept(P, p)
      BY <3>1, <3>2 DEF Covered, RowsCovered, Doomed
    <3> QED
      BY <3>3 DEF Kept, At
  <2> QED
    BY <2>1, <2>2
<1>2. Spec => []CalmInv
  BY CalmAlways
<1>3. Spec => []GhostInv
  BY GhostAlways
<1> QED
  BY <1>1, <1>2, <1>3, PTL

=============================================================================

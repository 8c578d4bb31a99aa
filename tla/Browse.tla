------------------------------- MODULE Browse -------------------------------
(***************************************************************************)
(* What a client sees of the table: the Browse action of                   *)
(* dlna/content_directory_controller.go over Object, Children and ParentId *)
(* of dlna/backend/backend.go.  Browsing changes nothing, so this module   *)
(* adds operators and no action: each is one statement's answer from the   *)
(* table t.  A request runs several statements, one after the other, on    *)
(* whatever the table is by then.                                          *)
(***************************************************************************)
EXTENDS Backend, Integers

CONSTANT PathLess(_, _)     \* the order of the column path

\* The object with ID 0; there is no row for it
VideoRoot == [id |-> 0, path |-> <<>>, typ |-> "folder"]

SingleRoot == \A r, s \in Roots : r = s

-----------------------------------------------------------------------------
(* Object, Children, ParentId *)

\* The empty set is the error ErrNoRows
Object(t, id) ==
    IF id <= 0 THEN {VideoRoot} ELSE {o \in StatusPublic(t) : o.id = id}

\* path LIKE 'parent/%' AND path NOT LIKE 'parent/%/%'
DirectlyBelow(t, parent) ==
    {o \in StatusPublic(t) : Under(o.path, parent) /\ Len(o.path) = Len(parent) + 1}

\* The rows Children selects, before LIMIT and OFFSET
ChildRows(t, o) ==
    IF o.id > 0 THEN DirectlyBelow(t, o.path)
    ELSE IF SingleRoot THEN UNION {DirectlyBelow(t, r) : r \in Roots}
    ELSE {q \in StatusPublic(t) : q.path \in Roots}

\* ORDER BY typ, path
SortsBefore(p, q) ==
    \/ p.typ = "folder" /\ q.typ = "video"
    \/ p.typ = q.typ /\ PathLess(p.path, q.path)

\* Without a positive limit there is no LIMIT clause, likewise OFFSET
Children(t, o, limit, offset) ==
    LET rows   == ChildRows(t, o)
        Pos(q) == Cardinality({p \in rows : SortsBefore(p, q)})
    IN [Items        |-> {q \in rows : /\ offset > 0 => Pos(q) >= offset
                                       /\ limit > 0 => Pos(q) < limit + (IF offset > 0 THEN offset ELSE 0)},
        TotalMatches |-> Cardinality(rows)]

\* Mutant: the row of the only root is not taken for the object 0
ParentId_NoSingleRoot(t, o) ==
    IF o.id <= 0 THEN {-1}
    ELSE IF ~SingleRoot /\ o.path \in Roots THEN {0}
    ELSE {p.id : p \in {q \in StatusPublic(t) : q.path = Parent(o.path)}}

\* Mutant: the roots of several are looked up like any other folder
ParentId_NoMultiRoot(t, o) ==
    IF o.id <= 0 THEN {-1}
    ELSE {IF SingleRoot /\ p.path \in Roots THEN 0 ELSE p.id :
             p \in {q \in StatusPublic(t) : q.path = Parent(o.path)}}

\* The empty set is an error
ParentId(t, o) ==
    IF o.id <= 0 THEN {-1}
    ELSE IF ~SingleRoot /\ o.path \in Roots THEN {0}
    ELSE {IF SingleRoot /\ p.path \in Roots THEN 0 ELSE p.id :
             p \in {q \in StatusPublic(t) : q.path = Parent(o.path)}}

-----------------------------------------------------------------------------
(* The two forms of Browse, for the object o that Object has found *)

BrowseDirectChildren(t, o, count, start) ==
    LET c == Children(t, o, count, start)
    IN [Result       |-> {[ID |-> q.id, ParentID |-> o.id] : q \in c.Items},
        TotalMatches |-> c.TotalMatches]

BrowseMetadata(t, o) ==
    [Result       |-> {[ID |-> o.id, ParentID |-> p] : p \in ParentId(t, o)},
     TotalMatches |-> 1]

-----------------------------------------------------------------------------
(* Properties *)

\* The folders a client opens on its way from object 0 to the path p
OnTheWay(p) ==
    {q \in Folders : /\ Under(p, q)
                     /\ \E r \in Roots : Under(q, r) \/ (q = r /\ ~SingleRoot)}

\* The objects a client can come to from object 0, one folder at a time
Reachable ==
    {VideoRoot} \cup
    {o \in StatusPublic(objects) :
        /\ \E r \in Roots : Under(o.path, r) \/ (o.path = r /\ ~SingleRoot)
        /\ \A q \in OnTheWay(o.path) : \E f \in StatusPublic(objects) : f.path = q}

\* The way up is the way down (Children, ParentId): whatever the watcher did to
\* the table, every object a client finds in a folder names that folder as its
\* parent when it is asked for its metadata, on every page.  The two answers
\* come from different queries, and a single root has two names, 0 and its row.
\* A root whose row is missing (its index_add failed) is excepted.
ParentsAgree ==
    (\A r \in Roots : \E f \in StatusPublic(objects) : f.path = r) =>
       \A o \in Reachable, count \in 0 .. 1 :
          LET page == BrowseDirectChildren(objects, o, count, count)
          IN \A q \in ChildRows(objects, o) :
                LET seen == {x \in page.Result : x.ID = q.id}
                IN seen # {} => BrowseMetadata(objects, q).Result = seen

=============================================================================

------------------------------ MODULE Objects ------------------------------
(***************************************************************************)
(* The PostgreSQL table `objects` of scripts/schema.psql.sql and what the  *)
(* statements of dlna/backend/db_driver_postgres.go do to it.  A table is  *)
(* a set of rows; every statement is an operator from the table before to  *)
(* the table after, because PostgreSQL runs each one in a transaction of   *)
(* its own.                                                                *)
(*                                                                         *)
(* `reindex_at` is NULL, a time still ahead ("gap") or a time that has     *)
(* come ("due").  All the columns ffprobe fills are one value, `info`: the *)
(* version of the file they describe, 0 for the defaults.                  *)
(***************************************************************************)
EXTENDS Paths, FiniteSets

ReindexAt == {"null", "gap", "due"}

Row == [id         : Nat \ {0},
        path       : Path,
        typ        : {"folder", "video"},
        online     : BOOLEAN,
        reindex_at : ReindexAt,
        info       : Nat]

-----------------------------------------------------------------------------
(* What GetObjects selects by the status of the filter *)

StatusPublic(t)  == {o \in t : o.reindex_at = "null"}
StatusDirty(t)   == {o \in t : o.reindex_at # "null"}
StatusReindex(t) == {o \in t : o.reindex_at = "due"}

\* ORDER BY id LIMIT limit: the rows of s that fewer than limit rows precede
FirstById(s, limit) ==
    {o \in s : Cardinality({q \in s : q.id < o.id}) < limit}

-----------------------------------------------------------------------------
(* The statements that change the table *)

\* Mutant: the conflict clause forgets `online`
Upserted_KeepsOnline(o, is_dir) ==
    [o EXCEPT !.typ        = IF is_dir THEN "folder" ELSE "video",
              !.reindex_at = IF is_dir THEN "null" ELSE "gap"]

\* The row index_add leaves for path p: a video is dirty and gets the ten
\* second gap, a folder is public at once.  On a conflict the four columns
\* are overwritten and the row keeps its id and its video columns.
Upserted(o, is_dir) ==
    [o EXCEPT !.typ        = IF is_dir THEN "folder" ELSE "video",
              !.online     = TRUE,
              !.reindex_at = IF is_dir THEN "null" ELSE "gap"]

\* `next` is the value the BIGSERIAL hands out
index_add(t, next, is_dir, p) ==
    IF \E o \in t : o.path = p
    THEN {IF o.path = p THEN Upserted(o, is_dir) ELSE o : o \in t}
    ELSE t \cup {Upserted([id |-> next, path |-> p, typ |-> "folder", online |-> TRUE,
                           reindex_at |-> "null", info |-> 0], is_dir)}

index_delete(t, is_dir, p) ==
    {o \in t : ~(o.path = p \/ (is_dir /\ Under(o.path, p)))}

\* The path a row has after both UPDATEs of index_rename
Renamed(p, is_dir, old, new) ==
    IF p = old \/ (is_dir /\ Under(p, old)) THEN Relocate(p, old, new) ELSE p

\* Some row that does not move already holds the path of a row that does:
\* the UNIQUE constraint on path aborts the whole call
RenameConflicts(t, is_dir, old, new) ==
    \E o, q \in t : /\ o.path # q.path
                    /\ Renamed(o.path, is_dir, old, new) = Renamed(q.path, is_dir, old, new)

index_rename(t, is_dir, old, new) ==
    IF RenameConflicts(t, is_dir, old, new)
    THEN t
    ELSE {[o EXCEPT !.path = Renamed(o.path, is_dir, old, new)] : o \in t}

AllObjectsToOffline(t) == {[o EXCEPT !.online = FALSE] : o \in t}

DeleteOfflineObjects(t) == {o \in t : o.online}

\* UpdateObject as the reindexer calls it: video columns set, reindex_at
\* cleared, the row found by id and by nothing else
UpdateObject(t, id, info) ==
    {IF o.id = id THEN [o EXCEPT !.info = info, !.reindex_at = "null"] ELSE o : o \in t}

=============================================================================

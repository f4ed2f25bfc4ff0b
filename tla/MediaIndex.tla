------------------------------ MODULE MediaIndex ------------------------------
(***************************************************************************)
(* The `videos` table of the media index (index/store.rs) and the          *)
(* statements that library maintenance runs on it.  Each operator takes    *)
(* the table and returns the table the statement leaves behind.            *)
(*                                                                         *)
(* A path inside a library is the sequence of its component names, the     *)
(* library root being <<>>.  A row carries the columns maintenance tells   *)
(* apart: the library, the parent directory, the video found there (its    *)
(* file name and `facts`, everything build_record read about it, as one    *)
(* value) and the generation that stamped it.                              *)
(***************************************************************************)
EXTENDS Integers, Sequences, SequencesExt

CONSTANTS
  Name,       \* directory names
  VideoName,  \* file names of master videos
  Facts,      \* what a scan reads about a video: stat, sidecars, info.json
  CaseFold    \* [Name -> Name], SQLite's ASCII case folding inside LIKE

ASSUME CaseFoldAssumption == CaseFold \in [Name -> Name]

Video == [name : VideoName, facts : Facts]

\* One directory listing never holds two videos of the same file name.
Listing == {S \in SUBSET Video : \A v, w \in S : v.name = w.name => v = w}

(* `parent LIKE '<dir>/%'`: LIKE folds ASCII case, and no relative path
   begins with '/', so the pattern of the empty path matches nothing. *)
LikeAbove(parent, dir) ==  \* mutant: the operands swapped
  /\ parent # <<>>
  /\ Len(dir) > Len(parent)
  /\ \A i \in 1..Len(parent) : CaseFold[parent[i]] = CaseFold[dir[i]]

LikeBeneath(parent, dir) ==
  /\ dir # <<>>
  /\ Len(parent) > Len(dir)
  /\ \A i \in 1..Len(dir) : CaseFold[parent[i]] = CaseFold[dir[i]]

RowFor(lib, parent, video, generation) ==
  [lib |-> lib, parent |-> parent, video |-> video, last_seen |-> generation]

\* UNIQUE (library, rel_path).
SameVideo(r, s) ==
  r.lib = s.lib /\ r.parent = s.parent /\ r.video.name = s.video.name

\* UPSERT_SQL for each record: ON CONFLICT (library, rel_path) DO UPDATE.
InsertOnly(rows, lib, parent, records, generation) ==  \* mutant: no ON CONFLICT
  rows \cup {RowFor(lib, parent, v, generation) : v \in records}

RestampNothing(rows, lib, parent, records, generation) ==  \* mutant: last_seen kept
  LET Old(v) == {r \in rows : SameVideo(r, RowFor(lib, parent, v, generation))}
  IN  {r \in rows : ~ \E v \in records : r \in Old(v)}
        \cup {IF Old(v) = {} THEN RowFor(lib, parent, v, generation)
              ELSE [CHOOSE r \in Old(v) : TRUE EXCEPT !.video = v] : v \in records}

Upsert(rows, lib, parent, records, generation) ==
  {r \in rows : ~ \E v \in records : /\ r.lib = lib
                                     /\ r.parent = parent
                                     /\ r.video.name = v.name}
    \cup {RowFor(lib, parent, v, generation) : v \in records}

\* Index::reconcile_directory, one transaction: upsert what was read, then
\* delete this directory's rows for files that were not.
ReconcileDirectory(rows, lib, parent, records, generation) ==
  {r \in Upsert(rows, lib, parent, records, generation) :
     r.lib = lib /\ r.parent = parent =>
       \E v \in records : r.video.name = v.name}

\* Index::remove_unseen, the sweep that ends the scan of a library.
SweepSeen(rows, lib, generation) ==  \* mutant: last_seen <= generation
  {r \in rows : ~ (r.lib = lib /\ r.last_seen <= generation)}

RemoveUnseen(rows, lib, generation) ==
  {r \in rows : ~ (r.lib = lib /\ r.last_seen < generation)}

\* Index::remove_tree, for a directory that vanished.
RemoveDirectoryOnly(rows, lib, dir) ==  \* mutant: nothing beneath it
  {r \in rows : ~ (r.lib = lib /\ r.parent = dir)}

RemoveTree(rows, lib, dir) ==
  {r \in rows : ~ (/\ r.lib = lib
                   /\ r.parent = dir \/ LikeBeneath(r.parent, dir))}

\* The rows of one directory, and the videos they list.
RowsIn(rows, lib, parent) == {r \in rows : r.lib = lib /\ r.parent = parent}
VideosIn(rows, lib, parent) == {r.video : r \in RowsIn(rows, lib, parent)}
===============================================================================

------------------------------ MODULE Maintenance -----------------------------
(***************************************************************************)
(* Index maintenance: the task spawned by index/watch.rs that scans every  *)
(* library once and then keeps the index current from filesystem events,   *)
(* running beside a filesystem that changes under it at any moment.        *)
(*                                                                         *)
(* Every await that separates what the task read on disk from what it      *)
(* writes to the index is a step boundary here, and so is every system     *)
(* call of a reading: a directory is listed, its videos are stat-ed and    *)
(* their sidecars read one by one, and what was found is reconciled in a   *)
(* later step; dirty candidates are stat-ed one by one, and a subtree is   *)
(* walked before its directories are read.                                 *)
(*                                                                         *)
(* Absolute paths are sequences of names.  A configured library is its     *)
(* position in Roots, the canonical roots in configuration order.          *)
(***************************************************************************)
EXTENDS MediaIndex

CONSTANTS
  Dir,              \* the absolute directory paths that may exist
  Roots,            \* the library roots, in configuration order
  PartNames,        \* the directory names that end in ".part"
  MaxChanges,       \* bound: how often the filesystem may change
  MaxGeneration,    \* bound: how many scans (process starts) may happen
  PathReuse,        \* may the path of a tree moved away be taken again while
                    \*   its event still waits to be classified?
  RootsMayVanish,   \* may a library root be moved away?
  DbMayFail,        \* may a database call return an error?
  ReadMayFail,      \* may reading an existing directory or file fail?
  JunkGeneration    \* may the stored scan generation be unparseable at boot?

Parent(d) == SubSeq(d, 1, Len(d) - 1)

ASSUME PathAssumption ==
  /\ Dir \subseteq Seq(Name)
  /\ Roots \in Seq(Dir)
  /\ \A l \in DOMAIN Roots : Roots[l] # <<>>
  /\ \A d \in Dir, l \in DOMAIN Roots :
       IsPrefix(Roots[l], d) /\ d # Roots[l] => Parent(d) \in Dir
  /\ PartNames \subseteq Name
ASSUME BoundAssumption == MaxChanges \in Nat /\ MaxGeneration \in Nat
ASSUME SwitchAssumption ==
  {PathReuse, RootsMayVanish, DbMayFail, ReadMayFail, JunkGeneration}
    \subseteq BOOLEAN

Library == DOMAIN Roots

\* relative_of, for a directory beneath the library's root.
RelativeOf(d, lib) == SubSeq(d, Len(Roots[lib]) + 1, Len(d))

\* Every directory in `of` at or beneath d (a walk that follows no links).
Subtree(d, of) == {e \in of : IsPrefix(d, e)}

\* A dirty candidate or a unit of work: a directory of a library.
Key == {k \in [lib : Library, dir : Dir] : IsPrefix(Roots[k.lib], k.dir)}

VARIABLES
  dirs,        \* filesystem: the directories that exist
  disk,        \* filesystem: the videos directly inside each directory
  movedAway,   \* history: paths at which a whole tree was moved away
  changes,     \* history: how often the filesystem has changed
  queue,       \* watcher: the events delivered and not yet received
  rows,        \* index: the videos table
  generation,  \* index: meta.scan_generation
  pc,          \* where the maintenance task is
  lib,         \* scan_all: the library being scanned
  todo,        \* directories walked and still to be read
  at,          \* collect_directory: the directory being read, ...
  unread,      \*   ... the listed videos not yet looked at,
  entry,       \*   ... the video stat-ed whose sidecars are still to be read,
  listing,     \*   ... and the records built, until they are reconciled
  pending,     \* Debounce.pending
  dirty,       \* flush: candidates not yet stat-ed
  vanished,    \* flush: candidates that are not directories
  live,        \* flush: candidates that are directories
  healthy      \* last_scan_completed # 0

fsVars == <<dirs, disk, movedAway, changes>>
indexVars == <<rows, generation>>
workVars == <<todo, at, unread, entry, listing>>
readVars == <<at, unread, entry, listing>>
flushVars == <<dirty, vanished, live>>
vars == <<dirs, disk, movedAway, changes, queue, rows, generation, pc, lib,
          todo, at, unread, entry, listing, pending, dirty, vanished, live,
          healthy>>

-------------------------------------------------------------------------------
(* Events.  notify reports the path that changed; for a file that path is
   never a directory, so of its two candidates only the parent matters. *)

Event == [kind : {"file", "dir"}, dir : Dir]

InDirectory(d) == [kind |-> "file", dir |-> d]  \* a file directly inside d
OnDirectory(d) == [kind |-> "dir", dir |-> d]   \* the directory d itself

\* The library a path is mapped to: the first root it lies beneath.
FirstRoot(d) ==
  CHOOSE l \in Library :
    /\ IsPrefix(Roots[l], d)
    /\ \A m \in Library : IsPrefix(Roots[m], d) => l <= m

Watched(d) == \E l \in Library : IsPrefix(Roots[l], d)

HasPartExtension(d) == d # <<>> /\ Last(d) \in PartNames

ParentOnly(event) ==  \* mutant: a path is never a candidate itself
  IF event.kind = "file" THEN {event.dir} ELSE {Parent(event.dir)}

PathOnly(event) ==  \* mutant: the parent of a path is not a candidate
  IF event.kind = "file" THEN {} ELSE {event.dir}

Candidates(event) ==
  IF event.kind = "file" THEN {event.dir}
  ELSE IF HasPartExtension(event.dir) THEN {}
  ELSE {event.dir, Parent(event.dir)}

DirtyDirectories(event) ==
  {[lib |-> FirstRoot(d), dir |-> d] : d \in {c \in Candidates(event) : Watched(c)}}

\* The candidates the task has been told of and has not stat-ed yet.
Signalled == pending \cup dirty \cup UNION {DirtyDirectories(e) : e \in queue}

-------------------------------------------------------------------------------
TypeOK ==
  /\ dirs \subseteq Dir
  /\ disk \in [Dir -> Listing]
  /\ movedAway \subseteq Dir
  /\ changes \in 0..MaxChanges
  /\ queue \subseteq Event
  /\ rows \subseteq [lib : Library, parent : Seq(Name), video : Video,
                     last_seen : 0..MaxGeneration]
  /\ \A r, s \in rows : SameVideo(r, s) => r = s
  /\ generation \in 0..MaxGeneration
  /\ pc \in {"down", "boot", "walk", "scan", "scanDir", "mark", "probe",
             "idle", "classify", "remove", "walkLive", "flush", "flushDir"}
  /\ lib \in Nat \ {0}
  /\ pc \in {"scan", "scanDir"} => lib \in Library
  /\ todo \subseteq Key
  /\ pc \in {"scanDir", "flushDir"} =>
       /\ at \in Key
       /\ listing \cup entry \in Listing
       /\ \A v \in entry : entry = {v} /\ \A w \in listing : v.name # w.name
       /\ \A v \in listing \cup entry : v.name \notin unread
  /\ unread \subseteq VideoName
  /\ pending \subseteq Key
  /\ dirty \subseteq Key
  /\ vanished \subseteq Key
  /\ live \subseteq Key
  /\ healthy \in BOOLEAN

Init ==
  /\ dirs \in SUBSET Dir
  /\ \A l \in Library : Roots[l] \in dirs
  /\ \A d \in dirs, e \in Dir : IsPrefix(e, d) => e \in dirs
  /\ disk \in [Dir -> Listing]
  /\ \A d \in Dir \ dirs : disk[d] = {}
  /\ movedAway = {}
  /\ changes = 0
  /\ queue = {}
  /\ rows = {}
  /\ generation = 0
  /\ pc = "down"
  /\ lib = 1
  /\ todo = {}
  /\ at = <<>>
  /\ unread = {}
  /\ entry = {}
  /\ listing = {}
  /\ pending = {}
  /\ dirty = {}
  /\ vanished = {}
  /\ live = {}
  /\ healthy = FALSE
-------------------------------------------------------------------------------
(* The filesystem.  Anyone may change it at any moment; while the task runs
   the watchers are registered and each change is delivered as an event. *)

NotifyAfterScan(events) ==  \* mutant: watchers registered after the scan
  queue' = IF pc \in {"idle", "classify", "remove", "walkLive", "flush", "flushDir"}
           THEN queue \cup events ELSE queue

Notify(events) == queue' = IF pc = "down" THEN queue ELSE queue \cup events

Change ==
  /\ changes < MaxChanges
  /\ changes' = changes + 1
  /\ UNCHANGED <<rows, generation, pc, lib, todo, at, unread, entry, listing,
                 pending, dirty, vanished, live, healthy>>

\* A tree moved away has left its path for good, as far as the task can tell,
\* once the path has been stat-ed.
MayTake(d) ==
  d \in movedAway /\ ~ PathReuse =>
    \A s \in Signalled : s.dir # d

\* A video appears, is overwritten, or has one of its sidecars changed.
PutVideo(d, v) ==
  /\ Change
  /\ d \in dirs
  /\ v \notin disk[d]
  /\ disk' = [disk EXCEPT ![d] = {w \in @ : w.name # v.name} \cup {v}]
  /\ Notify({InDirectory(d)})
  /\ UNCHANGED <<dirs, movedAway>>

DeleteVideo(d, v) ==
  /\ Change
  /\ v \in disk[d]
  /\ disk' = [disk EXCEPT ![d] = @ \ {v}]
  /\ Notify({InDirectory(d)})
  /\ UNCHANGED <<dirs, movedAway>>

MakeDirectory(d) ==
  /\ Change
  /\ d \in Dir \ dirs
  /\ Parent(d) \in dirs
  /\ MayTake(d)
  /\ dirs' = dirs \cup {d}
  /\ Notify({OnDirectory(d)})
  /\ UNCHANGED <<disk, movedAway>>

RemoveDirectory(d) ==
  /\ Change
  /\ \A l \in Library : d # Roots[l]
  /\ Subtree(d, dirs) = {d}
  /\ disk[d] = {}
  /\ dirs' = dirs \ {d}
  /\ Notify({OnDirectory(d)})
  /\ UNCHANGED <<disk, movedAway>>

\* One rename takes a whole tree out of sight; only its top is reported.
MoveTreeAway(d) ==
  /\ Change
  /\ d \in dirs
  /\ (\E l \in Library : IsPrefix(d, Roots[l])) => RootsMayVanish
  /\ dirs' = dirs \ Subtree(d, dirs)
  /\ disk' = [e \in Dir |-> IF IsPrefix(d, e) THEN {} ELSE disk[e]]
  /\ movedAway' = movedAway \cup {d}
  /\ Notify({OnDirectory(d)})

\* One rename brings a whole tree in; only its top is reported.
MoveTreeIn(d, tree, contents) ==
  /\ Change
  /\ d \in tree \ dirs
  /\ Parent(d) \in dirs
  /\ \A e \in tree, f \in Subtree(d, Dir) : IsPrefix(f, e) => f \in tree
  /\ \A e \in tree : MayTake(e)
  /\ dirs' = dirs \cup tree
  /\ disk' = [e \in Dir |-> IF e \in tree THEN contents[e] ELSE disk[e]]
  /\ Notify({OnDirectory(d)})
  /\ UNCHANGED movedAway

Filesystem ==
  \/ \E d \in Dir : \/ \E v \in Video : PutVideo(d, v) \/ DeleteVideo(d, v)
                   \/ MakeDirectory(d)
                   \/ RemoveDirectory(d)
                   \/ MoveTreeAway(d)
  \/ \E d \in Dir : \E tree \in SUBSET Subtree(d, Dir) :
       \E contents \in [tree -> Listing] : MoveTreeIn(d, tree, contents)

-------------------------------------------------------------------------------
(* Process life.  Whatever the task held in memory dies with it; the index
   survives.  Events are only delivered while the watchers are registered. *)

\* What a reading has gathered goes with it.
DropReading == at' = <<>> /\ unread' = {} /\ entry' = {} /\ listing' = {}

Start ==
  /\ pc = "down"
  /\ generation < MaxGeneration
  /\ pc' = "boot"
  /\ UNCHANGED <<fsVars, queue, indexVars, lib, workVars, pending, flushVars,
                 healthy>>

Crash ==
  /\ pc # "down"
  /\ pc' = "down"
  /\ queue' = {}
  /\ pending' = {}
  /\ dirty' = {}
  /\ vanished' = {}
  /\ live' = {}
  /\ todo' = {}
  /\ DropReading
  /\ healthy' = FALSE
  /\ UNCHANGED <<fsVars, indexVars, lib>>

\* The stored counter turns out to be junk, which reads as zero.
CorruptGeneration ==
  /\ JunkGeneration
  /\ pc = "down"
  /\ generation # 0
  /\ generation' = 0
  /\ UNCHANGED <<fsVars, queue, rows, pc, lib, workVars, pending, flushVars,
                 healthy>>

-------------------------------------------------------------------------------
(* The initial scan. *)

\* What walking the tree at d can return: unreadable directories are skipped
\* with everything beneath them.
Walks(d) ==
  {Subtree(d, dirs)} \cup
    {Subtree(d, dirs) \ (Subtree(u, dirs) \ {u}) :
       u \in IF ReadMayFail THEN dirs ELSE {}}

\* scan_all gave up; initial_scan logs the error and run carries on.
AbortScanHealthy ==  \* mutant: the timestamp is stored whatever came of it
  /\ pc' = "probe"
  /\ todo' = {}
  /\ healthy' = TRUE
  /\ DropReading
  /\ UNCHANGED <<fsVars, queue, indexVars, lib, pending, flushVars>>

AbortScan ==
  /\ pc' = "probe"
  /\ todo' = {}
  /\ DropReading
  /\ UNCHANGED <<fsVars, queue, indexVars, lib, pending, flushVars, healthy>>

\* scan_all: Index::next_generation.
BeginScanUnstamped ==  \* mutant: the generation is not advanced
  /\ pc = "boot"
  /\ lib' = 1
  /\ pc' = IF Library = {} THEN "mark" ELSE "walk"
  /\ UNCHANGED <<fsVars, queue, indexVars, workVars, pending, flushVars, healthy>>

BeginScan ==
  /\ pc = "boot"
  /\ generation' = generation + 1
  /\ lib' = 1
  /\ pc' = IF Library = {} THEN "mark" ELSE "walk"
  /\ UNCHANGED <<fsVars, queue, rows, workVars, pending, flushVars, healthy>>

\* scan_library: canonicalize the root and walk it.
WalkLibrary ==
  /\ pc = "walk"
  /\ Roots[lib] \in dirs
  /\ \E walk \in Walks(Roots[lib]) :
       todo' = {[lib |-> lib, dir |-> d] : d \in walk}
  /\ pc' = "scan"
  /\ UNCHANGED <<fsVars, queue, indexVars, lib, readVars, pending,
                 flushVars, healthy>>

RootUnresolved == pc = "walk" /\ Roots[lib] \notin dirs /\ AbortScan

\* Where collect_directory is: k's videos are listed, nothing is read yet; an
\* unreadable directory reads as empty.
OpenDirectory(k) ==
  /\ at' = k
  /\ \/ unread' = {v.name : v \in disk[k.dir]}
     \/ ReadMayFail /\ unread' = {}
  /\ entry' = {}
  /\ listing' = {}

\* scan_library: collect_directory of one directory of the walk begins.
ScanRead ==
  /\ pc = "scan"
  /\ \E k \in todo : OpenDirectory(k) /\ todo' = todo \ {k}
  /\ pc' = "scanDir"
  /\ UNCHANGED <<fsVars, queue, indexVars, lib, pending, flushVars, healthy>>

Reading == pc \in {"scanDir", "flushDir"}

HasRead == unread = {} /\ entry = {}

\* build_record up to its metadata() call: a video gone by now is dropped.
StatEntry ==
  /\ Reading
  /\ entry = {}
  /\ \E n \in unread :
       /\ unread' = unread \ {n}
       /\ \/ entry' = {v \in disk[at.dir] : v.name = n}
          \/ ReadMayFail /\ entry' = {}
  /\ UNCHANGED <<fsVars, queue, indexVars, pc, lib, todo, at, listing, pending,
                 flushVars, healthy>>

\* ... and the rest of it, the sidecars.  Of a video that is no longer what it
\* was when it was stat-ed, or whose sidecars cannot be read, the record may
\* be a mixture: any facts at all.
BuildRecord ==
  /\ Reading
  /\ \E v \in entry, facts \in Facts :
       /\ entry \subseteq disk[at.dir] /\ ~ ReadMayFail => facts = v.facts
       /\ listing' = listing \cup {[v EXCEPT !.facts = facts]}
  /\ entry' = {}
  /\ UNCHANGED <<fsVars, queue, indexVars, pc, lib, todo, at, unread, pending,
                 flushVars, healthy>>

\* The table once what was read has been reconciled ...
Reconciled ==
  ReconcileDirectory(rows, at.lib, RelativeOf(at.dir, at.lib), listing, generation)

\* ... and its reconcile, once every listed video has been looked at.
ScanWrite ==
  /\ pc = "scanDir"
  /\ HasRead
  /\ rows' = Reconciled
  /\ pc' = "scan"
  /\ DropReading
  /\ UNCHANGED <<fsVars, queue, generation, lib, todo, pending, flushVars,
                 healthy>>

\* scan_library: Index::remove_unseen once every directory is reconciled.
Sweep ==
  /\ pc = "scan"
  /\ todo = {}
  /\ rows' = RemoveUnseen(rows, lib, generation)
  /\ lib' = lib + 1
  /\ pc' = IF lib + 1 \in Library THEN "walk" ELSE "mark"
  /\ UNCHANGED <<fsVars, queue, generation, workVars, pending, flushVars,
                 healthy>>

\* scan_all: Index::mark_scan_complete; initial_scan: the health timestamp.
MarkScanComplete ==
  /\ pc = "mark"
  /\ healthy' = TRUE
  /\ pc' = "probe"
  /\ UNCHANGED <<fsVars, queue, indexVars, lib, workVars, pending, flushVars>>

\* Any database call of the scan fails: `?` ends scan_all there.
ScanDbError ==
  /\ DbMayFail
  /\ \/ pc \in {"boot", "mark"}
     \/ pc = "scan" /\ todo = {}
     \/ pc = "scanDir" /\ HasRead
  /\ AbortScan

\* probe_if_available, then worker_wake.notify_one(): neither touches what
\* this module holds (they are the Derivation module's).
ProbeAndWake ==
  /\ pc = "probe"
  /\ pc' = "idle"
  /\ UNCHANGED <<fsVars, queue, indexVars, lib, workVars, pending, flushVars,
                 healthy>>
-------------------------------------------------------------------------------
(* The event loop of run, and flush. *)

\* Receive one event: dirty_directories, then Debounce::record for each.
ReceiveEvent ==
  /\ pc = "idle"
  /\ \E event \in queue :
       /\ queue' = queue \ {event}
       /\ pending' = pending \cup DirtyDirectories(event)
  /\ UNCHANGED <<fsVars, indexVars, pc, lib, workVars, flushVars, healthy>>

\* The quiet period is over: Debounce::take hands everything over.  Time is
\* not modelled, so this may happen whenever something is pending; select!
\* gives neither branch priority when an event is ready as well.
BeginFlush ==
  /\ pc = "idle"
  /\ pending # {}
  /\ dirty' = pending
  /\ pending' = {}
  /\ pc' = "classify"
  /\ UNCHANGED <<fsVars, queue, indexVars, lib, workVars, vanished, live,
                 healthy>>

\* current_generation fails: the flush is skipped, what was taken is gone.
SkipFlush ==
  /\ DbMayFail
  /\ pc = "idle"
  /\ pending # {}
  /\ pending' = {}
  /\ pc' = "probe"
  /\ UNCHANGED <<fsVars, queue, indexVars, lib, workVars, flushVars, healthy>>

\* flush: `partition(is_dir)`, one stat at a time.
Classify ==
  /\ pc = "classify"
  /\ \E k \in dirty :
       /\ dirty' = dirty \ {k}
       /\ \/ /\ k.dir \in dirs
             /\ live' = live \cup {k}
             /\ UNCHANGED vanished
          \/ /\ k.dir \notin dirs
             /\ vanished' = vanished \cup {k}
             /\ UNCHANGED live
  /\ UNCHANGED <<fsVars, queue, indexVars, pc, lib, workVars, pending, healthy>>

\* prune_nested: drop what lies beneath another candidate of its library.
PruneAll(candidates) ==  \* mutant: a candidate counts as beneath itself
  {k \in candidates : ~ \E c \in candidates : c.lib = k.lib /\ IsPrefix(c.dir, k.dir)}

PruneNested(candidates) ==
  {k \in candidates : ~ \E c \in candidates : /\ c.lib = k.lib
                                             /\ c # k
                                             /\ IsPrefix(c.dir, k.dir)}

PruneVanishedUnderLive ==  \* mutant: a live ancestor stands in for a vanished one
  /\ pc = "classify"
  /\ dirty = {}
  /\ vanished' = PruneNested(vanished \cup live) \cap vanished
  /\ pc' = "remove"
  /\ UNCHANGED <<fsVars, queue, indexVars, lib, workVars, pending, dirty, live,
                 healthy>>

PruneVanished ==
  /\ pc = "classify"
  /\ dirty = {}
  /\ vanished' = PruneNested(vanished)
  /\ pc' = "remove"
  /\ UNCHANGED <<fsVars, queue, indexVars, lib, workVars, pending, dirty, live,
                 healthy>>

\* remove_vanished; a database error is logged and the flush moves on.
RemoveVanished ==
  /\ pc = "remove"
  /\ \E k \in vanished :
       /\ vanished' = vanished \ {k}
       /\ \/ rows' = RemoveTree(rows, k.lib, RelativeOf(k.dir, k.lib))
          \/ DbMayFail /\ rows' = rows
  /\ UNCHANGED <<fsVars, queue, generation, pc, lib, workVars, pending, dirty,
                 live, healthy>>

PruneLive ==
  /\ pc = "remove"
  /\ vanished = {}
  /\ live' = PruneNested(live)
  /\ pc' = "walkLive"
  /\ UNCHANGED <<fsVars, queue, indexVars, lib, workVars, pending, dirty,
                 vanished, healthy>>

\* reconcile_live: walk_dirs over one surviving candidate's subtree.
WalkLive ==
  /\ pc = "walkLive"
  /\ \E k \in live :
       /\ live' = live \ {k}
       /\ \E walk \in Walks(k.dir) :
            todo' = {[lib |-> k.lib, dir |-> d] : d \in walk}
  /\ pc' = "flush"
  /\ UNCHANGED <<fsVars, queue, indexVars, lib, readVars, pending, dirty,
                 vanished, healthy>>

\* scan::reconcile_directory: resolve the root, begin collect_directory.
FlushReadRetries ==  \* mutant: an unresolved root leaves the directory in the list
  /\ pc = "flush"
  /\ \E k \in todo :
       /\ Roots[k.lib] \in dirs
       /\ todo' = todo \ {k}
       /\ OpenDirectory(k)
       /\ pc' = "flushDir"
  /\ UNCHANGED <<fsVars, queue, indexVars, lib, pending, flushVars, healthy>>

FlushRead ==
  /\ pc = "flush"
  /\ \E k \in todo :
       /\ todo' = todo \ {k}
       /\ \/ /\ Roots[k.lib] \in dirs
             /\ OpenDirectory(k)
             /\ pc' = "flushDir"
          \/ /\ Roots[k.lib] \notin dirs
             /\ UNCHANGED <<readVars, pc>>
  /\ UNCHANGED <<fsVars, queue, indexVars, lib, pending, flushVars, healthy>>

\* ... and the reconcile after it; an error is logged and the flush moves on.
FlushWrite ==
  /\ pc = "flushDir"
  /\ HasRead
  /\ \/ rows' = Reconciled
     \/ DbMayFail /\ rows' = rows
  /\ pc' = "flush"
  /\ DropReading
  /\ UNCHANGED <<fsVars, queue, generation, lib, todo, pending, flushVars,
                 healthy>>

SubtreeDone ==
  /\ pc = "flush"
  /\ todo = {}
  /\ pc' = "walkLive"
  /\ UNCHANGED <<fsVars, queue, indexVars, lib, workVars, pending, flushVars,
                 healthy>>

FlushDone ==
  /\ pc = "walkLive"
  /\ live = {}
  /\ pc' = "probe"
  /\ UNCHANGED <<fsVars, queue, indexVars, lib, workVars, pending, flushVars,
                 healthy>>

Scan == BeginScan \/ WalkLibrary \/ RootUnresolved \/ ScanRead \/ ScanWrite
          \/ Sweep \/ MarkScanComplete \/ ScanDbError \/ ProbeAndWake

EventLoop == ReceiveEvent \/ BeginFlush \/ SkipFlush \/ Classify
               \/ PruneVanished \/ RemoveVanished \/ PruneLive \/ WalkLive
               \/ FlushRead \/ FlushWrite \/ SubtreeDone \/ FlushDone

Task == Scan \/ EventLoop \/ StatEntry \/ BuildRecord

Next == Filesystem \/ Start \/ Crash \/ CorruptGeneration \/ Task

Spec == Init /\ [][Next]_vars

\* The runtime keeps polling a task that is ready; nothing obliges the
\* filesystem to change, the process to die or anyone to start it again.
FairSpec == Spec /\ WF_vars(Task)

-------------------------------------------------------------------------------
(* What maintenance promises. *)

Listed(k) == VideosIn(rows, k.lib, RelativeOf(k.dir, k.lib))

Stale(k) == Listed(k) # disk[k.dir]

\* s is k or an ancestor of k, in the same library.
Above(s, k) == s.lib = k.lib /\ IsPrefix(s.dir, k.dir)

\* The task has nothing left to do and nothing left to be told.
Settled == pc = "idle" /\ queue = {} /\ pending = {}

(* What the promise below needs of the environment and the configuration; the
   violation runs drop one conjunct at a time. *)
Undisturbed ==
  /\ ~ PathReuse
  /\ ~ RootsMayVanish
  /\ ~ DbMayFail
  /\ ~ ReadMayFail
  /\ ~ JunkGeneration
  /\ PartNames = {}
  /\ \A m, n \in Name : CaseFold[m] = CaseFold[n] => m = n
  /\ \A l, m \in Library : IsPrefix(Roots[l], Roots[m]) => l = m

(* Whenever the task has caught up with its events, the index lists exactly
   the videos on disk, directory by directory ("new videos, fresh rips, and
   deletions now show up on their own"). *)
IndexMirrorsDisk == Settled => \A k \in Key : ~ Stale(k)

\* The scan has not walked library l yet.
ScanAhead(l) ==
  \/ pc \in {"down", "boot"}
  \/ pc = "walk" /\ l >= lib
  \/ pc \in {"scan", "scanDir"} /\ l > lib

Scanning(l) == pc \in {"scan", "scanDir"} /\ l = lib

InHand(k) == Reading /\ at = k

\* What the reading in hand comes to if the directory changes no more.
Expected == listing \cup entry \cup {v \in disk[at.dir] : v.name \in unread}

RowsOf(k) == RowsIn(rows, k.lib, RelativeOf(k.dir, k.lib))

(* A waiting event will put directory k right: for a directory that exists,
   any event at or above it; for one that does not, an event that will still
   find its path, or that of the tree it left with, unoccupied. *)
EventFor(k) ==
  \E s \in Signalled :
    /\ Above(s, k)
    /\ k.dir \in dirs \/ (s.dir \notin dirs /\ (s.dir = k.dir \/ s.dir \in movedAway))

\* Work already begun will put directory k right.
WorkFor(k) ==
  \/ ScanAhead(k.lib)
  \/ k \in todo
  \/ InHand(k)
  \/ k.dir \in dirs /\ \E s \in live : Above(s, k)
  \/ k.dir \notin dirs /\ \E s \in vanished : Above(s, k)
  \/ k.dir \notin dirs /\ Scanning(k.lib) /\ \A r \in RowsOf(k) : r.last_seen < generation

(* Nothing falls into a gap: at every moment, in the middle of a scan or a
   flush, each directory the index has wrong has an event waiting or work
   begun that will put it right (watch.rs: "events raced by the scan simply
   queue in the channel and replay afterwards"). *)
NothingFallsIntoAGap == \A k \in Key : Stale(k) => EventFor(k) \/ WorkFor(k)

(* A reading that the disk has outrun, between any two of its system calls or
   before it is written, is not written for good: an event is waiting that will
   have its directory read again. *)
StaleReadIsSignalled ==
  \A k \in Key : InHand(k) /\ Expected # disk[k.dir] => EventFor(k)

-------------------------------------------------------------------------------
(* The inductive invariant behind IndexMirrorsDisk (Maintenance_proofs). *)

\* The filesystem is a tree that holds every root; absent directories are empty.
TreeInv ==
  /\ \A l \in Library : Roots[l] \in dirs
  /\ \A d \in dirs, e \in Dir : IsPrefix(e, d) => e \in dirs
  /\ \A d \in Dir \ dirs : disk[d] = {}

\* Each phase leaves its work lists as the next one expects them.
PhaseInv ==
  /\ pc = "boot" => generation < MaxGeneration
  /\ pc # "classify" => dirty = {}
  /\ pc \notin {"classify", "remove"} => vanished = {}
  /\ pc \notin {"classify", "remove", "walkLive", "flush", "flushDir"} => live = {}
  /\ pc \notin {"scan", "scanDir", "flush", "flushDir"} => todo = {}
  /\ ~ Reading => HasRead
  /\ pc = "walk" => lib \in Library
  /\ pc \in {"scan", "scanDir"} => \A k \in todo : k.lib = lib
  /\ pc = "scanDir" => at.lib = lib
  /\ pc = "mark" => lib = Len(Roots) + 1

\* No row is stamped ahead of its time.
StampInv ==
  \A r \in rows :
    /\ r.last_seen <= generation
    /\ ScanAhead(r.lib) /\ pc \notin {"down", "boot"} => r.last_seen < generation

\* A directory the scan is done with carries the stamp the sweep looks for.
SeenInv ==
  \A k \in Key :
    Scanning(k.lib) /\ k.dir \in dirs =>
      \/ EventFor(k)
      \/ k \in todo
      \/ InHand(k)
      \/ \A r \in RowsOf(k) : r.last_seen = generation

\* A directory that came back after its removal was decided is read again.
ReturnInv ==
  \A s \in vanished :
    /\ s.dir # Roots[s.lib]
    /\ \A k \in Key :
         Above(s, k) /\ k.dir \in dirs =>
           EventFor(k) \/ \E t \in live : Above(t, k)

IInv ==
  /\ TypeOK
  /\ TreeInv
  /\ PhaseInv
  /\ StampInv
  /\ NothingFallsIntoAGap
  /\ StaleReadIsSignalled
  /\ SeenInv
  /\ ReturnInv

-------------------------------------------------------------------------------
(* The health signal is honest: at the moment the initial scan reports itself
   complete, every directory the index has wrong has an event waiting, at the
   directory or above it (initial_scan stores the timestamp on Ok only). *)
HealthAfterFullScan ==
  [][~ healthy /\ healthy' =>
       \A k \in Key : Stale(k)' =>
         \E s \in Signalled' : Above(s, k)]_vars

(* The sweep that ends a library's scan takes the rows of a directory that is
   still there only if an event will bring the directory back: a directory
   that appeared after the walk is swept, but never for good. *)
SweepIsProvisional ==
  [][\A k \in Key :
       /\ Sweep
       /\ k.dir \in dirs
       /\ Listed(k)' # Listed(k)
       => \E s \in Signalled : Above(s, k)]_vars

(* ... and the rows of a directory that is gone never survive it, unless an
   event is waiting that will remove them ("the sweep that removes files (and
   whole directories) that vanished between scans", store.rs). *)
SweepRemovesVanished ==
  [][\A k \in Key :
       /\ Sweep
       /\ k.lib = lib
       /\ k.dir \notin dirs
       /\ ~ EventFor(k)
       => Listed(k)' = {}]_vars

\* The candidates whose trees this step removes from the index.
Removing == IF pc = "remove" /\ pc' = "remove" THEN vanished \ vanished' ELSE {}

(* Removing a vanished directory takes the rows of its whole tree ("every row
   whose parent directory is `dir_rel` or lies anywhere beneath it") ... *)
RemovesWholeTree ==
  [][\A s \in Removing, k \in Key : Above(s, k) => Listed(k)' = {}]_vars

\* k lies beneath s by its path compared as LIKE compares it.
BeneathUpToCase(k, s) ==
  /\ k.lib = s.lib
  /\ Len(s.dir) < Len(k.dir)
  /\ \A i \in 1..Len(s.dir) : CaseFold[s.dir[i]] = CaseFold[k.dir[i]]

(* ... and rows of a directory that is there, because it came back or because
   its path matched, only if something will have it read again: an event, or a
   live candidate of this flush, at it or above it.  The one exception is a
   directory beneath a path that differs from the removed one in case alone. *)
RemovalIsProvisional ==
  [][\A k \in Key :
       /\ pc = "remove"
       /\ k.dir \in dirs
       /\ Listed(k)' # Listed(k)
       => \/ \E s \in Signalled \cup live : Above(s, k)
          \/ \E s \in Removing : BeneathUpToCase(k, s) /\ ~ Above(s, k)]_vars

(* A database error, an unreadable directory or a vanished root never stops
   the task: it always comes back to waiting for events ("one broken
   directory must not stall index maintenance"). *)
NeverStalls == []<>(pc \in {"down", "idle"})

(* Once the process stays up, the index ends up mirroring the disk for good:
   the filesystem changes only finitely often (MaxChanges), so from some point
   on it is quiet and the debounce deadline is no longer pushed out. *)
EventuallyMirrors ==
  <>[](pc # "down") => <>[](\A k \in Key : ~ Stale(k))

-------------------------------------------------------------------------------
(* The abstract specification, Snapshots: the names of the videos that each
   directory holds, that the index lists for it, and that the reading in hand
   has still to look at and has found. *)
Names(videos) == {v.name : v \in videos}

Held == [k \in Key |-> Names(disk[k.dir])]

Shown == [k \in Key |-> Names(Listed(k))]

Hand == IF Reading
        THEN {[of |-> at, unread |-> unread, found |-> Names(listing \cup entry)]}
        ELSE {}

Promise == INSTANCE Snapshots
  WITH Directory <- Key, Misread <- ReadMayFail,
       held <- Held, shown <- Shown, inHand <- Hand

(* Whatever fails or crashes, a directory lists the videos that one reading of
   it found, or none: rows are upserted, stamped, swept and removed one by one,
   but what a reader of the index sees of a directory is replaced as a whole. *)
ListsSnapshots == Promise!Spec
===============================================================================

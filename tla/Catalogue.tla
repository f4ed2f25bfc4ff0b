------------------------------- MODULE Catalogue ------------------------------
(***************************************************************************)
(* The server as its clients see it: the libraries a process was started   *)
(* with, the index database it opens, and the API requests it answers from *)
(* the index while library maintenance rewrites it: GET browse (the        *)
(* listing of a directory, with disc sets), GET item, GET search and POST  *)
(* disc-sets/main, the operator's pick of a main title.                    *)
(*                                                                         *)
(* Maintenance.tla says when directories are read and reconciled.  Here it *)
(* may happen at any time and to any directory: it is listed, its videos   *)
(* are read one by one while the disk changes, and what was read is        *)
(* written, so that an answer is taken from an index that may be behind    *)
(* the disk.                                                               *)
(***************************************************************************)
EXTENDS Records, Configuration

CONSTANTS
  Directory,    \* the directories there may be under a library's path
  Rank,         \* the place of each file name in the order of names
  Setups,       \* what the server may be started with
  Binaries,     \* the SCHEMA_VERSIONs of the binaries it is started from
  InitialDisks, \* what may be on the disk at first
  Requests,     \* what clients ask
  MaxChanges,   \* bound on changes of the disk
  MaxStarts,    \* bound on starts of the server
  MaxCalls,     \* bound on requests under way at a time
  DbMayFail     \* whether a statement may fail

\* What can be in a directory, and what the directories of a path are: all
\* under it, none without its parent.
IsContents(c) ==
  /\ c = [videos |-> c.videos, nfo |-> c.nfo, info |-> c.info]
  /\ DOMAIN c.videos \subseteq VideoName
  /\ \A name \in DOMAIN c.videos : c.videos[name] \in Size
  /\ DOMAIN c.nfo \subseteq Stem
  /\ \A stem \in DOMAIN c.nfo : c.nfo[stem] \in NfoText
  /\ c.info \subseteq Stem

IsTree(directories) ==
  /\ DOMAIN directories \subseteq Directory
  /\ \A dir \in DOMAIN directories :
       /\ dir # <<>> => Front(dir) \in DOMAIN directories
       /\ IsContents(directories[dir])

ASSUME CatalogueAssumption ==
  /\ Directory \subseteq Seq(Name)
  /\ <<>> \in Directory
  /\ \A dir \in Directory : dir # <<>> => Front(dir) \in Directory
  /\ Rank \in [VideoName -> Nat]
  /\ \A setup \in Setups :
       /\ setup.cli = <<>> \/ setup.cli[1] \in LibraryPath
       /\ setup.file \in Seq(Library)
  /\ \A d \in InitialDisks : /\ DOMAIN d = LibraryPath
                             /\ \A path \in LibraryPath : IsTree(d[path])
  /\ MaxChanges \in Nat /\ MaxStarts \in Nat /\ MaxCalls \in Nat
  /\ DbMayFail \in BOOLEAN

VARIABLES
  disk,       \* library path -> directory -> what is in it
  changes,    \* how often the disk has changed
  starts,     \* how often the server was started
  libraries,  \* AppState::libraries of the process, <<>> while none runs
  version,    \* PRAGMA user_version of index.db, 0 when just created
  rows,       \* the videos table
  overrides,  \* the disc_set_overrides table: [library, disc_set] -> path
  reading,    \* <<>>, or the directory the maintenance task is reading
  calls       \* the requests under way and the answers on their way back

tables == <<version, rows, overrides>>
vars == <<disk, changes, starts, libraries, version, rows, overrides, reading,
          calls>>

-------------------------------------------------------------------------------
(***************************************************************************)
(* The disk, changed by other programs.                                    *)
(***************************************************************************)
\* f with value at key, in place of what may be there.
Put(f, key, value) ==
  [k \in DOMAIN f \cup {key} |-> IF k = key THEN value ELSE f[k]]

ExistingPaths == {path \in LibraryPath : <<>> \in DOMAIN disk[path]}

Change(path, directories) ==
  /\ changes < MaxChanges
  /\ disk[path] # directories
  /\ disk' = [disk EXCEPT ![path] = directories]
  /\ changes' = changes + 1
  /\ UNCHANGED <<starts, libraries, tables, reading, calls>>

PutVideo(path, dir, name, size) ==
  /\ dir \in DOMAIN disk[path]
  /\ Change(path, [disk[path] EXCEPT ![dir].videos = Put(@, name, size)])

RemoveVideo(path, dir, name) ==
  /\ dir \in DOMAIN disk[path]
  /\ name \in DOMAIN disk[path][dir].videos
  /\ Change(path, [disk[path] EXCEPT
                     ![dir].videos = Restrict(@, DOMAIN @ \ {name})])

PutNfo(path, dir, stem, text) ==
  /\ dir \in DOMAIN disk[path]
  /\ Change(path, [disk[path] EXCEPT ![dir].nfo = Put(@, stem, text)])

MakeDirectory(path, dir) ==
  /\ dir \notin DOMAIN disk[path]
  /\ dir # <<>> => Front(dir) \in DOMAIN disk[path]
  /\ Change(path, Put(disk[path], dir, NoContents))

RemoveDirectory(path, dir) ==
  /\ dir \in DOMAIN disk[path]
  /\ Change(path, Restrict(disk[path],
                           {d \in DOMAIN disk[path] : ~ IsPrefix(dir, d)}))

DiskChanges ==
  \E path \in LibraryPath, dir \in Directory :
    \/ \E name \in VideoName :
         RemoveVideo(path, dir, name) \/ \E size \in Size :
                                           PutVideo(path, dir, name, size)
    \/ \E stem \in Stem, text \in NfoText : PutNfo(path, dir, stem, text)
    \/ MakeDirectory(path, dir)
    \/ RemoveDirectory(path, dir)

-------------------------------------------------------------------------------
(***************************************************************************)
(* The process.  A start resolves the configuration, then opens the index  *)
(* (Index::open), where schema::initialize drops every table of another    *)
(* version in one transaction.                                             *)
(***************************************************************************)
NoBody == [items |-> {}]
Answer(status, body) == [status |-> status, body |-> body]
Lost == Answer(0, NoBody)  \* Http.NetworkError

TablesRecreated(setup, binary) ==  \* mutant: picks dropped at every start
  /\ libraries = <<>>
  /\ starts < MaxStarts
  /\ libraries' = resolve_libraries(setup, ExistingPaths)
  /\ libraries' # <<>>
  /\ starts' = starts + 1
  /\ version' = binary
  /\ overrides' = <<>>
  /\ IF version = binary THEN UNCHANGED rows ELSE rows' = {}
  /\ UNCHANGED <<disk, changes, reading, calls>>

Start(setup, binary) ==
  /\ libraries = <<>>
  /\ starts < MaxStarts
  /\ libraries' = resolve_libraries(setup, ExistingPaths)
  /\ libraries' # <<>>
  /\ starts' = starts + 1
  /\ version' = binary
  /\ IF version = binary THEN UNCHANGED <<rows, overrides>>
     ELSE rows' = {} /\ overrides' = <<>>
  /\ UNCHANGED <<disk, changes, reading, calls>>

CrashUnnoticed ==  \* mutant: no lost connection is reported
  /\ libraries # <<>>
  /\ libraries' = <<>>
  /\ reading' = <<>>
  /\ UNCHANGED <<disk, changes, starts, tables, calls>>

\* The process ends, and with it the requests it has not answered.
Crash ==
  /\ libraries # <<>>
  /\ libraries' = <<>>
  /\ reading' = <<>>
  /\ calls' = [i \in DOMAIN calls |->
                 IF calls[i].phase = "answered" THEN calls[i]
                 ELSE [calls[i] EXCEPT !.phase = "answered", !.answer = Lost]]
  /\ UNCHANGED <<disk, changes, starts, tables>>

(***************************************************************************)
(* Library maintenance: a directory is collected, video by video, then     *)
(* reconciled; the tree of a directory that is gone may be removed whole.  *)
(***************************************************************************)
ContentsOf(path, dir) ==
  IF dir \in DOMAIN disk[path] THEN disk[path][dir] ELSE NoContents

Reading(next) ==
  /\ reading' = <<next>>
  /\ UNCHANGED <<disk, changes, starts, libraries, tables, calls>>

\* len() == 1
IsAlone(names) == \E name \in names : names = {name}

\* collect_directory: the names of the videos.  The folder's NFO is for a video
\* that is alone among them.
OpenDirectory(i, dir) ==
  LET names == DOMAIN ContentsOf(libraries[i].path, dir).videos
  IN  /\ reading = <<>>
      /\ libraries[i].path \in ExistingPaths
      /\ Reading([library |-> libraries[i], parent |-> dir,
                  allow_folder_nfo |-> IsAlone(names),
                  unread |-> names, entry |-> <<>>, records |-> {}])

\* build_record: the next of them, dropped if it is gone by now.
StatEntry(name) ==
  LET r == reading[1]
      videos == ContentsOf(r.library.path, r.parent).videos
  IN  /\ reading # <<>> /\ r.entry = <<>> /\ name \in r.unread
      /\ Reading([r EXCEPT !.unread = @ \ {name},
                           !.entry = IF name \in DOMAIN videos
                                     THEN << [name |-> name, size |-> videos[name]] >>
                                     ELSE <<>>])

AllowedWhenRead ==  \* mutant: a video alone now, not when it was listed
  LET r == reading[1]
      sidecars == ContentsOf(r.library.path, r.parent)
  IN  /\ reading # <<>> /\ r.entry # <<>>
      /\ Reading([r EXCEPT !.entry = <<>>,
                           !.records = @ \cup {build_record(sidecars,
                             r.entry[1].name, r.entry[1].size, r.library.kind = "Discs",
                             IsAlone(DOMAIN sidecars.videos))}])

\* The sidecars it has at this moment.
BuildRecord ==
  LET r == reading[1]
      sidecars == ContentsOf(r.library.path, r.parent)
  IN  /\ reading # <<>> /\ r.entry # <<>>
      /\ Reading([r EXCEPT !.entry = <<>>,
                           !.records = @ \cup {build_record(sidecars,
                             r.entry[1].name, r.entry[1].size, r.library.kind = "Discs",
                             r.allow_folder_nfo)}])

WriteDirectory ==
  /\ reading # <<>> /\ reading[1].unread = {} /\ reading[1].entry = <<>>
  /\ reading' = <<>>
  /\ \/ rows' = ReconcileDirectory(rows, reading[1].library.name, reading[1].parent,
                                   reading[1].records, 0)
     \/ DbMayFail /\ UNCHANGED rows
  /\ UNCHANGED <<disk, changes, starts, libraries, version, overrides, calls>>

ForgetTree(i, dir) ==
  /\ dir \notin DOMAIN disk[libraries[i].path]
  /\ rows' = RemoveTree(rows, libraries[i].name, dir)
  /\ rows' # rows
  /\ UNCHANGED <<disk, changes, starts, libraries, version, overrides, reading,
                 calls>>

-------------------------------------------------------------------------------
(***************************************************************************)
(* What the index tells: Index::browse_directory and, on top of it, the    *)
(* entries of a listing (routes/browse.rs).                                *)
(***************************************************************************)
PathOf(row) == [parent |-> row.parent, name |-> row.video.name]
DiscSetOf(row) == row.video.facts.disc_set

LastComponents(library, dir) ==  \* mutant: cut before the last component
  {Last(r.parent) :
     r \in {s \in rows : /\ s.lib = library
                         /\ s.parent # dir
                         /\ IsPrefix(dir, s.parent)}}

\* The parents under `<dir>/`, cut after the next component.  LIKE folds case
\* where it narrows them down, strip_prefix does not.
Subdirectories(library, dir) ==
  {r.parent[Len(dir) + 1] :
     r \in {s \in rows : /\ s.lib = library
                         /\ s.parent # dir
                         /\ IsPrefix(dir, s.parent)}}

directory_entries(library, dir) ==
  {[type |-> "directory", path |-> Append(dir, name)] :
     name \in Subdirectories(library, dir)}

\* Disc order: the titles without an index come first.
SortsBefore(r, s) ==
  LET index(t) == t.video.facts.disc_title_index
  IN  \/ index(r) < index(s)
      \/ index(r) = index(s) /\ Rank[r.video.name] < Rank[s.video.name]

First(records) ==
  CHOOSE r \in records : \A s \in records \ {r} : SortsBefore(r, s)

\* max_by_key returns the last of several largest, in the order of names.
Largest(records) ==
  CHOOSE r \in records :
    \A s \in records \ {r} :
      \/ r.video.facts.size > s.video.facts.size
      \/ /\ r.video.facts.size = s.video.facts.size
         /\ Rank[r.video.name] > Rank[s.video.name]

PickOf(library, disc_set) == [library |-> library, disc_set |-> disc_set]

MainOf(library, disc_set, records) ==
  LET key == PickOf(library, disc_set)
      picked == {r \in records : /\ key \in DOMAIN overrides
                                 /\ PathOf(r) = overrides[key]}
  IN  IF key \notin DOMAIN overrides THEN Largest(records)
      ELSE IF picked # {} THEN CHOOSE r \in picked : TRUE
      ELSE First(records)

disc_set_entry(library, disc_set, records) ==
  [type |-> "disc_set", disc_set |-> disc_set,
   main |-> MainOf(library, disc_set, records), titles |-> records]

\* By the name of their disc set, and the rest.  Only the library's kind makes
\* sets.
disc_set_groups(kind, records) ==
  LET InSet(r) == kind = "Discs" /\ DiscSetOf(r) # <<>>
      grouped == {r \in records : InSet(r)}
  IN  [sets |-> [set \in {DiscSetOf(r)[1] : r \in grouped} |->
                   {r \in grouped : DiscSetOf(r)[1] = set}],
       singles |-> {r \in records : ~ InSet(r)}]

\* A set of one is just a video.
assemble_entries(library, dir) ==
  LET groups == disc_set_groups(library.kind, RowsIn(rows, library.name, dir))
      sets == groups.sets
      multi_sets == {set \in DOMAIN sets : Cardinality(sets[set]) > 1}
      singleton_sets == {set \in DOMAIN sets : Cardinality(sets[set]) <= 1}
      videos == groups.singles \cup UNION {sets[set] : set \in singleton_sets}
  IN  {disc_set_entry(library.name, set, sets[set]) : set \in multi_sets}
        \cup {[type |-> "video", video |-> r] : r \in videos}
        \cup directory_entries(library.name, dir)

DirListing(library, dir) ==
  [library |-> library.name, path |-> dir,
   entries |-> assemble_entries(library, dir)]

\* Index::video.
RowAt(library, path) ==
  {r \in rows : r.lib = library /\ PathOf(r) = path}

-------------------------------------------------------------------------------
(***************************************************************************)
(* The handlers.  What a request does before its last statement is its     *)
(* first step: the directory is looked for on disk, the video of a pick    *)
(* in the index.  Options in a request are <<>> or <<library>>.            *)
(***************************************************************************)
Call(request) == [request |-> request, phase |-> "sent", answer |-> Lost]

Reply(i, answer) ==
  calls' = [calls EXCEPT ![i].phase = "answered", ![i].answer = answer]

Proceed(i) == calls' = [calls EXCEPT ![i].phase = "checked"]

LibraryAsked(request) ==
  IF request.library = <<>> THEN SubSeq(libraries, 1, 1)
  ELSE LibraryNamed(libraries, request.library[1])

\* No process: the connection is refused.
Refuse(i) ==
  /\ libraries = <<>>
  /\ calls[i].phase = "sent"
  /\ Reply(i, Lost)
  /\ UNCHANGED <<disk, changes, starts, libraries, tables, reading>>

Asked(i, op) ==
  /\ libraries # <<>>
  /\ calls[i].phase = "sent"
  /\ calls[i].request.op = op
  /\ UNCHANGED <<disk, changes, starts, libraries, tables, reading>>

Checked(i, op) ==
  /\ libraries # <<>>
  /\ calls[i].phase = "checked"
  /\ calls[i].request.op = op
  /\ UNCHANGED <<disk, changes, starts, libraries, version, rows, reading>>

\* A statement fails: IndexError, answered with 500.
DbFails(i) == DbMayFail /\ Reply(i, Answer(500, NoBody))

EnsureDirectoryExists(i) ==
  LET request == calls[i].request
      library == LibraryAsked(request)
  IN  /\ Asked(i, "browse")
      /\ IF library # <<>> /\ request.dir \in DOMAIN disk[library[1].path]
           THEN Proceed(i)
           ELSE Reply(i, Answer(404, NoBody))

Browse(i) ==
  LET request == calls[i].request
  IN  /\ Checked(i, "browse")
      /\ \/ Reply(i, Answer(200, DirListing(LibraryAsked(request)[1], request.dir)))
         \/ DbFails(i)
      /\ UNCHANGED overrides

Item(i) ==
  LET request == calls[i].request
      found == RowAt(request.library[1], request.path)
  IN  /\ Asked(i, "item")
      /\ IF LibraryAsked(request) = <<>> THEN Reply(i, Answer(404, NoBody))
         ELSE \/ /\ found = {}
                 /\ Reply(i, Answer(404, NoBody))
              \/ \E r \in found :
                   Reply(i, Answer(200, [library |-> r.lib,
                                         path |-> PathOf(r)]))
              \/ DbFails(i)

\* GET libraries needs no statement.
Libraries(i) ==
  /\ Asked(i, "libraries")
  /\ Reply(i, Answer(200, [libraries |-> libraries]))

\* The query matches every video; which text matches is SQLite's affair.
Search(i) ==
  LET scope == calls[i].request.library
      Hits == {r \in rows : scope = <<>> \/ r.lib = scope[1]}
  IN  /\ Asked(i, "search")
      /\ IF LibraryAsked(calls[i].request) = <<>>
           THEN Reply(i, Answer(404, NoBody))
           ELSE \/ Reply(i, Answer(200, [items |-> Hits]))
                \/ DbFails(i)

AnyTitlePicked(i) ==  \* mutant: no NotInSet check
  LET request == calls[i].request
      found == RowAt(request.library[1], request.path)
  IN  /\ Asked(i, "set_main")
      /\ IF LibraryAsked(request) = <<>> \/ found = {}
           THEN Reply(i, Answer(404, NoBody))
           ELSE Proceed(i)

FindPicked(i) ==
  LET request == calls[i].request
      found == RowAt(request.library[1], request.path)
  IN  /\ Asked(i, "set_main")
      /\ IF LibraryAsked(request) = <<>> THEN Reply(i, Answer(404, NoBody))
         ELSE \/ found = {} /\ Reply(i, Answer(404, NoBody))
              \/ \E r \in found :
                   IF DiscSetOf(r) = <<request.disc_set>> THEN Proceed(i)
                   ELSE Reply(i, Answer(400, NoBody))
              \/ DbFails(i)

SetMainTitle(i) ==
  LET request == calls[i].request
      key == PickOf(request.library[1], request.disc_set)
  IN  /\ Checked(i, "set_main")
      /\ \/ /\ overrides' = Put(overrides, key, request.path)
            /\ Reply(i, Answer(200, NoBody))
         \/ DbFails(i) /\ UNCHANGED overrides

Handle(i) ==
  \/ Refuse(i)
  \/ EnsureDirectoryExists(i)
  \/ Browse(i)
  \/ Item(i)
  \/ Libraries(i)
  \/ Search(i)
  \/ FindPicked(i)
  \/ SetMainTitle(i)

-------------------------------------------------------------------------------
(***************************************************************************)
(* Clients: any of them, asking anything at any time.                      *)
(***************************************************************************)
Ask(request) ==
  /\ Len(calls) < MaxCalls
  /\ calls' = Append(calls, Call(request))
  /\ UNCHANGED <<disk, changes, starts, libraries, tables, reading>>

Take(i) ==
  /\ calls[i].phase = "answered"
  /\ calls' = RemoveAt(calls, i)
  /\ UNCHANGED <<disk, changes, starts, libraries, tables, reading>>

ServerInit ==
  /\ disk \in InitialDisks
  /\ changes = 0
  /\ starts = 0
  /\ libraries = <<>>
  /\ version = 0
  /\ rows = {}
  /\ overrides = <<>>
  /\ reading = <<>>

Init == ServerInit /\ calls = <<>>

\* What runs without the clients.
Backend ==
  \/ DiskChanges
  \/ \E setup \in Setups, binary \in Binaries : Start(setup, binary)
  \/ Crash
  \/ \E i \in DOMAIN libraries, dir \in Directory :
       OpenDirectory(i, dir) \/ ForgetTree(i, dir)
  \/ \E name \in VideoName : StatEntry(name)
  \/ BuildRecord
  \/ WriteDirectory
  \/ \E i \in DOMAIN calls : Handle(i)

Next ==
  \/ Backend
  \/ \E request \in Requests : Ask(request)
  \/ \E i \in DOMAIN calls : Take(i)

Spec == Init /\ [][Next]_vars
-------------------------------------------------------------------------------
(***************************************************************************)
(* Properties.                                                             *)
(***************************************************************************)
\* Every variable keeps its shape, and a running process has libraries of
\* different names (what `state.library` and the routes /files/{name} rest on).
TypeOK ==
  /\ DOMAIN disk = LibraryPath
  /\ \A path \in LibraryPath : IsTree(disk[path])
  /\ changes \in 0..MaxChanges
  /\ starts \in 0..MaxStarts
  /\ \A i \in DOMAIN libraries : libraries[i] \in Library
  /\ \A i, j \in DOMAIN libraries : libraries[i].name = libraries[j].name => i = j
  /\ version \in Binaries \cup {0}
  /\ \A r \in rows : r.lib \in LibraryName /\ r.parent \in Directory
  /\ \A r, s \in rows : SameVideo(r, s) => r = s
  /\ \A key \in DOMAIN overrides : key.library \in LibraryName
  /\ Len(reading) <= 1
  /\ Len(calls) <= MaxCalls
  /\ \A i \in DOMAIN calls : calls[i].phase \in {"sent", "checked", "answered"}

\* Directories that hold no video themselves have no row, and their entries
\* come from the parents of deeper rows: whatever was indexed, each video is
\* reached from the root of its library through the entries of listings.
EveryVideoReachable ==
  \A i \in DOMAIN libraries : \A r \in rows :
    r.lib = libraries[i].name =>
      \A n \in DOMAIN r.parent :
        [type |-> "directory", path |-> SubSeq(r.parent, 1, n)]
          \in DirListing(libraries[i], SubSeq(r.parent, 1, n - 1)).entries

\* "with several videos present the fallback would misattribute one movie's
\* metadata to every file" (index/scan.rs): a row whose title was read from a
\* sidecar of another stem is the only row of its directory, however readings
\* and changes of the directory interleave.
BorrowedTitleIsAlone ==
  \A r \in rows :
    LET title == r.video.facts.title
    IN  /\ title # <<>>
        /\ title[1].source \in {"nfo", "info_json"}
        /\ title[1].of # StemOf(r.video.name)
        => RowsIn(rows, r.lib, r.parent) = {r}

\* set_main_handler looks the video up in one statement and writes the pick in
\* another, and the index may change in between: a pick still names a file
\* whose name puts it in that set.
PicksStayInTheirSet ==
  \A key \in DOMAIN overrides :
    parse_rip_name(overrides[key].name).prefix = key.disc_set

\* The main title a listing shows of a set, wherever `path` is one of its titles.
IsShown(pick, path) ==
  \A i \in DOMAIN libraries, dir \in Directory :
    \A e \in DirListing(libraries[i], dir).entries :
      e.type = "disc_set" /\ PickOf(libraries[i].name, e.disc_set) = pick =>
        \A r \in e.titles : PathOf(r) = path => e.main = r

PickedAnew(pick) ==
  \E i \in DOMAIN calls :
    /\ SetMainTitle(i)
    /\ PickOf(calls[i].request.library[1], calls[i].request.disc_set) = pick

\* The operator's pick outlives whatever happens to the index and the process:
\* the change or loss of its file, readings, removed trees, crashes, restarts
\* with other libraries.  It is kept, so that it holds again of a file that
\* comes back, and every listing shows it as the main title wherever its file
\* is among the titles, until the operator picks anew or a binary with another
\* schema drops the table.
PickOutlivesChanges ==
  [][\A pick \in DOMAIN overrides : \A path \in {overrides[pick]} :
       \/ PickedAnew(pick)
       \/ version' # version
       \/ /\ pick \in DOMAIN overrides' /\ overrides'[pick] = path
          /\ IsShown(pick, path)']_vars
===============================================================================

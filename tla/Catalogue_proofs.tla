---------------------------- MODULE Catalogue_proofs ---------------------------
(***************************************************************************)
(* What clients are told, proved of Catalogue for every value of the       *)
(* constants: whatever the disk, the maintenance, the operators and the    *)
(* restarts do to the index.                                               *)
(***************************************************************************)
EXTENDS Catalogue, MediaIndex_proofs

(* A record whose title was read from a sidecar of another stem, and one whose
   disc set is what its file name says. *)
Borrowed(v) ==
  /\ v.facts.title # <<>>
  /\ v.facts.title[1].source \in {"nfo", "info_json"}
  /\ v.facts.title[1].of # StemOf(v.name)

InItsSet(v) ==
  v.facts.disc_set # <<>> =>
    v.facts.disc_set = << parse_rip_name(v.name).prefix >>

(* What is written of a directory, and what a request that passed its first
   step may be. *)
GoodRecords(records) ==
  /\ \A v, w \in records : v.name = w.name => v = w
  /\ \A v \in records : InItsSet(v) /\ (Borrowed(v) => records = {v})

PickInItsSet(request) ==
  /\ parse_rip_name(request.path.name).prefix = request.disc_set
  /\ request.library[1] \in LibraryName

GoodCall(Answers) ==
  {c \in [request : Requests, phase : {"sent", "checked", "answered"},
          answer : Answers] :
     c.phase = "checked" /\ c.request.op = "set_main" => PickInItsSet(c.request)}

CallsInv ==
  /\ \E Answers : calls \in Seq(GoodCall(Answers))
  /\ Len(calls) <= MaxCalls

IsReading(r) ==
  r = [library |-> r.library, parent |-> r.parent,
       allow_folder_nfo |-> r.allow_folder_nfo,
       unread |-> r.unread, entry |-> r.entry, records |-> r.records]

InHand(entry, name) == entry # <<>> /\ entry[1].name = name

(* What is known of the reading under way: each video listed is unread, in hand
   or read, and the folder's NFO is only for the one that was listed alone. *)
Listed(r, name) ==
  \/ name \in r.unread
  \/ InHand(r.entry, name)
  \/ \E v \in r.records : v.name = name

GoodReading(r) ==
  /\ r.parent \in Directory
  /\ \A v, w \in r.records : v.name = w.name => v = w
  /\ \A v \in r.records : ~ InHand(r.entry, v.name) /\ v.name \notin r.unread
  /\ \A name : InHand(r.entry, name) => name \notin r.unread
  /\ \A v \in r.records : InItsSet(v) /\ (Borrowed(v) => r.allow_folder_nfo)
  /\ r.allow_folder_nfo \in BOOLEAN
  /\ r.allow_folder_nfo => \A m, n : Listed(r, m) /\ Listed(r, n) => m = n

ReadingInv == reading # <<>> => IsReading(reading[1]) /\ GoodReading(reading[1])

KeysInv == \A r, s \in rows : SameVideo(r, s) => r = s

RowsInv == \A r \in rows : r.parent \in Directory /\ InItsSet(r.video)

(* The table and the reading about to be written to it ... *)
TableInv == ReadingInv /\ KeysInv /\ RowsInv /\ BorrowedTitleIsAlone

(* ... with the names that everything goes by, and the rest of the state ... *)
LibrariesInv ==
  /\ \A i \in DOMAIN libraries : libraries[i] \in Library
  /\ \A i, j \in DOMAIN libraries : libraries[i].name = libraries[j].name => i = j

NamesInv ==
  /\ \A r \in rows : r.lib \in LibraryName
  /\ \A key \in DOMAIN overrides : key.library \in LibraryName
  /\ reading # <<>> => IsReading(reading[1]) /\ reading[1].library.name \in LibraryName
  /\ Len(reading) <= 1

DiskInv == DOMAIN disk = LibraryPath /\ \A path \in LibraryPath : IsTree(disk[path])

CountsInv ==
  /\ changes \in 0..MaxChanges
  /\ starts \in 0..MaxStarts
  /\ version \in Binaries \cup {0}

KeptInv == LibrariesInv /\ NamesInv /\ DiskInv /\ CountsInv

(* ... with the requests and the picks. *)
Inv == CallsInv /\ TableInv /\ KeptInv /\ PicksStayInTheirSet

-------------------------------------------------------------------------------
(* What is read off a directory. *)

LEMMA MinOfOne == Min({1}) = 1
  BY DEF Min

LEMMA TitleOfItsStem ==
  ASSUME NEW sidecars, NEW name, NEW size, NEW discs
  PROVE  ~ Borrowed(build_record(sidecars, name, size, discs, FALSE))
<1> DEFINE stem == StemOf(name)
           nfo == read_nfo(sidecars, stem, FALSE)
           record == build_record(sidecars, name, size, discs, FALSE)
<1>1. nfo # <<>> => nfo[1].at = stem
  <2> DEFINE Parsed(i) == /\ i = 1 \/ FALSE
                          /\ nfo_candidates(stem)[i] \in DOMAIN sidecars.nfo
                          /\ parse_nfo(sidecars.nfo[nfo_candidates(stem)[i]]) # <<>>
             found == {i \in DOMAIN nfo_candidates(stem) : Parsed(i)}
  <2>1. nfo_candidates(stem)[1] = stem /\ found \subseteq {1}
    BY DEF nfo_candidates
  <2>2. CASE found = {}
    BY <2>2 DEF read_nfo
  <2>3. CASE found # {}
    <3>1. found = {1}
      BY <2>1, <2>3
    <3>2. nfo = << [at |-> nfo_candidates(stem)[1],
                    nfo |-> parse_nfo(sidecars.nfo[nfo_candidates(stem)[1]])[1]] >>
      BY <3>1, MinOfOne DEF read_nfo
    <3> DEFINE text == parse_nfo(sidecars.nfo[nfo_candidates(stem)[1]])[1]
    <3> HIDE DEF nfo, text, found
    <3>3. nfo = << [at |-> stem, nfo |-> text] >>
      BY <2>1, <3>2 DEF text
    <3> QED
      BY <3>3
  <2> HIDE DEF found, nfo
  <2> QED
    BY <2>2, <2>3
<1>2. record.facts.title = title_of(sidecars, name, discs, FALSE) /\ record.name = name
  BY DEF build_record
<1>3. \/ record.facts.title = << [source |-> "nfo", of |-> nfo[1].at] >> /\ nfo # <<>>
      \/ record.facts.title = << [source |-> "info_json", of |-> stem] >>
      \/ \E prefix : record.facts.title = << [source |-> "rip_name", of |-> prefix] >>
      \/ record.facts.title = <<>>
  BY <1>2 DEF title_of
<1> HIDE DEF nfo, stem, record
<1>4. \/ record.facts.title = <<>>
      \/ record.facts.title[1].of = stem
      \/ record.facts.title[1].source = "rip_name"
  <2> DEFINE title == record.facts.title
  <2>1. /\ nfo # <<>> => nfo[1].at = stem
        /\ \/ title = << [source |-> "nfo", of |-> nfo[1].at] >> /\ nfo # <<>>
           \/ title = << [source |-> "info_json", of |-> stem] >>
           \/ \E prefix : title = << [source |-> "rip_name", of |-> prefix] >>
           \/ title = <<>>
    BY <1>1, <1>3
  <2> HIDE DEF title
  <2>2. title = <<>> \/ title[1].of = stem \/ title[1].source = "rip_name"
    BY <2>1
  <2> QED
    BY <2>2 DEF title
<1>5. stem = StemOf(record.name)
  BY <1>2 DEF stem
<1>6. ~ Borrowed(record)
  BY <1>4, <1>5 DEF Borrowed
<1> QED
  BY <1>6 DEF record

LEMMA RecordSet ==
  ASSUME NEW sidecars, NEW name, NEW size, NEW discs, NEW allowed
  PROVE  /\ build_record(sidecars, name, size, discs, allowed).name = name
         /\ InItsSet(build_record(sidecars, name, size, discs, allowed))
  BY DEF build_record, InItsSet

(* What is left when all of a reading is read. *)
LEMMA FinishedIsGood ==
  ASSUME NEW r, GoodReading(r)
  PROVE  GoodRecords(r.records)
<1> SUFFICES ASSUME NEW v \in r.records, Borrowed(v)
             PROVE  r.records = {v}
  BY DEF GoodReading, GoodRecords
<1>1. \A w \in r.records : Listed(r, w.name)
  BY DEF Listed
<1>2. \A w \in r.records : w.name = v.name
  BY <1>1 DEF GoodReading
<1> QED
  BY <1>2 DEF GoodReading

LEMMA ReadingStep ==
  ASSUME NEW next, Reading(next)
  PROVE  /\ reading' # <<>> /\ reading'[1] = next /\ Len(reading') = 1
         /\ UNCHANGED <<disk, changes, starts, libraries, tables, calls>>
  BY DEF Reading

(* The three steps of a reading. *)
Reads ==
  \/ \E i \in DOMAIN libraries, dir \in Directory : OpenDirectory(i, dir)
  \/ \E name \in VideoName : StatEntry(name)
  \/ BuildRecord

LEMMA OpenGood ==
  ASSUME NEW i \in DOMAIN libraries, NEW dir \in Directory, OpenDirectory(i, dir)
  PROVE  /\ ReadingInv' /\ reading'[1].library = libraries[i] /\ Len(reading') = 1
         /\ UNCHANGED <<disk, changes, starts, libraries, tables, calls>>
<1> DEFINE names == DOMAIN ContentsOf(libraries[i].path, dir).videos
           next == [library |-> libraries[i], parent |-> dir,
                    allow_folder_nfo |-> IsAlone(names),
                    unread |-> names, entry |-> <<>>, records |-> {}]
<1>1. Reading(next)
  BY DEF OpenDirectory
<1> HIDE DEF names
<1>2. IsReading(next) /\ next.library = libraries[i]
  BY DEF IsReading
<1>3. GoodReading(next)
  <2>1. IsAlone(names) \in BOOLEAN
    BY DEF IsAlone
  <2>2. IsAlone(names) => \A m, n : Listed(next, m) /\ Listed(next, n) => m = n
    BY DEF IsAlone, Listed, InHand
  <2> QED
    BY <2>1, <2>2 DEF GoodReading, InHand
<1> HIDE DEF next
<1> QED
  BY <1>1, <1>2, <1>3, ReadingStep DEF ReadingInv

LEMMA StatGood ==
  ASSUME ReadingInv, NEW name \in VideoName, StatEntry(name)
  PROVE  /\ ReadingInv' /\ reading # <<>> /\ Len(reading') = 1
         /\ reading'[1].library = reading[1].library
         /\ UNCHANGED <<disk, changes, starts, libraries, tables, calls>>
<1> DEFINE r == reading[1]
           videos == ContentsOf(r.library.path, r.parent).videos
           entry == IF name \in DOMAIN videos
                    THEN << [name |-> name, size |-> videos[name]] >> ELSE <<>>
           next == [r EXCEPT !.unread = @ \ {name}, !.entry = entry]
<1>1. reading # <<>> /\ r.entry = <<>> /\ name \in r.unread /\ Reading(next)
  BY DEF StatEntry
<1>2. IsReading(r) /\ GoodReading(r)
  BY <1>1 DEF ReadingInv
<1>3. \A n : InHand(entry, n) => n = name
  <2>1. CASE name \in DOMAIN videos
    <3> DEFINE stat == [name |-> name, size |-> videos[name]]
    <3>1. entry = <<stat>> /\ stat.name = name
      BY <2>1
    <3> HIDE DEF stat, entry
    <3> QED
      BY <3>1 DEF InHand
  <2>2. CASE name \notin DOMAIN videos
    BY <2>2 DEF InHand
  <2> QED
    BY <2>1, <2>2
<1> HIDE DEF r, entry
<1>4. next = [library |-> r.library, parent |-> r.parent,
              allow_folder_nfo |-> r.allow_folder_nfo,
              unread |-> r.unread \ {name}, entry |-> entry, records |-> r.records]
  <2>1. next = [[r EXCEPT !.unread = @ \ {name}] EXCEPT !.entry = entry]
    OBVIOUS
  <2> DEFINE s == [r EXCEPT !.unread = @ \ {name}]
  <2>2. s = [library |-> r.library, parent |-> r.parent,
             allow_folder_nfo |-> r.allow_folder_nfo,
             unread |-> r.unread \ {name}, entry |-> r.entry, records |-> r.records]
    BY <1>2 DEF IsReading
  <2>3. next = [s EXCEPT !.entry = entry]
    BY <2>1
  <2> HIDE DEF s, next
  <2> QED
    BY <2>2, <2>3
<1> HIDE DEF next
<1>5. /\ next.library = r.library /\ next.parent = r.parent
      /\ next.allow_folder_nfo = r.allow_folder_nfo
      /\ next.unread = r.unread \ {name} /\ next.entry = entry /\ next.records = r.records
  BY <1>4
<1>6. IsReading(next)
  BY <1>4, <1>5 DEF IsReading
<1>7. GoodReading(next)
  <2>1. \A n : Listed(next, n) => Listed(r, n)
    BY <1>1, <1>3, <1>5 DEF Listed
  <2>2. \A v \in next.records : ~ InHand(next.entry, v.name) /\ v.name \notin next.unread
    BY <1>1, <1>2, <1>3, <1>5 DEF GoodReading
  <2>3. \A n : InHand(next.entry, n) => n \notin next.unread
    BY <1>3, <1>5
  <2> QED
    BY <1>2, <1>5, <2>1, <2>2, <2>3 DEF GoodReading
<1> QED
  BY <1>1, <1>5, <1>6, <1>7, ReadingStep DEF ReadingInv, r

LEMMA BuildGood ==
  ASSUME ReadingInv, BuildRecord
  PROVE  /\ ReadingInv' /\ reading # <<>> /\ Len(reading') = 1
         /\ reading'[1].library = reading[1].library
         /\ UNCHANGED <<disk, changes, starts, libraries, tables, calls>>
<1> DEFINE r == reading[1]
           sidecars == ContentsOf(r.library.path, r.parent)
           name == r.entry[1].name
           record == build_record(sidecars, name, r.entry[1].size,
                                  r.library.kind = "Discs", r.allow_folder_nfo)
           next == [r EXCEPT !.entry = <<>>, !.records = @ \cup {record}]
<1>1. reading # <<>> /\ r.entry # <<>> /\ Reading(next)
  BY DEF BuildRecord
<1>2. IsReading(r) /\ GoodReading(r)
  BY <1>1 DEF ReadingInv
<1>3. record.name = name /\ InItsSet(record)
  <2> HIDE DEF r, sidecars, name
  <2> QED
    BY RecordSet
<1>4. Borrowed(record) => r.allow_folder_nfo
  <2> SUFFICES ASSUME ~ r.allow_folder_nfo
               PROVE  ~ Borrowed(record)
    OBVIOUS
  <2>1. r.allow_folder_nfo = FALSE
    BY <1>2 DEF GoodReading
  <2> HIDE DEF r, sidecars, name
  <2> QED
    BY <2>1, TitleOfItsStem
<1>5. InHand(r.entry, name)
  BY <1>1 DEF InHand
<1> HIDE DEF r, name, record
<1>6. next = [library |-> r.library, parent |-> r.parent,
              allow_folder_nfo |-> r.allow_folder_nfo,
              unread |-> r.unread, entry |-> <<>>, records |-> r.records \cup {record}]
  <2>1. next = [[r EXCEPT !.entry = <<>>] EXCEPT !.records = @ \cup {record}]
    OBVIOUS
  <2> DEFINE s == [r EXCEPT !.entry = <<>>]
  <2>2. s = [library |-> r.library, parent |-> r.parent,
             allow_folder_nfo |-> r.allow_folder_nfo,
             unread |-> r.unread, entry |-> <<>>, records |-> r.records]
    BY <1>2 DEF IsReading
  <2>3. next = [s EXCEPT !.records = @ \cup {record}]
    BY <2>1
  <2> HIDE DEF s, next
  <2> QED
    BY <2>2, <2>3
<1> HIDE DEF next
<1>7. /\ next.library = r.library /\ next.parent = r.parent
      /\ next.allow_folder_nfo = r.allow_folder_nfo
      /\ next.unread = r.unread /\ next.entry = <<>>
      /\ next.records = r.records \cup {record}
  BY <1>6
<1>8. IsReading(next)
  BY <1>6, <1>7 DEF IsReading
<1>9. GoodReading(next)
  <2>1. \A n : Listed(next, n) => Listed(r, n)
    BY <1>3, <1>5, <1>7 DEF Listed, InHand
  <2>2. \A v \in r.records : v.name # name
    BY <1>2, <1>5 DEF GoodReading
  <2>3. name \notin r.unread
    BY <1>2, <1>5 DEF GoodReading
  <2>4. \A n : ~ InHand(next.entry, n)
    BY <1>7 DEF InHand
  <2> QED
    BY <1>2, <1>3, <1>4, <1>7, <2>1, <2>2, <2>3, <2>4 DEF GoodReading
<1> QED
  BY <1>1, <1>7, <1>8, <1>9, ReadingStep DEF ReadingInv, r

-------------------------------------------------------------------------------
(* What the server keeps, whatever asks it for anything. *)
(* A pick that passed its first step names a library. *)
PicksNamed ==
  \A i \in DOMAIN calls :
    calls[i].phase = "checked" /\ calls[i].request.op = "set_main" =>
      calls[i].request.library[1] \in LibraryName

LEMMA KeptInit == ServerInit => KeptInv
<1> SUFFICES ASSUME ServerInit
             PROVE  KeptInv
  OBVIOUS
<1>1. LibrariesInv /\ NamesInv
  <2>1. libraries = <<>> /\ rows = {} /\ overrides = <<>> /\ reading = <<>>
    BY DEF ServerInit
  <2> QED
    BY <2>1 DEF LibrariesInv, NamesInv
<1>2. DiskInv
  BY CatalogueAssumption DEF ServerInit, DiskInv
<1>3. CountsInv
  BY CatalogueAssumption DEF ServerInit, CountsInv
<1> QED
  BY <1>1, <1>2, <1>3 DEF KeptInv

(* config.rs: one process never serves two libraries of a name. *)
LEMMA ResolvedLibraries ==
  ASSUME NEW setup \in Setups
  PROVE  LET resolved == resolve_libraries(setup, ExistingPaths)
         IN  /\ \A i \in DOMAIN resolved : resolved[i] \in Library
             /\ \A i, j \in DOMAIN resolved : resolved[i].name = resolved[j].name => i = j
<1> DEFINE entries == Candidates(setup)
           resolved == resolve_libraries(setup, ExistingPaths)
           IsGood(i) == /\ valid_library_name(entries[i].name)
                        /\ \A j \in 1..(i - 1) : entries[j].name # entries[i].name
                        /\ entries[i].path \in ExistingPaths
<1>1. resolved = IF \A i \in DOMAIN entries : IsGood(i) THEN entries ELSE <<>>
  BY DEF resolve_libraries
<1>2. entries \in Seq(Library)
  <2>1. CASE setup.cli = <<>>
    BY <2>1, CatalogueAssumption DEF Candidates
  <2>2. CASE setup.cli # <<>>
    <3> DEFINE only == [name |-> "downloads", path |-> setup.cli[1], kind |-> "Downloads"]
    <3>1. only \in Library
      BY <2>2, CatalogueAssumption, ConfigurationAssumption DEF Library, LibraryKind
    <3>2. entries = <<only>>
      BY <2>2 DEF Candidates
    <3> HIDE DEF only, entries
    <3> QED
      BY <3>1, <3>2
  <2> QED
    BY <2>1, <2>2
<1> HIDE DEF entries, resolved
<1>3. DOMAIN entries = 1..Len(entries) /\ Len(entries) \in Nat
  BY <1>2, LenProperties
<1>4. CASE resolved = <<>>
  BY <1>4 DEF resolved
<1>5. CASE resolved = entries /\ \A i \in DOMAIN entries : IsGood(i)
  <2>1. \A i \in DOMAIN entries : entries[i] \in Library
    BY <1>2, ElementOfSeq, <1>3
  <2>2. ASSUME NEW i \in DOMAIN entries, NEW j \in DOMAIN entries,
               entries[i].name = entries[j].name
        PROVE  i = j
    <3>1. \A a, b \in 1..Len(entries) : a < b => a \in 1..(b - 1)
      BY <1>3
    <3> QED
      BY <1>3, <1>5, <2>2, <3>1
  <2> QED
    BY <1>5, <2>1, <2>2 DEF resolved
<1> QED
  BY <1>1, <1>4, <1>5

(* Files come and go, and the directories stay a tree. *)
LEMMA ChangedTree ==
  ASSUME DiskInv, NEW path \in LibraryPath, NEW directories, Change(path, directories),
         IsTree(directories)
  PROVE  DiskInv'
  BY DEF DiskInv, Change

LEMMA TreeWith ==
  ASSUME DiskInv, NEW path \in LibraryPath, NEW dir \in DOMAIN disk[path], NEW contents,
         IsContents(contents)
  PROVE  IsTree([disk[path] EXCEPT ![dir] = contents])
  BY DEF DiskInv, IsTree

LEMMA DiskStep ==
  ASSUME DiskInv, DiskChanges
  PROVE  DiskInv'
<1>1. ASSUME NEW path \in LibraryPath, NEW dir \in Directory, NEW name \in VideoName,
             RemoveVideo(path, dir, name)
      PROVE  DiskInv'
  <2> DEFINE c == disk[path][dir]
             after == [c EXCEPT !.videos = Restrict(c.videos, DOMAIN c.videos \ {name})]
  <2>1. dir \in DOMAIN disk[path] /\ IsContents(c)
    BY <1>1 DEF DiskInv, IsTree, RemoveVideo
  <2>2. after = [videos |-> Restrict(c.videos, DOMAIN c.videos \ {name}),
                 nfo |-> c.nfo, info |-> c.info]
    BY <2>1 DEF IsContents
  <2>3. IsContents(after)
    BY <2>1, <2>2 DEF IsContents, Restrict
  <2>4. Change(path, [disk[path] EXCEPT ![dir] = after])
    BY <1>1, <2>1 DEF RemoveVideo
  <2> QED
    BY <2>1, <2>3, <2>4, TreeWith, ChangedTree
<1>2. ASSUME NEW path \in LibraryPath, NEW dir \in Directory, NEW name \in VideoName,
             NEW size \in Size, PutVideo(path, dir, name, size)
      PROVE  DiskInv'
  <2> DEFINE c == disk[path][dir]
             after == [c EXCEPT !.videos = Put(c.videos, name, size)]
  <2>1. dir \in DOMAIN disk[path] /\ IsContents(c)
    BY <1>2 DEF DiskInv, IsTree, PutVideo
  <2>2. after = [videos |-> Put(c.videos, name, size), nfo |-> c.nfo, info |-> c.info]
    BY <2>1 DEF IsContents
  <2>3. IsContents(after)
    BY <2>1, <2>2 DEF IsContents, Put
  <2>4. Change(path, [disk[path] EXCEPT ![dir] = after])
    BY <1>2, <2>1 DEF PutVideo
  <2> QED
    BY <2>1, <2>3, <2>4, TreeWith, ChangedTree
<1>3. ASSUME NEW path \in LibraryPath, NEW dir \in Directory, NEW stem \in Stem,
             NEW text \in NfoText, PutNfo(path, dir, stem, text)
      PROVE  DiskInv'
  <2> DEFINE c == disk[path][dir]
             after == [c EXCEPT !.nfo = Put(c.nfo, stem, text)]
  <2>1. dir \in DOMAIN disk[path] /\ IsContents(c)
    BY <1>3 DEF DiskInv, IsTree, PutNfo
  <2>2. after = [videos |-> c.videos, nfo |-> Put(c.nfo, stem, text), info |-> c.info]
    BY <2>1 DEF IsContents
  <2>3. IsContents(after)
    BY <2>1, <2>2 DEF IsContents, Put
  <2>4. Change(path, [disk[path] EXCEPT ![dir] = after])
    BY <1>3, <2>1 DEF PutNfo
  <2> QED
    BY <2>1, <2>3, <2>4, TreeWith, ChangedTree
<1>4. ASSUME NEW path \in LibraryPath, NEW dir \in Directory, MakeDirectory(path, dir)
      PROVE  DiskInv'
  <2>1. IsContents(NoContents)
    BY DEF IsContents, NoContents
  <2>2. IsTree(Put(disk[path], dir, NoContents))
    BY <1>4, <2>1 DEF DiskInv, IsTree, MakeDirectory, Put
  <2> QED
    BY <1>4, <2>2, ChangedTree DEF MakeDirectory
<1>5. ASSUME NEW path \in LibraryPath, NEW dir \in Directory, RemoveDirectory(path, dir)
      PROVE  DiskInv'
  <2> DEFINE left == {d \in DOMAIN disk[path] : ~ IsPrefix(dir, d)}
  <2>1. IsTree(disk[path])
    BY DEF DiskInv
  <2>2. ASSUME NEW d \in left, d # <<>>
        PROVE  Front(d) \in left
    <3>1. Front(d) \in DOMAIN disk[path]
      BY <2>1, <2>2 DEF IsTree
    <3>2. dir \in Seq(Name) /\ d \in Seq(Name) /\ Front(d) \in Seq(Name)
      BY <2>1, <3>1, CatalogueAssumption DEF IsTree
    <3>3. IsPrefix(Front(d), d)
      <4>1. Len(d) \in Nat /\ Len(d) # 0
        BY <2>2, <3>2, EmptySeq, LenProperties
      <4>2. /\ Len(Front(d)) = Len(d) - 1
            /\ \A i \in 1..(Len(d) - 1) : Front(d)[i] = d[i]
        <5> DEFINE m == Len(d) - 1
        <5>1. m \in Nat /\ \A i \in 1..m : d[i] \in Name
          BY <3>2, <4>1, ElementOfSeq
        <5>2. Front(d) = SubSeq(d, 1, m)
          BY DEF Front
        <5> HIDE DEF m
        <5>3. Len(Front(d)) = m /\ \A i \in 1..m : Front(d)[i] = d[i]
          BY <5>1, <5>2, SubSeqProperties
        <5> QED
          BY <5>3 DEF m
      <4> QED
        <5>1. Len(Front(d)) \in Nat /\ Len(Front(d)) <= Len(d)
          BY <4>1, <4>2
        <5> QED
          BY <3>2, <4>1, <4>2, <5>1, PrefixByName
    <3> QED
      BY <2>2, <3>1, <3>2, <3>3, PrefixTransitive
  <2>3. IsTree(Restrict(disk[path], left))
    BY <2>1, <2>2 DEF IsTree, Restrict
  <2> QED
    BY <1>5, <2>3, ChangedTree DEF RemoveDirectory
<1> QED
  BY <1>1, <1>2, <1>3, <1>4, <1>5 DEF DiskChanges

LEMMA BackendKept ==
  ASSUME KeptInv, ReadingInv, PicksNamed, Backend
  PROVE  KeptInv'
<1>1. LibrariesInv /\ NamesInv /\ DiskInv /\ CountsInv
  BY DEF KeptInv
<1>2. CASE DiskChanges
  <2>1. PICK path, directories : Change(path, directories)
    BY <1>2 DEF DiskChanges, RemoveVideo, PutVideo, PutNfo, MakeDirectory, RemoveDirectory
  <2>2. LibrariesInv' /\ NamesInv'
    BY <1>1, <2>1 DEF Change, tables, LibrariesInv, NamesInv
  <2>3. CountsInv'
    BY <1>1, <2>1, CatalogueAssumption DEF Change, tables, CountsInv
  <2> QED
    BY <1>1, <1>2, <2>2, <2>3, DiskStep DEF KeptInv
<1>3. CASE \E setup \in Setups, binary \in Binaries : Start(setup, binary)
  <2>1. PICK setup \in Setups, binary \in Binaries : Start(setup, binary)
    BY <1>3
  <2>2. LibrariesInv'
    <3>1. libraries' = resolve_libraries(setup, ExistingPaths)
      BY <2>1 DEF Start
    <3> QED
      BY <3>1, ResolvedLibraries DEF LibrariesInv
  <2>3. NamesInv'
    BY <1>1, <2>1 DEF Start, NamesInv
  <2>4. CountsInv'
    BY <1>1, <2>1, CatalogueAssumption DEF Start, CountsInv
  <2>5. DiskInv'
    BY <1>1, <2>1 DEF Start, DiskInv
  <2> QED
    BY <2>2, <2>3, <2>4, <2>5 DEF KeptInv
<1>4. CASE Crash
  <2>1. LibrariesInv' /\ NamesInv'
    <3>1. libraries' = <<>> /\ reading' = <<>> /\ rows' = rows /\ overrides' = overrides
      BY <1>4 DEF Crash, tables
    <3> QED
      BY <1>1, <3>1 DEF LibrariesInv, NamesInv
  <2> QED
    BY <1>1, <1>4, <2>1 DEF KeptInv, Crash, tables, DiskInv, CountsInv
<1>5. ASSUME UNCHANGED <<libraries, disk, changes, starts, version>>, NamesInv'
      PROVE  KeptInv'
  BY <1>1, <1>5 DEF KeptInv, LibrariesInv, DiskInv, CountsInv
<1>6. CASE Reads
  <2>1. /\ reading' # <<>> => IsReading(reading'[1]) /\ reading'[1].library.name \in LibraryName
        /\ Len(reading') <= 1
        /\ UNCHANGED <<disk, changes, starts, libraries, tables, calls>>
    <3>1. ASSUME NEW i \in DOMAIN libraries, NEW dir \in Directory, OpenDirectory(i, dir)
          PROVE  /\ reading' # <<>> =>
                      IsReading(reading'[1]) /\ reading'[1].library.name \in LibraryName
                 /\ Len(reading') <= 1
                 /\ UNCHANGED <<disk, changes, starts, libraries, tables, calls>>
      <4>1. libraries[i].name \in LibraryName
        BY <1>1 DEF LibrariesInv, Library
      <4> QED
        BY <3>1, <4>1, OpenGood DEF ReadingInv
    <3>2. ASSUME NEW name \in VideoName, StatEntry(name)
          PROVE  /\ reading' # <<>> =>
                      IsReading(reading'[1]) /\ reading'[1].library.name \in LibraryName
                 /\ Len(reading') <= 1
                 /\ UNCHANGED <<disk, changes, starts, libraries, tables, calls>>
      <4>1. reading # <<>> /\ reading[1].library.name \in LibraryName
        BY <1>1, <3>2, StatGood DEF NamesInv
      <4>2. /\ ReadingInv' /\ Len(reading') = 1 /\ reading'[1].library = reading[1].library
            /\ UNCHANGED <<disk, changes, starts, libraries, tables, calls>>
        BY <3>2, StatGood
      <4>3. reading' # <<>> => IsReading(reading'[1])
        BY <4>2 DEF ReadingInv
      <4> QED
        BY <4>1, <4>2, <4>3
    <3>3. ASSUME BuildRecord
          PROVE  /\ reading' # <<>> =>
                      IsReading(reading'[1]) /\ reading'[1].library.name \in LibraryName
                 /\ Len(reading') <= 1
                 /\ UNCHANGED <<disk, changes, starts, libraries, tables, calls>>
      <4>1. reading # <<>> /\ reading[1].library.name \in LibraryName
        BY <1>1, <3>3, BuildGood DEF NamesInv
      <4>2. /\ ReadingInv' /\ Len(reading') = 1 /\ reading'[1].library = reading[1].library
            /\ UNCHANGED <<disk, changes, starts, libraries, tables, calls>>
        BY <3>3, BuildGood
      <4>3. reading' # <<>> => IsReading(reading'[1])
        BY <4>2 DEF ReadingInv
      <4> QED
        BY <4>1, <4>2, <4>3
    <3> QED
      BY <1>6, <3>1, <3>2, <3>3 DEF Reads
  <2>2. NamesInv'
    BY <1>1, <2>1 DEF NamesInv, tables
  <2> QED
    BY <1>5, <2>1, <2>2 DEF tables
<1>7. ASSUME NEW i \in DOMAIN libraries, NEW dir \in Directory, ForgetTree(i, dir)
      PROVE  KeptInv'
  <2>1. rows' \subseteq rows
    BY <1>7 DEF ForgetTree, RemoveTree
  <2> QED
    BY <1>1, <1>5, <1>7, <2>1 DEF ForgetTree, NamesInv
<1>8. CASE WriteDirectory
  <2>1. \A r \in rows' : r \in rows \/ r.lib = reading[1].library.name
    <3>1. CASE rows' = ReconcileDirectory(rows, reading[1].library.name, reading[1].parent,
                                          reading[1].records, 0)
      <4>1. \A r \in rows' : r \in rows \/ \E v \in reading[1].records :
              r = RowFor(reading[1].library.name, reading[1].parent, v, 0)
        BY <3>1, ReconcileAddsOnly
      <4> QED
        BY <4>1 DEF RowFor
    <3> QED
      BY <1>8, <3>1 DEF WriteDirectory
  <2>2. reading # <<>> /\ reading' = <<>> /\ overrides' = overrides
    BY <1>8 DEF WriteDirectory
  <2>3. NamesInv'
    BY <1>1, <2>1, <2>2 DEF NamesInv
  <2> QED
    BY <1>5, <1>8, <2>3 DEF WriteDirectory
<1>9. ASSUME NEW i \in DOMAIN calls, Handle(i)
      PROVE  KeptInv'
  <2>1. UNCHANGED <<libraries, disk, changes, starts, version, rows, reading>>
    BY <1>9 DEF Handle, Refuse, EnsureDirectoryExists, Browse, Item, Libraries, Search,
       FindPicked, SetMainTitle, Asked, Checked, tables
  <2>2. CASE UNCHANGED overrides
    BY <1>1, <1>5, <2>1, <2>2 DEF NamesInv
  <2>3. CASE SetMainTitle(i) /\ ~ UNCHANGED overrides
    <3> DEFINE request == calls[i].request
               key == PickOf(request.library[1], request.disc_set)
    <3>1. /\ overrides' = Put(overrides, key, request.path)
          /\ calls[i].phase = "checked" /\ request.op = "set_main"
      BY <2>3 DEF SetMainTitle, Checked
    <3>2. key.library \in LibraryName
      BY <3>1 DEF PicksNamed, PickOf
    <3> HIDE DEF key, request
    <3>3. DOMAIN overrides' = {key} \cup DOMAIN overrides
      BY <3>1 DEF Put
    <3> QED
      BY <1>1, <1>5, <2>1, <3>2, <3>3 DEF NamesInv
  <2> QED
    BY <1>9, <2>2, <2>3 DEF Handle, Refuse, EnsureDirectoryExists, Browse, Item, Libraries,
       Search, FindPicked, Asked, tables
<1> QED
  BY <1>2, <1>3, <1>4, <1>6, <1>7, <1>8, <1>9 DEF Backend, Reads
-------------------------------------------------------------------------------
(* The requests under way. *)

LEMMA WithAnswer ==
  ASSUME NEW Answers, NEW More, calls \in Seq(GoodCall(Answers))
  PROVE  calls \in Seq(GoodCall(Answers \cup More))
<1>1. GoodCall(Answers) \subseteq GoodCall(Answers \cup More)
  BY DEF GoodCall
<1> QED
  BY <1>1, SeqMonotonic

LEMMA ReplyIsGood ==
  ASSUME CallsInv, NEW i \in DOMAIN calls, NEW answer, Reply(i, answer)
  PROVE  CallsInv'
<1>1. PICK Answers : calls \in Seq(GoodCall(Answers))
  BY DEF CallsInv
<1> DEFINE All == Answers \cup {answer}
<1>2. calls \in Seq(GoodCall(All))
  BY <1>1, WithAnswer
<1>3. calls[i] \in GoodCall(All) /\ i \in 1..Len(calls)
  BY <1>2, ElementOfSeq
<1> DEFINE done == [calls[i] EXCEPT !.phase = "answered", !.answer = answer]
<1>4. done \in GoodCall(All)
  BY <1>3 DEF GoodCall
<1>5. calls' = [calls EXCEPT ![i] = done]
  BY <1>3 DEF Reply, GoodCall
<1>6. calls' \in Seq(GoodCall(All)) /\ Len(calls') = Len(calls)
  BY <1>2, <1>3, <1>4, <1>5, ExceptSeq
<1> QED
  BY <1>6 DEF CallsInv

LEMMA ProceedIsGood ==
  ASSUME CallsInv, NEW i \in DOMAIN calls, Proceed(i),
         calls[i].request.op = "set_main" => PickInItsSet(calls[i].request)
  PROVE  CallsInv'
<1>1. PICK Answers : calls \in Seq(GoodCall(Answers))
  BY DEF CallsInv
<1>2. calls[i] \in GoodCall(Answers) /\ i \in 1..Len(calls)
  BY <1>1, ElementOfSeq
<1> DEFINE done == [calls[i] EXCEPT !.phase = "checked"]
<1>3. done \in GoodCall(Answers)
  BY <1>2 DEF GoodCall
<1>4. calls' = [calls EXCEPT ![i] = done]
  BY DEF Proceed
<1>5. calls' \in Seq(GoodCall(Answers)) /\ Len(calls') = Len(calls)
  BY <1>1, <1>2, <1>3, <1>4, ExceptSeq
<1> QED
  BY <1>5 DEF CallsInv

LEMMA AskIsGood ==
  ASSUME CallsInv, NEW request \in Requests, Ask(request)
  PROVE  CallsInv'
<1>1. PICK Answers : calls \in Seq(GoodCall(Answers))
  BY DEF CallsInv
<1> DEFINE All == Answers \cup {Lost}
<1>2. calls \in Seq(GoodCall(All))
  BY <1>1, WithAnswer
<1>3. Call(request) \in GoodCall(All)
  BY DEF Call, GoodCall
<1>4. calls' \in Seq(GoodCall(All)) /\ Len(calls') = Len(calls) + 1
  BY <1>2, <1>3, AppendProperties DEF Ask
<1>5. Len(calls') <= MaxCalls
  BY <1>2, <1>4, CatalogueAssumption, LenProperties DEF Ask
<1> QED
  BY <1>4, <1>5 DEF CallsInv

LEMMA TakeIsGood ==
  ASSUME CallsInv, NEW i \in DOMAIN calls, Take(i)
  PROVE  CallsInv'
<1>1. PICK Answers : calls \in Seq(GoodCall(Answers))
  BY DEF CallsInv
<1>2. /\ i \in 1..Len(calls)
      /\ Len(calls) \in Nat
      /\ \A j \in 1..Len(calls) : calls[j] \in GoodCall(Answers)
  BY <1>1, ElementOfSeq, LenProperties
<1> DEFINE before == SubSeq(calls, 1, i - 1)
           after == SubSeq(calls, i + 1, Len(calls))
<1>3. before \in Seq(GoodCall(Answers)) /\ Len(before) = i - 1
  BY <1>1, <1>2, SubSeqProperties
<1>4. after \in Seq(GoodCall(Answers)) /\ Len(after) = Len(calls) - i
  BY <1>1, <1>2, SubSeqProperties
<1>5. calls' = before \o after
  BY DEF Take, RemoveAt
<1> HIDE DEF before, after
<1>6. calls' \in Seq(GoodCall(Answers)) /\ Len(calls') = Len(before) + Len(after)
  BY <1>3, <1>4, <1>5, ConcatProperties
<1>7. Len(calls') <= MaxCalls
  BY <1>2, <1>3, <1>4, <1>6, CatalogueAssumption DEF CallsInv
<1> QED
  BY <1>6, <1>7 DEF CallsInv

LEMMA CrashIsGood ==
  ASSUME CallsInv, Crash
  PROVE  CallsInv'
<1>1. PICK Answers : calls \in Seq(GoodCall(Answers))
  BY DEF CallsInv
<1> DEFINE All == Answers \cup {Lost}
           After(i) == IF calls[i].phase = "answered" THEN calls[i]
                       ELSE [calls[i] EXCEPT !.phase = "answered", !.answer = Lost]
<1>2. calls \in Seq(GoodCall(All))
  BY <1>1, WithAnswer
<1>3. /\ DOMAIN calls = 1..Len(calls)
      /\ Len(calls) \in Nat
      /\ \A i \in 1..Len(calls) : calls[i] \in GoodCall(All)
  BY <1>2, ElementOfSeq, LenProperties
<1>4. \A i \in 1..Len(calls) : After(i) \in GoodCall(All)
  BY <1>3 DEF GoodCall
<1>5. calls' = [i \in 1..Len(calls) |-> After(i)]
  BY <1>3 DEF Crash
<1>6. calls' \in [1..Len(calls) -> GoodCall(All)]
  BY <1>4, <1>5
<1>7. calls' \in Seq(GoodCall(All))
  BY <1>3, <1>6, SeqDef
<1>8. Len(calls') = Len(calls)
  BY <1>3, <1>6
<1> QED
  BY <1>7, <1>8 DEF CallsInv
-------------------------------------------------------------------------------
(* The steps, one lemma to an action of which something can be said. *)

LEMMA InitGood == Init => Inv
<1> SUFFICES ASSUME Init
             PROVE  Inv
  OBVIOUS
<1>1. rows = {} /\ overrides = <<>> /\ reading = <<>> /\ calls = <<>>
  BY DEF Init, ServerInit
<1>2. calls \in Seq(GoodCall({}))
  BY <1>1
<1>3. CallsInv
  BY <1>1, <1>2, CatalogueAssumption DEF CallsInv
<1>4. ReadingInv /\ KeysInv /\ RowsInv /\ BorrowedTitleIsAlone /\ PicksStayInTheirSet
  BY <1>1 DEF ReadingInv, KeysInv, RowsInv, BorrowedTitleIsAlone, PicksStayInTheirSet
<1>5. KeptInv
  BY KeptInit DEF Init
<1> QED
  BY <1>3, <1>4, <1>5 DEF Inv, TableInv

(* A table with some of the rows only, if whole directories of them, is as
   good as the table. *)
LEMMA FewerDirectories ==
  ASSUME TableInv, rows' \subseteq rows,
         \A l, p : RowsIn(rows', l, p) \in {{}, RowsIn(rows, l, p)}
  PROVE  KeysInv' /\ RowsInv' /\ BorrowedTitleIsAlone'
<1>1. KeysInv' /\ RowsInv'
  BY DEF TableInv, KeysInv, RowsInv
<1>2. BorrowedTitleIsAlone'
  <2> SUFFICES ASSUME NEW r \in rows', Borrowed(r.video)
               PROVE  RowsIn(rows', r.lib, r.parent) = {r}
    BY DEF BorrowedTitleIsAlone, Borrowed
  <2>1. RowsIn(rows, r.lib, r.parent) = {r}
    BY DEF TableInv, BorrowedTitleIsAlone, Borrowed
  <2>2. r \in RowsIn(rows', r.lib, r.parent)
    BY DEF RowsIn
  <2> QED
    BY <2>1, <2>2
<1> QED
  BY <1>1, <1>2

LEMMA WriteGood ==
  ASSUME TableInv, WriteDirectory
  PROVE  ReadingInv' /\ KeysInv' /\ RowsInv' /\ BorrowedTitleIsAlone'
<1> DEFINE lib == reading[1].library.name
           parent == reading[1].parent
           records == reading[1].records
<1>1. reading # <<>> /\ reading' = <<>>
  BY DEF WriteDirectory
<1>2. parent \in Directory /\ GoodRecords(records)
  BY <1>1, FinishedIsGood DEF TableInv, ReadingInv, GoodReading
<1>3. ReadingInv'
  BY <1>1 DEF ReadingInv
<1>4. CASE rows' = rows
  <2>1. \A l, p : RowsIn(rows', l, p) = RowsIn(rows, l, p)
    BY <1>4
  <2> QED
    BY <1>3, <1>4, <2>1, FewerDirectories
<1>5. CASE rows' = ReconcileDirectory(rows, lib, parent, records, 0)
  <2> HIDE DEF lib, parent, records
  <2>1. \A v, w \in records : v.name = w.name => v = w
    BY <1>2 DEF GoodRecords
  <2>2. KeysInv'
    BY <1>5, <2>1, ReconcileKeepsNames DEF TableInv, KeysInv
  <2>3. \A r \in rows' : r \in rows \/ \E v \in records : r = RowFor(lib, parent, v, 0)
    BY <1>5, ReconcileAddsOnly
  <2>4. \A v : /\ RowFor(lib, parent, v, 0).lib = lib
               /\ RowFor(lib, parent, v, 0).parent = parent
               /\ RowFor(lib, parent, v, 0).video = v
    BY DEF RowFor
  <2>5. RowsInv'
    BY <1>2, <2>3, <2>4 DEF TableInv, RowsInv, GoodRecords
  <2>6. BorrowedTitleIsAlone'
    <3> SUFFICES ASSUME NEW r \in rows', Borrowed(r.video)
                 PROVE  RowsIn(rows', r.lib, r.parent) = {r}
      BY DEF BorrowedTitleIsAlone, Borrowed
    <3>1. r \in RowsIn(rows', r.lib, r.parent)
      BY DEF RowsIn
    <3>2. CASE r.lib = lib /\ r.parent = parent
      <4>1. RowsIn(rows', lib, parent) = {RowFor(lib, parent, v, 0) : v \in records}
        BY <1>5, ReconcileReplaces
      <4>2. PICK v \in records : r = RowFor(lib, parent, v, 0)
        BY <3>1, <3>2, <4>1
      <4>3. records = {v}
        BY <1>2, <2>4, <4>2 DEF GoodRecords
      <4> QED
        BY <3>2, <4>1, <4>2, <4>3
    <3>3. CASE ~ (r.lib = lib /\ r.parent = parent)
      <4>1. RowsIn(rows', r.lib, r.parent) = RowsIn(rows, r.lib, r.parent)
        BY <1>5, <3>3, ReconcileIsLocal
      <4>2. r \in rows
        BY <3>1, <4>1 DEF RowsIn
      <4> QED
        BY <4>1, <4>2 DEF TableInv, BorrowedTitleIsAlone, Borrowed
    <3> QED
      BY <3>2, <3>3
  <2> QED
    BY <1>3, <2>2, <2>5, <2>6
<1> QED
  BY <1>4, <1>5 DEF WriteDirectory

LEMMA ForgetGood ==
  ASSUME TableInv, NEW i \in DOMAIN libraries, NEW dir \in Directory, ForgetTree(i, dir)
  PROVE  KeysInv' /\ RowsInv' /\ BorrowedTitleIsAlone'
<1>1. rows' = RemoveTree(rows, libraries[i].name, dir)
  BY DEF ForgetTree
<1>2. rows' \subseteq rows
  BY <1>1 DEF RemoveTree
<1>3. \A l, p : RowsIn(rows', l, p) \in {{}, RowsIn(rows, l, p)}
  BY <1>1, RemoveTreeRows
<1> QED
  BY <1>2, <1>3, FewerDirectories

LEMMA StartGood ==
  ASSUME TableInv, NEW setup \in Setups, NEW binary \in Binaries, Start(setup, binary)
  PROVE  /\ KeysInv' /\ RowsInv' /\ BorrowedTitleIsAlone'
         /\ PicksStayInTheirSet => PicksStayInTheirSet'
<1>1. \/ rows' = rows /\ overrides' = overrides
      \/ rows' = {} /\ overrides' = <<>>
  BY DEF Start
<1>2. CASE rows' = rows /\ overrides' = overrides
  BY <1>2 DEF TableInv, KeysInv, RowsInv, BorrowedTitleIsAlone, PicksStayInTheirSet
<1>3. CASE rows' = {} /\ overrides' = <<>>
  BY <1>3 DEF KeysInv, RowsInv, BorrowedTitleIsAlone, PicksStayInTheirSet
<1> QED
  BY <1>1, <1>2, <1>3

(* The pick that passes the check names a title of its set ... *)
LEMMA FindGood ==
  ASSUME Inv, NEW i \in DOMAIN calls, FindPicked(i)
  PROVE  CallsInv'
<1> DEFINE request == calls[i].request
           found == RowAt(request.library[1], request.path)
<1>1. CASE \E answer : Reply(i, answer)
  BY <1>1, ReplyIsGood DEF Inv
<1>2. CASE \E r \in found : DiscSetOf(r) = <<request.disc_set>> /\ Proceed(i)
  <2>1. PICK r \in found : DiscSetOf(r) = <<request.disc_set>> /\ Proceed(i)
    BY <1>2
  <2>2. r \in rows /\ request.path = [parent |-> r.parent, name |-> r.video.name]
    BY <2>1 DEF RowAt, PathOf
  <2>3. r.video.facts.disc_set = << parse_rip_name(r.video.name).prefix >>
    BY <2>1, <2>2 DEF Inv, TableInv, RowsInv, InItsSet, DiscSetOf
  <2> HIDE DEF request, found
  <2>4. parse_rip_name(r.video.name).prefix = request.disc_set
    BY <2>1, <2>3 DEF DiscSetOf
  <2>5. request.library[1] \in LibraryName
    BY <2>1 DEF Inv, KeptInv, NamesInv, RowAt, found
  <2>6. PickInItsSet(request)
    BY <2>2, <2>4, <2>5 DEF PickInItsSet
  <2> QED
    BY <2>1, <2>6, ProceedIsGood DEF Inv, request
<1> QED
  BY <1>1, <1>2 DEF FindPicked, DbFails

(* ... and stays so until it is written. *)
LEMMA SetMainGood ==
  ASSUME Inv, NEW i \in DOMAIN calls, SetMainTitle(i)
  PROVE  CallsInv' /\ PicksStayInTheirSet'
<1> DEFINE request == calls[i].request
           key == PickOf(request.library[1], request.disc_set)
<1>1. CallsInv'
  BY ReplyIsGood DEF SetMainTitle, DbFails, Inv
<1>2. PickInItsSet(request)
  <2>1. PICK Answers : calls \in Seq(GoodCall(Answers))
    BY DEF Inv, CallsInv
  <2>2. calls[i] \in GoodCall(Answers)
    BY <2>1, ElementOfSeq
  <2> QED
    BY <2>2 DEF GoodCall, SetMainTitle, Checked
<1>3. CASE overrides' = overrides
  BY <1>1, <1>3 DEF Inv, PicksStayInTheirSet
<1>4. CASE overrides' = Put(overrides, key, request.path)
  <2>1. key.disc_set = request.disc_set
    BY DEF PickOf
  <2> HIDE DEF key, request
  <2>2. /\ DOMAIN overrides' = {key} \cup DOMAIN overrides
        /\ overrides'[key] = request.path
        /\ \A k \in DOMAIN overrides \ {key} : overrides'[k] = overrides[k]
      BY <1>4 DEF Put
  <2> QED
    BY <1>1, <1>2, <2>1, <2>2 DEF Inv, PicksStayInTheirSet, PickInItsSet
<1> QED
  BY <1>3, <1>4 DEF SetMainTitle

LEMMA OtherAnswersGood ==
  ASSUME Inv, NEW i \in DOMAIN calls,
         \/ Refuse(i) \/ EnsureDirectoryExists(i) \/ Browse(i)
         \/ Item(i) \/ Libraries(i) \/ Search(i)
  PROVE  CallsInv'
<1>1. CASE \E answer : Reply(i, answer)
  BY <1>1, ReplyIsGood DEF Inv
<1>2. CASE EnsureDirectoryExists(i) /\ Proceed(i)
  BY <1>2, ProceedIsGood DEF Inv, EnsureDirectoryExists, Asked
<1> QED
  BY <1>1, <1>2 DEF Refuse, EnsureDirectoryExists, Browse, Item, Libraries, Search, DbFails

(* The table, whatever the server does ... *)
LEMMA BackendTable ==
  ASSUME TableInv, Backend
  PROVE  TableInv'
<1> DEFINE RowsKept == (KeysInv' /\ RowsInv' /\ BorrowedTitleIsAlone') \/ UNCHANGED rows
<1>1. ASSUME ReadingInv' \/ UNCHANGED reading, RowsKept
      PROVE  TableInv'
  BY <1>1 DEF TableInv, ReadingInv, KeysInv, RowsInv, BorrowedTitleIsAlone
<1>2. CASE UNCHANGED <<rows, reading>>
  BY <1>1, <1>2
<1>3. CASE DiskChanges
  <2>1. \E path, directories : Change(path, directories)
    BY <1>3 DEF DiskChanges, RemoveVideo, PutVideo, PutNfo, MakeDirectory, RemoveDirectory
  <2> QED
    BY <1>2, <2>1 DEF Change, tables
<1>4. CASE \E setup \in Setups, binary \in Binaries : Start(setup, binary)
  BY <1>1, <1>4, StartGood DEF Start
<1>5. CASE Crash
  BY <1>1, <1>5 DEF ReadingInv, Crash, tables
<1>6. CASE Reads
  BY <1>1, <1>6, OpenGood, StatGood, BuildGood DEF Reads, TableInv, tables
<1>7. CASE \E i \in DOMAIN libraries, dir \in Directory : ForgetTree(i, dir)
  BY <1>1, <1>7, ForgetGood DEF ForgetTree
<1>8. CASE WriteDirectory
  BY <1>1, <1>8, WriteGood DEF WriteDirectory
<1>9. CASE \E i \in DOMAIN calls : Handle(i)
  BY <1>2, <1>9 DEF Handle, Refuse, EnsureDirectoryExists, Browse, Item, Libraries, Search,
     FindPicked, SetMainTitle, Asked, Checked, tables
<1> QED
  BY <1>3, <1>4, <1>5, <1>6, <1>7, <1>8, <1>9 DEF Backend, Reads

(* ... and with it the requests and the picks, whatever anyone does. *)
LEMMA StepGood == Inv /\ [Next]_vars => Inv'
<1> SUFFICES ASSUME Inv, [Next]_vars
             PROVE  Inv'
  OBVIOUS
<1>1. TableInv'
  <2>1. CASE UNCHANGED <<rows, reading>>
    BY <2>1 DEF Inv, TableInv, ReadingInv, KeysInv, RowsInv, BorrowedTitleIsAlone
  <2> QED
    BY <2>1, BackendTable DEF Inv, Next, Ask, Take, tables, vars
<1>0. KeptInv'
  <2>1. PicksNamed
    <3>1. PICK Answers : calls \in Seq(GoodCall(Answers))
      BY DEF Inv, CallsInv
    <3>2. \A i \in DOMAIN calls : calls[i] \in GoodCall(Answers)
      BY <3>1, ElementOfSeq
    <3> QED
      BY <3>2 DEF PicksNamed, GoodCall, PickInItsSet
  <2>2. CASE UNCHANGED <<disk, changes, starts, libraries, version, rows, overrides, reading>>
    BY <2>2 DEF Inv, KeptInv, LibrariesInv, NamesInv, DiskInv, CountsInv
  <2> QED
    BY <2>1, <2>2, BackendKept DEF Inv, TableInv, Next, Ask, Take, tables, vars
<1> DEFINE CallsKept == CallsInv' \/ UNCHANGED calls
           PicksKept == PicksStayInTheirSet' \/ UNCHANGED overrides
<1>2. ASSUME CallsKept, PicksKept
      PROVE  Inv'
  BY <1>1, <1>0, <1>2 DEF Inv, CallsInv, PicksStayInTheirSet
<1>3. CASE UNCHANGED <<overrides, calls>>
  BY <1>2, <1>3
<1>4. CASE DiskChanges
  <2>1. \E path, directories : Change(path, directories)
    BY <1>4 DEF DiskChanges, RemoveVideo, PutVideo, PutNfo, MakeDirectory, RemoveDirectory
  <2> QED
    BY <1>3, <2>1 DEF Change, tables
<1>5. CASE \E setup \in Setups, binary \in Binaries : Start(setup, binary)
  BY <1>2, <1>5, StartGood DEF Inv, Start
<1>6. CASE Crash
  BY <1>2, <1>6, CrashIsGood DEF Inv, Crash, tables
<1>7. CASE \/ WriteDirectory
           \/ Reads
           \/ \E i \in DOMAIN libraries, dir \in Directory : ForgetTree(i, dir)
  BY <1>3, <1>7 DEF WriteDirectory, Reads, OpenDirectory, StatEntry, BuildRecord, Reading,
     ForgetTree, tables
<1>8. CASE \E i \in DOMAIN calls : Handle(i)
  <2>1. PICK i \in DOMAIN calls : Handle(i)
    BY <1>8
  <2>2. CASE FindPicked(i)
    BY <1>2, <2>2, FindGood DEF FindPicked, Asked, tables
  <2>3. CASE SetMainTitle(i)
    BY <1>2, <2>3, SetMainGood
  <2>4. CASE \/ Refuse(i) \/ EnsureDirectoryExists(i) \/ Browse(i)
             \/ Item(i) \/ Libraries(i) \/ Search(i)
    BY <1>2, <2>4, OtherAnswersGood DEF Refuse, EnsureDirectoryExists, Browse, Item,
       Libraries, Search, Asked, Checked, tables
  <2> QED
    BY <2>1, <2>2, <2>3, <2>4 DEF Handle
<1>9. CASE \E request \in Requests : Ask(request)
  BY <1>2, <1>9, AskIsGood DEF Inv, Ask, tables
<1>10. CASE \E i \in DOMAIN calls : Take(i)
  BY <1>2, <1>10, TakeIsGood DEF Inv, Take, tables
<1> QED
  BY <1>3, <1>4, <1>5, <1>6, <1>7, <1>8, <1>9, <1>10 DEF Next, Backend, Reads, vars

LEMMA InvAlways == Spec => []Inv
<1>1. Init => Inv
  BY InitGood
<1>2. Inv /\ [Next]_vars => Inv'
  BY StepGood
<1> QED
  BY <1>1, <1>2, PTL DEF Spec
-------------------------------------------------------------------------------
(* Types, with the libraries of a process told apart by name. *)
THEOREM CatalogueTypes == Spec => []TypeOK
<1>1. Inv => TypeOK
  <2> SUFFICES ASSUME Inv
               PROVE  TypeOK
    OBVIOUS
  <2>1. LibrariesInv /\ NamesInv /\ DiskInv /\ CountsInv
    BY DEF Inv, KeptInv
  <2>2. KeysInv /\ RowsInv
    BY DEF Inv, TableInv
  <2>3. PICK Answers : calls \in Seq(GoodCall(Answers))
    BY DEF Inv, CallsInv
  <2>4. \A i \in DOMAIN calls : calls[i] \in GoodCall(Answers)
    BY <2>3, ElementOfSeq
  <2>5. \A i \in DOMAIN calls : calls[i].phase \in {"sent", "checked", "answered"}
    BY <2>4 DEF GoodCall
  <2>6. Len(calls) <= MaxCalls
    BY DEF Inv, CallsInv
  <2>7. \A r \in rows : r.lib \in LibraryName /\ r.parent \in Directory
    BY <2>1, <2>2 DEF NamesInv, RowsInv
  <2> QED
    BY <2>1, <2>2, <2>5, <2>6, <2>7
       DEF TypeOK, LibrariesInv, NamesInv, DiskInv, CountsInv, KeysInv
<1> QED
  BY <1>1, InvAlways, PTL

(* A title read from a sidecar of another stem is shown of one file only, the
   only one of its directory, however readings and changes interleave. *)
THEOREM BorrowedTitles == Spec => []BorrowedTitleIsAlone
<1>1. Inv => BorrowedTitleIsAlone
  BY DEF Inv, TableInv
<1> QED
  BY <1>1, InvAlways, PTL

(* A pick names a file of its set, though it is checked and written by two
   statements. *)
THEOREM PicksStay == Spec => []PicksStayInTheirSet
<1>1. Inv => PicksStayInTheirSet
  BY DEF Inv
<1> QED
  BY <1>1, InvAlways, PTL

(* What an entry for a disc set holds: rows of its directory. *)
LEMMA EntryOfSet ==
  ASSUME NEW library, NEW dir,
         NEW e \in DirListing(library, dir).entries, e.type = "disc_set"
  PROVE  \E S \in SUBSET RowsIn(rows, library.name, dir) :
           e = disc_set_entry(library.name, e.disc_set, S)
<1> DEFINE here == RowsIn(rows, library.name, dir)
           sets == disc_set_groups(library.kind, here).sets
<1>1. PICK set \in DOMAIN sets : e = disc_set_entry(library.name, set, sets[set])
  BY DEF DirListing, assemble_entries, directory_entries
<1>2. sets[set] \subseteq here
  BY DEF disc_set_groups
<1> HIDE DEF sets, here
<1>3. e.disc_set = set
  BY <1>1 DEF disc_set_entry
<1> QED
  BY <1>1, <1>2, <1>3 DEF here

(* The operator's pick is the main title of a listed set wherever its file is
   among the titles: the primary key leaves one row it can mean. *)
StarsThePick(picks, listing) ==
  \A e \in listing.entries :
    e.type = "disc_set" =>
      LET key == PickOf(listing.library, e.disc_set)
      IN  key \in DOMAIN picks =>
            \A r \in e.titles : PathOf(r) = picks[key] => e.main = r

LEMMA ListingStarsThePick ==
  ASSUME KeysInv, NEW library, NEW dir
  PROVE  StarsThePick(overrides, DirListing(library, dir))
<1> DEFINE listing == DirListing(library, dir)
           here == RowsIn(rows, library.name, dir)
<1>1. listing.library = library.name
  BY DEF DirListing
<1> HIDE DEF listing
<1> SUFFICES ASSUME NEW e \in listing.entries, e.type = "disc_set",
                    PickOf(library.name, e.disc_set) \in DOMAIN overrides,
                    NEW r \in e.titles,
                    PathOf(r) = overrides[PickOf(library.name, e.disc_set)]
             PROVE  e.main = r
  BY <1>1 DEF StarsThePick, listing
<1> DEFINE key == PickOf(library.name, e.disc_set)
<1>2. PICK S \in SUBSET here : e = disc_set_entry(library.name, e.disc_set, S)
  BY EntryOfSet DEF listing
<1>3. S \subseteq here
  OBVIOUS
<1> HIDE DEF here
<1>4. e.titles = S /\ e.main = MainOf(library.name, e.disc_set, S)
  BY <1>2 DEF disc_set_entry
<1> DEFINE picked == {s \in S : key \in DOMAIN overrides /\ PathOf(s) = overrides[key]}
<1>5. r \in picked
  BY <1>4
<1>6. \A s \in picked : s = r
  <2> SUFFICES ASSUME NEW s \in S, PathOf(s) = PathOf(r)
               PROVE  s = r
    OBVIOUS
  <2>1. s.parent = r.parent /\ s.video.name = r.video.name
    BY DEF PathOf
  <2>2. s \in rows /\ r \in rows /\ s.lib = r.lib
    BY <1>3, <1>4 DEF here, RowsIn
  <2> QED
    BY <2>1, <2>2 DEF KeysInv, SameVideo
<1>7. picked = {r}
  BY <1>5, <1>6
<1>8. MainOf(library.name, e.disc_set, S) = CHOOSE s \in picked : TRUE
  BY <1>5 DEF MainOf
<1> QED
  BY <1>4, <1>7, <1>8

(* So it is in every listing, and no step but another pick, or the start of a
   binary with another schema, takes a pick away. *)
LEMMA PicksAreShown ==
  ASSUME KeysInv, NEW pick, NEW path, pick \in DOMAIN overrides, overrides[pick] = path
  PROVE  IsShown(pick, path)
<1> SUFFICES ASSUME NEW i \in DOMAIN libraries, NEW dir \in Directory,
                    NEW e \in DirListing(libraries[i], dir).entries,
                    e.type = "disc_set", PickOf(libraries[i].name, e.disc_set) = pick,
                    NEW r \in e.titles, PathOf(r) = path
             PROVE  e.main = r
  BY DEF IsShown
<1>1. StarsThePick(overrides, DirListing(libraries[i], dir))
  BY ListingStarsThePick
<1>2. DirListing(libraries[i], dir).library = libraries[i].name
  BY DEF DirListing
<1> QED
  BY <1>1, <1>2 DEF StarsThePick

LEMMA PicksAreKept ==
  ASSUME Next, NEW pick \in DOMAIN overrides, ~ PickedAnew(pick), version' = version
  PROVE  pick \in DOMAIN overrides' /\ overrides'[pick] = overrides[pick]
<1>1. CASE UNCHANGED overrides
  BY <1>1
<1>2. ASSUME NEW i \in DOMAIN calls, SetMainTitle(i)
      PROVE  pick \in DOMAIN overrides' /\ overrides'[pick] = overrides[pick]
  <2> DEFINE key == PickOf(calls[i].request.library[1], calls[i].request.disc_set)
  <2>1. key # pick
    BY <1>2 DEF PickedAnew
  <2>2. UNCHANGED overrides \/ overrides' = Put(overrides, key, calls[i].request.path)
    BY <1>2 DEF SetMainTitle
  <2> HIDE DEF key
  <2> QED
    BY <2>1, <2>2 DEF Put
<1>3. ASSUME NEW setup \in Setups, NEW binary \in Binaries, Start(setup, binary)
      PROVE  UNCHANGED overrides
  BY <1>3 DEF Start
<1>4. CASE DiskChanges
  <2>1. PICK path, directories : Change(path, directories)
    BY <1>4 DEF DiskChanges, RemoveVideo, PutVideo, PutNfo, MakeDirectory, RemoveDirectory
  <2> QED
    BY <1>1, <2>1 DEF Change, tables
<1>5. CASE Crash \/ Reads \/ WriteDirectory
  BY <1>1, <1>5 DEF Crash, Reads, OpenDirectory, StatEntry, BuildRecord, Reading,
     WriteDirectory, tables
<1>6. CASE \E i \in DOMAIN libraries, dir \in Directory : ForgetTree(i, dir)
  BY <1>1, <1>6 DEF ForgetTree
<1>7. ASSUME NEW i \in DOMAIN calls, Handle(i), ~ SetMainTitle(i)
      PROVE  UNCHANGED overrides
  BY <1>7 DEF Handle, Refuse, EnsureDirectoryExists, Browse, Item, Libraries, Search,
     FindPicked, Asked, Checked, tables
<1>8. CASE \/ \E request \in Requests : Ask(request)
           \/ \E i \in DOMAIN calls : Take(i)
  BY <1>1, <1>8 DEF Ask, Take, tables
<1> QED
  BY <1>1, <1>2, <1>3, <1>4, <1>5, <1>6, <1>7, <1>8 DEF Next, Backend, Reads

PicksShown == \A pick \in DOMAIN overrides : IsShown(pick, overrides[pick])

(* A pick is kept, and is the main of its set in every listing its title is in,
   through rewrites of directories, changes of the disk, crashes and restarts:
   only another pick, or a binary of another SCHEMA_VERSION, ends that.  It
   needs the primary key of disc_set_overrides and that of videos. *)
THEOREM PicksOutlive == Spec => PickOutlivesChanges
<1>1. Inv => PicksShown
  BY PicksAreShown DEF Inv, TableInv, PicksShown
<1>2. Inv' => PicksShown'
  BY <1>1, PTL
<1>3. Inv /\ Inv' /\ [Next]_vars =>
        [\A pick \in DOMAIN overrides : \A path \in {overrides[pick]} :
           \/ PickedAnew(pick)
           \/ version' # version
           \/ /\ pick \in DOMAIN overrides' /\ overrides'[pick] = path
              /\ IsShown(pick, path)']_vars
  <2> SUFFICES ASSUME Inv', Next, NEW pick \in DOMAIN overrides, NEW path,
                      path = overrides[pick], ~ PickedAnew(pick), version' = version
               PROVE  /\ pick \in DOMAIN overrides' /\ overrides'[pick] = path
                      /\ IsShown(pick, path)'
    OBVIOUS
  <2>1. pick \in DOMAIN overrides' /\ overrides'[pick] = path
    BY PicksAreKept
  <2>2. IsShown(pick, path)'
    BY <1>2, <2>1 DEF PicksShown
  <2> QED
    BY <2>1, <2>2
<1> QED
  BY <1>3, InvAlways, PTL DEF Spec, PickOutlivesChanges

(* Every video is reached from the root of its library through listings. *)
THEOREM Reachable == Spec => []EveryVideoReachable
<1>1. Inv => EveryVideoReachable
  <2> SUFFICES ASSUME Inv, NEW i \in DOMAIN libraries, NEW r \in rows,
                      r.lib = libraries[i].name, NEW n \in DOMAIN r.parent
               PROVE  [type |-> "directory", path |-> SubSeq(r.parent, 1, n)]
                        \in DirListing(libraries[i], SubSeq(r.parent, 1, n - 1)).entries
    BY DEF EveryVideoReachable
  <2> DEFINE p == r.parent
             dir == SubSeq(p, 1, n - 1)
  <2>1. p \in Seq(Name)
    BY CatalogueAssumption DEF Inv, TableInv, RowsInv
  <2> HIDE DEF p
  <2>2. n \in 1..Len(p) /\ Len(p) \in Nat
    BY <2>1, LenProperties DEF p
  <2>3. dir \in Seq(Name) /\ Len(dir) = n - 1
    BY <2>1, <2>2, SubSeqProperties
  <2>4. \A j \in 1..(n - 1) : dir[j] = p[j]
    BY <2>1, <2>2, SubSeqProperties
  <2>5. SubSeq(p, 1, n) = Append(dir, p[n])
    BY <2>1, <2>2, SubSeqRecursiveSecond
  <2> HIDE DEF dir
  <2>6. IsPrefix(dir, p) /\ p # dir
    BY <2>1, <2>2, <2>3, <2>4, PrefixByName
  <2>7. p[n] \in Subdirectories(r.lib, dir)
    BY <2>2, <2>3, <2>6 DEF Subdirectories, p
  <2>8. [type |-> "directory", path |-> Append(dir, p[n])] \in directory_entries(r.lib, dir)
    BY <2>7 DEF directory_entries
  <2> QED
    BY <2>5, <2>8 DEF DirListing, assemble_entries, p, dir
<1> QED
  BY <1>1, InvAlways, PTL
===============================================================================

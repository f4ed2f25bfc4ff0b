-------------------------------- MODULE Records -------------------------------
(***************************************************************************)
(* What a scan makes of a master video (build_record of index/scan.rs): the *)
(* record it reads off the file, its NFO (crates/lib nfo.rs) and info.json  *)
(* sidecars, and what the name of a disc rip says (crates/lib disc.rs).    *)
(*                                                                         *)
(* A file name is taken apart where the code looks at it: the head, whether *)
(* a "_title" remnant follows, the number of a trailing "_tNN" and the     *)
(* extension.  Every sidecar has a title of its own, so that a title names *)
(* the file it was read from.  Option<T> is <<>> or <<t>>.                 *)
(***************************************************************************)
EXTENDS MediaIndex, FiniteSets

CONSTANTS
  Size,     \* file sizes
  NfoText   \* what .nfo files may contain, see parse_nfo

ASSUME RecordsAssumption ==
  /\ Size \subseteq Nat
  /\ VideoName \subseteq [head : STRING, remnant : BOOLEAN,
                          index : Nat \cup {-1}, ext : STRING]
  /\ NfoText \subseteq
       [body : {"empty", "reference", "document"}, root : STRING,
        stray : BOOLEAN, well_formed : BOOLEAN, title : BOOLEAN]

NoIndex == -1  \* Option<u32>::None, which sorts before every index

StemOf(name) ==
  [head |-> name.head, remnant |-> name.remnant, index |-> name.index]

FolderStem == [head |-> "movie", remnant |-> FALSE, index |-> NoIndex]

Stem == {StemOf(name) : name \in VideoName} \cup {FolderStem}

(***************************************************************************)
(* disc.rs.  The remnant is stripped only in front of an index: a name     *)
(* without one is its own prefix, whole.                                   *)
(***************************************************************************)
parse_rip_name(name) ==
  [prefix |-> [head |-> name.head,
               remnant |-> name.remnant /\ name.index = NoIndex],
   title_index |-> name.index]

(***************************************************************************)
(* nfo.rs.  A body without any '<' is empty or a reference to a database;  *)
(* `root` is "" when no element starts.  `stray` stands for the ampersands *)
(* that begin no XML entity, which the XML parser rejects.                 *)
(***************************************************************************)
DocumentType == {"movie", "episodedetails", "tvshow"}

sanitize_entities(text) == [text EXCEPT !.stray = FALSE]

IsDocument(text) ==
  /\ text.body = "document"
  /\ text.root \in DocumentType
  /\ text.well_formed
  /\ ~ text.stray

\* <<>> for Err(NfoError), which read_nfo logs and passes over.
parse_nfo(text) ==
  IF text.body = "reference" THEN << [title |-> FALSE] >>
  ELSE IF IsDocument(sanitize_entities(text)) THEN << [title |-> text.title] >>
  ELSE <<>>

nfo_candidates(stem) == <<stem, FolderStem>>

(***************************************************************************)
(* A directory: the sizes of the master videos in it, the texts of the     *)
(* .nfo files and the stems of the info.json files that carry a title.     *)
(***************************************************************************)
NoContents == [videos |-> <<>>, nfo |-> <<>>, info |-> {}]

\* The first candidate that is there and parses, with the stem it was found
\* at; the folder's only where it is not ambiguous.
read_nfo(sidecars, stem, allow_folder_nfo) ==
  LET Candidates == nfo_candidates(stem)
      Parsed(i) == /\ i = 1 \/ allow_folder_nfo
                   /\ Candidates[i] \in DOMAIN sidecars.nfo
                   /\ parse_nfo(sidecars.nfo[Candidates[i]]) # <<>>
      found == {i \in DOMAIN Candidates : Parsed(i)}
  IN  IF found = {} THEN <<>>
      ELSE LET at == Candidates[Min(found)]
           IN  << [at |-> at, nfo |-> parse_nfo(sidecars.nfo[at])[1]] >>

\* Precedence of titles: the NFO, info.json, then the name of a disc rip.
title_of(sidecars, name, discs, allow_folder_nfo) ==
  LET stem == StemOf(name)
      nfo == read_nfo(sidecars, stem, allow_folder_nfo)
  IN  IF nfo # <<>> /\ nfo[1].nfo.title
        THEN << [source |-> "nfo", of |-> nfo[1].at] >>
      ELSE IF stem \in sidecars.info
        THEN << [source |-> "info_json", of |-> stem] >>
      ELSE IF discs
        THEN << [source |-> "rip_name", of |-> parse_rip_name(name).prefix] >>
      ELSE <<>>

\* The record of a video of that size, with the directory its sidecars are
\* looked for in.
build_record(sidecars, name, size, discs, allow_folder_nfo) ==
  LET rip_name == parse_rip_name(name)
  IN  [name  |-> name,
       facts |-> [size |-> size,
                  title |-> title_of(sidecars, name, discs, allow_folder_nfo),
                  disc_set |-> IF discs THEN <<rip_name.prefix>> ELSE <<>>,
                  disc_title_index |->
                    IF discs THEN rip_name.title_index ELSE NoIndex]]
===============================================================================

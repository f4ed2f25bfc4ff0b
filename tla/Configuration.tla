----------------------------- MODULE Configuration ----------------------------
(***************************************************************************)
(* How a process gets its libraries (config.rs, library.rs).  A setup is   *)
(* what the command line and the config file say: `cli` is the path of the *)
(* --library flag, <<>> or <<path>>, and `file` the sequence of [[library]] *)
(* entries.                                                                *)
(***************************************************************************)
EXTENDS Integers, Sequences

CONSTANTS
  LibraryName,  \* names an entry may have
  UrlSafe,      \* those of them made of lowercase letters, digits, '_' and '-'
  LibraryPath   \* paths an entry may have

ASSUME ConfigurationAssumption ==
  /\ UrlSafe \subseteq LibraryName
  /\ "downloads" \in UrlSafe

LibraryKind == {"Downloads", "Discs"}

Library == [name : LibraryName, path : LibraryPath, kind : LibraryKind]

valid_library_name(name) == name \in UrlSafe

\* The flag wins outright and stands for one library under a fixed name.
Candidates(setup) ==
  IF setup.cli = <<>> THEN setup.file
  ELSE << [name |-> "downloads", path |-> setup.cli[1], kind |-> "Downloads"] >>

DuplicatesAllowed(setup, existing) ==  \* mutant: no `seen` set
  LET entries == Candidates(setup)
      IsGood(i) == valid_library_name(entries[i].name) /\ entries[i].path \in existing
  IN  IF \A i \in DOMAIN entries : IsGood(i) THEN entries ELSE <<>>

(***************************************************************************)
(* Config::resolve_libraries: the libraries, or <<>> where the process     *)
(* refuses to start.  One bad entry refuses them all.                      *)
(***************************************************************************)
resolve_libraries(setup, existing) ==
  LET entries == Candidates(setup)
      IsGood(i) == /\ valid_library_name(entries[i].name)
                   /\ \A j \in 1..(i - 1) : entries[j].name # entries[i].name
                   /\ entries[i].path \in existing
  IN  IF \A i \in DOMAIN entries : IsGood(i) THEN entries ELSE <<>>

\* AppState::library: the first library of that name, as <<>> or <<it>>.
LibraryNamed(libraries, name) ==
  LET first == {i \in DOMAIN libraries :
                  /\ libraries[i].name = name
                  /\ \A j \in 1..(i - 1) : libraries[j].name # name}
  IN  IF first = {} THEN <<>> ELSE << libraries[CHOOSE i \in first : TRUE] >>
===============================================================================

----------------------------- MODULE MCCatalogue ------------------------------
(***************************************************************************)
(* Instances of Catalogue for TLC.                                         *)
(***************************************************************************)
EXTENDS Catalogue

\* M_title_t0.mkv, M_t1.mkv and movie.mkv: a disc set of two and a video whose
\* own NFO is the folder's.
Main0 == [head |-> "M", remnant |-> TRUE, index |-> 0, ext |-> "mkv"]
Main1 == [head |-> "M", remnant |-> FALSE, index |-> 1, ext |-> "mkv"]
Movie == [head |-> "movie", remnant |-> FALSE, index |-> -1, ext |-> "mkv"]

SetAndMovie == {Main0, Main1, Movie}
NameOrder == (Main0 :> 1) @@ (Main1 :> 0) @@ (Movie :> 2)

Titled == [body |-> "document", root |-> "movie", stray |-> TRUE,
           well_formed |-> TRUE, title |-> TRUE]
Url == [body |-> "reference", root |-> "", stray |-> FALSE,
        well_formed |-> FALSE, title |-> FALSE]
Junk == [body |-> "document", root |-> "html", stray |-> FALSE,
         well_formed |-> TRUE, title |-> TRUE]
Texts == {Titled, Url, Junk}

NoFold == [n \in Name |-> n]

NestedTree == {<<>>, <<"a">>, <<"a", "b">>}

Folder(videos) == [videos |-> videos, nfo |-> <<>>, info |-> {}]

\* The library: a disc in a nested directory, and its second title again in the
\* directory above, beside a film whose own NFO is named like the folder's.
DiscInTree ==
  [path \in LibraryPath |->
     (<<>> :> NoContents)
       @@ (<<"a">> :> [Folder((Main1 :> 2) @@ (Movie :> 1)) EXCEPT !.nfo = FolderStem :> Titled])
       @@ (<<"a", "b">> :> Folder((Main0 :> 2) @@ (Main1 :> 1)))]

EmptyLibrary == [path \in LibraryPath |-> <<>> :> NoContents]

Disks == {DiscInTree, EmptyLibrary}

Discs == [name |-> "discs", path |-> "r", kind |-> "Discs"]
FromFile == [cli |-> <<>>, file |-> <<Discs>>]
FromFlag == [cli |-> <<"r">>, file |-> <<Discs>>]
Twice == [cli |-> <<>>, file |-> <<Discs, Discs>>]
AllSetups == {FromFile, FromFlag, Twice}

AskMain(set, dir, name) ==
  [op |-> "set_main", library |-> <<"discs">>, disc_set |-> set,
   path |-> [parent |-> dir, name |-> name]]

\* A title of the set, and a video that is none.
TheSet == parse_rip_name(Main0).prefix
AllRequests == {AskMain(TheSet, <<"a", "b">>, Main1),
                AskMain(TheSet, <<"a">>, Movie)}

\* A version is only ever compared with another.
AnyBinary == Permutations(Binaries)
===============================================================================

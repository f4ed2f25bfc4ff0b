------------------------------ MODULE MCFrontend ------------------------------
(***************************************************************************)
(* Instances of Frontend for TLC.                                          *)
(***************************************************************************)
EXTENDS Frontend

\* A disc of two titles in a directory.
Title0 == [head |-> "M", remnant |-> TRUE, index |-> 0, ext |-> "mkv"]
Title1 == [head |-> "M", remnant |-> FALSE, index |-> 1, ext |-> "mkv"]
Titles == {Title0, Title1}
TitleOrder == (Title0 :> 1) @@ (Title1 :> 0)

NoFold == [n \in Name |-> n]
FlatTree == {<<>>, <<"a">>}

OneDisc ==
  {[path \in LibraryPath |->
      (<<>> :> NoContents)
        @@ (<<"a">> :> [videos |-> (Title0 :> 1) @@ (Title1 :> 2),
                        nfo |-> <<>>, info |-> {}])]}

OneLibrary ==
  {[cli |-> <<>>, file |-> << [name |-> "discs", path |-> "r",
                               kind |-> "Discs"] >>]}

BrowseRoute(dir, number) ==
  [page |-> "browse", library |-> "discs", dir |-> dir, number |-> number]
PlayerOf(name) == [page |-> "player", library |-> "discs",
                   path |-> [parent |-> <<"a">>, name |-> name]]
SearchAll == [page |-> "search", scope |-> <<>>]

AllRoutes == {Home, BrowseRoute(<<>>, 1), BrowseRoute(<<"a">>, 1),
              BrowseRoute(<<"a">>, 2), PlayerOf(Title0), SearchAll}
===============================================================================

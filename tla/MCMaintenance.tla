----------------------------- MODULE MCMaintenance ----------------------------
(* Instances of Maintenance for TLC: the names, the directory trees and the
   root configurations the runs use.  Name is never enumerated beyond Dir. *)
EXTENDS Maintenance, TLC

MCName == {"films", "kids", "show", "Show", "s1"}
MCNoCaseFold == [n \in MCName |-> n]
MCCaseFold == [MCNoCaseFold EXCEPT !["Show"] = "show"]

\* One library with nested directories, and a second one beside it.
SiblingRoots == <<<<"films">>, <<"kids">>>>
SiblingTree == {<<"films">>, <<"films", "show">>, <<"kids">>}

OneRoot == <<<<"films">>>>
DeepTree == {<<"films">>, <<"films", "show">>, <<"films", "show", "s1">>}
FlatTree == {<<"films">>, <<"films", "show">>}

\* Two directories whose names differ in case alone, one of them with another
\* directory in it.
CaseTree == {<<"films">>, <<"films", "show">>, <<"films", "Show">>,
             <<"films", "Show", "s1">>}
===============================================================================

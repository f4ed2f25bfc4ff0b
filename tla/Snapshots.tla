------------------------------- MODULE Snapshots -------------------------------
(***************************************************************************)
(* What index maintenance promises whoever reads the index, whatever fails *)
(* or crashes: the videos listed for a directory are those that one        *)
(* reading of it found, or none are.  A reading is no picture of a single  *)
(* moment: the directory is listed first and its videos are looked at one  *)
(* by one while it changes.  But no reader of the index sees a reading     *)
(* half written, two readings mixed, or one an earlier process had in      *)
(* hand, and a directory is taken away only as a whole.  No events, no     *)
(* generations, no rows: Maintenance implements this.                      *)
(***************************************************************************)

CONSTANTS
  Directory,  \* the directories of all libraries
  VideoName,  \* the file names of videos
  Misread     \* may a directory or a video that is there be overlooked?

VARIABLES
  held,    \* the videos in each directory
  shown,   \* the videos the index lists for it
  inHand   \* the reading under way, at most one: [of, unread, found]

snapVars == <<held, shown, inHand>>

Init ==
  /\ held \in [Directory -> SUBSET VideoName]
  /\ shown = [d \in Directory |-> {}]
  /\ inHand = {}

\* Others change the directories as they like.
Change ==
  /\ held' \in [Directory -> SUBSET VideoName]
  /\ UNCHANGED <<shown, inHand>>

\* A reading begins with the names of the directory's videos.
Open(d) ==
  /\ inHand = {}
  /\ \E names \in {held[d]} \cup IF Misread THEN {{}} ELSE {} :
       inHand' = {[of |-> d, unread |-> names, found |-> {}]}
  /\ UNCHANGED <<held, shown>>

\* One of them is looked at: it is found if it is still there.
See ==
  /\ \E r \in inHand : \E n \in r.unread :
       \E seen \in {{n} \cap held[r.of]} \cup IF Misread THEN {{}} ELSE {} :
         inHand' = {[of |-> r.of, unread |-> r.unread \ {n}, found |-> r.found \cup seen]}
  /\ UNCHANGED <<held, shown>>

\* Once all have been looked at, what was found replaces what was shown.
Show ==
  /\ \E r \in inHand : /\ r.unread = {}
                       /\ shown' = [shown EXCEPT ![r.of] = r.found]
  /\ inHand' = {}
  /\ UNCHANGED held

\* The statement fails, or the process dies.
Discard ==
  /\ inHand' = {}
  /\ UNCHANGED <<held, shown>>

\* Directories are taken for gone: each disappears from the index whole.
Withdraw(gone) ==
  /\ inHand = {}
  /\ shown' = [d \in Directory |-> IF d \in gone THEN {} ELSE shown[d]]
  /\ UNCHANGED <<held, inHand>>

Next ==
  \/ Change
  \/ \E d \in Directory : Open(d)
  \/ See
  \/ Show
  \/ Discard
  \/ \E gone \in SUBSET Directory : Withdraw(gone)

Spec == Init /\ [][Next]_snapVars
===============================================================================

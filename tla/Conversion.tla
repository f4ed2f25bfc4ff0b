------------------------------- MODULE Conversion -------------------------------
(***************************************************************************)
(* What the derivation worker promises whoever reads the directory and the *)
(* API: a finished sidecar appears whole and at once, made from what its   *)
(* master held when ffmpeg opened it, under the name of that master, and   *)
(* while the API announces that master as being processed.  No index, no   *)
(* probe, no .part file: Derivation implements this.                       *)
(***************************************************************************)

CONSTANTS
  Master, Content,  \* the videos and what they may hold
  Stem, StemOf,     \* their names without extension
  Kind,             \* what is made of a video
  Missing,          \* no finished sidecar
  Idle              \* nothing is announced

VARIABLES
  offered,    \* the content of each master there is
  shown,      \* the finished sidecar of each kind and stem, or Missing
  announced,  \* the video the API calls "processing", or Idle
  draft       \* what ffmpeg is making: at most one [kind, of]

convVars == <<offered, shown, announced, draft>>

Whole(c) == [of |-> c, whole |-> TRUE]

Init ==
  /\ offered \in UNION {[D -> Content] : D \in SUBSET Master}
  /\ shown = [s \in Kind \X Stem |-> Missing]
  /\ announced = Idle
  /\ draft = {}

\* Others put and remove masters, and remove sidecars; they add none.
Edit ==
  /\ offered' \in UNION {[D -> Content] : D \in SUBSET Master}
  /\ UNCHANGED <<shown, announced, draft>>

Withdraw(s) ==
  /\ shown' = [shown EXCEPT ![s] = Missing]
  /\ UNCHANGED <<offered, announced, draft>>

Announce(m) ==
  /\ announced = Idle
  /\ announced' = m
  /\ UNCHANGED <<offered, shown, draft>>

Begin(kind) ==
  /\ announced \in DOMAIN offered
  /\ draft = {}
  /\ draft' = {[kind |-> kind, of |-> offered[announced]]}
  /\ UNCHANGED <<offered, shown, announced>>

Publish ==
  /\ \E d \in draft :
       shown' = [shown EXCEPT ![<<d.kind, StemOf[announced]>>] = Whole(d.of)]
  /\ draft' = {}
  /\ UNCHANGED <<offered, announced>>

Discard ==
  /\ draft' = {}
  /\ UNCHANGED <<offered, shown, announced>>

Conclude ==
  /\ draft = {}
  /\ announced' = Idle
  /\ UNCHANGED <<offered, shown, draft>>

Crash ==
  /\ announced' = Idle
  /\ draft' = {}
  /\ UNCHANGED <<offered, shown>>

Next ==
  \/ Edit
  \/ \E s \in DOMAIN shown : Withdraw(s)
  \/ \E m \in Master : Announce(m)
  \/ \E kind \in Kind : Begin(kind)
  \/ Publish \/ Discard \/ Conclude \/ Crash

Spec == Init /\ [][Next]_convVars
===============================================================================

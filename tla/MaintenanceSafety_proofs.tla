------------------------ MODULE MaintenanceSafety_proofs ------------------------
(***************************************************************************)
(* The main theorem about Maintenance: in every configuration that nothing *)
(* named in Undisturbed interferes with, the index mirrors the disk        *)
(* whenever the task has caught up with its events.                        *)
(*                                                                         *)
(* The invariant behind it says that each directory the index has wrong    *)
(* has either an event waiting or work begun that will put it right.  The  *)
(* filesystem only adds events (FilesystemStep); the scan and the event    *)
(* loop only turn events into work and work into rows.                     *)
(*                                                                         *)
(* Its last part is about the initial scan where much may go wrong         *)
(* (ScanIsFaithful): the health signal it ends with, and its sweep; and    *)
(* about what a removal takes where more still may (RootsReport).          *)
(***************************************************************************)
EXTENDS Maintenance_proofs

Safe ==
  /\ TreeInv
  /\ StampInv
  /\ NothingFallsIntoAGap
  /\ StaleReadIsSignalled
  /\ SeenInv
  /\ ReturnInv

LEMMA InvariantParts == IInv <=> Typed /\ Safe
  BY DEF IInv, Typed, Safe

LEMMA SafeInit == Init => Safe
<1> SUFFICES ASSUME Init
             PROVE  Safe
  OBVIOUS
<1>1. TreeInv
  BY DEF Init, TreeInv
<1>2. StampInv
  BY DEF Init, StampInv
<1>3. NothingFallsIntoAGap
  BY DEF Init, NothingFallsIntoAGap, WorkFor, ScanAhead
<1>4. StaleReadIsSignalled /\ SeenInv /\ ReturnInv
  BY DEF Init, StaleReadIsSignalled, InHand, Expected, Reading, SeenInv, Scanning, ReturnInv
<1> QED
  BY <1>1, <1>2, <1>3, <1>4 DEF Safe

-------------------------------------------------------------------------------
(* While the task is down, or has yet to start its scan, all of it is ahead. *)
LEMMA DownIsSafe ==
  ASSUME pc' \in {"down", "boot"}, vanished' = {}, TreeInv', rows' = rows,
         generation' = generation, StampInv
  PROVE  Safe'
<1>1. StampInv'
  BY DEF StampInv
<1>2. NothingFallsIntoAGap'
  BY DEF NothingFallsIntoAGap, WorkFor, ScanAhead
<1>3. StaleReadIsSignalled' /\ SeenInv' /\ ReturnInv'
  BY DEF StaleReadIsSignalled, InHand, Expected, Reading, SeenInv, Scanning, ReturnInv
<1> QED
  BY <1>1, <1>2, <1>3 DEF Safe

(* A change of the filesystem is safe if it takes no path that waits to be
   classified and every directory it affects has an event from now on. *)
LEMMA ChangeIsSafe ==
  ASSUME Undisturbed, Safe, TreeInv', pc # "down", Change,
         NEW e, Notify({e}),
         movedAway \subseteq movedAway',
         \A d \in dirs' \ dirs : MayTake(d),
         \A k \in Key : \/ EventFor(k)'
                        \/ disk'[k.dir] = disk[k.dir] /\ (k.dir \in dirs <=> k.dir \in dirs')
  PROVE  Safe'
<1> DEFINE Affected(k) == ~ (disk'[k.dir] = disk[k.dir] /\ (k.dir \in dirs <=> k.dir \in dirs'))
<1>1. queue' = queue \cup {e}
  BY DEF Notify
<1>2. Signalled \subseteq Signalled'
  BY <1>1 DEF Signalled, Change
<1>3. ASSUME NEW k \in Key, EventFor(k), ~ Affected(k)
      PROVE  EventFor(k)'
  <2>1. PICK s \in Signalled :
          /\ Above(s, k)
          /\ k.dir \in dirs \/ (s.dir \notin dirs /\ (s.dir = k.dir \/ s.dir \in movedAway))
    BY <1>3 DEF EventFor
  <2>2. CASE k.dir \in dirs
    BY <1>2, <1>3, <2>1, <2>2 DEF EventFor, Above
  <2>3. CASE k.dir \notin dirs
    <3>1. s.dir \notin dirs'
      BY <1>3, <2>1, <2>3 DEF MayTake, Undisturbed
    <3> QED
      BY <1>2, <2>1, <2>3, <3>1 DEF EventFor, Above
  <2> QED
    BY <2>2, <2>3
<1>4. \A k \in Key : Affected(k) => EventFor(k)'
  OBVIOUS
<1> HIDE DEF Affected
<1>5. \A k \in Key : ~ Affected(k) =>
        /\ k.dir \in dirs' <=> k.dir \in dirs
        /\ WorkFor(k)' <=> WorkFor(k)
        /\ Stale(k)' <=> Stale(k)
  BY DEF Affected, Change, WorkFor, ScanAhead, Scanning, InHand, Reading, RowsOf, RowsIn,
         Above, Stale, Listed, VideosIn
<1>6. StampInv'
  BY DEF Safe, StampInv, ScanAhead, Change
<1>7. NothingFallsIntoAGap'
  BY <1>3, <1>4, <1>5 DEF Safe, NothingFallsIntoAGap
<1>8. StaleReadIsSignalled'
  BY <1>3, <1>4 DEF Safe, StaleReadIsSignalled, InHand, Reading, Expected, Change, Affected
<1>9. SeenInv'
  BY <1>3, <1>4, <1>5 DEF Safe, SeenInv, Scanning, InHand, Reading, RowsOf, RowsIn, Change
<1>10. ReturnInv'
  BY <1>3, <1>4, <1>5 DEF Safe, ReturnInv, Above, Change
<1> QED
  BY <1>6, <1>7, <1>8, <1>9, <1>10 DEF Safe

(* The event of a change inside directory d, or of d itself, while d exists;
   and that of d gone with the tree beneath it. *)
LEMMA EventBringsHome ==
  ASSUME Undisturbed, NEW k \in Key, NEW s \in Key, Above(s, k),
         \/ queue' = queue \cup {InDirectory(s.dir)}
         \/ queue' = queue \cup {OnDirectory(s.dir)},
         k.dir \in dirs' \/ (s.dir \notin dirs' /\ (s.dir = k.dir \/ s.dir \in movedAway'))
  PROVE  EventFor(k)'
<1>1. s \in Signalled'
  BY EventsReachTheirDirectory DEF Signalled, Undisturbed, EventsReach
<1> QED
  BY <1>1 DEF EventFor, Above

LEMMA TreeFacts ==
  ASSUME TypeOK, TreeInv
  PROVE  /\ dirs \subseteq Dir
         /\ \A d \in dirs, e \in Dir : IsPrefix(e, d) => e \in dirs
         /\ \A d \in Dir \ dirs : disk[d] = {}
         /\ \A l \in Library : Roots[l] \in dirs /\ Roots[l] \in Dir
         /\ \A k \in Key : Roots[k.lib] \in dirs
  BY PathFacts DEF TypeOK, TreeInv

LEMMA FilesystemStep ==
  ASSUME Undisturbed, Typed, Safe, Filesystem
  PROVE  Safe'
<1> TypeOK /\ TreeInv
  BY DEF Typed, Safe
<1> USE TreeFacts, PathFacts
<1>1. ASSUME TreeInv', Change, movedAway \subseteq movedAway',
             NEW e, Notify({e}),
             \A d \in dirs' \ dirs : MayTake(d),
             pc # "down" => \A k \in Key :
               \/ EventFor(k)'
               \/ disk'[k.dir] = disk[k.dir] /\ (k.dir \in dirs <=> k.dir \in dirs')
      PROVE  Safe'
  <2>1. CASE pc = "down"
    BY <1>1, <2>1, DownIsSafe DEF Change, Typed, PhaseInv, Safe
  <2>2. CASE pc # "down"
    BY <1>1, <2>2, ChangeIsSafe
  <2> QED
    BY <2>1, <2>2
<1>2. ASSUME NEW d \in Dir, NEW v \in Video,
             PutVideo(d, v) \/ DeleteVideo(d, v)
      PROVE  Safe'
  <2>1. /\ d \in dirs /\ dirs' = dirs /\ movedAway' = movedAway
        /\ Change /\ Notify({InDirectory(d)})
        /\ \A e \in Dir : e # d => disk'[e] = disk[e]
    BY <1>2 DEF PutVideo, DeleteVideo, TypeOK
  <2>2. TreeInv'
    BY <2>1 DEF TreeInv
  <2>3. ASSUME pc # "down", NEW k \in Key
        PROVE  \/ EventFor(k)'
               \/ disk'[k.dir] = disk[k.dir] /\ (k.dir \in dirs <=> k.dir \in dirs')
    <3>1. CASE k.dir = d
      BY <2>1, <2>3, <3>1, EventBringsHome, AboveFacts DEF Notify
    <3> QED
      BY <2>1, <3>1
  <2> QED
    BY <1>1, <2>1, <2>2, <2>3
<1>3. ASSUME NEW d \in Dir, MakeDirectory(d)
      PROVE  Safe'
  <2>1. /\ d \notin dirs /\ dirs' = dirs \cup {d} /\ UNCHANGED <<disk, movedAway>>
        /\ Change /\ Notify({OnDirectory(d)}) /\ MayTake(d) /\ Parent(d) \in dirs
    BY <1>3 DEF MakeDirectory
  <2>2. \A e \in Dir : IsPrefix(e, d) => e \in dirs'
    BY <2>1, ParentPrefix
  <2>3. TreeInv'
    BY <2>1, <2>2 DEF TreeInv
  <2>4. ASSUME pc # "down", NEW k \in Key
        PROVE  \/ EventFor(k)'
               \/ disk'[k.dir] = disk[k.dir] /\ (k.dir \in dirs <=> k.dir \in dirs')
    <3>1. CASE k.dir = d
      BY <2>1, <2>4, <3>1, EventBringsHome, AboveFacts DEF Notify
    <3> QED
      BY <2>1, <3>1
  <2> QED
    BY <1>1, <2>1, <2>3, <2>4
<1>4. ASSUME NEW d \in Dir, RemoveDirectory(d)
      PROVE  Safe'
  <2>1. /\ dirs' = dirs \ {d} /\ UNCHANGED <<disk, movedAway>>
        /\ Change /\ Notify({OnDirectory(d)})
        /\ disk[d] = {} /\ Subtree(d, dirs) = {d}
        /\ \A l \in Library : d # Roots[l]
    BY <1>4 DEF RemoveDirectory
  <2>2. \A e \in dirs : IsPrefix(d, e) => e = d
    BY <2>1 DEF Subtree
  <2>3. TreeInv'
    BY <2>1, <2>2 DEF TreeInv
  <2>4. ASSUME pc # "down", NEW k \in Key
        PROVE  \/ EventFor(k)'
               \/ disk'[k.dir] = disk[k.dir] /\ (k.dir \in dirs <=> k.dir \in dirs')
    <3>1. CASE k.dir = d
      BY <2>1, <2>4, <3>1, EventBringsHome, AboveFacts DEF Notify
    <3> QED
      BY <2>1, <3>1
  <2> QED
    BY <1>1, <2>1, <2>3, <2>4
<1>5. ASSUME NEW d \in Dir, MoveTreeAway(d)
      PROVE  Safe'
  <2>1. /\ dirs' = dirs \ Subtree(d, dirs) /\ movedAway' = movedAway \cup {d}
        /\ disk' = [e \in Dir |-> IF IsPrefix(d, e) THEN {} ELSE disk[e]]
        /\ Change /\ Notify({OnDirectory(d)})
        /\ \A l \in Library : ~ IsPrefix(d, Roots[l])
    BY <1>5 DEF MoveTreeAway, Undisturbed
  <2>2. \A e \in Dir : e \in dirs' <=> e \in dirs /\ ~ IsPrefix(d, e)
    BY <2>1 DEF Subtree
  <2>3. \A x \in dirs', e \in Dir : IsPrefix(e, x) => e \in dirs'
    BY <2>1, <2>2, DirPrefix
  <2>4. TreeInv'
    BY <2>1, <2>2, <2>3 DEF TreeInv
  <2>5. ASSUME pc # "down", NEW k \in Key
        PROVE  \/ EventFor(k)'
               \/ disk'[k.dir] = disk[k.dir] /\ (k.dir \in dirs <=> k.dir \in dirs')
    <3>1. CASE IsPrefix(d, k.dir)
      <4>1. IsPrefix(Roots[k.lib], d)
        BY <2>1, <3>1, PrefixLinear
      <4>2. PICK s \in Key : s.lib = k.lib /\ s.dir = d
        <5>1. [lib |-> k.lib, dir |-> d] \in Key
          BY <4>1 DEF Key
        <5> QED
          BY <5>1
      <4>3. d \notin dirs'
        BY <2>2, DirPrefix
      <4> QED
        BY <2>1, <2>5, <3>1, <4>2, <4>3, EventBringsHome DEF Notify, Above
    <3> QED
      BY <2>1, <2>2, <3>1
  <2> QED
    BY <1>1, <2>1, <2>4, <2>5
<1>6. ASSUME NEW d \in Dir, NEW tree \in SUBSET Subtree(d, Dir),
             NEW contents \in [tree -> Listing], MoveTreeIn(d, tree, contents)
      PROVE  Safe'
  <2>1. /\ d \in tree /\ d \notin dirs /\ Parent(d) \in dirs
        /\ dirs' = dirs \cup tree /\ movedAway' = movedAway
        /\ disk' = [e \in Dir |-> IF e \in tree THEN contents[e] ELSE disk[e]]
        /\ Change /\ Notify({OnDirectory(d)})
        /\ \A e \in tree : MayTake(e)
        /\ \A e \in tree, f \in Subtree(d, Dir) : IsPrefix(f, e) => f \in tree
    BY <1>6 DEF MoveTreeIn
  <2>2. \A e \in tree : e \in Dir /\ IsPrefix(d, e)
    BY DEF Subtree
  <2>3. ASSUME NEW x \in tree, NEW e \in Dir, IsPrefix(e, x)
        PROVE  e \in dirs'
    <3>1. IsPrefix(d, e) \/ IsPrefix(e, d)
      BY <2>2, <2>3, PrefixLinear
    <3>2. CASE IsPrefix(d, e)
      BY <2>1, <2>3, <3>2 DEF Subtree
    <3>3. CASE IsPrefix(e, d)
      BY <2>1, <3>3, ParentPrefix
    <3> QED
      BY <3>1, <3>2, <3>3
  <2>4. TreeInv'
    BY <2>1, <2>3 DEF TreeInv
  <2>5. ASSUME pc # "down", NEW k \in Key
        PROVE  \/ EventFor(k)'
               \/ disk'[k.dir] = disk[k.dir] /\ (k.dir \in dirs <=> k.dir \in dirs')
    <3>1. CASE k.dir \in tree
      <4>1. IsPrefix(Roots[k.lib], d)
        BY <2>1, <2>2, <3>1, PrefixLinear
      <4>2. PICK s \in Key : s.lib = k.lib /\ s.dir = d
        <5>1. [lib |-> k.lib, dir |-> d] \in Key
          BY <4>1 DEF Key
        <5> QED
          BY <5>1
      <4> QED
        BY <2>1, <2>2, <2>5, <3>1, <4>2, EventBringsHome DEF Notify, Above
    <3> QED
      BY <2>1, <3>1
  <2> QED
    BY <1>1, <2>1, <2>4, <2>5
<1> QED
  BY <1>2, <1>3, <1>4, <1>5, <1>6 DEF Filesystem

-------------------------------------------------------------------------------
(* The scan. *)

LEMMA SafeWalks ==
  ASSUME Undisturbed
  PROVE  \A d : Walks(d) = {Subtree(d, dirs)}
  BY DEF Undisturbed, Walks

(* A reading that has only begun will find what the directory holds ... *)
LEMMA Opened ==
  ASSUME ~ ReadMayFail, NEW k, OpenDirectory(k), disk' = disk
  PROVE  at' = k /\ Expected' = disk'[k.dir]
  BY DEF OpenDirectory, Expected

(* ... and one that goes on still does, if the directory did not change. *)
LEMMA ReadingStep ==
  ASSUME Typed, StatEntry \/ BuildRecord
  PROVE  /\ Reading /\ at \in Key
         /\ UNCHANGED <<dirs, disk, movedAway, queue, rows, generation, pc, lib, todo, at,
                        pending, dirty, vanished, live, healthy>>
         /\ ~ ReadMayFail /\ Expected = disk[at.dir] => Expected' = disk'[at.dir]
<1> USE DEF fsVars, indexVars, flushVars
<1>1. /\ Reading /\ at \in Key
      /\ UNCHANGED <<dirs, disk, movedAway, queue, rows, generation, pc, lib, todo, at,
                     pending, dirty, vanished, live, healthy>>
  BY DEF StatEntry, BuildRecord, Reading, Typed, TypeOK
<1>2. ASSUME StatEntry, ~ ReadMayFail
      PROVE  Expected' = Expected
  <2>1. PICK n \in unread : unread' = unread \ {n} /\ entry' = {v \in disk[at.dir] : v.name = n}
    BY <1>2 DEF StatEntry
  <2>2. entry = {} /\ listing' = listing
    BY <1>2 DEF StatEntry
  <2> QED
    BY <1>1, <2>1, <2>2 DEF Expected
<1>3. ASSUME BuildRecord, ~ ReadMayFail, Expected = disk[at.dir]
      PROVE  Expected' = Expected
  <2>1. entry \subseteq disk[at.dir]
    BY <1>3 DEF Expected
  <2>2. PICK v \in entry : listing' = listing \cup {[v EXCEPT !.facts = v.facts]}
    BY <1>3, <2>1 DEF BuildRecord
  <2>3. entry = {v} /\ v \in Video
    BY <1>1, <2>2 DEF Typed, TypeOK, Reading, Listing
  <2>4. [v EXCEPT !.facts = v.facts] = v
    BY <2>3 DEF Video
  <2>5. entry' = {} /\ unread' = unread
    BY <1>3 DEF BuildRecord
  <2> QED
    BY <1>1, <2>2, <2>3, <2>4, <2>5 DEF Expected
<1> QED
  BY <1>1, <1>2, <1>3

(* Reconciling rewrites the rows of the directory in hand and no others. *)
LEMMA ReconciledIsExact ==
  ASSUME Typed, Reading, rows' = Reconciled
  PROVE  /\ at \in Key
         /\ \A k \in Key : k # at => RowsOf(k)' = RowsOf(k) /\ Listed(k)' = Listed(k)
         /\ \A k \in Key : k = at =>
              Listed(k)' = listing /\ \A r \in RowsOf(k)' : r.last_seen = generation
         /\ \A r \in rows' : r \in rows \/ (r.lib = at.lib /\ r.last_seen = generation)
<1> DEFINE rel(k) == RelativeOf(k.dir, k.lib)
<1>1. at \in Key
  BY DEF Typed, TypeOK, Reading
<1>2. rows' = ReconcileDirectory(rows, at.lib, rel(at), listing, generation)
  BY DEF Reconciled
<1>3. ASSUME NEW k \in Key, k # at
      PROVE  RowsIn(rows', k.lib, rel(k)) = RowsIn(rows, k.lib, rel(k))
  <2>1. k.lib # at.lib \/ rel(k) # rel(at)
    BY <1>1, <1>3, RelativeInjective
  <2> HIDE DEF rel
  <2> QED
    BY <1>2, <2>1, ReconcileIsLocal
<1>4. /\ RowsIn(rows', at.lib, rel(at)) = {RowFor(at.lib, rel(at), v, generation) : v \in listing}
      /\ VideosIn(rows', at.lib, rel(at)) = listing
  <2> HIDE DEF rel
  <2> QED
    BY <1>2, ReconcileReplaces, ReconcileListing
<1>5. \A r \in rows' : r \in rows \/ \E v \in listing : r = RowFor(at.lib, rel(at), v, generation)
  <2> HIDE DEF rel
  <2> QED
    BY <1>2, ReconcileAddsOnly
<1>6. \A p, v : /\ RowFor(at.lib, p, v, generation).lib = at.lib
                /\ RowFor(at.lib, p, v, generation).last_seen = generation
  BY DEF RowFor
<1>7. ASSUME NEW k \in Key, k # at
      PROVE  RowsOf(k)' = RowsOf(k) /\ Listed(k)' = Listed(k)
  BY <1>3, <1>7 DEF RowsOf, Listed, VideosIn
<1>8. ASSUME NEW k \in Key, k = at
      PROVE  Listed(k)' = listing /\ \A r \in RowsOf(k)' : r.last_seen = generation
  BY <1>4, <1>6, <1>8 DEF RowsOf, Listed
<1> QED
  BY <1>1, <1>5, <1>6, <1>7, <1>8

LEMMA ScanStep ==
  ASSUME Undisturbed, Typed, Safe, Scan
  PROVE  Safe'
<1> USE DEF fsVars, indexVars, workVars, readVars, flushVars
<1>1. /\ TypeOK /\ PhaseInv /\ TreeInv /\ StampInv /\ NothingFallsIntoAGap
      /\ StaleReadIsSignalled /\ SeenInv /\ ReturnInv
  BY DEF Typed, Safe
<1>2. Library = 1..Len(Roots) /\ Len(Roots) \in Nat /\ \A k \in Key : k.lib \in Library
  BY PathAssumption, PathFacts DEF Library
<1>3. /\ generation \in Nat /\ lib \in Nat
      /\ \A r \in rows : r.lib \in Library /\ r.last_seen \in Nat
  BY <1>1, BoundAssumption DEF TypeOK
<1>4. CASE BeginScan
  <2>1. \A l \in Library : ScanAhead(l)'
    BY <1>2, <1>4 DEF BeginScan, ScanAhead
  <2>2. TreeInv'
    BY <1>1, <1>4 DEF BeginScan, TreeInv
  <2>3. StampInv'
    BY <1>1, <1>3, <1>4 DEF BeginScan, StampInv
  <2>4. NothingFallsIntoAGap'
    BY <1>2, <2>1 DEF NothingFallsIntoAGap, WorkFor
  <2>5. StaleReadIsSignalled' /\ SeenInv'
    BY <1>4 DEF BeginScan, StaleReadIsSignalled, InHand, Expected, Reading, SeenInv, Scanning
  <2>6. ReturnInv'
    BY <1>1, <1>4 DEF BeginScan, PhaseInv, ReturnInv
  <2> QED
    BY <2>2, <2>3, <2>4, <2>5, <2>6 DEF Safe
<1>5. CASE WalkLibrary
  <2>1. todo' = {[lib |-> lib, dir |-> d] : d \in Subtree(Roots[lib], dirs)}
    BY <1>5, SafeWalks DEF WalkLibrary
  <2>2. \A k \in Key : k.lib = lib /\ k.dir \in dirs => k \in todo'
    BY <2>1 DEF Key, Subtree
  <2>3. TreeInv'
    BY <1>1, <1>5 DEF WalkLibrary, TreeInv
  <2>4. StampInv'
    BY <1>1, <1>2, <1>3, <1>5 DEF WalkLibrary, StampInv, ScanAhead, TypeOK
  <2>5. NothingFallsIntoAGap'
    <3> SUFFICES ASSUME NEW k \in Key, Stale(k)'
                 PROVE  EventFor(k)' \/ WorkFor(k)'
      BY DEF NothingFallsIntoAGap
    <3>1. lib \in Nat /\ k.lib \in Nat
      BY <1>1, <1>2 DEF TypeOK
    <3>2. CASE k.lib > lib
      BY <1>5, <3>2 DEF WalkLibrary, WorkFor, ScanAhead
    <3>3. CASE k.lib = lib /\ k.dir \in dirs
      BY <2>2, <3>3 DEF WorkFor
    <3>4. CASE k.lib = lib /\ k.dir \notin dirs
      <4>1. \A r \in RowsOf(k) : r.last_seen < generation
        BY <1>1, <1>5, <3>1, <3>4 DEF WalkLibrary, StampInv, ScanAhead, RowsOf, RowsIn
      <4> QED
        BY <1>5, <3>4, <4>1 DEF WalkLibrary, WorkFor, Scanning, RowsOf, RowsIn
    <3>5. CASE k.lib < lib
      <4>1. Stale(k)
        BY <1>5 DEF WalkLibrary, Stale, Listed, VideosIn, RowsIn
      <4>2. ~ WorkFor(k)
        BY <1>1, <1>5, <3>1, <3>5 DEF WalkLibrary, PhaseInv, WorkFor, ScanAhead, Scanning, InHand, Reading
      <4>3. EventFor(k)
        BY <1>1, <4>1, <4>2 DEF NothingFallsIntoAGap
      <4> QED
        BY <1>5, <4>3 DEF WalkLibrary, EventFor, Signalled
    <3> QED
      BY <3>1, <3>2, <3>3, <3>4, <3>5
  <2>6. StaleReadIsSignalled'
    BY <1>5 DEF WalkLibrary, StaleReadIsSignalled, InHand, Expected, Reading
  <2>7. SeenInv'
    BY <1>5, <2>2 DEF WalkLibrary, SeenInv, Scanning
  <2>8. ReturnInv'
    BY <1>1, <1>5 DEF WalkLibrary, PhaseInv, ReturnInv
  <2> QED
    BY <2>3, <2>4, <2>5, <2>6, <2>7, <2>8 DEF Safe
<1>6. CASE RootUnresolved
  BY <1>1, <1>6, TreeFacts DEF RootUnresolved, PhaseInv
<1>7. CASE ScanRead
  <2>1. PICK j \in todo : at' = j /\ todo' = todo \ {j} /\ Expected' = disk'[j.dir]
    BY <1>7, Opened DEF ScanRead, Undisturbed
  <2>2. TreeInv' /\ StampInv'
    BY <1>1, <1>7 DEF ScanRead, TreeInv, StampInv, ScanAhead
  <2>3. \A k \in Key : /\ EventFor(k)' <=> EventFor(k)
                       /\ Stale(k)' <=> Stale(k)
                       /\ Scanning(k.lib)' <=> Scanning(k.lib)
                       /\ k \in todo => k \in todo' \/ InHand(k)'
                       /\ ~ InHand(k)
    BY <1>7, <2>1 DEF ScanRead, EventFor, Signalled, Stale, Listed, VideosIn, RowsIn,
                      Scanning, InHand, Reading
  <2>4. \A k \in Key : WorkFor(k) => WorkFor(k)'
    BY <1>7, <2>3 DEF ScanRead, WorkFor, ScanAhead, Above, RowsOf, RowsIn
  <2>5. NothingFallsIntoAGap'
    BY <1>1, <2>3, <2>4 DEF NothingFallsIntoAGap
  <2>6. StaleReadIsSignalled'
    BY <1>7, <2>1 DEF ScanRead, StaleReadIsSignalled, InHand
  <2>7. SeenInv'
    BY <1>1, <1>7, <2>3 DEF ScanRead, SeenInv, RowsOf, RowsIn
  <2>8. ReturnInv'
    BY <1>1, <1>7 DEF ScanRead, PhaseInv, ReturnInv
  <2> QED
    BY <2>2, <2>5, <2>6, <2>7, <2>8 DEF Safe
<1>8. CASE ScanWrite
  <2>1. /\ at \in Key
        /\ \A k \in Key : k # at => RowsOf(k)' = RowsOf(k) /\ Listed(k)' = Listed(k)
        /\ \A k \in Key : k = at =>
             Listed(k)' = listing /\ \A r \in RowsOf(k)' : r.last_seen = generation
        /\ \A r \in rows' : r \in rows \/ (r.lib = at.lib /\ r.last_seen = generation)
    BY <1>8, ReconciledIsExact DEF ScanWrite, Reading
  <2>2. /\ pc = "scanDir" /\ pc' = "scan" /\ at.lib = lib /\ Expected = listing
        /\ UNCHANGED <<fsVars, queue, generation, lib, todo, pending, flushVars>>
    BY <1>1, <1>8 DEF ScanWrite, PhaseInv, HasRead, Expected
  <2>3. TreeInv'
    BY <1>1, <2>2 DEF TreeInv
  <2>4. StampInv'
    BY <1>1, <1>3, <2>1, <2>2 DEF StampInv, ScanAhead
  <2>5. \A k \in Key : /\ EventFor(k)' <=> EventFor(k)
                       /\ k # at => (Stale(k)' <=> Stale(k))
                       /\ Scanning(k.lib)' <=> Scanning(k.lib)
                       /\ ~ InHand(k)'
                       /\ InHand(k) <=> k = at
    BY <2>1, <2>2 DEF EventFor, Signalled, Stale, Scanning, InHand, Reading
  <2>6. \A k \in Key : k # at /\ WorkFor(k) => WorkFor(k)'
    BY <2>1, <2>2, <2>5 DEF WorkFor, ScanAhead, Above
  <2>7. \A k \in Key : k = at /\ Stale(k)' => EventFor(k)'
    BY <1>1, <2>1, <2>2, <2>5 DEF Stale, StaleReadIsSignalled
  <2>8. NothingFallsIntoAGap'
    BY <1>1, <2>2, <2>5, <2>6, <2>7 DEF NothingFallsIntoAGap
  <2>9. StaleReadIsSignalled'
    BY <2>5 DEF StaleReadIsSignalled
  <2>10. SeenInv'
    BY <1>1, <2>1, <2>2, <2>5 DEF SeenInv
  <2>11. ReturnInv'
    BY <1>1, <2>2 DEF PhaseInv, ReturnInv
  <2> QED
    BY <2>3, <2>4, <2>8, <2>9, <2>10, <2>11 DEF Safe
<1>9. CASE Sweep
  <2>1. /\ pc = "scan" /\ todo = {} /\ todo' = todo /\ lib' = lib + 1
        /\ rows' = RemoveUnseen(rows, lib, generation)
        /\ pc' = IF lib + 1 \in Library THEN "walk" ELSE "mark"
        /\ UNCHANGED <<fsVars, queue, generation, pending, flushVars>>
        /\ lib \in Library
    BY <1>1, <1>9 DEF Sweep, TypeOK
  <2>2. \A k \in Key :
          RowsOf(k)' = {r \in RowsOf(k) : ~ (k.lib = lib /\ r.last_seen < generation)}
    BY <2>1, SweepRows DEF RowsOf
  <2>3. \A k \in Key : /\ EventFor(k)' <=> EventFor(k)
                       /\ WorkFor(k) => \/ k.lib > lib
                                        \/ /\ k.dir \notin dirs /\ k.lib = lib
                                           /\ \A r \in RowsOf(k) : r.last_seen < generation
    BY <1>1, <2>1 DEF EventFor, Signalled, WorkFor, ScanAhead, Scanning, InHand, Reading, PhaseInv
  <2>4. TreeInv'
    BY <1>1, <2>1 DEF TreeInv
  <2>5. StampInv'
    BY <1>1, <1>2, <1>3, <2>1 DEF StampInv, ScanAhead, RemoveUnseen
  <2>6. NothingFallsIntoAGap'
    <3> SUFFICES ASSUME NEW k \in Key, Stale(k)', ~ EventFor(k)
                 PROVE  WorkFor(k)'
      BY <2>3 DEF NothingFallsIntoAGap
    <3>1. CASE k.lib > lib
      <4>1. pc' = "walk" /\ k.lib >= lib'
        BY <1>2, <2>1, <3>1
      <4> QED
        BY <4>1 DEF WorkFor, ScanAhead
    <3>2. CASE ~ (k.lib > lib) /\ RowsOf(k)' = RowsOf(k)
      <4>1. Stale(k)
        BY <2>1, <3>2 DEF Stale, Listed, VideosIn, RowsOf
      <4>2. /\ k.dir \notin dirs /\ k.lib = lib
            /\ \A r \in RowsOf(k) : r.last_seen < generation
        BY <1>1, <2>3, <3>2, <4>1 DEF NothingFallsIntoAGap
      <4>3. Listed(k)' = {} /\ disk'[k.dir] = {}
        BY <1>1, <2>1, <2>2, <3>2, <4>2, TreeFacts, PathFacts DEF Listed, VideosIn, RowsOf
      <4> QED
        BY <4>3 DEF Stale
    <3>3. CASE k.lib = lib /\ RowsOf(k)' # RowsOf(k)
      <4>1. k.dir \notin dirs
        BY <1>1, <1>3, <2>1, <2>2, <3>3 DEF SeenInv, Scanning, InHand, Reading, RowsOf, RowsIn
      <4>2. Stale(k)
        <5>1. disk[k.dir] = {}
          BY <1>1, <4>1, TreeFacts, PathFacts
        <5>2. RowsOf(k) # {}
          BY <2>2, <3>3
        <5>3. Listed(k) # {}
          BY <5>2 DEF Listed, VideosIn, RowsOf
        <5> QED
          BY <5>1, <5>3 DEF Stale
      <4>3. \A r \in RowsOf(k) : r.last_seen < generation
        BY <1>1, <1>3, <2>3, <3>3, <4>2 DEF NothingFallsIntoAGap
      <4>4. Listed(k)' = {} /\ disk'[k.dir] = {}
        BY <1>1, <2>1, <2>2, <3>3, <4>1, <4>3, TreeFacts, PathFacts DEF Listed, VideosIn, RowsOf
      <4> QED
        BY <4>4 DEF Stale
    <3> QED
      BY <2>2, <3>1, <3>2, <3>3
  <2>7. StaleReadIsSignalled' /\ SeenInv'
    BY <2>1 DEF StaleReadIsSignalled, InHand, Expected, Reading, SeenInv, Scanning
  <2>8. ReturnInv'
    BY <1>1, <2>1 DEF PhaseInv, ReturnInv
  <2> QED
    BY <2>4, <2>5, <2>6, <2>7, <2>8 DEF Safe
<1>10. CASE MarkScanComplete \/ ProbeAndWake
  <2>1. /\ pc \in {"mark", "probe"} /\ pc' \in {"probe", "idle"}
        /\ UNCHANGED <<fsVars, queue, indexVars, lib, workVars, pending, flushVars>>
    BY <1>10 DEF MarkScanComplete, ProbeAndWake
  <2>2. TreeInv' /\ StampInv'
    BY <1>1, <2>1 DEF TreeInv, StampInv, ScanAhead
  <2>3. \A k \in Key : /\ Stale(k)' <=> Stale(k)
                       /\ EventFor(k)' <=> EventFor(k)
                       /\ WorkFor(k)' <=> WorkFor(k)
    BY <2>1 DEF Stale, Listed, VideosIn, RowsIn, EventFor, Signalled, WorkFor,
                ScanAhead, Scanning, InHand, Reading, RowsOf, Above
  <2>4. NothingFallsIntoAGap'
    BY <1>1, <2>3 DEF NothingFallsIntoAGap
  <2>5. StaleReadIsSignalled' /\ SeenInv'
    BY <2>1 DEF StaleReadIsSignalled, InHand, Expected, Reading, SeenInv, Scanning
  <2>6. ReturnInv'
    BY <1>1, <2>1 DEF PhaseInv, ReturnInv
  <2> QED
    BY <2>2, <2>4, <2>5, <2>6 DEF Safe
<1>11. CASE ScanDbError
  BY <1>11 DEF ScanDbError, Undisturbed
<1> QED
  BY <1>4, <1>5, <1>6, <1>7, <1>8, <1>9, <1>10, <1>11 DEF Scan

-------------------------------------------------------------------------------
(* The event loop and the flush. *)

(* What the invariant asks of a state between scan and shutdown. *)
LEMMA SafeInALoop ==
  ASSUME pc' \in {"idle", "classify", "remove", "walkLive", "flush", "flushDir", "probe"},
         TreeInv', \A r \in rows' : r.last_seen <= generation',
         NothingFallsIntoAGap', StaleReadIsSignalled', ReturnInv'
  PROVE  Safe'
<1>1. StampInv'
  BY DEF StampInv, ScanAhead
<1>2. SeenInv'
  BY DEF SeenInv, Scanning
<1> QED
  BY <1>1, <1>2 DEF Safe

(* remove_tree on a vanished candidate takes its tree and nothing else. *)
LEMMA RemoveVanishedIsExact ==
  ASSUME Undisturbed, TypeOK, ReturnInv, RemoveVanished
  PROVE  \E j \in vanished : /\ vanished' = vanished \ {j}
                             /\ rows' \subseteq rows
                             /\ \A k \in Key : RowsOf(k)' = IF Above(j, k) THEN {} ELSE RowsOf(k)
<1>1. PICK j \in vanished :
        /\ vanished' = vanished \ {j}
        /\ rows' = RemoveTree(rows, j.lib, RelativeOf(j.dir, j.lib))
  BY DEF RemoveVanished, Undisturbed
<1>2. j \in Key /\ j.dir # Roots[j.lib]
  BY DEF TypeOK, ReturnInv
<1>. rows' \subseteq rows
  BY <1>1 DEF RemoveTree
<1> SUFFICES ASSUME NEW k \in Key
             PROVE  RowsOf(k)' = IF Above(j, k) THEN {} ELSE RowsOf(k)
  BY <1>1
<1>3. RowsOf(k)' = IF k.lib = j.lib /\ (\/ RelativeOf(k.dir, k.lib) = RelativeOf(j.dir, j.lib)
                                        \/ LikeBeneath(RelativeOf(k.dir, k.lib), RelativeOf(j.dir, j.lib)))
                   THEN {} ELSE RowsOf(k)
  BY <1>1, RemoveTreeRows DEF RowsOf
<1>4. k.lib = j.lib =>
        ((\/ RelativeOf(k.dir, k.lib) = RelativeOf(j.dir, j.lib)
          \/ LikeBeneath(RelativeOf(k.dir, k.lib), RelativeOf(j.dir, j.lib)))
         <=> IsPrefix(j.dir, k.dir))
  BY <1>2, RemoveTreeReach
<1> QED
  BY <1>3, <1>4 DEF Above

LEMMA EventLoopStep ==
  ASSUME Undisturbed, Typed, Safe, EventLoop
  PROVE  Safe'
<1> USE DEF fsVars, indexVars, workVars, readVars, flushVars
<1>1. /\ TypeOK /\ PhaseInv /\ TreeInv /\ StampInv /\ NothingFallsIntoAGap
      /\ StaleReadIsSignalled /\ ReturnInv
  BY DEF Typed, Safe
<1> DEFINE Loop == {"idle", "classify", "remove", "walkLive", "flush", "flushDir", "probe"}
<1>2. \A r \in rows : r.last_seen <= generation
  BY <1>1 DEF StampInv
<1>3. ASSUME pc \in Loop, pc' \in Loop, UNCHANGED <<fsVars, indexVars>>,
             NothingFallsIntoAGap', StaleReadIsSignalled', ReturnInv'
      PROVE  Safe'
  <2>1. TreeInv' /\ \A r \in rows' : r.last_seen <= generation'
    BY <1>1, <1>2, <1>3 DEF TreeInv
  <2> QED
    BY <1>3, <2>1, SafeInALoop
<1>4. ASSUME pc \in Loop, pc' \in Loop, UNCHANGED <<fsVars, indexVars>>,
             Signalled' = Signalled,
             \A k \in Key : WorkFor(k) => WorkFor(k)',
             StaleReadIsSignalled',
             vanished' \subseteq vanished,
             vanished' # {} => live' = live
      PROVE  Safe'
  <2>1. \A k \in Key : (EventFor(k)' <=> EventFor(k)) /\ (Stale(k)' <=> Stale(k))
    BY <1>4 DEF EventFor, Stale, Listed, VideosIn, RowsIn, Above
  <2>2. NothingFallsIntoAGap'
    BY <1>1, <1>4, <2>1 DEF NothingFallsIntoAGap
  <2>3. ReturnInv'
    BY <1>1, <1>4, <2>1 DEF ReturnInv, Above
  <2> QED
    BY <1>3, <1>4, <2>2, <2>3
<1>5. CASE ReceiveEvent
  <2>1. PICK e \in queue :
          queue' = queue \ {e} /\ pending' = pending \cup DirtyDirectories(e)
    BY <1>5 DEF ReceiveEvent
  <2>2. Signalled' = Signalled
    BY <1>5, <2>1 DEF ReceiveEvent, Signalled
  <2> QED
    BY <1>4, <1>5, <2>2
    DEF ReceiveEvent, WorkFor, ScanAhead, Scanning, InHand, Reading, Above, StaleReadIsSignalled
<1>6. CASE BeginFlush
  <2>1. Signalled' = Signalled
    BY <1>1, <1>6 DEF BeginFlush, PhaseInv, Signalled
  <2> QED
    BY <1>4, <1>6, <2>1
    DEF BeginFlush, WorkFor, ScanAhead, Scanning, InHand, Reading, Above, StaleReadIsSignalled
<1>7. CASE SkipFlush
  BY <1>7 DEF SkipFlush, Undisturbed
<1>8. CASE Classify
  <2>1. PICK j \in dirty :
          /\ dirty' = dirty \ {j}
          /\ \/ j.dir \in dirs /\ live' = live \cup {j} /\ vanished' = vanished
             \/ j.dir \notin dirs /\ vanished' = vanished \cup {j} /\ live' = live
    BY <1>8 DEF Classify
  <2>2. /\ pc = "classify" /\ pc' = "classify" /\ j \in Key
        /\ UNCHANGED <<fsVars, queue, indexVars, lib, workVars, pending>>
    BY <1>1, <1>8 DEF Classify, TypeOK
  <2>3. \A s \in Signalled : s \in Signalled' \/ s = j
    BY <2>1, <2>2 DEF Signalled
  <2>4. \A k \in Key : Above(j, k) /\ k.dir \in dirs => j.dir \in dirs
    BY <1>1, <2>2, TreeFacts, PathFacts DEF Above
  <2>5. ASSUME NEW k \in Key, EventFor(k)
        PROVE  \/ EventFor(k)'
               \/ k.dir \in dirs /\ \E s \in live' : Above(s, k)
               \/ k.dir \notin dirs /\ \E s \in vanished' : Above(s, k)
    <3>1. PICK s \in Signalled :
            /\ Above(s, k)
            /\ k.dir \in dirs \/ (s.dir \notin dirs /\ (s.dir = k.dir \/ s.dir \in movedAway))
      BY <2>5 DEF EventFor
    <3>2. CASE s \in Signalled'
      BY <2>2, <3>1, <3>2 DEF EventFor, Above
    <3>3. CASE s = j
      BY <2>1, <2>4, <3>1, <3>3
    <3> QED
      BY <2>3, <3>2, <3>3
  <2>6. \A k \in Key : WorkFor(k) => WorkFor(k)'
    BY <2>1, <2>2 DEF WorkFor, ScanAhead, Scanning, InHand, Reading, Above
  <2>7. \A k \in Key : Stale(k)' <=> Stale(k)
    BY <2>2 DEF Stale, Listed, VideosIn, RowsIn
  <2>8. NothingFallsIntoAGap'
    BY <1>1, <2>2, <2>5, <2>6, <2>7 DEF NothingFallsIntoAGap, WorkFor, Above
  <2>9. ReturnInv'
    <3> SUFFICES ASSUME NEW s \in vanished'
                 PROVE  /\ s.dir # Roots[s.lib]
                        /\ \A k \in Key : Above(s, k) /\ k.dir \in dirs =>
                             EventFor(k)' \/ \E t \in live' : Above(t, k)
      BY <2>2 DEF ReturnInv, Above
    <3>1. CASE s \in vanished
      BY <1>1, <2>1, <2>5, <3>1 DEF ReturnInv
    <3>2. CASE s \notin vanished
      <4>1. s = j /\ j.dir \notin dirs
        BY <2>1, <3>2
      <4> QED
        BY <1>1, <2>2, <2>4, <4>1, TreeFacts
    <3> QED
      BY <3>1, <3>2
  <2>10. StaleReadIsSignalled'
    BY <2>2 DEF StaleReadIsSignalled, InHand, Expected, Reading
  <2> QED
    BY <1>3, <2>2, <2>8, <2>9, <2>10
<1>9. CASE PruneVanished
  <2>1. vanished \subseteq Key /\ vanished' = PruneNested(vanished)
    BY <1>1, <1>9 DEF PruneVanished, TypeOK
  <2>2. \A s \in vanished : \E t \in vanished' : Above(t, s)
    BY <2>1, PruneCovers
  <2>3. vanished' \subseteq vanished
    BY <2>1 DEF PruneNested
  <2>4. \A k \in Key : (\E s \in vanished : Above(s, k)) => \E t \in vanished' : Above(t, k)
    BY <2>1, <2>2, <2>3, AboveFacts
  <2>5. \A k \in Key : WorkFor(k) => WorkFor(k)'
    BY <1>9, <2>4 DEF PruneVanished, WorkFor, ScanAhead, Scanning, InHand, Reading, Above
  <2> QED
    BY <1>4, <1>9, <2>3, <2>5 DEF PruneVanished, Signalled, StaleReadIsSignalled, InHand, Expected, Reading
<1>10. CASE RemoveVanished
  <2>1. PICK j \in vanished :
          /\ vanished' = vanished \ {j}
          /\ rows' \subseteq rows
          /\ \A k \in Key : RowsOf(k)' = IF Above(j, k) THEN {} ELSE RowsOf(k)
    BY <1>1, <1>10, RemoveVanishedIsExact
  <2>2. /\ pc = "remove" /\ pc' = "remove"
        /\ UNCHANGED <<fsVars, queue, generation, lib, workVars, pending, dirty, live>>
    BY <1>10 DEF RemoveVanished
  <2>3. \A k \in Key : Above(j, k) => Listed(k)' = {}
    BY <2>1 DEF Listed, VideosIn, RowsOf
  <2>4. \A k \in Key : EventFor(k)' <=> EventFor(k)
    BY <2>2 DEF EventFor, Signalled, Above
  <2>5. NothingFallsIntoAGap'
    <3> SUFFICES ASSUME NEW k \in Key, Stale(k)', ~ EventFor(k)
                 PROVE  WorkFor(k)'
      BY <2>4 DEF NothingFallsIntoAGap
    <3>1. CASE Above(j, k)
      <4>1. Listed(k)' = {}
        BY <2>3, <3>1
      <4>2. k.dir \in dirs
        BY <1>1, <2>2, <4>1, TreeFacts, PathFacts DEF Stale
      <4>3. \E t \in live : Above(t, k)
        BY <1>1, <3>1, <4>2 DEF ReturnInv
      <4> QED
        BY <2>2, <4>2, <4>3 DEF WorkFor, Above
    <3>2. CASE ~ Above(j, k)
      <4>1. Stale(k)
        BY <2>1, <2>2, <3>2 DEF Stale, Listed, VideosIn, RowsOf
      <4>2. WorkFor(k)
        BY <1>1, <4>1 DEF NothingFallsIntoAGap
      <4> QED
        BY <2>1, <2>2, <3>2, <4>2 DEF WorkFor, ScanAhead, Scanning, InHand, Reading, Above
    <3> QED
      BY <3>1, <3>2
  <2>6. ReturnInv'
    BY <1>1, <2>1, <2>2, <2>4 DEF ReturnInv, Above
  <2>7. TreeInv' /\ StaleReadIsSignalled'
    BY <1>1, <2>2 DEF TreeInv, StaleReadIsSignalled, InHand, Expected, Reading
  <2>8. \A r \in rows' : r.last_seen <= generation'
    BY <1>2, <2>1, <2>2
  <2> QED
    BY <2>2, <2>5, <2>6, <2>7, <2>8, SafeInALoop
<1>11. CASE PruneLive
  <2>1. live \subseteq Key /\ live' = PruneNested(live)
    BY <1>1, <1>11 DEF PruneLive, TypeOK
  <2>2. \A s \in live : \E t \in live' : Above(t, s)
    BY <2>1, PruneCovers
  <2>3. live' \subseteq live
    BY <2>1 DEF PruneNested
  <2>4. \A k \in Key : (\E s \in live : Above(s, k)) => \E t \in live' : Above(t, k)
    BY <2>1, <2>2, <2>3, AboveFacts
  <2>5. \A k \in Key : WorkFor(k) => WorkFor(k)'
    BY <1>11, <2>4 DEF PruneLive, WorkFor, ScanAhead, Scanning, InHand, Reading, Above
  <2> QED
    BY <1>4, <1>11, <2>5 DEF PruneLive, Signalled, StaleReadIsSignalled, InHand, Expected, Reading
<1>12. CASE WalkLive
  <2>1. PICK j \in live :
          /\ live' = live \ {j}
          /\ todo' = {[lib |-> j.lib, dir |-> d] : d \in Subtree(j.dir, dirs)}
    BY <1>12, SafeWalks DEF WalkLive
  <2>2. /\ pc = "walkLive" /\ pc' = "flush" /\ todo = {} /\ vanished = {}
        /\ UNCHANGED <<fsVars, queue, indexVars, lib, readVars, pending, dirty, vanished>>
    BY <1>1, <1>12 DEF WalkLive, PhaseInv
  <2>3. \A k \in Key : Above(j, k) /\ k.dir \in dirs => k \in todo'
    BY <2>1 DEF Key, Subtree, Above
  <2>4. \A k \in Key : WorkFor(k) => WorkFor(k)'
    BY <2>1, <2>2, <2>3 DEF WorkFor, ScanAhead, Scanning, InHand, Reading, Above
  <2> QED
    BY <1>4, <2>2, <2>4 DEF Signalled, StaleReadIsSignalled, InHand, Expected, Reading
<1>13. CASE FlushRead
  <2>1. PICK j \in todo : /\ todo' = todo \ {j} /\ pc' = "flushDir"
                          /\ at' = j /\ Expected' = disk'[j.dir]
    BY <1>1, <1>13, Opened, TreeFacts DEF FlushRead, TypeOK, Undisturbed
  <2>2. /\ pc = "flush"
        /\ UNCHANGED <<fsVars, queue, indexVars, lib, pending, flushVars>>
    BY <1>13 DEF FlushRead
  <2>3. \A k \in Key : WorkFor(k) => WorkFor(k)'
    BY <2>1, <2>2 DEF WorkFor, ScanAhead, Scanning, InHand, Reading, Above
  <2>4. StaleReadIsSignalled'
    BY <2>1, <2>2 DEF StaleReadIsSignalled, InHand
  <2> QED
    BY <1>4, <2>1, <2>2, <2>3, <2>4 DEF Signalled
<1>14. CASE FlushWrite
  <2>1. /\ pc = "flushDir" /\ pc' = "flush" /\ rows' = Reconciled /\ Expected = listing
        /\ UNCHANGED <<fsVars, queue, generation, lib, todo, pending, flushVars>>
    BY <1>14 DEF FlushWrite, Undisturbed, HasRead, Expected
  <2>2. /\ at \in Key
        /\ \A k \in Key : k # at => RowsOf(k)' = RowsOf(k) /\ Listed(k)' = Listed(k)
        /\ \A k \in Key : k = at => Listed(k)' = listing
        /\ \A r \in rows' : r \in rows \/ (r.lib = at.lib /\ r.last_seen = generation)
    BY <2>1, ReconciledIsExact DEF Reading
  <2>3. \A k \in Key : /\ EventFor(k)' <=> EventFor(k)
                       /\ k # at => (Stale(k)' <=> Stale(k))
                       /\ ~ InHand(k)'
                       /\ InHand(k) <=> k = at
    BY <2>1, <2>2 DEF EventFor, Signalled, Stale, InHand, Reading, Above
  <2>4. \A k \in Key : k # at /\ WorkFor(k) => WorkFor(k)'
    BY <2>1, <2>3 DEF WorkFor, ScanAhead, Scanning, Above
  <2>5. \A k \in Key : k = at /\ Stale(k)' => EventFor(k)'
    BY <1>1, <2>1, <2>2, <2>3 DEF Stale, StaleReadIsSignalled
  <2>6. NothingFallsIntoAGap'
    BY <1>1, <2>1, <2>3, <2>4, <2>5 DEF NothingFallsIntoAGap
  <2>7. TreeInv' /\ StaleReadIsSignalled'
    BY <1>1, <2>1, <2>3 DEF TreeInv, StaleReadIsSignalled
  <2>8. ReturnInv'
    BY <1>1, <2>1 DEF PhaseInv, ReturnInv
  <2>9. \A r \in rows' : r.last_seen <= generation'
    BY <1>1, <1>2, <2>1, <2>2, BoundAssumption DEF TypeOK
  <2> QED
    BY <2>1, <2>6, <2>7, <2>8, <2>9, SafeInALoop
<1>15. CASE SubtreeDone \/ FlushDone
  <2>1. /\ pc \in {"flush", "walkLive"} /\ pc' \in {"walkLive", "probe"}
        /\ UNCHANGED <<fsVars, queue, indexVars, lib, workVars, pending, flushVars>>
    BY <1>15 DEF SubtreeDone, FlushDone
  <2>2. \A k \in Key : WorkFor(k) => WorkFor(k)'
    BY <2>1 DEF WorkFor, ScanAhead, Scanning, InHand, Reading, Above
  <2> QED
    BY <1>4, <2>1, <2>2 DEF Signalled, StaleReadIsSignalled, InHand, Expected, Reading
<1> QED
  BY <1>5, <1>6, <1>7, <1>8, <1>9, <1>10, <1>11, <1>12, <1>13, <1>14, <1>15
  DEF EventLoop
-------------------------------------------------------------------------------
(* The theorems. *)

(* What a reading does between its ends leaves all but the reading as it was. *)
LEMMA ReadingIsSafe ==
  ASSUME Undisturbed, Typed, Safe, StatEntry \/ BuildRecord
  PROVE  Safe'
<1>1. /\ UNCHANGED <<dirs, disk, movedAway, queue, rows, generation, pc, lib, todo, at,
                     pending, dirty, vanished, live, healthy>>
      /\ at \in Key
      /\ Expected = disk[at.dir] => Expected' = disk'[at.dir]
  BY ReadingStep DEF Undisturbed
<1>2. TreeInv' /\ StampInv'
  BY <1>1 DEF Safe, TreeInv, StampInv, ScanAhead
<1>3. \A k \in Key : /\ EventFor(k)' <=> EventFor(k)
                     /\ WorkFor(k)' <=> WorkFor(k)
                     /\ Stale(k)' <=> Stale(k)
                     /\ InHand(k)' <=> InHand(k)
                     /\ RowsOf(k)' = RowsOf(k)
  BY <1>1 DEF EventFor, Signalled, WorkFor, ScanAhead, Scanning, InHand, Reading, RowsOf,
              RowsIn, Stale, Listed, VideosIn, Above
<1>4. NothingFallsIntoAGap' /\ SeenInv' /\ ReturnInv'
  BY <1>1, <1>3 DEF Safe, NothingFallsIntoAGap, SeenInv, Scanning, ReturnInv, Above
<1>5. StaleReadIsSignalled'
  BY <1>1, <1>3 DEF Safe, StaleReadIsSignalled, InHand
<1> QED
  BY <1>2, <1>4, <1>5 DEF Safe

LEMMA SafeStep == Undisturbed /\ Typed /\ Safe /\ [Next]_vars => Safe'
<1> SUFFICES ASSUME Undisturbed, Typed, Safe, [Next]_vars
             PROVE  Safe'
  OBVIOUS
<1>1. CASE Filesystem
  BY <1>1, FilesystemStep
<1>2. CASE Start \/ Crash
  <2>1. /\ pc' \in {"down", "boot"} /\ vanished' = {} /\ TreeInv'
        /\ rows' = rows /\ generation' = generation
    BY <1>2 DEF Start, Crash, Typed, PhaseInv, Safe, TreeInv, fsVars, indexVars, flushVars
  <2> QED
    BY <2>1, DownIsSafe DEF Safe
<1>3. CASE CorruptGeneration
  BY <1>3 DEF CorruptGeneration, Undisturbed
<1>4. CASE Scan
  BY <1>4, ScanStep
<1>5. CASE EventLoop
  BY <1>5, EventLoopStep
<1>6. CASE StatEntry \/ BuildRecord
  BY <1>6, ReadingIsSafe
<1>7. CASE UNCHANGED vars
  BY <1>7
  DEF vars, Safe, TreeInv, StampInv, NothingFallsIntoAGap, StaleReadIsSignalled, SeenInv,
      ReturnInv, EventFor, WorkFor, Signalled, Stale, Listed, VideosIn, RowsIn, RowsOf,
      ScanAhead, Scanning, InHand, Expected, Reading, Above
<1> QED
  BY <1>1, <1>2, <1>3, <1>4, <1>5, <1>6, <1>7 DEF Next, Task

(* The inductive invariant: wherever the index is wrong, something waiting or
   begun will put it right, at every moment of the scan and of every flush. *)
THEOREM InvariantHolds == Undisturbed => (Spec => []IInv)
<1> SUFFICES ASSUME Undisturbed
             PROVE  Spec => []IInv
  OBVIOUS
<1>1. Init => Safe
  BY SafeInit
<1>2. Typed /\ Safe /\ [Next]_vars => Safe'
  BY SafeStep
<1>3. Typed /\ Safe => IInv
  BY InvariantParts
<1> QED
  BY <1>1, <1>2, <1>3, TypedAlways, PTL DEF Spec

(* Whenever the task has caught up with its events, the index lists exactly
   the videos on disk, however the changes interleaved with scan, crash,
   restart and flush. *)
THEOREM MirrorsDisk == Undisturbed => (Spec => []IndexMirrorsDisk)
<1> SUFFICES ASSUME Undisturbed
             PROVE  Spec => []IndexMirrorsDisk
  OBVIOUS
<1>1. IInv => IndexMirrorsDisk
  <2> SUFFICES ASSUME IInv, Settled, NEW k \in Key, Stale(k)
               PROVE  FALSE
    BY DEF IndexMirrorsDisk
  <2>1. PhaseInv /\ NothingFallsIntoAGap
    BY DEF IInv
  <2>2. Signalled = {}
    BY <2>1 DEF Settled, PhaseInv, Signalled
  <2>3. ~ EventFor(k)
    BY <2>2 DEF EventFor
  <2>4. ~ WorkFor(k)
    BY <2>1 DEF Settled, PhaseInv, WorkFor, ScanAhead, Scanning, InHand, Reading
  <2> QED
    BY <2>1, <2>3, <2>4 DEF NothingFallsIntoAGap
<1> QED
  BY <1>1, InvariantHolds, PTL

(* At every moment, each directory the index has wrong has an event waiting
   or work begun that will put it right: "nothing falls into a gap". *)
THEOREM NoGap == Undisturbed => (Spec => []NothingFallsIntoAGap)
<1> SUFFICES ASSUME Undisturbed
             PROVE  Spec => []NothingFallsIntoAGap
  OBVIOUS
<1>1. IInv => NothingFallsIntoAGap
  BY DEF IInv
<1> QED
  BY <1>1, InvariantHolds, PTL

(* A listing read from a directory that has changed since is never written
   without an event that brings the directory back. *)
THEOREM StaleReads == Undisturbed => (Spec => []StaleReadIsSignalled)
<1> SUFFICES ASSUME Undisturbed
             PROVE  Spec => []StaleReadIsSignalled
  OBVIOUS
<1>1. IInv => StaleReadIsSignalled
  BY DEF IInv
<1> QED
  BY <1>1, InvariantHolds, PTL

-------------------------------------------------------------------------------
(* What the two statements that delete rows may and may not delete. *)

LEMMA SweepStep ==
  ASSUME IInv, Sweep, NEW k \in Key, k.lib = lib, k.dir \notin dirs, ~ EventFor(k)
  PROVE  Listed(k)' = {}
<1>1. /\ TypeOK /\ PhaseInv /\ TreeInv /\ NothingFallsIntoAGap
  BY DEF IInv
<1>2. /\ pc = "scan" /\ todo = {} /\ lib \in Nat
      /\ rows' = RemoveUnseen(rows, lib, generation)
  BY <1>1 DEF Sweep, TypeOK
<1>3. RowsOf(k)' = {r \in RowsOf(k) : ~ (k.lib = lib /\ r.last_seen < generation)}
  BY <1>2, SweepRows DEF RowsOf
<1>4. ~ (k \in todo) /\ ~ InHand(k) /\ live = {} /\ vanished = {}
  BY <1>1, <1>2 DEF InHand, Reading, PhaseInv
<1>5. disk[k.dir] = {}
  BY <1>1, TreeFacts, PathFacts
<1>6. CASE Listed(k) = {}
  <2>1. RowsOf(k) = {}
    BY <1>6 DEF Listed, VideosIn, RowsOf
  <2>2. RowsOf(k)' = {}
    BY <1>3, <2>1
  <2> QED
    BY <2>2 DEF Listed, VideosIn, RowsOf
<1>7. CASE Listed(k) # {}
  <2>1. WorkFor(k)
    BY <1>1, <1>5, <1>7 DEF NothingFallsIntoAGap, Stale
  <2>2. ~ ScanAhead(k.lib)
    BY <1>2 DEF ScanAhead
  <2>3. \A r \in RowsOf(k) : r.last_seen < generation
    BY <1>4, <2>1, <2>2 DEF WorkFor
  <2>4. RowsOf(k)' = {}
    BY <1>3, <2>3
  <2> QED
    BY <2>4 DEF Listed, VideosIn, RowsOf
<1> QED
  BY <1>6, <1>7

(* The sweep leaves no row of a directory that is gone, unless an event is
   waiting that will remove it. *)
THEOREM SweepLeavesNothingStale == Undisturbed => (Spec => SweepRemovesVanished)
<1> SUFFICES ASSUME Undisturbed
             PROVE  Spec => SweepRemovesVanished
  OBVIOUS
<1>1. ASSUME IInv, NEW k \in Key, Sweep, k.lib = lib, k.dir \notin dirs, ~ EventFor(k)
      PROVE  Listed(k)' = {}
  BY <1>1, SweepStep
<1>2. IInv /\ [Next]_vars =>
        [\A k \in Key : /\ Sweep
                        /\ k.lib = lib
                        /\ k.dir \notin dirs
                        /\ ~ EventFor(k)
                        => Listed(k)' = {}]_vars
  BY <1>1
<1> QED
  BY <1>2, InvariantHolds, PTL DEF Spec, SweepRemovesVanished

(* The step of Next that stays in the removal phase and shrinks its list, or
   changes rows from it, is RemoveVanished. *)
LEMMA RemovalsOnly ==
  ASSUME [Next]_vars, pc = "remove"
  PROVE  \/ RemoveVanished
         \/ rows' = rows /\ (pc' = "remove" => vanished' = vanished)
<1> USE DEF fsVars, indexVars, workVars, readVars, flushVars
<1>1. CASE Filesystem
  BY <1>1 DEF Filesystem, PutVideo, DeleteVideo, MakeDirectory, RemoveDirectory,
              MoveTreeAway, MoveTreeIn, Change
<1>2. CASE Start \/ Crash \/ CorruptGeneration
  BY <1>2 DEF Start, Crash, CorruptGeneration
<1>3. CASE Scan
  BY <1>3 DEF Scan, BeginScan, WalkLibrary, RootUnresolved, ScanRead, ScanWrite, Sweep,
              MarkScanComplete, ScanDbError, ProbeAndWake
<1>4. CASE EventLoop
  BY <1>4 DEF EventLoop, ReceiveEvent, BeginFlush, SkipFlush, Classify, PruneVanished,
              PruneLive, WalkLive, FlushRead, FlushWrite, SubtreeDone, FlushDone
<1>5. CASE StatEntry \/ BuildRecord \/ UNCHANGED vars
  BY <1>5 DEF StatEntry, BuildRecord, vars
<1> QED
  BY <1>1, <1>2, <1>3, <1>4, <1>5 DEF Next, Task

(* Removing a vanished directory takes the rows of its whole tree ... *)
THEOREM RemovalIsComplete == Undisturbed => (Spec => RemovesWholeTree)
<1> SUFFICES ASSUME Undisturbed
             PROVE  Spec => RemovesWholeTree
  OBVIOUS
<1>1. ASSUME IInv, [Next]_vars, NEW s \in Removing, NEW k \in Key, Above(s, k)
      PROVE  Listed(k)' = {}
  <2>1. pc = "remove" /\ pc' = "remove" /\ s \in vanished \ vanished'
    BY DEF Removing
  <2>2. RemoveVanished
    BY <1>1, <2>1, RemovalsOnly
  <2>3. RowsOf(k)' = {}
    BY <1>1, <2>1, <2>2, RemoveVanishedIsExact DEF IInv
  <2> QED
    BY <2>3 DEF Listed, VideosIn, RowsOf
<1>2. IInv /\ [Next]_vars =>
        [\A s \in Removing, k \in Key : Above(s, k) => Listed(k)' = {}]_vars
  BY <1>1
<1> QED
  BY <1>2, InvariantHolds, PTL DEF Spec, RemovesWholeTree

-------------------------------------------------------------------------------
(* The health signal, whatever the database and the roots do meanwhile.  While
   the scan runs no event is taken from the queue, so that what the disk has
   changed since stays signalled, and an error can only end the scan early. *)

\* What the signal rests on: events reach their library and no directory above
\* a root vanishes; directories are read as they are and the generation counts up.
RootsReport ==
  /\ EventsReach
  /\ RootsMayVanish =>
       \A d \in Dir, l \in Library : IsPrefix(d, Roots[l]) => d = Roots[l]

ScanIsFaithful == RootsReport /\ ~ ReadMayFail /\ ~ JunkGeneration

SignalAbove(k) == \E s \in Signalled : Above(s, k)

InScan == pc \in {"walk", "scan", "scanDir", "mark"}

RootedInv ==
  ~ RootsMayVanish =>
    \A d \in Dir, l \in Library : IsPrefix(d, Roots[l]) => d \in dirs

EmptyInv == \A d \in Dir \ dirs : disk[d] = {}

\* The scan will come to directory k, or its sweep to the rows of it.
ScanReaches(k) ==
  \/ ScanAhead(k.lib)
  \/ k \in todo
  \/ InHand(k)
  \/ k.dir \notin dirs /\ Scanning(k.lib) /\ \A r \in RowsOf(k) : r.last_seen < generation

ScanGap == InScan => \A k \in Key : Stale(k) => SignalAbove(k) \/ ScanReaches(k)

ScanReadsInv ==
  pc = "scanDir" => \A k \in Key : InHand(k) /\ Expected # disk[k.dir] => SignalAbove(k)

ScanSeen ==
  \A k \in Key :
    Scanning(k.lib) /\ k.dir \in dirs =>
      \/ SignalAbove(k)
      \/ k \in todo
      \/ InHand(k)
      \/ \A r \in RowsOf(k) : r.last_seen = generation

Honest ==
  RootedInv /\ EmptyInv /\ StampInv /\ ScanGap /\ ScanReadsInv /\ ScanSeen

LEMMA HonestInit == Init => Honest
<1> SUFFICES ASSUME Init
             PROVE  Honest
  OBVIOUS
<1>1. RootedInv
  BY PathFacts DEF Init, RootedInv
<1>2. EmptyInv /\ StampInv /\ ScanGap /\ ScanReadsInv /\ ScanSeen
  BY DEF Init, EmptyInv, StampInv, ScanGap, InScan, ScanReadsInv, ScanSeen, Scanning
<1> QED
  BY <1>1, <1>2 DEF Honest

(* Outside of the scan little is asked. *)
LEMMA HonestOutside ==
  ASSUME pc' \notin {"walk", "scan", "scanDir", "mark"}, RootedInv', EmptyInv', StampInv'
  PROVE  Honest'
BY DEF Honest, ScanGap, InScan, ScanReadsInv, ScanSeen, Scanning

(* Every change of the disk is signalled, at the directory or above it. *)
LEMMA ChangesAreSignalled ==
  ASSUME RootsReport, TypeOK, RootedInv, EmptyInv, Filesystem
  PROVE  /\ RootedInv' /\ EmptyInv'
         /\ UNCHANGED <<rows, generation, pc, lib, todo, at, unread, entry, listing>>
         /\ pc # "down" =>
              \A k \in Key :
                /\ SignalAbove(k) => SignalAbove(k)'
                /\ \/ SignalAbove(k)'
                   \/ (k.dir \in dirs' <=> k.dir \in dirs) /\ disk'[k.dir] = disk[k.dir]
<1>1. UNCHANGED <<rows, generation, pc, lib, todo, at, unread, entry, listing, pending, dirty>>
  BY DEF Filesystem, PutVideo, DeleteVideo, MakeDirectory, RemoveDirectory, MoveTreeAway,
     MoveTreeIn, Change
<1>2. ASSUME pc # "down", NEW e, Notify({e}), NEW k \in Key
      PROVE  /\ SignalAbove(k) => SignalAbove(k)'
             /\ \A s \in DirtyDirectories(e) : Above(s, k) => SignalAbove(k)'
  <2>1. queue' = queue \cup {e}
    BY <1>2 DEF Notify
  <2> QED
    BY <1>1, <2>1 DEF SignalAbove, Signalled, Above
<1>3. \A k \in Key : /\ k.dir \in Dir /\ k.lib \in Library /\ IsPrefix(Roots[k.lib], k.dir)
                     /\ Above(k, k)
                     /\ k \in DirtyDirectories(InDirectory(k.dir))
                     /\ k \in DirtyDirectories(OnDirectory(k.dir))
  BY PathFacts, AboveFacts, EventsReachTheirDirectory DEF RootsReport
<1>4. ASSUME NEW d \in Dir, NEW v \in Video, PutVideo(d, v) \/ DeleteVideo(d, v)
      PROVE  /\ dirs' = dirs /\ Notify({InDirectory(d)})
             /\ \A e \in Dir : e # d => disk'[e] = disk[e]
             /\ d \in dirs
  BY <1>4 DEF PutVideo, DeleteVideo, TypeOK, EmptyInv
<1>5. ASSUME NEW d \in Dir, MakeDirectory(d) \/ RemoveDirectory(d)
      PROVE  /\ disk' = disk /\ Notify({OnDirectory(d)})
             /\ \A e \in Dir : e # d => (e \in dirs' <=> e \in dirs)
  BY <1>5 DEF MakeDirectory, RemoveDirectory
<1>6. ASSUME NEW d \in Dir,
             \/ MoveTreeAway(d)
             \/ \E tree \in SUBSET Subtree(d, Dir) :
                  \E contents \in [tree -> Listing] : MoveTreeIn(d, tree, contents)
      PROVE  /\ Notify({OnDirectory(d)})
             /\ \A e \in Dir : ~ IsPrefix(d, e) =>
                  (e \in dirs' <=> e \in dirs) /\ disk'[e] = disk[e]
             /\ \A l \in Library : IsPrefix(d, Roots[l]) => d = Roots[l]
  <2>1. CASE MoveTreeAway(d)
    BY <2>1 DEF MoveTreeAway, Subtree, RootsReport
  <2>2. ASSUME NEW tree \in SUBSET Subtree(d, Dir),
               NEW contents \in [tree -> Listing], MoveTreeIn(d, tree, contents)
        PROVE  /\ Notify({OnDirectory(d)})
               /\ \A e \in Dir : ~ IsPrefix(d, e) =>
                    (e \in dirs' <=> e \in dirs) /\ disk'[e] = disk[e]
               /\ \A l \in Library : IsPrefix(d, Roots[l]) => d = Roots[l]
    BY <2>2 DEF MoveTreeIn, Subtree, RootsReport, RootedInv
  <2> QED
    BY <1>6, <2>1, <2>2
<1>7. RootedInv'
  <2> SUFFICES ASSUME ~ RootsMayVanish, NEW d \in Dir, NEW l \in Library,
                      IsPrefix(d, Roots[l]), d \notin dirs'
               PROVE  FALSE
    BY DEF RootedInv
  <2>1. d \in dirs /\ Roots[l] \in dirs /\ Roots[l] \in Dir
    BY PathFacts, DirPrefix DEF RootedInv
  <2>2. ASSUME NEW e \in Dir, RemoveDirectory(e)
        PROVE  FALSE
    BY <2>1, <2>2 DEF RemoveDirectory, Subtree
  <2>3. ASSUME NEW e \in Dir, MoveTreeAway(e)
        PROVE  FALSE
    <3>1. IsPrefix(e, d)
      BY <2>1, <2>3 DEF MoveTreeAway, Subtree
    <3>2. IsPrefix(e, Roots[l])
      BY <2>1, <3>1, DirPrefix
    <3> QED
      BY <2>3, <3>2 DEF MoveTreeAway
  <2> QED
    BY <2>1, <2>2, <2>3
    DEF Filesystem, PutVideo, DeleteVideo, MakeDirectory, MoveTreeIn
<1>8. EmptyInv'
  <2> SUFFICES ASSUME NEW e \in Dir, e \notin dirs'
               PROVE  disk'[e] = {}
    BY DEF EmptyInv
  <2>1. ASSUME NEW d \in Dir, NEW v \in Video, PutVideo(d, v) \/ DeleteVideo(d, v)
        PROVE  disk'[e] = {}
    BY <1>4, <2>1 DEF EmptyInv
  <2>2. ASSUME NEW d \in Dir, MakeDirectory(d) \/ RemoveDirectory(d)
        PROVE  disk'[e] = {}
    BY <2>2 DEF EmptyInv, MakeDirectory, RemoveDirectory
  <2>3. ASSUME NEW d \in Dir, MoveTreeAway(d)
        PROVE  disk'[e] = {}
    BY <2>3 DEF EmptyInv, MoveTreeAway, Subtree
  <2>4. ASSUME NEW d \in Dir, NEW tree \in SUBSET Subtree(d, Dir),
               NEW contents \in [tree -> Listing], MoveTreeIn(d, tree, contents)
        PROVE  disk'[e] = {}
    BY <2>4 DEF EmptyInv, MoveTreeIn
  <2> QED
    BY <2>1, <2>2, <2>3, <2>4 DEF Filesystem
<1> DEFINE Told(k) ==
             /\ SignalAbove(k) => SignalAbove(k)'
             /\ \/ SignalAbove(k)'
                \/ (k.dir \in dirs' <=> k.dir \in dirs) /\ disk'[k.dir] = disk[k.dir]
<1>9. ASSUME pc # "down", NEW k \in Key
      PROVE  Told(k)
  <2>1. ASSUME NEW d \in Dir, NEW v \in Video, PutVideo(d, v) \/ DeleteVideo(d, v)
        PROVE  Told(k)
    BY <1>2, <1>3, <1>4, <1>9, <2>1
  <2>2. ASSUME NEW d \in Dir, MakeDirectory(d) \/ RemoveDirectory(d)
        PROVE  Told(k)
    BY <1>2, <1>3, <1>5, <1>9, <2>2
  <2>3. ASSUME NEW d \in Dir,
               \/ MoveTreeAway(d)
               \/ \E tree \in SUBSET Subtree(d, Dir) :
                    \E contents \in [tree -> Listing] : MoveTreeIn(d, tree, contents)
        PROVE  Told(k)
    <3>1. CASE ~ IsPrefix(d, k.dir)
      BY <1>2, <1>3, <1>6, <1>9, <2>3, <3>1
    <3>2. CASE IsPrefix(d, k.dir)
      <4>1. IsPrefix(Roots[k.lib], d)
        <5>1. IsPrefix(d, Roots[k.lib]) \/ IsPrefix(Roots[k.lib], d)
          BY <1>3, <3>2, PathFacts, PrefixLinear
        <5>2. IsPrefix(d, Roots[k.lib]) => d = Roots[k.lib]
          BY <1>3, <1>6, <2>3
        <5> QED
          BY <5>1, <5>2, DirPrefix
      <4>2. [lib |-> k.lib, dir |-> d] \in Key /\ Above([lib |-> k.lib, dir |-> d], k)
        BY <1>3, <3>2, <4>1 DEF Key, Above
      <4>3. [lib |-> k.lib, dir |-> d] \in DirtyDirectories(OnDirectory(d))
        BY <1>3, <4>2
      <4> QED
        BY <1>2, <1>6, <1>9, <2>3, <4>2, <4>3
    <3> QED
      BY <3>1, <3>2
  <2> QED
    BY <2>1, <2>2, <2>3 DEF Filesystem
<1> QED
  BY <1>1, <1>7, <1>8, <1>9

(* Stamps never run ahead of the scan, as long as the counter only counts. *)
LEMMA StampStep ==
  ASSUME ~ JunkGeneration, Typed, StampInv, [Next]_vars
  PROVE  StampInv'
<1> USE DEF fsVars, indexVars, workVars, readVars, flushVars
<1>1. /\ Library = 1..Len(Roots) /\ Len(Roots) \in Nat
      /\ generation \in Nat /\ lib \in Nat
      /\ \A r \in rows : r.lib \in Library /\ r.last_seen \in Nat
  BY PathAssumption, BoundAssumption DEF Library, Typed, TypeOK
<1>2. CASE /\ UNCHANGED generation
           /\ \A r \in rows' : r \in rows
           /\ \A l \in Library : ScanAhead(l)' /\ pc' \notin {"down", "boot"} =>
                ScanAhead(l) /\ pc \notin {"down", "boot"}
  BY <1>1, <1>2 DEF StampInv
<1>3. CASE Filesystem
  <2>1. UNCHANGED <<generation, rows, pc, lib>>
    BY <1>3 DEF Filesystem, PutVideo, DeleteVideo, MakeDirectory, RemoveDirectory,
       MoveTreeAway, MoveTreeIn, Change
  <2> QED
    BY <1>2, <2>1 DEF ScanAhead
<1>4. CASE Start \/ Crash \/ CorruptGeneration
  BY <1>2, <1>4 DEF Start, Crash, CorruptGeneration
<1>5. CASE BeginScan
  BY <1>1, <1>5 DEF BeginScan, StampInv
<1>6. CASE WalkLibrary \/ RootUnresolved \/ ScanRead \/ MarkScanComplete \/ ScanDbError
           \/ ProbeAndWake
  BY <1>1, <1>2, <1>6 DEF WalkLibrary, RootUnresolved, ScanRead, MarkScanComplete,
     ScanDbError, AbortScan, ProbeAndWake, ScanAhead
<1>7. CASE Sweep
  BY <1>1, <1>2, <1>7 DEF Sweep, RemoveUnseen, ScanAhead
<1>8. CASE ScanWrite \/ (FlushWrite /\ rows' = Reconciled)
  <2>1. /\ UNCHANGED <<generation, lib>>
        /\ \/ pc = "scanDir" /\ pc' = "scan" /\ at.lib = lib
           \/ pc = "flushDir" /\ pc' = "flush"
        /\ rows' = Reconciled
    BY <1>8 DEF ScanWrite, FlushWrite, Typed, PhaseInv
  <2>2. \A r \in rows' : r \in rows \/ (r.lib = at.lib /\ r.last_seen = generation)
    BY <2>1, ReconciledIsExact DEF Reading
  <2> QED
    BY <1>1, <2>1, <2>2 DEF StampInv, ScanAhead
<1>9. CASE EventLoop /\ ~ (FlushWrite /\ rows' = Reconciled)
  <2>1. /\ UNCHANGED generation
        /\ pc' \notin {"down", "boot", "walk", "scan", "scanDir"}
    BY <1>9 DEF EventLoop, ReceiveEvent, BeginFlush, SkipFlush, Classify, PruneVanished,
       RemoveVanished, PruneLive, WalkLive, FlushRead, FlushWrite, SubtreeDone, FlushDone
  <2>2. \A r \in rows' : r \in rows
    BY <1>9 DEF EventLoop, ReceiveEvent, BeginFlush, SkipFlush, Classify, PruneVanished,
       RemoveVanished, PruneLive, WalkLive, FlushRead, FlushWrite, SubtreeDone, FlushDone,
       RemoveTree
  <2> QED
    BY <1>2, <2>1, <2>2 DEF ScanAhead
<1>10. CASE StatEntry \/ BuildRecord \/ UNCHANGED vars
  BY <1>2, <1>10 DEF StatEntry, BuildRecord, vars, ScanAhead
<1> QED
  BY <1>3, <1>4, <1>5, <1>6, <1>7, <1>8, <1>9, <1>10 DEF Next, Task, Scan

(* The scan turns what it reads into rows; what changed since is signalled. *)
LEMMA HonestScan ==
  ASSUME ScanIsFaithful, Typed, Honest, Scan, StampInv'
  PROVE  Honest'
<1> USE DEF fsVars, indexVars, workVars, readVars, flushVars
<1>1. /\ TypeOK /\ PhaseInv
      /\ RootedInv /\ EmptyInv /\ StampInv /\ ScanGap /\ ScanReadsInv /\ ScanSeen
  BY DEF Typed, Honest
<1>2. Library = 1..Len(Roots) /\ Len(Roots) \in Nat /\ \A k \in Key : k.lib \in Library
  BY PathAssumption, PathFacts DEF Library
<1>3. generation \in Nat /\ lib \in Nat /\ \A r \in rows : r.last_seen \in Nat
  BY <1>1, BoundAssumption DEF TypeOK
<1>4. UNCHANGED <<dirs, disk, queue, pending, dirty>>
  BY DEF Scan, BeginScan, WalkLibrary, RootUnresolved, ScanRead, ScanWrite, Sweep,
     MarkScanComplete, ScanDbError, AbortScan, ProbeAndWake
<1>5. RootedInv' /\ EmptyInv'
  BY <1>1, <1>4 DEF RootedInv, EmptyInv
<1>6. \A k \in Key : SignalAbove(k)' <=> SignalAbove(k)
  BY <1>4 DEF SignalAbove, Signalled
<1>7. ASSUME ScanGap', ScanReadsInv', ScanSeen'
      PROVE  Honest'
  BY <1>5, <1>7 DEF Honest
<1>8. \A d : Walks(d) = {Subtree(d, dirs)}
  BY DEF ScanIsFaithful, Walks
<1>9. CASE BeginScan
  <2>1. pc' \in {"walk", "mark"} /\ \A k \in Key : ScanAhead(k.lib)'
    BY <1>2, <1>9 DEF BeginScan, ScanAhead
  <2> QED
    BY <1>7, <2>1 DEF ScanGap, ScanReaches, ScanReadsInv, ScanSeen, Scanning
<1>10. CASE WalkLibrary
  <2>1. /\ pc = "walk" /\ pc' = "scan" /\ todo = {}
        /\ UNCHANGED <<rows, generation, lib>>
        /\ \A k \in Key : k.lib = lib /\ k.dir \in dirs => k \in todo'
    <3>1. todo' = {[lib |-> lib, dir |-> d] : d \in Subtree(Roots[lib], dirs)}
      BY <1>8, <1>10 DEF WalkLibrary
    <3> QED
      BY <1>1, <1>10, <3>1 DEF WalkLibrary, PhaseInv, Key, Subtree
  <2>2. ASSUME NEW k \in Key, Stale(k)'
        PROVE  SignalAbove(k) \/ ScanReaches(k)'
    <3>1. CASE k.lib > lib
      BY <2>1, <3>1 DEF ScanReaches, ScanAhead
    <3>2. CASE k.lib = lib /\ k.dir \in dirs
      BY <2>1, <3>2 DEF ScanReaches
    <3>3. CASE k.lib = lib /\ k.dir \notin dirs
      <4>1. \A r \in RowsOf(k) : r.last_seen < generation
        BY <1>1, <1>2, <1>3, <2>1, <3>3 DEF StampInv, ScanAhead, RowsOf, RowsIn
      <4> QED
        BY <1>4, <2>1, <3>3, <4>1 DEF ScanReaches, Scanning, RowsOf, RowsIn
    <3>4. CASE k.lib < lib
      <4>1. Stale(k)
        BY <1>4, <2>1, <2>2 DEF Stale, Listed, VideosIn, RowsIn
      <4>2. ~ ScanReaches(k)
        BY <1>2, <1>3, <2>1, <3>4 DEF ScanReaches, ScanAhead, Scanning, InHand, Reading
      <4> QED
        BY <1>1, <2>1, <4>1, <4>2 DEF ScanGap, InScan
    <3> QED
      BY <1>2, <1>3, <3>1, <3>2, <3>3, <3>4
  <2>3. ScanGap'
    BY <1>6, <2>2 DEF ScanGap
  <2> QED
    BY <1>4, <1>7, <2>1, <2>3 DEF ScanReadsInv, ScanSeen, Scanning
<1>11. CASE ScanRead
  <2>1. PICK j \in todo : at' = j /\ todo' = todo \ {j} /\ Expected' = disk'[j.dir]
    BY <1>11, Opened DEF ScanRead, ScanIsFaithful
  <2>2. /\ pc = "scan" /\ pc' = "scanDir" /\ UNCHANGED <<rows, generation, lib>>
    BY <1>11 DEF ScanRead
  <2>3. \A k \in Key : /\ Stale(k)' <=> Stale(k)
                       /\ Scanning(k.lib)' <=> Scanning(k.lib)
                       /\ k \in todo => k \in todo' \/ InHand(k)'
                       /\ ~ InHand(k)
                       /\ RowsOf(k)' = RowsOf(k)
    BY <1>4, <2>1, <2>2 DEF Stale, Listed, VideosIn, RowsOf, RowsIn, Scanning, InHand, Reading
  <2>4. \A k \in Key : ScanReaches(k) => ScanReaches(k)'
    BY <1>4, <2>2, <2>3 DEF ScanReaches, ScanAhead
  <2>5. ScanGap'
    BY <1>1, <1>6, <2>2, <2>3, <2>4 DEF ScanGap, InScan
  <2>6. ScanReadsInv'
    BY <2>1 DEF ScanReadsInv, InHand
  <2>7. ScanSeen'
    BY <1>1, <1>4, <1>6, <2>2, <2>3 DEF ScanSeen
  <2> QED
    BY <1>7, <2>5, <2>6, <2>7
<1>12. CASE ScanWrite
  <2>1. /\ at \in Key
        /\ \A k \in Key : k # at => RowsOf(k)' = RowsOf(k) /\ Listed(k)' = Listed(k)
        /\ \A k \in Key : k = at =>
             Listed(k)' = listing /\ \A r \in RowsOf(k)' : r.last_seen = generation
    BY <1>12, ReconciledIsExact DEF ScanWrite, Reading
  <2>2. /\ pc = "scanDir" /\ pc' = "scan" /\ Expected = listing
        /\ UNCHANGED <<generation, lib, todo>>
    BY <1>12 DEF ScanWrite, HasRead, Expected
  <2>3. \A k \in Key : /\ k # at => (Stale(k)' <=> Stale(k))
                       /\ Scanning(k.lib)' <=> Scanning(k.lib)
                       /\ ~ InHand(k)'
                       /\ InHand(k) <=> k = at
    BY <1>4, <2>1, <2>2 DEF Stale, Scanning, InHand, Reading
  <2>4. \A k \in Key : k # at /\ ScanReaches(k) => ScanReaches(k)'
    BY <1>4, <2>1, <2>2, <2>3 DEF ScanReaches, ScanAhead
  <2>5. \A k \in Key : k = at /\ Stale(k)' => SignalAbove(k)
    BY <1>1, <1>4, <2>1, <2>2, <2>3 DEF Stale, ScanReadsInv
  <2>6. ScanGap'
    BY <1>1, <1>6, <2>1, <2>2, <2>3, <2>4, <2>5 DEF ScanGap, InScan
  <2>7. ScanReadsInv'
    BY <2>2 DEF ScanReadsInv
  <2>8. ScanSeen'
    BY <1>1, <1>4, <1>6, <2>1, <2>2, <2>3 DEF ScanSeen
  <2> QED
    BY <1>7, <2>6, <2>7, <2>8
<1>13. CASE Sweep
  <2>1. /\ pc = "scan" /\ todo = {} /\ lib \in Library /\ lib' = lib + 1
        /\ rows' = RemoveUnseen(rows, lib, generation)
        /\ pc' = IF lib + 1 \in Library THEN "walk" ELSE "mark"
    BY <1>1, <1>13 DEF Sweep, TypeOK
  <2>2. \A k \in Key :
          RowsOf(k)' = {r \in RowsOf(k) : ~ (k.lib = lib /\ r.last_seen < generation)}
    BY <2>1, SweepRows DEF RowsOf
  <2>3. ASSUME NEW k \in Key, Stale(k)', ~ SignalAbove(k)
        PROVE  ScanReaches(k)'
    <3>1. CASE k.lib > lib
      <4>1. pc' = "walk" /\ k.lib >= lib'
        BY <1>2, <1>3, <2>1, <3>1
      <4> QED
        BY <4>1 DEF ScanReaches, ScanAhead
    <3>2. CASE ~ (k.lib > lib)
      <4>1. Stale(k) => /\ k.dir \notin dirs /\ k.lib = lib
                        /\ \A r \in RowsOf(k) : r.last_seen < generation
        BY <1>1, <1>2, <1>3, <2>1, <2>3, <3>2
           DEF ScanGap, InScan, ScanReaches, ScanAhead, Scanning, InHand, Reading
      <4>2. CASE k.lib = lib /\ k.dir \notin dirs
        <5>1. disk[k.dir] = {}
          BY <1>1, <4>2, PathFacts DEF EmptyInv
        <5>2. RowsOf(k)' = {}
          <6>1. CASE Stale(k)
            BY <2>2, <4>1, <4>2, <6>1
          <6>2. CASE ~ Stale(k)
            BY <2>2, <5>1, <6>2 DEF Stale, Listed, VideosIn, RowsOf
          <6> QED
            BY <6>1, <6>2
        <5> QED
          BY <1>4, <2>3, <5>1, <5>2 DEF Stale, Listed, VideosIn, RowsOf
      <4>3. CASE ~ (k.lib = lib /\ k.dir \notin dirs)
        <5>1. RowsOf(k)' = RowsOf(k)
          <6>1. CASE k.lib # lib
            BY <2>2, <6>1
          <6>2. CASE k.lib = lib /\ k.dir \in dirs
            <7>1. \A r \in RowsOf(k) : r.last_seen = generation
              BY <1>1, <2>1, <2>3, <6>2 DEF ScanSeen, Scanning, InHand, Reading
            <7>2. \A r \in RowsOf(k) : ~ (r.last_seen < generation)
              BY <1>3, <7>1
            <7> QED
              BY <2>2, <7>2
          <6> QED
            BY <4>3, <6>1, <6>2
        <5>2. Stale(k)
          BY <1>4, <2>3, <5>1 DEF Stale, Listed, VideosIn, RowsOf
        <5> QED
          BY <4>1, <4>3, <5>2
      <4> QED
        BY <4>2, <4>3
    <3> QED
      BY <3>1, <3>2
  <2>4. ScanGap'
    BY <1>6, <2>3 DEF ScanGap
  <2> QED
    BY <1>7, <2>1, <2>4 DEF ScanReadsInv, ScanSeen, Scanning
<1>14. CASE RootUnresolved \/ MarkScanComplete \/ ScanDbError \/ ProbeAndWake
  <2>1. pc' \in {"probe", "idle"}
    BY <1>14 DEF RootUnresolved, MarkScanComplete, ScanDbError, AbortScan, ProbeAndWake
  <2> QED
    BY <1>5, <2>1, HonestOutside
<1> QED
  BY <1>9, <1>10, <1>11, <1>12, <1>13, <1>14 DEF Scan

LEMMA HonestStep ==
  ASSUME ScanIsFaithful, Typed, Honest, [Next]_vars
  PROVE  Honest'
<1> USE DEF fsVars, indexVars, workVars, readVars, flushVars
<1>1. StampInv'
  BY StampStep DEF ScanIsFaithful, Honest
<1>2. CASE Filesystem
  <2>1. /\ RootedInv' /\ EmptyInv'
        /\ UNCHANGED <<rows, generation, pc, lib, todo, at, unread, entry, listing>>
        /\ pc # "down" =>
             \A k \in Key :
               /\ SignalAbove(k) => SignalAbove(k)'
               /\ \/ SignalAbove(k)'
                  \/ (k.dir \in dirs' <=> k.dir \in dirs) /\ disk'[k.dir] = disk[k.dir]
    BY <1>2, ChangesAreSignalled DEF ScanIsFaithful, Typed, Honest
  <2>2. CASE pc \notin {"walk", "scan", "scanDir", "mark"}
    BY <1>1, <2>1, <2>2, HonestOutside
  <2>3. CASE pc \in {"walk", "scan", "scanDir", "mark"}
    <3>1. \A k \in Key : /\ RowsOf(k)' = RowsOf(k) /\ Listed(k)' = Listed(k)
                         /\ InHand(k)' <=> InHand(k)
      BY <2>1 DEF RowsOf, RowsIn, Listed, VideosIn, InHand, Reading
    <3>2. \A l : (ScanAhead(l)' <=> ScanAhead(l)) /\ (Scanning(l)' <=> Scanning(l))
      BY <2>1 DEF ScanAhead, Scanning
    <3>3. ScanGap'
      BY <2>1, <2>3, <3>1, <3>2 DEF Honest, ScanGap, InScan, Stale, ScanReaches
    <3>4. ScanReadsInv'
      BY <2>1, <2>3, <3>1 DEF Honest, ScanReadsInv, InHand, Expected
    <3>5. ScanSeen'
      BY <2>1, <2>3, <3>1, <3>2 DEF Honest, ScanSeen
    <3> QED
      BY <1>1, <2>1, <3>3, <3>4, <3>5 DEF Honest
  <2> QED
    BY <2>2, <2>3
<1>3. CASE Start \/ Crash \/ CorruptGeneration \/ EventLoop
  <2>1. /\ pc' \notin {"walk", "scan", "scanDir", "mark"}
        /\ UNCHANGED <<dirs, disk>>
    BY <1>3 DEF Start, Crash, CorruptGeneration, EventLoop, ReceiveEvent, BeginFlush,
       SkipFlush, Classify, PruneVanished, RemoveVanished, PruneLive, WalkLive, FlushRead,
       FlushWrite, SubtreeDone, FlushDone
  <2>2. RootedInv' /\ EmptyInv'
    BY <2>1 DEF Honest, RootedInv, EmptyInv
  <2> QED
    BY <1>1, <2>1, <2>2, HonestOutside
<1>4. CASE Scan
  BY <1>1, <1>4, HonestScan
<1>5. CASE UNCHANGED vars
  BY <1>5 DEF vars, Honest, RootedInv, EmptyInv, StampInv, ScanGap, ScanReadsInv, ScanSeen,
     SignalAbove, Signalled, ScanReaches, Stale, Listed, VideosIn, RowsIn, RowsOf, ScanAhead,
     Scanning, InHand, Expected, Reading, InScan, Above
<1>6. CASE StatEntry \/ BuildRecord
  <2>1. /\ UNCHANGED <<dirs, disk, queue, rows, generation, pc, lib, todo, at, pending, dirty>>
        /\ at \in Key
        /\ Expected = disk[at.dir] => Expected' = disk'[at.dir]
    BY <1>6, ReadingStep DEF ScanIsFaithful
  <2>2. RootedInv' /\ EmptyInv'
    BY <2>1 DEF Honest, RootedInv, EmptyInv
  <2>3. ScanGap' /\ ScanSeen'
    BY <2>1 DEF Honest, ScanGap, ScanSeen, SignalAbove, Signalled, ScanReaches, Stale, Listed,
       VideosIn, RowsIn, RowsOf, ScanAhead, Scanning, InHand, Reading, InScan, Above
  <2>4. ScanReadsInv'
    BY <2>1 DEF Honest, ScanReadsInv, InHand, Reading, SignalAbove, Signalled, Above
  <2> QED
    BY <1>1, <2>2, <2>3, <2>4 DEF Honest
<1> QED
  BY <1>2, <1>3, <1>4, <1>5, <1>6 DEF Next, Task

(* The health signal is honest whatever database calls fail, roots vanish and
   paths are reused: when a scan reports itself complete, every directory the
   index has wrong has an event waiting, at it or above it. *)
THEOREM HealthIsHonest == ScanIsFaithful => (Spec => HealthAfterFullScan)
<1> SUFFICES ASSUME ScanIsFaithful
             PROVE  Spec => HealthAfterFullScan
  OBVIOUS
<1>1. Typed /\ Honest /\ [Next]_vars => Honest'
  BY HonestStep
<1>2. Typed /\ Honest /\ [Next]_vars =>
        [~ healthy /\ healthy' =>
           \A k \in Key : Stale(k)' =>
             \E s \in Signalled' : Above(s, k)]_vars
  <2> SUFFICES ASSUME Typed, Honest, Next, ~ healthy, healthy', NEW k \in Key, Stale(k)'
               PROVE  \E s \in Signalled' : Above(s, k)
    OBVIOUS
  <2> USE DEF fsVars, indexVars, workVars, readVars, flushVars
  <2>1. MarkScanComplete
    BY DEF Next, Filesystem, PutVideo, DeleteVideo, MakeDirectory, RemoveDirectory,
       MoveTreeAway, MoveTreeIn, Change, Start, Crash, CorruptGeneration, Task, Scan,
       BeginScan, WalkLibrary, RootUnresolved, ScanRead, ScanWrite, Sweep, ScanDbError,
       AbortScan, ProbeAndWake, EventLoop, ReceiveEvent, BeginFlush, SkipFlush, Classify,
       PruneVanished, RemoveVanished, PruneLive, WalkLive, FlushRead, FlushWrite,
       SubtreeDone, FlushDone, StatEntry, BuildRecord
  <2>2. pc = "mark" /\ UNCHANGED <<rows, disk, queue, pending, dirty>> /\ todo = {}
    BY <2>1 DEF MarkScanComplete, Typed, PhaseInv
  <2>3. Stale(k) /\ ~ ScanReaches(k)
    BY <2>2 DEF Stale, Listed, VideosIn, RowsIn, ScanReaches, ScanAhead, Scanning, InHand, Reading
  <2>4. SignalAbove(k)
    BY <2>2, <2>3 DEF Honest, ScanGap, InScan
  <2> QED
    BY <2>2, <2>4 DEF SignalAbove, Signalled
<1> QED
  BY <1>1, <1>2, HonestInit, TypedAlways, PTL DEF Spec, HealthAfterFullScan

(* Under the same faults the sweep takes rows of a directory that is there only
   if an event will have the directory read again. *)
THEOREM SweepTakesNothingForGood == ScanIsFaithful => (Spec => SweepIsProvisional)
<1> SUFFICES ASSUME ScanIsFaithful
             PROVE  Spec => SweepIsProvisional
  OBVIOUS
<1>1. Typed /\ Honest /\ [Next]_vars => Honest'
  BY HonestStep
<1>2. Typed /\ Honest /\ [Next]_vars =>
        [\A k \in Key : /\ Sweep
                        /\ k.dir \in dirs
                        /\ Listed(k)' # Listed(k)
                        => \E s \in Signalled : Above(s, k)]_vars
  <2> SUFFICES ASSUME Typed, Honest, NEW k \in Key, Sweep, k.dir \in dirs,
                      Listed(k)' # Listed(k)
               PROVE  SignalAbove(k)
    BY DEF SignalAbove
  <2>1. pc = "scan" /\ todo = {} /\ rows' = RemoveUnseen(rows, lib, generation)
    BY DEF Sweep
  <2>2. RowsOf(k)' = {r \in RowsOf(k) : ~ (k.lib = lib /\ r.last_seen < generation)}
    BY <2>1, SweepRows DEF RowsOf
  <2>3. RowsOf(k)' # RowsOf(k)
    BY DEF Listed, VideosIn, RowsOf
  <2>4. Scanning(k.lib) /\ \E r \in RowsOf(k) : r.last_seen < generation
    BY <2>1, <2>2, <2>3 DEF Scanning
  <2>5. generation \in Nat
    BY BoundAssumption DEF Typed, TypeOK
  <2>6. ~ \A r \in RowsOf(k) : r.last_seen = generation
    BY <2>4, <2>5
  <2> QED
    BY <2>1, <2>4, <2>6 DEF Honest, ScanSeen, InHand, Reading
<1> QED
  BY <1>1, <1>2, HonestInit, TypedAlways, PTL DEF Spec, SweepIsProvisional
-------------------------------------------------------------------------------
(* What remove_tree takes of directories that are there, whatever else fails:
   a tree found gone may have come back since, and LIKE folds case. *)

\* A directory exists only where its ancestors do.
ClosedTree == \A d \in dirs, e \in Dir : IsPrefix(e, d) => e \in dirs

ReturnsSignalled ==
  \A s \in vanished, k \in Key :
    Above(s, k) /\ k.dir \in dirs => SignalAbove(k) \/ \E t \in live : Above(t, k)

Returning == RootedInv /\ EmptyInv /\ ClosedTree /\ ReturnsSignalled

LEMMA ReturningInit == Init => Returning
<1> SUFFICES ASSUME Init
             PROVE  Returning
  OBVIOUS
<1>1. RootedInv /\ EmptyInv
  BY PathFacts DEF Init, RootedInv, EmptyInv
<1> QED
  BY <1>1 DEF Init, Returning, ClosedTree, ReturnsSignalled

LEMMA TreeStaysClosed ==
  ASSUME Typed, ClosedTree, Filesystem
  PROVE  ClosedTree'
<1>1. \A d \in dirs, e \in Dir : IsPrefix(e, d) => e \in dirs
  BY DEF ClosedTree
<1> USE DirPrefix
<1>2. ASSUME NEW d \in Dir, NEW v \in Video, PutVideo(d, v) \/ DeleteVideo(d, v)
      PROVE  ClosedTree'
  BY <1>1, <1>2 DEF PutVideo, DeleteVideo, ClosedTree
<1>3. ASSUME NEW d \in Dir, MakeDirectory(d)
      PROVE  ClosedTree'
  <2>1. dirs' = dirs \cup {d} /\ Parent(d) \in dirs
    BY <1>3 DEF MakeDirectory
  <2>2. \A e \in Dir : IsPrefix(e, d) => e \in dirs'
    BY <1>1, <2>1, ParentPrefix DEF Typed, TypeOK
  <2> QED
    BY <1>1, <2>1, <2>2 DEF ClosedTree
<1>4. ASSUME NEW d \in Dir, RemoveDirectory(d) \/ MoveTreeAway(d)
      PROVE  ClosedTree'
  <2>1. dirs' = dirs \ Subtree(d, dirs)
    BY <1>4 DEF RemoveDirectory, MoveTreeAway
  <2>2. \A e \in dirs' : e \in Dir /\ e \in dirs /\ ~ IsPrefix(d, e)
    BY <2>1 DEF Subtree, Typed, TypeOK
  <2> QED
    BY <1>1, <2>1, <2>2 DEF ClosedTree, Subtree
<1>5. ASSUME NEW d \in Dir, NEW tree \in SUBSET Subtree(d, Dir),
             NEW contents \in [tree -> Listing], MoveTreeIn(d, tree, contents)
      PROVE  ClosedTree'
  <2>1. /\ dirs' = dirs \cup tree /\ Parent(d) \in dirs
        /\ \A e \in tree, f \in Subtree(d, Dir) : IsPrefix(f, e) => f \in tree
    BY <1>5 DEF MoveTreeIn
  <2>2. ASSUME NEW x \in tree, NEW e \in Dir, IsPrefix(e, x)
        PROVE  e \in dirs'
    <3>1. x \in Dir /\ IsPrefix(d, x)
      BY DEF Subtree
    <3>2. IsPrefix(d, e) \/ IsPrefix(e, d)
      BY <2>2, <3>1, PathFacts, PrefixLinear
    <3>3. CASE IsPrefix(d, e)
      BY <2>1, <2>2, <3>3 DEF Subtree
    <3>4. CASE IsPrefix(e, d)
      BY <1>1, <1>5, <2>1, <3>4, ParentPrefix DEF MoveTreeIn, Typed, TypeOK
    <3> QED
      BY <3>2, <3>3, <3>4
  <2> QED
    BY <1>1, <2>1, <2>2 DEF ClosedTree
<1> QED
  BY <1>2, <1>3, <1>4, <1>5 DEF Filesystem

LEMMA ReturningStep ==
  ASSUME RootsReport, Typed, Typed', Returning, [Next]_vars
  PROVE  Returning'
<1> USE DEF fsVars, indexVars, workVars, readVars, flushVars
<1>1. RootedInv /\ EmptyInv /\ ClosedTree /\ ReturnsSignalled
  BY DEF Returning
<1>2. CASE Filesystem
  <2>1. /\ RootedInv' /\ EmptyInv' /\ ClosedTree'
        /\ UNCHANGED <<pc, vanished, live>>
        /\ pc # "down" =>
             \A k \in Key : /\ SignalAbove(k) => SignalAbove(k)'
                            /\ SignalAbove(k)' \/ (k.dir \in dirs' <=> k.dir \in dirs)
    BY <1>1, <1>2, ChangesAreSignalled, TreeStaysClosed
    DEF Typed, Filesystem, PutVideo, DeleteVideo, MakeDirectory, RemoveDirectory,
        MoveTreeAway, MoveTreeIn, Change
  <2>2. pc = "down" => vanished = {}
    BY DEF Typed, PhaseInv
  <2>3. ReturnsSignalled'
    BY <1>1, <2>1, <2>2 DEF ReturnsSignalled, Above
  <2> QED
    BY <2>1, <2>3 DEF Returning
<1>3. ASSUME UNCHANGED <<dirs, disk>>, ReturnsSignalled'
      PROVE  Returning'
  BY <1>1, <1>3 DEF Returning, RootedInv, EmptyInv, ClosedTree
<1>4. ASSUME UNCHANGED <<dirs, disk, queue, pending, dirty, live>>, vanished' \subseteq vanished
      PROVE  Returning'
  <2>1. ReturnsSignalled'
    BY <1>1, <1>4 DEF ReturnsSignalled, SignalAbove, Signalled, Above
  <2> QED
    BY <1>3, <1>4, <2>1
<1>5. ASSUME UNCHANGED <<dirs, disk>>, pc' \notin {"classify", "remove"} \/ vanished' = {}
      PROVE  Returning'
  <2>1. vanished' = {}
    BY <1>5 DEF Typed, PhaseInv
  <2> QED
    BY <1>3, <1>5, <2>1 DEF ReturnsSignalled
<1>6. CASE Classify
  <2>1. PICK j \in dirty :
          /\ dirty' = dirty \ {j}
          /\ \/ j.dir \in dirs /\ live' = live \cup {j} /\ vanished' = vanished
             \/ j.dir \notin dirs /\ vanished' = vanished \cup {j} /\ live' = live
    BY <1>6 DEF Classify
  <2>2. j \in Key /\ UNCHANGED <<dirs, disk, queue, pending>>
    BY <1>6 DEF Classify, Typed, TypeOK
  <2>3. \A s \in Signalled : s \in Signalled' \/ s = j
    BY <2>1, <2>2 DEF Signalled
  <2>4. \A k \in Key : Above(j, k) /\ k.dir \in dirs => j.dir \in dirs
    BY <1>1, <2>2, PathFacts DEF Above, ClosedTree
  <2>5. ASSUME NEW s \in vanished', NEW k \in Key, Above(s, k), k.dir \in dirs
        PROVE  SignalAbove(k)' \/ \E t \in live' : Above(t, k)
    <3>1. s \in vanished
      BY <2>1, <2>4, <2>5
    <3>2. CASE \E t \in live : Above(t, k)
      BY <2>1, <3>2
    <3>3. CASE SignalAbove(k)
      <4>1. PICK u \in Signalled : Above(u, k)
        BY <3>3 DEF SignalAbove
      <4> QED
        BY <2>1, <2>3, <2>4, <2>5, <4>1 DEF SignalAbove, Above
    <3> QED
      BY <1>1, <2>5, <3>1, <3>2, <3>3 DEF ReturnsSignalled
  <2>6. ReturnsSignalled'
    BY <2>2, <2>5 DEF ReturnsSignalled, Above
  <2> QED
    BY <1>3, <2>2, <2>6
<1>7. CASE PruneVanished \/ RemoveVanished
  <2>1. UNCHANGED <<dirs, disk, queue, pending, dirty, live>> /\ vanished' \subseteq vanished
    BY <1>7 DEF PruneVanished, RemoveVanished, PruneNested
  <2> QED
    BY <1>4, <2>1
<1>8. CASE EventLoop /\ ~ Classify /\ ~ PruneVanished /\ ~ RemoveVanished
  <2>1. /\ UNCHANGED <<dirs, disk>>
        /\ pc' \notin {"classify", "remove"} \/ vanished' = {}
    BY <1>8 DEF EventLoop, ReceiveEvent, BeginFlush, SkipFlush, PruneLive, WalkLive,
       FlushRead, FlushWrite, SubtreeDone, FlushDone, Typed, PhaseInv
  <2> QED
    BY <1>5, <2>1
<1>9. CASE Start \/ Crash \/ CorruptGeneration
  BY <1>5, <1>9 DEF Start, Crash, CorruptGeneration
<1>10. CASE Scan
  BY <1>5, <1>10 DEF Scan, BeginScan, WalkLibrary, RootUnresolved, ScanRead, ScanWrite, Sweep,
     MarkScanComplete, ScanDbError, AbortScan, ProbeAndWake
<1>11. CASE StatEntry \/ BuildRecord
  BY <1>5, <1>11 DEF StatEntry, BuildRecord, Reading
<1>12. CASE UNCHANGED vars
  BY <1>4, <1>12 DEF vars
<1> QED
  BY <1>2, <1>6, <1>7, <1>8, <1>9, <1>10, <1>11, <1>12 DEF Next, Task

(* A path that LIKE finds beneath another is longer and agrees with it up to
   case, root and all. *)
LEMMA LikeBeneathPaths ==
  ASSUME NEW j \in Key, NEW k \in Key, j.lib = k.lib,
         LikeBeneath(RelativeOf(k.dir, k.lib), RelativeOf(j.dir, j.lib))
  PROVE  BeneathUpToCase(k, j)
<1> DEFINE p == RelativeOf(k.dir, k.lib)
           q == RelativeOf(j.dir, j.lib)
           root == Roots[k.lib]
<1>1. FollowsRoot(k.dir, p, root) /\ FollowsRoot(j.dir, q, root)
  BY RelativeByName
<1>2. Len(p) > Len(q) /\ \A i \in 1..Len(q) : CaseFold[q[i]] = CaseFold[p[i]]
  BY DEF LikeBeneath
<1> HIDE DEF p, q, root
<1>3. Len(j.dir) < Len(k.dir)
  BY <1>1, <1>2 DEF FollowsRoot
<1>4. ASSUME NEW i \in 1..Len(j.dir)
      PROVE  CaseFold[j.dir[i]] = CaseFold[k.dir[i]]
  <2>1. CASE i \in 1..Len(root)
    BY <1>1, <2>1 DEF FollowsRoot
  <2>2. CASE i \notin 1..Len(root)
    <3>1. /\ i - Len(root) \in 1..Len(q) /\ i - Len(root) \in 1..Len(p)
          /\ Len(root) + (i - Len(root)) = i
      BY <1>1, <1>2, <2>2 DEF FollowsRoot
    <3>2. j.dir[i] = q[i - Len(root)] /\ k.dir[i] = p[i - Len(root)]
      BY <1>1, <3>1 DEF FollowsRoot
    <3> QED
      BY <1>2, <3>1, <3>2
  <2> QED
    BY <2>1, <2>2
<1> QED
  BY <1>3, <1>4 DEF BeneathUpToCase

(* Provided events reach the library of their directory (RootsReport), whatever
   else fails, and whatever case the names differ in: remove_tree takes rows of
   a directory that is there only if it will be read again, or if it lies
   beneath a path that differs from the removed one in case alone. *)
THEOREM RemovalTakesNothingForGood == RootsReport => (Spec => RemovalIsProvisional)
<1> SUFFICES ASSUME RootsReport
             PROVE  Spec => RemovalIsProvisional
  OBVIOUS
<1>1. Typed /\ Typed' /\ Returning /\ [Next]_vars => Returning'
  BY ReturningStep
<1>2. Typed /\ Returning /\ [Next]_vars =>
        [\A k \in Key :
           /\ pc = "remove"
           /\ k.dir \in dirs
           /\ Listed(k)' # Listed(k)
           => \/ \E s \in Signalled \cup live : Above(s, k)
              \/ \E s \in Removing : BeneathUpToCase(k, s) /\ ~ Above(s, k)]_vars
  <2> SUFFICES ASSUME Typed, Returning, [Next]_vars, NEW k \in Key, pc = "remove",
                      k.dir \in dirs, Listed(k)' # Listed(k)
               PROVE  \/ \E s \in Signalled \cup live : Above(s, k)
                      \/ \E s \in Removing : BeneathUpToCase(k, s) /\ ~ Above(s, k)
    OBVIOUS
  <2>1. RowsOf(k)' # RowsOf(k)
    BY DEF Listed, VideosIn, RowsOf
  <2>2. RemoveVanished
    BY <2>1, RemovalsOnly DEF RowsOf
  <2>3. PICK j \in vanished : /\ vanished' = vanished \ {j}
                              /\ \/ rows' = RemoveTree(rows, j.lib, RelativeOf(j.dir, j.lib))
                                 \/ rows' = rows
    BY <2>2 DEF RemoveVanished
  <2>4. j \in Key /\ j \in Removing
    BY <2>2, <2>3 DEF RemoveVanished, Removing, Typed, TypeOK
  <2>5. rows' = RemoveTree(rows, j.lib, RelativeOf(j.dir, j.lib))
    BY <2>1, <2>3 DEF RowsOf
  <2>6. /\ k.lib = j.lib
        /\ \/ RelativeOf(k.dir, k.lib) = RelativeOf(j.dir, j.lib)
           \/ LikeBeneath(RelativeOf(k.dir, k.lib), RelativeOf(j.dir, j.lib))
    BY <2>1, <2>5, RemoveTreeRows DEF RowsOf
  <2>7. CASE Above(j, k)
    BY <2>7 DEF Returning, ReturnsSignalled, SignalAbove
  <2>8. CASE ~ Above(j, k)
    <3>1. RelativeOf(k.dir, k.lib) # RelativeOf(j.dir, j.lib)
      BY <2>4, <2>6, <2>8, RelativeInjective, AboveFacts
    <3> QED
      BY <2>4, <2>6, <2>8, <3>1, LikeBeneathPaths
  <2> QED
    BY <2>7, <2>8
<1> QED
  BY <1>1, <1>2, ReturningInit, TypedAlways, PTL DEF Spec, RemovalIsProvisional
===============================================================================

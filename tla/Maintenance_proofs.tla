--------------------------- MODULE Maintenance_proofs ---------------------------
(***************************************************************************)
(* Theorems about Maintenance that hold in every configuration, whatever   *)
(* fails: its type invariant, and that it implements Snapshots.  Before    *)
(* them, what other proofs need of paths, events and pruning.              *)
(***************************************************************************)
EXTENDS Maintenance, MediaIndex_proofs, WellFoundedInduction

-------------------------------------------------------------------------------
(* Paths beneath a library root. *)

LEMMA PathFacts ==
  /\ \A d \in Dir : d \in Seq(Name) /\ Len(d) \in Nat
  /\ \A l \in Library : Roots[l] \in Dir /\ l \in Nat \ {0}
  /\ \A k \in Key : k.lib \in Library /\ k.dir \in Dir /\ IsPrefix(Roots[k.lib], k.dir)
<1>1. \A d \in Dir : d \in Seq(Name)
  BY PathAssumption
<1>2. \A l \in Library : Roots[l] \in Dir /\ l \in Nat \ {0}
  BY PathAssumption DEF Library
<1> QED
  BY <1>1, <1>2 DEF Key

LEMMA DirPrefix ==
  /\ \A d \in Dir : IsPrefix(d, d)
  /\ \A d, e, f \in Dir : IsPrefix(d, e) /\ IsPrefix(e, f) => IsPrefix(d, f)
  /\ \A d, e \in Dir : IsPrefix(d, e) /\ IsPrefix(e, d) => d = e
<1> USE PathFacts
<1>1. \A d \in Dir : IsPrefix(d, d)
  BY PrefixReflexive
<1>2. \A d, e, f \in Dir : IsPrefix(d, e) /\ IsPrefix(e, f) => IsPrefix(d, f)
  BY PrefixTransitive
<1>3. \A d, e \in Dir : IsPrefix(d, e) /\ IsPrefix(e, d) => d = e
  BY PrefixAntisymmetric
<1> QED
  BY <1>1, <1>2, <1>3

LEMMA AboveFacts ==
  /\ \A k \in Key : Above(k, k)
  /\ \A j, k, m \in Key : Above(j, k) /\ Above(k, m) => Above(j, m)
  /\ \A k \in Key, d \in Dir : IsPrefix(k.dir, d) =>
       /\ [lib |-> k.lib, dir |-> d] \in Key
       /\ Above(k, [lib |-> k.lib, dir |-> d])
  /\ \A j, k \in Key : j.lib = k.lib /\ j.dir = k.dir => j = k
<1> USE PathFacts, DirPrefix DEF Above
<1>1. \A k \in Key : Above(k, k)
  OBVIOUS
<1>2. \A j, k, m \in Key : Above(j, k) /\ Above(k, m) => Above(j, m)
  OBVIOUS
<1>3. \A k \in Key, d \in Dir : IsPrefix(k.dir, d) =>
       /\ [lib |-> k.lib, dir |-> d] \in Key
       /\ Above(k, [lib |-> k.lib, dir |-> d])
  BY DEF Key
<1>4. \A j, k \in Key : j.lib = k.lib /\ j.dir = k.dir => j = k
  BY DEF Key
<1> QED
  BY <1>1, <1>2, <1>3, <1>4

LEMMA ParentByName ==
  ASSUME NEW d \in Dir
  PROVE  /\ Parent(d) \in Seq(Name)
         /\ Len(Parent(d)) = IF d = <<>> THEN 0 ELSE Len(d) - 1
         /\ \A i \in 1..Len(Parent(d)) : Parent(d)[i] = d[i]
<1> DEFINE n == Len(d) - 1
<1>1. /\ d \in Seq(Name) /\ Len(d) \in Nat
      /\ d # <<>> => Len(d) > 0
      /\ d = <<>> => Len(d) = 0
  BY PathFacts
<1>2. n \in Int /\ (d # <<>> => n >= 0) /\ (d = <<>> => n = -1)
  BY <1>1
<1>3. \A i \in 1..n : d[i] \in Name
  BY <1>1, ElementOfSeq
<1> HIDE DEF n
<1>4. /\ SubSeq(d, 1, n) \in Seq(Name)
      /\ Len(SubSeq(d, 1, n)) = IF 1 <= n THEN n - 1 + 1 ELSE 0
      /\ \A i \in 1..n - 1 + 1 : SubSeq(d, 1, n)[i] = d[1 + i - 1]
  BY <1>2, <1>3, SubSeqProperties
<1>5. /\ Len(SubSeq(d, 1, n)) = IF d = <<>> THEN 0 ELSE n
      /\ \A i \in 1..n : SubSeq(d, 1, n)[i] = d[i]
  BY <1>1, <1>2, <1>4
<1>6. \A i \in 1..Len(SubSeq(d, 1, n)) : SubSeq(d, 1, n)[i] = d[i]
  BY <1>2, <1>5
<1> QED
  BY <1>4, <1>5, <1>6 DEF Parent, n

(* What lies strictly above a directory lies at or above its parent. *)
LEMMA ParentPrefix ==
  ASSUME NEW d \in Dir, NEW e \in Dir, IsPrefix(e, d), e # d
  PROVE  IsPrefix(e, Parent(d))
<1> USE PathFacts
<1>1. Len(e) <= Len(d) /\ \A i \in 1..Len(e) : e[i] = d[i]
  BY PrefixByName
<1>2. Len(e) # Len(d)
  BY <1>1, SeqEqual
<1>3. d # <<>> /\ Len(e) <= Len(d) - 1
  BY <1>1, <1>2
<1> QED
  BY <1>1, <1>3, ParentByName, PrefixByName

(* Beneath a library root, the parent of a known path is a known path. *)
LEMMA ParentBeneath ==
  ASSUME NEW d \in Dir, NEW l \in Library, IsPrefix(Roots[l], Parent(d))
  PROVE  Parent(d) \in Dir /\ IsPrefix(Roots[l], d) /\ d # Roots[l]
<1>1. /\ d \in Seq(Name) /\ Len(d) \in Nat
      /\ Roots[l] \in Seq(Name) /\ Roots[l] # <<>>
  BY PathFacts, PathAssumption DEF Library
<1>2. IsPrefix(Parent(d), d)
  BY <1>1, ParentByName, PrefixByName
<1>3. IsPrefix(Roots[l], d)
  BY <1>1, <1>2, ParentByName, PrefixTransitive
<1>4. d # Roots[l]
  BY <1>1, ParentByName, PrefixByName
<1> QED
  BY <1>3, <1>4, PathAssumption DEF Library

(* The relative path of a library's directory is what follows the root. *)
FollowsRoot(dir, rel, root) ==
  /\ dir \in Seq(Name) /\ Len(dir) \in Nat
  /\ root \in Seq(Name) /\ Len(root) \in Nat
  /\ rel \in Seq(Name)
  /\ Len(root) <= Len(dir)
  /\ Len(rel) = Len(dir) - Len(root)
  /\ \A i \in 1..Len(root) : dir[i] = root[i]
  /\ \A i \in 1..Len(rel) : rel[i] = dir[Len(root) + i]

LEMMA RelativeByName ==
  ASSUME NEW k \in Key
  PROVE  FollowsRoot(k.dir, RelativeOf(k.dir, k.lib), Roots[k.lib])
<1> DEFINE n == Len(Roots[k.lib])
           d == k.dir
           rel == SubSeq(d, n + 1, Len(d))
<1>1. /\ n \in Nat /\ Len(d) \in Nat /\ d \in Seq(Name)
      /\ Roots[k.lib] \in Seq(Name)
  BY PathFacts
<1>2. n <= Len(d) /\ \A i \in 1..n : d[i] = Roots[k.lib][i]
  BY PrefixByName, PathFacts
<1>3. \A i \in n + 1..Len(d) : d[i] \in Name
  BY <1>1, ElementOfSeq
<1>4. /\ rel \in Seq(Name)
      /\ Len(rel) = IF n + 1 <= Len(d) THEN Len(d) - (n + 1) + 1 ELSE 0
      /\ \A i \in 1..Len(d) - (n + 1) + 1 : rel[i] = d[n + 1 + i - 1]
  <2> HIDE DEF n, d
  <2> QED
    BY <1>1, <1>3, SubSeqProperties
<1>5. Len(rel) = Len(d) - n /\ \A i \in 1..Len(rel) : rel[i] = d[n + i]
  <2> HIDE DEF rel, n, d
  <2> QED
    BY <1>1, <1>2, <1>4
<1> QED
  BY <1>1, <1>2, <1>4, <1>5 DEF RelativeOf, FollowsRoot

LEMMA FollowsRootInjective ==
  ASSUME NEW d, NEW e, NEW p, NEW root,
         FollowsRoot(d, p, root), FollowsRoot(e, p, root)
  PROVE  d = e
<1> USE DEF FollowsRoot
<1>1. Len(d) = Len(e)
  OBVIOUS
<1>2. ASSUME NEW i \in 1..Len(d)
      PROVE  d[i] = e[i]
  <2>1. CASE i \in 1..Len(root)
    BY <2>1
  <2>2. CASE i \notin 1..Len(root)
    <3>1. i - Len(root) \in 1..Len(p) /\ Len(root) + (i - Len(root)) = i
      BY <2>2
    <3> QED
      BY <3>1
  <2> QED
    BY <2>1, <2>2
<1> QED
  BY <1>1, <1>2, SeqEqual

LEMMA FollowsRootPrefix ==
  ASSUME NEW d, NEW e, NEW p, NEW q, NEW root,
         FollowsRoot(d, p, root), FollowsRoot(e, q, root)
  PROVE  IsPrefix(d, e) <=> Len(p) <= Len(q) /\ \A i \in 1..Len(p) : p[i] = q[i]
<1> USE DEF FollowsRoot
<1>1. IsPrefix(d, e) <=> Len(d) <= Len(e) /\ \A i \in 1..Len(d) : d[i] = e[i]
  BY PrefixByName
<1>2. ASSUME Len(p) <= Len(q), \A i \in 1..Len(p) : p[i] = q[i],
             NEW i \in 1..Len(d)
      PROVE  d[i] = e[i]
  <2>1. CASE i \in 1..Len(root)
    BY <2>1
  <2>2. CASE i \notin 1..Len(root)
    <3>1. i - Len(root) \in 1..Len(p) /\ Len(root) + (i - Len(root)) = i
      BY <2>2
    <3>2. i - Len(root) \in 1..Len(q)
      BY <3>1, <1>2
    <3> QED
      BY <3>1, <3>2, <1>2
  <2> QED
    BY <2>1, <2>2
<1>3. ASSUME Len(d) <= Len(e), \A i \in 1..Len(d) : d[i] = e[i],
             NEW i \in 1..Len(p)
      PROVE  p[i] = q[i]
  <2>1. i \in 1..Len(q) /\ Len(root) + i \in 1..Len(d)
    BY <1>3
  <2> QED
    BY <2>1, <1>3
<1>4. Len(p) <= Len(q) <=> Len(d) <= Len(e)
  OBVIOUS
<1> QED
  BY <1>1, <1>2, <1>3, <1>4

LEMMA RelativeInjective ==
  ASSUME NEW j \in Key, NEW k \in Key, j.lib = k.lib,
         RelativeOf(j.dir, j.lib) = RelativeOf(k.dir, k.lib)
  PROVE  j = k
<1>1. FollowsRoot(j.dir, RelativeOf(k.dir, k.lib), Roots[k.lib])
  BY RelativeByName
<1>2. FollowsRoot(k.dir, RelativeOf(k.dir, k.lib), Roots[k.lib])
  BY RelativeByName
<1>3. j.dir = k.dir
  BY <1>1, <1>2, FollowsRootInjective
<1> QED
  BY <1>3, AboveFacts

(* Without case folding, remove_tree reaches exactly the directories at or
   beneath the one it is given, the library root excepted. *)
LEMMA RemoveTreeReach ==
  ASSUME Undisturbed, NEW j \in Key, NEW k \in Key, j.lib = k.lib,
         j.dir # Roots[j.lib]
  PROVE  \/ RelativeOf(k.dir, k.lib) = RelativeOf(j.dir, j.lib)
         \/ LikeBeneath(RelativeOf(k.dir, k.lib), RelativeOf(j.dir, j.lib))
         <=> IsPrefix(j.dir, k.dir)
<1> DEFINE p == RelativeOf(k.dir, k.lib)
           q == RelativeOf(j.dir, j.lib)
           root == Roots[k.lib]
<1>1. FollowsRoot(k.dir, p, root) /\ FollowsRoot(j.dir, q, root)
  BY RelativeByName
<1>2. q # <<>>
  <2>1. CASE q = <<>>
    <3>1. FollowsRoot(root, <<>>, root)
      BY <1>1 DEF FollowsRoot
    <3>2. FollowsRoot(j.dir, <<>>, root)
      BY <1>1, <2>1
    <3>3. j.dir = root
      BY <3>1, <3>2, FollowsRootInjective
    <3> QED
      BY <3>3
  <2> QED
    BY <2>1
<1> HIDE DEF p, q, root
<1>3. p \in Seq(Name) /\ q \in Seq(Name) /\ Len(p) \in Nat /\ Len(q) \in Nat
  BY <1>1 DEF FollowsRoot
<1>4. ASSUME NEW i \in 1..Len(q), Len(q) <= Len(p)
      PROVE  CaseFold[p[i]] = CaseFold[q[i]] <=> p[i] = q[i]
  <2>1. p[i] \in Name /\ q[i] \in Name
    BY <1>3, <1>4, ElementOfSeq
  <2> QED
    BY <2>1 DEF Undisturbed
<1>5. (p = q \/ LikeBeneath(p, q)) <=>
        Len(q) <= Len(p) /\ \A i \in 1..Len(q) : q[i] = p[i]
  <2>1. (Len(p) = Len(q) /\ \A i \in 1..Len(q) : q[i] = p[i]) => p = q
    BY <1>3, SeqEqual
  <2>2. LikeBeneath(p, q) <=> Len(q) < Len(p) /\ \A i \in 1..Len(q) : q[i] = p[i]
    BY <1>2, <1>3, <1>4 DEF LikeBeneath
  <2> QED
    BY <1>3, <2>1, <2>2
<1> QED
  BY <1>1, <1>5, FollowsRootPrefix DEF p, q
-------------------------------------------------------------------------------
(* The library an event is mapped to, and the candidates it yields. *)

Less == OpToRel(<, Nat)

LEMMA LeastNumber ==
  ASSUME NEW T, T \subseteq Nat, T # {}
  PROVE  \E x \in T : \A y \in T : x <= y
<1>1. IsWellFoundedOn(Less, Nat)
  BY NatLessThanWellFounded DEF Less
<1>2. \A x, y \in Nat : x < y => <<x, y>> \in Less
  BY DEF OpToRel, Less
<1>3. \E x \in T : \A y \in T : ~ (<<y, x>> \in Less)
  BY <1>1, WFMin
<1>4. PICK x \in T : \A y \in T : ~ (<<y, x>> \in Less)
  BY <1>3
<1>5. ASSUME NEW y \in T
      PROVE  x <= y
  <2>1. x \in Nat /\ y \in Nat
    OBVIOUS
  <2>2. ~ (y < x)
    BY <1>2, <1>4, <2>1
  <2> QED
    BY <2>1, <2>2
<1> QED
  BY <1>5

LEMMA FirstRootWatches ==
  ASSUME NEW d \in Dir, Watched(d)
  PROVE  FirstRoot(d) \in Library /\ IsPrefix(Roots[FirstRoot(d)], d)
<1> DEFINE T == {l \in Library : IsPrefix(Roots[l], d)}
<1>1. T \subseteq Nat /\ T # {}
  BY PathFacts DEF Watched
<1>2. \E l \in T : \A m \in T : l <= m
  <2> HIDE DEF T
  <2> QED
    BY <1>1, LeastNumber
<1>3. \E l \in Library : /\ IsPrefix(Roots[l], d)
                         /\ \A m \in Library : IsPrefix(Roots[m], d) => l <= m
  BY <1>2
<1> QED
  BY <1>3 DEF FirstRoot

LEMMA DirtyAreKeys ==
  ASSUME NEW event \in Event
  PROVE  DirtyDirectories(event) \subseteq Key
<1> SUFFICES ASSUME NEW c \in Candidates(event), Watched(c)
             PROVE  [lib |-> FirstRoot(c), dir |-> c] \in Key
  BY DEF DirtyDirectories
<1>1. event.dir \in Dir
  BY DEF Event
<1>2. c \in Dir
  BY <1>1, ParentBeneath DEF Candidates, Watched
<1> QED
  BY <1>2, FirstRootWatches DEF Key

\* No library lies in another, and no directory has the name of a .part file.
EventsReach ==
  /\ PartNames = {}
  /\ \A l, m \in Library : IsPrefix(Roots[l], Roots[m]) => l = m

(* Sibling libraries: a directory belongs to one of them only. *)
LEMMA OneLibrary ==
  ASSUME EventsReach, NEW d \in Dir, NEW l \in Library, NEW m \in Library,
         IsPrefix(Roots[l], d), IsPrefix(Roots[m], d)
  PROVE  l = m
<1>1. IsPrefix(Roots[l], Roots[m]) \/ IsPrefix(Roots[m], Roots[l])
  BY PathFacts, PrefixLinear
<1> QED
  BY <1>1 DEF EventsReach

(* A change inside a directory, or of the directory, is brought home to it. *)
LEMMA EventsReachTheirDirectory ==
  ASSUME EventsReach, NEW k \in Key
  PROVE  /\ InDirectory(k.dir) \in Event /\ OnDirectory(k.dir) \in Event
         /\ k \in DirtyDirectories(InDirectory(k.dir))
         /\ k \in DirtyDirectories(OnDirectory(k.dir))
<1>1. k.dir \in Dir /\ k.lib \in Library /\ IsPrefix(Roots[k.lib], k.dir)
  BY PathFacts
<1>2. Watched(k.dir) /\ FirstRoot(k.dir) = k.lib
  BY <1>1, FirstRootWatches, OneLibrary DEF Watched
<1>3. k = [lib |-> FirstRoot(k.dir), dir |-> k.dir]
  BY <1>2 DEF Key
<1>4. k.dir \in Candidates(InDirectory(k.dir))
  BY DEF Candidates, InDirectory
<1>5. k.dir \in Candidates(OnDirectory(k.dir))
  BY DEF Candidates, OnDirectory, HasPartExtension, EventsReach
<1> QED
  BY <1>1, <1>2, <1>3, <1>4, <1>5
  DEF DirtyDirectories, Event, InDirectory, OnDirectory

(* prune_nested drops nothing that no surviving candidate covers. *)
LEMMA PruneCovers ==
  ASSUME NEW S \in SUBSET Key, NEW s \in S
  PROVE  \E t \in PruneNested(S) : Above(t, s)
<1> DEFINE U == {t \in S : Above(t, s)}
           T == {Len(t.dir) : t \in U}
<1>1. \A t \in S : t \in Key /\ t.dir \in Dir /\ t.dir \in Seq(Name) /\ Len(t.dir) \in Nat
  BY PathFacts
<1>2. T \subseteq Nat /\ T # {}
  <2>1. s \in U
    BY <1>1, AboveFacts
  <2> QED
    BY <1>1, <2>1
<1>3. \E n \in T : \A m \in T : n <= m
  <2> HIDE DEF T
  <2> QED
    BY <1>2, LeastNumber
<1>4. PICK t \in U : \A u \in U : Len(t.dir) <= Len(u.dir)
  BY <1>3
<1>5. ASSUME NEW c \in S, c.lib = t.lib, IsPrefix(c.dir, t.dir)
      PROVE  c = t
  <2>1. Above(c, t) /\ c \in U
    BY <1>1, <1>5, AboveFacts DEF Above
  <2>2. Len(c.dir) <= Len(t.dir) /\ Len(t.dir) <= Len(c.dir)
    BY <1>1, <1>4, <1>5, <2>1, PrefixByName
  <2>3. \A i \in 1..Len(c.dir) : c.dir[i] = t.dir[i]
    BY <1>1, <1>5, PrefixByName
  <2>4. c.dir = t.dir
    BY <1>1, <2>2, <2>3, SeqEqual
  <2> QED
    BY <1>1, <1>5, <2>4, AboveFacts
<1>6. t \in PruneNested(S)
  BY <1>5 DEF PruneNested
<1> QED
  BY <1>6
-------------------------------------------------------------------------------
(* Type correctness, for every configuration, fault and crash allowed. *)

LEMMA ListingFacts ==
  /\ {} \in Listing
  /\ \A S \in Listing, v \in Video :
       /\ {w \in S : w.name # v.name} \cup {v} \in Listing
       /\ S \ {v} \in Listing
  BY DEF Listing

Typed == TypeOK /\ PhaseInv

LEMMA TypedInit == Init => Typed
<1> SUFFICES ASSUME Init
             PROVE  Typed
  OBVIOUS
<1>1. 0 \in 0..MaxChanges /\ 0 \in 0..MaxGeneration
  BY BoundAssumption
<1>2. TypeOK
  <2>1. healthy \in BOOLEAN /\ dirs \subseteq Dir
    BY DEF Init
  <2> QED
    BY <1>1, <2>1 DEF Init, TypeOK
<1>3. PhaseInv
  BY DEF Init, PhaseInv, HasRead
<1> QED
  BY <1>2, <1>3 DEF Typed

LEMMA TypedFilesystem ==
  ASSUME Typed, Filesystem
  PROVE  Typed'
<1> USE DEF Typed, Notify
<1>1. ASSUME Change, dirs' \subseteq Dir, disk' \in [Dir -> Listing],
             movedAway' \subseteq Dir,
             NEW e \in Event, Notify({e})
      PROVE  Typed'
  <2>1. changes' \in 0..MaxChanges
    BY <1>1, BoundAssumption DEF Change, TypeOK
  <2>2. queue' \subseteq Event
    BY <1>1 DEF TypeOK
  <2>3. TypeOK'
    BY <1>1, <2>1, <2>2 DEF Change, TypeOK
  <2>4. PhaseInv'
    BY <1>1 DEF Change, PhaseInv, Reading, HasRead
  <2> QED
    BY <2>3, <2>4
<1>2. \A d \in Dir : InDirectory(d) \in Event /\ OnDirectory(d) \in Event
  BY DEF InDirectory, OnDirectory, Event
<1>3. dirs \subseteq Dir /\ disk \in [Dir -> Listing] /\ movedAway \subseteq Dir
  BY DEF TypeOK
<1>4. ASSUME NEW d \in Dir, NEW v \in Video, PutVideo(d, v)
      PROVE  Typed'
  <2>1. disk' \in [Dir -> Listing]
    BY <1>3, <1>4, ListingFacts DEF PutVideo
  <2> QED
    BY <1>1, <1>2, <1>3, <1>4, <2>1 DEF PutVideo
<1>5. ASSUME NEW d \in Dir, NEW v \in Video, DeleteVideo(d, v)
      PROVE  Typed'
  <2>1. disk' \in [Dir -> Listing]
    BY <1>3, <1>5, ListingFacts DEF DeleteVideo
  <2> QED
    BY <1>1, <1>2, <1>3, <1>5, <2>1 DEF DeleteVideo
<1>6. ASSUME NEW d \in Dir, MakeDirectory(d)
      PROVE  Typed'
  BY <1>1, <1>2, <1>3, <1>6 DEF MakeDirectory
<1>7. ASSUME NEW d \in Dir, RemoveDirectory(d)
      PROVE  Typed'
  BY <1>1, <1>2, <1>3, <1>7 DEF RemoveDirectory
<1>8. ASSUME NEW d \in Dir, MoveTreeAway(d)
      PROVE  Typed'
  <2>1. disk' \in [Dir -> Listing]
    BY <1>3, <1>8, ListingFacts DEF MoveTreeAway
  <2> QED
    BY <1>1, <1>2, <1>3, <1>8, <2>1 DEF MoveTreeAway
<1>9. ASSUME NEW d \in Dir, NEW tree \in SUBSET Subtree(d, Dir),
             NEW contents \in [tree -> Listing], MoveTreeIn(d, tree, contents)
      PROVE  Typed'
  <2>1. tree \subseteq Dir
    BY DEF Subtree
  <2>2. disk' \in [Dir -> Listing]
    BY <1>3, <1>9 DEF MoveTreeIn
  <2> QED
    BY <1>1, <1>2, <1>3, <1>9, <2>1, <2>2 DEF MoveTreeIn
<1> QED
  BY <1>4, <1>5, <1>6, <1>7, <1>8, <1>9 DEF Filesystem

(* What reading a directory and writing its listing produce. *)
LEMMA WalkedAreKeys ==
  ASSUME TypeOK, NEW k \in Key, NEW walk \in Walks(k.dir)
  PROVE  {[lib |-> k.lib, dir |-> d] : d \in walk} \subseteq Key
<1>1. walk \subseteq Subtree(k.dir, dirs)
  BY DEF Walks
<1>2. \A d \in walk : d \in Dir /\ IsPrefix(k.dir, d)
  BY <1>1 DEF Subtree, TypeOK
<1> QED
  BY <1>2, AboveFacts

LEMMA OpenedIsTyped ==
  ASSUME TypeOK, NEW k \in Key, OpenDirectory(k)
  PROVE  /\ at' = k
         /\ unread' \subseteq VideoName
         /\ entry' = {} /\ listing' = {}
         /\ listing' \cup entry' \in Listing
<1>1. disk[k.dir] \subseteq Video
  BY PathFacts DEF TypeOK, Listing
<1>2. unread' \subseteq VideoName
  BY <1>1 DEF OpenDirectory, Video
<1> QED
  BY <1>2, ListingFacts DEF OpenDirectory

LEMMA ReconciledRows ==
  ASSUME TypeOK, pc \in {"scanDir", "flushDir"}
  PROVE  /\ Reconciled \subseteq [lib : Library, parent : Seq(Name), video : Video,
                                 last_seen : 0..MaxGeneration]
         /\ \A r, s \in Reconciled : SameVideo(r, s) => r = s
<1>1. at \in Key /\ listing \subseteq Video /\ listing \in Listing
  BY DEF TypeOK, Listing
<1>2. RelativeOf(at.dir, at.lib) \in Seq(Name)
  BY <1>1, RelativeByName DEF FollowsRoot
<1>3. at.lib \in Library /\ generation \in 0..MaxGeneration
  BY <1>1, PathFacts DEF TypeOK
<1>4. \A r \in Reconciled :
        \/ r \in rows
        \/ \E v \in listing : r = RowFor(at.lib, RelativeOf(at.dir, at.lib), v, generation)
  BY ReconcileAddsOnly DEF Reconciled
<1>5. \A r \in Reconciled : r \in [lib : Library, parent : Seq(Name), video : Video,
                                 last_seen : 0..MaxGeneration]
  BY <1>1, <1>2, <1>3, <1>4 DEF RowFor, TypeOK
<1>6. ASSUME NEW r \in Reconciled, NEW s \in Reconciled, SameVideo(r, s)
      PROVE  r = s
  <2>1. listing \in Listing /\ \A p, q \in rows : SameVideo(p, q) => p = q
    BY <1>1 DEF TypeOK
  <2> QED
    BY <1>6, <2>1, ReconcileKeepsKeys DEF Reconciled
<1> QED
  BY <1>5, <1>6

LEMMA TypedScan ==
  ASSUME Typed, Scan
  PROVE  Typed'
<1> USE DEF Typed, fsVars, indexVars, workVars, readVars, flushVars, DropReading, Reading, HasRead
<1>1. CASE BeginScan
  <2>1. generation' \in 0..MaxGeneration
    BY <1>1, BoundAssumption DEF BeginScan, TypeOK, PhaseInv
  <2>2. Len(Roots) \in Nat /\ Library = 1..Len(Roots)
    BY PathAssumption DEF Library
  <2>3. TypeOK'
    BY <1>1, <2>1 DEF BeginScan, TypeOK
  <2>4. Library = {} => lib' = Len(Roots) + 1
    BY <1>1, <2>2 DEF BeginScan
  <2>5. Library # {} => lib' \in Library
    BY <1>1, <2>2 DEF BeginScan
  <2>6. PhaseInv'
    BY <1>1, <2>4, <2>5 DEF BeginScan, PhaseInv
  <2> QED
    BY <2>3, <2>6
<1>2. CASE WalkLibrary
  <2>1. lib \in Library
    BY <1>2 DEF WalkLibrary, PhaseInv
  <2>2. [lib |-> lib, dir |-> Roots[lib]] \in Key
    BY <2>1, PathFacts, DirPrefix DEF Key
  <2>3. todo' \subseteq Key
    BY <1>2, <2>2, WalkedAreKeys DEF WalkLibrary
  <2>4. TypeOK'
    BY <1>2, <2>1, <2>3 DEF WalkLibrary, TypeOK
  <2>5. PhaseInv'
    BY <1>2 DEF WalkLibrary, PhaseInv
  <2> QED
    BY <2>4, <2>5
<1>3. ASSUME AbortScan, pc \in {"boot", "walk", "scan", "scanDir", "mark"}
      PROVE  Typed'
  BY <1>3 DEF AbortScan, TypeOK, PhaseInv
<1>4. CASE RootUnresolved
  BY <1>3, <1>4 DEF RootUnresolved
<1>5. CASE ScanRead
  <2>1. PICK k \in todo : OpenDirectory(k) /\ todo' = todo \ {k}
    BY <1>5 DEF ScanRead
  <2>2. k \in Key /\ lib \in Library /\ k.lib = lib
    BY <1>5, <2>1, PathFacts DEF ScanRead, TypeOK, PhaseInv
  <2>3. TypeOK'
    BY <1>5, <2>1, <2>2, OpenedIsTyped DEF ScanRead, TypeOK
  <2>4. PhaseInv'
    BY <1>5, <2>1, <2>2, OpenedIsTyped DEF ScanRead, PhaseInv
  <2> QED
    BY <2>3, <2>4
<1>6. CASE ScanWrite
  <2>1. TypeOK'
    BY <1>6, ReconciledRows DEF ScanWrite, TypeOK
  <2>2. PhaseInv'
    BY <1>6 DEF ScanWrite, PhaseInv
  <2> QED
    BY <2>1, <2>2
<1>7. CASE Sweep
  <2>1. /\ lib \in Library /\ lib \in Nat \ {0}
        /\ Len(Roots) \in Nat /\ Library = 1..Len(Roots)
    BY <1>7, PathAssumption DEF Sweep, TypeOK, Library
  <2>2. TypeOK'
    BY <1>7, <2>1 DEF Sweep, TypeOK, RemoveUnseen
  <2>3. PhaseInv'
    BY <1>7, <2>1 DEF Sweep, PhaseInv
  <2> QED
    BY <2>2, <2>3
<1>8. CASE MarkScanComplete
  BY <1>8 DEF MarkScanComplete, TypeOK, PhaseInv
<1>9. CASE ScanDbError
  BY <1>3, <1>9 DEF ScanDbError
<1>10. CASE ProbeAndWake
  BY <1>10 DEF ProbeAndWake, TypeOK, PhaseInv
<1> QED
  BY <1>1, <1>2, <1>4, <1>5, <1>6, <1>7, <1>8, <1>9, <1>10 DEF Scan

LEMMA TypedEventLoop ==
  ASSUME Typed, EventLoop
  PROVE  Typed'
<1> USE DEF Typed, fsVars, indexVars, workVars, readVars, flushVars, DropReading, Reading, HasRead
<1>1. CASE ReceiveEvent
  <2>1. pending' \subseteq Key /\ queue' \subseteq queue
    BY <1>1, DirtyAreKeys DEF ReceiveEvent, TypeOK
  <2> QED
    BY <1>1, <2>1 DEF ReceiveEvent, TypeOK, PhaseInv
<1>2. CASE BeginFlush
  BY <1>2 DEF BeginFlush, TypeOK, PhaseInv
<1>3. CASE SkipFlush
  BY <1>3 DEF SkipFlush, TypeOK, PhaseInv
<1>4. CASE Classify
  <2>1. dirty' \subseteq Key /\ vanished' \subseteq Key /\ live' \subseteq Key
    BY <1>4 DEF Classify, TypeOK
  <2> QED
    BY <1>4, <2>1 DEF Classify, TypeOK, PhaseInv
<1>5. CASE PruneVanished
  BY <1>5 DEF PruneVanished, PruneNested, TypeOK, PhaseInv
<1>6. CASE RemoveVanished
  <2>1. rows' \subseteq rows /\ vanished' \subseteq vanished
    BY <1>6 DEF RemoveVanished, RemoveTree
  <2> QED
    BY <1>6, <2>1 DEF RemoveVanished, TypeOK, PhaseInv
<1>7. CASE PruneLive
  BY <1>7 DEF PruneLive, PruneNested, TypeOK, PhaseInv
<1>8. CASE WalkLive
  <2>1. todo' \subseteq Key /\ live' \subseteq Key
    BY <1>8, WalkedAreKeys DEF WalkLive, TypeOK
  <2> QED
    BY <1>8, <2>1 DEF WalkLive, TypeOK, PhaseInv
<1>9. CASE FlushRead
  <2>1. PICK k \in todo :
          \/ OpenDirectory(k) /\ pc' = "flushDir"
          \/ UNCHANGED <<readVars, pc>>
    BY <1>9 DEF FlushRead
  <2>2. k \in Key /\ todo' \subseteq todo
    BY <1>9 DEF FlushRead, TypeOK
  <2>3. CASE OpenDirectory(k) /\ pc' = "flushDir"
    BY <1>9, <2>2, <2>3, OpenedIsTyped DEF FlushRead, TypeOK, PhaseInv
  <2>4. CASE UNCHANGED <<readVars, pc>>
    BY <1>9, <2>2, <2>4 DEF FlushRead, TypeOK, PhaseInv
  <2> QED
    BY <2>1, <2>3, <2>4
<1>10. CASE FlushWrite
  <2>1. rows' \in {rows, Reconciled}
    BY <1>10 DEF FlushWrite
  <2> QED
    BY <1>10, <2>1, ReconciledRows DEF FlushWrite, TypeOK, PhaseInv
<1>11. CASE SubtreeDone
  BY <1>11 DEF SubtreeDone, TypeOK, PhaseInv
<1>12. CASE FlushDone
  BY <1>12 DEF FlushDone, TypeOK, PhaseInv
<1> QED
  BY <1>1, <1>2, <1>3, <1>4, <1>5, <1>6, <1>7, <1>8, <1>9, <1>10, <1>11, <1>12
  DEF EventLoop

(* One listed video after another is stat-ed and its record built. *)
LEMMA TypedReading ==
  ASSUME Typed, StatEntry \/ BuildRecord
  PROVE  Typed'
<1> USE DEF Typed, fsVars, indexVars, flushVars
<1>1. Reading /\ pc' = pc /\ at \in Key /\ listing \cup entry \in Listing
  BY DEF StatEntry, BuildRecord, Reading, TypeOK
<1>2. CASE StatEntry
  <2>1. PICK n \in unread :
          /\ unread' = unread \ {n}
          /\ entry' \in {{}, {v \in disk[at.dir] : v.name = n}}
    BY <1>2 DEF StatEntry
  <2>2. /\ disk[at.dir] \in Listing /\ listing \in Listing
        /\ \A v \in listing : v.name \notin unread
    BY <1>1, <1>2, PathFacts DEF StatEntry, TypeOK, Reading
  <2>3. \A v \in entry' : v \in disk[at.dir] /\ v.name = n
    BY <2>1
  <2>4. listing \cup entry' \in Listing /\ \A v \in entry' : entry' = {v}
    BY <2>1, <2>2, <2>3 DEF Listing
  <2>5. TypeOK'
    BY <1>1, <1>2, <2>1, <2>2, <2>3, <2>4 DEF StatEntry, TypeOK
  <2>6. PhaseInv'
    BY <1>1, <1>2 DEF StatEntry, PhaseInv, Reading
  <2> QED
    BY <2>5, <2>6
<1>3. CASE BuildRecord
  <2>1. PICK v \in entry, facts \in Facts :
          listing' = listing \cup {[v EXCEPT !.facts = facts]}
    BY <1>3 DEF BuildRecord
  <2> DEFINE w == [v EXCEPT !.facts = facts]
  <2>2. v \in Video /\ w \in Video /\ w.name = v.name
    BY <1>1, <2>1 DEF Listing, Video
  <2>3. v.name \notin unread /\ \A u \in listing : u.name # v.name
    BY <1>1, <2>1 DEF TypeOK, Reading
  <2>4. listing' \in Listing
    <3> HIDE DEF w
    <3> QED
      BY <1>1, <2>1, <2>2, <2>3 DEF Listing, w
  <2>5. \A u \in listing' : u.name \notin unread
    BY <1>1, <2>1, <2>2, <2>3 DEF TypeOK, Reading
  <2>6. listing' \cup entry' = listing' /\ entry' = {}
    BY <1>3 DEF BuildRecord
  <2>7. TypeOK'
    BY <1>1, <1>3, <2>4, <2>5, <2>6 DEF BuildRecord, TypeOK
  <2>8. PhaseInv'
    BY <1>1, <1>3 DEF BuildRecord, PhaseInv, Reading
  <2> QED
    BY <2>7, <2>8
<1> QED
  BY <1>2, <1>3

LEMMA TypedStep == Typed /\ [Next]_vars => Typed'
<1> SUFFICES ASSUME Typed, [Next]_vars
             PROVE  Typed'
  OBVIOUS
<1> USE DEF Typed, fsVars, indexVars, workVars, readVars, flushVars, DropReading, Reading, HasRead
<1>1. CASE Filesystem
  BY <1>1, TypedFilesystem
<1>2. CASE Start
  BY <1>2 DEF Start, TypeOK, PhaseInv
<1>3. CASE Crash
  BY <1>3 DEF Crash, TypeOK, PhaseInv
<1>4. CASE CorruptGeneration
  <2>1. 0 \in 0..MaxGeneration
    BY BoundAssumption
  <2> QED
    BY <1>4, <2>1 DEF CorruptGeneration, TypeOK, PhaseInv
<1>5. CASE Scan
  BY <1>5, TypedScan
<1>6. CASE EventLoop
  BY <1>6, TypedEventLoop
<1>7. CASE StatEntry \/ BuildRecord
  BY <1>7, TypedReading
<1>8. CASE UNCHANGED vars
  BY <1>8 DEF vars, TypeOK, PhaseInv
<1> QED
  BY <1>1, <1>2, <1>3, <1>4, <1>5, <1>6, <1>7, <1>8 DEF Next, Task

LEMMA TypedAlways == Spec => []Typed
  BY TypedInit, TypedStep, PTL DEF Spec

(* The type invariant holds of every configuration, whatever fails. *)
THEOREM TypeCorrect == Spec => []TypeOK
<1>1. Typed => TypeOK
  BY DEF Typed
<1> QED
  BY <1>1, TypedAlways, PTL

-------------------------------------------------------------------------------
(* The refinement: Maintenance implements Snapshots, for every configuration
   and whatever fails.  A reconcile stamps all rows of its directory, so that
   the sweep takes all of them or none. *)

StampedAlike ==
  \A r, s \in rows :
    r.lib = s.lib /\ r.parent = s.parent => r.last_seen = s.last_seen

LEMMA ReconciledAlike ==
  ASSUME StampedAlike, NEW r \in Reconciled, NEW s \in Reconciled,
         r.lib = s.lib, r.parent = s.parent
  PROVE  r.last_seen = s.last_seen
<1> DEFINE here == RelativeOf(at.dir, at.lib)
           There(t) == t \in RowsIn(Reconciled, at.lib, here)
<1>1. \A t \in Reconciled : ~ There(t) => t \in rows
  BY ReconcileAddsOnly DEF Reconciled, RowsIn, RowFor
<1>2. \A t : There(t) => t.last_seen = generation
  <2>1. RowsIn(Reconciled, at.lib, here)
          = {RowFor(at.lib, here, v, generation) : v \in listing}
    BY ReconcileReplaces DEF Reconciled
  <2> QED
    BY <2>1 DEF RowFor
<1>3. There(r) <=> There(s)
  BY DEF RowsIn
<1> QED
  BY <1>1, <1>2, <1>3 DEF StampedAlike

LEMMA RowSteps ==
  ASSUME [Next]_vars
  PROVE  \/ rows' \subseteq rows
         \/ rows' = Reconciled
<1> USE DEF fsVars, indexVars, workVars, readVars, flushVars
<1>1. CASE Filesystem
  BY <1>1 DEF Filesystem, PutVideo, DeleteVideo, MakeDirectory, RemoveDirectory,
     MoveTreeAway, MoveTreeIn, Change
<1>2. CASE Start \/ Crash \/ CorruptGeneration \/ UNCHANGED vars
  BY <1>2 DEF Start, Crash, CorruptGeneration, vars
<1>3. CASE Scan
  BY <1>3 DEF Scan, BeginScan, WalkLibrary, RootUnresolved, AbortScan, ScanRead, ScanWrite,
     Sweep, RemoveUnseen, MarkScanComplete, ScanDbError, ProbeAndWake
<1>4. CASE EventLoop
  BY <1>4 DEF EventLoop, ReceiveEvent, BeginFlush, SkipFlush, Classify, PruneVanished,
     RemoveVanished, RemoveTree, PruneLive, WalkLive, FlushRead, FlushWrite, SubtreeDone,
     FlushDone
<1>5. CASE StatEntry \/ BuildRecord
  BY <1>5 DEF StatEntry, BuildRecord
<1> QED
  BY <1>1, <1>2, <1>3, <1>4, <1>5 DEF Next, Task

LEMMA StampedAlikeStep == StampedAlike /\ [Next]_vars => StampedAlike'
<1> SUFFICES ASSUME StampedAlike, [Next]_vars
             PROVE  StampedAlike'
  OBVIOUS
<1>1. CASE rows' \subseteq rows
  BY <1>1 DEF StampedAlike
<1>2. CASE rows' = Reconciled
  BY <1>2, ReconciledAlike DEF StampedAlike
<1> QED
  BY <1>1, <1>2, RowSteps

LEMMA PromiseInit == Init => Promise!Init
<1> SUFFICES ASSUME Init
             PROVE  Promise!Init
  OBVIOUS
<1>1. \A k \in Key : Names(disk[k.dir]) \subseteq VideoName
  BY PathFacts DEF Init, Names, Listing, Video
<1>2. Held \in [Key -> SUBSET VideoName]
  BY <1>1 DEF Held
<1>3. Shown = [k \in Key |-> {}]
  BY DEF Init, Shown, Listed, VideosIn, RowsIn, Names
<1> QED
  BY <1>2, <1>3 DEF Init, Hand, Reading, Promise!Init

(* The files change; the task reads, writes and takes away. *)
LEMMA ChangeShows ==
  ASSUME Typed, Filesystem
  PROVE  Promise!Change
<1>1. UNCHANGED <<rows, pc, at, unread, entry, listing>>
  BY DEF Filesystem, PutVideo, DeleteVideo, MakeDirectory, RemoveDirectory,
     MoveTreeAway, MoveTreeIn, Change
<1>2. disk' \in [Dir -> Listing]
  BY TypedFilesystem DEF Typed, TypeOK
<1>3. \A k \in Key : Names(disk'[k.dir]) \subseteq VideoName
  BY <1>2, PathFacts DEF Names, Listing, Video
<1>4. Held' \in [Key -> SUBSET VideoName]
  BY <1>3 DEF Held, Names
<1>5. UNCHANGED <<Shown, Hand>>
  BY <1>1 DEF Shown, Listed, Hand, Reading, Names
<1> QED
  BY <1>4, <1>5 DEF Promise!Change

LEMMA OpenShows ==
  ASSUME Typed, NEW k \in todo, OpenDirectory(k), ~ Reading, Reading',
         UNCHANGED <<disk, rows>>
  PROVE  \E d \in Key : Promise!Open(d)
<1>1. k \in Key /\ Held[k] = Names(disk[k.dir])
  BY DEF Typed, TypeOK, Held
<1>2. Hand = {} /\ Hand' = {[of |-> k, unread |-> unread', found |-> {}]}
  BY DEF Hand, OpenDirectory, Names
<1>3. unread' = Held[k] \/ (ReadMayFail /\ unread' = {})
  BY <1>1 DEF OpenDirectory, Names
<1>4. UNCHANGED <<Held, Shown>>
  BY DEF Held, Shown, Listed, Names
<1>5. Promise!Open(k)
  BY <1>2, <1>3, <1>4 DEF Promise!Open
<1> QED
  BY <1>1, <1>5

LEMMA StatShows ==
  ASSUME Typed, StatEntry
  PROVE  Promise!See
<1> DEFINE r == [of |-> at, unread |-> unread, found |-> Names(listing \cup entry)]
<1>1. Reading /\ Reading' /\ at \in Key /\ UNCHANGED <<disk, rows, at, listing>>
  BY DEF StatEntry, Reading, Typed, TypeOK, fsVars, indexVars
<1>2. PICK n \in unread :
        /\ unread' = unread \ {n}
        /\ \/ entry' = {v \in disk[at.dir] : v.name = n}
           \/ ReadMayFail /\ entry' = {}
  BY DEF StatEntry
<1>3. entry = {} /\ Names(listing \cup entry') = Names(listing) \cup Names(entry')
      /\ Names(listing \cup entry) = Names(listing)
  BY DEF StatEntry, Names
<1>4. \/ Names(entry') = {n} \cap Held[at]
      \/ ReadMayFail /\ Names(entry') = {}
  BY <1>1, <1>2 DEF Held, Names
<1>5. Hand = {r}
  BY <1>1 DEF Hand
<1>6. Hand' = {[of |-> at, unread |-> unread \ {n},
                found |-> Names(listing) \cup Names(entry')]}
  BY <1>1, <1>2, <1>3 DEF Hand, Names
<1>7. r.of = at /\ r.unread = unread /\ r.found = Names(listing)
  BY <1>3
<1>8. UNCHANGED <<Held, Shown>>
  BY <1>1 DEF Held, Shown, Listed, Names
<1>9. /\ r \in Hand /\ n \in r.unread /\ r.of = at
      /\ Names(entry') \in {{n} \cap Held[r.of]} \cup IF ReadMayFail THEN {{}} ELSE {}
  BY <1>2, <1>4, <1>5
<1> HIDE DEF r
<1> QED
  BY <1>6, <1>7, <1>8, <1>9 DEF Promise!See

(* What a record says of a video changes no name. *)
LEMMA BuildShows ==
  ASSUME Typed, BuildRecord
  PROVE  UNCHANGED <<Held, Shown, Hand>>
<1>1. Reading /\ Reading' /\ UNCHANGED <<disk, rows, at, unread>>
  BY DEF BuildRecord, Reading, fsVars, indexVars
<1>2. PICK v \in entry, facts \in Facts :
        listing' = listing \cup {[v EXCEPT !.facts = facts]}
  BY DEF BuildRecord
<1>3. v \in Video /\ [v EXCEPT !.facts = facts].name = v.name
  BY <1>1, <1>2 DEF Typed, TypeOK, Reading, Listing, Video
<1>4. entry = {v} /\ entry' = {}
  BY <1>1, <1>2 DEF BuildRecord, Typed, TypeOK, Reading
<1>5. Names(listing' \cup entry') = Names(listing \cup entry)
  BY <1>2, <1>3, <1>4 DEF Names
<1> QED
  BY <1>1, <1>5 DEF Held, Shown, Listed, Hand, Names

LEMMA WriteShows ==
  ASSUME Typed, Reading, HasRead, rows' = Reconciled, disk' = disk, ~ Reading'
  PROVE  Promise!Show
<1>1. at \in Key
  BY DEF Typed, TypeOK, Reading
<1>2. \A k \in Key : Shown'[k] = IF k = at THEN Names(listing) ELSE Shown[k]
  <2> TAKE k \in Key
  <2> DEFINE here == RelativeOf(k.dir, k.lib)
  <2>1. /\ Shown[k] = Names(VideosIn(rows, k.lib, here))
        /\ Shown'[k] = Names(VideosIn(Reconciled, k.lib, here))
    BY DEF Shown, Listed, Names
  <2>2. CASE k = at
    BY <2>1, <2>2, ReconcileListing DEF Reconciled
  <2>3. CASE k # at
    <3>1. k.lib # at.lib \/ here # RelativeOf(at.dir, at.lib)
      BY <1>1, <2>3, RelativeInjective
    <3> QED
      BY <2>1, <2>3, <3>1, ReconcileIsLocal DEF Reconciled, VideosIn
  <2> QED
    BY <2>2, <2>3
<1>3. Shown' = [Shown EXCEPT ![at] = Names(listing)]
  BY <1>1, <1>2 DEF Shown
<1>4. Hand = {[of |-> at, unread |-> {}, found |-> Names(listing)]}
      /\ Hand' = {} /\ Held' = Held
  BY DEF Hand, Held, HasRead, Names
<1> QED
  BY <1>3, <1>4 DEF Promise!Show

LEMMA RemovalShows ==
  ASSUME Hand = {}, Hand' = {}, disk' = disk,
         \A k \in Key : Listed(k)' \in {{}, Listed(k)}
  PROVE  \E gone \in SUBSET Key : Promise!Withdraw(gone)
<1> DEFINE gone == {k \in Key : Listed(k)' = {}}
<1>1. Shown' = [k \in Key |-> IF k \in gone THEN {} ELSE Shown[k]]
  BY DEF Shown, Names
<1>2. Promise!Withdraw(gone)
  BY <1>1 DEF Promise!Withdraw, Held, Names
<1> QED
  BY <1>2

LEMMA SweepShows ==
  ASSUME StampedAlike, Sweep
  PROVE  \E gone \in SUBSET Key : Promise!Withdraw(gone)
<1>1. Hand = {} /\ Hand' = {} /\ disk' = disk
  BY DEF Sweep, Hand, Reading, fsVars
<1>2. ASSUME NEW k \in Key
      PROVE  Listed(k)' \in {{}, Listed(k)}
  <2> DEFINE here == RelativeOf(k.dir, k.lib)
             Old(r) == k.lib = lib /\ r.last_seen < generation
  <2>1. RowsIn(rows', k.lib, here) = {r \in RowsIn(rows, k.lib, here) : ~ Old(r)}
    BY SweepRows DEF Sweep
  <2>2. \A r, s \in RowsIn(rows, k.lib, here) : Old(r) <=> Old(s)
    BY DEF StampedAlike, RowsIn
  <2>3. RowsIn(rows', k.lib, here) \in {{}, RowsIn(rows, k.lib, here)}
    BY <2>1, <2>2
  <2> QED
    BY <2>3 DEF Listed, VideosIn
<1> QED
  BY <1>1, <1>2, RemovalShows

LEMMA RemoveShows ==
  ASSUME RemoveVanished
  PROVE  \E gone \in SUBSET Key : Promise!Withdraw(gone)
<1>1. Hand = {} /\ Hand' = {} /\ disk' = disk
  BY DEF RemoveVanished, Hand, Reading, fsVars
<1>2. PICK v \in vanished :
        rows' = RemoveTree(rows, v.lib, RelativeOf(v.dir, v.lib)) \/ rows' = rows
  BY DEF RemoveVanished
<1>3. ASSUME NEW k \in Key
      PROVE  Listed(k)' \in {{}, Listed(k)}
  <2>1. RowsIn(rows', k.lib, RelativeOf(k.dir, k.lib))
          \in {{}, RowsIn(rows, k.lib, RelativeOf(k.dir, k.lib))}
    BY <1>2, RemoveTreeRows
  <2> QED
    BY <2>1 DEF Listed, VideosIn
<1> QED
  BY <1>1, <1>3, RemovalShows

LEMMA OtherShows ==
  ASSUME UNCHANGED <<disk, rows>>,
         \/ UNCHANGED <<pc, at, unread, entry, listing>>
         \/ ~ Reading'
  PROVE  [Promise!Discard]_(Promise!snapVars)
<1>1. UNCHANGED <<Held, Shown>>
  BY DEF Held, Shown, Listed, Names
<1>2. Hand' = Hand \/ Hand' = {}
  BY DEF Hand, Reading, Names
<1> QED
  BY <1>1, <1>2 DEF Promise!Discard, Promise!snapVars

LEMMA ScanShows ==
  ASSUME Typed, StampedAlike, Scan
  PROVE  [Promise!Next]_(Promise!snapVars)
<1> USE DEF fsVars, indexVars, workVars, readVars, flushVars
<1>1. CASE ScanRead
  <2>1. PICK k \in todo : OpenDirectory(k)
    BY <1>1 DEF ScanRead
  <2>2. \E d \in Key : Promise!Open(d)
    BY <1>1, <2>1, OpenShows DEF ScanRead, Reading
  <2> QED
    BY <2>2 DEF Promise!Next
<1>2. CASE ScanWrite
  <2>1. Promise!Show
    BY <1>2, WriteShows DEF ScanWrite, Reading
  <2> QED
    BY <2>1 DEF Promise!Next
<1>3. CASE Sweep
  BY <1>3, SweepShows DEF Promise!Next
<1>4. CASE BeginScan \/ WalkLibrary \/ RootUnresolved \/ MarkScanComplete \/ ScanDbError
             \/ ProbeAndWake
  <2>1. [Promise!Discard]_(Promise!snapVars)
    BY <1>4, OtherShows DEF BeginScan, WalkLibrary, RootUnresolved, AbortScan,
       MarkScanComplete, ScanDbError, ProbeAndWake, Reading
  <2> QED
    BY <2>1 DEF Promise!Next
<1> QED
  BY <1>1, <1>2, <1>3, <1>4 DEF Scan

LEMMA LoopShows ==
  ASSUME Typed, EventLoop
  PROVE  [Promise!Next]_(Promise!snapVars)
<1> USE DEF fsVars, indexVars, workVars, readVars, flushVars
<1>1. CASE RemoveVanished
  BY <1>1, RemoveShows DEF Promise!Next
<1>2. CASE FlushRead /\ pc' = "flushDir"
  <2>1. PICK k \in todo : OpenDirectory(k)
    BY <1>2 DEF FlushRead
  <2>2. \E d \in Key : Promise!Open(d)
    BY <1>2, <2>1, OpenShows DEF FlushRead, Reading
  <2> QED
    BY <2>2 DEF Promise!Next
<1>3. CASE FlushWrite /\ rows' = Reconciled
  <2>1. Promise!Show
    BY <1>3, WriteShows DEF FlushWrite, Reading
  <2> QED
    BY <2>1 DEF Promise!Next
<1>4. CASE \/ ReceiveEvent \/ BeginFlush \/ SkipFlush \/ Classify \/ PruneVanished
           \/ PruneLive \/ WalkLive \/ SubtreeDone \/ FlushDone
           \/ FlushRead /\ pc' # "flushDir"
           \/ FlushWrite /\ rows' = rows
  <2>1. [Promise!Discard]_(Promise!snapVars)
    BY <1>4, OtherShows DEF ReceiveEvent, BeginFlush, SkipFlush, Classify, PruneVanished,
       PruneLive, WalkLive, SubtreeDone, FlushDone, FlushRead, FlushWrite, Reading
  <2> QED
    BY <2>1 DEF Promise!Next
<1>5. FlushWrite => rows' = Reconciled \/ rows' = rows
  BY DEF FlushWrite
<1> QED
  BY <1>1, <1>2, <1>3, <1>4, <1>5 DEF EventLoop

LEMMA PromiseStep ==
  Typed /\ StampedAlike /\ [Next]_vars => [Promise!Next]_(Promise!snapVars)
<1> SUFFICES ASSUME Typed, StampedAlike, [Next]_vars
             PROVE  [Promise!Next]_(Promise!snapVars)
  OBVIOUS
<1>1. CASE Filesystem
  BY <1>1, ChangeShows DEF Promise!Next
<1>2. CASE Start \/ Crash \/ CorruptGeneration \/ UNCHANGED vars
  <2>1. [Promise!Discard]_(Promise!snapVars)
    BY <1>2, OtherShows DEF Start, Crash, CorruptGeneration, vars, fsVars, indexVars, workVars,
       readVars, Reading
  <2> QED
    BY <2>1 DEF Promise!Next
<1>3. CASE StatEntry \/ BuildRecord
  BY <1>3, StatShows, BuildShows DEF Promise!Next, Promise!snapVars
<1> QED
  BY <1>1, <1>2, <1>3, ScanShows, LoopShows DEF Next, Task

(* Maintenance implements Snapshots in every configuration, whatever fails,
   crashes or changes: what the index lists of a directory is what one reading
   of it found, or nothing. *)
THEOREM ImplementsSnapshots == Spec => ListsSnapshots
<1>1. Init => StampedAlike
  BY DEF Init, StampedAlike
<1>2. Spec => []StampedAlike
  BY <1>1, StampedAlikeStep, PTL DEF Spec
<1> QED
  BY <1>2, TypedAlways, PromiseInit, PromiseStep, PTL
     DEF Spec, ListsSnapshots, Promise!Spec
===============================================================================

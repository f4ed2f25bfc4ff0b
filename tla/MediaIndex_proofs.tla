--------------------------- MODULE MediaIndex_proofs ---------------------------
(***************************************************************************)
(* Facts about paths and about the statements of the `videos` table, for   *)
(* every table: what each of them adds, keeps and deletes.                 *)
(***************************************************************************)
EXTENDS MediaIndex, SequenceTheorems, TLAPS

(* A path lies at or beneath another when it agrees with it name by name. *)
LEMMA PrefixByName ==
  ASSUME NEW S, NEW s \in Seq(S), NEW t \in Seq(S)
  PROVE  IsPrefix(s, t) <=> Len(s) <= Len(t) /\ \A i \in 1..Len(s) : s[i] = t[i]
<1>1. Len(s) \in Nat /\ Len(t) \in Nat
  OBVIOUS
<1>2. SubSeq(s, 1, Len(s)) = s
  BY SubSeqFull
<1>3. CASE Len(s) <= Len(t)
  <2>1. \A i \in 1..Len(s) : t[i] \in S
    BY <1>1, <1>3, ElementOfSeq
  <2>2. /\ SubSeq(t, 1, Len(s)) \in Seq(S)
        /\ Len(SubSeq(t, 1, Len(s))) = Len(s)
        /\ \A i \in 1..Len(s) : SubSeq(t, 1, Len(s))[i] = t[i]
    BY <2>1, <1>1, <1>3
  <2>3. (\A i \in 1..Len(s) : s[i] = t[i]) => s = SubSeq(t, 1, Len(s))
    BY <2>2, SeqEqual
  <2> QED
    BY <1>2, <1>3, <2>2, <2>3 DEF IsPrefix
<1>4. CASE ~ (Len(s) <= Len(t))
  BY <1>4 DEF IsPrefix
<1> QED
  BY <1>3, <1>4

LEMMA PrefixReflexive ==
  ASSUME NEW S, NEW s \in Seq(S)
  PROVE  IsPrefix(s, s)
  BY PrefixByName

LEMMA PrefixTransitive ==
  ASSUME NEW S, NEW s \in Seq(S), NEW t \in Seq(S), NEW u \in Seq(S),
         IsPrefix(s, t), IsPrefix(t, u)
  PROVE  IsPrefix(s, u)
<1>1. Len(s) \in Nat /\ Len(t) \in Nat /\ Len(u) \in Nat
  OBVIOUS
<1> QED
  BY <1>1, PrefixByName

LEMMA PrefixAntisymmetric ==
  ASSUME NEW S, NEW s \in Seq(S), NEW t \in Seq(S),
         IsPrefix(s, t), IsPrefix(t, s)
  PROVE  s = t
<1>1. Len(s) = Len(t) /\ \A i \in 1..Len(s) : s[i] = t[i]
  BY PrefixByName
<1> QED
  BY <1>1, SeqEqual

(* Two ancestors of one path are comparable. *)
LEMMA PrefixLinear ==
  ASSUME NEW S, NEW s \in Seq(S), NEW t \in Seq(S), NEW u \in Seq(S),
         IsPrefix(s, u), IsPrefix(t, u)
  PROVE  IsPrefix(s, t) \/ IsPrefix(t, s)
<1>1. Len(s) \in Nat /\ Len(t) \in Nat /\ Len(u) \in Nat
  OBVIOUS
<1>2. /\ \A i \in 1..Len(s) : s[i] = u[i]
      /\ \A i \in 1..Len(t) : t[i] = u[i]
  BY PrefixByName
<1>3. CASE Len(s) <= Len(t)
  BY <1>1, <1>2, <1>3, PrefixByName
<1>4. CASE Len(t) <= Len(s)
  BY <1>1, <1>2, <1>4, PrefixByName
<1> QED
  BY <1>1, <1>3, <1>4
-------------------------------------------------------------------------------
(* The rows of one directory, and what each statement does to them. *)

(* Reconciling a directory leaves it with one row for each video read there,
   carrying the scan's stamp, whatever it held before ... *)
LEMMA ReconcileReplaces ==
  ASSUME NEW rows, NEW lib, NEW parent, NEW records, NEW g
  PROVE  RowsIn(ReconcileDirectory(rows, lib, parent, records, g), lib, parent)
           = {RowFor(lib, parent, v, g) : v \in records}
  BY DEF RowsIn, ReconcileDirectory, Upsert, RowFor

(* ... and touches no other directory's rows. *)
LEMMA ReconcileIsLocal ==
  ASSUME NEW rows, NEW lib, NEW parent, NEW records, NEW g,
         NEW l, NEW p, l # lib \/ p # parent
  PROVE  RowsIn(ReconcileDirectory(rows, lib, parent, records, g), l, p)
           = RowsIn(rows, l, p)
  BY DEF RowsIn, ReconcileDirectory, Upsert, RowFor

LEMMA ReconcileAddsOnly ==
  ASSUME NEW rows, NEW lib, NEW parent, NEW records, NEW g,
         NEW r \in ReconcileDirectory(rows, lib, parent, records, g)
  PROVE  r \in rows \/ \E v \in records : r = RowFor(lib, parent, v, g)
  BY DEF ReconcileDirectory, Upsert

(* The table keeps its key: one row to a library and path. *)
LEMMA ReconcileKeepsNames ==
  ASSUME NEW rows, NEW lib, NEW parent, NEW records, NEW g,
         \A v, w \in records : v.name = w.name => v = w,
         \A r, s \in rows : SameVideo(r, s) => r = s,
         NEW r \in ReconcileDirectory(rows, lib, parent, records, g),
         NEW s \in ReconcileDirectory(rows, lib, parent, records, g),
         SameVideo(r, s)
  PROVE  r = s
<1>1. \A t \in ReconcileDirectory(rows, lib, parent, records, g) :
        \/ /\ t \in rows
           /\ \A v \in records :
                ~ (t.lib = lib /\ t.parent = parent /\ t.video.name = v.name)
        \/ \E v \in records : t = RowFor(lib, parent, v, g)
  BY DEF ReconcileDirectory, Upsert
<1>2. \A v : /\ RowFor(lib, parent, v, g).lib = lib
             /\ RowFor(lib, parent, v, g).parent = parent
             /\ RowFor(lib, parent, v, g).video = v
  BY DEF RowFor
<1> QED
  BY <1>1, <1>2 DEF SameVideo

LEMMA ReconcileKeepsKeys ==
  ASSUME NEW rows, NEW lib, NEW parent, NEW records \in Listing, NEW g,
         \A r, s \in rows : SameVideo(r, s) => r = s,
         NEW r \in ReconcileDirectory(rows, lib, parent, records, g),
         NEW s \in ReconcileDirectory(rows, lib, parent, records, g),
         SameVideo(r, s)
  PROVE  r = s
  BY ReconcileKeepsNames DEF Listing

LEMMA ReconcileListing ==
  ASSUME NEW rows, NEW lib, NEW parent, NEW records, NEW g
  PROVE  VideosIn(ReconcileDirectory(rows, lib, parent, records, g), lib, parent)
           = records
<1>1. VideosIn(ReconcileDirectory(rows, lib, parent, records, g), lib, parent)
        = {r.video : r \in {RowFor(lib, parent, v, g) : v \in records}}
  BY ReconcileReplaces DEF VideosIn
<1>2. \A v : RowFor(lib, parent, v, g).video = v
  BY DEF RowFor
<1> QED
  BY <1>1, <1>2

(* The sweep keeps the rows of other libraries and those stamped this scan. *)
LEMMA SweepRows ==
  ASSUME NEW rows, NEW lib, NEW g, NEW l, NEW p
  PROVE  RowsIn(RemoveUnseen(rows, lib, g), l, p)
           = {r \in RowsIn(rows, l, p) : ~ (l = lib /\ r.last_seen < g)}
  BY DEF RowsIn, RemoveUnseen

(* remove_tree acts on a directory's rows as a whole. *)
LEMMA RemoveTreeRows ==
  ASSUME NEW rows, NEW lib, NEW dir, NEW l, NEW p
  PROVE  RowsIn(RemoveTree(rows, lib, dir), l, p)
           = IF l = lib /\ (p = dir \/ LikeBeneath(p, dir)) THEN {}
             ELSE RowsIn(rows, l, p)
  BY DEF RowsIn, RemoveTree
================================================================================

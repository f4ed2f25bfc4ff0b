--------------------------- MODULE Derivation_proofs ---------------------------
(***************************************************************************)
(* What the worker and the probe pass guarantee whatever fails, crashes or *)
(* changes under them: finished sidecars are whole, and probed facts are   *)
(* kept for the size and mtime they were recorded for.  And what they      *)
(* guarantee while the database answers: a wake is never lost.  Last, that *)
(* Derivation implements Conversion.                                       *)
(***************************************************************************)
EXTENDS Derivation, TLAPS

(* Writing or removing one entry of a table keeps it a table. *)
LEMMA PutIsMapping ==
  ASSUME NEW S, NEW T, NEW f, IsMapping(f, S, T), NEW k \in S, NEW v \in T
  PROVE  /\ IsMapping(Put(f, k, v), S, T)
         /\ DOMAIN Put(f, k, v) = DOMAIN f \cup {k}
         /\ Put(f, k, v)[k] = v
         /\ \A x \in DOMAIN f : x # k => Put(f, k, v)[x] = f[x]
  BY DEF IsMapping, Put

LEMMA WithoutIsMapping ==
  ASSUME NEW S, NEW T, NEW f, IsMapping(f, S, T), NEW k
  PROVE  /\ IsMapping(Without(f, k), S, T)
         /\ DOMAIN Without(f, k) = DOMAIN f \ {k}
         /\ \A x \in DOMAIN Without(f, k) : Without(f, k)[x] = f[x]
  BY DEF IsMapping, Without

LEMMA NoEntriesIsMapping ==
  ASSUME NEW S, NEW T
  PROVE  IsMapping(NoEntries, S, T) /\ DOMAIN NoEntries = {}
  BY DEF IsMapping, NoEntries

(* The record built from a video has the columns of a row, and no probed
   facts. *)
LEMMA BuildRecordType ==
  ASSUME TypeOK, NEW m \in DOMAIN master
  PROVE  build_record(m) \in Row /\ build_record(m).source # "ffprobe"
<1>1. StemOf[m] \in Stem /\ master[m] \in Content
  BY TableAssumption DEF TypeOK, IsMapping
<1>2. info[StemOf[m]] \in Facts /\ StampOf[master[m]] \in Stamp
  BY <1>1, TableAssumption DEF TypeOK, Stamp
<1>3. find_sidecar("thumb", m) \in BOOLEAN /\ find_sidecar("compat", m) \in BOOLEAN
  BY Zenon DEF find_sidecar
<1> QED
  BY <1>2, <1>3 DEF build_record, Row, Source

(* Writing a record over a row keeps it a row with the record's stamp. *)
LEMMA UpsertedType ==
  ASSUME NEW m \in Master, NEW record \in Row, IsMapping(rows, Master, Row)
  PROVE  /\ Upserted(m, record) \in Row
         /\ Upserted(m, record).stamp = record.stamp
         /\ record.source # "none" => Upserted(m, record) = record
         /\ \/ Upserted(m, record) = record
            \/ /\ m \in DOMAIN rows
               /\ record.stamp = rows[m].stamp
               /\ Upserted(m, record).facts = rows[m].facts
               /\ Upserted(m, record).source = rows[m].source
<1>1. m \in DOMAIN rows => rows[m] \in Row
  BY DEF IsMapping
<1> QED
  BY <1>1 DEF Upserted, Row

(* Every job is of an indexed video. *)
LEMMA JobsType ==
  ASSUME TypeOK
  PROVE  Jobs \subseteq Job
<1> SUFFICES ASSUME NEW m \in Candidates, NEW kind \in Kind
             PROVE  JobFor(m, kind) \in Job
  BY DEF Jobs, Kind
<1>1. m \in Master /\ rows[m] \in Row
  BY DEF Candidates, TypeOK, IsMapping
<1> QED
  BY <1>1 DEF JobFor, Job

LEMMA InHandType ==
  ASSUME job \in Job
  PROVE  InHand \in Sidecar
  BY TableAssumption DEF InHand, Sidecar, Job
-------------------------------------------------------------------------------
(* Type correctness, one group of variables at a time. *)

DirType ==
  /\ IsMapping(master, Master, Content)
  /\ info \in [Stem -> Info]
  /\ part \in [Sidecar -> File \cup {NoFile}]
  /\ done \in [Sidecar -> File \cup {NoFile}]

LifeType == changes \in 0..MaxChanges /\ starts \in 0..MaxStarts

IndexType ==
  /\ IsMapping(rows, Master, Row)
  /\ IsMapping(cache, Master, CacheEntry)
  /\ IsMapping(failures, Master, Stamp)

MaintType ==
  /\ dirty \in BOOLEAN
  /\ mpc \in {"down", "idle", "list", "read", "candidates", "probe"}
  /\ unread \subseteq Master
  /\ IsMapping(listing, Master, Row)
  /\ IsMapping(unprobed, Master, Stamp)
  /\ permit \in BOOLEAN

WorkerType ==
  /\ wpc \in {"down", "query", "rest", "wait", "start", "encode", "rename",
              "record", "fail"}
  /\ wpc \in {"start", "encode", "rename", "record", "fail"} => job \in Job
  /\ wstatus \in Master \cup {Idle}

LEMMA TypeParts ==
  /\ TypeOK <=> DirType /\ LifeType /\ IndexType /\ MaintType /\ WorkerType
  /\ TypeOK' <=> (DirType /\ LifeType /\ IndexType /\ MaintType /\ WorkerType)'
  BY DEF TypeOK, DirType, LifeType, IndexType, MaintType, WorkerType

LEMMA TypeInit == Init => TypeOK
<1> SUFFICES ASSUME Init
             PROVE  TypeOK
  OBVIOUS
<1>1. DirType
  BY DEF Init, DirType, Mappings, IsMapping
<1>2. LifeType
  BY BoundAssumption DEF Init, LifeType
<1>3. IndexType
  BY NoEntriesIsMapping DEF Init, IndexType
<1>4. MaintType
  BY NoEntriesIsMapping DEF Init, MaintType
<1>5. WorkerType
  BY DEF Init, WorkerType
<1> QED
  BY <1>1, <1>2, <1>3, <1>4, <1>5, TypeParts

LEMMA ContentStamp == \A c \in Content : StampOf[c] \in Stamp
  BY DEF Stamp

LEMMA OthersType == TypeOK /\ Others => TypeOK'
<1> SUFFICES ASSUME TypeOK, Others
             PROVE  TypeOK'
  OBVIOUS
<1> USE TypeParts
<1>1. /\ changes' \in 0..MaxChanges
      /\ dirty' \in BOOLEAN
      /\ UNCHANGED <<starts, indexVars, mpc, unread, listing, unprobed, permit,
                     workerVars>>
  <2>1. Change
    BY DEF Others, PutMaster, DeleteMaster, PutInfo, DeleteSidecar
  <2> QED
    BY <2>1, BoundAssumption DEF LifeType, Change, Notify
<1>2. DirType'
  <2>1. CASE \E m \in Master, c \in Content : PutMaster(m, c)
    <3>1. PICK m \in Master, c \in Content : PutMaster(m, c)
      BY <2>1
    <3>2. IsMapping(master', Master, Content)
      BY <3>1, PutIsMapping DEF DirType, PutMaster
    <3> QED
      BY <3>1, <3>2 DEF DirType, PutMaster
  <2>2. CASE \E m \in Master : DeleteMaster(m)
    <3>1. PICK m \in Master : DeleteMaster(m)
      BY <2>2
    <3>2. IsMapping(master', Master, Content)
      BY <3>1, WithoutIsMapping DEF DirType, DeleteMaster
    <3> QED
      BY <3>1, <3>2 DEF DirType, DeleteMaster
  <2>3. CASE \E s \in Stem, i \in Info : PutInfo(s, i)
    BY <2>3 DEF DirType, PutInfo
  <2>4. CASE \E s \in Sidecar : DeleteSidecar(s)
    BY <2>4 DEF DirType, DeleteSidecar
  <2> QED
    BY <2>1, <2>2, <2>3, <2>4 DEF Others
<1>3. LifeType' /\ IndexType' /\ MaintType' /\ WorkerType'
  BY <1>1 DEF LifeType, IndexType, MaintType, WorkerType, indexVars, workerVars
<1> QED
  BY <1>2, <1>3

LEMMA LifeTypeStep == TypeOK /\ (Start \/ Crash) => TypeOK'
<1> SUFFICES ASSUME TypeOK, Start \/ Crash
             PROVE  TypeOK'
  OBVIOUS
<1> USE TypeParts DEF dirVars, lifeVars, indexVars
<1>1. DirType' /\ IndexType'
  BY DEF Start, Crash, DirType, IndexType
<1>2. LifeType'
  BY BoundAssumption DEF Start, Crash, LifeType
<1>3. MaintType' /\ WorkerType'
  BY NoEntriesIsMapping DEF Start, Crash, MaintType, WorkerType
<1> QED
  BY <1>1, <1>2, <1>3

LEMMA MaintenanceType == TypeOK /\ Maintenance => TypeOK'
<1> SUFFICES ASSUME TypeOK, Maintenance
             PROVE  TypeOK'
  OBVIOUS
<1> USE TypeParts
<1>1. UNCHANGED <<dirVars, lifeVars, workerVars>>
  BY DEF Maintenance, BeginFlush, ListDirectory, ReadVideo, WriteDirectory,
     ListUnprobed, ProbeCandidate, NotifyWorker
<1>2. DirType' /\ LifeType' /\ WorkerType'
  BY <1>1 DEF DirType, LifeType, WorkerType, dirVars, lifeVars, workerVars
<1>3. IndexType' /\ MaintType'
  <2> USE DEF indexVars
  <2>1. CASE BeginFlush \/ NotifyWorker
    BY <2>1 DEF BeginFlush, NotifyWorker, IndexType, MaintType
  <2>2. CASE ListDirectory
    BY <2>2, NoEntriesIsMapping DEF ListDirectory, IndexType, MaintType, DirType, IsMapping
  <2>3. CASE ReadVideo
    <3>1. PICK m \in unread :
            /\ unread' = unread \ {m}
            /\ listing' = IF m \in DOMAIN master THEN Put(listing, m, build_record(m))
                          ELSE listing
      BY <2>3 DEF ReadVideo
    <3>2. m \in Master
      BY DEF TypeOK
    <3>3. IsMapping(listing', Master, Row)
      BY <3>1, <3>2, BuildRecordType, PutIsMapping DEF MaintType
    <3> QED
      BY <2>3, <3>1, <3>3 DEF ReadVideo, IndexType, MaintType
  <2>4. CASE WriteDirectory
    <3>1. IsMapping(rows', Master, Row)
      <4>1. CASE UNCHANGED rows
        BY <4>1 DEF IndexType
      <4>2. CASE rows' = [m \in DOMAIN listing |-> Upserted(m, listing[m])]
        <5>1. \A m \in DOMAIN listing : m \in Master /\ listing[m] \in Row
          BY DEF MaintType, IsMapping
        <5>2. \A m \in DOMAIN listing : Upserted(m, listing[m]) \in Row
          BY <5>1, UpsertedType DEF IndexType
        <5> QED
          BY <4>2, <5>1, <5>2 DEF IsMapping
      <4> QED
        BY <2>4, <4>1, <4>2 DEF WriteDirectory
    <3> QED
      BY <2>4, <3>1 DEF WriteDirectory, IndexType, MaintType
  <2>5. CASE ListUnprobed
    <3>1. IsMapping(unprobed', Master, Stamp)
      <4>1. CASE unprobed' = NoEntries
        BY <4>1, NoEntriesIsMapping
      <4>2. CASE LET pending == {m \in DOMAIN rows : rows[m].source = "none"}
                 IN unprobed' = [m \in pending |-> rows[m].stamp]
        BY <4>2 DEF IndexType, IsMapping, Row
      <4> QED
        BY <2>5, <4>1, <4>2 DEF ListUnprobed
    <3> QED
      BY <2>5, <3>1 DEF ListUnprobed, IndexType, MaintType
  <2>6. CASE ProbeCandidate
    <3>1. PICK m \in DOMAIN unprobed :
            /\ unprobed' = Without(unprobed, m)
            /\ \/ Cached(m) /\ record_probe(m, cache[m].facts)
               \/ record_probe(m, FfprobeAnswer(m))
               \/ UNCHANGED <<rows, cache>>
      BY <2>6 DEF ProbeCandidate
    <3>2. m \in Master /\ unprobed[m] \in Stamp
      BY DEF MaintType, IsMapping
    <3>3. FfprobeAnswer(m) \in Facts
      BY TableAssumption DEF FfprobeAnswer, DirType, IsMapping
    <3>4. Cached(m) => cache[m].facts \in Facts
      BY DEF Cached, IndexType, IsMapping, CacheEntry
    <3>5. ASSUME NEW facts \in Facts, record_probe(m, facts)
          PROVE  IsMapping(cache', Master, CacheEntry) /\ IsMapping(rows', Master, Row)
      <4>1. IsMapping(cache', Master, CacheEntry)
        BY <3>2, <3>5, PutIsMapping DEF record_probe, IndexType, CacheEntry
      <4>2. IsMapping(rows', Master, Row)
        BY <3>5 DEF record_probe, IndexType, IsMapping, Row, Source
      <4> QED
        BY <4>1, <4>2
    <3>6. IsMapping(cache', Master, CacheEntry) /\ IsMapping(rows', Master, Row)
      BY <3>1, <3>3, <3>4, <3>5 DEF IndexType
    <3>7. IsMapping(unprobed', Master, Stamp)
      BY <3>1, WithoutIsMapping DEF MaintType
    <3> QED
      BY <2>6, <3>6, <3>7 DEF ProbeCandidate, IndexType, MaintType
  <2> QED
    BY <2>1, <2>2, <2>3, <2>4, <2>5, <2>6 DEF Maintenance
<1> QED
  BY <1>2, <1>3

LEMMA WorkerTypeStep == TypeOK /\ Staged /\ Worker => TypeOK'
<1> SUFFICES ASSUME TypeOK, Staged, Worker
             PROVE  TypeOK'
  OBVIOUS
<1> USE TypeParts
<1>1. LifeType'
  BY DEF Worker, TakeJob, FindNothing, BeginWait, Wake, StartFfmpeg, FinishFfmpeg,
     DerivationFails, RenameIntoPlace, RecordSidecar, RecordFailure, lifeVars, LifeType
<1>2. MaintType'
  BY DEF Worker, TakeJob, FindNothing, BeginWait, Wake, StartFfmpeg, FinishFfmpeg,
     DerivationFails, RenameIntoPlace, RecordSidecar, RecordFailure, Notify,
     maintVars, MaintType
<1>3. WorkerType'
  <2>1. CASE TakeJob
    <3>1. PICK j \in Jobs : job' = j /\ wstatus' = j.video
      BY <2>1 DEF TakeJob
    <3>2. j \in Job
      BY JobsType
    <3> QED
      BY <2>1, <3>1, <3>2 DEF TakeJob, WorkerType, Job
  <2>2. CASE FindNothing \/ BeginWait \/ Wake \/ StartFfmpeg \/ FinishFfmpeg
             \/ DerivationFails \/ RenameIntoPlace \/ RecordFailure
    BY <2>2 DEF FindNothing, BeginWait, Wake, StartFfmpeg, FinishFfmpeg,
       DerivationFails, RenameIntoPlace, RecordFailure, WorkerType
  <2>3. CASE RecordSidecar
    <3>1. job \in Job
      BY <2>3 DEF RecordSidecar, WorkerType
    <3>2. [job EXCEPT !.kind = "thumb"] \in Job
      BY <3>1 DEF Job, Kind
    <3> QED
      BY <2>3, <3>1, <3>2 DEF RecordSidecar, WorkerType
  <2> QED
    BY <2>1, <2>2, <2>3 DEF Worker
<1>4. IndexType'
  <2>1. CASE UNCHANGED indexVars
    BY <2>1 DEF indexVars, IndexType
  <2>2. CASE RecordSidecar
    <3>1. \A m \in DOMAIN rows : /\ [rows[m] EXCEPT !.compat = TRUE] \in Row
                                 /\ [rows[m] EXCEPT !.thumb = TRUE] \in Row
      BY DEF IndexType, IsMapping, Row
    <3>2. \/ UNCHANGED rows
          \/ rows' = [rows EXCEPT ![job.video].compat = TRUE]
          \/ rows' = [rows EXCEPT ![job.video].thumb = TRUE]
      BY <2>2 DEF RecordSidecar
    <3>3. IsMapping(rows', Master, Row)
      BY <3>1, <3>2 DEF IndexType, IsMapping
    <3> QED
      BY <2>2, <3>3 DEF RecordSidecar, IndexType
  <2>3. CASE RecordFailure
    <3>1. job.video \in Master /\ job.row.stamp \in Stamp
      BY <2>3 DEF RecordFailure, WorkerType, Job, Row
    <3>2. CASE UNCHANGED failures
      BY <3>2, <2>3 DEF RecordFailure, IndexType
    <3>3. CASE failures' = Put(failures, job.video, job.row.stamp)
      <4>1. IsMapping(failures', Master, Stamp)
        BY <3>1, <3>3, PutIsMapping DEF IndexType
      <4> QED
        BY <2>3, <4>1 DEF RecordFailure, IndexType
    <3> QED
      BY <2>3, <3>2, <3>3 DEF RecordFailure
  <2> QED
    BY <2>1, <2>2, <2>3 DEF Worker, TakeJob, FindNothing, BeginWait, Wake, StartFfmpeg,
       FinishFfmpeg, DerivationFails, RenameIntoPlace, indexVars
<1>5. DirType'
  <2>1. CASE UNCHANGED dirVars
    BY <2>1 DEF dirVars, DirType
  <2>2. ASSUME wpc \in {"start", "encode", "rename"}
        PROVE  job \in Job /\ InHand \in Sidecar
    BY <2>2, InHandType DEF WorkerType
  <2>3. CASE StartFfmpeg
    <3>1. job.video \in DOMAIN master => master[job.video] \in Content
      BY DEF DirType, IsMapping
    <3>2. CASE wpc' = "encode"
      <4>1. [of |-> master[job.video], whole |-> FALSE] \in File
        BY <2>3, <3>1, <3>2 DEF StartFfmpeg, File
      <4>2. part' = [part EXCEPT ![InHand] = [of |-> master[job.video], whole |-> FALSE]]
        BY <2>3, <3>2 DEF StartFfmpeg
      <4> QED
        BY <2>2, <2>3, <4>1, <4>2 DEF StartFfmpeg, DirType
    <3>3. CASE wpc' = "fail"
      BY <2>2, <2>3, <3>3 DEF StartFfmpeg, DirType
    <3> QED
      BY <2>3, <3>2, <3>3 DEF StartFfmpeg
  <2>4. CASE FinishFfmpeg
    <3>1. [part[InHand] EXCEPT !.whole = TRUE] \in File
      BY <2>4 DEF FinishFfmpeg, Staged, File
    <3> QED
      BY <2>2, <2>4, <3>1 DEF FinishFfmpeg, DirType
  <2>5. CASE RenameIntoPlace
    BY <2>2, <2>5 DEF RenameIntoPlace, DirType
  <2> QED
    BY <2>1, <2>3, <2>4, <2>5 DEF Worker, TakeJob, FindNothing, BeginWait, Wake,
       DerivationFails, RecordSidecar, RecordFailure, dirVars
<1> QED
  BY <1>1, <1>2, <1>3, <1>4, <1>5
-------------------------------------------------------------------------------
(* The inductive invariant. *)

LEMMA InvInit == Init => IInv
<1> SUFFICES ASSUME Init
             PROVE  IInv
  OBVIOUS
<1>1. FinishedIsWhole /\ Staged
  BY DEF Init, FinishedIsWhole, Staged, NoFile
<1>2. ProbedFactsKeyed /\ CandidatesCurrent /\ ListingUnprobed
  BY DEF Init, ProbedFactsKeyed, CandidatesCurrent, ListingUnprobed, NoEntries
<1> QED
  BY <1>1, <1>2, TypeInit DEF IInv

(* Changes by others, a start and a crash touch neither what the worker has
   staged nor what the index holds; they only remove finished sidecars. *)
LEMMA OutsideStep == IInv /\ (Others \/ Start \/ Crash) => IInv'
<1> SUFFICES ASSUME IInv, Others \/ Start \/ Crash
             PROVE  IInv'
  OBVIOUS
<1>1. TypeOK'
  BY OthersType, LifeTypeStep DEF IInv
<1>2. /\ UNCHANGED <<part, rows, cache, listing, job>>
      /\ UNCHANGED wpc \/ wpc' \in {"query", "down"}
      /\ UNCHANGED <<mpc, unprobed>> \/ mpc' \in {"list", "down"}
  BY DEF Others, PutMaster, DeleteMaster, PutInfo, DeleteSidecar, Change, Start, Crash,
     dirVars, indexVars, workerVars
<1>3. \A s \in Sidecar : done'[s] = done[s] \/ done'[s] = NoFile
  <2>1. UNCHANGED done \/ \E s \in Sidecar : done' = [done EXCEPT ![s] = NoFile]
    BY DEF Others, PutMaster, DeleteMaster, PutInfo, DeleteSidecar, Start, Crash, dirVars
  <2> QED
    BY <2>1 DEF IInv, TypeOK
<1>4. FinishedIsWhole'
  BY <1>3 DEF IInv, FinishedIsWhole
<1>5. Staged'
  BY <1>2 DEF IInv, Staged, InHand
<1>6. ProbedFactsKeyed' /\ CandidatesCurrent' /\ ListingUnprobed'
  BY <1>2 DEF IInv, ProbedFactsKeyed, CandidatesCurrent, ListingUnprobed
<1> QED
  BY <1>1, <1>4, <1>5, <1>6 DEF IInv

LEMMA MaintenanceStep == IInv /\ Maintenance => IInv'
<1> SUFFICES ASSUME IInv, Maintenance
             PROVE  IInv'
  OBVIOUS
<1>1. TypeOK'
  BY MaintenanceType DEF IInv
<1>2. UNCHANGED <<dirVars, workerVars>>
  BY DEF Maintenance, BeginFlush, ListDirectory, ReadVideo, WriteDirectory,
     ListUnprobed, ProbeCandidate, NotifyWorker
<1>3. FinishedIsWhole' /\ Staged'
  BY <1>2 DEF IInv, FinishedIsWhole, Staged, InHand, dirVars, workerVars
<1>4. ProbedFactsKeyed' /\ CandidatesCurrent' /\ ListingUnprobed'
  <2> USE DEF indexVars
  <2>1. CASE BeginFlush \/ NotifyWorker
    BY <2>1 DEF BeginFlush, NotifyWorker, IInv, ProbedFactsKeyed, CandidatesCurrent,
       ListingUnprobed
  <2>2. CASE ListDirectory
    BY <2>2, NoEntriesIsMapping DEF ListDirectory, IInv, ProbedFactsKeyed,
       CandidatesCurrent, ListingUnprobed
  <2>3. CASE ReadVideo
    <3>1. PICK m \in unread :
            listing' = IF m \in DOMAIN master THEN Put(listing, m, build_record(m))
                       ELSE listing
      BY <2>3 DEF ReadVideo
    <3>2. ListingUnprobed'
      <4>1. CASE m \in DOMAIN master
        <5>1. build_record(m).source # "ffprobe"
          BY <4>1, BuildRecordType DEF IInv
        <5> QED
          BY <3>1, <4>1, <5>1 DEF Put, IInv, ListingUnprobed
      <4>2. CASE m \notin DOMAIN master
        BY <3>1, <4>2 DEF IInv, ListingUnprobed
      <4> QED
        BY <4>1, <4>2
    <3> QED
      BY <2>3, <3>2 DEF ReadVideo, IInv, ProbedFactsKeyed, CandidatesCurrent
  <2>4. CASE WriteDirectory
    <3>1. CASE UNCHANGED rows
      BY <2>4, <3>1 DEF WriteDirectory, IInv, ProbedFactsKeyed, CandidatesCurrent,
         ListingUnprobed
    <3>2. CASE rows' = [m \in DOMAIN listing |-> Upserted(m, listing[m])]
      <4>1. SUFFICES ASSUME NEW m \in DOMAIN listing,
                            Upserted(m, listing[m]).source = "ffprobe"
                     PROVE  /\ m \in DOMAIN cache
                            /\ cache[m] = [stamp |-> Upserted(m, listing[m]).stamp,
                                           facts |-> Upserted(m, listing[m]).facts]
        BY <2>4, <3>2 DEF WriteDirectory, IInv, ProbedFactsKeyed, CandidatesCurrent,
           ListingUnprobed
      <4>2. m \in Master /\ listing[m] \in Row /\ listing[m].source # "ffprobe"
        BY DEF IInv, TypeOK, IsMapping, ListingUnprobed
      <4>3. /\ m \in DOMAIN rows
            /\ Upserted(m, listing[m]).stamp = rows[m].stamp
            /\ Upserted(m, listing[m]).facts = rows[m].facts
            /\ rows[m].source = "ffprobe"
        BY <4>1, <4>2, UpsertedType DEF IInv, TypeOK
      <4> QED
        BY <4>3 DEF IInv, ProbedFactsKeyed
    <3> QED
      BY <2>4, <3>1, <3>2 DEF WriteDirectory
  <2>5. CASE ListUnprobed
    <3>1. CandidatesCurrent'
      <4>1. CASE unprobed' = NoEntries
        BY <4>1, NoEntriesIsMapping DEF CandidatesCurrent
      <4>2. CASE LET pending == {m \in DOMAIN rows : rows[m].source = "none"}
                 IN unprobed' = [m \in pending |-> rows[m].stamp]
        BY <2>5, <4>2 DEF ListUnprobed, CandidatesCurrent
      <4> QED
        BY <2>5, <4>1, <4>2 DEF ListUnprobed
    <3> QED
      BY <2>5, <3>1 DEF ListUnprobed, IInv, ProbedFactsKeyed, ListingUnprobed
  <2>6. CASE ProbeCandidate
    <3>1. PICK m \in DOMAIN unprobed :
            /\ unprobed' = Without(unprobed, m)
            /\ \/ \E facts \in {cache[m].facts, FfprobeAnswer(m)} : record_probe(m, facts)
               \/ UNCHANGED <<rows, cache>>
      BY <2>6 DEF ProbeCandidate
    <3>2. /\ DOMAIN unprobed' = DOMAIN unprobed \ {m}
          /\ \A n \in DOMAIN unprobed' : unprobed'[n] = unprobed[n]
      BY <3>1 DEF Without
    <3>3. \A n \in DOMAIN unprobed : n \in DOMAIN rows /\ rows[n].stamp = unprobed[n]
      BY <2>6 DEF ProbeCandidate, IInv, CandidatesCurrent
    <3>4. CASE UNCHANGED <<rows, cache>>
      BY <2>6, <3>2, <3>3, <3>4 DEF ProbeCandidate, IInv, ProbedFactsKeyed,
         CandidatesCurrent, ListingUnprobed
    <3>5. ASSUME NEW facts, record_probe(m, facts)
          PROVE  ProbedFactsKeyed' /\ CandidatesCurrent'
      <4>1. rows' = [rows EXCEPT ![m].facts = facts, ![m].source = "ffprobe"]
        BY <3>3, <3>5 DEF record_probe
      <4>2. rows[m] \in Row
        BY <3>3 DEF IInv, TypeOK, IsMapping
      <4>3. /\ DOMAIN rows' = DOMAIN rows
            /\ rows'[m].facts = facts
            /\ rows'[m].stamp = unprobed[m]
            /\ \A n \in DOMAIN rows : n # m => rows'[n] = rows[n]
        BY <3>3, <4>1, <4>2 DEF IInv, TypeOK, IsMapping, Row
      <4>4. /\ DOMAIN cache' = DOMAIN cache \cup {m}
            /\ cache'[m] = [stamp |-> unprobed[m], facts |-> facts]
            /\ \A n \in DOMAIN cache : n # m => cache'[n] = cache[n]
        BY <3>5 DEF record_probe, Put
      <4>5. ProbedFactsKeyed'
        BY <4>3, <4>4 DEF IInv, ProbedFactsKeyed
      <4>6. CandidatesCurrent'
        BY <3>2, <3>3, <4>3 DEF CandidatesCurrent
      <4> QED
        BY <4>5, <4>6
    <3>6. ListingUnprobed'
      BY <2>6 DEF ProbeCandidate, IInv, ListingUnprobed
    <3> QED
      BY <3>1, <3>4, <3>5, <3>6
  <2> QED
    BY <2>1, <2>2, <2>3, <2>4, <2>5, <2>6 DEF Maintenance
<1> QED
  BY <1>1, <1>3, <1>4 DEF IInv

LEMMA WorkerStep == IInv /\ Worker => IInv'
<1> SUFFICES ASSUME IInv, Worker
             PROVE  IInv'
  OBVIOUS
<1>1. TypeOK'
  BY WorkerTypeStep DEF IInv
<1>2. UNCHANGED <<mpc, unprobed, listing, cache>>
  BY DEF Worker, TakeJob, FindNothing, BeginWait, Wake, StartFfmpeg, FinishFfmpeg,
     DerivationFails, RenameIntoPlace, RecordSidecar, RecordFailure, indexVars, maintVars
<1>3. ListingUnprobed'
  BY <1>2 DEF IInv, ListingUnprobed
<1>4. ASSUME wpc \in {"start", "encode", "rename"}
      PROVE  InHand \in Sidecar
  BY <1>4, InHandType DEF IInv, TypeOK
<1>5. FinishedIsWhole'
  <2>1. CASE UNCHANGED done
    BY <2>1 DEF IInv, FinishedIsWhole
  <2>2. CASE RenameIntoPlace
    BY <1>4, <2>2 DEF RenameIntoPlace, IInv, TypeOK, Staged, FinishedIsWhole
  <2> QED
    BY <2>1, <2>2 DEF Worker, TakeJob, FindNothing, BeginWait, Wake, StartFfmpeg,
       FinishFfmpeg, DerivationFails, RecordSidecar, RecordFailure, dirVars
<1>6. Staged'
  <2>1. CASE wpc' \notin {"encode", "rename"}
    BY <2>1 DEF Staged
  <2>2. CASE StartFfmpeg /\ wpc' = "encode"
    <3>1. InHand \in Sidecar /\ InHand' = InHand
      BY <1>4, <2>2 DEF StartFfmpeg, InHand
    <3>2. master[job.video] \in Content
      BY <2>2 DEF StartFfmpeg, IInv, TypeOK, IsMapping
    <3>3. part'[InHand] = [of |-> master[job.video], whole |-> FALSE]
      BY <2>2, <3>1 DEF StartFfmpeg, IInv, TypeOK
    <3> QED
      BY <2>2, <3>1, <3>2, <3>3 DEF Staged, File
  <2>3. CASE FinishFfmpeg
    <3>1. InHand \in Sidecar /\ InHand' = InHand
      BY <1>4, <2>3 DEF FinishFfmpeg, InHand
    <3>2. part[InHand] \in File
      BY <2>3 DEF FinishFfmpeg, IInv, Staged
    <3>3. part'[InHand] = [part[InHand] EXCEPT !.whole = TRUE]
      BY <2>3, <3>1 DEF FinishFfmpeg, IInv, TypeOK
    <3>4. part'[InHand] \in File /\ part'[InHand].whole
      BY <3>2, <3>3 DEF File
    <3> QED
      BY <3>1, <3>4 DEF Staged
  <2> QED
    BY <2>1, <2>2, <2>3 DEF Worker, TakeJob, FindNothing, BeginWait, Wake, StartFfmpeg,
       DerivationFails, RenameIntoPlace, RecordSidecar, RecordFailure
<1>7. ProbedFactsKeyed' /\ CandidatesCurrent'
  <2>1. \/ UNCHANGED rows
        \/ /\ job.video \in DOMAIN rows
           /\ \/ rows' = [rows EXCEPT ![job.video].compat = TRUE]
              \/ rows' = [rows EXCEPT ![job.video].thumb = TRUE]
    BY DEF Worker, TakeJob, FindNothing, BeginWait, Wake, StartFfmpeg, FinishFfmpeg,
       DerivationFails, RenameIntoPlace, RecordSidecar, RecordFailure, indexVars
  <2>2. \A m \in DOMAIN rows : rows[m] \in Row
    BY DEF IInv, TypeOK, IsMapping
  <2>3. /\ DOMAIN rows' = DOMAIN rows
        /\ \A m \in DOMAIN rows : /\ rows'[m].stamp = rows[m].stamp
                                 /\ rows'[m].facts = rows[m].facts
                                 /\ rows'[m].source = rows[m].source
    BY <2>1, <2>2 DEF IInv, TypeOK, IsMapping, Row
  <2> QED
    BY <1>2, <2>3 DEF IInv, ProbedFactsKeyed, CandidatesCurrent
<1> QED
  BY <1>1, <1>3, <1>5, <1>6, <1>7 DEF IInv

LEMMA InvStep == IInv /\ [Next]_vars => IInv'
<1>1. IInv /\ UNCHANGED vars => IInv'
  BY DEF vars, IInv, TypeOK, FinishedIsWhole, Staged, InHand, ProbedFactsKeyed,
     CandidatesCurrent, ListingUnprobed
<1> QED
  BY <1>1, OutsideStep, MaintenanceStep, WorkerStep DEF Next

(* The inductive invariant holds of every configuration, whatever fails,
   crashes or changes. *)
THEOREM InvariantHolds == Spec => []IInv
  BY InvInit, InvStep, PTL DEF Spec

(* Every variable keeps its type; a row keeps size and mtime of its video
   whatever the worker writes to it. *)
THEOREM TypeCorrect == Spec => []TypeOK
<1>1. IInv => TypeOK
  BY DEF IInv
<1> QED
  BY <1>1, InvariantHolds, PTL

(* No partial output is ever taken for a finished sidecar. *)
THEOREM NoPartialSidecar == Spec => []FinishedIsWhole
<1>1. IInv => FinishedIsWhole
  BY DEF IInv
<1> QED
  BY <1>1, InvariantHolds, PTL

(* Probed facts are those recorded for the size and mtime of their row. *)
THEOREM FactsFollowContent == Spec => []ProbedFactsKeyed
<1>1. IInv => ProbedFactsKeyed
  BY DEF IInv
<1> QED
  BY <1>1, InvariantHolds, PTL

-------------------------------------------------------------------------------
(* No wake is lost.  Whoever makes a job is maintenance on its way to the
   notification, or the worker on its way back to the query. *)

LEMMA JobsUnchanged ==
  ASSUME rows' = rows, failures' = failures
  PROVE  Jobs' = Jobs
  BY DEF Jobs, Candidates, Failed, Verdict, JobFor

LEMMA WakeStep ==
  ASSUME ~ DbMayFail, NoIdleWork, [Next]_vars
  PROVE  NoIdleWork'
<1>1. CASE rows' = rows /\ failures' = failures
  <2> USE <1>1, JobsUnchanged DEF NoIdleWork
  <2>1. CASE UNCHANGED <<wpc, permit, mpc>>
    BY <2>1
  <2>2. CASE Start \/ Crash \/ Maintenance
    BY <2>2 DEF Start, Crash, Maintenance, BeginFlush, ListDirectory, ReadVideo,
       WriteDirectory, ListUnprobed, ProbeCandidate, NotifyWorker, workerVars
  <2>3. CASE Worker
    BY <2>3 DEF Worker, TakeJob, FindNothing, BeginWait, Wake, StartFfmpeg,
       FinishFfmpeg, DerivationFails, RenameIntoPlace, RecordSidecar, RecordFailure,
       maintVars
  <2> QED
    BY <2>1, <2>2, <2>3 DEF Next, Others, PutMaster, DeleteMaster, PutInfo, DeleteSidecar,
       Change, workerVars, vars
<1>2. CASE WriteDirectory \/ ProbeCandidate
  BY <1>2 DEF WriteDirectory, ProbeCandidate, NoIdleWork
<1>3. CASE RecordSidecar \/ RecordFailure
  BY <1>3 DEF RecordSidecar, RecordFailure, NoIdleWork
<1> QED
  BY <1>1, <1>2, <1>3 DEF Next, Others, PutMaster, DeleteMaster, PutInfo, DeleteSidecar,
     Change, Start, Crash, Maintenance, BeginFlush, ListDirectory, ReadVideo,
     ListUnprobed, NotifyWorker, Worker, TakeJob, FindNothing, BeginWait, Wake,
     StartFfmpeg, FinishFfmpeg, DerivationFails, RenameIntoPlace, indexVars, vars

(* While the database answers, the worker never waits without a permit for
   work that nobody is going to tell it of. *)
THEOREM WakeIsNeverLost == ~ DbMayFail => (Spec => []NoIdleWork)
<1> SUFFICES ASSUME ~ DbMayFail
             PROVE  Spec => []NoIdleWork
  OBVIOUS
<1>1. Init => NoIdleWork
  BY DEF Init, NoIdleWork
<1>2. NoIdleWork /\ [Next]_vars => NoIdleWork'
  BY WakeStep
<1> QED
  BY <1>1, <1>2, PTL DEF Spec

-------------------------------------------------------------------------------
(* The refinement: the worker, the maintenance beside it and the changing
   directory implement Conversion. *)

(* The worker is down exactly when the process is, and it announces the video
   of the job in hand, and nothing without one. *)
JobAnnounced ==
  /\ mpc = "down" <=> wpc = "down"
  /\ wstatus = IF wpc \in {"down", "query", "rest", "wait"} THEN Idle ELSE job.video

LEMMA AnnouncedInit == Init => JobAnnounced
  BY DEF Init, JobAnnounced

LEMMA AnnouncedStep == TypeOK /\ JobAnnounced /\ [Next]_vars => JobAnnounced'
<1> SUFFICES ASSUME TypeOK, JobAnnounced, [Next]_vars
             PROVE  JobAnnounced'
  OBVIOUS
<1> USE DEF JobAnnounced
<1>1. CASE UNCHANGED <<mpc, workerVars>>
  BY <1>1 DEF workerVars
<1>2. CASE Start \/ Crash
  BY <1>2 DEF Start, Crash
<1>3. CASE Maintenance
  BY <1>3 DEF Maintenance, BeginFlush, ListDirectory, ReadVideo, WriteDirectory,
     ListUnprobed, ProbeCandidate, NotifyWorker, workerVars
<1>4. CASE TakeJob \/ FindNothing \/ BeginWait \/ Wake \/ StartFfmpeg \/ FinishFfmpeg
           \/ DerivationFails \/ RenameIntoPlace \/ RecordFailure
  BY <1>4 DEF TakeJob, FindNothing, BeginWait, Wake, StartFfmpeg, FinishFfmpeg,
     DerivationFails, RenameIntoPlace, RecordFailure, maintVars
<1>5. CASE RecordSidecar
  <2>1. job' = job \/ job' = [job EXCEPT !.kind = "thumb"]
    BY <1>5 DEF RecordSidecar
  <2>2. job'.video = job.video \/ wpc' = "query"
    BY <1>5, <2>1 DEF RecordSidecar, TypeOK, Job
  <2> QED
    BY <1>5, <2>2 DEF RecordSidecar, maintVars
<1> QED
  BY <1>1, <1>2, <1>3, <1>4, <1>5 DEF Next, Others, PutMaster, DeleteMaster, PutInfo,
     DeleteSidecar, Change, Worker, vars, workerVars
-------------------------------------------------------------------------------
(* The initial states, and what each step is to a reader. *)

LEMMA PromiseInit == Init => Promise!Init
  BY DEF Init, Promise!Init, Mappings, draft, Sidecar

ShownVars == <<master, done, wstatus, wpc, job, part>>

LEMMA DraftUnchanged ==
  ASSUME UNCHANGED <<wpc, job, part>>
  PROVE  draft' = draft
  BY DEF draft, InHand

LEMMA EditStep == TypeOK /\ TypeOK' /\ Others => [Promise!Next]_(Promise!convVars)
<1> SUFFICES ASSUME TypeOK, TypeOK', Others
             PROVE  [Promise!Next]_(Promise!convVars)
  OBVIOUS
<1>1. UNCHANGED <<wpc, job, part, wstatus>>
  BY DEF Others, PutMaster, DeleteMaster, PutInfo, DeleteSidecar, Change, workerVars
<1>2. UNCHANGED <<wstatus, draft>>
  BY <1>1, DraftUnchanged
<1>3. CASE UNCHANGED done
  <2>1. master' \in UNION {[D -> Content] : D \in SUBSET Master}
    BY DEF TypeOK, IsMapping
  <2>2. Promise!Edit
    BY <1>2, <1>3, <2>1 DEF Promise!Edit
  <2> QED
    BY <2>2 DEF Promise!Next
<1>4. CASE \E s \in Sidecar : DeleteSidecar(s)
  <2>1. PICK s \in Sidecar : DeleteSidecar(s)
    BY <1>4
  <2>2. Promise!Withdraw(s)
    BY <1>2, <2>1 DEF DeleteSidecar, Promise!Withdraw
  <2>3. s \in DOMAIN done
    BY DEF TypeOK
  <2> QED
    BY <2>2, <2>3 DEF Promise!Next
<1> QED
  BY <1>3, <1>4 DEF Others, PutMaster, DeleteMaster, PutInfo

LEMMA CrashStep == Crash => Promise!Crash
  BY DEF Crash, Promise!Crash, draft, dirVars

LEMMA OwnStep ==
  IInv /\ JobAnnounced /\ Worker => [Promise!Next]_(Promise!convVars)
<1> SUFFICES ASSUME IInv, JobAnnounced, Worker
             PROVE  [Promise!Next]_(Promise!convVars)
  OBVIOUS
<1> USE DEF JobAnnounced
<1>1. CASE TakeJob
  <2>1. PICK j \in Jobs : wstatus' = j.video
    BY <1>1 DEF TakeJob
  <2>2. j.video \in Master
    BY JobsType DEF IInv, Job
  <2>3. Promise!Announce(j.video)
    BY <1>1, <2>1 DEF TakeJob, Promise!Announce, draft, dirVars
  <2> QED
    BY <2>2, <2>3 DEF Promise!Next
<1>2. CASE FindNothing \/ BeginWait \/ Wake
  BY <1>2 DEF FindNothing, BeginWait, Wake, draft, dirVars, Promise!convVars
<1>3. CASE StartFfmpeg
  <2>1. job \in Job /\ InHand \in Sidecar /\ wstatus = job.video
    BY <1>3, InHandType DEF StartFfmpeg, IInv, TypeOK
  <2>2. CASE wpc' = "encode"
    <3>1. part'[InHand] = [of |-> master[job.video], whole |-> FALSE]
      BY <1>3, <2>1, <2>2 DEF StartFfmpeg, IInv, TypeOK
    <3>2. InHand' = InHand
      BY <1>3 DEF StartFfmpeg, InHand
    <3>3. draft' = {[kind |-> job.kind, of |-> master[job.video]]}
      BY <1>3, <2>2, <3>1, <3>2 DEF StartFfmpeg, draft
    <3>4. Promise!Begin(job.kind)
      BY <1>3, <2>1, <2>2, <3>3 DEF StartFfmpeg, Promise!Begin, draft
    <3> QED
      BY <2>1, <3>4 DEF Promise!Next, Job
  <2>3. CASE wpc' = "fail"
    BY <1>3, <2>3 DEF StartFfmpeg, draft, Promise!convVars
  <2> QED
    BY <1>3, <2>2, <2>3 DEF StartFfmpeg
<1>4. CASE FinishFfmpeg
  <2>1. job \in Job /\ InHand \in Sidecar /\ InHand' = InHand
    BY <1>4, InHandType DEF FinishFfmpeg, IInv, TypeOK, InHand
  <2>2. part'[InHand] = [part[InHand] EXCEPT !.whole = TRUE]
    BY <1>4, <2>1 DEF FinishFfmpeg, IInv, TypeOK
  <2>3. part'[InHand].of = part[InHand].of
    BY <1>4, <2>2 DEF FinishFfmpeg, IInv, Staged, File
  <2>4. draft' = draft
    BY <1>4, <2>1, <2>3 DEF FinishFfmpeg, draft
  <2> QED
    BY <1>4, <2>4 DEF FinishFfmpeg, Promise!convVars
<1>5. CASE DerivationFails
  <2>1. Promise!Discard
    BY <1>5 DEF DerivationFails, Promise!Discard, draft, dirVars
  <2> QED
    BY <2>1 DEF Promise!Next
<1>6. CASE RenameIntoPlace
  <2>1. part[InHand] = Promise!Whole(part[InHand].of)
    BY <1>6 DEF RenameIntoPlace, IInv, Staged, File, Promise!Whole
  <2>2. draft = {[kind |-> job.kind, of |-> part[InHand].of]} /\ draft' = {}
    BY <1>6 DEF RenameIntoPlace, draft
  <2>3. InHand = <<job.kind, StemOf[wstatus]>>
    BY <1>6 DEF RenameIntoPlace, InHand
  <2>4. done' = [done EXCEPT ![InHand] = part[InHand]]
    BY <1>6 DEF RenameIntoPlace
  <2>5. \E d \in draft :
          done' = [done EXCEPT ![<<d.kind, StemOf[wstatus]>>] = Promise!Whole(d.of)]
    <3> DEFINE d == [kind |-> job.kind, of |-> part[InHand].of]
    <3>1. d \in draft
      BY <2>2
    <3>2. <<d.kind, StemOf[wstatus]>> = InHand /\ Promise!Whole(d.of) = part[InHand]
      BY <2>1, <2>3
    <3> QED
      BY <2>4, <3>1, <3>2
  <2>6. Promise!Publish
    BY <1>6, <2>2, <2>5 DEF RenameIntoPlace, Promise!Publish
  <2> QED
    BY <2>6 DEF Promise!Next
<1>7. CASE RecordSidecar \/ RecordFailure
  <2>1. UNCHANGED <<master, done>> /\ draft = {} /\ draft' = {}
    BY <1>7 DEF RecordSidecar, RecordFailure, draft, dirVars
  <2>2. CASE UNCHANGED wstatus
    BY <2>1, <2>2 DEF Promise!convVars
  <2>3. CASE wstatus' = Idle
    <3>1. Promise!Conclude
      BY <2>1, <2>3 DEF Promise!Conclude
    <3> QED
      BY <3>1 DEF Promise!Next
  <2> QED
    BY <1>7, <2>2, <2>3 DEF RecordSidecar, RecordFailure
<1> QED
  BY <1>1, <1>2, <1>3, <1>4, <1>5, <1>6, <1>7 DEF Worker

LEMMA PromiseStep ==
  IInv /\ IInv' /\ JobAnnounced /\ [Next]_vars => [Promise!Next]_(Promise!convVars)
<1> SUFFICES ASSUME IInv, IInv', JobAnnounced, [Next]_vars
             PROVE  [Promise!Next]_(Promise!convVars)
  OBVIOUS
<1>1. CASE UNCHANGED ShownVars
  BY <1>1, DraftUnchanged DEF ShownVars, Promise!convVars
<1>2. CASE Start
  BY <1>2 DEF Start, JobAnnounced, draft, dirVars, Promise!convVars
<1>3. CASE Maintenance
  <2>1. UNCHANGED <<dirVars, workerVars>>
    BY <1>3 DEF Maintenance, BeginFlush, ListDirectory, ReadVideo, WriteDirectory,
       ListUnprobed, ProbeCandidate, NotifyWorker
  <2> QED
    BY <1>1, <2>1 DEF ShownVars, dirVars, workerVars
<1> QED
  BY <1>1, <1>2, <1>3, EditStep, CrashStep, OwnStep
     DEF Next, IInv, Promise!Next, ShownVars, vars

(* The worker implements its promise, for every value of the constants and
   whatever fails, crashes or changes: each finished sidecar appears whole and at
   once, made from what its announced master held when ffmpeg opened it. *)
THEOREM ImplementsConversion == Spec => ConvertsAsPromised
<1>1. Spec => []JobAnnounced
  BY TypeCorrect, AnnouncedInit, AnnouncedStep, PTL DEF Spec
<1> QED
  BY <1>1, InvariantHolds, PromiseInit, PromiseStep, PTL
     DEF Spec, ConvertsAsPromised, Promise!Spec
===============================================================================

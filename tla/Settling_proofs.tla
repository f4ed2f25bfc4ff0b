--------------------------- MODULE Settling_proofs ---------------------------
(***************************************************************************)
(* What Derivation comes to when its tasks run dry, for every directory,   *)
(* every content and any number of changes and restarts: the rows are      *)
(* those of the files that are there, their codecs are those of the files, *)
(* and no video is left waiting.                                           *)
(***************************************************************************)
EXTENDS Derivation_proofs

\* While maintenance passes over the directory nothing it has read goes stale
\* without a notice of it: the parts of the argument, phase by phase.
Current(record, m) ==
  /\ record.stamp = StampOf[master[m]]
  /\ record.compat = find_sidecar("compat", m)
  /\ record.thumb = find_sidecar("thumb", m)

Mirrors(records) == \A m \in DOMAIN records : Current(records[m], m)

\* What is read so far, and still to be read, is what is there.
ReadingMirrors ==
  mpc = "read" /\ ~ dirty =>
    unread \cup DOMAIN listing = DOMAIN master /\ Mirrors(listing)

WrittenMirrors ==
  mpc \in {"candidates", "probe", "idle"} /\ ~ dirty =>
    DOMAIN rows = DOMAIN master /\ Mirrors(rows)

\* The worker records a file that is there.
RecordsWhatIsThere == wpc = "record" => done[InHand] # NoFile

MirrorInv == ReadingMirrors /\ WrittenMirrors /\ RecordsWhatIsThere

LEMMA MirrorInit == Init => MirrorInv
  BY DEF Init, MirrorInv, ReadingMirrors, WrittenMirrors, RecordsWhatIsThere

\* A change is noticed by whoever runs.
LEMMA MirrorOthers ==
  ASSUME IInv, MirrorInv, ~ SidecarsMayGo, Others
  PROVE  MirrorInv'
<1>1. mpc' = mpc /\ dirty' = (mpc # "down") /\ wpc' = wpc /\ job' = job
  BY DEF Others, PutMaster, DeleteMaster, PutInfo, DeleteSidecar, Change, Notify,
     workerVars
<1>2. done' = done
  BY DEF Others, PutMaster, DeleteMaster, PutInfo, DeleteSidecar
<1> QED
  BY <1>1, <1>2 DEF MirrorInv, ReadingMirrors, WrittenMirrors, RecordsWhatIsThere, InHand

LEMMA MirrorLife ==
  ASSUME MirrorInv, Start \/ Crash
  PROVE  MirrorInv'
  BY DEF Start, Crash, MirrorInv, ReadingMirrors, WrittenMirrors, RecordsWhatIsThere

LEMMA MirrorMaintenance ==
  ASSUME IInv, MirrorInv, ~ DbMayFail, Maintenance
  PROVE  MirrorInv'
<1> USE DEF MirrorInv
<1>1. done' = done /\ master' = master /\ wpc' = wpc /\ job' = job
  BY DEF Maintenance, BeginFlush, ListDirectory, ReadVideo, WriteDirectory,
     ListUnprobed, ProbeCandidate, NotifyWorker, dirVars, workerVars
<1>2. RecordsWhatIsThere'
  BY <1>1 DEF RecordsWhatIsThere, InHand
<1>3. CASE BeginFlush
  BY <1>2, <1>3 DEF BeginFlush, ReadingMirrors, WrittenMirrors
<1>4. CASE ListDirectory
  <2>1. DOMAIN listing' = {} /\ unread' = DOMAIN master /\ mpc' = "read"
    BY <1>4 DEF ListDirectory, NoEntries
  <2> QED
    BY <1>1, <1>2, <2>1 DEF ReadingMirrors, WrittenMirrors, Mirrors
<1>5. CASE ReadVideo
  <2>1. mpc = "read" /\ mpc' = "read" /\ dirty' = dirty
    BY <1>5 DEF ReadVideo
  <2> SUFFICES ASSUME ~ dirty
               PROVE  ReadingMirrors'
    BY <1>2, <2>1 DEF ReadingMirrors, WrittenMirrors
  <2>2. PICK m \in unread :
          /\ unread' = unread \ {m}
          /\ listing' = IF m \in DOMAIN master THEN Put(listing, m, build_record(m))
                        ELSE listing
    BY <1>5 DEF ReadVideo
  <2>3. m \in DOMAIN master /\ unread \cup DOMAIN listing = DOMAIN master /\ Mirrors(listing)
    BY <2>1 DEF ReadingMirrors
  <2>4. /\ DOMAIN listing' = DOMAIN listing \cup {m}
        /\ listing'[m] = build_record(m)
        /\ \A k \in DOMAIN listing : k # m => listing'[k] = listing[k]
    BY <2>2, <2>3 DEF Put
  <2>5. Current(build_record(m), m)
    BY DEF Current, build_record
  <2>6. \A k \in DOMAIN listing' : Current(listing'[k], k)
    BY <2>3, <2>4, <2>5 DEF Mirrors
  <2>7. Mirrors(listing)'
    BY <1>1, <2>6 DEF Mirrors, Current, find_sidecar
  <2> QED
    BY <1>1, <2>2, <2>3, <2>4, <2>7 DEF ReadingMirrors
<1>6. CASE WriteDirectory
  <2>1. /\ mpc = "read" /\ mpc' = "candidates" /\ dirty' = dirty /\ unread = {}
        /\ rows' = [m \in DOMAIN listing |-> Upserted(m, listing[m])]
    BY <1>6 DEF WriteDirectory
  <2> SUFFICES ASSUME ~ dirty
               PROVE  WrittenMirrors'
    BY <1>2, <2>1 DEF ReadingMirrors, WrittenMirrors
  <2>2. DOMAIN listing = DOMAIN master /\ Mirrors(listing)
    BY <2>1 DEF ReadingMirrors
  <2>3. ASSUME NEW m \in DOMAIN listing
        PROVE  Current(rows'[m], m)
    <3>1. listing[m] \in Row
      BY DEF IInv, TypeOK, IsMapping
    <3>2. /\ Upserted(m, listing[m]).stamp = listing[m].stamp
          /\ Upserted(m, listing[m]).compat = listing[m].compat
          /\ Upserted(m, listing[m]).thumb = listing[m].thumb
      BY <3>1 DEF Upserted, Row
    <3> QED
      BY <2>1, <2>2, <3>2 DEF Mirrors, Current
  <2> QED
    BY <1>1, <2>1, <2>2, <2>3 DEF WrittenMirrors, Mirrors, Current, find_sidecar
<1>7. CASE ListUnprobed \/ NotifyWorker
  BY <1>1, <1>2, <1>7 DEF ListUnprobed, NotifyWorker, indexVars, ReadingMirrors,
     WrittenMirrors, Mirrors, Current, find_sidecar
<1>8. CASE ProbeCandidate
  <2>1. mpc = "probe" /\ mpc' = "probe" /\ dirty' = dirty
    BY <1>8 DEF ProbeCandidate
  <2>2. /\ DOMAIN rows' = DOMAIN rows
        /\ \A m \in DOMAIN rows : /\ rows'[m].stamp = rows[m].stamp
                                  /\ rows'[m].compat = rows[m].compat
                                  /\ rows'[m].thumb = rows[m].thumb
    <3>1. \A m \in DOMAIN rows : rows[m] \in Row
      BY DEF IInv, TypeOK, IsMapping
    <3> QED
      BY <1>8, <3>1 DEF ProbeCandidate, record_probe, Row
  <2> QED
    BY <1>1, <1>2, <2>1, <2>2 DEF ReadingMirrors, WrittenMirrors, Mirrors, Current,
       find_sidecar
<1> QED
  BY <1>3, <1>4, <1>5, <1>6, <1>7, <1>8 DEF Maintenance

\* The worker's rename is noticed like any change; what it records is there.
LEMMA MirrorWorker ==
  ASSUME IInv, MirrorInv, Worker
  PROVE  MirrorInv'
<1> USE DEF MirrorInv
<1>1. CASE RenameIntoPlace
  <2>1. /\ mpc' = mpc /\ dirty' = (mpc # "down") /\ job' = job
        /\ done' = [done EXCEPT ![InHand] = part[InHand]]
    BY <1>1 DEF RenameIntoPlace, Notify
  <2>2. InHand \in Sidecar /\ part[InHand] \in File /\ part[InHand].whole
    BY <1>1, InHandType DEF RenameIntoPlace, IInv, Staged, TypeOK
  <2>3. done'[InHand] # NoFile
    BY <2>1, <2>2 DEF IInv, TypeOK, NoFile
  <2> QED
    BY <2>1, <2>3 DEF ReadingMirrors, WrittenMirrors, RecordsWhatIsThere, InHand
<1>2. CASE RecordSidecar
  <2>1. /\ wpc = "record" /\ wpc' # "record" /\ mpc' = mpc /\ dirty' = dirty
        /\ UNCHANGED <<master, done, listing, unread>>
    BY <1>2 DEF RecordSidecar, dirVars, maintVars
  <2>2. job.video \in Master /\ job.kind \in Kind /\ done[<<job.kind, StemOf[job.video]>>] # NoFile
    BY <2>1 DEF RecordsWhatIsThere, InHand, IInv, TypeOK, Job
  <2>3. \/ rows' = rows
        \/ job.video \in DOMAIN rows /\ job.kind = "compat"
             /\ rows' = [rows EXCEPT ![job.video].compat = TRUE]
        \/ job.video \in DOMAIN rows /\ job.kind = "thumb"
             /\ rows' = [rows EXCEPT ![job.video].thumb = TRUE]
    BY <1>2, <2>2 DEF RecordSidecar, Kind
  <2>4. \A m \in DOMAIN rows : rows[m] \in Row
    BY DEF IInv, TypeOK, IsMapping
  <2>5. /\ DOMAIN rows' = DOMAIN rows
        /\ \A m \in DOMAIN rows :
             /\ rows'[m].stamp = rows[m].stamp
             /\ rows'[m].compat = rows[m].compat
                  \/ (m = job.video /\ job.kind = "compat" /\ rows'[m].compat = TRUE)
             /\ rows'[m].thumb = rows[m].thumb
                  \/ (m = job.video /\ job.kind = "thumb" /\ rows'[m].thumb = TRUE)
    <3>1. CASE rows' = rows
      BY <3>1
    <3>2. CASE job.kind = "compat" /\ rows' = [rows EXCEPT ![job.video].compat = TRUE]
      BY <2>4, <3>2 DEF Row
    <3>3. CASE job.kind = "thumb" /\ rows' = [rows EXCEPT ![job.video].thumb = TRUE]
      BY <2>4, <3>3 DEF Row
    <3> QED
      BY <2>3, <3>1, <3>2, <3>3
  <2>6. Mirrors(rows) => Mirrors(rows)'
    <3> SUFFICES ASSUME Mirrors(rows), NEW m \in DOMAIN rows
                 PROVE  Current(rows[m], m)'
      BY <2>5 DEF Mirrors
    <3>1. Current(rows[m], m)
      BY DEF Mirrors
    <3>2. rows'[m].stamp = StampOf[master'[m]]
      BY <2>1, <2>5, <3>1 DEF Current
    <3>3. rows'[m].compat = find_sidecar("compat", m)'
      BY <2>1, <2>2, <2>5, <3>1 DEF Current, find_sidecar
    <3>4. rows'[m].thumb = find_sidecar("thumb", m)'
      BY <2>1, <2>2, <2>5, <3>1 DEF Current, find_sidecar
    <3> QED
      BY <3>2, <3>3, <3>4 DEF Current
  <2> QED
    BY <2>1, <2>5, <2>6 DEF ReadingMirrors, WrittenMirrors, RecordsWhatIsThere, Mirrors,
       Current, find_sidecar
<1>3. CASE ~ (RenameIntoPlace \/ RecordSidecar)
  BY <1>3 DEF Worker, TakeJob, FindNothing, BeginWait, Wake, StartFfmpeg, FinishFfmpeg,
     DerivationFails, RecordFailure, dirVars, indexVars, maintVars, ReadingMirrors,
     WrittenMirrors, RecordsWhatIsThere, InHand, Mirrors, Current, find_sidecar
<1> QED
  BY <1>1, <1>2, <1>3

LEMMA MirrorStep ==
  ASSUME IInv, MirrorInv, ~ DbMayFail, ~ SidecarsMayGo, [Next]_vars
  PROVE  MirrorInv'
<1>1. CASE UNCHANGED vars
  BY <1>1 DEF vars, MirrorInv, ReadingMirrors, WrittenMirrors, RecordsWhatIsThere, InHand,
     Mirrors, Current, find_sidecar
<1> QED
  BY <1>1, MirrorOthers, MirrorLife, MirrorMaintenance, MirrorWorker DEF Next

(* Once maintenance has caught up the rows are those of the files that are
   there, although the worker writes rows and files while maintenance reads
   them, as long as the database answers and nobody takes a sidecar away. *)
THEOREM CaughtUpRowsMirror ==
  ~ DbMayFail /\ ~ SidecarsMayGo => (Spec => []RowsMirrorSidecars)
<1> SUFFICES ASSUME ~ DbMayFail, ~ SidecarsMayGo
             PROVE  Spec => []RowsMirrorSidecars
  OBVIOUS
<1>1. IInv /\ MirrorInv /\ [Next]_vars => MirrorInv'
  BY MirrorStep
<1>2. MirrorInv => RowsMirrorSidecars
  BY DEF MirrorInv, WrittenMirrors, Mirrors, Current, RowsMirrorSidecars, CaughtUp
<1> QED
  BY <1>1, <1>2, MirrorInit, InvariantHolds, PTL DEF Spec

-------------------------------------------------------------------------------
(* What is known of a file is known of the file that is there. *)

\* A size and mtime that nothing in the index refers to is not that of other
\* content: what is cached for a file's stamp is what ffprobe makes of it.
CacheIsOfTheMaster ==
  \A m \in DOMAIN master \cap DOMAIN cache :
    cache[m].stamp = StampOf[master[m]] => cache[m].facts = ProbeOf[master[m]]

LEMMA CacheStep ==
  ASSUME TypeOK, CacheIsOfTheMaster, ~ MayReturn, [Next]_vars
  PROVE  CacheIsOfTheMaster'
<1> USE DEF CacheIsOfTheMaster
<1>1. ASSUME NEW k \in Master, NEW c \in Content, PutMaster(k, c)
      PROVE  CacheIsOfTheMaster'
  <2>1. cache' = cache /\ master' = Put(master, k, c) /\ StampOf[c] \notin Known(k)
    BY <1>1 DEF PutMaster, Change, indexVars
  <2>2. k \in DOMAIN cache => cache[k].stamp # StampOf[c]
    BY <2>1 DEF Known
  <2> QED
    BY <2>1, <2>2 DEF Put
<1>2. ASSUME NEW k \in Master, DeleteMaster(k)
      PROVE  CacheIsOfTheMaster'
  BY <1>2 DEF DeleteMaster, Change, indexVars, Without
<1>3. CASE ProbeCandidate
  <2>1. UNCHANGED master
    BY <1>3 DEF ProbeCandidate, dirVars
  <2>2. CASE UNCHANGED cache
    BY <2>1, <2>2
  <2>3. ASSUME NEW k \in DOMAIN unprobed, NEW facts, record_probe(k, facts),
               k \in DOMAIN master /\ unprobed[k] = StampOf[master[k]]
                 => facts = ProbeOf[master[k]]
        PROVE  CacheIsOfTheMaster'
    <3>1. cache' = Put(cache, k, [stamp |-> unprobed[k], facts |-> facts])
      BY <2>3 DEF record_probe
    <3> QED
      BY <2>1, <2>3, <3>1 DEF Put
  <2>4. PICK k \in DOMAIN unprobed :
          \/ Cached(k) /\ record_probe(k, cache[k].facts)
          \/ record_probe(k, FfprobeAnswer(k))
          \/ UNCHANGED cache
    BY <1>3 DEF ProbeCandidate
  <2>5. CASE Cached(k) /\ record_probe(k, cache[k].facts)
    BY <2>3, <2>5 DEF Cached
  <2>6. CASE record_probe(k, FfprobeAnswer(k))
    BY <2>3, <2>6 DEF FfprobeAnswer
  <2> QED
    BY <2>2, <2>4, <2>5, <2>6
<1>4. CASE UNCHANGED <<master, cache>>
  BY <1>4
<1> QED
  BY <1>1, <1>2, <1>3, <1>4 DEF Next, Others, PutInfo, DeleteSidecar, Change, Start, Crash,
     Maintenance, BeginFlush, ListDirectory, ReadVideo, WriteDirectory, ListUnprobed,
     NotifyWorker, Worker, TakeJob, FindNothing, BeginWait, Wake, StartFfmpeg, FinishFfmpeg,
     DerivationFails, RenameIntoPlace, RecordSidecar, RecordFailure, dirVars, indexVars, vars

(* Once maintenance has caught up, codecs that came from ffprobe are those of
   the file that is there, although it may be replaced between its stat, its
   probe and the recording: a probe of newer content is recorded for the older
   content's size and mtime, and dropped when the rows catch up. *)
THEOREM ProbesAreOfTheFile ==
  ~ DbMayFail /\ ~ SidecarsMayGo /\ ~ MayReturn => (Spec => []FactsAreOfTheMaster)
<1> SUFFICES ASSUME ~ DbMayFail, ~ SidecarsMayGo, ~ MayReturn
             PROVE  Spec => []FactsAreOfTheMaster
  OBVIOUS
<1>1. Init => CacheIsOfTheMaster
  BY DEF Init, CacheIsOfTheMaster, NoEntries
<1>2. TypeOK /\ CacheIsOfTheMaster /\ [Next]_vars => CacheIsOfTheMaster'
  BY CacheStep
<1>3. Spec => []RowsMirrorSidecars
  BY CaughtUpRowsMirror
<1>4. ProbedFactsKeyed /\ CacheIsOfTheMaster /\ RowsMirrorSidecars => FactsAreOfTheMaster
  <2> SUFFICES ASSUME ProbedFactsKeyed, CacheIsOfTheMaster, RowsMirrorSidecars, CaughtUp,
                      NEW m \in DOMAIN rows \cap DOMAIN master, rows[m].source = "ffprobe"
               PROVE  rows[m].facts = ProbeOf[master[m]]
    BY DEF FactsAreOfTheMaster
  <2> m \in DOMAIN rows /\ m \in DOMAIN master
    OBVIOUS
  <2>1. m \in DOMAIN cache /\ cache[m] = [stamp |-> rows[m].stamp, facts |-> rows[m].facts]
    BY Zenon DEF ProbedFactsKeyed
  <2>2. cache[m].stamp = rows[m].stamp /\ cache[m].facts = rows[m].facts
    BY <2>1
  <2>3. rows[m].stamp = StampOf[master[m]]
    BY DEF RowsMirrorSidecars
  <2> QED
    BY <2>1, <2>2, <2>3 DEF CacheIsOfTheMaster
<1> QED
  BY <1>1, <1>2, <1>3, <1>4, TypeCorrect, FactsFollowContent, PTL DEF Spec

-------------------------------------------------------------------------------
(* Nothing is left waiting. *)

\* A row without codecs is one the probe pass has before it, and none is left
\* when the pass has ended.
ProbePassTakesAll ==
  /\ mpc = "probe" =>
       \A m \in DOMAIN rows : rows[m].source = "none" => m \in DOMAIN unprobed
  /\ mpc = "idle" => \A m \in DOMAIN rows : rows[m].source # "none"

\* Without a job in hand none is announced, least of all by a dead process.
IdleIsAnnounced ==
  /\ mpc = "down" => wpc = "down"
  /\ wpc \in {"down", "query", "rest", "wait"} => wstatus = Idle

PassInv == ProbePassTakesAll /\ IdleIsAnnounced

LEMMA PassStep ==
  ASSUME IInv, PassInv, ~ DbMayFail, ~ ProbeMayFail, [Next]_vars
  PROVE  PassInv'
<1>1. IdleIsAnnounced'
  <2> USE DEF PassInv, IdleIsAnnounced
  <2>1. CASE UNCHANGED <<mpc, wpc, wstatus>>
    BY <2>1
  <2>2. CASE Start \/ Crash
    BY <2>2 DEF Start, Crash
  <2>3. CASE Maintenance
    BY <2>3 DEF Maintenance, BeginFlush, ListDirectory, ReadVideo, WriteDirectory,
       ListUnprobed, ProbeCandidate, NotifyWorker, workerVars
  <2>4. CASE Worker
    BY <2>4 DEF Worker, TakeJob, FindNothing, BeginWait, Wake, StartFfmpeg, FinishFfmpeg,
       DerivationFails, RenameIntoPlace, RecordSidecar, RecordFailure, maintVars
  <2> QED
    BY <2>1, <2>2, <2>3, <2>4 DEF Next, Others, PutMaster, DeleteMaster, PutInfo,
       DeleteSidecar, Change, workerVars, vars
<1> USE DEF PassInv, ProbePassTakesAll
<1>2. CASE WriteDirectory \/ ListDirectory \/ BeginFlush \/ Start \/ Crash
  BY <1>1, <1>2 DEF WriteDirectory, ListDirectory, BeginFlush, Start, Crash
<1>3. CASE ListUnprobed \/ NotifyWorker
  BY <1>1, <1>3 DEF ListUnprobed, NotifyWorker, indexVars
<1>4. CASE ProbeCandidate
  <2>1. PICK m \in DOMAIN unprobed :
          /\ unprobed' = Without(unprobed, m)
          /\ \E facts : record_probe(m, facts)
    BY <1>4 DEF ProbeCandidate
  <2>2. \A k \in DOMAIN rows : rows[k] \in Row
    BY DEF IInv, TypeOK, IsMapping
  <2>3. /\ DOMAIN rows' = DOMAIN rows
        /\ m \in DOMAIN rows => rows'[m].source = "ffprobe"
        /\ \A k \in DOMAIN rows : k # m => rows'[k] = rows[k]
    BY <2>1, <2>2 DEF record_probe, Row
  <2>4. DOMAIN unprobed' = DOMAIN unprobed \ {m}
    BY <2>1 DEF Without
  <2> QED
    BY <1>1, <1>4, <2>3, <2>4 DEF ProbeCandidate
<1>5. CASE RecordSidecar
  <2>1. \A k \in DOMAIN rows : rows[k] \in Row
    BY DEF IInv, TypeOK, IsMapping
  <2>2. /\ DOMAIN rows' = DOMAIN rows
        /\ \A k \in DOMAIN rows : rows'[k].source = rows[k].source
    BY <1>5, <2>1 DEF RecordSidecar, Row
  <2> QED
    BY <1>1, <1>5, <2>2 DEF RecordSidecar, maintVars
<1>6. CASE UNCHANGED <<rows, unprobed, mpc>>
  BY <1>1, <1>6
<1> QED
  BY <1>2, <1>3, <1>4, <1>5, <1>6 DEF Next, Others, PutMaster, DeleteMaster, PutInfo,
     DeleteSidecar, Change, Maintenance, ReadVideo, Worker, TakeJob, FindNothing, BeginWait,
     Wake, StartFfmpeg, FinishFfmpeg, DerivationFails, RenameIntoPlace, RecordFailure,
     indexVars, maintVars, vars

LEMMA RestMeansServed ==
  ASSUME Idle \notin Master, TypeOK, NoIdleWork, PassInv
  PROVE  PendingIsServed
<1> SUFFICES ASSUME AtRest, NEW m \in DOMAIN rows
             PROVE  derivation_status(m) \notin {"pending", "processing"}
  BY DEF PendingIsServed
<1>1. Jobs = {} /\ wstatus # m /\ rows[m].source # "none"
  BY DEF AtRest, CaughtUp, NoIdleWork, PassInv, ProbePassTakesAll, IdleIsAnnounced, TypeOK,
     IsMapping
<1>2. rows[m].compat \in BOOLEAN
  BY DEF TypeOK, IsMapping, Row
<1>3. CASE rows[m].compat
  BY <1>1, <1>3 DEF derivation_status
<1>4. CASE ~ rows[m].compat /\ Failed(m)
  BY <1>1, <1>4 DEF derivation_status
<1>5. CASE ~ rows[m].compat /\ ~ Failed(m)
  <2>1. m \in Candidates
    BY <1>1, <1>5 DEF Candidates
  <2>2. Verdict(m).kind # "produce"
    BY <1>1, <2>1 DEF Jobs
  <2>3. Verdict(m) = decide(ContainerOf[m], rows[m].facts, FALSE)
    BY <1>2, <1>5 DEF Verdict
  <2>4. Verdict(m) \in {NotNeeded, Unplannable}
    BY <2>2, <2>3 DEF decide, Plan, NotNeeded, Unplannable
  <2> QED
    BY <1>1, <1>5, <2>3, <2>4 DEF derivation_status
<1> QED
  BY <1>2, <1>3, <1>4, <1>5

(* Once both tasks are at rest no video is pending and none is announced as
   being processed: the probe pass has left no row without codecs, the worker
   has taken every job, and no wake was lost on the way. *)
THEOREM NobodyIsLeftPending ==
  ~ DbMayFail /\ ~ ProbeMayFail /\ Idle \notin Master => (Spec => []PendingIsServed)
<1> SUFFICES ASSUME ~ DbMayFail, ~ ProbeMayFail, Idle \notin Master
             PROVE  Spec => []PendingIsServed
  OBVIOUS
<1>1. Init => PassInv
  BY DEF Init, PassInv, ProbePassTakesAll, IdleIsAnnounced
<1>2. IInv /\ PassInv /\ [Next]_vars => PassInv'
  BY PassStep
<1>3. Spec => []NoIdleWork
  BY WakeIsNeverLost
<1>4. TypeOK /\ NoIdleWork /\ PassInv => PendingIsServed
  BY RestMeansServed
<1> QED
  BY <1>1, <1>2, <1>3, <1>4, InvariantHolds, TypeCorrect, PTL DEF Spec

================================================================================

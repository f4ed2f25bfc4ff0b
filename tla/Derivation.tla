------------------------------ MODULE Derivation ------------------------------
(***************************************************************************)
(* The derivation worker (media/worker.rs) and the probe pass              *)
(* (media/probe.rs), beside the index maintenance that feeds them and a    *)
(* directory that changes under all of them.                               *)
(*                                                                         *)
(* Two tasks share the index and the directory.  Maintenance (modelled in  *)
(* full by Maintenance, here for one directory and with what it reads of   *)
(* each video) lists the directory, reads it video by video, writes it,    *)
(* runs the probe pass and notifies the worker.  The worker takes a job    *)
(* from the index, has ffmpeg write a .part file, renames it into place    *)
(* and records it.  Every await between two of these is a step boundary.   *)
(***************************************************************************)
EXTENDS CompatPlanner, Naturals

CONSTANTS
  Master,        \* the video files of the directory
  Stem,          \* their names without extension
  StemOf,        \* the stem of each master
  ContainerOf,   \* the extension of each master
  Content,       \* what a video file may contain
  StampOf,       \* the size and mtime a content comes with
  ProbeOf,       \* what ffprobe makes of a content (NoFacts: unprobeable)
  Info,          \* what an info.json may say (NoFacts: there is none)
  Muxers,        \* the file extensions ffmpeg has an output format for
  MaxChanges,    \* bound: how often others may change the directory
  MaxStarts,     \* bound: how often the process may be started
  MayReturn,     \* may a content come back that the index knows of?
  SidecarsMayGo, \* may others remove a compat copy or a thumbnail?
  ProbeMayFail,  \* may ffprobe fail transiently (spawn, timeout)?
  DeriveMayFail, \* may ffmpeg or the rename fail?
  DbMayFail      \* may a database call return an error?

Stamp == {StampOf[c] : c \in Content}
Kind == {"compat", "thumb"}

ASSUME TableAssumption ==
  /\ StemOf \in [Master -> Stem]
  /\ ContainerOf \in [Master -> STRING]
  /\ DOMAIN StampOf = Content
  /\ ProbeOf \in [Content -> Facts]
  /\ Info \subseteq Facts
  /\ NoFacts \in Info
ASSUME BoundAssumption == MaxChanges \in Nat /\ MaxStarts \in Nat
ASSUME SwitchAssumption ==
  {MayReturn, SidecarsMayGo, ProbeMayFail, DeriveMayFail, DbMayFail} \subseteq BOOLEAN

VARIABLES
  master,    \* directory: the content of each master there is
  info,      \* directory: what each stem's info.json says
  part,      \* directory: the .part file of each sidecar, or NoFile
  done,      \* directory: each finished sidecar, or NoFile
  changes,   \* history: how often others have changed the directory
  starts,    \* history: how often the process has been started
  rows,      \* index: the row of each master that has one
  cache,     \* index: probe_cache
  failures,  \* index: derivation_failures, the stamp each was recorded for
  dirty,     \* watcher: an event of this directory is waiting
  mpc,       \* where the maintenance task is
  unread,    \* collect_directory: the videos still to be read
  listing,   \* collect_directory: the records built so far
  unprobed,  \* probe_pending: the candidates left, with their stamps
  permit,    \* worker_wake holds a permit
  wpc,       \* where the worker is
  job,       \* the job in hand: [video, row, kind]
  wstatus    \* the worker's published status: the video being derived

dirVars == <<master, info, part, done>>
lifeVars == <<changes, starts>>
indexVars == <<rows, cache, failures>>
maintVars == <<dirty, mpc, unread, listing, unprobed>>
workerVars == <<wpc, job, wstatus>>
vars == <<master, info, part, done, changes, starts, rows, cache, failures,
          dirty, mpc, unread, listing, unprobed, permit, wpc, job, wstatus>>

Mappings(S, T) == UNION {[D -> T] : D \in SUBSET S}
IsMapping(f, S, T) == DOMAIN f \subseteq S /\ f \in [DOMAIN f -> T]
Put(f, key, value) ==
  [k \in DOMAIN f \cup {key} |-> IF k = key THEN value ELSE f[k]]
NoEntries == [k \in {} |-> k]
Without(f, key) == [k \in DOMAIN f \ {key} |-> f[k]]

\* A sidecar file: the content it was derived from, and whether it is all there.
File == [of : Content, whole : BOOLEAN]
NoFile == [whole |-> FALSE]
Sidecar == Kind \X Stem

Source == {"none", "info_json", "ffprobe"}
Row == [stamp : Stamp, facts : Facts, source : Source,
        thumb : BOOLEAN, compat : BOOLEAN]
CacheEntry == [stamp : Stamp, facts : Facts]
Job == [video : Master, row : Row, kind : Kind]
NoJob == [kind |-> "none"]
Idle == "idle"  \* no video is being derived

TypeOK ==
  /\ IsMapping(master, Master, Content)
  /\ info \in [Stem -> Info]
  /\ part \in [Sidecar -> File \cup {NoFile}]
  /\ done \in [Sidecar -> File \cup {NoFile}]
  /\ changes \in 0..MaxChanges
  /\ starts \in 0..MaxStarts
  /\ IsMapping(rows, Master, Row)
  /\ IsMapping(cache, Master, CacheEntry)
  /\ IsMapping(failures, Master, Stamp)
  /\ dirty \in BOOLEAN
  /\ mpc \in {"down", "idle", "list", "read", "candidates", "probe"}
  /\ unread \subseteq Master
  /\ IsMapping(listing, Master, Row)
  /\ IsMapping(unprobed, Master, Stamp)
  /\ permit \in BOOLEAN
  /\ wpc \in {"down", "query", "rest", "wait", "start", "encode", "rename",
              "record", "fail"}
  /\ wpc \in {"start", "encode", "rename", "record", "fail"} => job \in Job
  /\ wstatus \in Master \cup {Idle}

Init ==
  /\ master \in Mappings(Master, Content)
  /\ info \in [Stem -> Info]
  /\ part = [s \in Sidecar |-> NoFile]
  /\ done = [s \in Sidecar |-> NoFile]
  /\ changes = 0
  /\ starts = 0
  /\ rows = NoEntries
  /\ cache = NoEntries
  /\ failures = NoEntries
  /\ dirty = FALSE
  /\ mpc = "down"
  /\ unread = {}
  /\ listing = NoEntries
  /\ unprobed = NoEntries
  /\ permit = FALSE
  /\ wpc = "down"
  /\ job = NoJob
  /\ wstatus = Idle

-------------------------------------------------------------------------------
(* Others change the directory; a running watcher reports it. *)

Notify == dirty' = (mpc # "down")

Change ==
  /\ changes < MaxChanges
  /\ changes' = changes + 1
  /\ Notify
  /\ UNCHANGED <<starts, indexVars, mpc, unread, listing, unprobed, permit,
                 workerVars>>

\* The stamps of m that anything in the index or in hand refers to.
Known(m) ==
  {f[m].stamp : f \in {g \in {rows, listing, cache} : m \in DOMAIN g}}
    \cup {f[m] : f \in {g \in {unprobed, failures} : m \in DOMAIN g}}

PutMaster(m, c) ==
  /\ Change
  /\ MayReturn \/ StampOf[c] \notin Known(m)
  /\ m \in DOMAIN master => master[m] # c
  /\ master' = Put(master, m, c)
  /\ UNCHANGED <<info, part, done>>

DeleteMaster(m) ==
  /\ Change
  /\ m \in DOMAIN master
  /\ master' = Without(master, m)
  /\ UNCHANGED <<info, part, done>>

PutInfo(s, i) ==
  /\ Change
  /\ info[s] # i
  /\ info' = [info EXCEPT ![s] = i]
  /\ UNCHANGED <<master, part, done>>

DeleteSidecar(s) ==
  /\ SidecarsMayGo
  /\ Change
  /\ done[s] # NoFile
  /\ done' = [done EXCEPT ![s] = NoFile]
  /\ UNCHANGED <<master, info, part>>

Others ==
  \/ \E m \in Master : (\E c \in Content : PutMaster(m, c)) \/ DeleteMaster(m)
  \/ \E s \in Stem, i \in Info : PutInfo(s, i)
  \/ \E s \in Sidecar : DeleteSidecar(s)

-------------------------------------------------------------------------------
(* Process life.  The worker is spawned before maintenance and looks for work
   at once, in the index an earlier process left. *)

Start ==
  /\ mpc = "down"
  /\ starts < MaxStarts
  /\ starts' = starts + 1
  /\ mpc' = "list"
  /\ wpc' = "query"
  /\ UNCHANGED <<dirVars, changes, indexVars, dirty, unread, listing, unprobed,
                 permit, job, wstatus>>

Crash ==
  /\ mpc # "down"
  /\ mpc' = "down"
  /\ wpc' = "down"
  /\ dirty' = FALSE
  /\ unread' = {}
  /\ unprobed' = NoEntries
  /\ permit' = FALSE
  /\ wstatus' = Idle
  /\ UNCHANGED <<dirVars, lifeVars, indexVars, listing, job>>

-------------------------------------------------------------------------------
(* Maintenance: one directory, by the initial scan or by a flush. *)

BeginFlush ==
  /\ mpc = "idle"
  /\ dirty
  /\ dirty' = FALSE
  /\ mpc' = "list"
  /\ UNCHANGED <<dirVars, lifeVars, indexVars, unread, listing, unprobed,
                 permit, workerVars>>

ListDirectory ==
  /\ mpc = "list"
  /\ unread' = DOMAIN master
  /\ listing' = NoEntries
  /\ mpc' = "read"
  /\ UNCHANGED <<dirVars, lifeVars, indexVars, dirty, unprobed, permit,
                 workerVars>>

find_sidecar(kind, m) == done[<<kind, StemOf[m]>>] # NoFile

\* build_record: the stat, the info.json and the sidecars of one video.
build_record(m) ==
  LET described == info[StemOf[m]] IN
  [stamp  |-> StampOf[master[m]],
   facts  |-> described,
   source |-> IF described.vcodec # Absent \/ described.acodec # Absent
              THEN "info_json" ELSE "none",
   thumb  |-> find_sidecar("thumb", m),
   compat |-> find_sidecar("compat", m)]

\* A video that is gone by now fails its stat and is left out.
ReadVideo ==
  /\ mpc = "read"
  /\ \E m \in unread :
       /\ unread' = unread \ {m}
       /\ listing' = IF m \in DOMAIN master THEN Put(listing, m, build_record(m))
                     ELSE listing
  /\ UNCHANGED <<dirVars, lifeVars, indexVars, dirty, mpc, unprobed, permit,
                 workerVars>>

UpsertKeepsFacts(m, record) ==  \* mutant: known facts survive new content
  IF m \in DOMAIN rows /\ record.source = "none"
  THEN [record EXCEPT !.facts = rows[m].facts, !.source = rows[m].source]
  ELSE record

\* UPSERT_SQL: a record without codecs keeps those of the same content.
Upserted(m, record) ==
  IF m \in DOMAIN rows /\ record.source = "none" /\ record.stamp = rows[m].stamp
  THEN [record EXCEPT !.facts = rows[m].facts, !.source = rows[m].source]
  ELSE record

\* reconcile_directory, or the error that leaves the directory as it was.
WriteDirectory ==
  /\ mpc = "read"
  /\ unread = {}
  /\ \/ rows' = [m \in DOMAIN listing |-> Upserted(m, listing[m])]
     \/ DbMayFail /\ UNCHANGED rows
  /\ mpc' = "candidates"
  /\ UNCHANGED <<dirVars, lifeVars, cache, failures, dirty, unread, listing,
                 unprobed, permit, workerVars>>

-------------------------------------------------------------------------------
(* The probe pass, inside the maintenance task. *)

\* videos_needing_probe
ListUnprobed ==
  /\ mpc = "candidates"
  /\ \/ LET pending == {m \in DOMAIN rows : rows[m].source = "none"}
        IN unprobed' = [m \in pending |-> rows[m].stamp]
     \/ DbMayFail /\ unprobed' = NoEntries
  /\ mpc' = "probe"
  /\ UNCHANGED <<dirVars, lifeVars, indexVars, dirty, unread, listing, permit,
                 workerVars>>

CachedForPath(m) == m \in DOMAIN cache  \* mutant: the stamp is not compared

\* cached_probe
Cached(m) == m \in DOMAIN cache /\ cache[m].stamp = unprobed[m]

\* What ffprobe may answer: the facts of the file as it is now, and, when
\* there is none (a definitive error), none.
FfprobeAnswer(m) == IF m \in DOMAIN master THEN ProbeOf[master[m]] ELSE NoFacts

record_probe(m, facts) ==
  /\ cache' = Put(cache, m, [stamp |-> unprobed[m], facts |-> facts])
  /\ rows' = IF m \notin DOMAIN rows THEN rows
             ELSE [rows EXCEPT ![m].facts = facts, ![m].source = "ffprobe"]

\* probe_candidate.  A transient failure, or one of the database, leaves the
\* row to the next pass.
ProbeCandidate ==
  /\ mpc = "probe"
  /\ \E m \in DOMAIN unprobed :
       /\ unprobed' = Without(unprobed, m)
       /\ \/ Cached(m) /\ record_probe(m, cache[m].facts)
          \/ ~ Cached(m) /\ record_probe(m, FfprobeAnswer(m))
          \/ ~ Cached(m) /\ ProbeMayFail /\ UNCHANGED <<rows, cache>>
          \/ DbMayFail /\ UNCHANGED <<rows, cache>>
  /\ UNCHANGED <<dirVars, lifeVars, failures, dirty, mpc, unread, listing,
                 permit, workerVars>>

NotifyWaiters ==  \* mutant: notify_waiters, which stores no permit
  /\ mpc = "probe"
  /\ DOMAIN unprobed = {}
  /\ permit' = (wpc = "wait")
  /\ mpc' = "idle"
  /\ UNCHANGED <<dirVars, lifeVars, indexVars, dirty, unread, listing,
                 unprobed, workerVars>>

\* worker_wake.notify_one()
NotifyWorker ==
  /\ mpc = "probe"
  /\ DOMAIN unprobed = {}
  /\ permit' = TRUE
  /\ mpc' = "idle"
  /\ UNCHANGED <<dirVars, lifeVars, indexVars, dirty, unread, listing,
                 unprobed, workerVars>>

Maintenance ==
  \/ BeginFlush \/ ListDirectory \/ ReadVideo \/ WriteDirectory
  \/ ListUnprobed \/ ProbeCandidate \/ NotifyWorker

-------------------------------------------------------------------------------
(* The worker. *)

Failed(m) == m \in DOMAIN failures /\ failures[m] = rows[m].stamp

CandidatesWithoutThumb ==  \* mutant: only videos without a thumbnail
  {m \in DOMAIN rows : ~ rows[m].compat /\ ~ rows[m].thumb
                        /\ rows[m].source # "none" /\ ~ Failed(m)}

\* derivation_candidates
Candidates ==
  {m \in DOMAIN rows : ~ rows[m].compat /\ rows[m].source # "none" /\ ~ Failed(m)}

Verdict(m) == decide(ContainerOf[m], rows[m].facts, rows[m].compat)

JobFor(m, kind) == [video |-> m, row |-> rows[m], kind |-> kind]

\* What process_next makes of each.  It takes the first, by library and path.
Jobs ==
  {JobFor(m, "compat") : m \in {c \in Candidates : Verdict(c).kind = "produce"}}
    \cup {JobFor(m, "thumb") :
            m \in {c \in Candidates : Verdict(c) = NotNeeded /\ ~ rows[c].thumb}}

InHand == <<job.kind, StemOf[job.video]>>

TakeJob ==
  /\ wpc = "query"
  /\ \E j \in Jobs : job' = j /\ wstatus' = j.video
  /\ wpc' = "start"
  /\ UNCHANGED <<dirVars, lifeVars, indexVars, maintVars, permit>>

FindNothing ==
  /\ wpc = "query"
  /\ Jobs = {} \/ DbMayFail
  /\ wpc' = "rest"
  /\ UNCHANGED <<dirVars, lifeVars, indexVars, maintVars, permit, job, wstatus>>

\* wake.notified().await begins after the query has answered ...
BeginWait ==
  /\ wpc = "rest"
  /\ wpc' = "wait"
  /\ UNCHANGED <<dirVars, lifeVars, indexVars, maintVars, permit, job, wstatus>>

\* ... and ends with a permit.
Wake ==
  /\ wpc = "wait"
  /\ permit
  /\ permit' = FALSE
  /\ wpc' = "query"
  /\ UNCHANGED <<dirVars, lifeVars, indexVars, maintVars, job, wstatus>>

\* The command line names no format (-f), and the output is a .part file.
ChoosesFormat == "part" \in Muxers

StalePartKept ==  \* mutant: what an earlier attempt left is carried on with
  /\ wpc = "start"
  /\ \/ /\ job.video \in DOMAIN master
        /\ ChoosesFormat
        /\ part' = IF part[InHand] # NoFile THEN part
                   ELSE [part EXCEPT ![InHand] = [of |-> master[job.video], whole |-> FALSE]]
        /\ wpc' = "encode"
     \/ /\ job.video \notin DOMAIN master \/ ~ ChoosesFormat \/ DeriveMayFail
        /\ UNCHANGED part
        /\ wpc' = "fail"
  /\ UNCHANGED <<master, info, done, lifeVars, indexVars, maintVars, permit, job,
                 wstatus>>

\* remove_stale_part, then ffmpeg opens the source, if there is one, and the
\* output, if its name tells the format.
StartFfmpeg ==
  /\ wpc = "start"
  /\ \/ /\ job.video \in DOMAIN master
        /\ ChoosesFormat
        /\ part' = [part EXCEPT ![InHand] = [of |-> master[job.video], whole |-> FALSE]]
        /\ wpc' = "encode"
     \/ /\ job.video \notin DOMAIN master \/ ~ ChoosesFormat \/ DeriveMayFail
        /\ part' = [part EXCEPT ![InHand] = NoFile]
        /\ wpc' = "fail"
  /\ UNCHANGED <<master, info, done, lifeVars, indexVars, maintVars, permit, job,
                 wstatus>>

FinishFfmpeg ==
  /\ wpc = "encode"
  /\ part' = [part EXCEPT ![InHand].whole = TRUE]
  /\ wpc' = "rename"
  /\ UNCHANGED <<master, info, done, lifeVars, indexVars, maintVars, permit, job,
                 wstatus>>

\* ffmpeg fails or times out, or its output cannot be moved.
DerivationFails ==
  /\ wpc \in {"encode", "rename"}
  /\ DeriveMayFail
  /\ wpc' = "fail"
  /\ UNCHANGED <<dirVars, lifeVars, indexVars, maintVars, permit, job, wstatus>>

RenameUnfinished ==  \* mutant: the exit of ffmpeg is not waited for
  /\ wpc \in {"encode", "rename"}
  /\ done' = [done EXCEPT ![InHand] = part[InHand]]
  /\ part' = [part EXCEPT ![InHand] = NoFile]
  /\ Notify
  /\ wpc' = "record"
  /\ UNCHANGED <<master, info, lifeVars, indexVars, mpc, unread, listing,
                 unprobed, permit, job, wstatus>>

RenameUnseen ==  \* mutant: the watcher does not see sidecars
  /\ wpc = "rename"
  /\ done' = [done EXCEPT ![InHand] = part[InHand]]
  /\ part' = [part EXCEPT ![InHand] = NoFile]
  /\ wpc' = "record"
  /\ UNCHANGED <<master, info, lifeVars, indexVars, maintVars, permit, job, wstatus>>

RenameIntoPlace ==
  /\ wpc = "rename"
  /\ done' = [done EXCEPT ![InHand] = part[InHand]]
  /\ part' = [part EXCEPT ![InHand] = NoFile]
  /\ Notify
  /\ wpc' = "record"
  /\ UNCHANGED <<master, info, lifeVars, indexVars, mpc, unread, listing,
                 unprobed, permit, job, wstatus>>

RecordSidecarInserts ==  \* mutant: an INSERT, without size and mtime
  /\ wpc = "record"
  /\ rows' = Put(rows, job.video, [job.row EXCEPT !.stamp = 0])
  /\ wpc' = "query"
  /\ wstatus' = Idle
  /\ UNCHANGED <<dirVars, lifeVars, cache, failures, maintVars, permit, job>>

\* set_compat or set_thumb: no row, no update.  A compat copy is followed by
\* the thumbnail the row did not have when the job was taken.
RecordSidecar ==
  /\ wpc = "record"
  /\ LET m == job.video IN
       \/ /\ m \in DOMAIN rows
          /\ rows' = IF job.kind = "compat" THEN [rows EXCEPT ![m].compat = TRUE]
                     ELSE [rows EXCEPT ![m].thumb = TRUE]
       \/ (m \notin DOMAIN rows \/ DbMayFail) /\ UNCHANGED rows
  /\ IF job.kind = "compat" /\ ~ job.row.thumb
     THEN job' = [job EXCEPT !.kind = "thumb"] /\ wpc' = "start" /\ UNCHANGED wstatus
     ELSE wpc' = "query" /\ wstatus' = Idle /\ UNCHANGED job
  /\ UNCHANGED <<dirVars, lifeVars, cache, failures, maintVars, permit>>

ForgetFailure ==  \* mutant: a failure is logged and not recorded
  /\ wpc = "fail"
  /\ wpc' = "query"
  /\ wstatus' = Idle
  /\ UNCHANGED <<dirVars, lifeVars, indexVars, maintVars, permit, job>>

\* record_derivation_failure, for the stamp the job was taken with.
RecordFailure ==
  /\ wpc = "fail"
  /\ \/ failures' = Put(failures, job.video, job.row.stamp)
     \/ DbMayFail /\ UNCHANGED failures
  /\ wpc' = "query"
  /\ wstatus' = Idle
  /\ UNCHANGED <<dirVars, lifeVars, rows, cache, maintVars, permit, job>>

Worker ==
  \/ TakeJob \/ FindNothing \/ BeginWait \/ Wake
  \/ StartFfmpeg \/ FinishFfmpeg \/ DerivationFails \/ RenameIntoPlace
  \/ RecordSidecar \/ RecordFailure

Next == Others \/ Start \/ Crash \/ Maintenance \/ Worker
Spec == Init /\ [][Next]_vars

\* The runtime polls both tasks, and ffprobe and ffmpeg end or are timed out.
FairSpec == Spec /\ WF_vars(Maintenance) /\ WF_vars(Worker)

-------------------------------------------------------------------------------
\* What the API says of a video (derivation_status).
derivation_status(m) ==
  LET verdict == decide(ContainerOf[m], rows[m].facts, FALSE) IN
  CASE wstatus = m               -> "processing"
    [] wstatus # m /\ rows[m].compat -> "done"
    [] wstatus # m /\ ~ rows[m].compat /\ rows[m].source = "none" -> "pending"
    [] OTHER ->
         CASE verdict = NotNeeded   -> "not_needed"
           [] verdict = Unplannable -> "unknown"
           [] OTHER                 -> IF Failed(m) THEN "failed" ELSE "pending"

\* Maintenance has nothing left to do, and then the worker as well.
CaughtUp == mpc = "idle" /\ ~ dirty
AtRest == CaughtUp /\ wpc = "wait" /\ ~ permit

(* No partial output is ever taken for a finished sidecar, whatever fails and
   whenever the process dies (the .part files of the worker). *)
FinishedIsWhole == \A s \in Sidecar : done[s] # NoFile => done[s].whole

(* Facts a row has from ffprobe were recorded for the size and mtime the row
   has now: replacing the file's content never leaves it with the facts of
   the old one (the CASE rules of UPSERT_SQL and the probe cache's key). *)
ProbedFactsKeyed ==
  \A m \in DOMAIN rows : rows[m].source = "ffprobe" =>
    /\ m \in DOMAIN cache
    /\ cache[m] = [stamp |-> rows[m].stamp, facts |-> rows[m].facts]

(* What the two rest on: the worker renames only what ffmpeg has finished, a
   candidate of the probe pass keeps the stamp it was listed with, and a
   listing holds no probed facts. *)
Staged ==
  /\ wpc \in {"encode", "rename"} => part[InHand] \in File
  /\ wpc = "rename" => part[InHand].whole

CandidatesCurrent ==
  mpc = "probe" => \A m \in DOMAIN unprobed :
    m \in DOMAIN rows /\ rows[m].stamp = unprobed[m]

ListingUnprobed == \A m \in DOMAIN listing : listing[m].source # "ffprobe"

(* The inductive invariant of Derivation_proofs: no interleaving of the probe
   pass, the worker, the crashes and the errors leaves it. *)
IInv ==
  /\ TypeOK
  /\ FinishedIsWhole
  /\ Staged
  /\ ProbedFactsKeyed
  /\ CandidatesCurrent
  /\ ListingUnprobed

(* A wake is never lost: while the worker waits without a permit, no job is
   left for it unless maintenance is on its way to notify it. *)
NoIdleWork ==
  Jobs # {} => wpc \notin {"rest", "wait"} \/ permit \/ mpc # "idle"

(* Once maintenance has caught up the rows list the masters and sidecars that
   are there, although the worker writes rows and files while it reads them. *)
RowsMirrorSidecars ==
  CaughtUp =>
    /\ DOMAIN rows = DOMAIN master
    /\ \A m \in DOMAIN rows :
         /\ rows[m].stamp = StampOf[master[m]]
         /\ rows[m].compat = find_sidecar("compat", m)
         /\ rows[m].thumb = find_sidecar("thumb", m)

(* "Pending" means waiting for a turn (routes/types.rs): once both tasks are
   at rest no video is left pending. *)
PendingIsServed ==
  AtRest => \A m \in DOMAIN rows : derivation_status(m) \notin {"pending", "processing"}

(* Once maintenance has caught up, facts that came from ffprobe are those of
   the file that is there: the file may be replaced between its stat, its
   probe and the recording, and a cached probe may be of other content. *)
FactsAreOfTheMaster ==
  CaughtUp => \A m \in DOMAIN rows \cap DOMAIN master :
    rows[m].source = "ffprobe" => rows[m].facts = ProbeOf[master[m]]

(* The "guaranteed browser-playable copy" (README.org): when nothing but the
   absence of a master fails, no video that needs a copy is left without. *)
CopyIsGuaranteed == AtRest => \A m \in DOMAIN rows : Verdict(m).kind # "produce"

(* Once the process stays up, both tasks come to rest: every video is worked
   on and settled, and nothing is retried for ever. *)
EventuallySettled == <>[](mpc # "down") => <>[]AtRest
-------------------------------------------------------------------------------
(* The worker keeps what the head of worker.rs says of its output: it is
   "renamed into place only on success", a crash leaves only an ignored .part
   file, and nothing stays "in processing" (Conversion).  The draft is the .part
   file of the job in hand, and only that: one left behind is nothing. *)
draft ==
  IF wpc \in {"encode", "rename"}
  THEN {[kind |-> job.kind, of |-> part[InHand].of]} ELSE {}

Promise == INSTANCE Conversion
  WITH offered <- master, shown <- done, announced <- wstatus, Missing <- NoFile

ConvertsAsPromised == Promise!Spec
===============================================================================

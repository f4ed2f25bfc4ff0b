# Formal model of Loku

Loku is a local video browser: a Rust server that indexes one or more media
directories into SQLite, keeps that index current from filesystem events,
probes and transcodes videos with ffmpeg in the background, and serves a JSON
API to an Elm frontend.  This directory holds TLA+ models of the parts of it
whose correctness depends on order, concurrency or failure, the TLC runs that
check them, and TLAPS proofs.  Paths below are relative to the repository;
`index/…`, `media/…` and `routes/…` are under `src/crates/server/src/`.

## 1. Inventory

| Component | State it keeps | Operations | Interacts through |
|---|---|---|---|
| Index maintenance (`index/watch.rs`, `index/scan.rs`) | event channel, `Debounce.pending` and its deadline, the work of one flush, the health timestamp | initial scan of every library, receive an event, debounce, flush (classify, remove vanished trees, reconcile live ones), probe pass, wake the worker | reads the filesystem, writes the `videos` table, calls the probe pass, `Notify` to the worker |
| Media index (`index/store.rs`, `index/schema.rs`) | SQLite: `videos`, `meta.scan_generation`, `probe_cache`, `derivation_failures`, `disc_set_overrides`, an FTS mirror | upsert, reconcile a directory, sweep, remove a tree, list candidates, record probes and failures, browse, search | one connection thread, calls are serialised; several tasks call it |
| Probe pass (`media/probe.rs`) | none of its own | probe every video that lacks codec facts, through the cache | runs inside the maintenance task; ffprobe |
| Derivation worker (`media/worker.rs`) | the job in hand, `.part` files | pick a job, derive a compat copy, extract a thumbnail, record failures, wait for a wake | ffmpeg, renames next to the master, the index |
| Compat planner (`media/compat.rs`, `media/codecs.rs`) | none | decide copy/transcode per stream, native playability | pure |
| Sidecars, NFO, disc names (`media/sidecars.rs`, `crates/lib`) | none | find compat and thumbnail files, parse metadata | pure reads |
| Routes (`routes/*.rs`) | none | browse (with disc-set grouping), search, item, libraries, choose a main title | reads the index and the disk, writes overrides |
| Server process (`main.rs`, `web_base.rs`) | last-scan timestamp | open the index, spawn the worker, then maintenance, serve, shut down | everything above |
| Configuration (`config.rs`, `library.rs`) | the process's libraries | merge flag and file, validate names and paths | read once at start |
| Frontend (`src/frontend/src`) | current route, page model, player position | navigate, request, receive responses, choose sources | HTTP |

What is hard here:

* **Concurrency with an uncontrolled writer.**  The filesystem changes at any
  moment, between any two awaits of a scan or a flush, and is observed through
  a stream of events that only says *where* something happened.
* **Stale reads.**  A directory is listed first, its videos are stat-ed and their
  sidecars read one by one after that, and what was read is reconciled after an
  await; candidates are stat-ed when the quiet period ends, not when
  the event fired; the worker acts on a snapshot of the candidate list.
* **Crashes.**  Nothing the tasks hold in memory survives, the index does:
  the next start must repair whatever a half-finished scan left.
* **Statements, not transactions.**  A request looks at the configuration, the
  disk and the index one after the other, and a pick is checked by one
  statement and written by another, while maintenance rewrites the index.
* **Answers without identity.**  The frontend's messages do not say which
  request they answer: a late one is taken by whatever page is on show.
* **Faults** are mostly logged and skipped, so what they leave behind matters.

What makes each component correct:

* maintenance: the index ends up mirroring the disk, nothing falls into a gap
  between scan and events, the sweep and the tree removals delete what they
  should and nothing else, the health timestamp is honest, nothing stalls;
* index: a reconcile replaces one directory and touches no other, the key is
  unique, probed facts are never shown for other content;
* worker and probe: no partial file is ever taken for a finished one, a wake is
  never lost, every video that needs work is worked on or has a failure for
  its exact content;
* planner: what is left without a copy plays everywhere, and a copy does;
* routes: every video is in reach; a pick stays in its set, outlives changes and
  restarts, and is shown; a title is of the file it was read from;
* frontend: no page waits for nothing or for ever, and a page shows what its
  URL names.

## 2. Modules

| Module | Models |
|---|---|
| `MediaIndex` | the statements maintenance runs on the `videos` table, as operators on a set of rows |
| `Maintenance` | the maintenance task, the filesystem and its events, process life; its properties and inductive invariant |
| `Snapshots` | what maintenance promises a reader of the index: the abstract specification `Maintenance` implements |
| `MCMaintenance` | instances for TLC (directory trees, root lists) |
| `CompatPlanner` | `decide`, its helpers, the codec table and `native_source_type`, as operators |
| `Playability` | what those decisions are worth: files, ffprobe's and yt-dlp's reports of them, ffmpeg, browsers and the player's choice |
| `Derivation` | the worker and the probe pass, beside one directory and its maintenance; extends `CompatPlanner` |
| `MCDerivation` | instances for TLC (masters, contents, reports) |
| `Conversion` | what the worker promises a reader of the directory and of the API: the abstract specification `Derivation` implements |
| `Records` | what a scan makes of a directory's contents: disc rip names, NFO lookup and parsing, titles, records; extends `MediaIndex` |
| `Configuration` | `resolve_libraries` and the lookup of a library by name |
| `Catalogue` | the API over a changing index: process starts, the schema, browse, item, search, libraries and the pick of a main title; extends both |
| `MCCatalogue` | instances for TLC (a disc in a tree, setups, requests) |
| `Frontend` | one browser tab against that API; extends `Catalogue` |
| `MCFrontend` | instances for TLC (a disc, routes) |
| `MediaIndex_proofs` | lemmas about paths and about each statement |
| `Maintenance_proofs` | lemmas about libraries, events and pruning; the type theorem; the refinement: `Maintenance` implements `Snapshots` |
| `MaintenanceSafety_proofs` | the main theorem, and the theorems about the health signal, the sweep and the removals |
| `Playability_proofs` | what is reported of a stream, and the theorems about plans, copies and hints |
| `Derivation_proofs` | the inductive invariant of `Derivation`, the theorems about sidecars, probed facts and wakes, and the refinement: `Derivation` implements `Conversion` |
| `Settling_proofs` | the theorems about what `Derivation` comes to when its tasks run dry |
| `Catalogue_proofs` | the invariant behind types, picks, titles and listings, and the theorems about them |
| `Frontend_proofs` | the invariants behind the tab's waiting and behind what it shows at rest, and the theorems about both |

How they compose: `Records` and `Configuration` are operators; `Catalogue` is
the server of both with a maintenance task that lists, reads and writes any
directory at any time, of which `Maintenance` says which and when; `Frontend`
runs the whole of `Catalogue` as its server in place of arbitrary clients.

### `MediaIndex`

A path inside a library is the sequence of its components, the root `<<>>`.
A row is `[lib, parent, video, last_seen]`; `video` is a file name and `facts`,
everything `build_record` reads about the file (stat, sidecars, NFO,
`info.json`) as one value, so that "changed" is "different facts".  The `LIKE`
of `remove_tree` is modelled with what makes it differ from a path prefix: it
folds ASCII case (`CaseFold`) and cannot match anything for the empty path.

### `Maintenance`

State: the filesystem (`dirs`, `disk`), the event channel (`queue`), the index
(`rows`, `generation`), and the task (`pc`, the scan's `lib`, `todo`, the
reading in hand `at`/`unread`/`entry`/`listing`, `pending`, and the flush's `dirty`, `vanished`,
`live`).  One action is one stretch of code between awaits (or, for the stat
of each candidate, between system calls):

* filesystem: a video is put or deleted, a directory is made or removed, a tree
  is moved away or in with one rename (only its top is reported);
* `Start`, `Crash`: process life; watchers are registered before the scan, so
  events are delivered from `Start` on and lost with the process;
* reading a directory (`collect_directory`): its names are listed by the action
  that begins it, `ScanRead` or `FlushRead`; then for each video `StatEntry`
  (`metadata()`; a video gone by now is dropped) and `BuildRecord` (its
  sidecars; if the video has changed since its stat, the record may be any
  mixture), with the disk free to change before each of them;
* scan: `BeginScan` (next generation), `WalkLibrary`, a reading begun by
  `ScanRead` and ended by `ScanWrite` for each directory, `Sweep`,
  `MarkScanComplete`; any error ends the scan
  (`RootUnresolved`, `ScanDbError`);
* event loop: `ReceiveEvent`, `BeginFlush`, `Classify` (one stat at a time),
  `PruneVanished`, `RemoveVanished`, `PruneLive`, `WalkLive`,
  `FlushRead`, the reading, `FlushWrite`, `SubtreeDone`, `FlushDone`; `SkipFlush` when the
  generation cannot be read; `ProbeAndWake` after a scan or flush.

The channel is a set: events are delivered in any order and duplicates merge,
which is a superset of what the code sees and loses nothing, because a
candidate does not carry what happened.  Time is left out: the quiet period
may be over whenever something is pending.  A file's own path as candidate is
left out (it is never a directory, and `remove_tree` of a file's path finds no
parent by that name).  Symbolic links are not followed by the walks and not
modelled.  The window in which the recursive watcher has not yet registered a
new directory is not modelled: a change inside it is assumed to be reported.

Five switches (constants) say what the environment may do: `PathReuse`,
`RootsMayVanish`, `DbMayFail`, `ReadMayFail`, `JunkGeneration`.  `Undisturbed`
says all are off, that no name ends in `.part`, that names differ in more than
case, and that library roots do not nest.

### `Snapshots`

What is left of maintenance when rows, stamps, events and phases are taken away:
others change the directories, one directory is read, and what was read is
shown whole or discarded; directories may be withdrawn, each whole.  A reading is
no picture of one moment: the names are listed first, and each is then found or
missed while the directory goes on changing.  So a listing may hold a video that
was gone before another in it appeared; what is promised is that no reader of the
index sees a reading half written, two readings mixed, or one that an earlier
process had in hand; not that a listing is ever brought up to date, which is
`IndexMirrorsDisk`.  `Maintenance` implements it with every switch on
(`ListsSnapshots`): `Shown` is the names of the videos in a directory's rows,
`Hand` the reading between its first name and its write.  The maintenance task
inside `Catalogue` has this shape too.

The stat of a video and its sidecars are two steps of `Maintenance`, and a change
between the calls that read the sidecars is the change before `BuildRecord`, which
then allows any mixture.  In `Catalogue` the sidecars of one video are read at one
moment.

### `CompatPlanner` and `Playability`

A codec string is its name and what follows the first dot, as far as the code
looks at it (the profile byte of an RFC 6381 name).  `Playability` starts from
what is *in* a file (`Stream`: codec, pixel format, interlacing, audio), lets
ffprobe or an `info.json` report it in either vocabulary, and asks whether the
planner's verdict, the copy ffmpeg makes and the source the player picks are
right for every browser.  A browser is any set of codecs that has H.264 and
AAC; H.264 plays in 8-bit 4:2:0 only.  `info.json` may give H.264 as an
RFC 6381 name or as a bare `h264`, `avc` or `avc1`, and ffprobe may leave the
profile out, of any pixel format.  `derive_compat` is what the command
line's options do to each stream; a transcode keeps the pixel format, as no
`-pix_fmt` is given.

`PassesThePlayable` says exactly what `decide` leaves without a copy: what every
browser plays, and, though some cannot play it, H.264 in an MP4 whose profile
nobody reported (assumed safe, `media/compat.rs:127`) or is `High 4:4:4
Predictive`, which no name in `profile_is_browser_safe` excludes (see Findings).

### `Derivation`

State: the directory (`master`, `info`, and for each sidecar a `part` file and
a `done` file that remember which content they came from and whether they are
whole), the index (`rows` with stamp, facts, `codec_source`, `thumb` and
`compat`; `cache`; `failures`), the maintenance task (`mpc`, the listing it
builds video by video, the probe candidates with their stamps), the wake
permit, and the worker (`wpc`, `job`, its published status).

* others: put or delete a master, write an `info.json`, remove a sidecar; a
  running watcher marks the directory `dirty`;
* maintenance: `ListDirectory`, `ReadVideo` (stat and sidecars of one video),
  `WriteDirectory` (the upsert's CASE rules), `ListUnprobed`, `ProbeCandidate`
  (cache, ffprobe, definitive or transient error), `NotifyWorker`;
* worker: `TakeJob`/`FindNothing`, `BeginWait`/`Wake`, `StartFfmpeg`,
  `FinishFfmpeg`, `DerivationFails`, `RenameIntoPlace`, `RecordSidecar`,
  `RecordFailure`.  A compat job goes on to the thumbnail its row lacked.

Simplified: maintenance is for one directory (`Maintenance` has the walk, the
sweep and the debounce); the worker takes any job where the code takes the
first by library and path; removing a stale `.part` is one step with the start
of ffmpeg; ffprobe's answer and its recording are one step, as no other task
writes these columns while the pass runs, but the answer is of the file as it
is at that moment and the stamp is that of the listing.  `kill_on_drop` is
taken to work: no ffmpeg outlives its process.  A server without ffmpeg runs no
worker and no probe and is not modelled.

Switches: `MayReturn` (a content the index has seen comes back with its size
and mtime), `SidecarsMayGo`, `ProbeMayFail`, `DeriveMayFail`, `DbMayFail`; and
`Muxers`, the extensions ffmpeg has an output format for.  In every run but
`no_format` the set has `part`: ffmpeg writes the staging file whatever its
name, as the runner of `tests/worker_test.rs` does.  Without that assumption
(see Findings) no derivation would ever get past `StartFfmpeg`, and the
protocol behind it would go unchecked.

### `Conversion`

Four variables a reader can see or must imagine: what the masters hold
(`offered`), the finished sidecars with the content they were made from
(`shown`), the video announced as processing (`announced`), and the one output
in preparation (`draft`).  A sidecar only ever appears in one step, whole, for
the announced video, of what its master held at some moment after the
announcement; sidecars change otherwise only by someone's removing them.
`Derivation` maps to it with `done`, `wstatus`, `master` and a `draft` that is
read off `wpc`, `job` and `part`; `ConvertsAsPromised` is the refinement,
checked with every fault on and proved.

### `Records`, `Configuration` and `Catalogue`

A file name is taken apart where the code looks at it: head, a `_title`
remnant, the number of `_tNN`, the extension; so `parse_rip_name` and the stem
are projections.  An NFO text is what decides its fate: empty, a reference or
a document, its root element, stray ampersands, well-formedness, whether it has
a title.  A title remembers the sidecar it was read from.

State of `Catalogue`: the disk of each library path, the libraries of the
process (`<<>>` while none runs), `user_version`, `videos`,
`disc_set_overrides`, the reading maintenance has in hand, and the requests
under way with their phase and answer.

* disk: videos and NFO files are put or removed, directories made or removed;
* `Start` resolves the configuration (or refuses to start) and opens the index:
  another `SCHEMA_VERSION` drops every table; `Crash` ends the process and
  with it every unanswered request;
* maintenance: `OpenDirectory` lists a directory's videos and decides whether the
  folder's NFO may be taken; `StatEntry` and `BuildRecord` read one video after
  the other, dropping those that are gone; `WriteDirectory`, `ForgetTree`;
* handlers, a step for each statement or system call whose answer they use:
  `EnsureDirectoryExists` then `Browse`; `Item`; `Libraries`; `Search`;
  `FindPicked` then `SetMainTitle`; `Refuse` while no process listens; every
  statement may fail (`DbMayFail`).

A listing is put together as in `assemble_entries`: grouped by the library's
kind, partitioned by size, the sets of one flattened back into videos.
`PickOutlivesChanges` is what a pick is for: it is kept, and is the main title of
every listing its file is in, until the next pick or another `SCHEMA_VERSION`.

Left out: paging, ranking and the text of a search (SQLite's), the order of a
listing's entries (a set here), display titles, a path that escapes its root (400), static
files and the `files/` mounts, the other elements of NFO documents.

### `Frontend`

State: the URL and the page on show; the requests are the `calls` of
`Catalogue`, so that answers come from a server that is indexing, failing,
crashing and restarting, in any order.  `Navigate` is `UrlRequested` and
`UrlChanged` with `routeToPage` (and the exception for another page of the same
directory), `GoToPage` and `PickMain` are the browse page's own, `Deliver` is
`Main.update` with the page's update for each kind of answer.  `orderly` is a
history variable: no answer has overtaken another or been an error, and the tab
was never navigated with requests under way.  Left out: the texts in search
boxes, expanded sets, what the media element reports (the player's choice of a
source is in `Playability`), views, the not-found page.

## 3. Runs

| Run | Instance | Shows |
|---|---|---|
| `maintenance` | one library, three nested directories, two values of facts, two filesystem changes at any moment, two process starts | types; `IndexMirrorsDisk`; `NothingFallsIntoAGap`; `StaleReadIsSignalled`; what `Sweep` and `RemoveVanished` delete |
| `scan_faults` | database errors, vanishing roots, two sibling directories whose names differ in case alone, one of them with a directory in it | the health timestamp is only set by a full scan; what `RemoveVanished` may take of directories that are there |
| `faults` | every switch on, two video names in each of two directories, two changes, two process starts | `NeverStalls`; `Maintenance` implements `Snapshots` (`ListsSnapshots`) |
| `converges` | two libraries, one with a nested directory, two video names, fairness | the inductive invariant `IInv` across libraries; `EventuallyMirrors` |
| `planner` | every container, codec, audio, profile and vocabulary, in 8-bit 4:2:0, 10-bit, 4:2:2 and 4:4:4 | exactly what is passed without a copy; plans and hints of ordinary video are right; nothing playable is re-encoded |
| `derivation` | one master, three contents (needs a copy, plays, unprobeable), `info.json`, two changes, two starts, ffmpeg may fail | `FinishedIsWhole`, `RowsMirrorSidecars`, `PendingIsServed`, `FactsAreOfTheMaster` |
| `derivation_faults` | one master, two contents, every switch on | `Derivation` implements `Conversion` (`ConvertsAsPromised`); `ProbedFactsKeyed`, the inductive `IInv` |
| `settles` | two masters, a change, ffmpeg may fail, fairness | `NoIdleWork`, `EventuallySettled` |
| `catalogue` | a disc of two titles in a nested directory, one of them again above it beside a film with an NFO, or an empty library; one change of the disk, two starts of three setups and two schema versions, one request at a time, each a pick | types; every video is in reach; titles are not borrowed; picks stay in their set, outlive changes and are shown |
| `frontend` | the same server with a flat disc, two starts, statements that fail; six routes, three navigations, two picks, two requests under way; fairness | `LoadingIsAwaited`, `LoadingEnds`; what a quiet tab shows is what its URL names and the pick the server stored |
| `path_reused` | `PathReuse` on | *violated*: see Findings |
| `no_format` | ffmpeg without an output format for `.part` | *violated* |

Bounds.  Three levels of directories give an ancestor, a top of a moved tree
and a nested descendant, which is what pruning and tree removal distinguish.
`MaxChanges = 2` lets a second change race the repair of a first (both inside
one scan or flush, or on either side of a crash); `MaxGeneration = 2` is one
restart over an index an earlier process left half-repaired.  One video name is enough where
names only matter as the key within a directory; `faults` and `converges` have
two, because a reading that has seen one video and not yet the other, and a
listing that is half old or half gone, need two.  `RemovesWholeTree` and the
sweep's properties are of the deep tree, `RemovalIsProvisional` of siblings that
`LIKE` confuses.  The proofs lift all bounds.

For the worker one master is enough where only its own steps race with those
of maintenance, as jobs are serial; `settles` has two, so that work for one
arrives while the worker is busy with the other or about to wait.  Two
contents distinguish "old" from "new"; a third (unprobeable) reaches the
definitive error.  `planner` enumerates its whole input space.

In `catalogue` one change of the disk is enough to make any listing stale: the
index starts empty and each directory is read at any time, so rows are behind,
ahead of or beside the disk without more of them, and the change may fall between
any two system calls of a reading; the second start is what meets an index and
picks an earlier process left.  Clients only interact through the index, so one
request at a time still meets every interleaving with maintenance (the atomicity
of a pick is against maintenance; of two picks the last wins, by design); it is a
pick there, as no other request leaves a trace that the properties look at, and
`frontend` runs the handlers of the rest.  Three NFO texts (a titled document with a
stray ampersand, a bare URL, a foreign root) are one with a title, one that hides
the folder's NFO without giving any, and one that is passed over.  A second
initial disk is empty, so that directories come to be.  The two versions are
interchangeable (`SYMMETRY`), as they are only ever compared.  `DbMayFail` is off there,
as `frontend` has the same handlers with it on.  In `frontend` three navigations
make an earlier request's answer meet a page of the same kind, with one between;
with two requests under way answers overtake each other, and two picks have the
refetch of the first run beside the second; the second start lets a page that
lost its answer to a crash be served by the next process.

`CHECK_DEADLOCK FALSE`: with changes and starts used up and events handled the
task is idle for good, as it should be.

Fairness.  `FairSpec` assumes weak fairness of the task's own steps only
(`Task`; in `Derivation`, of `Maintenance` and of `Worker`, each as a whole):
the runtime keeps polling a ready task and blocking threads finish.
`FairTabSpec` assumes that a running server goes on with the requests it has
(`Answered`: hyper runs a task for each connection, and a refused or lost
connection is an answer) and that the browser delivers answers or reports their
loss (`Delivered`); not that a server runs, that anybody navigates, or that any
answer is a success.
Nothing obliges the filesystem to change or a dead process to be restarted;
`EventuallyMirrors` therefore assumes the process stays up from some point on.
That the quiet period ends needs a pause between events; `MaxChanges` gives it.

## 4. Proofs

All with TLAPS, for every value of the constants that meets the module's
assumptions.

* `TypeCorrect`: the type invariant, the uniqueness of the table's key
  included, whatever fails or crashes.  It is inductive together with
  `PhaseInv`, which says what each phase finds in its work lists.
* `InvariantHolds`, and from it `MirrorsDisk` and `NoGap`: if `Undisturbed`,
  the index mirrors the disk whenever the task has caught up.  "Caught up
  implies right" is not inductive; the invariant says at every moment that each
  directory the index has wrong has either an event waiting that covers it
  (`EventFor`) or work begun that will reach it (`WorkFor`).  Four more parts
  carry it: a listing in hand that the disk outran is signalled
  (`StaleReadIsSignalled`); rows are not stamped ahead of the scan (`StampInv`)
  and scanned directories are stamped (`SeenInv`), which is what the sweep
  relies on; and a directory that returns after its removal was decided will be
  read again (`ReturnInv`).  The filesystem steps only ever add events
  (`ChangeIsSafe`); `Classify` turns events into work; pruning drops only what
  a kept candidate covers (`PruneCovers`, by the least-length ancestor); reads
  and writes turn work into rows, one directory each, because relative paths
  determine directories (`RelativeInjective`).
* `SweepLeavesNothingStale`, `RemovalIsComplete`: the action properties about
  what deletions must take, from the same invariant; `RemoveTreeReach`
  shows that without case folding the SQL condition is exactly "at or beneath",
  for every path but the root.
* `RemovalTakesNothingForGood`: what removals take of a directory that is there,
  with case folding as it is, provided that events reach the library of their
  directory and that what vanishes above a root is the root itself
  (`RootsReport`).  It is either at or beneath the removed path, and
  then something will have it read again, or `LIKE` takes its path for one
  beneath: that is the exception the property states, and the theorem that there
  is no other.
* `HealthIsHonest`, `SweepTakesNothingForGood` and `RemovalTakesNothingForGood` hold of far more than
  `Undisturbed`: database calls may fail, roots vanish and paths be taken again.
  `ScanIsFaithful` only asks that events reach the library of their directory,
  that directories are read as they are, that the generation is a number, and
  that what vanishes above a root is the root itself.  The argument differs:
  while the scan runs it takes no event from the queue, so what the disk has
  changed since stays signalled, and an error can only end the scan early.
  `Honest` is the invariant: as long as a scan runs, each directory the index
  has wrong is signalled, or still ahead of the scan, or in hand.
* `ImplementsSnapshots` states `Spec => ListsSnapshots` with every switch on.
  It needs, beside types, only that all rows of a directory carry one stamp
  (`StampedAlike`, which a reconcile restores), so that the sweep, which looks at
  each row, takes all of a directory or none.  `RemoveTree` decides by the
  parent's path alone, whatever `LIKE` takes for beneath.  The step that begins a
  reading maps to `Open`, `StatEntry` to `See` and `BuildRecord` to a stutter, as
  it changes no name; a crash, a failed statement and an aborted scan map to
  `Discard`.

Of `Derivation`, again for every value of the constants and with every switch
on, unless a hypothesis below turns it off:

* `InvariantHolds`: its `IInv`, which is the type invariant with what makes the
  others inductive: the worker renames only what ffmpeg has finished
  (`Staged`), a candidate of the probe pass keeps the stamp it was listed with
  although the worker writes rows meanwhile (`CandidatesCurrent`), and a listing
  holds no probed facts (`ListingUnprobed`).  The type invariant alone is not
  inductive: finishing a file needs `Staged`.
* `TypeCorrect`, `NoPartialSidecar` and `FactsFollowContent` follow from it.
* `WakeIsNeverLost`: if the database answers, `NoIdleWork`, which is inductive
  by itself, as jobs appear only while maintenance has its notification ahead
  or the worker its query.

* `CaughtUpRowsMirror` (`Settling_proofs`), for `RowsMirrorSidecars`, if the
  database answers and nobody takes a sidecar away (a worker that records one
  which has just been taken away would be believed until the next reading).
  `MirrorInv` says phase by phase that what is read, or written, is what is
  there unless an event is waiting; it needs that the worker records only a file
  that is in place, whose appearance its rename has signalled.
* `ProbesAreOfTheFile`, for `FactsAreOfTheMaster`, if moreover no content comes
  back that the index knows of: then what is cached for the stamp of the file
  that is there is what ffprobe makes of it (`CacheIsOfTheMaster`), and
  `FactsFollowContent` and `CaughtUpRowsMirror` do the rest.
* `NobodyIsLeftPending`, for `PendingIsServed`, if the database answers and no
  probe fails transiently: the probe pass leaves no row without codecs
  (`ProbePassTakesAll`), no wake is lost (`WakeIsNeverLost`), and `decide` leaves
  a video that is neither done nor failed only where the status is settled.  That
  `Idle` is no master's name is its third hypothesis.

The refinement (at the end of `Derivation_proofs`): `ImplementsConversion` states
`Spec => ConvertsAsPromised` with every switch on.  Initial states map to
initial states (`PromiseInit`); under `IInv` and `JobAnnounced` (the worker
announces exactly the video of the job in hand) every step maps to a step of
`Conversion` or leaves its variables alone: `StartFfmpeg` to `Begin`, as it
removes the stale `.part` first; `RenameIntoPlace` to the appearance of a
sidecar, for which `Staged` is needed; a crash to the loss of the draft.

Of `Catalogue` (`Catalogue_proofs`), for every disk, tree, configuration, setup
and number of requests, with statements that fail:

* `PicksStay`, `BorrowedTitles`, `Reachable` from one inductive invariant, `Inv`.
  Its parts say what the steps between listing, reading and writing carry over:
  a request past its check names a title of its set whatever becomes of the row
  it was checked against (`CallsInv`), as a set is a function of the file name;
  a reading that may take the folder's NFO was begun with one name, and every
  name it will write is unread, in hand or read, so a record with a borrowed
  title stays the only one although other videos come meanwhile (`ReadingInv`,
  carried by `StatGood` and `BuildGood`); the primary key is one (`KeysInv`),
  which is why a pick means one row; parents are paths (`RowsInv`), which is what
  reachability cuts them by.
* `PicksOutlive`: no action but another pick of the same set, and the start of a
  binary with another `SCHEMA_VERSION`, takes a pick away or changes it
  (`PicksAreKept`, action by action), and with `KeysInv` each listing shows it
  (`PicksAreShown`).
* `CatalogueTypes`: the type invariant, with the same `Inv`.  That libraries
  carry distinct names is where the configuration's check of duplicates enters.
  It rests on the assumption that setups and initial disks are of the shape the
  constants announce.

Of `Playability` (`Playability_proofs`), whichever pixel formats occur.  `PlanInv`
says that the facts in the columns are one of the two vocabularies' reports of
the stream in the file, and that the copy is what the plan makes of it.

* `PlannerTypes`, `SafeIsKept`: nothing more is needed than what each vocabulary
  reports of each codec (`DescribedH264` and the lemmas beside it).
* `PassesPlayable`: for each vocabulary, which profiles each pixel format may be
  reported by, so that a profile that is reported and not taken for unsafe is
  one of 8-bit 4:2:0, but for `High 4:4:4 Predictive`.
* `OrdinaryCopies`, `OrdinaryPlays`: for 8-bit 4:2:0 video whatever the container,
  codec and sound; a transcode keeps any other pixel format.

Of `Frontend` (`Frontend_proofs`), on top of the invariants of `Catalogue`:

* `NothingIsAwaitedInVain`.  The invariant adds the shape of requests and pages;
  the argument is that the answer to the awaited request has a kind only the
  loading page takes, and that page leaves loading on any answer of its kind, so
  no answer takes the awaited request away from a page that goes on loading.
* `TabTypes`, `QuietPage` and `QuietStar`, from `QuietInv`, which adds to it: an
  answer is of what was asked, and a request past its first step still has a
  library to answer from (`AnswersInv`); an orderly tab either is loading its URL
  with that one request under way, or shows what the URL names with nothing else
  under way than picks and their refetches (`OrderlyInv`); and its star is on the
  pick, unless a pick is under way or the last refetch has still to bring the
  star there (`StarInv`).  The type of the tab needs that of the table and of the
  picks, which is what the parts of `Catalogue`'s invariant are for.

Only model-checked: liveness (`EventuallyMirrors`, `NeverStalls`,
`EventuallySettled`, `LoadingEnds`), which is out of the prover's reach, and the
two violations.  Every invariant and every action property that a passing run
checks is stated by a theorem, as are both refinements.

## 5. Findings

Each of these is a run whose counterexample TLC prints:

* `path_reused` — a tree is moved away and another (or an empty directory)
  takes its path within the quiet period.  The candidate is live when stat-ed,
  the reconcile walks the directories that exist, and rows of nested
  directories that are gone stay listed until a restart.
* `no_format` — the staging file ends in `.part` and ffmpeg is given no `-f`:
  it has no output format for that name and fails, for copies and thumbnails
  alike.  That ffmpeg goes by the extension is its documented behaviour, taken
  as given here; no test of the repository runs the derivation with it.

Others were met while modelling.  The properties above hold under the
condition that rules them out; each can be reproduced by lifting it:

* the root's removal leaves nested rows: `LIKE '/%'` matches no parent
  (`RemovesWholeTree` with `RootsMayVanish`);
* `LIKE` ignores ASCII case, so removing `show` removes the rows beneath `Show/`,
  a directory that is still there, until its next event or a restart.  The
  comment at `index/store.rs:978` has it that an escaped literal path cannot widen
  the match.  It is the second disjunct of `RemovalIsProvisional`, which
  `scan_faults` violates without it;
* events reach the first of nested libraries only (`IndexMirrorsDisk` with a
  root inside another), and those of directories named `*.part` are dropped
  (with `PartNames`);
* a junk generation narrows the next sweep to nothing, where the comment says
  it only widens it (`SweepRemovesVanished` with `JunkGeneration`);
* the profile name `High 4:4:4 Predictive` passes as safe, while its RFC 6381
  form does not, and so does H.264 whose profile nobody reported, which the code
  assumes safe (the second disjunct of `PassesThePlayable`);
* a transcode keeps 10-bit (or 4:2:2, 4:4:4) input as it is
  (`CompatIsUniversal`);
* a probe is cached under the stamp of an earlier stat, so a content that
  returns may get the facts of another (`FactsAreOfTheMaster` with `MayReturn`);
* `set_compat` may name a copy that is gone again (`RowsMirrorSidecars` with
  `SidecarsMayGo`);
* nothing schedules the pass a transient probe failure is left to
  (`PendingIsServed` with `ProbeMayFail`);
* a job makes the copy and then the thumbnail its row lacks, but a copy takes the
  video off the candidates: a crash between the two leaves the video without a
  thumbnail for good, and so do a replacement of a video whose thumbnail failed
  (the failure on record is of the old content), a second master with the same
  stem, a failure that could not be recorded, and a thumbnail somebody takes away.
  No property promises that a copy has its thumbnail;
* sidecars are found by stem: a replaced master keeps the copy of its
  predecessor, and `film.mkv` has the copy of `film.mp4`;
* the hint of an MP4 with H.264 and AC-3 names only the video
  (`media/codecs.rs:70`), so no browser reaches the copy with AAC sound
  (`EveryBrowserPlays` of such a file);
* the candidate query reads the index (`media/worker.rs:77`), not the disk that
  the module's comment calls the source of idempotency: after a crash between
  the rename and `set_compat` the copy is made again;
* a directory of more files than SQLite allows bind variables
  (`index/store.rs:424`) fails to reconcile every time.

About listings and the tab, by reading and by the conditions of the properties:

* picks are keyed by library and set, not by directory: of two directories
  with a set of the same name, the pick in one makes the other show its first
  title instead of the largest (`routes/browse.rs:283`), and so does a pick
  whose file is gone (documented there);
* a lone `Movie.mkv` joins the set of `Movie_t0.mkv` beside it, where
  `lib/src/disc.rs:20` calls it "its own set";
* rows of a library that left the configuration stay, and a search without a
  library returns them;
* a late listing of an earlier directory replaces the one on show
  (`Page/Browse.elm:106`), and of two refetches the one that arrives last
  wins: hence `orderly` in the two properties of a quiet tab.  A pick that
  went through while its answer was lost leaves the old star until the next
  fetch;
* two players opened one after the other whose requests both fail: the second
  answer finds a page that has forgotten its path (`Page/Player.elm:105`) and
  shows an item of no library and no path, where the comment above it promises
  not to be "a dead end".

## 6. Plan

Done, in this order: maintenance and its part of the index, with proofs; the
planner; the worker and the probe pass, with proofs; discs, listings and the
API over a changing index, with the schema, NFO files and the configuration,
with proofs; the tab, with proofs; the abstract specification of the worker and
its refinement; proofs about the planner, the health signal under faults, and
what a quiet tab shows; the abstract specification of the index and its
refinement.

Left: two tabs on one server; the API over `Snapshots` in place of its own
maintenance steps; the sidecars of one video read call by call.

## Not modelled

XML and JSON parsing below what decides whether a document is taken, number
parsing, ffprobe's output, ffmpeg's argument lists beyond what they do to the
streams, ranking and tokenising of the full-text search, HTTP plumbing, static
files, metrics, logging, OIDC settings, page layout: they are data
transformations without state or order, better served by the unit tests they
have.  Starts without ffmpeg or without a working file watcher run a subset of
the tasks and are not modelled apart.

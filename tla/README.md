# TruffleHog: a verification development

TruffleHog scans sources (git hosts, buckets, files, ...) for secrets. This directory
holds TLA+ models of its concurrent core, the TLC configurations that check them on
small instances, and proofs checked by TLAPS. All paths below are relative to the
repository.

## 1. Inventory

| Component | Code | State it keeps | Operations |
|---|---|---|---|
| source manager | `pkg/sources/source_manager.go` | two semaphores, a WaitGroup, an error group, the output channel, one job goroutine per `Run` | `Run`, `Wait`, `ScanChunk`, `SetMaxConcurrentSources` |
| job progress, hooks | `job_progress.go`, `job_progress_hook.go` | counters, errors, the `Done` channel; the `UnitHook`'s map and bounded channel | `ReportUnit`, `ReportChunk`, `EndUnitChunking`, `Finish`, `CancelRun`, ... |
| engine pipeline | `pkg/engine/engine.go` | four channels, four worker pools, their WaitGroups | `startWorkers`, `detectorWorker`, `verificationOverlapWorker`, `detectChunk`, `notifyResults`, `Finish` |
| verification overlap | `engine.go:650-789` | per chunk: secrets seen, detectors with results | the loop of `verificationOverlapWorker`, `likelyDuplicate` |
| result notification | `engine.go:865-908` | the filters, a 512-entry LRU cache, counters | `notifyResults` |
| repository resume | `resume.go`, `github.go`, `gitlab.go` | the list of repositories being scanned, the `Progress` that encodes it | `FilterReposToResume`, `RemoveRepoFromResumeInfo`, `setProgressCompleteWithRepo`, `scan` |
| chunk reader | `pkg/sources/chunker.go` | position, a one-slot channel | `readInChunks`, `Chunker` |
| git parser | `pkg/gitparse/gitparse.go` | the state of `FromReader`, the current commit and diff, a bounded channel | `FromReader`, `cleanupParse`, one predicate per kind of line |
| git source | `pkg/sources/git/git.go` | depth, last commit | `ScanCommits`, `ScanStaged`, `gitChunk` |
| file handlers | `pkg/handlers` | the walk of nested archives, its depth, the channel to `HandleFile` | `HandleFile`, `FromFile`, `openArchive`, `extractorHandler`, `handleNonArchiveContent` |
| spooling writers | `pkg/writers` | a pool of buffers; per writer a buffer, a temporary file, a state | `New`, `Write`, `CloseForWriting`, `ReadCloser`, `Close` |
| temporary directories | `pkg/cleantemp` | one directory shared by all scans of a machine, entries named by pid | `MkdirTemp`, `MkFilename`, `CleanTempArtifacts` |
| GCS source, memory cache | `pkg/sources/gcs`, `pkg/cache/memory` | a cache of finished contents, persisted as resume info; a channel per bucket | `Chunks`, `ListObjects`, `processObject`, `setProgress` |
| decoders, keyword index, detectors, output, config, UI, generated code | see `PROJECT.json` | none shared | pure functions or I/O |

How they interact. A source runs in a goroutine of the source manager and writes
chunks through its consumers to `outputChunks`. The engine's scanner goroutines range
over that channel, cut the chunks (`Chunker`), decode them and send the pieces that match
keywords to the overlap workers or the detector workers. These run the detectors and send
results to the notifiers, which filter, deduplicate and print. `Engine.Finish` first calls
`SourceManager.Wait`, which closes `outputChunks`, then waits for each pool and closes the
channel it fed. Progress flows the other way, through hooks that send finished metrics to a
bounded channel. Sources of repositories leave a resume string in their `Progress` for the
next process. The git source reads the diffs that the parser sends it, whose text a spooling
writer may keep in a temporary file; the other sources hand a file to the handlers, which read
it, or what is in it, through the chunk reader; and every process cleans the directory the
temporary files are in.

What is hard here, and therefore what the models keep: the order of deferred calls against
`WaitGroup.Done`; channels closed by one goroutine while others send; bounded channels and
pools in a row; cancellation that drops work already counted; panics absorbed by
`common.Recover` after the deferred calls that did or did not run; two-step updates of a
shared cache; progress saved by one process and trusted by the next. `PROJECT.json`
"hazards" lists each at its line with the properties aimed at it.

What makes each component correct:

- *source manager*: no send on a closed channel; a slot of the right semaphore held exactly
  while a job runs; `Done` only when nothing of the job is left; nothing lost without an
  error; `Wait` returns.
- *engine pipeline*: no channel closed under a sender; WaitGroups equal to what is in flight;
  each finding notified exactly as often as it should be; `Finish` returns; a panic costs only
  the piece it happened on.
- *overlap*: disabled exactly for twins, verified exactly without.
- *notification*: no secret lost by deduplication; duplicates treated as the comment says.
- *resume*: no repository skipped by a later process; the filter does what its comment says.
- *chunk reader*: no text between two chunks; no goroutine left behind.
- *git parser and source*: what the log shows is what is scanned, under the right commit, file
  and line; the scan stops where it was asked to; it returns.
- *file handlers*: a file that counts as handled has been scanned as far as its archives can be
  opened; every goroutine ends.
- *spooling writers*: what is read back is what was written, in order but for an end that never filled
  the buffer again; no buffer is the only home of two texts.
- *temporary directories*: only stale lists of processes cost a running scan its files; nothing a
  dead process left survives a cleaning.
- *GCS source*: no restart skips a key that was not finished, nor loses more than the increment
  allows beyond what was finished since the last save; no object is passed over; `Chunks` returns.

## 2. Modules

| Module | Models | Notes |
|---|---|---|
| `SourceManager` | source manager, progress, hooks | one action per statement that other goroutines can observe |
| `JobLifecycle` | what the manager promises of a job, abstractly | `SourceManager` implements it (`LifecycleSpec`) |
| `SourceManagerProofs` | | three inductive invariants, nine theorems, and the refinement of `JobLifecycle` |
| `FoldTheorems` | | sums over finite sets, positions in sequences, folds over sequences |
| `EnginePipeline` | the four pools and `Finish` | |
| `EnginePipelineProofs` | | five theorems: types, closing, the WaitGroups, and what becomes of every finding; three about `VerificationOverlap`, whose loop its workers run; three about `ResultNotifier`, what its notifiers do |
| `OverlapAnalysis` | the loop of one overlap worker, as operators | used by both modules about overlap |
| `VerificationOverlap` | that loop over every order and input | checked against definitions without a loop; proved in `EnginePipelineProofs` |
| `ResultNotifier` | filters, LRU cache, several notifiers | proved in `EnginePipelineProofs` |
| `ResumeFilter` | the functions of `resume.go` | used by `ResumeScan` |
| `ResumeScan` | the scan loop, its pool, crashes, saved progress | |
| `ResumeScanProofs` | | two theorems about the filter, four about scans that are resumed |
| `Chunker` | the reading goroutine and its consumer | checked as part of `ArchiveHandler` |
| `ArchiveHandler` | `HandleFile`, the walk of nested archives, a source that waits for both | EXTENDS `Chunker`: each text is read by it |
| `ArchiveHandlerProofs` | | `NoWindowLost` of the chunk reader; two theorems about the handlers |
| `GitParse` | the git log as a grammar, `FromReader` line by line, the predicates it asks | |
| `GitScan` | `ScanCommits`, `ScanStaged`, `gitChunk`, composed with the parser | EXTENDS `GitParse` |
| `GitScanProofs` | | five theorems about the parser, the scan and `gitChunk` |
| `SpoolWriter` | the writers, their pool of buffers and their files | |
| `CleanTemp` | processes, pids, `CleanTempArtifacts` against a process that spools | EXTENDS `SpoolWriter` |
| `CleanTempProofs` | | five theorems, about writers and cleaners |
| `GCSScan` | listing, scanning and the persistable cache over restarts | |
| `GCSScanProofs` | | three theorems |
| `MC*` | the constants of the runs | |

Conventions. A goroutine is a program counter (`jpc`, `epc`, `ppc`, `cpc`, ...), its label the
statement it is about to execute. A channel is a sequence with a capacity in the send's guard,
or a set when all its receivers are alike. A WaitGroup is the set of those it counts, or a
count. The definitions that `PROJECT.json` names under "mutants" as the changed form of another are never
used by a specification: each is the code with one plausible bug, and shows that a property notices it.

### SourceManager

A client thread calls `Run`, `ScanChunk`, `SetMaxConcurrentSources` and `Wait`. Each job has a
job goroutine (`jpc`: preflight, the loop over `unitCh`, the deferred calls in their real
order, the hooks' `Finish`), an enumerator (`epc`), and per unit a producer (`ppc`) and a
consumer (`cpc`) joined by a channel. Sources are abstracted to what the manager sees: they
report units and chunks, errors or not, in any order, and return at any time. Contexts are
`cancelled` (a job's) and `ctxDone` (`Run`'s). A record of the hook's map is a small record
of counters; the bounded `finishedMetrics` is `finished`.

### EnginePipeline

Pieces of chunks are constants with the findings their detectors make; `Overlaps` says which
go through the overlap workers. Each pool has its program counters (`spc`, `vpc`, `dpc`, `npc`),
and `finish` is where `Engine.Finish` waits, which also says what channels are closed.
`OverlapAnalysis` decides what an overlap worker reports at once and what it sends on. Which
detectors panic on which pieces is chosen at the start (`panics`). A panic of a detector follows `common.Recover`: in a detector worker it
ends only the call of `detectChunk` and skips `wgDoneFn`; in an overlap worker it ends the
worker.

### ResultNotifier, ResumeScan, Chunker

`ResultNotifier`: a result is received and filtered, looked up, added and printed in four
steps, since nothing locks the cache between them. A key stands for the formatted string.

`ResumeScan`: repositories are numbers in the order of their URLs. `progress` is what the
process shows, `saved` the last copy someone took of it, taken as a whole; a process may stop at any moment and
the next one is given `saved`. `setProgressCompleteWithRepo` is one action because it
holds `resumeInfoMutex`.

`Chunker`: a byte is a position. `Peek` after a full read sees up to `PeekSize` bytes, which
the buffer of `ChunkSize` bytes must hold (`ChunkerAssumption`; the defaults are 10 and 3
KiB). The reader's failure is taken to be lasting: a failure that a peek meets is met again
by the next read.

### ArchiveHandler

A file is a tree of nodes in the order the walk meets them: archives, streams of compressed
data, texts, what is left out for its name or its type, and what cannot be opened. `node` is
the next one, `depth` the depth the walk passes on through the context, which
`HandledMeansScanned` compares with the depth in the tree. `handler` is `HandleFile`, `walk` the goroutine of
`FromFile`, `source` the caller, who reads a refused file itself. Each text is read by
`Chunker`, started anew by `ReadText`, in mode `"memory"` where `handleNonArchiveContent` has
the whole text already. `ctxDone` is the walk's context, with its timeout; `cancelled` that of the scan.

### GitParse, GitScan

Git is a grammar: `Shows` is what it may print next, and `owed` what it has shown and the scan
has not yet received. A line is its kind and one number. `FromReader`
is one action per line (`ReadLine`), whose case is chosen by the code's predicates in the code's
order; each predicate asks for the kind of the line and the state, as in the code, so that a
removed line `--- x` in the body of a hunk and the `--- a/x` of a header are told apart only if
the code does. A diff that must be sent waits in `pending` until the channel has room, where the
goroutine blocks. `GitScan` reads that channel: `ScanDiff` and `RangeEnds` are the loops of
`ScanCommits` and `ScanStaged`; `gitChunk` is the fold that cuts a large diff.

### SpoolWriter, CleanTemp

A text is the sequence of the pieces written to it, each named by its writer and its number, so
that a piece read back from another writer's buffer shows. The pool may hand out any
buffer it holds or a new one, as it is: only `Put` resets a buffer. A parser fills one writer after
another (`ParserOf`), and any number of parsers share the pool, as repositories that are scanned
concurrently do (`github.go:242-269`). A writer that has switched to a file has `Put` its buffer and
keeps it: `Transfer`. Creating the file, moving the text or writing the piece may fail (`WriteFails`), and
so may the last transfer (`CloseForWritingFails`), whose text then stays in the buffer. Of two
goroutines that race on one buffer only the interleavings of whole pieces are modelled. In `CleanTemp` one process, `Host`, runs those writers, and its
files are entries of the directory beside the artifacts of other processes. A cleaner
(`CleanTempArtifacts`) lists processes, opens the directory, and judges one entry per
step; what it reads of a directory that changes is nondeterministic, as POSIX leaves it. When `Host` ends,
its memory is gone (`SpoolGone`) and its files stay.

### GCSScan

A lister and a forwarder per bucket, `Chunks` that reads what they forward, and a goroutine per
object that scans it and then remembers its key, the MD5 that the code takes for its content.
`persisted` is the encoded resume info,
`saved` the copy the next process starts with; `Save` and `StopProcess` may happen anywhere.
`ListObjects` may fail before anything is listed. An archive's walk may end early at any time
(`CutShort`): its 30 seconds are over, the context is done, or an entry is broken or too deep. The handler
reports the file as handled nevertheless; `cut` names such archives, and `FinishedWasScanned` and
`NothingPassedOver` except them by name. That the context is done is not a variable: it shows only in
listings and objects that fail and archives that are cut short, which may happen at any time anyway.

## 3. Runs

| Run | Shows | Bounds |
|---|---|---|
| `source_units` | no silent loss, counters in order, `Done` means quiet, one record per unit, the inductive invariant | one job with two units, one chunk each, a one-slot channel and a one-slot hook channel, `CancelRun` at any point |
| `source_pools` | slots of the right pool, no writer after close, refinement of `JobLifecycle` | a source and a target without units, limit set to 0 or 2 at any time, one injected chunk, the context of `Run` or of a job cancelled |
| `source_live` | `Wait` returns, started jobs finish | two units with a pool of one, no hook |
| `overlap_analysis` | the loop computes what it is for | every order of 3 detectors (2 of one type), up to 2 of 3 texts each |
| `engine_flow` | channels, WaitGroups, every finding exactly once, no deadlock | 2 workers per pool, one-slot channels, 2 overlapping pieces and a plain one |
| `engine_live` | `Finish` returns without panics; a panic costs only its own piece | no panic, one in an overlap worker, another in the only detector worker |
| `notifier` | no secret lost, duplicates treated as documented | 2 notifiers, 5 results of 2 keys, a cache of one entry, every verdict |
| `resume` | what has begun is resumed, the filter as documented, nothing skipped | 3 goroutines, 4 repositories, 3 processes |
| `git_scan` | the log's text reaches the scan under the right commit and file; the scan stops where asked, loses no line and returns | every log of up to 3 commits, 2 files, 2 hunks, 3 lines and one line the parser does not know; a maximum depth of 2 or a base; a one-slot channel; cancellation |
| `temp_files` | no buffer the only home of two texts, text read back whole and in order but for an end, files lost only to stale lists, orphans removed | 2 writers with a parser each, 2 buffers, 3 writes of 1 or 3 bytes in all, a threshold of 2; a second process that cleans, 2 pids |
| `gcs` | the resume info names keys of scanned objects or of archives cut short only, what a stop loses is bounded, no object passed over but such archives, `Chunks` returns | 2 buckets of 2 objects, two of one MD5, one an archive, an increment of 2, a pool and channels of one, one restart |
| `handlers` | no text between chunks, a handled file is scanned, every goroutine ends | 5 trees of up to 8 nodes, maximum depth 3, texts of up to 13 bytes, chunks of 3, peeks of 2 |

The bounds are the smallest in which every branch of the code is taken: two of everything that
can overtake one another, one slot wherever a full channel matters, one more item than slots,
and files longer than four chunks so that first, middle, last and failing chunks differ. Three writes are
what it takes to switch to a file, to fill the emptied buffer and to write to the file behind it.
`MaxChunks`, `MaxInjected`, `MaxProcesses`, `MaxLength`, `MaxWrites`, `MaxStops` and the `Max*`
of `GitParse` that say how long a log is bound the runs only; no property mentions them.

Deadlock is not checked in `engine_live`, because with a panic the system does stop (see below),
nor in `git_scan`, `temp_files`, `gcs` and `handlers`, where everything ends (a log, the files to
write, the processes to start); that the goroutines end, and do not stop before, is what
`ScanReturns`, `ChunksReturns` and `HandlerEnds` say. Every other run checks it.

Five history variables separate what the code guarantees from what a race can break.
`ResultNotifier.disturbed` holds the keys whose cache entry was evicted, or replaced by a
notifier whose lookup had become stale; `DifferentDecoderOnce` and `SameDecoderKept` speak of
the other keys. `ResumeScan.overtaken` is set when a goroutine registers its repository before
one launched earlier; `NothingSkipped` and `CompletedMeansScanned` speak of the executions
without that, and `NothingEverSkipped` of all of them. `SpoolWriter.mixed` holds the writers that have
shared their buffer or got it with text in it, `failed` those with an error; `ReadBackWhole` speaks of the
others, and `SharingHasACause` says when there are no mixed ones. `GCSScan.cut` holds the archives that
were cut short, and `recent` the keys finished since the last save, which any saving at intervals
may lose.

### Where the code differs from what is said of it

Each was met while modelling. Where a definition states the claim, TLC refutes it: the first
three with the configuration named, the others by adding the definition to the run of its
module.

- Definition `HookOpenUntilFinish`, `SourceManagerHookClosed.cfg`: `progress.Finish` runs after
  `wg.Done` (`source_manager.go:152`), so `Wait` may close `finishedMetrics` before the last
  hook sends on it, and the send panics. `source_manager_test.go:434-441` reads that channel until
  it is closed.
- `FinishAlwaysReturns`, `EnginePipelineHang.cfg`: a detector that panics leaves `wgDetect` above
  zero (`engine.go:837`, `wgDoneFn` is not deferred) and `Finish` waits for ever, although `common/recover.go`
  absorbs the panic and `engine.go:539` promises that `Finish` waits for workers to finish.
- `NothingEverSkipped`, `ResumeScanRace.cfg`: a goroutine registers its repository only when it
  runs (`github.go:714`); a crash after a later one did skips it for good, against
  `resume.go:40-41`.
- `DepthLimitWhole` (`GitScan`): the limit is compared before the diff is known to be of a new commit
  (`git.go:560`), so only the first diff of the last commit within `--max-depth` is scanned.
- `gitparse.go:527`: a diff over the limit ends the parsing of the whole log; the comment
  of `WithMaxDiffSize` (`gitparse.go:174`) says that such diffs are truncated.
- `gitparse.go:867`: the last commit of a log is emitted only if it has a diff; every other commit
  without one is emitted as an empty diff.
- `git.go:677`: `gitChunk` does not ask the scanner for its error: a line that is too long for it ends
  the diff, and the lines behind it are not scanned.
- `git.go:561`: after a break out of the loop nobody reads the parser's channel, and its goroutine
  stays blocked on it, even when the context ends.
- `ReadBackInOrder` (`SpoolWriter`): after the switch to a file a small piece goes to the emptied buffer and
  the next large one to the file, so text changes its order, although
  `bufferedfilewriter.go:163` says that all the data is in one place. Three writes show it, in the
  run `temp_files` as it is. `ReadBackWhole` says how far it can go.
- `BuffersNeverShared` (`SpoolWriter`, `temp_files`): `bufferedfilewriter.go:169` puts the buffer back while its
  writer, which keeps it, is still open; another parser gets it, and each may write to it and
  take what is in it.
- `bufferedfilewriter.go:186`: when the last transfer fails, the text stays in a buffer that the pool
  may have had since the switch, and `Get` does not reset it: `BuffersNeverShared` fails with one parser too.
- `ShallowTextsScanned` (`ArchiveHandler`): a nested archive that is too deep, or an entry that cannot
  be opened, is an error that ends the walk (`archive.go:103`): what comes after it is not
  scanned, although it is not too deep.
- `gcs_manager.go:473`: the select may take the listing's error before objects that are already in
  the channel: they are dropped without an error of their own.
- `handlers.go:103`: a walk that was cut short, by its 30 seconds (`archive.go:82`), by an entry that is
  broken or too deep or by a cancellation, closes its channel like one that is done, and the file counts
  as handled; the GCS source then remembers its key as finished (`CutShort`), and no later
  process scans it.
- `gcs_manager.go:646`: composite objects have no MD5, so all of them have the empty key: after one is
  finished the others count as finished (`gcs.go:275`).
- `source_manager.go:335`: `EndEnumerating` is deferred before `close(unitCh)` and runs after it,
  so a job can be `Done` while `DoneEnumerating` is still false
  (`source_manager_test.go:241` asserts that it is true).
- `source_manager.go:143`: when `Acquire` fails, the `Done` channel of the reference `Run` returns
  never closes, although `job_progress.go:60` says that it blocks until the job has completed.
- `job_progress_hook.go:90`: two units with one identifier share one record; the second
  overwrites the first.
- `engine.go:753`: a detector with one likely duplicate is not run again, so its other findings are
  not reported. `engine.go:736`: the detector that found the shared secret first is still run
  with verification.
- `engine.go:892`: with two notifiers `Get` and `Add` race, so a duplicate of another decoder is
  printed, and later ones of the first decoder are dropped.
- `resume.go:48`: the cursor passes over at most one entry per repository. With entries 1, 2, 3, 5
  and a listing of 3, 4, 5 it returns 5 alone, though 3 is in the resume info.
- `filesystem.go:205` and the other consumers of the chunk reader drop the bytes that
  `readInChunks` sends together with a read error.

## 4. Fairness

Go's scheduler runs every goroutine that can run: weak fairness of each goroutine. Blocked
senders and receivers of a channel are queued first in, first out, so one of several senders is
not passed over for ever: strong fairness of the consumers on `outputChunks` and of the
workers of a pool. Sources are assumed to return, readers of the manager's channels to keep
reading, and the client to call `Wait`; nothing forces it to call `Run`, nor anyone to
cancel. In `handlers` each of the chunk reader, `HandleFile`, the walk and the source is one
goroutine; the timeout and the cancellation are never forced. In `git_scan` git goes on printing
or ends its output, the parser reads, and the source ranges over the channel. In `gcs` weak
fairness of the listing goroutines as a whole, of those of the objects and of `Chunks` is enough.
The safety-only runs (`notifier`, `resume`, `temp_files`) assume none.

## 5. Proofs

All are for any values of the constants that satisfy the named assumptions; no other facts are
assumed.

*SourceManager* (`ConstantsAssumption`). `NoWriterAfterClose` alone is not inductive: that
a consumer cannot send after `Wait` closed the channel depends on the job goroutine still being
before `wgdone` while a consumer lives, on `wg` holding every such job, and on `Wait` having
seen `wg` empty while no further `Run` can start. `IInv` says this, conjunct by conjunct:
types, which goroutines may be alive at each label of a job, where its WaitGroup count and
its semaphore slot are, and what the client's labels imply. One lemma per action and
conjunct that the action can disturb, then `Invariance`. `TypeCorrect`, `NoSendOnClosedOutput`,
`SlotsHeld` and `DoneIsQuiet` follow.

`AccountInv` is what `CountsAhead` and `NoSilentLoss` rest on. A counter of `JobProgress` is not
compared with another counter but with what it counts: the units the enumerator has found, the
units whose consumer has ended, a sum over the streams of a job. What was counted is then followed
to where it is: a unit is in the enumerator's hand, in `unitCh`, with the job's goroutine or spawned; a chunk
is in the producer's hand, in the channel, with the consumer or sent. If it is nowhere it was dropped, and
`MayDrop` says who has to answer for that: a fatal error, or a cancelled context that `run` has not looked at yet.
`AccountsKept`, then `SnapshotsCountAhead` and `LossIsReported`. The jobs and the units are finite
sets, as the arguments of a program are.

`RecordInv` says where the record of a unit is while its goroutines run: in the hook's map from the start of its
producer to the end of its consumer, with the consumer until it is sent, then in the channel or
collected, and in each place with exactly the chunks and errors of the unit. An error of the job or
of another unit leaves it alone because identifiers are distinct. That `Close` comes after every
send of a unit (not of a job, see `HookOpenUntilFinish`) follows from the WaitGroup. `UnitRecordsExact` is
the conclusion.

*FoldTheorems*. The sums are folds of the community modules, whose recursion the provers
cannot unfold over a set of unknown size. `SumIsBelow` shows that the sum of natural numbers
`f[x]` over a finite `S` is the number of pairs `<<x, n>>` with `n < f[x]`, by taking a minimal
counterexample among the subsets of `S` (`MinimalSubset`, from the well-founded order on finite
subsets; no induction theorem with an operator parameter is used). The facts the proofs cite, on growing
one summand, on equal functions, on comparing two, then follow from those about cardinalities.
`PositionsAppend` and `PositionsTail` count the elements of a channel that belong to a set. A `FoldLeft`
over a sequence is reasoned about in the same way: `FoldExists` gives the sequence of its intermediate
values (by a minimal counterexample among the finite sets of positions, `UpTo`), each step of which
applies the operator once, and `FoldReaches` that the fold is the last of them; `FoldSteps`, `FoldSame` and `FoldAppend` put this in terms of
the first `i` elements.

*JobLifecycle*. `ImplementsLifecycle` maps a job's phase from its label, the WaitGroup and `runErr`,
and shows every step of `SourceManager` to be one of `JobLifecycle` or a stutter. Four steps are
not stutters: `RunAcquired` begins a job, `ConsumerSends` delivers, `WgDone` completes, `WaitReturned`
closes; all others leave the phases alone (`QuietStep`). Beyond `IInv` it needs `ErrInv`: until `Wait`
reads `firstErr`, it is set exactly when a run that is over caught an error, which holds because
no enumerator or producer is left to fail once `run` has returned.

*EnginePipeline*. `CloseInv` relates each channel's closed flag to the labels at which
`Finish` closes it and to the workers that have ended by then; the workers' labels say which
channels they may still send on. `NoSendOnClosedChannel` holds whatever panics, though
`Finish` may then never get that far. `WaitGroupsCount` (`PipelineAssumption`, which bounds the
workers of the receiving pools) needs `FlightInv`: a worker holds an item exactly at the labels at
which it works on one, and what a WaitGroup counts is compared to a *load*, the owner's items in the
channel and those the workers hold. Sending, receiving, finishing and losing an item are four lemmas
about `Counts` that serve both kinds of WaitGroups. That no counted send crashes comes from
`CloseInv`. A corollary is that no WaitGroup goes below zero, which panics in Go.

`NotifiedAtMostOnce` and `EveryFindingNotified` compare what was notified with what the chunks contain,
which says nothing of the states between. `Conserved` is the law that does: for each result, what
has been notified, what is in `results`, and what every chunk not yet handed over, every scanner, every item
in `overlapCh` and `detectCh`, every overlap worker and every detection worker *owes* it add up to
`Expected`, and to no more than that when detectors panic, since a panic only loses what its worker owed.
A scanner owes by the pieces it has left and the detectors it has not sent yet, an overlap
worker by the findings it has yet to report with verification disabled and the keys it has yet to send on, a
detection worker by the results it has yet to filter and pass on. Each action moves a debt from one holder to the next; the lemmas
`ScannerKeeps`, `VerifierKeeps`, `WorkerKeeps` and `OthersKeep` show that the sum does not change. That
an overlap worker's findings and the detectors it sends on are together what direct detection would have found rests
on lemmas about the loop of `OverlapAnalysis` (`AnalysePrefix`, `SurvivorsFirst`), and `FlowInv` gives the
types and says which workers can still hold work: once a pool has ended and its channel is drained,
nothing is owed on that side. `Stopped` adds that `Finish` returns after every notifier has. Then
`NothingOwed`, and the two theorems follow. `PipelineAssumption` says that
pools and chunks are finite and that each pool has a worker: `concurrency` is the number of CPUs when it is not
given (`engine.go:445`), and every pool starts at least that many (`engine.go:483`).

*VerificationOverlap* (`OverlapAssumption`; the detectors of a program are finitely many). The loop of an overlap
worker is followed over the intermediate values of its two folds (`AnalyseSteps`, `ResultsSteps`). `Dealt` is the
invariant of the inner one: a finding is compared with what other detectors found, for the keys this detector
has added are of its own type; one duplicate takes the detector out of `keysWithResults`, for good, since it is put
there before its findings are looked at. `Settled` is that of the outer one: after `i` detectors the
outcome is what the definitions without a loop say of these `i`. `AnalyseComputes` is its last instance,
for any sequence of distinct detectors, and `DisabledExactly` and `ReverifiedExactly` follow for every
order of all of them.

*Chunker* (`ChunkerAssumption`). `IInv` generalises `WindowsCovered` from what has been
scanned when the consumer leaves to what is scanned, in the channel or about to be sent at
any time, for texts that start before `pos`; it adds that the loop stops only at the end.
The step that matters is `ReadChunkIInv`: a text that starts in the new chunk ends within its
peek, or within the file.

*ArchiveHandler* (`ArchiveAssumption`, `ChunkerAssumption`). `NoWindowOfAFileLost` carries the
invariant of the chunk reader over to a reader that is started again for every text: starting
one re-establishes it (`StartIInv`), and the walk and the source only take what the consumer may
take. `WalkInv` says that behind the walk lie only nodes it could open, each at the depth it is
nested at, and that of those every text has been read; a walk that ended in time stands at the
end or at a node it could not open. `HandledIsScanned` follows, for every tree.

*CleanTemp* (`SpoolAssumption`, `CleanAssumption`). The first three theorems are about any number of parsers.
`BuffersNotShared` needs with `SoleUser` that a buffer that has been handed out is not new again and
that a new writer has no file (`BuffersInv`); `Settles` says what a step of a writer other than `New` may do to its
buffer, and suffices for all of them. `TextReadBack` needs `TextInv`, which describes the text of a writer
outside `mixed` and `failed`: nobody else uses its buffer; before the switch the buffer
is what it was given; after it, until the closing, file and buffer each are in order and together all that was given,
and what is in the buffer fits it and came when more than `Threshold` bytes had been given
(`Spooled`). `SpooledRestores` is the closing, which puts the one behind the other. `Length` is a fold, reached through
`FoldTheorems` (`LengthIs`). `SharingHasACause` shows that `mixed` is not a way out: it is empty while one
parser writes and nothing fails. `CleanInv` ties what a cleaner holds to the moment it listed the processes: the pids
are those of the processes of its name that ran then, what was orphaned is still orphaned, was
in the directory when it was opened, and has not been kept unless its pid was listed.
`FilesLostToStaleLists` and `NoOrphanLeft` are action properties that follow from it.

*GCSScan* (`GCSAssumption`). `ScanInv` follows every object from the listing through both channels to
its goroutine, and says what a closed channel or an ended goroutine implies of those before
it; an archive cut short counts as finished there, and both theorems name it. `LossStaysBounded` needs
`LagInvariant`: whatever is persisted has a multiple of `PersistIncrement` entries, so the cache
meets the next multiple exactly when it has grown by that much; what `Save` copies is thus fewer than
`PersistIncrement` keys behind the cache, and what the cache gains from then on is in `recent`.

*ResultNotifier* (`NotifierAssumption`). `NotifyInv`: each entry of the cache is that of a result
which is printed or about to be; a result that was received is still worked on, or one of its
key is printed; and the entry of a key nothing has disturbed has the decoder of all that is
printed for it. Whatever the number of notifiers and the size of the cache.

*GitScan* (`GitAssumption`, `ScanAssumption`). `ParseInv` is about any log git may print, of any number of commits, files and hunks.
`InStep` ties `latestState` to the position in the log: the parser takes the line it has just read for what it is, or has
given up on the header and skips to the next `diff` or `commit`. It rests on `OneCase`: whatever line comes, exactly the one case meant for it
applies. `BuildInv` says what `currentCommit` and `currentDiff` hold at each position, `CommitInv` which commits have been
sent. `NoCommitHidden` and `ScanStopsRight` follow; the latter needs that commits come off the channel one by one, without a gap
(`Stepwise`). `LogReachesScan` compares what is on its way with what is owed:
`WithText` of a concatenation is the concatenation (`WithTextConcat`), a line that adds text replaces the
last diff on both sides (`ReadingOwes`), and one that ends a diff only moves it from `currentDiff` to `pending`.
`GitChunkIs` is about `gitChunk` alone: `Gathered` says, after `i` lines, that the chunks and the buffer put together are the
first `m` of them (`m = i` until a line is too long for the scanner), that the buffer fits a chunk, and that each
chunk is short or a single line. `NoLineLost` applies it to the diffs in the channel. The values of
`TextLen`, `FlattenSeq` and the loop are reached through `FoldSteps`.

*ResumeScan* (`ResumeAssumption`). The cursor of `FilterReposToResume` is followed over the values of its
fold (`FilterSteps`): after `i` repositories, everything found is in the listing's order and at or
before the last one found (`Behind`), hence `FilterWithin`; and if every entry is
in the listing, the entries up to `repos[i]` have been found, exactly, and the cursor stands at the last
of them or at the next (`Found`), since two ascending sequences of which one holds the other never let it fall more than one
entry behind. Hence `FilterIs`. `ProcessInv` describes a process: the labels of goroutines
agree with `launched` and `toScan`, which is sorted without repetition, and the encoded resume
info names at least the repositories whose scan has begun and not ended: `EndScan` leaves it stale, and stale
entries come from `toScan` too. That suffices for `BegunScansResume`, with any listings.
`NothingLost` is the induction over restarts: the repositories that no process has finished are
among those a process would resume with from `progress` now, and from `saved` whatever
moment it was taken at, because goroutines register in the order of their launch (`InOrder`), so that none
before the last registered one is still to begin. `NoneSkipped` and `CompletedIsScanned` need it; they and `ResumesAsDocumented`
assume `SameListing`: all processes find one listing. With another one entries may be missing,
and then the filter does skip (`resume.go:48` above).

Only model-checked: liveness (fairness and ENABLED are outside the prover's reach). Every invariant and action property of the runs is the conclusion of a theorem. No module declares a RECURSIVE
operator.

## 6. Not modelled

Most of the repository's lines are outside these models, and rightly so: the generated protocol
buffers (`pkg/pb`), the hundreds of detectors (`pkg/detectors`), which differ in a regular
expression and an HTTP request and share no state, the decoders, the keyword index, the output
formats, configuration and the user interface are pure functions of their input or plain I/O. A
model of them would restate them. What is left out of the rest:

- Scanner goroutines that panic (in a decoder or `Chunker`, `engine.go:487`): such a worker ends; with all of
  them gone sources would block.
- Timeouts of `FromData` (`engine.go:747`): they only change the outcome of a verification.
- Panics in `Enumerate` and `ChunkUnit` (`source_manager.go:361`), which end the process; a panic in
  `Chunks` (`source_manager.go:157`) ends a job like a return without error.
- The shared time until which GitHub is not asked (`github.go:808`): two workers may both set it, which
  changes how long they wait and nothing else.
- `chunker.go:145`: a peek's error is dropped; the next read meets it (taken to be lasting, see
  `Chunker`).
- `HandleSpecialized` (deb and rpm files): external programs. The recognition of formats is the
  kind of a node.
- Git: cloning, how base and head are chosen, the extraction of binary files, which go to
  `HandleFile`; in the parser the text of names, dates and quoted paths.
- GCS: `enumerate`, which counts objects in advance for the progress shown, authentication, filters; entries
  of the cache expire after 12 hours, in the model never.
- GitHub and GitLab: enumeration, authentication, rate limits, and the scanning of comments.
- Other sources (S3, file system, Docker, Postman, CI services, syslog): paging and file I/O; what
  the source manager sees of them, chunks and errors in any order, is in `SourceManager`.
- Source manager: a source is given one context, that of its job; a unit or a chunk reported with another one
  (`source_manager.go:417`, `440`) could be dropped by that one.
- Engine: adding to a WaitGroup and sending on the channel behind it are one step (`SendDetec`), detectors
  panic in `FromData` only, and the results that `processResult` filters out (`engine.go:818-832`) are not
  among a detector's findings.
- Handlers: the source reads a file again only when the walk has closed its channel, whereas a cancelled
  `HandleFile` returns at once
  and the walk may then still read the same file.
- Parser: a commit message is one line; a diff whose text cannot be written or finalized (`gitparse.go:486`,
  `861`) is left out. Line numbers of chunks (`git.go:672-725`) and the carriage returns that
  `bufio.ScanLines` drops.
- Resume: `GetProgress` hands out a pointer to the live progress; the copy that is taken of it is one step.
- Spooling writers: two goroutines that write one buffer at once are a data race, of which only the
  interleavings of whole pieces are kept. Cleaning: a failing `ReadDir` is tried again at once and changes nothing.
- GCS: a resume info of one empty key reads like none (`gcs.go:299`), which only an increment of one can
  produce.
- Times, byte counts, log lines and the texts of errors everywhere.

## 7. Possible extensions

- The composition of `SourceManager` with `EnginePipeline`, with an abstract barrier that `Finish`
  implements.

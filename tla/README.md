# Verification of speaker-toolkit

speaker-toolkit keeps everything it knows about a speaker's talks in a *vault*: a
directory whose heart is one JSON file, `tracking-database.json`. Many short-lived
commands, started by agents and by people, read and rewrite that file and the ledgers,
transcripts, videos, decks and summaries around it, next to editors, sync providers and
crashes. This directory holds TLA+ models of the code that must not get that wrong, TLC
runs on small instances, and TLAPS proofs for all instances. Paths below are relative to
`skills/vault-ingress/scripts/` unless they say otherwise.

| file | contents |
|---|---|
| `TrackingDatabase.tla` | abstract: the database is one atomic register |
| `TrackingDatabaseIO.tla` | the lock, staged files, re-checks, backup, rename and fsync that implement it |
| `TrackingDatabaseIOProofs.tla` | eleven theorems about it: the refinement, and what a transaction reports, keeps and makes durable |
| `QueueState.tla` | the reprocessing queue stored in the database: claims, recovery, returns, owner writers |
| `QueueStateProofs.tla` | nine theorems: every property of the queue that is checked is also proved |
| `AnalysisBatch.tla` | the batch writer of the analysis files: backups, reverse rollback, interrupts |
| `AnalysisBatchProofs.tla` | four theorems: every property of the batch that is checked |
| `RunObligations.tla` | the ledger of what a run owes the speaker, against the database it counts in |
| `RunObligationsProofs.tla` | six theorems: every safety property of the ledger |
| `SupervisedWorker.tla` | one supervised child process: deadlines, pipes, threads, cleanup |
| `SummaryFile.tla` | two commands and an owner that rewrite one Markdown file |
| `QrPublication.tla` | short links, PNGs, a deck and the record of them: effects no transaction covers |
| `TranscriptBundle.tla` | a transcript and its two receipts, three files that mean something together |
| `VideoDownload.tla` | invocations that download one video under one staging name |
| `AudioExtraction.tla` | a recording's audio installed under a name that is never replaced |
| `DeckAssembly.tla` | the passes that build a deck and address its slides by number |
| `StyleExploration.tla` | which image model may draw a deck, and which image may be overwritten |
| `MCVaultTools.tla` | the eight commands from `SupervisedWorker` to `StyleExploration` in one specification |
| `MediaProofs.tla` | a theorem about `VideoDownload` and `AudioExtraction` |
| `RecordProofs.tla` | a theorem about `SummaryFile`, `QrPublication` and `TranscriptBundle` |
| `DeckProofs.tla` | a theorem about `DeckAssembly` |
| `ToolProofs.tla` | four theorems about `MCVaultTools`; the invariants of `StyleExploration` and `SupervisedWorker` |
| `MC*.tla`, `*.cfg` | the instances TLC explores |
| `PROJECT.json` | components, runs, mutants, the map from definitions to lines, hazards, findings, theorems |

## 1. Inventory

### Components that carry the core logic

**Tracking-database transactions** (`tracking_database_io.py`, `retained_stage.py`,
`cooperative_lock.py`). State: the database file, its lock file, a staged file per
transaction, hash-bound backups. Operations: snapshot, commit (with or without
backup), initialize. Every command that changes the vault goes through here. Hard: two
commands that read the same generation; editors that ignore the lock; a failure after
the rename; power loss around the directory fsync; someone replacing the lock file or a
staged name. Correct when no update is lost, no torn or undone database is visible, and
every report is true.

**Reprocessing queue** (`queue-state.py`, `queue_claim_contract.py`). State, inside the
database: per talk a status, a reprocess reason, a generation counter, the current
claim and the history of earlier ones. Operations: `normalize`, `claim`, `recover`
(`inspect` only reads). Hard: leases that expire while the worker still works, batch
identities used again, a status changed by hand under a lease, a contract that every
reader checks over the whole database, so that one bad record locks everybody out.
Correct when claims are never lost or reused, a batch is answered as a whole, and the
database stays loadable.

**Persisting returns** (`persist-results.py`, gate in `return_validation.py`). Takes a
worker's batch of results, checks it against the claims, merges it and closes the
claims. Hard: late, partial and repeated returns.

**Owner mutations** (`mutate-tracking-database.py`, `apply-source-repairs.py`,
`scan-shownotes.py`, `migrate-tracking-database.py`). Change sources, statuses and
metadata beside the queue. Hard: changing a talk a worker holds; registering a source
on a talk whose analysis was made without it.

**Run obligations** (`run-obligations.py`). State: a ledger with, per run, the closed
claims it covers, what it still owes (downstream steps, an offer, a session, a report) and
the claim of the host that conducts the session. Operations: adopt, open, dismiss, record
(downstream, offer, disposition, session, report), claim, count, reconcile, release.
Hard: results persist, days pass and talks are requeued between a reading and the command
that acts on it; hosts are lost between a claim, a count in the other file and its record.
Correct when every persisted result reaches the speaker, the offer and the report cover
what the run covers, sessions count once, and a run can complete.

**Analysis files** (`write-analysis.py`). Reads the database and writes a batch of
Markdown files with backups and reverse rollback, without a lock. Hard: a fault between
two files, an interrupt between a rename and its bookkeeping, a slow writer of an older
generation. Correct when no earlier file is lost and every report is true.

**Supervised extraction workers** (`artifact_supervisor.py`). A child process per artifact
with a request pipe, drained outputs, limits, a deadline, and a cleanup thread with a
deadline of its own; containment differs per platform. Hard: exits, answers, floods,
grandchildren and deadlines in any order. Correct when the call returns, a result is whole
and from a worker that ended well, and nothing it started is left unless it says so.

**Transcripts, audio and videos** (`fetch-transcript.py`, `transcript_timing.py`,
`extract-local-audio.py`, `batch-download-videos.py`). Install artifacts beside receipts
that bind exact bytes. Hard: three renames that are not one, retries after kills, an owner
who edits, names that several invocations share, power loss. Correct when a receipt that
verifies is true and what a call installed and reported stays; where the code gives less,
the properties say so (`VideoKept`, `AudioKept`).

**Vault summary** (`render-vault-status.py`, `summary_lock.py`,
`skills/vault-profile/scripts/section15_pattern_history.py`). Two commands rewrite
disjoint blocks of one Markdown file under one lock, next to an owner without one.

**QR publication** (`skills/presentation-creator/scripts/generate-qr.py`). Calls link
providers, writes PNGs, changes a deck and commits a record. Hard: none of it can be
rolled back and every answer can be lost. Correct when receipts name every effect, the
record tells where its link leads, and nobody's decision is overwritten.

**Deck assembly** (`skills/presentation-creator/scripts/`, `skills/illustrations/scripts/`).
Passes over one deck in PowerPoint and in Python, which number slides from 0, from 1 or as
the outline does, while one of them moves all later slides. Correct when the deck is its
outline.

**Illustrations** (`skills/illustrations/scripts/generate-illustrations.py`). Renders a
grid of styles, records it, lets only a rendered model draw, and keeps numbered versions.
Runs take minutes and no lock.

### How they interact

    operator / agent
       |  claim, recover, normalize            return batch           plan
       v                                         v                     v
    queue-state.py     persist-results.py    mutate / repairs / scan / migrate
       \                    |                     /
        v                   v                    v
      snapshot -> validate -> candidate -> commit_tracking_database(expected, candidate)
                                                  |
                            lock, stage, re-check, backup, rename, fsync
                                                  |
                                        tracking-database.json
                                                  |  (read without the lock)
        +------------------+----------------------+---------------------+
        |                  |                      |                     |
    write-analysis.py  run-obligations.py   summary commands     generate-qr.py
     analysis files     ledger, counts      one Markdown file    links, PNGs, deck, record

    fetch-transcript, extract-local-audio, batch-download --> artifacts and receipts
    every extraction of an artifact                       --> run_authenticated_worker

Processes share files and send no messages. A command reads one snapshot of the
database, computes, and commits *against that snapshot*; a stale snapshot makes the
commit fail. `TrackingDatabaseIO` proves that this makes each command one atomic step,
and `QueueState`, `RunObligations` and `QrPublication` take that step as their grain.
Threads exist in one place, the supervisor: `SupervisedWorker` interleaves the caller's
thread, the pipe threads and the cleanup thread.

The ledger and the database are two files. Only `count-session` writes the second while
it holds the first one's lock; `RunObligations` takes every other command as one step over
a reading of the database that may be out of date.

The tools in `MCVaultTools` share no state with each other: each owns its files, and what
they read of the database (a slug, a source) does not change under them or is re-read, as
the models say. Their composition is therefore a choice and no product: a behaviour is
that of one of them.

### Components that are not modelled

| component | why |
|---|---|
| Scoring cohort (`adherence_baseline.py`) | a pure function of stored scores; its verdict is the input `stale` of `Normalize`; next in the plan |
| Artifact capability and evidence, slide and deck extraction | pure assessments and parsers of one artifact; their verdicts are inputs (`cap`, `stale`, `broken`) |
| Date provenance | writes dates through the modelled transaction; the queue reads none of it |
| Preflight and audits, catalogue feedback, speaker profile | read-only reports and statistics |
| Vault authority | resolves one path once per command |
| Clarification sessions | prose for an agent; what is recorded of one is in `RunObligations` |
| Shownotes publisher, screencast tools | sequential transformations of files of their own |
| Repository gates, skills, rules, documentation | continuous integration, and prose |

`PROJECT.json` lists each of them. Most of the repository's lines are of this kind:
`pptx_evidence.py`, `pattern_evidence.py`, `return_validation.py`, `preflight-vault.py` and
`pptx-extraction.py` alone are some twenty thousand lines of validation, field by field, of
one document, with no state to keep between calls. A model of them would be the same
conditions in another language, and a property of it a repetition of a condition; the
models take the verdict as a free input instead. The share of the code's lines that the
models stand for is low for this reason.

## 2. The models

### TrackingDatabase and TrackingDatabaseIO

`TrackingDatabase` says what callers rely on: a register whose value is replaced only by
a candidate *computed from that very value* (`Commit`), created only where nothing is
(`Initialize`), and that a power loss sets back at most to a value not yet settled by a
directory fsync.

`TrackingDatabaseIO` is the code, one syscall (or one indivisible group of checks) per
action. A `Writer` is a process; `pc` is its place in `commit_tracking_database` or
`initialize_tracking_database`. A file is a record of what `FileGeneration` compares
(`ino`, `gen` for size and modification time, `ctime`), its mode, its bytes, and whether
its data was fsynced. Bytes are the set of authors whose entry they hold: enough to see
a lost update. `db` is what the name means now, `fallback` what it may mean after a
power loss; `stage[w]` tells whether the staged name is still the process's own.

| action | code |
|---|---|
| `Read`, `LoadFinish` | `snapshot_tracking_database`: lstat, open, fstat, read, compare |
| `OpenLock`, `Flock`, `VerifyLock`, `Unlock` | `exclusive_file_lock` |
| `FirstCheck`, `Recheck`, `LastCheck` | the three calls of `_require_expected_generation`, or of `_require_missing_database` |
| `OpenStage`, `WriteStage`, `SyncStage`, `Verify`, `StageFault` | `open_retained_stage`, `verify_retained_stage` |
| `OpenBackup`, `FillBackup` | `_write_exact_backup` |
| `Replace`, `Link`, `InstallFault`, `Confirm`, `FsyncDirectory` | installation, proof, durability |
| `Inspect`, then `Remove` (`Unlink`) | cleanup of the staged name after a hard link, an unfinished stage or the end of the transaction: the look, then `os.unlink`; a file may take the name over in between |
| `Told` | whether what cleanup has to say reaches anybody: not if the transaction raises after its stage was made |

The environment is a set `Env` of disturbances: `edit` (save by rename, rewrite in place,
write with a restored modification time), `chmod`, `churn` (a sync provider moves change
times), `swap` (a staged name is taken over), `lock` (the lock file is recreated),
`crash`, `power`, `faults` (a syscall fails), and `window` (disturbances may also fall
between the last look and the install syscall, where the code has no defence).

### QueueState

One command is one step. A talk is a record of status, reprocess reason, sources on
record, generation, current claim and claim history. Dropped: titles, text fields,
scores, and of the adherence baseline everything but its exclusion list. What a command
reads from elsewhere is chosen freely: what the artifact probe says of each talk, which
scores are stale, the `--now`, the `--limit`, the filenames, the returns.

| definition | code |
|---|---|
| `ClaimContract`, `BatchContract`, `Admitted` | `validate_talk_queue_claim_state`, `validate_queue_claim_database`: what every reader demands |
| `Strict` | `validate_database` of `queue-state.py`: the same without status drift |
| `Normalize`, `ClaimCommand`, `Recover` | the three writing commands of `queue-state.py` |
| `Persist` | `persist-results.py`: `BatchFits` is the gate, `Merged` the merge |
| `RepairSources` | `apply-source-repairs.py` |
| `DeclareLocalAudio`, `PromoteSourceAlias`, `UpdateTalkPublishing`, `RecordPptx` | operations of `mutate-tracking-database.py` that touch sources or status |
| `MigrateObservations` | `gate_persisted_observations` |
| `ScanShownotes` | `scan-shownotes.py --apply` |
| `OutsideEdit` | a hand edit of a claimed talk's status: the drift `recover` repairs |

Two history variables are read by properties only. `saw` holds the sources on record when
a talk was last claimed; `filled` those that a writer has filled in since.

`Fillers` names the writers that add a source without looking at the talk's status:
scans, published videos, catalogued decks, and repair plans that expect `null`. They fill
in-flight and analysed talks, and an analysis may land or stay without that source (see
Findings). `ReturnMissesOnlyFilled` and `OnlyFillersKeepAnalysis` are checked with all of
them at work and say that nothing else has this effect: not a claim, a recovery, a merge,
a migration, nor any writer that looks at the status. `Outside = {}` means nobody edits
claimed talks by hand.

### AnalysisBatch

`atomic_write_batch` of `write-analysis.py`, one rename, unlink or bookkeeping assignment
per action, because Python delivers an interrupt between any two. `disk` is what each
target's name means, `saved` what the backup names mean, `stage` who owns the staged
names; `recorded` and `marked` are the `backup` and `installed` fields of the items,
`prior` a history variable: the targets as the run found them.

| action | code |
|---|---|
| `Start`, `Recheck` | the two calls of `preflight_output_targets` |
| `StageItem`, `StageFault` | the staging loop; the stage itself is the one of `TrackingDatabaseIO` |
| `Inspect`, `MakeBackup`, `MoveAside`, `MoveFails`, `RecordBackup` | moving an earlier file to a backup name |
| `Install`, `MarkInstalled`, `Confirm`, `CommitFails` | renaming the staged file, `item["installed"]`, `installed_target_warning` |
| `ClearBackup` | dropping backups once the batch is in place |
| `RemoveInstalled`, `RestoreBackup`, `ForgetBackup`, `EndUnwinding` | `_rollback_analysis_batch` and the report |
| `InterruptOutside`, `InterruptCommit`, `InterruptUnwinding` | a `KeyboardInterrupt` while staging or clearing, in the commit loop, in the rollback |

The environment: `faults`, `crash`, `substitute` (a staged name is taken over),
`directory` (a directory appears under a free target name), `interrupt` and
`interrupt_unwinding`. A process is interrupted at most once per run.

### RunObligations

A persisted fact is one closed claim: run, talk, generation. `db` holds the facts, which
talks are analysed and the counted runs; `ledger` is the file, of schema 3 or, at first,
of schema 2. `earlier` is the database and the day before their last change: a command
works on the current reading or on that one. That a single change overtakes a command is
a bound. `heard` is a history variable: over which facts the speaker was asked and told.

| action | code |
|---|---|
| `Adopt`, `Open`, `Dismiss` | which results a run covers; `Opened` joins talks, relinks known ones and withdraws an offer |
| `RecordDownstream`, `RecordOffer`, `RecordDisposition`, `RecordReport` | the steps of `next_action` |
| `ClaimSession`, `Decide`, `ReleaseSession` | a host's claim on a session; the operator frees one by its token |
| `CountCheck`, `CountCommit` | `count-session`: two steps under the ledger's lock, the second in the database |
| `ReconcileCount`, `RecordSession`, `Refused` | what schema 2 left in doubt; the session's end; a host told its claim is gone |
| `Upgrade` | the read that rewrites a schema 2 ledger |
| `Persist`, `Requeue`, `NextDay`, `Crash` | the environment |

### SupervisedWorker

One call of `run_authenticated_worker`. `call` is the supervisor (its place, its clock in
ticks, the cleanup thread), `procs` the child and one process it may start (`heir`, in the
process group or detached from it), `pipes` the request and the answer and the threads
that move them. Standard error, which is only hashed, is left out.

| action | code |
|---|---|
| `Spawn`, `Contain`, `Attach`, `Launch` | the start, and the job object on Windows |
| `Poll`, `Sample`, `Settle`, `Sleep`, `Join` | the monitoring loop and the wait for the pipe threads |
| `CleanupThread` (`Terminate`, `Wait`, `KillSeen`, `Close`, `JoinThreads`, `Check`) | `_cleanup_invocation`; `GiveUp` in the caller when its deadline passed |
| `WriterThread`, `DrainerThread` | the threads on the pipes, a flood over the limit included |
| `Outcome`, `Return` | reconciliation of a vanished child, verification, what the caller gets |
| `ChildAnswers`, `ChildForks`, `ChildExits`, `HeirExits`, `Tick` | the worker does what it likes; time passes |

### SummaryFile, QrPublication, TranscriptBundle

`SummaryFile`: the file is its prose (a count of the owner's saves) and two blocks (the
generation each was rendered from, absent, or torn). `DryRun`, `Render`, `Acquire`,
`Read`, `Recheck` and `Install` are the two commands; only an apply of the status command
is bound to a digest (`Bound`).

`QrPublication`: `world` is the providers' links, the talk's record, the database's
generation and the slug's lock; a run keeps what it knows (`meta`, `prior`), what its
receipt says and, as history, what it did (`effects`). Every provider call can take effect
without being heard of. Other writers commit without the lock (`OtherCommit`), and agents
hand over links they pointed themselves (`StartPreresolved`).

`TranscriptBundle`: a receipt names the text it is about and the recording it was judged
by. A fetch looks, judges, fetches captions or transcribes, stages, guards, installs one
file after another (`Install`) and rolls back (`Rollback`); it may be killed and repeated,
each rename may fail, the owner edits and recordings are replaced. `alone` marks
invocations nobody else disturbed: their reports are held to more.

### VideoDownload, AudioExtraction

`VideoDownload`: `names` is what the staging and the final name mean. Files keep their
identity when renamed, and yt-dlp goes on writing to what it opened, under any name.
`AudioExtraction`: the output name, and whether bytes and name were synced. `Link`
installs; any failing link leads to `Copy`, as in the code. `Compare` accepts another
call's equal audio, `PowerLoss` undoes what was not synced, `Rewrite` changes the recording
under ffmpeg. A call remembers what it relies on: audio it installed (`own`), audio it
found and compared (`found`), or audio it found that a failing copy of another call has
removed since (`undone`).

### DeckAssembly, StyleExploration

`DeckAssembly`: an outline (entries with any numbers, frames, one slide without a note or
one with an old code) goes through `Lay` or `Adapt`, `Apply`, `Generate`, `Expand`,
`InjectNotes`, `ApplyBackgrounds` and the QR insertion, each with the numbering of its own
code. A pass is a step, but `ExpandBuilds` goes record by record through an open copy
(`ExpandBuild`, until `SaveExpanded` or `ExpansionFails`), and a QR code, once per colour,
through intermediates (`InsertGroup`, until `Deliver` or `InsertionFails`). Slides and
images are known by entry and step, so a property can tell what is where. `Ranked` is the
outline in order, said by rank; `DeckSlideNumber` counts the frames that move a slide as a
set (`Surplus`), where the code adds up their numbers.

`StyleExploration`: `studio` is the outline's baked model, the grid, its record
(`rendered.json`, written by truncating it) and the numbered versions; `artists` are
invocations. `GatePasses` is `check_style_explore`, with records of an earlier release.
A grid at a time, and one slide, style and format, are bounds.

## 3. Runs

All bounds are constants of the `.cfg` files. Deadlock is not an error: a vault may rest.

| run | question | bounds and why they suffice |
|---|---|---|
| `io_edits` | can two commits, or a commit and an edit, lose an update? | two processes, one transaction each, one edit, one metadata change, one staged name taken over: every pair of an interferer and a victim, at every interleaving |
| `io_faults` | are reports true, do durable values survive, does the register hold and every transaction end? | a crash or failing syscall at every step, one replaced lock file, one power loss (a second finds an empty `fallback`); under `FairSpec` |
| `io_litter` | is a staged file that is left behind always told of? | expected violation; one writer whose syscalls fail |
| `queue_claims` | do claims stay loadable, complete, answerable? | two talks, first pending or skipped, two runs, one batch id, two times, three generations: a lease, its recovery, a second lease by another run and its answer, with partial batches and reused identities |
| `queue_drift` | what is left under hand edits, and under every filler: are batches answered whole, and what can a stored analysis miss? | two talks, two runs, two generations, two sources, all fillers, hand edits to `pending`. The second talk starts pending, and only claims, recoveries and returns change it (`NarrowInit`, `Narrow`): it is there for the batches, while fills, repairs and hand edits meet the first |
| `queue_fill` | does a stored analysis have every source of its talk? | expected violation |
| `analysis_faults` | does a failing or interrupted batch lose an earlier file, or misreport? | one process, two runs (the second finds what a failed, crashed or unverified first one left), two files (an item before and one after the failing one), two acts of meddling, one interrupt per run |
| `analysis_interrupted` | is the rollback what its test says? | expected violation |
| `obligations` | does every result reach the speaker, and every run complete? | one talk, two runs and two hosts; each behaviour stays within one scope: two results without sessions, one result and two days (all three strengths of an offer), or one result, sessions on two hosts and one fault; a ledger of schema 2 or none |
| `obligations_listing` | can a listed run be opened as the listing says? | expected violation, in the same vault |
| `tools` | the eight commands of `MCVaultTools`, each with its own question | below |
| `qr_stale_target` | does a successful publication lead to its target? | expected violation; two runs, two targets, nobody else |

`tools` checks the conjunction, or the union, of what the modules state:

| property | of |
|---|---|
| `ReportsTrue` | `OutcomeTruthful` (a worker's result is whole, nothing it started is left), `ReceiptTrue` (a rejected QR run names every effect), `ReportTrue` (a fetch reports the files it leaves) |
| `RecordsHonest` | `RecordTellsTarget` (QR), `ReceiptsHonest` (transcripts), `EvidenceIsOfModel` (the grid's record) |
| `RecordsKept` | `BlocksKept` (summary), `DecisionKept`, `OneManagedLink` (QR), `EvidenceKept` (transcripts) |
| `MediaKept` | `VideoKept`, `AudioKept` |
| `DeckAssembled` | order, notes, images and codes of a deck |
| `VersionsKept` | numbered images |
| `CallReturns` | liveness of the supervisor |

Its bounds: a deadline and a cleanup of one tick each on three platforms (deadlines are
compared, never added up); two status runs and one pattern run, one database commit, one
save of the owner; two QR runs, two links, one foreign commit; one fetcher that runs
twice, after a kill or not, with one change by the owner; three downloads of one video
(two cannot rename over each other's fresh start); two extractions twice each, two rewrites,
one power loss; outlines over the numbers 0, 1 and 3, frames or none; two artists, two
models, two renders and one move of the owner.

Every property has a mutant in `PROJECT.json`: a plausible bug in one definition that
makes TLC find the property violated in the same run.

Processes, files, run ids and batch ids are symmetric in the safety runs; talks are
numbered because `claim` selects in filename order. No run with a liveness property
(`io_faults`, `obligations`, `tools`) uses symmetry; where one value stands for any, an
`Init` or a scope says so.

**Fairness.**

- `TrackingDatabaseIO!Fairness` is weak fairness of each process's next step: a running
  process continues, and `flock` is granted once the inode's lock stays free. Nothing
  makes a process start or the environment act. Weak fairness is enough because each
  process attempts boundedly many transactions, so a waiter is not passed over forever;
  with unbounded traffic the kernel's queueing would be needed.
- `SupervisedWorker!Fairness`: the caller's thread runs and time passes. Nothing is asked
  of the child, of the pipes or of the cleanup thread, which may hang in a system call.
- `RunObligations!Diligence`: a host goes on with the claim it knows (`HostStep`), the
  operator with each run (`RunStep`), sessions are claimed, and abandoned ones freed. That
  is not what code guarantees but what its documentation tells an agent to do; `RunsComplete`
  says that this diligence suffices, so that no order of commands, lost host or old record
  leaves a run that nothing can complete.

## 4. Findings

Five statements of the repository are not what the code does. Each is a run that TLC
finds violated.

1. **`queue_fill`**: `mutate-tracking-database.py` names requeueing an analysed talk "the
   rule every source registration follows". `scan-shownotes.py` fills an empty source
   field and leaves the talk analysed; its test expects so. A field filled while a worker
   holds the talk ends the same way: the return is accepted, and the stored analysis
   misses that source.
2. **`analysis_interrupted`** (a bug): a test says that an interrupted batch restores
   every target. An interrupt between `os.replace(target, backup)` and
   `backup_installed = True` makes the inner `finally` unlink the backup, by then the only
   name of the earlier analysis. Executing the function with a `SIGINT` at that point
   deletes the file.
3. **`obligations_listing`**: `open` with exactly the talks listed as `missing_talks` is
   documented to cover the run. If the run recorded such a talk under another run's claim
   and then persisted it itself, that open joins nothing, reports success, and the run
   stays listed until it completes.
4. **`qr_stale_target`**: a tracked link is said to be reused only if it leads to the URL.
   The code compares the *recorded* target, and a retarget is recorded only by the final
   commit: after a retarget whose run did not commit, the next run for the earlier URL
   reports success with the printed code leading elsewhere.
5. **`io_litter`**: the change log says that what cleanup has to report is not discarded on
   the way out of a failing transaction. That holds while the stage is being made. Later,
   `commit_tracking_database` and `initialize_tracking_database` collect it in a local list
   in their `finally` clauses, and the exception leaves that list behind: a staged file
   that could not be removed, or whose name was taken over, is told to nobody.
   `ReportsTruthful` claims it only for the transactions of which it is true.

### Limits met on the way

Other constants, or properties stronger than the ones checked, show these; the properties
of the runs say where each of them ends.

- With `window` in `Env`, `NoLostUpdate` fails: the last comparison and `os.replace` are
  two syscalls. Without it the property is checked and proved, so this is the only gap.
- Cleanup looks at the staged name and unlinks it in two syscalls: another process's file
  that takes the name over in between is removed, although the documentation says that a
  substituted name is left untouched. `StrangerSpared` speaks of files that were there when
  cleanup looked. There is no unlink by descriptor that the code could use.
- A partial backup left by a crash does not fail every retry: the next transaction that
  needs the same name is refused, and so is each one after it while the database still has
  those bytes. `BackupHoldsInput` checks that none of them installs over it; that the
  refusal ends only by hand is a statement about what is enabled, and not checked.
- With `source_repairs` in `Fillers`, a repair plan that expects a field to be `null` or
  empty, and not missing, adds a source to an analysed talk (`apply-source-repairs.py:236`).
- With `interrupt_unwinding` and `faults`, an interrupt while `AnalysisBatch` rolls back
  runs the rollback again from the `finally` clause and unlinks files the first pass
  restored. With two processes in `Writer`, two unlocked failing runs restore each other's
  files.
- Three invocations of `batch-download-videos.py` can replace a reported video by a partial
  one: one verifies, a second restarts the shared staging name, the first renames it over
  what a third reported. Two cannot. The comment at `batch-download-videos.py:213` argues
  only for what one invocation sees.
- An extraction whose hard link fails, for whatever reason, copies; if the copy then fails,
  it unlinks the name under another call that had already compared and reported it.
  `AudioKept` excepts that call, and no other.
- Two `--edit` or `--fix` runs at once choose the same version number, and the later write
  goes over the earlier one's image. `VersionsKept` excepts it, so no property catches it.
  Neither calls the
  render gate, although `enforce_render_gate` says that no path bakes an unrendered model;
  and an image torn by a kill passes the gate's `isfile`.
- The build manifest holds numbers of the outline of its pass: an outline edited between
  passes moves them, and frames of an earlier build, or with another extension, can stand
  in for the wanted ones.
- `builds.md` says that expanded slides use the blank layout; `ExpandBuilds` uses the
  parent's. Concurrent wrappers share intermediate names under `$STAGE_DIR`.

## 5. Proofs

Every theorem is checked by TLAPS from the specification, for every value of the
constants under the named assumptions: names are distinct, bounds are naturals, sets of
talks and of runs are finite, status sets are within what the code accepts, and `None`,
which stands for Python's `None` and for a file that is not there, is none of the values
it is told from (`NoneIsNothing`, `ToolAssumptions`). No bound of a run enters an argument.

**TrackingDatabaseIOProofs.** The inductive invariant is `AllInv`, four parts:

- `TypeInv`: `TypeOK`, and a process past its snapshot has one;
- `LockInv`: holders of one inode are one process, and a holder past verification holds
  the inode the name means. `LockExcludes` alone is not inductive: it says nothing of a
  process that has locked an inode but not yet verified it;
- `GenInv`: generations are numbered by `stamp`, and two files of one generation and
  change time have the same bytes. This is what lets equal metadata stand for equal bytes;
- `CommitInv` (without `window`): a process about to install has an exact, synced stage,
  and the database is still what it last looked at. It needs the lock against other
  processes and the assumption on the environment against editors.

| theorem | property | assumption on the environment |
|---|---|---|
| `TypeCorrect` | `TypeOK` | none |
| `MutualExclusion` | `LockExcludes` | none |
| `SnapshotsFaithful` | `SnapshotFaithful` | none |
| `InitializationCreates` | `InitializeCreates` | none |
| `NoUpdateLost` | `NoLostUpdate` | no `window` |
| `DatabaseNeverTorn` | `NeverTorn` | no `window` |
| `RegisterImplemented` | `RegisterSpec` | no `window` |

The second half of the module adds three invariants to those. `ReportInv` ties the outcome to
the place in the code: none before the install is looked at, a success from then on, a
staged name past the cleanup only with a warning unless the transaction failed with its
stage complete. An unlink that is under way found its own file, and what may have come
there since is no longer a stranger that cleanup saw. `BackupInv` follows one backup from
`partial` to `exact`; only the holder of the lock writes one. `DurableInv` looks ahead: a
process whose report says durable has nothing older under the name, nothing older that a
power loss could bring back, and *nobody holding an older staged file*; that last part is
what the property does not say and the induction needs. Nothing is assumed of the
environment: durability holds even in the window.

| theorem | property |
|---|---|
| `ReportsAreTruthful` | `ReportsTruthful` |
| `BackupsHoldInput` | `BackupHoldsInput` |
| `DurabilityHolds` | `DurableSurvives` |
| `StrangersSpared` | `StrangerSpared` |

**QueueStateProofs.** Each action gets an *effect* lemma that says what it may do to the
claims (an owner writer keeps them, a claim issues one new generation for a whole batch,
recovery and persisting close open ones), and each property is proved from the effects.

| theorem | property | argument |
|---|---|---|
| `DatabaseTyped` | `TypeOK` | inductive; a claim is only issued on a claimable talk |
| `AlwaysLoadable` | `Loadable` | inductive with `TypeOK`; the commands that validate their candidate give it directly, `persist-results.py`, which does not, needs that a merge keeps epochs and exclusions |
| `NoLeaseClaimedOver` | `NeverSuperseded` | a strict database has no open lease on a claimable talk |
| `BatchesAnsweredWhole` | `BatchAnsweredWhole` | the gate asks for all members under one exclusion list, which names the whole epoch |
| `OpenBatchesAnswerable` | `OpenBatchAnswerable` | inductive with `Loadable`, once hand edits are ruled out: members of one batch share their claim time, so recovery takes all or none |
| `GenerationsCounted` | `GenerationsGapFree` | per talk, the claims are in bijection with 1..generation |
| `ClosedClaimsStay` | `ClosedClaimsKept` | directly from the effects |
| `ReturnsMissOnlyFilled` | `ReturnMissesOnlyFilled` | for any `Fillers`; invariant: an in-flight talk has only sources in `saw` or `filled` |
| `OnlyFillingKeepsAnalysis` | `OnlyFillersKeepAnalysis` | for any `Fillers`, from the effects: a writer that looks at the status requeues |

**RunObligationsProofs.** The inductive invariant is `TypeOK /\ LockHeld /\ CountInv /\
RunCovered`. `LockHeld`: while `count-session` holds the ledger's lock, what it checked
when it took it still holds, so its second step may act on it. `CountInv`: the number in the
database is the number of runs whose record or history says counted, which is where lost
responses and upgrades of old records meet. `RunCovered` is inductive as it stands.

| theorem | property | argument |
|---|---|---|
| `RecordsStayWellFormed` | `TypeOK` | each command writes one well-formed record |
| `RunsStayCovered` | `RunCovered` | a wider run withdraws its offer, a change after a report reopens it |
| `EveryResultIsHeard` | `EveryFactHeard` | from the invariant: an uncovered claim is listed, a covered one is in a run whose next action exists, or was told |
| `SessionsAreCountedOnce` | `SessionsCountedOnce` | from `CountInv` |
| `ClaimsAreHonoured` | `ClaimsHonoured` | `LockHeld` for the count; for the end of a claim, what each command may do to another's record |
| `OffersAreOfToday` | `OfferedToday` | only `RecordOffer` makes an offer, at a reading it may have |

**AnalysisBatchProofs.** `TypeOK` is proved for any number of processes. The others are
proved under `SoleWriter`, that no other process writes analyses meanwhile:
`write-analysis.py` takes no lock, and with two writers they are false (section 4). It is a
hypothesis of the theorem and no assumption of the module. The invariant `BatchInv` says of
every item of an uninterrupted run where it stands (`Fresh`, `AtHand`, `Placed`, `Kept`,
`Undone`, `Settled`) by the step that comes next, and relates the item's bookkeeping to the
names on disk; while the batch is undone, whatever is behind is settled and whatever is ahead
is as the loop left it.

| theorem | property | hypothesis |
|---|---|---|
| `TypesHold` | `TypeOK` | none |
| `PriorFilesKept` | `PriorKept` | `SoleWriter` |
| `ErrorsTellTheTruth` | `RollbackReported` | `SoleWriter` |
| `SuccessIsWhole` | `InstalledWhole` | `SoleWriter` |

**MediaProofs, RecordProofs, DeckProofs, ToolProofs** are about the commands of `MCVaultTools`. Each
has an invariant of its own, and the composition's step is a step of one of them.

- `VideoInv`: a call between its verdict and the rename has verified a file that is whole
  and stays so; what took the name since was renamed there by an invocation that says so.
- `AudioInv`: what a call holds is at most as new as the recording is now, so a rewrite
  under ffmpeg shows; what it installs is of one version; what it reports is synced, or was
  undone by a failing copy after it had only found it (`relies`). While one call copies, no
  other has installed the output itself, which is why its failure takes nothing of theirs.
- `SummaryInv`: whoever works on the file has the lock; a status block is as new as the file
  the run is bound to; after the last comparison only edits happen, and those bring no
  block. `SummaryBounded` adds the bounds, for the types.
- `QrInv`: what a run knows of its own links and codes (`Sure`), and what the record says
  of a link that no run is still working on (`Tells`).
- `BundleInv`: a receipt that verifies is good, together with what *any* fetch may rely on
  at its place (`Steady`) and what one may that has been alone since it began (`Alone`).
- `StyleInv`: the name of a cell tells the model and the lane that drew it (`GridTrue`), a
  cell in the record of this talk was drawn for it (`CellsTrue`), also while its run has not
  yet written the record; version numbers are bounded, so that there is a next one.
- `WorkerInv`: only a child that was launched is watched, one that is joined is reaped, the
  body ends without a reason only on exit code zero (`Calling`); a drainer that came to the
  end has read all that will be written, and cleanup calls itself done, unfailed, only when
  nothing is left (`Cleaning`).
- `DeckInv`: what the deck is between two passes. Until the expansion it is known slide by
  slide (`Laid`, `Applied`). From then on it is a `Listing` of what is due: every view shown
  once, in order, each slide with its own image, note and background as far as the passes
  are (`Dressed`, `Noted`, `Grounded`). Between two records (`Expanding`) the parents in `R`
  still wait, all of them before those that are done, so each is still where its record
  says; that is why the highest goes first. `RecordExpands` shows that a record keeps the
  listing, `PositionsRank` that positions and entries correspond whatever the numbering, and
  `SlideNumberIsPlace` that the number `deck_slide_number` wrote down before the expansion is
  the place of the slide after it: both count the views up to that slide. Between two
  colours (`Inserting`) the slides of those that are done have the new code and the others
  are untouched, because no slide is in two groups.

| theorem | property |
|---|---|
| `MediaIsKept` | `MediaKept` |
| `RecordsAreKept` | `RecordsKept` |
| `ReportsAreTrue` | `ReportsTrue` |
| `RecordsAreHonest` | `RecordsHonest` |
| `VersionsAreKept` | `VersionsKept` |
| `DecksAreAssembled` | `DeckAssembled` |
| `ToolTypesHold` | `TypesOK` |

**Only model-checked.** `EveryTransactionEnds`, `CallReturns` and `RunsComplete`: liveness
under fairness is out of the prover's reach. Every other property of a passing run is
proved.

**What proving found.** Four places of the models where the proofs were exacting:

- `AudioExtraction` has to tell every version of every file of the recording apart, or with
  two rewrites a file could compare equal to what it no longer is: each file counts its
  versions, and the assumptions leave their number open.
- `VideoDownload` forgot at an invocation's next call that it had renamed, although the
  damage its rename may have done stays: `promoted` is remembered.
- `DeckAssembly` expanded all records in one fold over a sorted sequence. The macro changes
  an open copy record by record and may fail on any of them, and so does the model now; what
  an induction over data would have to say of the fold is the invariant `Expanding`.
- `StyleExploration` wrote its files with the operators `:>` and `@@`, of which the provers
  know nothing; `With` says the same by a function.

A model value is different from everything by TLC's rule and not by logic: where a proof
needed `None` to differ from a record, a reason or an outcome, the module says so.

## 6. What the models leave out

- JSON itself: bytes are either a database or `Garbage`. Duplicate keys, limits and
  encodings of the decoder are not modelled.
- Errors of close and unlock calls that only add a warning share the step of the call.
- `talk` schemas, and return payloads: a return is its generation and its result.
- Of `write-analysis.py`, what runs before the batch is written: the checks against the
  database and the rendering. A name that collides with a target after case folding is
  refused by the preflight and left out; directories take the same path. A failing
  `os.close` of a fresh backup leaves an empty hidden file, as an interrupt does.
- The clock is an input per command of the queue. Nothing relates the times of two
  commands, which is weaker than any clock; claims about clock skew, and that recovery is
  never refused for another run's drift, are statements about what is enabled and need the
  composition below.
- A repair plan for several talks is a sequence of plans for one: its checks and changes
  are per talk, and a prefix of a plan is itself a plan.
- Of the ledger: stamps, free text, report bytes (content-addressed, installed before the
  ledger binds them). A ledger write that lost a race is no step.
- Frames, JSON and authentication of a worker's answer: it is whole or not, and verifies
  or not. `local_media_download.py` and the transcription worker are calls of the
  supervisor and keep no state.
- Texts, images, audio: known by origin, version or serial number. `validate_transcript` is
  a table over three sizes and three recordings.
- Of the illustrations: the image services, prompts and masks, `--compare`, the chain of
  `--build`. Of presentation creation: the outline's other validators, guardrails, and the
  wrappers that stage files for PowerPoint; PowerPoint itself does what its macros ask or
  fails.

## 7. Plan

Done: transactions, their register and its refinement; the queue with its owner writers;
the analysis batch; obligations with their liveness; the supervisor; summary, QR code,
transcript, video, audio, deck and illustrations; and, of all of these, every safety
property proved. Next:

1. **VaultQueue**: `QueueState` steps split into snapshot, compute and commit over the
   register, with a shared clock: refinement of `QueueState`, lease liveness, and the
   conditions under which `recover --run-id` is refused.
2. **The analysis writer beside the queue**: with `AnalysisBatch` over the database's
   generation, when the file of a talk is older than what the database holds; and what the
   batch keeps when it is interrupted, for which `Position` needs the interrupted places.
3. **AdherenceCohort** as functions, checked against a reference definition; the build
   chain of the illustrations beside `StyleExploration`.

------------------------- MODULE TrackingDatabaseIO -------------------------
(***************************************************************************)
(* The write transaction of skills/vault-ingress/scripts: the cooperative  *)
(* sibling lock (cooperative_lock.py), the retained staged file            *)
(* (retained_stage.py) and commit_tracking_database and                    *)
(* initialize_tracking_database (tracking_database_io.py).                 *)
(*                                                                         *)
(* Every toolkit command is a separate process, here a Writer: it captures *)
(* a snapshot, computes a candidate from it and commits the candidate      *)
(* against that snapshot.  One action is one step after which another      *)
(* process, an editor, the sync provider or a crash may intervene.  The    *)
(* environment is whatever Env enables; it is the part the code defends    *)
(* against and does not control.                                           *)
(***************************************************************************)
EXTENDS Naturals

CONSTANTS
    Writer,    \* toolkit processes
    Editor,    \* the author of edits that do not take the lock
    Missing,   \* no file under the database's name
    Garbage,   \* bytes that are not a JSON object: torn, or a stranger's
    Nothing,   \* an unset per-process field
    Env,       \* the disturbances of this environment
    MaxRuns,   \* bound: transactions one process attempts
    MaxEdits,  \* bound: edits by the editor
    MaxChurn,  \* bound: metadata changes by the sync provider, and chmods
    MaxLosses, \* bound: power losses, and replacements of the lock file
    MaxSwaps   \* bound: staged names taken over by someone else

Author == Writer \union {Editor}

(* A database is the set of authors whose entry it holds; a file adds the
   identity fields FileGeneration compares. ino names the file's creator,
   gen stands for the device, inode, size and modification time, ctime for
   the change time. synced tells whether its data reached the disk. *)
Payload == SUBSET Author
File == [ino : Author \union {Garbage}, gen : Nat, ctime : Nat,
         mode : {"shared", "private"}, bytes : {Garbage} \union Payload,
         synced : BOOLEAN]

Disturbance == {"edit", "chmod", "churn", "swap", "lock", "crash", "power",
                "faults", "window"}
Job == {"commit", "backup", "initialize"}
Outcome == {"none", "unchanged", "durable", "installed_verification_failed",
            "installed_directory_fsync_failed", "conflict", "error"}
Phase == {"idle", "loading", "ready", "waiting", "verifying",
          "check", "stage", "write", "sync", "verify", "recheck",
          "reverify", "backup", "filling", "lastcheck", "lastverify",
          "replace", "confirm", "release", "releasing", "fsync",
          "drop", "dropping", "close", "closing", "unlock",
          "done", "crashed"}

ASSUME EnvAssumption == Env \subseteq Disturbance
ASSUME NameAssumption ==
    /\ Editor \notin Writer
    /\ Garbage \notin Author
    /\ \A b \in Payload : b # Garbage
    /\ Missing \notin File /\ Nothing \notin File /\ Nothing # Missing
    /\ Missing \notin [bytes : {Garbage} \union Payload,
                       mode : {"shared", "private"}]
ASSUME BoundAssumption ==
    {MaxRuns, MaxEdits, MaxChurn, MaxLosses, MaxSwaps} \subseteq Nat

VARIABLES
    db,       \* the file tracking-database.json names, or Missing
    fallback, \* files that name may still mean after a power loss
    lockFile, \* which inode .tracking-database.json.lock names
    backups,  \* hash-bound backup of each possible input
    pc,       \* the step each process is at
    job,      \* the transaction it runs
    seen,     \* the file its current read opened
    snap,     \* its validated snapshot (expected)
    cand,     \* its candidate bytes
    lockFd,   \* the lock inode it opened
    holds,    \* the processes holding flock on the inode they opened
    stage,    \* what its staged name means: nothing, its own file, another's,
              \* or another's that came after cleanup had found its own there
    staged,   \* the file behind its retained descriptor
    result,   \* what it will report
    warned,   \* the processes whose answer tells that cleanup failed
    installed,\* the processes whose rename or link succeeded
    runs, stamp, edits, churn, losses, swaps,
    editor    \* whether an in-place rewrite is under way

procVars == <<pc, job, seen, snap, cand, lockFd, holds, stage, staged, result,
              warned, installed, runs>>
envVars == <<edits, churn, losses, swaps, editor>>
diskVars == <<db, fallback, lockFile, backups>>
vars == <<diskVars, procVars, stamp, envVars>>

TypeOK ==
    /\ db \in File \union {Missing}
    /\ fallback \subseteq File \union {Missing}
    /\ lockFile \in Nat
    /\ backups \in [Payload -> {"absent", "partial", "exact"}]
    /\ pc \in [Writer -> Phase]
    /\ job \in [Writer -> Job]
    /\ seen \in [Writer -> File \union {Nothing}]
    /\ snap \in [Writer -> File \union {Nothing}]
    /\ cand \in [Writer -> Payload]
    /\ lockFd \in [Writer -> Nat]
    /\ holds \subseteq Writer
    /\ stage \in [Writer -> {"none", "own", "other", "late"}]
    /\ staged \in [Writer -> File \union {Nothing}]
    /\ result \in [Writer -> Outcome]
    /\ warned \subseteq Writer
    /\ installed \subseteq Writer
    /\ runs \in [Writer -> Nat]
    /\ stamp \in Nat
    /\ edits \in Nat /\ churn \in Nat /\ losses \in Nat /\ swaps \in Nat
    /\ editor \in {"idle", "writing"}

Init ==
    /\ db \in {Missing,
               [ino |-> Editor, gen |-> 0, ctime |-> 0, mode |-> "shared",
                bytes |-> {}, synced |-> TRUE]}
    /\ fallback = {}
    /\ lockFile = 0
    /\ backups = [b \in Payload |-> "absent"]
    /\ pc = [w \in Writer |-> "idle"]
    /\ job = [w \in Writer |-> "commit"]
    /\ seen = [w \in Writer |-> Nothing]
    /\ snap = [w \in Writer |-> Nothing]
    /\ cand = [w \in Writer |-> {}]
    /\ lockFd = [w \in Writer |-> 0]
    /\ holds = {}
    /\ stage = [w \in Writer |-> "none"]
    /\ staged = [w \in Writer |-> Nothing]
    /\ result = [w \in Writer |-> "none"]
    /\ warned = {}
    /\ installed = {}
    /\ runs = [w \in Writer |-> 0]
    /\ stamp = 0
    /\ edits = 0 /\ churn = 0 /\ losses = 0 /\ swaps = 0
    /\ editor = "idle"

-----------------------------------------------------------------------------
(* Small vocabulary                                                        *)

Goto(w, p) == pc' = [pc EXCEPT ![w] = p]
Report(w, o) == result' = [result EXCEPT ![w] = o]
Enabled(d) == d \in Env
Resting == {"idle", "done", "crashed"}
LockWait == {"waiting", "verifying"}

(* Past lock verification: inside the body of the with statement. *)
Locked(w) == w \in holds /\ pc[w] \notin LockWait

(* An exception: clean up an open stage and release the lock on the way out.
   Until the stage is verified its own code cleans up (_stage_candidate and
   open_retained_stage), then the transaction's finally does. *)
Abort(w, o) ==
    /\ Report(w, o)
    /\ Goto(w, IF w \notin holds THEN "done"
               ELSE IF staged[w] = Nothing THEN "unlock"
               ELSE IF pc[w] \in {"write", "sync", "verify"} THEN "drop"
               ELSE "close")

Generation(f) == <<f.ino, f.gen, f.ctime>>

(* FileGeneration equality, or a difference in the change time alone. *)
SameButChangeTime(f, g) == f.ino = g.ino /\ f.gen = g.gen

(* Mutant of StillExpected: the generation is trusted for the bytes. *)
StillExpectedByStat(now, expected) ==
    now.mode = expected.mode /\ SameButChangeTime(now, expected)

(* Mutant of StillExpected: any readable database with the same mode will do. *)
StillExpectedReadable(now, expected) ==
    now.bytes # Garbage /\ now.mode = expected.mode

(* The three comparisons of _require_expected_generation. *)
StillExpected(now, expected) ==
    /\ now.bytes = expected.bytes
    /\ now.mode = expected.mode
    /\ SameButChangeTime(now, expected)

(* A command changes its own entry and carries every other one over. *)
Candidates(w, b) == {b \union {w}, b \ {w}}

(* Mutant of NewStage: the mode of the replaced file is not carried over. *)
NewStageDefaultMode(w, mode, g) ==
    [ino |-> w, gen |-> g, ctime |-> 0, mode |-> "default",
     bytes |-> Garbage, synced |-> FALSE]

(* Metadata changed, by chmod or by anything that moves the change time. *)
Touched(f, m) == [f EXCEPT !.mode = m, !.ctime = @ + 1]

NewStage(w, mode, g) ==
    [ino |-> w, gen |-> g, ctime |-> 0, mode |-> mode, bytes |-> Garbage,
     synced |-> FALSE]

StrangersFile(g) ==
    [ino |-> Garbage, gen |-> g, ctime |-> 0, mode |-> "shared",
     bytes |-> Garbage, synced |-> TRUE]

-----------------------------------------------------------------------------
(* snapshot_tracking_database and the computation of a candidate           *)

Start(w, j) ==
    /\ pc[w] \in Resting
    /\ runs[w] < MaxRuns
    /\ runs' = [runs EXCEPT ![w] = @ + 1]
    /\ job' = [job EXCEPT ![w] = j]
    /\ seen' = [seen EXCEPT ![w] = Nothing]
    /\ snap' = [snap EXCEPT ![w] = Nothing]
    /\ cand' = [cand EXCEPT ![w] = {}]
    /\ stage' = [stage EXCEPT ![w] = "none"]
    /\ staged' = [staged EXCEPT ![w] = Nothing]
    /\ warned' = warned \ {w}
    /\ installed' = installed \ {w}
    /\ Report(w, "none")
    /\ UNCHANGED <<diskVars, lockFd, holds, stamp, envVars>>
    /\ IF j = "initialize" THEN Goto(w, "ready") ELSE Goto(w, "loading")

(* Mutant of ReadIsStable: nothing is compared after the read. *)
ReadIsTrusted(w) == db # Missing

(* The bytes were read under the opened generation; the snapshot takes its
   generation from the fstat after the read and requires the two, and the
   path's, to agree. *)
ReadIsStable(w) == db # Missing /\ Generation(db) = Generation(seen[w])
SnapshotRead(w) == [db EXCEPT !.bytes = seen[w].bytes]

(* lstat, open without following links, fstat: the generation being read. *)
ReadOpen(w, here) ==
    /\ pc[w] = here
    /\ seen[w] = Nothing
    /\ IF db = Missing
       THEN Abort(w, "error") /\ UNCHANGED seen
       ELSE seen' = [seen EXCEPT ![w] = db] /\ UNCHANGED <<pc, result>>
    /\ UNCHANGED <<diskVars, job, snap, cand, lockFd, holds, stage, staged,
                   warned, installed, runs, stamp, envVars>>

LoadFinish(w) ==
    /\ pc[w] = "loading"
    /\ seen[w] # Nothing
    /\ seen' = [seen EXCEPT ![w] = Nothing]
    /\ IF ~ReadIsStable(w) \/ seen[w].bytes = Garbage
       THEN /\ Abort(w, IF ReadIsStable(w) THEN "error" ELSE "conflict")
            /\ UNCHANGED <<snap, cand>>
       ELSE /\ snap' = [snap EXCEPT ![w] = SnapshotRead(w)]
            /\ \E c \in Candidates(w, seen[w].bytes) :
                   cand' = [cand EXCEPT ![w] = c]
            /\ Goto(w, "ready")
            /\ UNCHANGED result
    /\ UNCHANGED <<diskVars, job, lockFd, holds, stage, staged, warned,
                   installed, runs, stamp, envVars>>

-----------------------------------------------------------------------------
(* exclusive_file_lock                                                     *)

OpenLock(w) ==
    /\ pc[w] = "ready"
    /\ \/ /\ lockFd' = [lockFd EXCEPT ![w] = lockFile]
          /\ Goto(w, "waiting")
          /\ UNCHANGED result
       \/ /\ Enabled("faults")
          /\ Report(w, "error")
          /\ Goto(w, "done")
          /\ UNCHANGED lockFd
    /\ UNCHANGED <<diskVars, job, seen, snap, cand, holds, stage, staged,
                   warned, installed, runs, stamp, envVars>>

(* flock(LOCK_EX) blocks while another process holds the same inode. *)
Flock(w) ==
    /\ pc[w] = "waiting"
    /\ \A v \in holds : lockFd[v] # lockFd[w]
    /\ holds' = holds \union {w}
    /\ Goto(w, "verifying")
    /\ UNCHANGED <<diskVars, job, seen, snap, cand, lockFd, stage, staged,
                   result, warned, installed, runs, stamp, envVars>>

(* Mutant of VerifyLock: the locked inode is not looked up again. *)
VerifyLockNot(w) ==
    /\ pc[w] = "verifying"
    /\ Goto(w, "check")
    /\ UNCHANGED <<diskVars, job, seen, snap, cand, lockFd, holds, stage, staged,
                   result, warned, installed, runs, stamp, envVars>>

(* Mutant of VerifyLock: the failing process keeps the descriptor open. *)
VerifyLockLeak(w) ==
    /\ pc[w] = "verifying"
    /\ IF lockFd[w] = lockFile
       THEN Goto(w, "check") /\ UNCHANGED result
       ELSE Report(w, "error") /\ Goto(w, "done")
    /\ UNCHANGED <<diskVars, job, seen, snap, cand, lockFd, holds, stage, staged,
                   warned, installed, runs, stamp, envVars>>

(* The lock's name must still mean the inode that was locked; otherwise the
   descriptor is closed, which gives up the lock. *)
VerifyLock(w) ==
    /\ pc[w] = "verifying"
    /\ IF lockFd[w] = lockFile
       THEN Goto(w, "check") /\ UNCHANGED <<holds, result>>
       ELSE /\ holds' = holds \ {w}
            /\ Report(w, "error")
            /\ Goto(w, "done")
    /\ UNCHANGED <<diskVars, job, seen, snap, cand, lockFd, stage, staged,
                   warned, installed, runs, stamp, envVars>>

Unlock(w) ==
    /\ pc[w] = "unlock"
    /\ holds' = holds \ {w}
    /\ Goto(w, "done")
    /\ UNCHANGED <<diskVars, job, seen, snap, cand, lockFd, stage, staged,
                   result, warned, installed, runs, stamp, envVars>>

-----------------------------------------------------------------------------
(* _require_expected_generation and _require_missing_database              *)

(* A re-read that must find the snapshot's generation. here is one of the
   three places commit_tracking_database calls it from. *)
CheckFinish(w, here, next, o) ==
    /\ pc[w] = here
    /\ seen[w] # Nothing
    /\ seen' = [seen EXCEPT ![w] = Nothing]
    /\ IF ReadIsStable(w) /\ StillExpected(SnapshotRead(w), snap[w])
       THEN Goto(w, next) /\ Report(w, o)
       ELSE Abort(w, "conflict")
    /\ UNCHANGED <<diskVars, job, snap, cand, lockFd, holds, stage, staged,
                   warned, installed, runs, stamp, envVars>>

RequireMissing(w, here, next) ==
    /\ pc[w] = here
    /\ IF db = Missing
       THEN Goto(w, next) /\ UNCHANGED result
       ELSE Abort(w, "conflict")
    /\ UNCHANGED <<diskVars, job, seen, snap, cand, lockFd, holds, stage,
                   staged, warned, installed, runs, stamp, envVars>>

(* An unchanged candidate keeps the original bytes: nothing is staged. *)
FirstCheck(w) ==
    \/ /\ job[w] = "initialize"
       /\ RequireMissing(w, "check", "stage")
    \/ /\ pc[w] = "check" /\ job[w] # "initialize"
       /\ IF cand[w] = snap[w].bytes
          THEN CheckFinish(w, "check", "unlock", "unchanged")
          ELSE CheckFinish(w, "check", "stage", "none")

Recheck(w) ==
    \/ /\ job[w] = "initialize"
       /\ RequireMissing(w, "recheck", "reverify")
    \/ /\ job[w] # "initialize"
       /\ CheckFinish(w, "recheck", "reverify", "none")

LastCheck(w) == CheckFinish(w, "lastcheck", "lastverify", "none")

Read(w) ==
    \/ ReadOpen(w, "loading")
    \/ job[w] # "initialize" /\ ReadOpen(w, "check")
    \/ job[w] # "initialize" /\ ReadOpen(w, "recheck")
    \/ ReadOpen(w, "lastcheck")

-----------------------------------------------------------------------------
(* open_retained_stage and verify_retained_stage                           *)

(* A failing syscall while staging: the exception reaches the cleanup. *)
StageFault(w) ==
    /\ Enabled("faults")
    /\ pc[w] \in {"stage", "write", "sync"}
    /\ Abort(w, "error")
    /\ UNCHANGED <<diskVars, job, seen, snap, cand, lockFd, holds, stage,
                   staged, warned, installed, runs, stamp, envVars>>

(* A fresh random name created exclusively, with the replaced file's mode. *)
OpenStage(w) ==
    /\ pc[w] = "stage"
    /\ stamp' = stamp + 1
    /\ staged' = [staged EXCEPT ![w] =
           NewStage(w, IF job[w] = "initialize" THEN "private"
                       ELSE snap[w].mode, stamp')]
    /\ stage' = [stage EXCEPT ![w] = "own"]
    /\ Goto(w, "write")
    /\ UNCHANGED <<diskVars, job, seen, snap, cand, lockFd, holds, result,
                   warned, installed, runs, envVars>>

WriteStage(w) ==
    /\ pc[w] = "write"
    /\ staged' = [staged EXCEPT ![w].bytes = cand[w]]
    /\ Goto(w, "sync")
    /\ UNCHANGED <<diskVars, job, seen, snap, cand, lockFd, holds, stage,
                   result, warned, installed, runs, stamp, envVars>>

(* Mutant of SyncStage: the staged data is not fsynced. *)
SyncStageSkipped(w) ==
    /\ pc[w] = "sync"
    /\ Goto(w, "verify")
    /\ UNCHANGED <<diskVars, job, seen, snap, cand, lockFd, holds, stage, staged,
                   result, warned, installed, runs, stamp, envVars>>

SyncStage(w) ==
    /\ pc[w] = "sync"
    /\ staged' = [staged EXCEPT ![w].synced = TRUE]
    /\ Goto(w, "verify")
    /\ UNCHANGED <<diskVars, job, seen, snap, cand, lockFd, holds, stage,
                   result, warned, installed, runs, stamp, envVars>>

(* The staged name still means the retained descriptor, and it holds the
   exact candidate. Timestamps that never settle also fail the check. *)
VerifyStage(w, here, next) ==
    /\ pc[w] = here
    /\ \/ /\ stage[w] = "own" /\ staged[w].bytes = cand[w]
          /\ Goto(w, next)
          /\ UNCHANGED result
       \/ /\ \/ ~(stage[w] = "own" /\ staged[w].bytes = cand[w])
             \/ Enabled("churn")
          /\ Abort(w, "conflict")
    /\ UNCHANGED <<diskVars, job, seen, snap, cand, lockFd, holds, stage,
                   staged, warned, installed, runs, stamp, envVars>>

Verify(w) ==
    \/ VerifyStage(w, "verify", "recheck")
    \/ VerifyStage(w, "reverify",
                   IF job[w] = "backup" THEN "backup" ELSE "replace")
    \/ VerifyStage(w, "lastverify", "replace")

-----------------------------------------------------------------------------
(* _write_exact_backup: the path is bound to the hash of the input bytes   *)

(* Mutant of OpenBackup: an existing backup is not compared. *)
OpenBackupTrusting(w) ==
    /\ pc[w] = "backup"
    /\ IF backups[snap[w].bytes] = "absent"
       THEN /\ backups' = [backups EXCEPT ![snap[w].bytes] = "partial"]
            /\ Goto(w, "filling")
       ELSE Goto(w, "lastcheck") /\ UNCHANGED backups
    /\ UNCHANGED <<db, fallback, lockFile, job, seen, snap, cand, lockFd, holds,
                   stage, staged, result, warned, installed, runs, stamp,
                   envVars>>

OpenBackup(w) ==
    /\ pc[w] = "backup"
    /\ \/ /\ backups[snap[w].bytes] = "absent"
          /\ backups' = [backups EXCEPT ![snap[w].bytes] = "partial"]
          /\ Goto(w, "filling")
          /\ UNCHANGED result
       \/ /\ backups[snap[w].bytes] = "exact"
          /\ Goto(w, "lastcheck")
          /\ UNCHANGED <<backups, result>>
       \/ /\ backups[snap[w].bytes] = "partial" \/ Enabled("faults")
          /\ Abort(w, "error")
          /\ UNCHANGED backups
    /\ UNCHANGED <<db, fallback, lockFile, job, seen, snap, cand, lockFd, holds,
                   stage, staged, warned, installed, runs, stamp, envVars>>

(* A failed write or fsync removes the file this process created. *)
FillBackup(w) ==
    /\ pc[w] = "filling"
    /\ \/ /\ backups' = [backups EXCEPT ![snap[w].bytes] = "exact"]
          /\ Goto(w, "lastcheck")
          /\ UNCHANGED result
       \/ /\ Enabled("faults")
          /\ \E left \in {"absent", "partial"} :
                 backups' = [backups EXCEPT ![snap[w].bytes] = left]
          /\ Abort(w, "error")
    /\ UNCHANGED <<db, fallback, lockFile, job, seen, snap, cand, lockFd, holds,
                   stage, staged, warned, installed, runs, stamp, envVars>>

-----------------------------------------------------------------------------
(* Installation, proof of it, durability, cleanup                          *)

(* What the staged name brings along when it is renamed or linked. *)
Incoming(w) == IF stage[w] = "own" THEN staged[w] ELSE StrangersFile(stamp + 1)

InstallFault(w) ==
    /\ pc[w] = "replace"
    /\ Enabled("faults")
    /\ Abort(w, "error")
    /\ UNCHANGED <<diskVars, job, seen, snap, cand, lockFd, holds, stage,
                   staged, warned, installed, runs, stamp, envVars>>

(* os.replace: atomic for every reader, durable only after the directory's
   fsync. A staged name that is gone raises instead. *)
Replace(w) ==
    /\ pc[w] = "replace"
    /\ job[w] # "initialize"
    /\ IF stage[w] = "none"
       THEN /\ Abort(w, "error")
            /\ UNCHANGED <<db, fallback, stage, installed, stamp>>
       ELSE /\ db' = Incoming(w)
            /\ fallback' = fallback \union {db}
            /\ stage' = [stage EXCEPT ![w] = "none"]
            /\ installed' = installed \union {w}
            /\ stamp' = stamp + 1
            /\ Goto(w, "confirm")
            /\ UNCHANGED result
    /\ UNCHANGED <<lockFile, backups, job, seen, snap, cand, lockFd, holds,
                   staged, warned, runs, envVars>>

(* Mutant of Link: the new database is renamed into place. *)
LinkByRename(w) ==
    /\ pc[w] = "replace"
    /\ job[w] = "initialize"
    /\ stage[w] # "none"
    /\ db' = Incoming(w)
    /\ fallback' = fallback \union {db}
    /\ installed' = installed \union {w}
    /\ stamp' = stamp + 1
    /\ Goto(w, "confirm")
    /\ UNCHANGED <<lockFile, backups, job, seen, snap, cand, lockFd, holds,
                   stage, staged, result, warned, runs, envVars>>

(* os.link: refuses a target that exists. *)
Link(w) ==
    /\ pc[w] = "replace"
    /\ job[w] = "initialize"
    /\ IF stage[w] = "none" \/ db # Missing
       THEN /\ Abort(w, IF stage[w] = "none" THEN "error" ELSE "conflict")
            /\ UNCHANGED <<db, fallback, installed, stamp>>
       ELSE /\ db' = Incoming(w)
            /\ fallback' = fallback \union {db}
            /\ installed' = installed \union {w}
            /\ stamp' = stamp + 1
            /\ Goto(w, "confirm")
            /\ UNCHANGED result
    /\ UNCHANGED <<lockFile, backups, job, seen, snap, cand, lockFd, holds,
                   stage, staged, warned, runs, envVars>>

(* installed_target_warning compares the retained descriptor with the name. *)
Confirmed(w) ==
    db # Missing /\ db.ino = staged[w].ino /\ db.bytes = cand[w]

Confirm(w) ==
    /\ pc[w] = "confirm"
    /\ \/ Confirmed(w) /\ Report(w, "durable")
       \/ /\ ~Confirmed(w) \/ Enabled("faults")
          /\ Report(w, "installed_verification_failed")
    /\ Goto(w, IF job[w] = "initialize" THEN "release" ELSE "fsync")
    /\ UNCHANGED <<diskVars, job, seen, snap, cand, lockFd, holds, stage,
                   staged, warned, installed, runs, stamp, envVars>>

(* Mutant of FsyncDirectory: its failure does not change the report. *)
FsyncDirectoryIgnored(w) ==
    /\ pc[w] = "fsync"
    /\ \/ fallback' = {}
       \/ Enabled("faults") /\ UNCHANGED fallback
    /\ Goto(w, "close")
    /\ UNCHANGED <<db, lockFile, backups, job, seen, snap, cand, lockFd, holds,
                   stage, staged, result, warned, installed, runs, stamp,
                   envVars>>

(* Mutant of FsyncDirectory: its failure is raised as a failed install. *)
FsyncDirectoryRaises(w) ==
    /\ pc[w] = "fsync"
    /\ \/ fallback' = {} /\ Goto(w, "close") /\ UNCHANGED result
       \/ Enabled("faults") /\ Abort(w, "error") /\ UNCHANGED fallback
    /\ UNCHANGED <<db, lockFile, backups, job, seen, snap, cand, lockFd, holds,
                   stage, staged, warned, installed, runs, stamp, envVars>>

(* The directory fsync makes the current directory entry the only one. *)
FsyncDirectory(w) ==
    /\ pc[w] = "fsync"
    /\ \/ fallback' = {} /\ UNCHANGED result
       \/ /\ Enabled("faults")
          /\ IF result[w] = "durable"
             THEN Report(w, "installed_directory_fsync_failed")
             ELSE UNCHANGED result
          /\ UNCHANGED fallback
    /\ Goto(w, "close")
    /\ UNCHANGED <<db, lockFile, backups, job, seen, snap, cand, lockFd, holds,
                   stage, staged, warned, installed, runs, stamp, envVars>>

Failures == {"error", "conflict"}

(* Mutant of Told: cleanup of an unfinished stage keeps its failures to itself. *)
ToldLater(w) == IF result[w] \notin Failures THEN warned \union {w} ELSE warned

(* What cleanup has to say goes into the exception or to stderr while the stage
   is being made, and into the result later on; an exception that passes the
   finally of commit_tracking_database or initialize_tracking_database leaves
   the list it is collected in behind. *)
Told(w) == IF pc[w] \in {"drop", "dropping"} \/ result[w] \notin Failures
           THEN warned \union {w} ELSE warned

(* Mutant of Inspect: whatever has the name is removed. *)
InspectByName(w, here, unlinking, next) ==
    /\ pc[w] = here
    /\ Goto(w, IF stage[w] = "none" THEN next ELSE unlinking)
    /\ UNCHANGED <<diskVars, job, seen, snap, cand, lockFd, holds, stage, staged,
                   result, warned, installed, runs, stamp, envVars>>

(* The first half of _unlink_staged_name: an absent name is clean; one that no
   longer means the retained descriptor is left alone and reported, and so is
   one whose inspection fails, that vanishes between the two lookups, or that an
   unfinished stage finds gone. *)
Inspect(w, here, unlinking, next) ==
    /\ pc[w] = here
    /\ \/ stage[w] = "own" /\ Goto(w, unlinking) /\ UNCHANGED warned
       \/ stage[w] = "none" /\ Goto(w, next) /\ UNCHANGED warned
       \/ /\ stage[w] # "own" \/ Enabled("faults")
          /\ warned' = Told(w)
          /\ Goto(w, next)
    /\ UNCHANGED <<diskVars, job, seen, snap, cand, lockFd, holds, stage, staged,
                   result, installed, runs, stamp, envVars>>

(* The second half: os.unlink removes whatever has the name by now. Dropping
   the staged link of a file that is the database moves that file's change
   time. *)
Remove(w, here, next) ==
    /\ pc[w] = here
    /\ \/ /\ stage[w] # "none"
          /\ stage' = [stage EXCEPT ![w] = "none"]
          /\ db' = IF stage[w] = "own" /\ w \in installed /\ db # Missing /\ db.ino = w
                   THEN Touched(db, db.mode) ELSE db
          /\ UNCHANGED warned
       \/ /\ stage[w] = "none" \/ Enabled("faults")
          /\ warned' = Told(w)
          /\ UNCHANGED <<stage, db>>
    /\ Goto(w, next)
    /\ UNCHANGED <<fallback, lockFile, backups, job, seen, snap, cand, lockFd,
                   holds, staged, result, installed, runs, stamp, envVars>>

Unlink(w, here, unlinking, next) ==
    Inspect(w, here, unlinking, next) \/ Remove(w, unlinking, next)

Close(w) ==
    \/ Unlink(w, "release", "releasing", "fsync")
    \/ Unlink(w, "drop", "dropping", "unlock")
    \/ Unlink(w, "close", "closing", "unlock")

-----------------------------------------------------------------------------
(* The environment                                                         *)

(* Between the last look at the database, or at the staged name, and the
   install syscall nothing more is checked. An environment without "window"
   keeps its hands off during that time. *)
DatabaseUnwatched(w) ==
    \/ pc[w] = "replace" /\ job[w] # "initialize"
    \/ pc[w] = "reverify" /\ job[w] = "commit"
    \/ pc[w] = "lastverify"
MayTouchDatabase == Enabled("window") \/ \A w \in Writer : ~DatabaseUnwatched(w)
MayTouchStage(w) == Enabled("window") \/ pc[w] # "replace"

EditorBytes == {{}, {Editor}}

Rewritten(f, b, g, c) == [f EXCEPT !.bytes = b, !.gen = g, !.ctime = c]

(* An editor or a sync download replaces the file, or creates it. *)
EditSave ==
    /\ Enabled("edit") /\ edits < MaxEdits /\ editor = "idle" /\ MayTouchDatabase
    /\ edits' = edits + 1
    /\ stamp' = stamp + 1
    /\ \E b \in EditorBytes :
           db' = [ino |-> Editor, gen |-> stamp', ctime |-> 0,
                  mode |-> "shared", bytes |-> b, synced |-> TRUE]
    /\ UNCHANGED <<fallback, lockFile, backups, procVars, churn, losses, swaps,
                   editor>>

(* An editor rewrites the file in place: truncated first, then filled. *)
EditBegin ==
    /\ Enabled("edit") /\ edits < MaxEdits /\ editor = "idle" /\ MayTouchDatabase
    /\ db # Missing
    /\ edits' = edits + 1
    /\ stamp' = stamp + 1
    /\ db' = Rewritten(db, Garbage, stamp', db.ctime)
    /\ editor' = "writing"
    /\ UNCHANGED <<fallback, lockFile, backups, procVars, churn, losses, swaps>>

EditEnd ==
    /\ editor = "writing"
    /\ MayTouchDatabase
    /\ stamp' = stamp + 1
    /\ editor' = "idle"
    /\ IF db # Missing /\ db.bytes = Garbage
       THEN \E b \in EditorBytes :
                db' = Rewritten(db, b, stamp', db.ctime)
       ELSE UNCHANGED db
    /\ UNCHANGED <<fallback, lockFile, backups, procVars, edits, churn, losses,
                   swaps>>

(* A write whose author restored the modification time afterwards. *)
EditBackdated ==
    /\ Enabled("edit") /\ edits < MaxEdits /\ editor = "idle" /\ MayTouchDatabase
    /\ db # Missing /\ db.bytes # Garbage
    /\ edits' = edits + 1
    /\ \E b \in EditorBytes :
           db' = Rewritten(db, b, db.gen, db.ctime + 1)
    /\ UNCHANGED <<fallback, lockFile, backups, procVars, stamp, churn, losses,
                   swaps, editor>>

Chmod ==
    /\ Enabled("chmod") /\ churn < MaxChurn /\ MayTouchDatabase
    /\ db # Missing
    /\ churn' = churn + 1
    /\ \E m \in {"shared", "private"} :
           db' = Touched(db, m)
    /\ UNCHANGED <<fallback, lockFile, backups, procVars, stamp, edits, losses,
                   swaps, editor>>

(* The sync provider settles metadata: the change time moves alone. *)
Churn ==
    /\ Enabled("churn") /\ churn < MaxChurn
    /\ db # Missing
    /\ churn' = churn + 1
    /\ db' = Touched(db, db.mode)
    /\ UNCHANGED <<fallback, lockFile, backups, procVars, stamp, edits, losses,
                   swaps, editor>>

Unlinking == {"releasing", "dropping", "closing"}

(* Someone else's file takes the staged name, or the name is deleted. *)
TakeStage(w) ==
    /\ Enabled("swap") /\ swaps < MaxSwaps /\ MayTouchStage(w)
    /\ pc[w] \notin Resting
    /\ stage[w] = "own"
    /\ swaps' = swaps + 1
    /\ \E left \in {"none", IF pc[w] \in Unlinking THEN "late" ELSE "other"} :
           stage' = [stage EXCEPT ![w] = left]
    /\ UNCHANGED <<diskVars, pc, job, seen, snap, cand, lockFd, holds, staged,
                   result, warned, installed, runs, stamp, edits, churn, losses,
                   editor>>

(* The persistent lock file is removed and made anew, at a time no process
   relies on having it. *)
ReplaceLockFile ==
    /\ Enabled("lock") /\ swaps < MaxSwaps
    /\ \A w \in Writer : ~Locked(w)
    /\ swaps' = swaps + 1
    /\ lockFile' = lockFile + 1
    /\ UNCHANGED <<db, fallback, backups, procVars, stamp, edits, churn, losses,
                   editor>>

(* A process dies: the kernel drops its lock, its staged file stays. *)
Crash(w) ==
    /\ Enabled("crash")
    /\ pc[w] \notin Resting
    /\ Goto(w, "crashed")
    /\ holds' = holds \ {w}
    /\ UNCHANGED <<diskVars, job, seen, snap, cand, lockFd, stage, staged,
                   result, warned, installed, runs, stamp, envVars>>

(* The host dies: every process with it. The directory may come back with an
   entry older than the last fsync, and data never synced may be lost. *)
PowerLoss ==
    /\ Enabled("power") /\ losses < MaxLosses
    /\ losses' = losses + 1
    /\ \E f \in fallback \union {db} :
           db' = IF f = Missing \/ f.synced THEN f
                 ELSE [f EXCEPT !.bytes = Garbage]
    /\ fallback' = {}
    /\ holds' = {}
    /\ pc' = [w \in Writer |-> IF pc[w] \in Resting THEN pc[w] ELSE "crashed"]
    /\ UNCHANGED <<lockFile, backups, job, seen, snap, cand, lockFd, stage,
                   staged, result, warned, installed, runs, stamp, edits, churn,
                   swaps, editor>>

-----------------------------------------------------------------------------

Begin(w) == \E j \in Job : Start(w, j)

Step(w) ==
    \/ Read(w) \/ LoadFinish(w)
    \/ OpenLock(w) \/ Flock(w) \/ VerifyLock(w) \/ Unlock(w)
    \/ FirstCheck(w) \/ Recheck(w) \/ LastCheck(w)
    \/ StageFault(w) \/ OpenStage(w) \/ WriteStage(w) \/ SyncStage(w) \/ Verify(w)
    \/ OpenBackup(w) \/ FillBackup(w)
    \/ InstallFault(w) \/ Replace(w) \/ Link(w) \/ Confirm(w)
    \/ FsyncDirectory(w) \/ Close(w)

Disturb ==
    \/ EditSave \/ EditBegin \/ EditEnd \/ EditBackdated
    \/ Chmod \/ Churn \/ ReplaceLockFile \/ PowerLoss
    \/ \E w \in Writer : TakeStage(w) \/ Crash(w)

Next == Disturb \/ \E w \in Writer : Begin(w) \/ Step(w)

(* A running process takes its next step; nothing makes one start, crash or
   be disturbed. *)
Fairness == \A w \in Writer : WF_vars(Step(w))

Spec == Init /\ [][Next]_vars
FairSpec == Spec /\ Fairness

-----------------------------------------------------------------------------
(* Properties                                                              *)

(* No two processes are inside the guarded body at once, even when the lock
   file is replaced while others wait on the old one
   (exclusive_file_lock's re-check of the locked inode). *)
LockExcludes == \A v, w \in Writer : Locked(v) /\ Locked(w) => v = w

(* The bytes in a running process's snapshot are the bytes of the generation
   the snapshot names: as long as that generation is the live one it never
   stands for torn or older content (snapshot_tracking_database's comparisons
   around the read). *)
SnapshotFaithful ==
    \A w \in Writer :
        (/\ pc[w] \notin Resting
         /\ snap[w] # Nothing /\ db # Missing
         /\ Generation(snap[w]) = Generation(db))
            => snap[w].bytes = db.bytes

(* Unless someone writes after the last look, a commit replaces exactly the
   bytes and permissions its candidate was computed from: no entry another
   process or an editor added is lost (commit_tracking_database). *)
NoLostUpdate ==
    [][\A w \in Writer :
         w \in installed' /\ w \notin installed /\ job[w] # "initialize" =>
             /\ db # Missing
             /\ db'.bytes \in Candidates(w, db.bytes)
             /\ db'.mode = db.mode]_vars

(* Initialization never overwrites a database that appeared meanwhile
   (initialize_tracking_database links instead of renaming). *)
InitializeCreates ==
    [][\A w \in Writer :
         w \in installed' /\ w \notin installed /\ job[w] = "initialize" =>
             db = Missing]_vars

(* A reported failure means this transaction installed nothing; once the
   rename succeeded every later failure is a warning on an installed result
   (the contract of commit_tracking_database's docstring). *)
FailureInstalledNothing ==
    \A w \in Writer :
        /\ result[w] \in {"error", "conflict", "unchanged"} => w \notin installed
        /\ pc[w] = "done" /\ w \in installed =>
               result[w] \in {"durable", "installed_verification_failed",
                              "installed_directory_fsync_failed"}

(* What was reported durable is never undone by a power loss: no older
   generation can come back under the database's name. *)
DurableSurvives ==
    \A w \in Writer :
        pc[w] = "done" /\ result[w] = "durable" =>
            /\ db # Missing /\ db.gen >= staged[w].gen
            /\ \A f \in fallback : f # Missing /\ f.gen >= staged[w].gen

(* Readers never find a torn database, power losses included, unless an
   editor is in the middle of rewriting it in place. *)
NeverTorn == db # Missing /\ db.bytes = Garbage => editor = "writing"

(* Whatever a backed-up transaction replaced can be restored, byte for byte
   (_write_exact_backup runs to its fsync before the replacement). *)
BackupHoldsInput ==
    \A w \in Writer :
        w \in installed /\ job[w] = "backup" => backups[snap[w].bytes] = "exact"

(* Cleanup never removes a file that had taken over the staged name when it
   looked, however the transaction ends: such a file goes away only by being
   installed. One that arrives between that look and os.unlink is not spared. *)
StrangerSpared ==
    [][\A w \in Writer :
         stage[w] = "other" /\ stage'[w] = "none" =>
             \/ w \in installed' /\ w \notin installed
             \/ pc[w] \in Resting]_vars

(* "so a pre-install failure can no longer discard them on the way out"
   (CHANGELOG.md, of what cleanup reports): a staged file left behind by a
   process that exited is in its answer. *)
LitterReported ==
    \A w \in Writer : pc[w] = "done" /\ stage[w] # "none" => w \in warned

(* The part of it that the code keeps: whoever installed its database, and
   whoever failed before its staged file was complete, tells of a staged name
   left behind. *)
InstalledOrUnfinishedTells ==
    \A w \in Writer :
        (/\ pc[w] = "done" /\ stage[w] # "none"
         /\ result[w] \in Failures => ~staged[w].synced) => w \in warned

(* The answer of a process tells what it did and, in these cases, what it left
   behind (commit_tracking_database, initialize_tracking_database). *)
ReportsTruthful == FailureInstalledNothing /\ InstalledOrUnfinishedTells

(* The register the rest of the toolkit believes in, seen in this state. *)
Contents(f) ==
    IF f = Missing THEN Missing ELSE [bytes |-> f.bytes, mode |-> f.mode]
Register == INSTANCE TrackingDatabase
            WITH value <- Contents(db), older <- {Contents(f) : f \in fallback},
                 Edited <- Env \intersect {"edit", "chmod"}

(* Seen from outside, the locks, staged files, re-checks and fsyncs of all
   processes are atomic updates of one register, each computed from the value
   it replaces, as long as nobody writes after the last look. *)
RegisterSpec == Register!Spec

(* Every started transaction comes to an end, whoever crashes meanwhile. *)
EveryTransactionEnds ==
    \A w \in Writer : pc[w] \notin Resting ~> pc[w] \in Resting

=============================================================================

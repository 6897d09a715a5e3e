---------------------------- MODULE AnalysisBatch ----------------------------
(***************************************************************************)
(* atomic_write_batch of skills/vault-ingress/scripts/write-analysis.py:   *)
(* a batch of analysis files is staged beside its targets, then each old   *)
(* file is moved to a backup name and the staged one renamed into place.   *)
(* An error unwinds the batch in reverse.  No lock is taken.               *)
(*                                                                         *)
(* One action is one syscall on a name, or one assignment of the           *)
(* bookkeeping (item["backup"], item["installed"]) the unwinding relies    *)
(* on: Python delivers an interrupt between any two of them.               *)
(***************************************************************************)
EXTENDS Naturals, Sequences

CONSTANTS
    Writer,     \* processes running write-analysis.py
    Target,     \* the analysis files of the output directory
    Absent,     \* nothing under a name
    Directory,  \* a directory under a target's name
    Original,   \* an analysis written by an earlier session
    Stranger,   \* bytes put under a staged name by someone else
    Empty,      \* the file mkstemp leaves
    Env,        \* the disturbances of this environment
    MaxRuns,    \* bound: batches one process attempts
    MaxBatch,   \* bound: files in a batch
    MaxMeddling \* bound: substituted staged names and directories made

(* A file is known by what it holds: its writer's rendering, or what it was. *)
Content == Writer \union {Original, Stranger, Empty}
Entry == Content \union {Absent, Directory}
Disturbance == {"faults", "crash", "substitute", "directory", "interrupt",
                "interrupt_unwinding"}
Phase == {"idle", "stage", "recheck", "inspect", "mkstemp", "move", "record",
          "install", "mark", "confirm", "clear", "unwind", "restore",
          "forget", "done", "crashed"}
Outcome == {"none", "rejected", "installed", "unverified", "restored",
            "unrestored", "interrupted"}

(* Targets of a batch are distinct: main() refuses two returns for one file. *)
Batches ==
    UNION {{b \in [1..n -> Target] :
                \A i, j \in 1..n : b[i] = b[j] => i = j} : n \in 1..MaxBatch}

ASSUME BatchEnvAssumption == Env \subseteq Disturbance
ASSUME BatchNameAssumption ==
    /\ Absent \notin Content \union {Directory}
    /\ Directory \notin Content
    /\ Writer \intersect {Original, Stranger, Empty} = {}
    /\ Original # Stranger /\ Original # Empty /\ Stranger # Empty
ASSUME BatchBoundAssumption == {MaxRuns, MaxBatch, MaxMeddling} \subseteq Nat

VARIABLES
    disk,      \* what each target's name means
    stage,     \* what each process's staged names mean
    saved,     \* what its backup names mean
    pc, batch, at, \* its step, its items, and the item it is working on
    recorded,  \* the items whose "backup" field is set
    marked,    \* the items whose "installed" field is True
    unproven,  \* the installed targets that could not be verified
    failing,   \* whether its unwinding has met an error
    hit,       \* whether it was interrupted
    committed, \* whether it has passed its last item
    result,    \* what it will report
    prior,     \* history: the targets as they were when the run began
    runs, meddling

procVars == <<stage, saved, pc, batch, at, recorded, marked, unproven,
              failing, hit, committed, result, prior, runs>>
vars == <<disk, procVars, meddling>>

Current(w) == batch[w][at[w]]
Items(w) == {batch[w][i] : i \in DOMAIN batch[w]}
Running(w) == pc[w] \notin {"idle", "done", "crashed"}
Enabled(d) == d \in Env

TypeOK ==
    /\ disk \in [Target -> Entry]
    /\ stage \in [Writer -> [Target -> {"none", "own", "other"}]]
    /\ saved \in [Writer -> [Target -> Content \union {Absent}]]
    /\ pc \in [Writer -> Phase]
    /\ batch \in [Writer -> Batches \union {<<>>}]
    /\ at \in [Writer -> 0..MaxBatch]
    /\ recorded \in [Writer -> SUBSET Target]
    /\ marked \in [Writer -> SUBSET Target]
    /\ unproven \in [Writer -> SUBSET Target]
    /\ failing \in [Writer -> BOOLEAN]
    /\ hit \in [Writer -> BOOLEAN]
    /\ committed \in [Writer -> BOOLEAN]
    /\ result \in [Writer -> Outcome]
    /\ prior \in [Writer -> [Target -> Entry]]
    /\ runs \in [Writer -> 0..MaxRuns]
    /\ meddling \in 0..MaxMeddling

Init ==
    /\ disk \in [Target -> {Absent, Original}]
    /\ stage = [w \in Writer |-> [t \in Target |-> "none"]]
    /\ saved = [w \in Writer |-> [t \in Target |-> Absent]]
    /\ pc = [w \in Writer |-> "idle"]
    /\ batch = [w \in Writer |-> <<>>]
    /\ at = [w \in Writer |-> 0]
    /\ recorded = [w \in Writer |-> {}]
    /\ marked = [w \in Writer |-> {}]
    /\ unproven = [w \in Writer |-> {}]
    /\ failing = [w \in Writer |-> FALSE]
    /\ hit = [w \in Writer |-> FALSE]
    /\ committed = [w \in Writer |-> FALSE]
    /\ result = [w \in Writer |-> "none"]
    /\ prior = [w \in Writer |-> [t \in Target |-> Absent]]
    /\ runs = [w \in Writer |-> 0]
    /\ meddling = 0

-----------------------------------------------------------------------------
(* Vocabulary                                                              *)

Goto(w, p) == pc' = [pc EXCEPT ![w] = p]
GoAt(w, p, i) == Goto(w, p) /\ at' = [at EXCEPT ![w] = i]
Put(t, e) == disk' = [disk EXCEPT ![t] = e]
Save(w, e) == saved' = [saved EXCEPT ![w][Current(w)] = e]

(* preflight_output_targets: no target may be a directory. *)
Blocked(b) == \E i \in DOMAIN b : disk[b[i]] = Directory

(* _release_stages unlinks the staged names that are still its own. *)
Release(w) ==
    stage' = [stage EXCEPT ![w] =
                 [t \in Target |-> IF @[t] = "own" THEN "none" ELSE @[t]]]

Finish(w, o) ==
    /\ Goto(w, "done")
    /\ result' = [result EXCEPT ![w] = o]
    /\ Release(w)

(* An error, or an interrupt, while committing: unwind from the last item. *)
Fail(w) ==
    /\ GoAt(w, "unwind", Len(batch[w]))
    /\ failing' = [failing EXCEPT ![w] = FALSE]

(* The item is done with: on to the next one, or past the last. *)
Advance(w, here, past) ==
    IF at[w] = Len(batch[w]) THEN GoAt(w, past, 1) ELSE GoAt(w, here, at[w] + 1)

-----------------------------------------------------------------------------
(* Staging                                                                 *)

(* The entry, with its first preflight.  A process keeps nothing of an earlier
   run; backups and staged names left by one stay on disk under names that are
   never drawn again. *)
Start(w, b) ==
    /\ ~Running(w) /\ runs[w] < MaxRuns
    /\ runs' = [runs EXCEPT ![w] = @ + 1]
    /\ prior' = [prior EXCEPT ![w] = disk]
    /\ batch' = [batch EXCEPT ![w] = b]
    /\ at' = [at EXCEPT ![w] = 1]
    /\ stage' = [stage EXCEPT ![w] = [t \in Target |-> "none"]]
    /\ saved' = [saved EXCEPT ![w] = [t \in Target |-> Absent]]
    /\ recorded' = [recorded EXCEPT ![w] = {}]
    /\ marked' = [marked EXCEPT ![w] = {}]
    /\ unproven' = [unproven EXCEPT ![w] = {}]
    /\ failing' = [failing EXCEPT ![w] = FALSE]
    /\ hit' = [hit EXCEPT ![w] = FALSE]
    /\ committed' = [committed EXCEPT ![w] = FALSE]
    /\ Goto(w, IF Blocked(b) THEN "done" ELSE "stage")
    /\ result' = [result EXCEPT ![w] = IF Blocked(b) THEN "rejected" ELSE "none"]
    /\ UNCHANGED <<disk, meddling>>

StageItem(w) ==
    /\ pc[w] = "stage"
    /\ stage' = [stage EXCEPT ![w][Current(w)] = "own"]
    /\ Advance(w, "stage", "recheck")
    /\ UNCHANGED <<disk, saved, batch, recorded, marked, unproven, failing, hit,
                   committed, result, prior, runs, meddling>>

StageFault(w) ==
    /\ pc[w] = "stage" /\ Enabled("faults")
    /\ Finish(w, "rejected")
    /\ UNCHANGED <<disk, saved, batch, at, recorded, marked, unproven, failing,
                   hit, committed, prior, runs, meddling>>

-----------------------------------------------------------------------------
(* Committing one item after the other                                     *)

Recheck(w) ==
    /\ pc[w] = "recheck"
    /\ \/ ~Blocked(batch[w]) /\ Goto(w, "inspect") /\ UNCHANGED <<at, failing>>
       \/ Blocked(batch[w]) /\ Fail(w)
    /\ UNCHANGED <<disk, stage, saved, batch, recorded, marked, unproven, hit,
                   committed, result, prior, runs, meddling>>

(* verify_retained_stage, then lexists and lstat of the target. *)
Inspect(w) ==
    LET sound == stage[w][Current(w)] = "own" /\ disk[Current(w)] # Directory
    IN  /\ pc[w] = "inspect"
        /\ \/ sound /\ UNCHANGED <<at, failing>>
              /\ Goto(w, IF disk[Current(w)] = Absent THEN "install" ELSE "mkstemp")
           \/ ~sound /\ Fail(w)
        /\ UNCHANGED <<disk, stage, saved, batch, recorded, marked, unproven,
                       hit, committed, result, prior, runs, meddling>>

MakeBackup(w) ==
    /\ pc[w] = "mkstemp"
    /\ Save(w, Empty)
    /\ Goto(w, "move")
    /\ UNCHANGED <<disk, stage, batch, at, recorded, marked, unproven, failing,
                   hit, committed, result, prior, runs, meddling>>

MoveAside(w) ==
    /\ pc[w] = "move" /\ disk[Current(w)] \in Content
    /\ Save(w, disk[Current(w)])
    /\ Put(Current(w), Absent)
    /\ Goto(w, "record")
    /\ UNCHANGED <<stage, batch, at, recorded, marked, unproven, failing, hit,
                   committed, result, prior, runs, meddling>>

(* The target went away or turned into a directory, or the rename failed: the
   finally clause removes the empty backup. *)
MoveFails(w) ==
    /\ pc[w] = "move" /\ (Enabled("faults") \/ disk[Current(w)] \notin Content)
    /\ Save(w, Absent)
    /\ Fail(w)
    /\ UNCHANGED <<disk, stage, batch, recorded, marked, unproven, hit,
                   committed, result, prior, runs, meddling>>

RecordBackup(w) ==
    /\ pc[w] = "record"
    /\ recorded' = [recorded EXCEPT ![w] = @ \union {Current(w)}]
    /\ Goto(w, "install")
    /\ UNCHANGED <<disk, stage, saved, batch, at, marked, unproven, failing, hit,
                   committed, result, prior, runs, meddling>>

(* install_retained_stage renames whatever the staged name means by now. *)
Install(w) ==
    /\ pc[w] = "install" /\ disk[Current(w)] # Directory
    /\ Put(Current(w), IF stage[w][Current(w)] = "own" THEN w ELSE Stranger)
    /\ stage' = [stage EXCEPT ![w][Current(w)] = "none"]
    /\ Goto(w, "mark")
    /\ UNCHANGED <<saved, batch, at, recorded, marked, unproven, failing, hit,
                   committed, result, prior, runs, meddling>>

(* Any step of the loop before the file is in place may raise. *)
CommitFails(w) ==
    /\ \/ pc[w] \in {"recheck", "inspect", "mkstemp", "install"}
          /\ Enabled("faults")
       \/ pc[w] = "install" /\ disk[Current(w)] = Directory
    /\ Fail(w)
    /\ UNCHANGED <<disk, stage, saved, batch, recorded, marked, unproven, hit,
                   committed, result, prior, runs, meddling>>

(* Mutant of MarkInstalled: the item's number is kept, not the item. *)
MarkNumber(w) ==
    /\ pc[w] = "mark"
    /\ marked' = [marked EXCEPT ![w] = @ \union {at[w]}]
    /\ Goto(w, "confirm")
    /\ UNCHANGED <<disk, stage, saved, batch, at, recorded, unproven, failing,
                   hit, committed, result, prior, runs, meddling>>

MarkInstalled(w) ==
    /\ pc[w] = "mark"
    /\ marked' = [marked EXCEPT ![w] = @ \union {Current(w)}]
    /\ Goto(w, "confirm")
    /\ UNCHANGED <<disk, stage, saved, batch, at, recorded, unproven, failing,
                   hit, committed, result, prior, runs, meddling>>

(* Mutant of Proven: that a file is there is proof enough. *)
ProvenPresent(w) == disk[Current(w)] \in Content

(* installed_target_warning; a failed look counts as a warning too. *)
Proven(w) == disk[Current(w)] = w

Confirm(w) ==
    /\ pc[w] = "confirm"
    /\ \/ Proven(w) /\ UNCHANGED unproven
       \/ (~Proven(w) \/ Enabled("faults"))
          /\ unproven' = [unproven EXCEPT ![w] = @ \union {Current(w)}]
    /\ Advance(w, "inspect", "clear")
    /\ committed' = [committed EXCEPT ![w] = at[w] = Len(batch[w])]
    /\ UNCHANGED <<disk, stage, saved, batch, recorded, marked, failing, hit,
                   result, prior, runs, meddling>>

-----------------------------------------------------------------------------
(* The batch is in place: drop the backups that are not needed any more    *)

(* Mutant of Dropped: backups of unverified targets go too. *)
DroppedAll(w) == recorded[w]

Dropped(w) == recorded[w] \ unproven[w]

ClearBackup(w) ==
    LET last == at[w] = Len(batch[w])
    IN  /\ pc[w] = "clear"
        /\ \/ Current(w) \in Dropped(w)
              /\ Save(w, Absent)
              /\ recorded' = [recorded EXCEPT ![w] = @ \ {Current(w)}]
           \/ (Current(w) \notin Dropped(w) \/ Enabled("faults"))
              /\ UNCHANGED <<saved, recorded>>
        /\ \/ ~last /\ GoAt(w, "clear", at[w] + 1) /\ UNCHANGED <<result, stage>>
           \/ last /\ UNCHANGED at
              /\ Finish(w, IF unproven[w] = {} THEN "installed" ELSE "unverified")
        /\ UNCHANGED <<disk, batch, marked, unproven, failing, hit, committed,
                       prior, runs, meddling>>

-----------------------------------------------------------------------------
(* _rollback_analysis_batch, last item first                               *)

(* An error is kept and the item left as it is. *)
Skip(w) ==
    /\ failing' = [failing EXCEPT ![w] = TRUE]
    /\ GoAt(w, "unwind", at[w] - 1)

(* os.unlink of what the item installed; nothing there is fine. *)
RemoveInstalled(w) ==
    /\ pc[w] = "unwind" /\ at[w] > 0
    /\ \/ Current(w) \notin marked[w]
          /\ Goto(w, "restore") /\ UNCHANGED <<disk, at, failing>>
       \/ Current(w) \in marked[w] /\ disk[Current(w)] # Directory
          /\ Put(Current(w), Absent)
          /\ Goto(w, "restore") /\ UNCHANGED <<at, failing>>
       \/ Current(w) \in marked[w]
          /\ (disk[Current(w)] = Directory \/ Enabled("faults"))
          /\ Skip(w) /\ UNCHANGED disk
    /\ UNCHANGED <<stage, saved, batch, recorded, marked, unproven, hit,
                   committed, result, prior, runs, meddling>>

RestoreBackup(w) ==
    LET blocked == disk[Current(w)] = Directory \/ saved[w][Current(w)] = Absent
    IN  /\ pc[w] = "restore"
        /\ \/ Current(w) \notin recorded[w]
              /\ GoAt(w, "unwind", at[w] - 1) /\ UNCHANGED <<disk, saved, failing>>
           \/ Current(w) \in recorded[w] /\ ~blocked
              /\ Put(Current(w), saved[w][Current(w)])
              /\ Save(w, Absent)
              /\ Goto(w, "forget") /\ UNCHANGED <<at, failing>>
           \/ Current(w) \in recorded[w] /\ (blocked \/ Enabled("faults"))
              /\ Skip(w) /\ UNCHANGED <<disk, saved>>
        /\ UNCHANGED <<stage, batch, recorded, marked, unproven, hit, committed,
                       result, prior, runs, meddling>>

(* Mutant of ForgetBackup: all backups are taken for restored. *)
ForgetAll(w) ==
    /\ pc[w] = "forget"
    /\ recorded' = [recorded EXCEPT ![w] = {}]
    /\ GoAt(w, "unwind", at[w] - 1)
    /\ UNCHANGED <<disk, stage, saved, batch, marked, unproven, failing, hit,
                   committed, result, prior, runs, meddling>>

(* item["backup"] = None; item["installed"] keeps its value. *)
ForgetBackup(w) ==
    /\ pc[w] = "forget"
    /\ recorded' = [recorded EXCEPT ![w] = @ \ {Current(w)}]
    /\ GoAt(w, "unwind", at[w] - 1)
    /\ UNCHANGED <<disk, stage, saved, batch, marked, unproven, failing, hit,
                   committed, result, prior, runs, meddling>>

(* Mutant of Verdict: the list of rollback errors is not looked at. *)
VerdictHopeful(w) == IF hit[w] THEN "interrupted" ELSE "restored"

Verdict(w) ==
    IF hit[w] THEN "interrupted"
    ELSE IF failing[w] THEN "unrestored" ELSE "restored"

EndUnwinding(w) ==
    /\ pc[w] = "unwind" /\ at[w] = 0
    /\ Finish(w, Verdict(w))
    /\ UNCHANGED <<disk, saved, batch, at, recorded, marked, unproven, failing,
                   hit, committed, prior, runs, meddling>>

-----------------------------------------------------------------------------
(* Disturbances                                                            *)

(* KeyboardInterrupt while staging or dropping backups: the process ends, and
   only staged names are released. *)
InterruptOutside(w) ==
    /\ Enabled("interrupt") /\ pc[w] \in {"stage", "clear"}
    /\ hit' = [hit EXCEPT ![w] = TRUE]
    /\ Finish(w, "interrupted")
    /\ UNCHANGED <<disk, saved, batch, at, recorded, marked, unproven, failing,
                   committed, prior, runs, meddling>>

(* Inside the loop the outer finally unwinds the batch. Around the rename of a
   target the inner one removes the backup unless backup_installed is already
   set; outside that clause the backup stays without a record. *)
InterruptCommit(w) ==
    /\ Enabled("interrupt")
    /\ pc[w] \in {"recheck", "inspect", "mkstemp", "move", "record", "install",
                  "mark", "confirm"}
    /\ hit' = [hit EXCEPT ![w] = TRUE]
    /\ \/ pc[w] \in {"move", "record"} /\ Save(w, Absent)
       \/ UNCHANGED saved
    /\ Fail(w)
    /\ UNCHANGED <<disk, stage, batch, recorded, marked, unproven, committed,
                   result, prior, runs, meddling>>

(* While the except clause unwinds, rollback_done is not set yet: the finally
   clause unwinds once more from the last item, and the errors met so far are
   forgotten. One interrupt per run. *)
InterruptUnwinding(w) ==
    /\ Enabled("interrupt_unwinding")
    /\ pc[w] \in {"unwind", "restore", "forget"} /\ ~hit[w]
    /\ hit' = [hit EXCEPT ![w] = TRUE]
    /\ Fail(w)
    /\ UNCHANGED <<disk, stage, saved, batch, recorded, marked, unproven,
                   committed, result, prior, runs, meddling>>

Crash(w) ==
    /\ Enabled("crash") /\ Running(w)
    /\ Goto(w, "crashed")
    /\ UNCHANGED <<disk, stage, saved, batch, at, recorded, marked, unproven,
                   failing, hit, committed, result, prior, runs, meddling>>

(* Someone puts another file under a staged name. *)
Substitute(w, t) ==
    /\ Enabled("substitute") /\ meddling < MaxMeddling
    /\ Running(w) /\ stage[w][t] = "own"
    /\ stage' = [stage EXCEPT ![w][t] = "other"]
    /\ meddling' = meddling + 1
    /\ UNCHANGED <<disk, saved, pc, batch, at, recorded, marked, unproven,
                   failing, hit, committed, result, prior, runs>>

(* Someone makes a directory under a free target name. *)
MakeDirectory(t) ==
    /\ Enabled("directory") /\ meddling < MaxMeddling
    /\ disk[t] = Absent
    /\ Put(t, Directory)
    /\ meddling' = meddling + 1
    /\ UNCHANGED procVars

-----------------------------------------------------------------------------

Step(w) ==
    \/ \E b \in Batches : Start(w, b)
    \/ StageItem(w) \/ StageFault(w) \/ Recheck(w) \/ Inspect(w)
    \/ MakeBackup(w) \/ MoveAside(w) \/ MoveFails(w) \/ RecordBackup(w)
    \/ Install(w) \/ CommitFails(w) \/ MarkInstalled(w) \/ Confirm(w)
    \/ ClearBackup(w) \/ RemoveInstalled(w) \/ RestoreBackup(w)
    \/ ForgetBackup(w) \/ EndUnwinding(w)

Disturb(w) ==
    \/ InterruptOutside(w) \/ InterruptCommit(w) \/ InterruptUnwinding(w)
    \/ Crash(w)
    \/ \E t \in Target : Substitute(w, t)

Next ==
    \/ \E w \in Writer : Step(w) \/ Disturb(w)
    \/ \E t \in Target : MakeDirectory(t)

Spec == Init /\ [][Next]_vars

-----------------------------------------------------------------------------
(* Properties                                                              *)

(* Unless a run is interrupted, what it found under a target's name is never
   without a name while the batch is not in place, whatever fails, and keeps its
   backup name afterwards if the new file could not be verified: "Keep this
   target's recovery backup". *)
PriorKept ==
    \A w \in Writer : \A t \in Items(w) :
        ~hit[w] /\ (~committed[w] \/ t \in unproven[w]) =>
            \/ prior[w][t] \in {Absent, Directory}
            \/ prior[w][t] \in {disk[t], saved[w][t]}

(* When the error text says that every prior target was restored, it is so; a
   directory made meanwhile under a free name stays. *)
RestoredIsTrue ==
    \A w \in Writer : result[w] = "restored" =>
        \A t \in Items(w) : \/ disk[t] = prior[w][t]
                            \/ prior[w][t] = Absent /\ disk[t] = Directory

(* A run that reports success has its own rendering under every target, even
   if a staged name was taken over after it was verified. *)
InstalledWhole ==
    \A w \in Writer : result[w] = "installed" => \A t \in Items(w) : disk[t] = w

(* An error report that lists backups is complete: every earlier file that is
   not back under its name is under a backup the report lists. *)
BackupsListed ==
    \A w \in Writer : result[w] \in {"unrestored", "unverified"} =>
        \A t \in Items(w) :
            prior[w][t] \in Content \ {disk[t]} =>
                \/ t \in recorded[w] /\ saved[w][t] = prior[w][t]
                \/ result[w] = "unverified" /\ t \notin unproven[w]

(* What an error report says of the earlier files is where they are. *)
RollbackReported == RestoredIsTrue /\ BackupsListed

(* An interrupted batch that was not in place loses no file: what the run found
   under a target is back there, or at least still has its backup name. *)
InterruptLosesNothing ==
    \A w \in Writer : result[w] = "interrupted" /\ ~committed[w] =>
        \A t \in Items(w) :
            prior[w][t] \in Content => prior[w][t] \in {disk[t], saved[w][t]}

=============================================================================

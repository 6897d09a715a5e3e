---------------------------- MODULE SummaryFile ----------------------------
(***************************************************************************)
(* rhetoric-style-summary.md: one file, two commands that each replace     *)
(* their own block of it, and an owner who edits it.                       *)
(*                                                                         *)
(* render-vault-status.py writes the status block.  Its dry run reports    *)
(* the digest of the file it read, and an apply is bound to that digest.   *)
(* section15_pattern_history.py writes the pattern block of Section 15,    *)
(* bound to nothing but what it reads itself.  Both render their block     *)
(* from the tracking database before they take the lock they share; the    *)
(* owner's editor takes none.                                              *)
(*                                                                         *)
(* The file is three parts: the prose, which counts the owner's edits, and *)
(* the two blocks, each known by the generation of the database it was     *)
(* rendered from.  A block's time stamp goes with that generation.         *)
(***************************************************************************)
EXTENDS Integers

CONSTANTS
  StatusRuns,    \* invocations of render-vault-status.py
  PatternRuns,   \* invocations of section15_pattern_history.py replace
  MaxGeneration, \* bound: commits to the tracking database
  MaxEdits,      \* bound: saves of the owner's editor
  None

Assumptions ==
  /\ StatusRuns \intersect PatternRuns = {} /\ None \notin StatusRuns \union PatternRuns
  /\ MaxGeneration \in Nat /\ MaxEdits \in Nat

Runs == StatusRuns \union PatternRuns

VARIABLES
  summary,     \* the file, the writer lock, and the database's generation
  renderers    \* what each run is at, and what it has read and rendered

summary_vars == <<summary, renderers>>

Absent == -1
Torn   == -2    \* delimiters missing, doubled or out of order, or no single Section 15

Part(run) == IF run \in StatusRuns THEN "status" ELSE "pattern"

\* splice_block and _replace_block_text: a block, or the lack of one, is replaced;
\* a file whose place for it is not plain is refused.
Spliceable(run, file) == file[Part(run)] # Torn
Spliced(run, file) == [file EXCEPT ![Part(run)] = renderers[run].block]

At(run, pc) == renderers[run].pc = pc
Goto(run, pc) == renderers' = [renderers EXCEPT ![run].pc = pc]
Free == [summary EXCEPT !.lock = None]

Idle == [pc |-> "idle", expected |-> None, read |-> None, block |-> Absent, edits |-> 0]
Ended(run) == renderers' = [renderers EXCEPT ![run] = Idle]

\* The digest or the bytes of the file are those of an earlier reading.
Unchanged(file) == summary.file = file

----------------------------------------------------------------------------

\* The dry run of the status command: its report names the file's digest.
DryRun(run) ==
  /\ run \in StatusRuns /\ At(run, "idle")
  /\ Spliceable(run, summary.file)
  /\ renderers' = [renderers EXCEPT ![run].pc = "planned", ![run].expected = summary.file]
  /\ UNCHANGED summary

\* mutant: a block tells the generation after the one it was rendered from.
Render_Next(run) ==
  /\ At(run, IF run \in StatusRuns THEN "planned" ELSE "idle")
  /\ renderers' = [renderers EXCEPT ![run].pc = "rendered", ![run].block = summary.generation + 1]
  /\ UNCHANGED summary

\* Both commands snapshot the database and render from it, with no lock held.
Render(run) ==
  /\ At(run, IF run \in StatusRuns THEN "planned" ELSE "idle")
  /\ renderers' = [renderers EXCEPT ![run].pc = "rendered", ![run].block = summary.generation]
  /\ UNCHANGED summary

\* mutant: the two commands do not exclude each other.
Acquire_Unlocked(run) ==
  /\ At(run, "rendered")
  /\ Goto(run, "locked")
  /\ UNCHANGED summary

Acquire(run) ==
  /\ At(run, "rendered") /\ summary.lock = None
  /\ summary' = [summary EXCEPT !.lock = run]
  /\ Goto(run, "locked")

\* mutant: an apply takes whatever file it finds.
Bound_Never(run) == TRUE

\* An apply is bound to the digest its dry run reported.
Bound(run) == run \in StatusRuns => Unchanged(renderers[run].expected)

\* One reading decides: refuse, leave a file that is as it should be, or stage.
Read(run) ==
  /\ At(run, "locked")
  /\ IF Bound(run) /\ Spliceable(run, summary.file) /\ Spliced(run, summary.file) # summary.file
     THEN /\ renderers' = [renderers EXCEPT ![run].pc = "staged", ![run].read = summary.file]
          /\ UNCHANGED summary
     ELSE Ended(run) /\ summary' = Free

\* mutant: the file is not compared again once the replacement is staged.
Recheck_Trusting(run) ==
  /\ At(run, "staged")
  /\ renderers' = [renderers EXCEPT ![run].pc = "checked", ![run].edits = summary.file.prose]
  /\ UNCHANGED summary

\* The last comparison before the rename.
Recheck(run) ==
  /\ At(run, "staged")
  /\ IF Unchanged(renderers[run].read)
     THEN /\ renderers' = [renderers EXCEPT ![run].pc = "checked", ![run].edits = summary.file.prose]
          /\ UNCHANGED summary
     ELSE Ended(run) /\ summary' = Free

\* The rename, and with it the end of the critical section.
Install(run) ==
  /\ At(run, "checked")
  /\ summary' = [Free EXCEPT !.file = Spliced(run, renderers[run].read)]
  /\ Ended(run)

\* The process dies, or a step of it fails: the lock goes with the process, and a
\* stage that stays behind is not the file.
Fail(run) ==
  /\ ~At(run, "idle")
  /\ Ended(run)
  /\ summary' = IF summary.lock = run THEN Free ELSE summary

\* The owner saves: prose changes, and a block may be damaged or taken out.
Edit ==
  /\ summary.file.prose < MaxEdits
  /\ \E status \in {summary.file.status, Absent, Torn},
       pattern \in {summary.file.pattern, Absent, Torn} :
       summary' = [summary EXCEPT !.file = [prose |-> @.prose + 1, status |-> status,
                                            pattern |-> pattern]]
  /\ UNCHANGED renderers

\* Some command commits to the tracking database.
DatabaseCommit ==
  /\ summary.generation < MaxGeneration
  /\ summary' = [summary EXCEPT !.generation = @ + 1]
  /\ UNCHANGED renderers

RunStep(run) ==
  \/ DryRun(run) \/ Render(run) \/ Acquire(run) \/ Read(run)
  \/ Recheck(run) \/ Install(run) \/ Fail(run)

Init ==
  /\ summary = [file |-> [prose |-> 0, status |-> Absent, pattern |-> Absent],
                lock |-> None, generation |-> 0]
  /\ renderers = [run \in Runs |-> Idle]

Next == Edit \/ DatabaseCommit \/ \E run \in Runs : RunStep(run)

Spec == Init /\ [][Next]_summary_vars

----------------------------------------------------------------------------

Files == [prose : 0 .. MaxEdits, status : Torn .. MaxGeneration, pattern : Torn .. MaxGeneration]

TypeOK ==
  /\ summary.file \in Files
  /\ summary.lock \in Runs \union {None} /\ summary.generation \in 0 .. MaxGeneration
  /\ \A run \in Runs :
       /\ renderers[run].pc \in {"idle", "planned", "rendered", "locked", "staged", "checked"}
       /\ renderers[run].expected \in {None} \union Files
       /\ renderers[run].read \in {None} \union Files
       /\ renderers[run].block \in Absent .. MaxGeneration
       /\ renderers[run].edits \in 0 .. MaxEdits

\* An install replaces one block and nothing else: the other command's block, and
\* every edit the owner saved before the installer's last comparison, are in the
\* file it installs.  An edit between that comparison and the rename is lost, the
\* gap the code's comments name.
NothingElseReplaced ==
  [][\A run \in Runs :
       /\ At(run, "checked") /\ summary'.file # summary.file
       /\ ~At(run, "checked")'
       /\ renderers[run].edits = summary.file.prose
       => summary'.file = Spliced(run, summary.file)]_summary_vars

\* The status block never goes back to an older database: of two applies in
\* flight, the slower finds that the digest it is bound to is gone.
StatusNeverOlder ==
  [][summary.file.status >= 0 /\ summary'.file.status >= 0
       => summary'.file.status >= summary.file.status]_summary_vars

\* What a run replaces is its own block; of the status block it is said that it only
\* gets newer, of the pattern block, which no digest binds, it is not.
BlocksKept == NothingElseReplaced /\ StatusNeverOlder

=============================================================================

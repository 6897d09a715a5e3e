---------------------------- MODULE RecordProofs ----------------------------
(***************************************************************************)
(* What stands beside an artifact tells the truth about it and outlives    *)
(* other writers, for any number of runs, renders, links and edits: of the *)
(* commands that MCVaultTools puts side by side, the vault's summary, the  *)
(* QR record of a talk, and its transcript with two receipts.              *)
(***************************************************************************)
EXTENDS MCVaultTools, Integers, TLAPS

-----------------------------------------------------------------------------
(* rhetoric-style-summary.md                                               *)

SummaryRuns == StatusRuns \union PatternRuns
Prose == [prose : Nat, status : Int, pattern : Int]
Busy == {"locked", "staged", "checked"}

Renders ==
  [pc : {"idle", "planned", "rendered"} \union Busy, expected : Prose \union {None},
   read : Prose \union {None}, block : Int, edits : Nat]

SummaryTyped ==
  /\ summary \in [file : Prose, lock : SummaryRuns \union {None}, generation : Nat]
  /\ renderers \in [SummaryRuns -> Renders]

(* A run x holds the lock while it works on the file s it has compared.  A status run's
   block is as new as the file it is bound to; after the last comparison the owner's
   edits are all that happens to the file, and they bring no block. *)
Careful(run, x, s) ==
  /\ x.pc \in Busy => s.lock = run
  /\ x.pc # "idle" /\ run \in StatusRuns =>
       x.expected \in Prose /\ x.expected.status <= s.generation
  /\ x.pc \in {"rendered"} \union Busy =>
       /\ 0 <= x.block /\ x.block <= s.generation
       /\ run \in StatusRuns => x.expected.status <= x.block
  /\ x.pc \in {"staged", "checked"} =>
       x.read \in Prose /\ (run \in StatusRuns => x.read = x.expected)
  /\ x.pc \in {"staged", "checked"} => x.read.status <= s.generation
  /\ x.pc = "checked" =>
       /\ x.edits <= s.file.prose
       /\ x.edits = s.file.prose => x.read = s.file
       /\ 0 <= s.file.status => s.file.status = x.read.status

SummaryInv ==
  /\ SummaryTyped
  /\ summary.file.status <= summary.generation
  /\ \A run \in SummaryRuns : Careful(run, renderers[run], summary)

LEMMA SummaryAssumed == /\ StatusRuns \intersect PatternRuns = {}
                        /\ None \notin SummaryRuns
                        /\ SummaryRuns = Summary!Runs
BY ToolAssumptions DEF Summary!Assumptions, SummaryRuns, Summary!Runs

LEMMA SummaryStart == Summary!Init => SummaryInv
<1>1. SUFFICES ASSUME Summary!Init PROVE SummaryInv
    OBVIOUS
<1>2. [prose |-> 0, status |-> Summary!Absent, pattern |-> Summary!Absent] \in Prose
    BY DEF Prose, Summary!Absent
<1>3. SummaryTyped /\ summary.file.status <= summary.generation
    BY <1>1, <1>2, SummaryAssumed
       DEF Summary!Init, SummaryTyped, Renders, Summary!Idle, Summary!Absent, Prose
<1>4. ASSUME NEW run \in SummaryRuns PROVE renderers[run].pc = "idle"
    BY <1>1, SummaryAssumed DEF Summary!Init, Summary!Idle
<1>5. QED
    BY <1>3, <1>4 DEF SummaryInv, Careful, Busy

(* One run's step, seen by all. *)
LEMMA RunStep ==
  ASSUME SummaryInv, NEW run \in SummaryRuns, NEW r \in Renders,
         NEW s \in [file : Prose, lock : SummaryRuns \union {None}, generation : Nat],
         renderers' = [renderers EXCEPT ![run] = r], summary' = s,
         s.generation = summary.generation, s.file.status <= s.generation,
         Careful(run, r, s),
         \A g \in SummaryRuns \ {run} :
           /\ summary.lock = g => s.lock = g /\ s.file = summary.file
  PROVE  SummaryInv'
<1>1. /\ renderers' \in [SummaryRuns -> Renders] /\ renderers'[run] = r
      /\ \A g \in SummaryRuns \ {run} : renderers'[g] = renderers[g]
    BY DEF SummaryInv, SummaryTyped
<1>2. SummaryTyped' /\ summary'.file.status <= summary'.generation
    BY <1>1 DEF SummaryTyped
<1>3. ASSUME NEW g \in SummaryRuns PROVE Careful(g, renderers'[g], s)
    <2>1. CASE g = run
        BY <1>1, <2>1
    <2>2. CASE g # run
        <3>1. PICK x : x = renderers[g] /\ x = renderers'[g]
            BY <1>1, <2>2
        <3>2. Careful(g, x, summary) /\ x \in Renders
            BY <3>1 DEF SummaryInv, SummaryTyped
        <3>3. x.pc \in Busy => summary.lock = g
            BY <3>2 DEF Careful
        <3>4. x.pc \in Busy => s.lock = g /\ s.file = summary.file
            BY <2>2, <3>3
        <3>5. Careful(g, x, s)
            BY <3>2, <3>4 DEF Careful, Busy
        <3>6. QED
            BY <3>1, <3>5
    <2>3. QED
        BY <2>1, <2>2
<1>4. QED
    BY <1>2, <1>3 DEF SummaryInv

LEMMA SummaryAt ==
  ASSUME SummaryInv, NEW run \in SummaryRuns
  PROVE  /\ summary \in [file : Prose, lock : SummaryRuns \union {None}, generation : Nat]
         /\ renderers[run] \in Renders /\ Careful(run, renderers[run], summary)
         /\ summary.file \in Prose /\ summary.file.prose \in Nat
         /\ summary.file.status \in Int /\ summary.generation \in Nat
         /\ summary.file.status <= summary.generation
BY DEF SummaryInv, SummaryTyped, Prose

(* A run ends, and with it, if it has it, the lock. *)
LEMMA RunEnds ==
  ASSUME SummaryInv, NEW run \in SummaryRuns, Summary!Ended(run),
         NEW s \in [file : Prose, lock : SummaryRuns \union {None}, generation : Nat],
         summary' = s, s.generation = summary.generation, s.file.status <= s.generation,
         \A g \in SummaryRuns \ {run} :
           /\ summary.lock = g => s.lock = g /\ s.file = summary.file
  PROVE  SummaryInv'
<1>1. PICK r : r = Summary!Idle
    OBVIOUS
<1>2. r \in Renders /\ r.pc = "idle"
    BY <1>1 DEF Summary!Idle, Renders, Summary!Absent
<1>3. Careful(run, r, s)
    BY <1>2 DEF Careful, Busy
<1>4. renderers' = [renderers EXCEPT ![run] = r]
    BY <1>1 DEF Summary!Ended
<1>5. QED
    BY <1>2, <1>3, <1>4, RunStep

LEMMA RunFrees ==
  ASSUME SummaryInv, NEW run \in SummaryRuns, Summary!Ended(run), summary.lock = run,
         NEW f \in Prose, summary' = [summary EXCEPT !.lock = None, !.file = f],
         f.status <= summary.generation
  PROVE  SummaryInv'
<1>1. PICK s : s = [summary EXCEPT !.lock = None, !.file = f]
    OBVIOUS
<1>2. /\ s \in [file : Prose, lock : SummaryRuns \union {None}, generation : Nat]
      /\ s.generation = summary.generation /\ s.file = f
    BY <1>1, SummaryAt
<1>3. \A g \in SummaryRuns \ {run} : summary.lock # g
    OBVIOUS
<1>4. QED
    BY <1>1, <1>2, <1>3, RunEnds

LEMMA RunRenders ==
  ASSUME SummaryInv, NEW run \in SummaryRuns, Summary!DryRun(run) \/ Summary!Render(run)
  PROVE  SummaryInv'
<1>1. /\ summary \in [file : Prose, lock : SummaryRuns \union {None}, generation : Nat]
      /\ renderers[run] \in Renders /\ Careful(run, renderers[run], summary)
      /\ summary.file \in Prose /\ summary.generation \in Nat
      /\ summary.file.status \in Int /\ summary.file.status <= summary.generation
    BY SummaryAt
<1>2. CASE Summary!DryRun(run)
    <2>1. PICK r : r = [renderers[run] EXCEPT !.pc = "planned", !.expected = summary.file]
        OBVIOUS
    <2>2. renderers' = [renderers EXCEPT ![run] = r] /\ summary' = summary
        BY <1>2, <2>1 DEF Summary!DryRun, SummaryInv, SummaryTyped
    <2>3. r \in Renders /\ r.pc = "planned" /\ r.expected = summary.file
        BY <1>1, <2>1 DEF Renders
    <2>4. Careful(run, r, summary)
        BY <1>1, <2>3 DEF Careful, Busy
    <2>5. QED
        BY <1>1, <2>2, <2>3, <2>4, RunStep
<1>3. CASE Summary!Render(run)
    <2>1. PICK b \in Int : b = summary.generation
        BY <1>1
    <2>2. PICK r : r = [renderers[run] EXCEPT !.pc = "rendered", !.block = b]
        OBVIOUS
    <2>3. renderers' = [renderers EXCEPT ![run] = r] /\ summary' = summary
        BY <1>3, <2>1, <2>2 DEF Summary!Render, SummaryInv, SummaryTyped
    <2>4. /\ r \in Renders /\ r.pc = "rendered" /\ r.block = summary.generation
          /\ r.expected = renderers[run].expected
        BY <1>1, <2>1, <2>2 DEF Renders
    <2>5. run \in StatusRuns => renderers[run].pc = "planned"
        BY <1>3 DEF Summary!Render, Summary!At
    <2>6. Careful(run, r, summary)
        BY <1>1, <2>4, <2>5 DEF Careful, Busy
    <2>7. QED
        BY <1>1, <2>3, <2>4, <2>6, RunStep
<1>4. QED
    BY <1>2, <1>3

LEMMA RunAcquires ==
  ASSUME SummaryInv, NEW run \in SummaryRuns, Summary!Acquire(run) PROVE SummaryInv'
<1>1. /\ summary \in [file : Prose, lock : SummaryRuns \union {None}, generation : Nat]
      /\ renderers[run] \in Renders /\ Careful(run, renderers[run], summary)
      /\ summary.file \in Prose /\ summary.file.status <= summary.generation
    BY SummaryAt
<1>2. PICK r : r = [renderers[run] EXCEPT !.pc = "locked"]
    OBVIOUS
<1>3. PICK s : s = [summary EXCEPT !.lock = run]
    OBVIOUS
<1>4. renderers' = [renderers EXCEPT ![run] = r] /\ summary' = s
    BY <1>2, <1>3 DEF Summary!Acquire, Summary!Goto, SummaryInv, SummaryTyped
<1>5. /\ r \in Renders /\ r.pc = "locked" /\ r.block = renderers[run].block
      /\ r.expected = renderers[run].expected
    BY <1>1, <1>2 DEF Renders, Busy
<1>6. /\ s \in [file : Prose, lock : SummaryRuns \union {None}, generation : Nat]
      /\ s.generation = summary.generation /\ s.file = summary.file /\ s.lock = run
    BY <1>1, <1>3
<1>7. renderers[run].pc = "rendered" /\ summary.lock = None
    BY DEF Summary!Acquire, Summary!At
<1>8. Careful(run, r, s)
    BY <1>1, <1>5, <1>6, <1>7 DEF Careful, Busy
<1>9. \A g \in SummaryRuns : summary.lock # g
    BY <1>7, SummaryAssumed
<1>10. s.file.status <= s.generation
    BY <1>1, <1>6
<1>11. QED
    BY <1>4, <1>5, <1>6, <1>8, <1>9, <1>10, RunStep

(* The file is read, and compared again, by a run that has the lock. *)
LEMMA RunReads ==
  ASSUME SummaryInv, NEW run \in SummaryRuns, Summary!Read(run) \/ Summary!Recheck(run)
  PROVE  SummaryInv'
<1>1. /\ summary \in [file : Prose, lock : SummaryRuns \union {None}, generation : Nat]
      /\ renderers[run] \in Renders /\ Careful(run, renderers[run], summary)
      /\ summary.file \in Prose /\ summary.file.prose \in Nat
      /\ summary.file.status \in Int /\ summary.generation \in Nat
      /\ summary.file.status <= summary.generation
    BY SummaryAt
<1>2. renderers[run].pc \in {"locked", "staged"} /\ summary.lock = run
    BY <1>1 DEF Summary!Read, Summary!Recheck, Summary!At, Careful, Busy
<1>3. CASE Summary!Ended(run) /\ summary' = Summary!Free
    <2>1. [summary EXCEPT !.lock = None] = [summary EXCEPT !.lock = None, !.file = summary.file]
        BY <1>1
    <2>2. QED
        BY <1>1, <1>2, <1>3, <2>1, RunFrees DEF Summary!Free
<1>4. CASE /\ renderers[run].pc = "locked" /\ Summary!Bound(run) /\ UNCHANGED summary
           /\ renderers' = [renderers EXCEPT ![run].pc = "staged", ![run].read = summary.file]
    <2>1. PICK r : r = [renderers[run] EXCEPT !.pc = "staged", !.read = summary.file]
        OBVIOUS
    <2>2. renderers' = [renderers EXCEPT ![run] = r] /\ summary' = summary
        BY <1>4, <2>1 DEF SummaryInv, SummaryTyped
    <2>3. /\ r \in Renders /\ r.pc = "staged" /\ r.block = renderers[run].block
          /\ r.expected = renderers[run].expected /\ r.read = summary.file
        BY <1>1, <2>1 DEF Renders, Busy
    <2>4. run \in StatusRuns => r.read = r.expected
        BY <1>4, <2>3 DEF Summary!Bound, Summary!Unchanged
    <2>5. Careful(run, r, summary)
        BY <1>1, <1>2, <1>4, <2>3, <2>4 DEF Careful, Busy
    <2>6. QED
        BY <1>1, <2>2, <2>3, <2>5, RunStep
<1>5. CASE /\ renderers[run].pc = "staged" /\ Summary!Unchanged(renderers[run].read)
           /\ UNCHANGED summary
           /\ renderers' = [renderers EXCEPT ![run].pc = "checked",
                                             ![run].edits = summary.file.prose]
    <2>1. PICK r : r = [renderers[run] EXCEPT !.pc = "checked", !.edits = summary.file.prose]
        OBVIOUS
    <2>2. renderers' = [renderers EXCEPT ![run] = r] /\ summary' = summary
        BY <1>5, <2>1 DEF SummaryInv, SummaryTyped
    <2>3. /\ r \in Renders /\ r.pc = "checked" /\ r.block = renderers[run].block
          /\ r.expected = renderers[run].expected /\ r.read = renderers[run].read
          /\ r.edits = summary.file.prose
        BY <1>1, <2>1 DEF Renders, Busy
    <2>4. r.read = summary.file
        BY <1>5, <2>3 DEF Summary!Unchanged
    <2>5. Careful(run, r, summary)
        BY <1>1, <1>2, <1>5, <2>3, <2>4 DEF Careful, Busy
    <2>6. QED
        BY <1>1, <2>2, <2>3, <2>5, RunStep
<1>6. QED
    BY <1>3, <1>4, <1>5 DEF Summary!Read, Summary!Recheck, Summary!At

LEMMA Splices ==
  ASSUME NEW run \in SummaryRuns, renderers[run] \in Renders, NEW f \in Prose
  PROVE  /\ Summary!Spliced(run, f) \in Prose
         /\ Summary!Spliced(run, f).status =
              IF run \in StatusRuns THEN renderers[run].block ELSE f.status
<1>1. renderers[run].block \in Int
    BY DEF Renders
<1>2. PICK b \in Int : b = renderers[run].block
    BY <1>1
<1>3. CASE run \in StatusRuns
    <2>1. Summary!Spliced(run, f) = [f EXCEPT !.status = b]
        BY <1>2, <1>3 DEF Summary!Spliced, Summary!Part
    <2>2. QED
        BY <1>2, <1>3, <2>1 DEF Prose
<1>4. CASE run \notin StatusRuns
    <2>1. Summary!Spliced(run, f) = [f EXCEPT !.pattern = b]
        BY <1>2, <1>4 DEF Summary!Spliced, Summary!Part
    <2>2. QED
        BY <1>2, <1>4, <2>1 DEF Prose
<1>5. QED
    BY <1>3, <1>4

LEMMA RunInstalls ==
  ASSUME SummaryInv, NEW run \in SummaryRuns, Summary!Install(run)
  PROVE  /\ SummaryInv'
         /\ summary'.file = Summary!Spliced(run, renderers[run].read)
<1>1. /\ summary \in [file : Prose, lock : SummaryRuns \union {None}, generation : Nat]
      /\ renderers[run] \in Renders /\ Careful(run, renderers[run], summary)
      /\ renderers[run].pc = "checked"
    BY SummaryAt DEF Summary!Install, Summary!At
<1>2. /\ summary.lock = run /\ renderers[run].read \in Prose
      /\ renderers[run].read.status <= summary.generation
      /\ renderers[run].block <= summary.generation
    BY <1>1 DEF Careful, Busy
<1>3. PICK f : f = Summary!Spliced(run, renderers[run].read)
    OBVIOUS
<1>4. f \in Prose /\ f.status <= summary.generation
    BY <1>1, <1>2, <1>3, Splices
<1>5. summary' = [summary EXCEPT !.lock = None, !.file = f]
    BY <1>3 DEF Summary!Install, Summary!Free
<1>6. SummaryInv'
    BY <1>2, <1>4, <1>5, RunFrees DEF Summary!Install
<1>7. summary'.file = f
    BY <1>1, <1>5
<1>8. QED
    BY <1>3, <1>6, <1>7

LEMMA RunFails ==
  ASSUME SummaryInv, NEW run \in SummaryRuns, Summary!Fail(run) PROVE SummaryInv'
<1>1. /\ summary \in [file : Prose, lock : SummaryRuns \union {None}, generation : Nat]
      /\ summary.file \in Prose /\ summary.file.status <= summary.generation
    BY SummaryAt
<1>2. CASE summary.lock = run
    <2>1. [summary EXCEPT !.lock = None] = [summary EXCEPT !.lock = None, !.file = summary.file]
        BY <1>1
    <2>2. QED
        BY <1>1, <1>2, <2>1, RunFrees DEF Summary!Fail, Summary!Free
<1>3. CASE summary.lock # run
    BY <1>1, <1>3, RunEnds DEF Summary!Fail
<1>4. QED
    BY <1>2, <1>3

(* The owner saves, or the database moves on. *)
LEMMA OwnerSaves == ASSUME SummaryInv, Summary!Edit PROVE SummaryInv'
<1>1. /\ summary \in [file : Prose, lock : SummaryRuns \union {None}, generation : Nat]
      /\ summary.file \in Prose /\ summary.file.status <= summary.generation
      /\ summary.file.prose \in Nat /\ summary.file.status \in Int /\ summary.generation \in Nat
    BY DEF SummaryInv, SummaryTyped, Prose
<1>2. PICK status \in {summary.file.status, -1, -2},
           pattern \in {summary.file.pattern, -1, -2} :
        summary' = [summary EXCEPT !.file = [prose |-> @.prose + 1, status |-> status,
                                             pattern |-> pattern]]
    BY DEF Summary!Edit, Summary!Absent, Summary!Torn
<1>3. PICK n \in Nat : n = summary.file.prose + 1
    BY <1>1
<1>4. PICK f : f = [prose |-> n, status |-> status, pattern |-> pattern]
    OBVIOUS
<1>5. /\ f \in Prose /\ f.prose = summary.file.prose + 1
      /\ f.status \in {summary.file.status, -1, -2} /\ f.status <= summary.generation
    BY <1>1, <1>2, <1>3, <1>4 DEF Prose
<1>6. PICK s : s = [summary EXCEPT !.file = f]
    OBVIOUS
<1>7. /\ summary' = s /\ renderers' = renderers
    BY <1>2, <1>3, <1>4, <1>6 DEF Summary!Edit
<1>8. /\ s \in [file : Prose, lock : SummaryRuns \union {None}, generation : Nat]
      /\ s.file = f /\ s.lock = summary.lock /\ s.generation = summary.generation
    BY <1>1, <1>5, <1>6
<1>9. ASSUME NEW run \in SummaryRuns PROVE Careful(run, renderers[run], s)
    <2>1. PICK x \in Renders : x = renderers[run]
        BY SummaryAt
    <2>2. Careful(run, x, summary)
        BY <2>1, SummaryAt
    <2>3. x.edits \in Nat
        BY DEF Renders
    <2>4. x.pc = "checked" => x.edits < f.prose
        BY <1>1, <1>5, <2>2, <2>3 DEF Careful
    <2>5. x.pc = "checked" /\ 0 <= f.status => f.status = x.read.status
        BY <1>1, <1>5, <2>2 DEF Careful
    <2>6. Careful(run, x, s)
        BY <1>5, <1>8, <2>2, <2>3, <2>4, <2>5 DEF Careful, Prose
    <2>7. QED
        BY <2>1, <2>6
<1>10. SummaryTyped'
    BY <1>7, <1>8 DEF SummaryInv, SummaryTyped
<1>11. QED
    BY <1>5, <1>7, <1>8, <1>9, <1>10 DEF SummaryInv

LEMMA DatabaseMoves == ASSUME SummaryInv, Summary!DatabaseCommit PROVE SummaryInv'
<1>1. /\ summary \in [file : Prose, lock : SummaryRuns \union {None}, generation : Nat]
      /\ summary.file \in Prose /\ summary.file.status <= summary.generation
      /\ summary.file.status \in Int /\ summary.generation \in Nat
    BY DEF SummaryInv, SummaryTyped, Prose
<1>2. PICK n \in Nat : n = summary.generation + 1
    BY <1>1
<1>3. PICK s : s = [summary EXCEPT !.generation = n]
    OBVIOUS
<1>4. summary' = s /\ renderers' = renderers
    BY <1>2, <1>3 DEF Summary!DatabaseCommit
<1>5. /\ s \in [file : Prose, lock : SummaryRuns \union {None}, generation : Nat]
      /\ s.file = summary.file /\ s.lock = summary.lock /\ s.generation = n
    BY <1>1, <1>3
<1>6. ASSUME NEW run \in SummaryRuns PROVE Careful(run, renderers[run], s)
    <2>1. PICK x \in Renders : x = renderers[run]
        BY SummaryAt
    <2>2. Careful(run, x, summary)
        BY <2>1, SummaryAt
    <2>3. \A m \in Int : m <= summary.generation => m <= n
        BY <1>1, <1>2
    <2>4. x.block \in Int
        BY DEF Renders
    <2>5. Careful(run, x, s)
        BY <1>5, <2>2, <2>3, <2>4 DEF Careful, Prose
    <2>6. QED
        BY <2>1, <2>5
<1>7. SummaryTyped'
    BY <1>4, <1>5 DEF SummaryInv, SummaryTyped
<1>8. QED
    BY <1>1, <1>2, <1>4, <1>5, <1>6, <1>7 DEF SummaryInv

LEMMA SummaryStep == SummaryInv /\ [Summary!Next]_summary_vars => SummaryInv'
<1>1. ASSUME SummaryInv, NEW run \in SummaryRuns, Summary!RunStep(run) PROVE SummaryInv'
    BY <1>1, RunRenders, RunAcquires, RunReads, RunInstalls, RunFails DEF Summary!RunStep
<1>2. ASSUME SummaryInv, UNCHANGED summary_vars PROVE SummaryInv'
    <2>1. summary' = summary /\ renderers' = renderers
        BY <1>2 DEF summary_vars
    <2>2. QED
        BY <1>2, <2>1 DEF SummaryInv, SummaryTyped
<1>3. QED
    BY <1>1, <1>2, OwnerSaves, DatabaseMoves, SummaryAssumed DEF Summary!Next

(* Who is at the last comparison and no longer is has installed or failed, and nobody
   else touches the file of who has the lock. *)
LEMMA NothingElse ==
  ASSUME SummaryInv, Summary!Next, NEW run \in SummaryRuns, Summary!At(run, "checked"),
         summary'.file # summary.file, ~Summary!At(run, "checked")',
         renderers[run].edits = summary.file.prose
  PROVE  summary'.file = Summary!Spliced(run, summary.file)
<1>1. /\ Careful(run, renderers[run], summary) /\ renderers[run].pc = "checked"
      /\ renderers \in [SummaryRuns -> Renders]
      /\ summary \in [file : Prose, lock : SummaryRuns \union {None}, generation : Nat]
    BY SummaryAt DEF SummaryInv, SummaryTyped, Summary!At
<1>2. renderers[run].read = summary.file
    BY <1>1 DEF Careful
<1>3. renderers' # renderers
    BY <1>1 DEF Summary!At
<1>4. PICK g \in SummaryRuns : Summary!RunStep(g)
    BY <1>3, SummaryAssumed DEF Summary!Next, Summary!Edit, Summary!DatabaseCommit
<1>5. CASE Summary!Install(run)
    BY <1>2, <1>5, RunInstalls
<1>6. ASSUME g # run PROVE FALSE
    <2>1. renderers'[run] = renderers[run]
        BY <1>1, <1>4, <1>6
           DEF Summary!RunStep, Summary!DryRun, Summary!Render, Summary!Acquire, Summary!Read,
               Summary!Recheck, Summary!Install, Summary!Fail, Summary!Goto, Summary!Ended
    <2>2. QED
        BY <1>1, <2>1 DEF Summary!At
<1>7. CASE Summary!Fail(run)
    BY <1>1, <1>7 DEF Summary!Fail, Summary!Free
<1>8. CASE ~Summary!Install(g) /\ ~Summary!Fail(g)
    BY <1>1, <1>4, <1>6, <1>8
       DEF Summary!RunStep, Summary!DryRun, Summary!Render, Summary!Acquire, Summary!Read,
           Summary!Recheck, Summary!At
<1>9. QED
    BY <1>4, <1>5, <1>6, <1>7, <1>8

LEMMA StatusNewer ==
  ASSUME SummaryInv, Summary!Next, 0 <= summary.file.status, 0 <= summary'.file.status
  PROVE  summary.file.status <= summary'.file.status
<1>1. /\ summary \in [file : Prose, lock : SummaryRuns \union {None}, generation : Nat]
      /\ summary.file.status \in Int
    BY DEF SummaryInv, SummaryTyped, Prose
<1>2. CASE Summary!Edit
    <2>1. PICK status \in {summary.file.status, -1, -2},
               pattern \in {summary.file.pattern, -1, -2} :
            summary' = [summary EXCEPT !.file = [prose |-> @.prose + 1, status |-> status,
                                                 pattern |-> pattern]]
        BY <1>2 DEF Summary!Edit, Summary!Absent, Summary!Torn
    <2>2. summary'.file.status = status
        BY <1>1, <2>1
    <2>3. QED
        BY <1>1, <2>1, <2>2
<1>3. ASSUME NEW run \in SummaryRuns, Summary!Install(run)
      PROVE  summary.file.status <= summary'.file.status
    <2>1. /\ renderers[run] \in Renders /\ Careful(run, renderers[run], summary)
          /\ renderers[run].pc = "checked"
        BY <1>3, SummaryAt DEF Summary!Install, Summary!At
    <2>2. /\ renderers[run].read \in Prose
          /\ summary.file.status = renderers[run].read.status
          /\ run \in StatusRuns => renderers[run].read.status <= renderers[run].block
        BY <2>1 DEF Careful, Busy
    <2>3. summary'.file = Summary!Spliced(run, renderers[run].read)
        BY <1>3, RunInstalls
    <2>4. summary'.file.status = IF run \in StatusRuns THEN renderers[run].block
                                 ELSE renderers[run].read.status
        BY <2>1, <2>2, <2>3, Splices
    <2>5. QED
        BY <1>1, <2>2, <2>4
<1>4. CASE summary'.file = summary.file
    BY <1>1, <1>4
<1>5. ASSUME NEW run \in SummaryRuns, Summary!RunStep(run), ~Summary!Install(run)
      PROVE  summary'.file = summary.file
    BY <1>1, <1>5
       DEF Summary!RunStep, Summary!DryRun, Summary!Render, Summary!Acquire, Summary!Read,
           Summary!Recheck, Summary!Fail, Summary!Free
<1>6. Summary!DatabaseCommit => summary'.file = summary.file
    BY <1>1 DEF Summary!DatabaseCommit
<1>7. QED
    BY <1>2, <1>3, <1>4, <1>5, <1>6, SummaryAssumed DEF Summary!Next

-----------------------------------------------------------------------------
(* generate-qr.py                                                          *)

ShortLinks == [service : Services, slugged : BOOLEAN, target : Targets]

Worlds ==
  [links : Seq(ShortLinks), record : Qr!Records \union {None}, generation : Nat,
   edited : BOOLEAN, lock : Publishers \union {None}]

Locked ==
  {"reload", "resolve", "png", "back_half", "deck", "commit", "write", "committed"}
Resolved == {"png", "deck", "commit", "write", "committed"}

Publications ==
  [pc : {"idle", "lock", "ended"} \union Locked, target : Targets \union {None},
   service : Services \union {"none", "preresolved", None},
   prior : Qr!Records \union {None}, meta : Qr!Records \union {None},
   receipt : Qr!Receipts, effects : Qr!Receipts, fresh : Nat,
   outcome : Qr!Outcomes \union {None}]

(* A record names a link that exists, unless the talk has none. *)
Real(record, w) ==
  record \in Qr!Records =>
    record.link <= Len(w.links) /\ (record.link = 0 => record.service = "none")

(* The record is still about the link that a run found: others may point it elsewhere
   or drop it, which shows. *)
Since(prior, w) ==
  /\ w.record # None =>
       /\ prior \in Qr!Records /\ prior.service = w.record.service
       /\ prior.slugged = w.record.slugged /\ prior.link = w.record.link
  /\ ~w.edited => prior = w.record

Linked(x, action) == [Qr!NoReceipt EXCEPT !.link = x.meta.link, !.action = action]

(* What run p, whose state is x, may rely on in world w. *)
Sure(p, x, w) ==
  /\ x.pc \in Locked => w.lock = p
  /\ Real(x.prior, w) /\ Real(x.meta, w)
  /\ x.pc \in {"idle", "ended"} \/ x.target \in Targets
  /\ x.pc = "ended" \/ x.outcome = None
  /\ x.pc = "idle" => x.receipt = Qr!NoReceipt /\ x.effects = Qr!NoReceipt
  /\ x.pc \in {"lock", "reload", "resolve"} =>
       /\ x.receipt = Qr!NoReceipt
       /\ x.effects = Qr!NoReceipt \/ (x.meta \in Qr!Records /\ x.effects = Linked(x, "preresolved"))
       /\ x.service = "preresolved" <=> x.effects # Qr!NoReceipt
  /\ x.pc = "resolve" => Since(x.prior, w)
  /\ x.pc = "back_half" =>
       /\ x.meta \in Qr!Records /\ x.meta.link # 0 /\ x.meta.service \in Services
       /\ x.receipt = Qr!NoReceipt /\ x.effects = Linked(x, "created")
  /\ x.pc \in Resolved =>
       /\ x.meta \in Qr!Records /\ x.receipt = x.effects
       /\ x.effects.link \in {0, x.meta.link}
  /\ x.pc = "write" =>
       /\ x.fresh <= w.generation
       /\ x.fresh = w.generation => w.record = x.prior
  /\ x.pc = "committed" => w.edited \/ w.record = [x.meta EXCEPT !.target = x.target]
  /\ x.outcome = "unfinalized" => x.receipt = x.effects
  /\ x.outcome = "refused" =>
       ~x.effects.pngs /\ ~x.effects.deck /\ x.effects.action # "created"

(* A run pointed the link and has not come to its commit, or an agent pointed it. *)
Open(x, link) ==
  /\ x.effects.link = link
  /\ x.effects.action = "preresolved" \/ (x.effects.action = "retargeted" /\ x.outcome # "done")

(* The link of a run that has one leads where the run wants, unless another one pointed
   it: an agent, or a run that did not come to its commit. *)
Leads(p, x, ps, w) ==
  x.pc \in Resolved \union {"back_half"} /\ x.meta.link # 0 =>
    \/ w.edited
    \/ w.links[x.meta.link].target = x.target
    \/ x.effects.link = x.meta.link /\ x.effects.action = "preresolved"
    \/ \E q \in Publishers \ {p} : Open(ps[q], x.meta.link)

Tells(ps, w) ==
  w.record # None /\ w.record.link # 0 /\ ~w.edited
  /\ ~(\E q \in Publishers : Open(ps[q], w.record.link))
  => w.links[w.record.link].target = w.record.target

QrTyped ==
  /\ world \in Worlds /\ Len(world.links) <= MaxLinks /\ Real(world.record, world)
  /\ pubs \in [Publishers -> Publications]

QrSure == QrTyped /\ \A p \in Publishers : Sure(p, pubs[p], world)

QrTells ==
  Tells(pubs, world) /\ \A p \in Publishers : Leads(p, pubs[p], pubs, world)

QrInv == QrSure /\ QrTells

LEMMA QrAssumed ==
  /\ Services \subseteq {"bitly", "rebrandly"} /\ MaxLinks \in Nat \ {0}
  /\ None \notin Publishers /\ None \notin Qr!Actions /\ None \notin Qr!Outcomes
  /\ None \notin Qr!Records /\ Targets # {}
BY ToolAssumptions DEF Qr!Assumptions

LEMMA NoReceiptTyped ==
  /\ Qr!NoReceipt \in Qr!Receipts /\ Qr!NoReceipt.link = 0 /\ Qr!NoReceipt.action = None
  /\ Qr!NoReceipt.prior = None /\ ~Qr!NoReceipt.pngs /\ ~Qr!NoReceipt.deck
BY QrAssumed DEF Qr!NoReceipt, Qr!Receipts

LEMMA QrAt ==
  ASSUME QrInv, NEW p \in Publishers
  PROVE  /\ world \in Worlds /\ Len(world.links) <= MaxLinks /\ Len(world.links) \in Nat
         /\ Real(world.record, world)
         /\ pubs[p] \in Publications /\ Sure(p, pubs[p], world)
         /\ Leads(p, pubs[p], pubs, world) /\ Tells(pubs, world)
BY DEF QrInv, QrSure, QrTells, QrTyped, Worlds

LEMMA RealMore ==
  ASSUME world \in Worlds, NEW k \in Qr!Records \union {None}, Real(k, world),
         NEW w \in Worlds, Len(world.links) <= Len(w.links)
  PROVE  Real(k, w)
<1>1. k \in Qr!Records => k.link \in Nat
    BY QrAssumed DEF Qr!Records
<1>2. Len(world.links) \in Nat /\ Len(w.links) \in Nat
    BY DEF Worlds
<1>3. QED
    BY <1>1, <1>2 DEF Real

(* One run's step, seen by all. *)
LEMMA QrStepSure ==
  ASSUME QrInv, NEW p \in Publishers, NEW r \in Publications, NEW w \in Worlds,
         Qr!Upd(p, r), world' = w, Sure(p, r, w),
         Len(world.links) <= Len(w.links), Len(w.links) <= MaxLinks, Real(w.record, w),
         \A q \in Publishers \ {p} : world.lock = q =>
           /\ w.lock = q /\ w.record = world.record
           /\ w.generation = world.generation /\ w.edited = world.edited
  PROVE  QrSure'
<1>1. /\ pubs' \in [Publishers -> Publications] /\ pubs'[p] = r
      /\ \A q \in Publishers \ {p} : pubs'[q] = pubs[q]
    BY DEF QrInv, QrSure, QrTyped, Qr!Upd
<1>2. PICK v : v = w /\ v = world'
    OBVIOUS
<1>3. /\ v \in Worlds /\ Len(v.links) <= MaxLinks /\ Real(v.record, v)
      /\ Len(world.links) \in Nat /\ Len(v.links) \in Nat
    BY <1>2 DEF QrInv, QrSure, QrTyped, Worlds
<1>4. QrTyped'
    BY <1>1, <1>2, <1>3 DEF QrTyped, Real
<1>5. ASSUME NEW q \in Publishers PROVE Sure(q, pubs'[q], v)
    <2>1. CASE q = p
        BY <1>1, <1>2, <2>1
    <2>2. CASE q # p
        <3>1. PICK x : x = pubs[q] /\ x = pubs'[q]
            BY <1>1, <2>2
        <3>2. x \in Publications /\ Sure(q, x, world)
            BY <3>1, QrAt
        <3>3. x.pc \in Locked =>
                /\ v.lock = q /\ v.record = world.record
                /\ v.generation = world.generation /\ v.edited = world.edited
            BY <1>2, <2>2, <3>2 DEF Sure
        <3>4. ASSUME NEW k \in Qr!Records \union {None}, Real(k, world) PROVE Real(k, v)
            <4>1. k \in Qr!Records => k.link \in Nat
                BY QrAssumed DEF Qr!Records
            <4>2. QED
                BY <1>2, <1>3, <3>4, <4>1 DEF Real
        <3>5. Real(x.prior, v) /\ Real(x.meta, v)
            BY <3>2, <3>4 DEF Sure, Publications
        <3>6. Sure(q, x, v)
            BY <3>2, <3>3, <3>5 DEF Sure, Locked, Since
        <3>7. QED
            BY <3>1, <3>6
    <2>3. QED
        BY <2>1, <2>2
<1>6. QED
    BY <1>2, <1>4, <1>5 DEF QrSure

(* What a step that points a link, or none, leaves of what the record tells. *)
LEMMA QrStepTells ==
  ASSUME QrInv, NEW p \in Publishers, NEW r, Qr!Upd(p, r), NEW w, world' = w,
         w.record = world.record, w.edited = world.edited, Leads(p, r, pubs, w),
         \A l \in 1 .. Len(world.links) :
           w.links[l].target = world.links[l].target \/ Open(r, l),
         \A l \in Nat \ {0} : Open(pubs[p], l) => Open(r, l)
  PROVE  QrTells'
<1>1. PICK ps : ps = pubs /\ ps \in [Publishers -> Publications]
    BY DEF QrInv, QrSure, QrTyped
<1>2. PICK ps2 : ps2 = pubs' /\ ps2 = [ps EXCEPT ![p] = r]
    BY <1>1 DEF Qr!Upd
<1>3. ps2[p] = r /\ \A q \in Publishers \ {p} : ps2[q] = ps[q]
    BY <1>1, <1>2
<1>4. ASSUME NEW l \in Nat \ {0}, NEW q \in Publishers, Open(ps[q], l) PROVE Open(ps2[q], l)
    BY <1>1, <1>3, <1>4
<1>5. ASSUME NEW k \in Qr!Records, Real(k, world), k.link # 0
      PROVE k.link \in 1 .. Len(world.links) /\ k.link \in Nat \ {0}
    BY <1>5, QrAssumed, QrAt DEF Real, Qr!Records
<1>6. Tells(ps2, w)
    <2>1. SUFFICES ASSUME w.record # None, w.record.link # 0, ~w.edited,
                          ~(\E q \in Publishers : Open(ps2[q], w.record.link))
                   PROVE  w.links[w.record.link].target = w.record.target
        BY DEF Tells
    <2>2. PICK k : k = world.record
        OBVIOUS
    <2>3. k \in Qr!Records /\ Real(k, world) /\ k = w.record /\ Tells(ps, world)
        BY <1>1, <2>1, <2>2, QrAt DEF Worlds
    <2>4. k.link \in 1 .. Len(world.links) /\ k.link \in Nat \ {0}
        BY <1>5, <2>1, <2>3
    <2>5. ~(\E q \in Publishers : Open(ps[q], k.link)) /\ ~Open(r, k.link)
        BY <1>3, <1>4, <2>1, <2>3, <2>4
    <2>6. world.links[k.link].target = k.target
        BY <2>1, <2>2, <2>3, <2>5 DEF Tells
    <2>7. QED
        BY <2>3, <2>4, <2>5, <2>6
<1>7. ASSUME NEW q \in Publishers PROVE Leads(q, ps2[q], ps2, w)
    <2>1. CASE q = p
        <3>1. \A o \in Publishers \ {p} : ps2[o] = pubs[o]
            BY <1>1, <1>3
        <3>2. QED
            BY <1>3, <2>1, <3>1 DEF Leads
    <2>2. CASE q # p
        <3>1. PICK x : x = ps[q] /\ x = ps2[q]
            BY <1>3, <2>2
        <3>2. x \in Publications /\ Sure(q, x, world) /\ Leads(q, x, ps, world)
            BY <1>1, <3>1, QrAt
        <3>3. SUFFICES ASSUME x.pc \in Resolved \union {"back_half"}, x.meta.link # 0, ~w.edited,
                              ~(x.effects.link = x.meta.link /\ x.effects.action = "preresolved"),
                              ~(\E o \in Publishers \ {q} : Open(ps2[o], x.meta.link))
                       PROVE  w.links[x.meta.link].target = x.target
            BY <3>1 DEF Leads
        <3>4. PICK k : k = x.meta
            OBVIOUS
        <3>5. k \in Qr!Records /\ Real(k, world)
            BY <3>2, <3>3, <3>4 DEF Sure, Publications
        <3>6. k.link \in 1 .. Len(world.links) /\ k.link \in Nat \ {0}
            BY <1>5, <3>3, <3>4, <3>5
        <3>7. ~(\E o \in Publishers \ {q} : Open(ps[o], k.link)) /\ ~Open(r, k.link)
            BY <1>3, <1>4, <2>2, <3>3, <3>4, <3>6
        <3>8. world.links[k.link].target = x.target
            BY <3>2, <3>3, <3>4, <3>7 DEF Leads
        <3>9. QED
            BY <3>4, <3>6, <3>7, <3>8
    <2>3. QED
        BY <2>1, <2>2
<1>8. QED
    BY <1>2, <1>6, <1>7 DEF QrTells

LEMMA QrStep ==
  ASSUME QrInv, NEW p \in Publishers, NEW r \in Publications, NEW w \in Worlds,
         Qr!Upd(p, r), world' = w, Sure(p, r, w), Leads(p, r, pubs, w),
         Len(world.links) <= Len(w.links), Len(w.links) <= MaxLinks,
         w.record = world.record, w.generation = world.generation,
         w.edited = world.edited,
         \A q \in Publishers \ {p} : world.lock = q => w.lock = q,
         \A l \in 1 .. Len(world.links) :
           w.links[l].target = world.links[l].target \/ Open(r, l),
         \A l \in Nat \ {0} : Open(pubs[p], l) => Open(r, l)
  PROVE  QrInv'
<1>1. Real(w.record, w)
    <2>1. world \in Worlds /\ Real(world.record, world)
        BY QrAt
    <2>2. PICK k \in Qr!Records \union {None} : k = world.record
        BY <2>1 DEF Worlds
    <2>3. QED
        BY <2>1, <2>2, RealMore
<1>2. QrSure'
    BY <1>1, QrStepSure
<1>3. QrTells'
    BY QrStepTells
<1>4. QED
    BY <1>2, <1>3 DEF QrInv

(* A step that leaves all but the run alone. *)
LEMMA QrQuiet ==
  ASSUME QrInv, NEW p \in Publishers, NEW r \in Publications,
         Qr!Upd(p, r), UNCHANGED world, Sure(p, r, world), Leads(p, r, pubs, world),
         \A l \in Nat \ {0} : Open(pubs[p], l) => Open(r, l)
  PROVE  QrInv'
<1>1. PICK w : w = world
    OBVIOUS
<1>2. world \in Worlds /\ Len(world.links) <= MaxLinks /\ Len(world.links) \in Nat
    BY QrAt
<1>3. QED
    BY <1>1, <1>2, QrStep

LEMMA QrOver ==
  ASSUME NEW o \in Qr!Outcomes, NEW e \in Qr!Receipts, NEW c \in Qr!Receipts, NEW r,
         r = [pc |-> "ended", target |-> None, service |-> None, prior |-> None, meta |-> None,
              receipt |-> c, effects |-> e, fresh |-> 0, outcome |-> o]
  PROVE  /\ r \in Publications /\ r.pc = "ended" /\ r.outcome = o /\ r.prior = None
         /\ r.meta = None /\ r.effects = e /\ r.receipt = c
BY DEF Publications

(* What Ended makes of a run. *)
LEMMA QrEnded ==
  ASSUME NEW p \in Publishers, pubs[p] \in Publications, NEW o \in Qr!Outcomes
  PROVE  /\ Qr!Ended(p, o) \in Publications /\ Qr!Ended(p, o).pc = "ended"
         /\ Qr!Ended(p, o).outcome = o /\ Qr!Ended(p, o).prior = None
         /\ Qr!Ended(p, o).meta = None
         /\ Qr!Ended(p, o).effects.link = pubs[p].effects.link
         /\ Qr!Ended(p, o).effects.action = pubs[p].effects.action
         /\ o \in {"refused", "unfinalized"} => Qr!Ended(p, o).effects = pubs[p].effects
         /\ o = "unfinalized" => Qr!Ended(p, o).receipt = pubs[p].receipt
<1>1. PICK e : e = pubs[p].effects
    OBVIOUS
<1>2. PICK c : c = pubs[p].receipt
    OBVIOUS
<1>3. e \in Qr!Receipts /\ c \in Qr!Receipts
    BY <1>1, <1>2 DEF Publications
<1>4. PICK k : k = Qr!Remembered(p, o)
    OBVIOUS
<1>5. CASE o \in {"refused", "unfinalized"}
    <2>1. k = e
        BY <1>1, <1>4, <1>5 DEF Qr!Remembered
    <2>2. QED
        <3>1. PICK d : d = IF o = "unfinalized" THEN c ELSE Qr!NoReceipt
            OBVIOUS
        <3>2. d \in Qr!Receipts /\ (o = "unfinalized" => d = c)
            BY <1>3, <3>1, NoReceiptTyped
        <3>3. Qr!Ended(p, o) = [Qr!Idle EXCEPT !.pc = "ended", !.outcome = o,
                                               !.effects = e, !.receipt = d]
            BY <1>2, <1>4, <2>1, <3>1 DEF Qr!Ended
        <3>4. Qr!Ended(p, o) =
                [pc |-> "ended", target |-> None, service |-> None, prior |-> None, meta |-> None,
                 receipt |-> d, effects |-> e, fresh |-> 0, outcome |-> o]
            BY <3>3 DEF Qr!Idle
        <3>5. QED
            BY <1>1, <1>2, <1>3, <1>5, <3>2, <3>4, QrOver
<1>6. CASE o \notin {"refused", "unfinalized"}
    <2>1. k = [Qr!NoReceipt EXCEPT !.link = e.link, !.action = e.action]
        BY <1>1, <1>4, <1>6 DEF Qr!Remembered
    <2>2. k \in Qr!Receipts /\ k.link = e.link /\ k.action = e.action
        BY <1>3, <2>1, NoReceiptTyped DEF Qr!Receipts, Qr!NoReceipt
    <2>3. Qr!Ended(p, o) = [Qr!Idle EXCEPT !.pc = "ended", !.outcome = o,
                                           !.effects = k, !.receipt = Qr!NoReceipt]
        BY <1>4, <1>6 DEF Qr!Ended
    <2>4. PICK d \in Qr!Receipts : d = Qr!NoReceipt
        BY NoReceiptTyped
    <2>5. Qr!Ended(p, o) =
            [pc |-> "ended", target |-> None, service |-> None, prior |-> None, meta |-> None,
             receipt |-> d, effects |-> k, fresh |-> 0, outcome |-> o]
        BY <2>3, <2>4 DEF Qr!Idle
    <2>6. QED
        BY <1>1, <1>6, <2>2, <2>5, QrOver
<1>7. QED
    BY <1>5, <1>6

(* A run that is not committing gives up, and with it, if it has it, the lock. *)
LEMMA QrUnlocks ==
  ASSUME NEW p \in Publishers, NEW w \in Worlds
  PROVE  /\ Qr!Unlocked(w, p) \in Worlds
         /\ Qr!Unlocked(w, p).links = w.links /\ Qr!Unlocked(w, p).record = w.record
         /\ Qr!Unlocked(w, p).generation = w.generation
         /\ Qr!Unlocked(w, p).edited = w.edited
         /\ \A q \in Publishers \ {p} : w.lock = q => Qr!Unlocked(w, p).lock = q
<1>1. [w EXCEPT !.lock = None] \in Worlds
    BY DEF Worlds
<1>2. QED
    BY <1>1 DEF Qr!Unlocked, Worlds

(* An end with a run r, of which nothing is wrong, after the links became those of w. *)
LEMMA QrGivesUp ==
  ASSUME QrInv, NEW p \in Publishers, NEW r \in Publications, Qr!Upd(p, r),
         NEW w \in Worlds, world' = Qr!Unlocked(w, p),
         w = [world EXCEPT !.links = w.links],
         Len(world.links) <= Len(w.links), Len(w.links) <= MaxLinks,
         \A l \in 1 .. Len(world.links) :
           w.links[l].target = world.links[l].target \/ Open(r, l),
         \A l \in Nat \ {0} : Open(pubs[p], l) => Open(r, l),
         r.pc = "ended", r.prior = None, r.meta = None,
         r.outcome = "unfinalized" => r.receipt = r.effects,
         r.outcome = "refused" =>
           ~r.effects.pngs /\ ~r.effects.deck /\ r.effects.action # "created"
  PROVE  QrInv'
<1>1. PICK u : u = Qr!Unlocked(w, p)
    OBVIOUS
<1>2. /\ u \in Worlds /\ u.links = w.links /\ u.record = w.record
      /\ u.generation = w.generation /\ u.edited = w.edited
      /\ \A q \in Publishers \ {p} : w.lock = q => u.lock = q
    BY <1>1, QrUnlocks
<1>3. world \in Worlds
    BY QrAt
<1>4. /\ w.record = world.record /\ w.generation = world.generation
      /\ w.edited = world.edited /\ w.lock = world.lock
    BY <1>3 DEF Worlds
<1>5. Sure(p, r, u)
    BY QrAssumed DEF Sure, Real, Locked, Resolved
<1>6. Leads(p, r, pubs, u)
    BY DEF Leads, Resolved
<1>7. QED
    BY <1>1, <1>2, <1>4, <1>5, <1>6, QrStep

LEMMA QrEnds ==
  ASSUME QrInv, NEW p \in Publishers, NEW o \in Qr!Outcomes \ {"done"}, Qr!End(p, o),
         o = "unfinalized" => pubs[p].receipt = pubs[p].effects,
         o = "refused" => /\ ~pubs[p].effects.pngs /\ ~pubs[p].effects.deck
                          /\ pubs[p].effects.action # "created"
  PROVE  QrInv'
<1>1. PICK r : r = Qr!Ended(p, o)
    OBVIOUS
<1>2. /\ r \in Publications /\ r.pc = "ended" /\ r.outcome = o /\ r.prior = None /\ r.meta = None
      /\ r.effects.link = pubs[p].effects.link /\ r.effects.action = pubs[p].effects.action
      /\ o \in {"refused", "unfinalized"} => r.effects = pubs[p].effects
      /\ o = "unfinalized" => r.receipt = pubs[p].receipt
    BY <1>1, QrAt, QrEnded
<1>3. world \in Worlds /\ Len(world.links) <= MaxLinks /\ Len(world.links) \in Nat
    BY QrAt
<1>4. PICK w : w = world
    OBVIOUS
<1>5. w = [world EXCEPT !.links = w.links]
    BY <1>3, <1>4 DEF Worlds
<1>6. Qr!Upd(p, r) /\ world' = Qr!Unlocked(w, p)
    BY <1>1, <1>4 DEF Qr!End
<1>7. \A l \in Nat \ {0} : Open(pubs[p], l) => Open(r, l)
    BY <1>2 DEF Open
<1>8. QED
    BY <1>2, <1>3, <1>4, <1>5, <1>6, <1>7, QrGivesUp

(* Before anything is resolved, a run has done nothing, or an agent did it before. *)
LEMMA QrEarly ==
  ASSUME NEW p \in Publishers, NEW x \in Publications, Sure(p, x, world),
         x.pc \in {"lock", "reload", "resolve"}
  PROVE  /\ ~x.effects.pngs /\ ~x.effects.deck
         /\ x.effects.action \in {None, "preresolved"} /\ x.effects.action # "created"
         /\ x.effects.prior = None
         /\ x.effects.link = 0 \/ (x.meta \in Qr!Records /\ x.effects.link = x.meta.link)
<1>1. "created" # None
    BY QrAssumed DEF Qr!Actions
<1>2. CASE x.effects = Qr!NoReceipt
    BY <1>1, <1>2, NoReceiptTyped
<1>3. CASE x.meta \in Qr!Records /\ x.effects = Linked(x, "preresolved")
    BY <1>1, <1>3, NoReceiptTyped DEF Linked, Qr!NoReceipt
<1>4. QED
    BY <1>2, <1>3 DEF Sure

LEMMA QrStarts ==
  ASSUME QrInv, NEW p \in Publishers, Qr!Start(p) PROVE QrInv'
<1>1. /\ world \in Worlds /\ Len(world.links) \in Nat /\ Real(world.record, world)
      /\ pubs[p] \in Publications /\ Sure(p, pubs[p], world) /\ pubs[p].pc = "idle"
    BY QrAt DEF Qr!Start, Qr!At
<1>2. PICK target \in Targets, service \in Services \union {"none"} :
        Qr!Upd(p, [Qr!Goto(p, "lock") EXCEPT !.target = target, !.service = service,
                                             !.prior = world.record])
    BY DEF Qr!Start
<1>3. PICK k \in Qr!Records \union {None} : k = world.record
    BY <1>1 DEF Worlds
<1>4. PICK r : r = [pubs[p] EXCEPT !.pc = "lock", !.target = target, !.service = service,
                                   !.prior = k]
    OBVIOUS
<1>5. Qr!Upd(p, r)
    BY <1>2, <1>3, <1>4 DEF Qr!Goto
<1>6. /\ r \in Publications /\ r.pc = "lock" /\ r.target = target /\ r.service = service
      /\ r.prior = k /\ r.meta = pubs[p].meta /\ r.receipt = pubs[p].receipt
      /\ r.effects = pubs[p].effects /\ r.outcome = pubs[p].outcome
    BY <1>1, <1>4 DEF Publications
<1>7. service # "preresolved"
    BY QrAssumed
<1>8. None \notin {"refused", "unfinalized"}
    BY QrAssumed DEF Qr!Outcomes
<1>9. Sure(p, r, world)
    BY <1>1, <1>3, <1>6, <1>7, <1>8 DEF Sure, Locked, Resolved
<1>10. Leads(p, r, pubs, world) /\ \A l \in Nat \ {0} : Open(pubs[p], l) => Open(r, l)
    BY <1>6, QrAssumed DEF Leads, Open, Resolved, Qr!Outcomes
<1>11. QED
    BY <1>1, <1>5, <1>6, <1>9, <1>10, QrQuiet DEF Qr!Start

(* The link that an agent hands over. *)
LEMMA QrTaken ==
  ASSUME world \in Worlds, NEW service \in Services, Qr!Taken(service), NEW link,
         link = CHOOSE l \in Qr!Links : world.links[l].service = service /\ world.links[l].slugged
  PROVE  link \in Qr!Links
BY DEF Qr!Taken

LEMMA LinksGrow ==
  ASSUME world \in Worlds, NEW k \in ShortLinks
  PROVE  /\ Append(world.links, k) \in Seq(ShortLinks)
         /\ Len(Append(world.links, k)) = Len(world.links) + 1
         /\ \A l \in 1 .. Len(world.links) : Append(world.links, k)[l] = world.links[l]
         /\ Append(world.links, k)[Len(world.links) + 1] = k
BY DEF Worlds

LEMMA LinkPointed ==
  ASSUME world \in Worlds, NEW l \in 1 .. Len(world.links), NEW t \in Targets,
         NEW k, k = [world.links[l] EXCEPT !.target = t],
         NEW s, s = [world.links EXCEPT ![l] = k]
  PROVE  /\ s \in Seq(ShortLinks) /\ Len(s) = Len(world.links)
         /\ s[l].target = t
         /\ \A m \in 1 .. Len(world.links) : m # l => s[m] = world.links[m]
<1>1. world.links \in Seq(ShortLinks) /\ world.links[l] \in ShortLinks
    BY DEF Worlds
<1>2. k \in ShortLinks /\ k.target = t
    BY <1>1 DEF ShortLinks
<1>3. QED
    BY <1>1, <1>2

LEMMA QrLinked ==
  ASSUME world \in Worlds, NEW s \in Seq(ShortLinks), NEW w, w = [world EXCEPT !.links = s]
  PROVE  /\ w \in Worlds /\ w.links = s /\ w.record = world.record
         /\ w.generation = world.generation /\ w.edited = world.edited
         /\ w.lock = world.lock /\ w = [world EXCEPT !.links = w.links]
BY DEF Worlds

LEMMA QrStartsPreresolved ==
  ASSUME QrInv, NEW p \in Publishers, Qr!StartPreresolved(p) PROVE QrInv'
<1>1. /\ world \in Worlds /\ Len(world.links) \in Nat /\ Real(world.record, world)
      /\ Len(world.links) <= MaxLinks /\ MaxLinks \in Nat
      /\ pubs[p] \in Publications /\ Sure(p, pubs[p], world) /\ pubs[p].pc = "idle"
    BY QrAt, QrAssumed DEF Qr!StartPreresolved, Qr!At
<1> DEFINE Handed(service) ==
             IF Qr!Taken(service)
             THEN CHOOSE l \in Qr!Links :
                    world.links[l].service = service /\ world.links[l].slugged
             ELSE Len(world.links) + 1
<1>0. PICK target \in Targets, service \in Services :
        /\ Handed(service) <= MaxLinks
        /\ world' = [world EXCEPT !.links =
             IF Handed(service) \in Qr!Links THEN [@ EXCEPT ![Handed(service)].target = target]
             ELSE Append(@, [service |-> service, slugged |-> TRUE, target |-> target])]
        /\ Qr!Upd(p, [Qr!Goto(p, "lock") EXCEPT !.target = target, !.service = "preresolved",
                 !.prior = world.record,
                 !.meta = Qr!Record(service, TRUE, Handed(service), target),
                 !.effects.link = Handed(service), !.effects.action = "preresolved"])
    BY DEF Qr!StartPreresolved
<1>a. PICK link : link = Handed(service)
    OBVIOUS
<1>b. link \in Qr!Links \/ link = Len(world.links) + 1
    BY <1>1, <1>a, QrTaken
<1> HIDE DEF Handed
<1>2. /\ link <= MaxLinks
      /\ world' = [world EXCEPT !.links =
             IF link \in Qr!Links THEN [@ EXCEPT ![link].target = target]
             ELSE Append(@, [service |-> service, slugged |-> TRUE, target |-> target])]
      /\ Qr!Upd(p, [Qr!Goto(p, "lock") EXCEPT !.target = target, !.service = "preresolved",
                 !.prior = world.record, !.meta = Qr!Record(service, TRUE, link, target),
                 !.effects.link = link, !.effects.action = "preresolved"])
    BY <1>0, <1>a
<1>3. link \in Qr!Links \/ link = Len(world.links) + 1
    BY <1>b
<1>4. PICK s : s = IF link \in Qr!Links THEN [world.links EXCEPT ![link].target = target]
                   ELSE Append(world.links, [service |-> service, slugged |-> TRUE,
                                             target |-> target])
    OBVIOUS
<1>5. [service |-> service, slugged |-> TRUE, target |-> target] \in ShortLinks
    BY DEF ShortLinks
<1>6. /\ s \in Seq(ShortLinks) /\ Len(world.links) <= Len(s) /\ Len(s) <= MaxLinks
      /\ link \in 1 .. Len(s)
    <2>1. CASE link \in Qr!Links
        <3>1. PICK l \in 1 .. Len(world.links) : l = link
            BY <2>1 DEF Qr!Links
        <3>2. PICK z : z = [world.links[l] EXCEPT !.target = target]
            OBVIOUS
        <3>3. s = [world.links EXCEPT ![l] = z]
            BY <1>4, <2>1, <3>1, <3>2
        <3>a. world.links \in Seq(ShortLinks) /\ world.links[l] \in ShortLinks
            BY <1>1, <3>1 DEF Worlds
        <3>b. z \in ShortLinks
            BY <1>0, <3>2, <3>a DEF ShortLinks
        <3>4. s \in Seq(ShortLinks) /\ Len(s) = Len(world.links)
            BY <3>1, <3>3, <3>a, <3>b
        <3>5. QED
            BY <1>1, <3>1, <3>4
    <2>2. CASE link \notin Qr!Links
        BY <1>1, <1>2, <1>3, <1>4, <1>5, <2>2, LinksGrow
    <2>3. QED
        BY <2>1, <2>2
<1>7. PICK w : w = [world EXCEPT !.links = s]
    OBVIOUS
<1>8. /\ w \in Worlds /\ w.links = s /\ w.record = world.record
      /\ w.generation = world.generation /\ w.edited = world.edited /\ w.lock = world.lock
    BY <1>1, <1>6, <1>7, QrLinked
<1>9. world' = w
    BY <1>2, <1>4, <1>7
<1>10. PICK k \in Qr!Records \union {None} : k = world.record
    BY <1>1 DEF Worlds
<1>11. PICK m : m = [service |-> service, slugged |-> TRUE, link |-> link, target |-> target]
    OBVIOUS
<1>12. link \in 0 .. MaxLinks /\ link \in Nat
    BY <1>1, <1>6
<1>13. m \in Qr!Records /\ m.link = link
    BY <1>11, <1>12 DEF Qr!Records
<1>14. pubs[p].receipt = Qr!NoReceipt /\ pubs[p].effects = Qr!NoReceipt /\ pubs[p].outcome = None
    BY <1>1 DEF Sure
<1>15. PICK e : e = [Qr!NoReceipt EXCEPT !.link = link, !.action = "preresolved"]
    OBVIOUS
<1>16. e \in Qr!Receipts /\ e.action = "preresolved"
    BY <1>12, <1>15, NoReceiptTyped DEF Qr!Receipts, Qr!Actions
<1>17. PICK r : r = [pubs[p] EXCEPT !.pc = "lock", !.target = target,
                       !.service = "preresolved", !.prior = k, !.meta = m, !.effects = e]
    OBVIOUS
<1>18. [pubs[p] EXCEPT !.pc = "lock", !.target = target, !.service = "preresolved",
          !.prior = k, !.meta = m, !.effects.link = link, !.effects.action = "preresolved"] = r
    BY <1>1, <1>14, <1>15, <1>17 DEF Publications
<1>19. Qr!Upd(p, r)
    BY <1>2, <1>10, <1>11, <1>18 DEF Qr!Goto, Qr!Record
<1>20. /\ r \in Publications /\ r.pc = "lock" /\ r.target = target
       /\ r.service = "preresolved" /\ r.prior = k /\ r.meta = m
       /\ r.receipt = pubs[p].receipt /\ r.effects = e /\ r.outcome = None
    BY <1>1, <1>13, <1>14, <1>16, <1>17 DEF Publications
<1>21. e = Linked(r, "preresolved") /\ e # Qr!NoReceipt
    BY <1>13, <1>15, <1>16, <1>20, NoReceiptTyped, QrAssumed DEF Linked, Qr!Actions
<1>22. None \notin {"refused", "unfinalized"}
    BY QrAssumed DEF Qr!Outcomes
<1>23. Real(k, w) /\ Real(m, w)
    BY <1>1, <1>6, <1>8, <1>10, <1>13, RealMore DEF Real
<1>24. Sure(p, r, w)
    BY <1>13, <1>14, <1>20, <1>21, <1>22, <1>23 DEF Sure, Locked, Resolved
<1>25. \A l \in 1 .. Len(world.links) :
         w.links[l].target = world.links[l].target \/ Open(r, l)
    <2>1. Open(r, link)
        BY <1>13, <1>20, <1>21, NoReceiptTyped DEF Open, Linked, Qr!NoReceipt
    <2>2. CASE link \in Qr!Links
        <3>1. PICK l \in 1 .. Len(world.links) : l = link
            BY <2>2 DEF Qr!Links
        <3>2. PICK z : z = [world.links[l] EXCEPT !.target = target]
            OBVIOUS
        <3>3. s = [world.links EXCEPT ![l] = z]
            BY <1>4, <2>2, <3>1, <3>2
        <3>4. \A j \in 1 .. Len(world.links) : j # l => s[j] = world.links[j]
            BY <1>0, <1>1, <3>1, <3>2, <3>3, LinkPointed
        <3>5. QED
            BY <1>8, <2>1, <3>1, <3>4
    <2>3. CASE link \notin Qr!Links
        BY <1>1, <1>4, <1>5, <1>8, <2>3, LinksGrow
    <2>4. QED
        BY <2>2, <2>3
<1>26. Leads(p, r, pubs, w) /\ \A l \in Nat \ {0} : Open(pubs[p], l) => Open(r, l)
    BY <1>14, <1>20, NoReceiptTyped DEF Leads, Open, Resolved
<1>27. QED
    BY <1>6, <1>8, <1>9, <1>19, <1>20, <1>24, <1>25, <1>26, QrStep

LEMMA QrLocks ==
  ASSUME QrInv, NEW p \in Publishers, Qr!Lock(p) PROVE QrInv'
<1>1. /\ world \in Worlds /\ Len(world.links) <= MaxLinks /\ Len(world.links) \in Nat
      /\ pubs[p] \in Publications /\ Sure(p, pubs[p], world) /\ pubs[p].pc = "lock"
      /\ world.lock = None
    BY QrAt DEF Qr!Lock, Qr!At
<1>2. PICK w : w = [world EXCEPT !.lock = p]
    OBVIOUS
<1>3. /\ w \in Worlds /\ w.links = world.links /\ w.record = world.record
      /\ w.generation = world.generation /\ w.edited = world.edited /\ w.lock = p
    BY <1>1, <1>2 DEF Worlds
<1>4. PICK r : r = [pubs[p] EXCEPT !.pc = "reload"]
    OBVIOUS
<1>5. /\ r \in Publications /\ r.pc = "reload" /\ r.target = pubs[p].target
      /\ r.service = pubs[p].service /\ r.prior = pubs[p].prior /\ r.meta = pubs[p].meta
      /\ r.receipt = pubs[p].receipt /\ r.effects = pubs[p].effects
      /\ r.outcome = pubs[p].outcome
    BY <1>1, <1>4 DEF Publications, Locked
<1>6. Sure(p, r, w)
    BY <1>1, <1>3, <1>5 DEF Sure, Real, Resolved, Linked
<1>7. Leads(p, r, pubs, w) /\ \A l \in Nat \ {0} : Open(pubs[p], l) => Open(r, l)
    BY <1>5 DEF Leads, Open, Resolved
<1>8. Qr!Upd(p, r) /\ world' = w
    BY <1>2, <1>4 DEF Qr!Lock, Qr!Goto
<1>9. QED
    BY <1>1, <1>3, <1>5, <1>6, <1>7, <1>8, QrAssumed, QrStep

LEMMA QrReloads ==
  ASSUME QrInv, NEW p \in Publishers, Qr!Reload(p) PROVE QrInv'
<1>1. /\ world \in Worlds /\ Real(world.record, world)
      /\ pubs[p] \in Publications /\ Sure(p, pubs[p], world) /\ pubs[p].pc = "reload"
    BY QrAt DEF Qr!Reload, Qr!At
<1>2. CASE Qr!End(p, "refused")
    BY <1>1, <1>2, QrEarly, QrEnds DEF Qr!Outcomes
<1>3. CASE /\ Qr!Upd(p, [Qr!Goto(p, "resolve") EXCEPT !.prior = world.record])
           /\ UNCHANGED world
    <2>1. PICK k \in Qr!Records \union {None} : k = world.record
        BY <1>1 DEF Worlds
    <2>2. PICK r : r = [pubs[p] EXCEPT !.pc = "resolve", !.prior = k]
        OBVIOUS
    <2>3. /\ r \in Publications /\ r.pc = "resolve" /\ r.target = pubs[p].target
          /\ r.service = pubs[p].service /\ r.prior = k /\ r.meta = pubs[p].meta
          /\ r.receipt = pubs[p].receipt /\ r.effects = pubs[p].effects
          /\ r.outcome = pubs[p].outcome
        BY <1>1, <2>2 DEF Publications, Locked
    <2>4. Since(k, world)
        BY <2>1 DEF Since
    <2>5. Sure(p, r, world)
        BY <1>1, <2>1, <2>3, <2>4 DEF Sure, Resolved, Linked, Locked
    <2>6. Leads(p, r, pubs, world) /\ \A l \in Nat \ {0} : Open(pubs[p], l) => Open(r, l)
        BY <2>3 DEF Leads, Open, Resolved
    <2>7. Qr!Upd(p, r)
        BY <1>3, <2>1, <2>2 DEF Qr!Goto
    <2>8. QED
        BY <1>3, <2>3, <2>5, <2>6, <2>7, QrQuiet
<1>4. QED
    BY <1>2, <1>3 DEF Qr!Reload

(* A run that knows the link it publishes. *)
LEMMA QrResolved ==
  ASSUME QrInv, NEW p \in Publishers, pubs[p].pc = "resolve",
         NEW r \in Publications, Qr!Upd(p, r), NEW w \in Worlds, world' = w,
         w = [world EXCEPT !.links = w.links],
         Len(world.links) <= Len(w.links), Len(w.links) <= MaxLinks,
         \A l \in 1 .. Len(world.links) :
           w.links[l].target = world.links[l].target \/ Open(r, l),
         \A l \in Nat \ {0} : Open(pubs[p], l) => Open(r, l),
         Leads(p, r, pubs, w),
         r.pc = "png", r.target = pubs[p].target, r.prior = pubs[p].prior,
         r.outcome = pubs[p].outcome,
         r.meta \in Qr!Records, Real(r.meta, w), r.receipt = r.effects,
         r.effects.link \in {0, r.meta.link}
  PROVE  QrInv'
<1>1. /\ world \in Worlds /\ pubs[p] \in Publications /\ Sure(p, pubs[p], world)
    BY QrAt
<1>2. /\ w.record = world.record /\ w.generation = world.generation
      /\ w.edited = world.edited /\ w.lock = world.lock
    BY <1>1 DEF Worlds
<1>3. PICK k \in Qr!Records \union {None} : k = pubs[p].prior
    BY <1>1 DEF Publications
<1>4. Real(k, w)
    BY <1>1, <1>3, RealMore DEF Sure
<1>5. r.outcome = None /\ None \notin {"refused", "unfinalized"} /\ r.target \in Targets
    BY <1>1, QrAssumed DEF Sure, Qr!Outcomes
<1>6. Sure(p, r, w)
    BY <1>1, <1>2, <1>3, <1>4, <1>5 DEF Sure, Locked, Resolved
<1>7. QED
    BY <1>2, <1>6, QrStep

(* ... without having touched any. *)
LEMMA QrResolvedQuietly ==
  ASSUME QrInv, NEW p \in Publishers, pubs[p].pc = "resolve",
         NEW r \in Publications, Qr!Upd(p, r), UNCHANGED world,
         \A l \in Nat \ {0} : Open(pubs[p], l) => Open(r, l),
         Leads(p, r, pubs, world),
         r.pc = "png", r.target = pubs[p].target, r.prior = pubs[p].prior,
         r.outcome = pubs[p].outcome,
         r.meta \in Qr!Records, Real(r.meta, world), r.receipt = r.effects,
         r.effects.link \in {0, r.meta.link}
  PROVE  QrInv'
<1>1. PICK w : w = world
    OBVIOUS
<1>2. world \in Worlds /\ Len(world.links) <= MaxLinks /\ Len(world.links) \in Nat
    BY QrAt
<1>3. w = [world EXCEPT !.links = w.links]
    BY <1>1, <1>2 DEF Worlds
<1>4. QED
    BY <1>1, <1>2, <1>3, QrResolved

LEMMA QrPreresolved ==
  ASSUME QrInv, NEW p \in Publishers, Qr!Preresolved(p) PROVE QrInv'
<1>1. /\ world \in Worlds /\ pubs[p] \in Publications /\ Sure(p, pubs[p], world)
      /\ pubs[p].pc = "resolve" /\ pubs[p].service = "preresolved"
    BY QrAt DEF Qr!Preresolved, Qr!At
<1>2. /\ pubs[p].meta \in Qr!Records /\ pubs[p].receipt = Qr!NoReceipt
      /\ pubs[p].effects = Linked(pubs[p], "preresolved") /\ Real(pubs[p].meta, world)
    BY <1>1 DEF Sure
<1>3. PICK m \in Qr!Records : m = pubs[p].meta
    BY <1>2
<1>4. PICK e : e = [Qr!NoReceipt EXCEPT !.link = m.link, !.action = "preresolved"]
    OBVIOUS
<1>5. e = pubs[p].effects /\ e.link = m.link /\ e.action = "preresolved" /\ e \in Qr!Receipts
    BY <1>1, <1>2, <1>3, <1>4 DEF Linked, Qr!NoReceipt, Publications
<1>6. PICK r : r = [pubs[p] EXCEPT !.pc = "png", !.receipt = e]
    OBVIOUS
<1>7. [pubs[p] EXCEPT !.pc = "png", !.receipt.link = m.link, !.receipt.action = "preresolved"] = r
    BY <1>1, <1>2, <1>4, <1>6 DEF Publications
<1>8. /\ r \in Publications /\ r.pc = "png" /\ r.target = pubs[p].target
      /\ r.prior = pubs[p].prior /\ r.outcome = pubs[p].outcome /\ r.meta = m
      /\ r.receipt = e /\ r.effects = e
    BY <1>1, <1>3, <1>5, <1>6 DEF Publications, Locked
<1>9. Leads(p, r, pubs, world) /\ \A l \in Nat \ {0} : Open(pubs[p], l) => Open(r, l)
    BY <1>5, <1>8 DEF Leads, Open
<1>10. Qr!Upd(p, r) /\ UNCHANGED world
    BY <1>3, <1>7 DEF Qr!Preresolved, Qr!Goto
<1>11. QED
    BY <1>1, <1>2, <1>3, <1>5, <1>8, <1>9, <1>10, QrResolvedQuietly

(* A tracked link that can be kept. *)
LEMMA QrExisting ==
  ASSUME QrInv, NEW p \in Publishers, pubs[p].pc = "resolve",
         pubs[p].service # "preresolved", Qr!Existing(p) # None
  PROVE  /\ Qr!Existing(p) = pubs[p].prior /\ pubs[p].prior \in Qr!Records
         /\ Real(pubs[p].prior, world) /\ pubs[p].prior.service = pubs[p].service
         /\ pubs[p].effects = Qr!NoReceipt /\ pubs[p].receipt = Qr!NoReceipt
<1>1. /\ pubs[p] \in Publications /\ Sure(p, pubs[p], world)
    BY QrAt
<1>2. Qr!Existing(p) = pubs[p].prior /\ pubs[p].prior # None
      /\ pubs[p].prior.service = pubs[p].service
    BY DEF Qr!Existing
<1>3. QED
    BY <1>1, <1>2 DEF Sure, Publications

LEMMA QrReuses ==
  ASSUME QrInv, NEW p \in Publishers, Qr!ReuseCached(p) PROVE QrInv'
<1>1. /\ world \in Worlds /\ pubs[p] \in Publications /\ Sure(p, pubs[p], world)
      /\ Tells(pubs, world) /\ pubs[p].pc = "resolve" /\ pubs[p].service # "preresolved"
    BY QrAt DEF Qr!ReuseCached, Qr!At
<1>2. Qr!Existing(p) # None /\ Qr!Existing(p).target = pubs[p].target
    BY DEF Qr!ReuseCached, Qr!Cached
<1>3. PICK k : k = Qr!Existing(p)
    OBVIOUS
<1>4. /\ k \in Qr!Records /\ k = pubs[p].prior /\ Real(k, world) /\ k.target = pubs[p].target
      /\ pubs[p].effects = Qr!NoReceipt /\ pubs[p].receipt = Qr!NoReceipt
    BY <1>1, <1>2, <1>3, QrExisting
<1>5. PICK r : r = [pubs[p] EXCEPT !.pc = "png", !.meta = k]
    OBVIOUS
<1>6. /\ r \in Publications /\ r.pc = "png" /\ r.target = pubs[p].target
      /\ r.prior = pubs[p].prior /\ r.outcome = pubs[p].outcome /\ r.meta = k
      /\ r.receipt = pubs[p].receipt /\ r.effects = pubs[p].effects
    BY <1>1, <1>4, <1>5 DEF Publications, Locked
<1>7. Leads(p, r, pubs, world)
    <2>1. SUFFICES ASSUME k.link # 0, ~world.edited,
                          ~(\E q \in Publishers \ {p} : Open(pubs[q], k.link))
                   PROVE  world.links[k.link].target = k.target
        BY <1>4, <1>6 DEF Leads
    <2>2. world.record = k /\ k # None
        BY <1>1, <1>4, <2>1, QrAssumed DEF Sure, Since
    <2>3. ~Open(pubs[p], k.link)
        BY <1>4, <2>1, NoReceiptTyped DEF Open
    <2>4. QED
        BY <1>1, <2>1, <2>2, <2>3 DEF Tells
<1>8. \A l \in Nat \ {0} : Open(pubs[p], l) => Open(r, l)
    BY <1>6 DEF Open
<1>9. Qr!Upd(p, r) /\ UNCHANGED world
    BY <1>3, <1>5 DEF Qr!ReuseCached, Qr!Goto
<1>10. QED
    BY <1>1, <1>4, <1>6, <1>7, <1>8, <1>9, NoReceiptTyped, QrResolvedQuietly

LEMMA QrUnlinked ==
  ASSUME QrInv, NEW p \in Publishers, Qr!NoShortener(p) PROVE QrInv'
<1>1. /\ world \in Worlds /\ Len(world.links) \in Nat
      /\ pubs[p] \in Publications /\ Sure(p, pubs[p], world)
      /\ pubs[p].pc = "resolve" /\ pubs[p].service = "none"
    BY QrAt DEF Qr!NoShortener, Qr!At
<1>2. /\ pubs[p].target \in Targets /\ pubs[p].effects = Qr!NoReceipt
      /\ pubs[p].receipt = Qr!NoReceipt
    BY <1>1 DEF Sure
<1>3. PICK m : m = [service |-> "none", slugged |-> FALSE, link |-> 0, target |-> pubs[p].target]
    OBVIOUS
<1>4. m \in Qr!Records /\ m.link = 0 /\ m.service = "none"
    BY <1>2, <1>3, QrAssumed DEF Qr!Records
<1>5. PICK r : r = [pubs[p] EXCEPT !.pc = "png", !.meta = m]
    OBVIOUS
<1>6. /\ r \in Publications /\ r.pc = "png" /\ r.target = pubs[p].target
      /\ r.prior = pubs[p].prior /\ r.outcome = pubs[p].outcome /\ r.meta = m
      /\ r.receipt = pubs[p].receipt /\ r.effects = pubs[p].effects
    BY <1>1, <1>4, <1>5 DEF Publications, Locked
<1>7. Leads(p, r, pubs, world) /\ \A l \in Nat \ {0} : Open(pubs[p], l) => Open(r, l)
    BY <1>4, <1>6 DEF Leads, Open
<1>8. Qr!Upd(p, r) /\ UNCHANGED world
    BY <1>3, <1>5 DEF Qr!NoShortener, Qr!Goto, Qr!Record
<1>9. Real(m, world)
    BY <1>1, <1>4 DEF Real
<1>10. QED
    BY <1>1, <1>2, <1>4, <1>6, <1>7, <1>8, <1>9, NoReceiptTyped, QrResolvedQuietly

LEMMA QrUnconfigured ==
  ASSUME QrInv, NEW p \in Publishers, Qr!Unconfigured(p) PROVE QrInv'
<1>1. pubs[p] \in Publications /\ Sure(p, pubs[p], world) /\ pubs[p].pc = "resolve"
    BY QrAt DEF Qr!Unconfigured, Qr!At
<1>2. QED
    BY <1>1, QrEarly, QrEnds DEF Qr!Unconfigured, Qr!Outcomes

(* What a run does to a link that it points or that it makes. *)
LEMMA QrActed ==
  ASSUME NEW p \in Publishers, pubs[p] \in Publications, Sure(p, pubs[p], world),
         pubs[p].pc = "resolve", pubs[p].service # "preresolved",
         NEW link \in 0 .. MaxLinks, NEW action \in Qr!Actions, NEW prior \in Targets \union {None}
  PROVE  /\ pubs[p].effects = Qr!NoReceipt /\ pubs[p].receipt = Qr!NoReceipt
         /\ pubs[p].target \in Targets /\ pubs[p].outcome = None
         /\ [Qr!NoReceipt EXCEPT !.link = link, !.action = action, !.prior = prior]
              \in Qr!Receipts
         /\ [Qr!NoReceipt EXCEPT !.link = link, !.action = action] \in Qr!Receipts
         /\ ~(\E l \in Nat \ {0} : Open(pubs[p], l))
<1>1. /\ pubs[p].effects = Qr!NoReceipt /\ pubs[p].receipt = Qr!NoReceipt
      /\ pubs[p].target \in Targets /\ pubs[p].outcome = None
    BY DEF Sure
<1>2. [Qr!NoReceipt EXCEPT !.link = link, !.action = action, !.prior = prior] \in Qr!Receipts
    BY DEF Qr!NoReceipt, Qr!Receipts
<1>3. [Qr!NoReceipt EXCEPT !.link = link, !.action = action] \in Qr!Receipts
    BY DEF Qr!NoReceipt, Qr!Receipts
<1>4. ~(\E l \in Nat \ {0} : Open(pubs[p], l))
    BY <1>1, NoReceiptTyped DEF Open
<1>5. QED
    BY <1>1, <1>2, <1>3, <1>4

(* A run that ends with the effects e. *)
LEMMA QrEndedWith ==
  ASSUME QrInv, NEW p \in Publishers, NEW e \in Qr!Receipts,
         ~e.pngs, ~e.deck, e.action # "created",
         NEW r, r = [Qr!Ended(p, "refused") EXCEPT !.effects = e], Qr!Upd(p, r),
         ~(\E l \in Nat \ {0} : Open(pubs[p], l)),
         NEW w \in Worlds, world' = Qr!Unlocked(w, p),
         w = [world EXCEPT !.links = w.links],
         Len(world.links) <= Len(w.links), Len(w.links) <= MaxLinks,
         \A l \in 1 .. Len(world.links) :
           w.links[l].target = world.links[l].target
             \/ (e.link = l /\ e.action = "retargeted")
  PROVE  QrInv'
<1>1. pubs[p] \in Publications
    BY QrAt
<1>2. PICK n : n = Qr!Ended(p, "refused")
    OBVIOUS
<1>3. /\ n \in Publications /\ n.pc = "ended" /\ n.outcome = "refused"
      /\ n.prior = None /\ n.meta = None
    BY <1>1, <1>2, QrEnded DEF Qr!Outcomes
<1>4. /\ r \in Publications /\ r.pc = "ended" /\ r.outcome = "refused"
      /\ r.prior = None /\ r.meta = None /\ r.effects = e
    BY <1>2, <1>3 DEF Publications
<1>5. \A l \in 1 .. Len(world.links) :
        w.links[l].target = world.links[l].target \/ Open(r, l)
    BY <1>4 DEF Open
<1>6. QED
    BY <1>4, <1>5, QrGivesUp

LEMMA QrRetargets ==
  ASSUME QrInv, NEW p \in Publishers, Qr!Retarget(p) PROVE QrInv'
<1>1. /\ world \in Worlds /\ Len(world.links) \in Nat /\ Len(world.links) <= MaxLinks
      /\ pubs[p] \in Publications /\ Sure(p, pubs[p], world)
      /\ pubs[p].pc = "resolve" /\ pubs[p].service \in Services
      /\ pubs[p].service # "preresolved"
    BY QrAt, QrAssumed DEF Qr!Retarget, Qr!At
<1>2. PICK k : k = Qr!Existing(p)
    OBVIOUS
<1>3. /\ k \in Qr!Records /\ k = pubs[p].prior /\ Real(k, world)
      /\ k.service = pubs[p].service
    BY <1>1, <1>2, QrExisting DEF Qr!Retarget
<1>4. PICK link : link = k.link
    OBVIOUS
<1>5. link \in 1 .. Len(world.links) /\ link \in 0 .. MaxLinks
    BY <1>1, <1>3, <1>4, QrAssumed DEF Real, Qr!Records
<1>6. PICK t : t = pubs[p].target
    OBVIOUS
<1>7. PICK e : e = [Qr!NoReceipt EXCEPT !.link = link, !.action = "retargeted",
                                        !.prior = k.target]
    OBVIOUS
<1>8. k.target \in Targets /\ "retargeted" \in Qr!Actions
    BY <1>3 DEF Qr!Records, Qr!Actions
<1>9. /\ pubs[p].effects = Qr!NoReceipt /\ pubs[p].receipt = Qr!NoReceipt
      /\ t \in Targets /\ pubs[p].outcome = None /\ e \in Qr!Receipts
      /\ ~(\E l \in Nat \ {0} : Open(pubs[p], l))
    BY <1>1, <1>5, <1>6, <1>7, <1>8, QrActed
<1>10. /\ e.link = link /\ e.action = "retargeted" /\ ~e.pngs /\ ~e.deck
    BY <1>7 DEF Qr!NoReceipt
<1>a. PICK z : z = [world.links[link] EXCEPT !.target = t]
    OBVIOUS
<1>11. PICK s : s = [world.links EXCEPT ![link] = z]
    OBVIOUS
<1>12. /\ s \in Seq(ShortLinks) /\ Len(s) = Len(world.links) /\ s[link].target = t
       /\ \A l \in 1 .. Len(world.links) : l # link => s[l] = world.links[l]
    <2>1. world.links \in Seq(ShortLinks) /\ world.links[link] \in ShortLinks
        BY <1>1, <1>5 DEF Worlds
    <2>2. z \in ShortLinks /\ z.target = t
        BY <1>9, <1>a, <2>1 DEF ShortLinks
    <2>3. QED
        BY <1>5, <1>11, <2>1, <2>2
<1>13. PICK w : w = [world EXCEPT !.links = s]
    OBVIOUS
<1>14. w \in Worlds /\ w.links = s /\ w = [world EXCEPT !.links = w.links]
    BY <1>1, <1>12, <1>13, QrLinked
<1>15. [world EXCEPT !.links[link].target = t] = w
    BY <1>1, <1>11, <1>13, <1>a DEF Worlds
<1>16. CASE Qr!End(p, "refused")
    BY <1>1, <1>16, QrEarly, QrEnds DEF Qr!Outcomes
<1>17. CASE /\ world' = Qr!Unlocked(w, p)
            /\ Qr!Upd(p, [Qr!Ended(p, "refused") EXCEPT !.effects.link = link,
                            !.effects.action = "retargeted", !.effects.prior = k.target])
    <2>1. PICK n : n = Qr!Ended(p, "refused")
        OBVIOUS
    <2>2. n \in Publications /\ n.effects = Qr!NoReceipt
        BY <1>1, <1>9, <2>1, QrEnded DEF Qr!Outcomes
    <2>3. [n EXCEPT !.effects.link = link, !.effects.action = "retargeted",
                    !.effects.prior = k.target] = [n EXCEPT !.effects = e]
        BY <1>7, <2>2 DEF Publications
    <2>4. Qr!Upd(p, [Qr!Ended(p, "refused") EXCEPT !.effects = e])
        BY <1>17, <2>1, <2>3
    <2>5. \A l \in 1 .. Len(world.links) :
            w.links[l].target = world.links[l].target
              \/ (e.link = l /\ e.action = "retargeted")
        BY <1>10, <1>12, <1>14
    <2>6. Len(world.links) <= Len(w.links) /\ Len(w.links) <= MaxLinks
        BY <1>1, <1>12, <1>14
    <2>7. PICK r : r = [Qr!Ended(p, "refused") EXCEPT !.effects = e]
        OBVIOUS
    <2>8. Qr!Upd(p, r)
        BY <2>4, <2>7
    <2>9. e.action # "created"
        BY <1>10
    <2>10. QED
        BY <1>9, <1>10, <1>14, <1>17, <2>5, <2>6, <2>7, <2>8, <2>9, QrEndedWith
<1>18. CASE /\ world' = w
            /\ Qr!Upd(p, [pubs[p] EXCEPT !.pc = "png", !.effects.link = link,
                            !.effects.action = "retargeted", !.effects.prior = k.target,
                            !.meta = [k EXCEPT !.target = t], !.receipt.link = link,
                            !.receipt.action = "retargeted", !.receipt.prior = k.target])
    <2>1. PICK m : m = [k EXCEPT !.target = t]
        OBVIOUS
    <2>2. m \in Qr!Records /\ m.link = link /\ m.service = k.service /\ m.target = t
        BY <1>3, <1>4, <1>9, <2>1 DEF Qr!Records
    <2>3. PICK r : r = [pubs[p] EXCEPT !.pc = "png", !.effects = e, !.meta = m, !.receipt = e]
        OBVIOUS
    <2>4. [pubs[p] EXCEPT !.pc = "png", !.effects.link = link,
                          !.effects.action = "retargeted", !.effects.prior = k.target,
                          !.meta = [k EXCEPT !.target = t], !.receipt.link = link,
                          !.receipt.action = "retargeted", !.receipt.prior = k.target] = r
        BY <1>1, <1>7, <1>9, <2>1, <2>3 DEF Publications
    <2>5. Qr!Upd(p, r)
        BY <1>18, <2>4
    <2>6. /\ r \in Publications /\ r.pc = "png" /\ r.target = pubs[p].target
          /\ r.prior = pubs[p].prior /\ r.outcome = pubs[p].outcome /\ r.meta = m
          /\ r.receipt = e /\ r.effects = e
        BY <1>1, <1>9, <2>2, <2>3 DEF Publications, Locked
    <2>7. Len(world.links) <= Len(w.links) /\ Len(w.links) <= MaxLinks
        BY <1>1, <1>12, <1>14
    <2>8. "retargeted" # "preresolved" /\ r.outcome # "done"
        BY <1>9, <2>6, QrAssumed DEF Qr!Outcomes
    <2>9. Open(r, link)
        BY <1>10, <2>6, <2>8 DEF Open
    <2>10. \A l \in 1 .. Len(world.links) :
            w.links[l].target = world.links[l].target \/ Open(r, l)
        BY <1>12, <1>14, <2>9
    <2>11. Leads(p, r, pubs, w)
        BY <1>6, <1>12, <1>14, <2>2, <2>6 DEF Leads
    <2>12. Real(m, w)
        BY <1>3, <1>4, <1>5, <1>12, <1>14, <2>2 DEF Real
    <2>13. QED
        BY <1>1, <1>9, <1>10, <1>14, <1>18, <2>2, <2>5, <2>6, <2>7, <2>10, <2>11, <2>12, QrResolved
<1>19. \/ /\ world' = [world EXCEPT !.links[link].target = t]
          /\ Qr!Upd(p, [pubs[p] EXCEPT !.pc = "png", !.effects.link = link,
                            !.effects.action = "retargeted", !.effects.prior = k.target,
                            !.meta = [k EXCEPT !.target = t], !.receipt.link = link,
                            !.receipt.action = "retargeted", !.receipt.prior = k.target])
       \/ /\ world' = Qr!Unlocked([world EXCEPT !.links[link].target = t], p)
          /\ Qr!Upd(p, [Qr!Ended(p, "refused") EXCEPT !.effects.link = link,
                            !.effects.action = "retargeted", !.effects.prior = k.target])
       \/ Qr!End(p, "refused")
    BY <1>2, <1>4, <1>6 DEF Qr!Retarget, Qr!Retargeted, Qr!Goto
<1>20. QED
    BY <1>15, <1>16, <1>17, <1>18, <1>19

(* The providers after a run made a link. *)
LEMMA QrNewLink ==
  ASSUME QrInv, NEW p \in Publishers, Qr!MayCreate(p), NEW s,
         s \in {Qr!NewLink(p, TRUE), Qr!NewLink(p, FALSE)}, NEW w, w = [world EXCEPT !.links = s]
  PROVE  /\ w \in Worlds /\ w = [world EXCEPT !.links = w.links]
         /\ Len(w.links) = Len(world.links) + 1 /\ Len(w.links) <= MaxLinks
         /\ Len(world.links) + 1 \in 0 .. MaxLinks /\ Len(world.links) \in Nat
         /\ w.links[Len(world.links) + 1].target = pubs[p].target
         /\ \A l \in 1 .. Len(world.links) : w.links[l] = world.links[l]
         /\ w.record = world.record /\ w.generation = world.generation
         /\ w.edited = world.edited /\ w.lock = world.lock
<1>1. /\ world \in Worlds /\ Len(world.links) \in Nat /\ Len(world.links) < MaxLinks
      /\ MaxLinks \in Nat
      /\ Sure(p, pubs[p], world) /\ pubs[p].service \in Services /\ pubs[p].pc = "resolve"
    BY QrAt, QrAssumed DEF Qr!MayCreate, Qr!At
<1>2. PICK slugged \in {TRUE, FALSE} : s = Qr!NewLink(p, slugged)
    OBVIOUS
<1>a. PICK k : k = [service |-> pubs[p].service, slugged |-> slugged, target |-> pubs[p].target]
    OBVIOUS
<1>3. k \in ShortLinks /\ k.target = pubs[p].target
    BY <1>1, <1>2, <1>a DEF Sure, ShortLinks
<1>4. s = Append(world.links, k)
    BY <1>2, <1>a DEF Qr!NewLink
<1>5. /\ s \in Seq(ShortLinks) /\ Len(s) = Len(world.links) + 1
      /\ \A l \in 1 .. Len(world.links) : s[l] = world.links[l]
      /\ s[Len(world.links) + 1] = k
    BY <1>1, <1>3, <1>4, LinksGrow
<1>7. /\ w \in Worlds /\ w.links = s /\ w.record = world.record
      /\ w.generation = world.generation /\ w.edited = world.edited
      /\ w.lock = world.lock /\ w = [world EXCEPT !.links = w.links]
    BY <1>1, <1>5, QrLinked
<1>8. Len(world.links) + 1 \in 0 .. MaxLinks
    BY <1>1
<1>9. QED
    BY <1>1, <1>3, <1>5, <1>7, <1>8

(* The provider made a link and the run did not hear of it. *)
LEMMA QrUnheard ==
  ASSUME QrInv, NEW p \in Publishers, Qr!MayCreate(p), NEW s,
         s \in {Qr!NewLink(p, TRUE), Qr!NewLink(p, FALSE)},
         world' = Qr!Unlocked([world EXCEPT !.links = s], p),
         Qr!Upd(p, Qr!Unheard(Qr!Ended(p, "refused")))
  PROVE  QrInv'
<1>1. PICK w : w = [world EXCEPT !.links = s]
    OBVIOUS
<1>2. /\ w \in Worlds /\ w = [world EXCEPT !.links = w.links]
      /\ Len(w.links) = Len(world.links) + 1 /\ Len(w.links) <= MaxLinks
      /\ Len(world.links) + 1 \in 0 .. MaxLinks /\ Len(world.links) \in Nat
      /\ \A l \in 1 .. Len(world.links) : w.links[l] = world.links[l]
    BY <1>1, QrNewLink
<1>3. /\ pubs[p] \in Publications /\ Sure(p, pubs[p], world) /\ pubs[p].pc = "resolve"
      /\ pubs[p].service # "preresolved"
    BY QrAt, QrAssumed DEF Qr!MayCreate, Qr!At
<1>4. PICK link \in 0 .. MaxLinks : link = Len(world.links) + 1
    BY <1>2
<1>5. PICK e : e = [Qr!NoReceipt EXCEPT !.link = link, !.action = "unheard"]
    OBVIOUS
<1>6. "unheard" \in Qr!Actions
    BY DEF Qr!Actions
<1>7. /\ pubs[p].effects = Qr!NoReceipt /\ e \in Qr!Receipts
      /\ ~(\E l \in Nat \ {0} : Open(pubs[p], l))
    BY <1>3, <1>5, <1>6, QrActed
<1>8. ~e.pngs /\ ~e.deck /\ e.action # "created"
    BY <1>5 DEF Qr!NoReceipt
<1>9. PICK n : n = Qr!Ended(p, "refused")
    OBVIOUS
<1>10. n \in Publications /\ n.effects = Qr!NoReceipt
    BY <1>3, <1>7, <1>9, QrEnded DEF Qr!Outcomes
<1>11. PICK r : r = [n EXCEPT !.effects = e]
    OBVIOUS
<1>12. [n EXCEPT !.effects.link = link, !.effects.action = "unheard"] = r
    BY <1>5, <1>10, <1>11 DEF Publications
<1>13. Qr!Upd(p, r)
    BY <1>4, <1>9, <1>12 DEF Qr!Unheard
<1>14. r = [Qr!Ended(p, "refused") EXCEPT !.effects = e]
    BY <1>9, <1>11
<1>15. \A l \in 1 .. Len(world.links) : w.links[l].target = world.links[l].target
    BY <1>2
<1>16. Len(world.links) <= Len(w.links)
    BY <1>2
<1>17. world' = Qr!Unlocked(w, p)
    BY <1>1
<1>18. QED
    BY <1>2, <1>7, <1>8, <1>13, <1>14, <1>15, <1>16, <1>17, QrEndedWith

(* What a run that made a link remembers of it. *)
LEMMA QrCreated ==
  ASSUME QrInv, NEW p \in Publishers, Qr!MayCreate(p), NEW pc \in {"png", "back_half"},
         NEW n, n = Qr!Created(p, Qr!Goto(p, pc))
  PROVE  /\ n \in Publications /\ n.pc = pc /\ n.target = pubs[p].target
         /\ n.prior = pubs[p].prior /\ n.outcome = None /\ n.target \in Targets
         /\ n.meta \in Qr!Records /\ n.meta.link = Len(world.links) + 1
         /\ n.meta.service \in Services
         /\ n.effects = Linked(n, "created") /\ n.receipt = Qr!NoReceipt
         /\ n.effects.link = n.meta.link /\ n.effects.action = "created"
         /\ ~(\E l \in Nat \ {0} : Open(pubs[p], l))
<1>1. /\ world \in Worlds /\ Len(world.links) \in Nat /\ Len(world.links) < MaxLinks
      /\ MaxLinks \in Nat
      /\ pubs[p] \in Publications /\ Sure(p, pubs[p], world) /\ pubs[p].pc = "resolve"
      /\ pubs[p].service \in Services /\ pubs[p].service # "preresolved"
    BY QrAt, QrAssumed DEF Qr!MayCreate, Qr!At
<1>2. PICK link : link = Len(world.links) + 1
    OBVIOUS
<1>3. link \in 0 .. MaxLinks
    BY <1>1, <1>2
<1>4. PICK e : e = [Qr!NoReceipt EXCEPT !.link = link, !.action = "created"]
    OBVIOUS
<1>5. "created" \in Qr!Actions
    BY DEF Qr!Actions
<1>6. /\ pubs[p].effects = Qr!NoReceipt /\ pubs[p].receipt = Qr!NoReceipt /\ e \in Qr!Receipts
      /\ pubs[p].target \in Targets /\ pubs[p].outcome = None
      /\ ~(\E l \in Nat \ {0} : Open(pubs[p], l))
    BY <1>1, <1>3, <1>4, <1>5, QrActed
<1>7. PICK m : m = [service |-> pubs[p].service, slugged |-> TRUE, link |-> link,
                    target |-> pubs[p].target]
    OBVIOUS
<1>8. m \in Qr!Records /\ m.link = link /\ m.service \in Services
    BY <1>1, <1>3, <1>6, <1>7 DEF Qr!Records
<1>9. n = [pubs[p] EXCEPT !.pc = pc, !.meta = m, !.effects.link = link,
                          !.effects.action = "created"]
    BY <1>2, <1>7 DEF Qr!Created, Qr!Goto, Qr!Record
<1>10. n = [pubs[p] EXCEPT !.pc = pc, !.meta = m, !.effects = e]
    BY <1>1, <1>4, <1>6, <1>9 DEF Publications
<1>11. /\ n \in Publications /\ n.pc = pc /\ n.target = pubs[p].target
       /\ n.prior = pubs[p].prior /\ n.outcome = None /\ n.meta = m /\ n.effects = e
       /\ n.receipt = Qr!NoReceipt
    BY <1>1, <1>6, <1>8, <1>10 DEF Publications, Locked
<1>12. n.effects = Linked(n, "created") /\ e.link = link /\ e.action = "created"
    BY <1>4, <1>8, <1>11, NoReceiptTyped DEF Linked, Qr!Receipts
<1>13. QED
    BY <1>2, <1>6, <1>8, <1>11, <1>12

(* What Told writes on the receipt of a run that made a link. *)
LEMMA QrTold ==
  ASSUME NEW n \in Publications, n.receipt = Qr!NoReceipt,
         n.effects = Linked(n, "created") \/ n.effects.action = "created",
         NEW e \in Qr!Receipts, n.effects = e,
         e = [Qr!NoReceipt EXCEPT !.link = e.link, !.action = "created"]
  PROVE  Qr!Told(n) = [n EXCEPT !.receipt = e]
BY DEF Qr!Told, Publications

LEMMA QrCreatesRebrandly ==
  ASSUME QrInv, NEW p \in Publishers, Qr!CreateRebrandly(p) PROVE QrInv'
<1>1. /\ world \in Worlds /\ Len(world.links) \in Nat
      /\ pubs[p] \in Publications /\ Sure(p, pubs[p], world) /\ pubs[p].pc = "resolve"
      /\ Qr!MayCreate(p)
    BY QrAt DEF Qr!CreateRebrandly, Qr!MayCreate, Qr!At
<1>2. CASE Qr!End(p, "refused")
    BY <1>1, <1>2, QrEarly, QrEnds DEF Qr!Outcomes
<1>3. PICK s : s = Qr!NewLink(p, TRUE)
    OBVIOUS
<1>4. CASE /\ world' = Qr!Unlocked([world EXCEPT !.links = Qr!NewLink(p, TRUE)], p)
           /\ Qr!Upd(p, Qr!Unheard(Qr!Ended(p, "refused")))
    BY <1>1, <1>3, <1>4, QrUnheard
<1>5. CASE /\ world' = [world EXCEPT !.links = Qr!NewLink(p, TRUE)]
           /\ Qr!Upd(p, Qr!Told(Qr!Created(p, Qr!Goto(p, "png"))))
    <2>1. PICK w : w = [world EXCEPT !.links = s]
        OBVIOUS
    <2>2. /\ w \in Worlds /\ w = [world EXCEPT !.links = w.links]
          /\ Len(w.links) = Len(world.links) + 1 /\ Len(w.links) <= MaxLinks
          /\ w.links[Len(world.links) + 1].target = pubs[p].target
          /\ \A l \in 1 .. Len(world.links) : w.links[l] = world.links[l]
        BY <1>1, <1>3, <2>1, QrNewLink
    <2>3. PICK pc \in {"png", "back_half"} : pc = "png"
        OBVIOUS
    <2>4. PICK n : n = Qr!Created(p, Qr!Goto(p, pc))
        OBVIOUS
    <2>5. /\ n \in Publications /\ n.pc = pc /\ n.target = pubs[p].target
          /\ n.prior = pubs[p].prior /\ n.outcome = None /\ n.target \in Targets
          /\ n.meta \in Qr!Records /\ n.meta.link = Len(world.links) + 1
          /\ n.effects = Linked(n, "created") /\ n.receipt = Qr!NoReceipt
          /\ n.effects.link = n.meta.link /\ n.effects.action = "created"
          /\ ~(\E l \in Nat \ {0} : Open(pubs[p], l))
        BY <1>1, <2>4, QrCreated
    <2>6. PICK e \in Qr!Receipts : e = n.effects
        BY <2>5 DEF Publications
    <2>a. PICK link : link = n.meta.link
        OBVIOUS
    <2>b. e = [Qr!NoReceipt EXCEPT !.link = link, !.action = "created"]
        BY <2>5, <2>6, <2>a DEF Linked
    <2>7. e = [Qr!NoReceipt EXCEPT !.link = e.link, !.action = "created"]
        BY <2>5, <2>6, <2>a, <2>b
    <2>8. PICK r : r = [n EXCEPT !.receipt = e]
        OBVIOUS
    <2>9. Qr!Told(n) = r
        BY <2>5, <2>6, <2>7, <2>8, QrTold
    <2>10. /\ r \in Publications /\ r.pc = "png" /\ r.target = pubs[p].target
           /\ r.prior = pubs[p].prior /\ r.outcome = None /\ r.meta = n.meta
           /\ r.receipt = e /\ r.effects = e
        BY <2>3, <2>5, <2>6, <2>8 DEF Publications
    <2>11. Qr!Upd(p, r) /\ world' = w
        BY <1>3, <1>5, <2>1, <2>3, <2>4, <2>9
    <2>12. Leads(p, r, pubs, w)
        BY <2>2, <2>5, <2>10 DEF Leads
    <2>13. Real(r.meta, w)
        BY <1>1, <2>2, <2>5, <2>10 DEF Real
    <2>14. \A l \in 1 .. Len(world.links) : w.links[l].target = world.links[l].target
        BY <2>2
    <2>15. Len(world.links) <= Len(w.links)
        BY <1>1, <2>2
    <2>16. pubs[p].outcome = None
        BY <1>1 DEF Sure
    <2>17. QED
        BY <1>1, <2>2, <2>5, <2>6, <2>10, <2>11, <2>12, <2>13, <2>14, <2>15, <2>16, QrResolved
<1>6. QED
    BY <1>2, <1>4, <1>5 DEF Qr!CreateRebrandly

LEMMA QrCreatesBitly ==
  ASSUME QrInv, NEW p \in Publishers, Qr!CreateBitly(p) PROVE QrInv'
<1>1. /\ world \in Worlds /\ Len(world.links) \in Nat
      /\ pubs[p] \in Publications /\ Sure(p, pubs[p], world) /\ pubs[p].pc = "resolve"
      /\ Qr!MayCreate(p)
    BY QrAt DEF Qr!CreateBitly, Qr!MayCreate, Qr!At
<1>2. CASE Qr!End(p, "refused")
    BY <1>1, <1>2, QrEarly, QrEnds DEF Qr!Outcomes
<1>3. PICK s : s = Qr!NewLink(p, FALSE)
    OBVIOUS
<1>4. CASE /\ world' = Qr!Unlocked([world EXCEPT !.links = Qr!NewLink(p, FALSE)], p)
           /\ Qr!Upd(p, Qr!Unheard(Qr!Ended(p, "refused")))
    BY <1>1, <1>3, <1>4, QrUnheard
<1>5. CASE /\ world' = [world EXCEPT !.links = Qr!NewLink(p, FALSE)]
           /\ Qr!Upd(p, Qr!Created(p, Qr!Goto(p, "back_half")))
    <2>1. PICK w : w = [world EXCEPT !.links = s]
        OBVIOUS
    <2>2. /\ w \in Worlds
          /\ Len(w.links) = Len(world.links) + 1 /\ Len(w.links) <= MaxLinks
          /\ w.links[Len(world.links) + 1].target = pubs[p].target
          /\ \A l \in 1 .. Len(world.links) : w.links[l] = world.links[l]
          /\ w.record = world.record /\ w.generation = world.generation
          /\ w.edited = world.edited /\ w.lock = world.lock
        BY <1>1, <1>3, <2>1, QrNewLink
    <2>3. PICK pc \in {"png", "back_half"} : pc = "back_half"
        OBVIOUS
    <2>4. PICK n : n = Qr!Created(p, Qr!Goto(p, pc))
        OBVIOUS
    <2>5. /\ n \in Publications /\ n.pc = "back_half" /\ n.target = pubs[p].target
          /\ n.prior = pubs[p].prior /\ n.outcome = None /\ n.target \in Targets
          /\ n.meta \in Qr!Records /\ n.meta.link = Len(world.links) + 1
          /\ n.meta.service \in Services
          /\ n.effects = Linked(n, "created") /\ n.receipt = Qr!NoReceipt
          /\ ~(\E l \in Nat \ {0} : Open(pubs[p], l))
        BY <1>1, <2>3, <2>4, QrCreated
    <2>6. Qr!Upd(p, n) /\ world' = w
        BY <1>3, <1>5, <2>1, <2>3, <2>4
    <2>7. Leads(p, n, pubs, w)
        BY <2>2, <2>5 DEF Leads
    <2>8. PICK k \in Qr!Records \union {None} : k = pubs[p].prior
        BY <1>1 DEF Publications
    <2>9. Len(world.links) <= Len(w.links)
        BY <1>1, <2>2
    <2>10. Real(k, w)
        BY <1>1, <2>2, <2>8, <2>9, RealMore DEF Sure
    <2>11. Real(n.meta, w) /\ n.meta.link # 0
        BY <1>1, <2>2, <2>5 DEF Real
    <2>12. None \notin {"refused", "unfinalized"}
        BY QrAssumed DEF Qr!Outcomes
    <2>13. Sure(p, n, w)
        BY <1>1, <2>2, <2>5, <2>8, <2>10, <2>11, <2>12 DEF Sure, Locked, Resolved
    <2>14. \A l \in 1 .. Len(world.links) : w.links[l].target = world.links[l].target
        BY <2>2
    <2>15. QED
        BY <2>2, <2>5, <2>6, <2>7, <2>9, <2>13, <2>14, QrStep
<1>6. QED
    BY <1>2, <1>4, <1>5 DEF Qr!CreateBitly

LEMMA QrBackHalf ==
  ASSUME QrInv, NEW p \in Publishers, Qr!BackHalf(p) PROVE QrInv'
<1>1. /\ world \in Worlds /\ Len(world.links) \in Nat /\ Len(world.links) <= MaxLinks
      /\ pubs[p] \in Publications /\ Sure(p, pubs[p], world) /\ pubs[p].pc = "back_half"
      /\ Leads(p, pubs[p], pubs, world)
    BY QrAt DEF Qr!BackHalf, Qr!At
<1>2. /\ pubs[p].meta \in Qr!Records /\ pubs[p].meta.link # 0
      /\ pubs[p].receipt = Qr!NoReceipt /\ pubs[p].effects = Linked(pubs[p], "created")
      /\ pubs[p].outcome = None
    BY <1>1 DEF Sure
<1>3. PICK link : link = pubs[p].meta.link
    OBVIOUS
<1>4. link \in 1 .. Len(world.links)
    BY <1>1, <1>2, <1>3, QrAssumed DEF Sure, Real, Qr!Records
<1>5. PICK e \in Qr!Receipts : e = pubs[p].effects
    BY <1>1 DEF Publications
<1>a. e = [Qr!NoReceipt EXCEPT !.link = link, !.action = "created"]
    BY <1>2, <1>3, <1>5 DEF Linked
<1>b. e.link = link /\ e.action = "created"
    BY <1>a DEF Qr!NoReceipt
<1>6. /\ e.link = link /\ e.action = "created"
      /\ e = [Qr!NoReceipt EXCEPT !.link = e.link, !.action = "created"]
    BY <1>a, <1>b
<1>7. PICK k : k = [world.links[link] EXCEPT !.slugged = TRUE]
    OBVIOUS
<1>8. world.links \in Seq(ShortLinks) /\ world.links[link] \in ShortLinks
    BY <1>1, <1>4 DEF Worlds
<1>9. k \in ShortLinks /\ k.target = world.links[link].target
    BY <1>7, <1>8 DEF ShortLinks
<1>10. PICK s : s = [world.links EXCEPT ![link] = k]
    OBVIOUS
<1>11. /\ s \in Seq(ShortLinks) /\ Len(s) = Len(world.links)
       /\ \A l \in 1 .. Len(world.links) : s[l].target = world.links[l].target
    BY <1>4, <1>8, <1>9, <1>10
<1>12. PICK w : w = [world EXCEPT !.links = s]
    OBVIOUS
<1>13. /\ w \in Worlds /\ w.links = s /\ w = [world EXCEPT !.links = w.links]
       /\ w.record = world.record /\ w.generation = world.generation
       /\ w.edited = world.edited /\ w.lock = world.lock
    BY <1>1, <1>11, <1>12, QrLinked
<1>14. [world EXCEPT !.links[link].slugged = TRUE] = w
    BY <1>1, <1>7, <1>10, <1>12 DEF Worlds
<1>15. PICK n : n = Qr!Ended(p, "unfinalized")
    OBVIOUS
<1>16. /\ n \in Publications /\ n.pc = "ended" /\ n.outcome = "unfinalized"
       /\ n.prior = None /\ n.meta = None /\ n.effects = e /\ n.receipt = Qr!NoReceipt
    BY <1>1, <1>2, <1>5, <1>15, QrEnded DEF Qr!Outcomes
<1>17. PICK r : r = [n EXCEPT !.receipt = e]
    OBVIOUS
<1>18. Qr!BackHalfFails(p) = r
    BY <1>6, <1>15, <1>16, <1>17, QrTold DEF Qr!BackHalfFails
<1>19. /\ r \in Publications /\ r.pc = "ended" /\ r.outcome = "unfinalized"
       /\ r.prior = None /\ r.meta = None /\ r.effects = e /\ r.receipt = e
    BY <1>16, <1>17 DEF Publications
<1>20. \A l \in Nat \ {0} : ~Open(pubs[p], l)
    BY <1>5, <1>6 DEF Open
<1>21. PICK v : v = world
    OBVIOUS
<1>22. v \in Worlds /\ v.links = world.links /\ v = [world EXCEPT !.links = v.links]
    BY <1>1, <1>21 DEF Worlds
<1>23. CASE Qr!Upd(p, Qr!BackHalfFails(p)) /\ world' = Qr!Unlocked(world, p)
    BY <1>1, <1>18, <1>19, <1>20, <1>21, <1>22, <1>23, QrGivesUp
<1>24. CASE Qr!Upd(p, Qr!BackHalfFails(p)) /\ world' = Qr!Unlocked(w, p)
    BY <1>1, <1>11, <1>13, <1>18, <1>19, <1>20, <1>24, QrGivesUp
<1>25. CASE Qr!Upd(p, Qr!Told(Qr!Goto(p, "png"))) /\ world' = w
    <2>1. PICK g : g = [pubs[p] EXCEPT !.pc = "png"]
        OBVIOUS
    <2>2. /\ g \in Publications /\ g.pc = "png" /\ g.effects = e /\ g.receipt = Qr!NoReceipt
          /\ g.target = pubs[p].target /\ g.prior = pubs[p].prior /\ g.meta = pubs[p].meta
          /\ g.outcome = None
        BY <1>1, <1>2, <1>5, <2>1 DEF Publications, Locked
    <2>3. PICK x : x = [g EXCEPT !.receipt = e]
        OBVIOUS
    <2>4. Qr!Told(g) = x
        BY <1>6, <2>2, <2>3, QrTold
    <2>5. /\ x \in Publications /\ x.pc = "png" /\ x.effects = e /\ x.receipt = e
          /\ x.target = pubs[p].target /\ x.prior = pubs[p].prior /\ x.meta = pubs[p].meta
          /\ x.outcome = None
        BY <2>2, <2>3 DEF Publications
    <2>6. Qr!Upd(p, x)
        BY <1>25, <2>1, <2>4 DEF Qr!Goto
    <2>7. w.links[link].target = world.links[link].target
        BY <1>4, <1>11, <1>13
    <2>8. Leads(p, x, pubs, w)
        BY <1>1, <1>3, <1>5, <1>13, <2>5, <2>7 DEF Leads, Resolved
    <2>9. None \notin {"refused", "unfinalized"}
        BY QrAssumed DEF Qr!Outcomes
    <2>10. Real(x.prior, w) /\ Real(x.meta, w)
        BY <1>1, <1>11, <1>13, <2>5 DEF Sure, Real
    <2>a. w.lock = p /\ x.target \in Targets
        BY <1>1, <1>13, <2>5 DEF Sure, Locked
    <2>b. x.meta \in Qr!Records /\ x.effects.link \in {0, x.meta.link}
        BY <1>2, <1>3, <1>6, <2>5
    <2>11. Sure(p, x, w)
        BY <2>5, <2>9, <2>10, <2>a, <2>b DEF Sure, Locked, Resolved
    <2>12. QED
        BY <1>1, <1>11, <1>13, <1>20, <1>25, <2>5, <2>6, <2>8, <2>11, QrStep
<1>26. \/ Qr!Upd(p, Qr!Told(Qr!Goto(p, "png"))) /\ world' = w
       \/ Qr!Upd(p, Qr!BackHalfFails(p)) /\ world' = Qr!Unlocked(w, p)
       \/ Qr!Upd(p, Qr!BackHalfFails(p)) /\ world' = Qr!Unlocked(world, p)
    BY <1>3, <1>14 DEF Qr!BackHalf
<1>27. QED
    BY <1>23, <1>24, <1>25, <1>26

(* A run that goes on with its link leaves that alone. *)
LEMMA QrGoesOn ==
  ASSUME QrInv, NEW p \in Publishers, pubs[p].pc \in Resolved,
         NEW r \in Publications, r.pc \in Resolved, r.target = pubs[p].target,
         r.meta = pubs[p].meta, r.outcome = pubs[p].outcome,
         r.effects.link = pubs[p].effects.link, r.effects.action = pubs[p].effects.action
  PROVE  /\ Leads(p, r, pubs, world)
         /\ \A l \in Nat \ {0} : Open(pubs[p], l) => Open(r, l)
BY QrAt DEF Leads, Open

LEMMA QrWritesPngs ==
  ASSUME QrInv, NEW p \in Publishers, Qr!WritePngs(p) PROVE QrInv'
<1>1. /\ pubs[p] \in Publications /\ Sure(p, pubs[p], world) /\ pubs[p].pc = "png"
    BY QrAt DEF Qr!WritePngs, Qr!At
<1>2. CASE Qr!End(p, "aborted")
    BY <1>2, QrEnds DEF Qr!Outcomes
<1>3. CASE /\ \E next \in {"deck", "commit"} :
                Qr!Upd(p, [Qr!Goto(p, next) EXCEPT !.receipt.pngs = TRUE, !.effects.pngs = TRUE])
           /\ UNCHANGED world
    <2>1. PICK next \in {"deck", "commit"} :
            Qr!Upd(p, [Qr!Goto(p, next) EXCEPT !.receipt.pngs = TRUE, !.effects.pngs = TRUE])
        BY <1>3
    <2>2. PICK c \in Qr!Receipts : c = pubs[p].effects /\ c = pubs[p].receipt
        BY <1>1 DEF Sure, Resolved, Publications
    <2>3. PICK e : e = [c EXCEPT !.pngs = TRUE]
        OBVIOUS
    <2>4. e \in Qr!Receipts /\ e.link = c.link /\ e.action = c.action
        BY <2>3 DEF Qr!Receipts
    <2>5. PICK r : r = [pubs[p] EXCEPT !.pc = next, !.receipt = e, !.effects = e]
        OBVIOUS
    <2>6. Qr!Upd(p, r)
        BY <1>1, <2>1, <2>2, <2>3, <2>5 DEF Qr!Goto, Publications
    <2>7. /\ r \in Publications /\ r.pc = next /\ r.target = pubs[p].target
          /\ r.prior = pubs[p].prior /\ r.outcome = pubs[p].outcome /\ r.meta = pubs[p].meta
          /\ r.receipt = e /\ r.effects = e
        BY <1>1, <2>4, <2>5 DEF Publications, Locked
    <2>8. None \notin {"refused", "unfinalized"}
        BY QrAssumed DEF Qr!Outcomes
    <2>9. Sure(p, r, world)
        BY <1>1, <2>2, <2>4, <2>7, <2>8 DEF Sure, Locked, Resolved
    <2>10. pubs[p].pc \in Resolved /\ r.pc \in Resolved
        BY <1>1, <2>7 DEF Resolved
    <2>11. r.effects.link = pubs[p].effects.link /\ r.effects.action = pubs[p].effects.action
        BY <2>2, <2>4, <2>7
    <2>12. QED
        BY <1>3, <2>6, <2>7, <2>9, <2>10, <2>11, QrGoesOn, QrQuiet
<1>4. QED
    BY <1>2, <1>3 DEF Qr!WritePngs

LEMMA QrInserts ==
  ASSUME QrInv, NEW p \in Publishers, Qr!InsertIntoDeck(p) PROVE QrInv'
<1>1. /\ pubs[p] \in Publications /\ Sure(p, pubs[p], world) /\ pubs[p].pc = "deck"
    BY QrAt DEF Qr!InsertIntoDeck, Qr!At
<1>2. CASE Qr!End(p, "aborted")
    BY <1>2, QrEnds DEF Qr!Outcomes
<1>3. CASE /\ Qr!Upd(p, [Qr!Goto(p, "commit") EXCEPT !.receipt.deck = TRUE, !.effects.deck = TRUE])
           /\ UNCHANGED world
    <2>1. PICK c \in Qr!Receipts : c = pubs[p].effects /\ c = pubs[p].receipt
        BY <1>1 DEF Sure, Resolved, Publications
    <2>2. PICK e : e = [c EXCEPT !.deck = TRUE]
        OBVIOUS
    <2>3. e \in Qr!Receipts /\ e.link = c.link /\ e.action = c.action
        BY <2>2 DEF Qr!Receipts
    <2>4. PICK r : r = [pubs[p] EXCEPT !.pc = "commit", !.receipt = e, !.effects = e]
        OBVIOUS
    <2>5. Qr!Upd(p, r)
        BY <1>1, <1>3, <2>1, <2>2, <2>4 DEF Qr!Goto, Publications
    <2>6. /\ r \in Publications /\ r.pc = "commit" /\ r.target = pubs[p].target
          /\ r.prior = pubs[p].prior /\ r.outcome = pubs[p].outcome /\ r.meta = pubs[p].meta
          /\ r.receipt = e /\ r.effects = e
        BY <1>1, <2>3, <2>4 DEF Publications, Locked
    <2>7. None \notin {"refused", "unfinalized"}
        BY QrAssumed DEF Qr!Outcomes
    <2>8. Sure(p, r, world)
        BY <1>1, <2>1, <2>3, <2>6, <2>7 DEF Sure, Locked, Resolved
    <2>9. pubs[p].pc \in Resolved /\ r.pc \in Resolved
        BY <1>1, <2>6 DEF Resolved
    <2>10. r.effects.link = pubs[p].effects.link /\ r.effects.action = pubs[p].effects.action
        BY <2>1, <2>3, <2>6
    <2>11. QED
        BY <1>3, <2>5, <2>6, <2>8, <2>9, <2>10, QrGoesOn, QrQuiet
<1>4. QED
    BY <1>2, <1>3 DEF Qr!InsertIntoDeck

LEMMA QrUnfinalized ==
  ASSUME QrInv, NEW p \in Publishers, pubs[p].pc \in Resolved, Qr!End(p, "unfinalized")
  PROVE  QrInv'
<1>1. pubs[p].receipt = pubs[p].effects
    BY QrAt DEF Sure
<1>2. QED
    BY <1>1, QrEnds DEF Qr!Outcomes

LEMMA QrCommitReads ==
  ASSUME QrInv, NEW p \in Publishers, Qr!CommitRead(p) PROVE QrInv'
<1>1. /\ world \in Worlds
      /\ pubs[p] \in Publications /\ Sure(p, pubs[p], world) /\ pubs[p].pc = "commit"
      /\ pubs[p].pc \in Resolved
    BY QrAt DEF Qr!CommitRead, Qr!At, Resolved
<1>2. CASE Qr!End(p, "unfinalized")
    BY <1>1, <1>2, QrUnfinalized
<1>3. CASE /\ world.record = pubs[p].prior
           /\ Qr!Upd(p, [Qr!Goto(p, "write") EXCEPT !.fresh = world.generation])
           /\ UNCHANGED world
    <2>1. PICK g \in Nat : g = world.generation
        BY <1>1 DEF Worlds
    <2>2. PICK r : r = [pubs[p] EXCEPT !.pc = "write", !.fresh = g]
        OBVIOUS
    <2>3. Qr!Upd(p, r)
        BY <1>3, <2>1, <2>2 DEF Qr!Goto
    <2>4. /\ r \in Publications /\ r.pc = "write" /\ r.target = pubs[p].target
          /\ r.prior = pubs[p].prior /\ r.outcome = pubs[p].outcome /\ r.meta = pubs[p].meta
          /\ r.receipt = pubs[p].receipt /\ r.effects = pubs[p].effects /\ r.fresh = g
        BY <1>1, <2>2 DEF Publications, Locked
    <2>5. None \notin {"refused", "unfinalized"}
        BY QrAssumed DEF Qr!Outcomes
    <2>6. Sure(p, r, world)
        BY <1>1, <1>3, <2>1, <2>4, <2>5 DEF Sure, Locked, Resolved
    <2>7. r.pc \in Resolved
        BY <2>4 DEF Resolved
    <2>8. QED
        BY <1>1, <1>3, <2>3, <2>4, <2>6, <2>7, QrGoesOn, QrQuiet
<1>4. QED
    BY <1>2, <1>3 DEF Qr!CommitRead

LEMMA QrKilled ==
  ASSUME QrInv, NEW p \in Publishers, Qr!Killed(p) PROVE QrInv'
BY QrEnds DEF Qr!Killed, Qr!Outcomes

(* The record is written: from here on it tells what the run made of the link. *)
LEMMA QrCommitWrites ==
  ASSUME QrInv, NEW p \in Publishers, Qr!CommitWrite(p) PROVE QrInv'
<1>1. /\ world \in Worlds /\ Len(world.links) <= MaxLinks /\ Len(world.links) \in Nat
      /\ pubs[p] \in Publications /\ Sure(p, pubs[p], world) /\ pubs[p].pc = "write"
      /\ pubs[p].pc \in Resolved /\ Leads(p, pubs[p], pubs, world)
    BY QrAt DEF Qr!CommitWrite, Qr!At, Resolved
<1>2. CASE Qr!End(p, "unfinalized")
    BY <1>1, <1>2, QrUnfinalized
<1>3. CASE /\ world.generation = pubs[p].fresh
           /\ world' = [world EXCEPT !.record = [pubs[p].meta EXCEPT !.target = pubs[p].target]]
           /\ Qr!Upd(p, Qr!Goto(p, "committed"))
    <2>1. PICK x : x = pubs[p]
        OBVIOUS
    <2>2. /\ x \in Publications /\ x.meta \in Qr!Records /\ x.target \in Targets
          /\ x.outcome = None /\ Real(x.meta, world) /\ Real(x.prior, world)
          /\ x.receipt = x.effects /\ x.effects.link \in {0, x.meta.link}
          /\ world.lock = p
        BY <1>1, <2>1 DEF Sure, Locked
    <2>3. PICK m : m = [x.meta EXCEPT !.target = x.target]
        OBVIOUS
    <2>4. /\ m \in Qr!Records /\ m.link = x.meta.link /\ m.service = x.meta.service
          /\ m.target = x.target
        BY <2>2, <2>3 DEF Qr!Records
    <2>5. PICK w : w = [world EXCEPT !.record = m]
        OBVIOUS
    <2>6. /\ w \in Worlds /\ w.links = world.links /\ w.record = m
          /\ w.generation = world.generation /\ w.edited = world.edited /\ w.lock = world.lock
        BY <1>1, <2>4, <2>5 DEF Worlds
    <2>7. PICK r : r = [x EXCEPT !.pc = "committed"]
        OBVIOUS
    <2>8. /\ r \in Publications /\ r.pc = "committed" /\ r.target = x.target
          /\ r.prior = x.prior /\ r.outcome = x.outcome /\ r.meta = x.meta
          /\ r.receipt = x.receipt /\ r.effects = x.effects
        BY <2>2, <2>7 DEF Publications, Locked
    <2>9. Qr!Upd(p, r) /\ world' = w
        BY <1>3, <2>1, <2>3, <2>5, <2>7 DEF Qr!Goto
    <2>10. None \notin {"refused", "unfinalized"}
        BY QrAssumed DEF Qr!Outcomes
    <2>11. Real(r.prior, w) /\ Real(r.meta, w) /\ Real(m, w)
        BY <2>2, <2>4, <2>6, <2>8 DEF Real
    <2>12. w.record = [r.meta EXCEPT !.target = r.target]
        BY <2>3, <2>6, <2>8
    <2>13. Sure(p, r, w)
        BY <2>2, <2>6, <2>8, <2>10, <2>11, <2>12 DEF Sure, Locked, Resolved
    <2>14. QrSure'
        <3>1. Real(w.record, w)
            BY <2>6, <2>11
        <3>2. \A q \in Publishers \ {p} : world.lock # q
            BY <2>2
        <3>3. QED
            BY <1>1, <2>6, <2>8, <2>9, <2>13, <3>1, <3>2, QrStepSure
    <2>15. PICK ps : ps = pubs /\ ps \in [Publishers -> Publications]
        BY DEF QrInv, QrSure, QrTyped
    <2>16. PICK ps2 : ps2 = pubs' /\ ps2 = [ps EXCEPT ![p] = r]
        BY <2>9, <2>15 DEF Qr!Upd
    <2>17. ps2[p] = r /\ \A q \in Publishers \ {p} : ps2[q] = ps[q]
        BY <2>15, <2>16
    <2>18. \A q \in Publishers, l \in Nat : Open(ps2[q], l) <=> Open(ps[q], l)
        BY <2>1, <2>8, <2>15, <2>17 DEF Open
    <2>19. m.link \in Nat
        BY <2>4, QrAssumed DEF Qr!Records
    <2>20. Tells(ps2, w)
        <3>1. SUFFICES ASSUME m.link # 0, ~w.edited,
                              ~(\E q \in Publishers : Open(ps2[q], m.link))
                       PROVE  w.links[m.link].target = m.target
            BY <2>6 DEF Tells
        <3>2. ~(\E q \in Publishers : Open(ps[q], m.link))
            BY <2>18, <2>19, <3>1
        <3>3. ~(x.effects.link = m.link /\ x.effects.action = "preresolved")
            BY <2>1, <2>15, <3>2 DEF Open
        <3>4. QED
            BY <1>1, <2>1, <2>4, <2>6, <2>15, <3>1, <3>2, <3>3 DEF Leads
    <2>21. ASSUME NEW q \in Publishers PROVE Leads(q, ps2[q], ps2, w)
        <3>1. CASE q = p
            <4>1. Leads(p, x, ps, world)
                BY <1>1, <2>1, <2>15
            <4>2. QED
                BY <1>1, <2>1, <2>6, <2>8, <2>17, <3>1, <4>1 DEF Leads
        <3>2. CASE q # p
            <4>1. ps2[q] = pubs[q] /\ pubs[q].pc \notin Locked
                BY <2>2, <2>15, <2>17, <3>2, QrAt DEF Sure
            <4>2. QED
                BY <4>1 DEF Leads, Locked, Resolved
        <3>3. QED
            BY <3>1, <3>2
    <2>22. QED
        BY <2>9, <2>14, <2>16, <2>20, <2>21 DEF QrInv, QrTells
<1>4. QED
    BY <1>2, <1>3 DEF Qr!CommitWrite

(* What a run that is done did to its link is settled. *)
LEMMA QrFinishes ==
  ASSUME QrInv, NEW p \in Publishers, Qr!Finish(p) PROVE QrInv'
<1>1. /\ world \in Worlds /\ Len(world.links) <= MaxLinks /\ Len(world.links) \in Nat
      /\ Real(world.record, world)
      /\ pubs[p] \in Publications /\ Sure(p, pubs[p], world) /\ pubs[p].pc = "committed"
      /\ Leads(p, pubs[p], pubs, world) /\ Tells(pubs, world)
    BY QrAt DEF Qr!Finish, Qr!At
<1>2. PICK x : x = pubs[p]
    OBVIOUS
<1>3. /\ world.lock = p /\ x.meta \in Qr!Records
      /\ world.edited \/ world.record = [x.meta EXCEPT !.target = x.target]
    BY <1>1, <1>2 DEF Sure, Locked, Resolved
<1>4. PICK r : r = Qr!Ended(p, "done")
    OBVIOUS
<1>5. /\ r \in Publications /\ r.pc = "ended" /\ r.outcome = "done" /\ r.prior = None
      /\ r.meta = None /\ r.effects.link = x.effects.link /\ r.effects.action = x.effects.action
    BY <1>1, <1>2, <1>4, QrEnded DEF Qr!Outcomes
<1>6. PICK w : w = Qr!Unlocked(world, p)
    OBVIOUS
<1>7. /\ w \in Worlds /\ w.links = world.links /\ w.record = world.record
      /\ w.generation = world.generation /\ w.edited = world.edited
      /\ \A q \in Publishers \ {p} : world.lock = q => w.lock = q
    BY <1>1, <1>6, QrUnlocks
<1>8. Qr!Upd(p, r) /\ world' = w
    BY <1>4, <1>6 DEF Qr!Finish, Qr!End
<1>9. Sure(p, r, w)
    BY <1>5, QrAssumed DEF Sure, Real, Locked, Resolved
<1>10. QrSure'
    <2>1. Real(w.record, w)
        BY <1>1, <1>7 DEF Real
    <2>2. QED
        BY <1>1, <1>5, <1>7, <1>8, <1>9, <2>1, QrStepSure
<1>11. PICK ps : ps = pubs /\ ps \in [Publishers -> Publications]
    BY DEF QrInv, QrSure, QrTyped
<1>12. PICK ps2 : ps2 = pubs' /\ ps2 = [ps EXCEPT ![p] = r]
    BY <1>8, <1>11 DEF Qr!Upd
<1>13. ps2[p] = r /\ \A q \in Publishers \ {p} : ps2[q] = ps[q]
    BY <1>11, <1>12
<1>14. Tells(ps2, w)
    <2>1. SUFFICES ASSUME w.record # None, w.record.link # 0, ~w.edited,
                          ~(\E q \in Publishers : Open(ps2[q], w.record.link))
                   PROVE  w.links[w.record.link].target = w.record.target
        BY DEF Tells
    <2>2. PICK m : m = x.meta
        OBVIOUS
    <2>3. world.record.link = m.link /\ world.record.target = x.target
        BY <1>3, <1>7, <2>1, <2>2 DEF Qr!Records
    <2>4. ~(\E q \in Publishers \ {p} : Open(ps[q], m.link))
        BY <1>7, <1>13, <2>1, <2>3
    <2>5. ~(x.effects.link = m.link /\ x.effects.action = "preresolved")
        BY <1>5, <1>7, <1>13, <2>1, <2>3 DEF Open
    <2>6. world.links[m.link].target = x.target
        BY <1>1, <1>2, <1>7, <1>11, <2>1, <2>2, <2>3, <2>4, <2>5 DEF Leads, Resolved
    <2>7. QED
        BY <1>7, <2>3, <2>6
<1>15. ASSUME NEW q \in Publishers PROVE Leads(q, ps2[q], ps2, w)
    <2>1. CASE q = p
        BY <1>5, <1>13, <2>1 DEF Leads, Resolved
    <2>2. CASE q # p
        <3>1. ps2[q] = pubs[q] /\ pubs[q].pc \notin Locked
            BY <1>3, <1>11, <1>13, <2>2, QrAt DEF Sure
        <3>2. QED
            BY <3>1 DEF Leads, Locked, Resolved
    <2>3. QED
        BY <2>1, <2>2
<1>16. QED
    BY <1>8, <1>10, <1>12, <1>14, <1>15 DEF QrInv, QrTells

(* A writer that is no QR run: what it does to the record shows. *)
LEMMA QrOthersCommit ==
  ASSUME QrInv, Qr!OtherCommit PROVE QrInv'
<1>1. /\ world \in Worlds /\ Len(world.links) <= MaxLinks /\ Len(world.links) \in Nat
      /\ Real(world.record, world) /\ Tells(pubs, world)
    BY DEF QrInv, QrSure, QrTells, QrTyped, Worlds
<1>2. PICK record \in {world.record, None} \union
          {[world.record EXCEPT !.target = t] : t \in IF world.record = None THEN {} ELSE Targets} :
        /\ world' = [world EXCEPT !.generation = @ + 1, !.record = record,
                                  !.edited = @ \/ record # world.record]
        /\ UNCHANGED pubs
    BY DEF Qr!OtherCommit
<1>3. PICK k \in Qr!Records \union {None} : k = world.record
    BY <1>1 DEF Worlds
<1>4. /\ record \in Qr!Records \union {None}
      /\ record # None => /\ k # None /\ record.service = k.service
                          /\ record.slugged = k.slugged /\ record.link = k.link
    BY <1>2, <1>3 DEF Qr!Records
<1>5. PICK g \in Nat : g = world.generation
    BY <1>1 DEF Worlds
<1>a. PICK h \in Nat : h = g + 1
    OBVIOUS
<1>6. PICK e : e = (world.edited \/ record # k)
    OBVIOUS
<1>7. PICK w : w = [world EXCEPT !.generation = h, !.record = record, !.edited = e]
    OBVIOUS
<1>8. e \in BOOLEAN
    BY <1>6
<1>9. /\ w \in Worlds /\ w.links = world.links /\ w.record = record
      /\ w.generation = g + 1 /\ w.lock = world.lock
      /\ w.edited <=> world.edited \/ record # k
    <2>1. /\ w \in Worlds /\ w.links = world.links /\ w.record = record
          /\ w.generation = h /\ w.lock = world.lock /\ w.edited = e
        BY <1>1, <1>4, <1>5, <1>7, <1>8 DEF Worlds
    <2>2. QED
        BY <1>6, <1>a, <2>1
<1>10. world' = w
    BY <1>2, <1>3, <1>5, <1>6, <1>7, <1>a
<1>11. Real(w.record, w)
    BY <1>1, <1>3, <1>4, <1>9, QrAssumed DEF Real
<1>12. ASSUME NEW p \in Publishers PROVE Sure(p, pubs[p], w)
    <2>1. PICK x : x = pubs[p]
        OBVIOUS
    <2>2. x \in Publications /\ Sure(p, x, world)
        BY <2>1, QrAt
    <2>3. Real(x.prior, w) /\ Real(x.meta, w)
        BY <1>9, <2>2 DEF Sure, Real
    <2>4. x.pc = "resolve" => Since(x.prior, w)
        BY <1>3, <1>4, <1>9, <2>2 DEF Sure, Since
    <2>5. x.pc = "write" => x.fresh <= w.generation /\ x.fresh # w.generation
        BY <1>5, <1>9, <2>2 DEF Sure, Publications
    <2>6. x.pc = "committed" => w.edited \/ w.record = [x.meta EXCEPT !.target = x.target]
        BY <1>3, <1>9, <2>2 DEF Sure
    <2>7. x.pc \in Locked => w.lock = p
        BY <1>9, <2>2 DEF Sure
    <2>8. Sure(p, x, w)
        BY <2>2, <2>3, <2>4, <2>5, <2>6, <2>7 DEF Sure
    <2>9. QED
        BY <2>1, <2>8
<1>13. Tells(pubs, w)
    BY <1>1, <1>3, <1>9 DEF Tells
<1>14. ASSUME NEW p \in Publishers PROVE Leads(p, pubs[p], pubs, w)
    BY <1>9, QrAt DEF Leads
<1>15. PICK ps : ps = pubs /\ ps = pubs'
    BY <1>2
<1>16. PICK v : v = w /\ v = world'
    BY <1>10
<1>17. /\ ps \in [Publishers -> Publications] /\ v \in Worlds /\ Len(v.links) <= MaxLinks
       /\ Real(v.record, v) /\ Tells(ps, v)
       /\ \A p \in Publishers : Sure(p, ps[p], v) /\ Leads(p, ps[p], ps, v)
    BY <1>1, <1>9, <1>11, <1>12, <1>13, <1>14, <1>15, <1>16 DEF QrInv, QrSure, QrTyped
<1>18. QED
    BY <1>15, <1>16, <1>17 DEF QrInv, QrSure, QrTells, QrTyped

LEMMA QrStarting == Qr!Init => QrInv
<1>1. SUFFICES ASSUME Qr!Init PROVE QrInv
    OBVIOUS
<1>2. PICK service \in Services, target \in {Qr!FirstTarget}, state \in {"none", "legacy", "slug"} :
        world = [links |-> IF state = "none" THEN <<>>
                           ELSE <<[service |-> service, slugged |-> state = "slug",
                                   target |-> target]>>,
                 record |-> IF state = "none" THEN None
                            ELSE Qr!Record(service, state = "slug", 1, target),
                 generation |-> 0, edited |-> FALSE, lock |-> None]
    BY <1>1 DEF Qr!Init
<1>3. target \in Targets /\ pubs = [p \in Publishers |-> Qr!Idle]
    BY <1>1, <1>2, QrAssumed DEF Qr!Init, Qr!FirstTarget
<1>4. PICK slugged \in {TRUE, FALSE} : slugged <=> state = "slug"
    OBVIOUS
<1>5. PICK k : k = [service |-> service, slugged |-> state = "slug", target |-> target]
    OBVIOUS
<1>6. k \in ShortLinks /\ k.target = target
    BY <1>3, <1>5 DEF ShortLinks
<1>7. PICK m : m = [service |-> service, slugged |-> state = "slug", link |-> 1, target |-> target]
    OBVIOUS
<1>8. m \in Qr!Records /\ m.link = 1 /\ m.target = target
    BY <1>3, <1>7, QrAssumed DEF Qr!Records
<1>9. PICK links : links = IF state = "none" THEN <<>> ELSE <<k>>
    OBVIOUS
<1>10. /\ links \in Seq(ShortLinks) /\ Len(links) <= MaxLinks
       /\ state # "none" => Len(links) = 1 /\ links[1] = k
    BY <1>6, <1>9, QrAssumed
<1>11. PICK record : record = IF state = "none" THEN None ELSE m
    OBVIOUS
<1>12. world = [links |-> links, record |-> record, generation |-> 0, edited |-> FALSE,
                lock |-> None]
    BY <1>2, <1>5, <1>7, <1>9, <1>11 DEF Qr!Record
<1>13. /\ world \in Worlds /\ world.links = links /\ world.record = record
       /\ Real(world.record, world) /\ Tells(pubs, world)
    <2>1. world \in Worlds /\ world.links = links /\ world.record = record
        BY <1>8, <1>10, <1>11, <1>12 DEF Worlds
    <2>2. Real(record, world)
        BY <1>8, <1>10, <1>11, <2>1, QrAssumed DEF Real
    <2>3. Tells(pubs, world)
        BY <1>6, <1>8, <1>10, <1>11, <2>1 DEF Tells
    <2>4. QED
        BY <2>1, <2>2, <2>3
<1>14. PICK x : x = Qr!Idle
    OBVIOUS
<1>15. /\ x \in Publications /\ x.pc = "idle" /\ x.outcome = None /\ x.prior = None
       /\ x.meta = None /\ x.receipt = Qr!NoReceipt /\ x.effects = Qr!NoReceipt
    BY <1>14, NoReceiptTyped DEF Qr!Idle, Publications
<1>16. None \notin {"refused", "unfinalized"}
    BY QrAssumed DEF Qr!Outcomes
<1>17. ASSUME NEW p \in Publishers PROVE Sure(p, x, world) /\ Leads(p, x, pubs, world)
    BY <1>15, <1>16, QrAssumed DEF Sure, Leads, Real, Locked, Resolved
<1>18. pubs \in [Publishers -> Publications] /\ \A p \in Publishers : pubs[p] = x
    BY <1>3, <1>14, <1>15
<1>19. QED
    BY <1>10, <1>13, <1>17, <1>18 DEF QrInv, QrSure, QrTells, QrTyped

LEMMA QrPublishes ==
  ASSUME QrInv, NEW p \in Publishers, Qr!Publish(p) PROVE QrInv'
BY QrStarts, QrStartsPreresolved, QrLocks, QrReloads, QrPreresolved, QrReuses, QrUnlinked,
   QrUnconfigured, QrRetargets, QrCreatesRebrandly, QrCreatesBitly, QrBackHalf, QrWritesPngs,
   QrInserts, QrCommitReads, QrCommitWrites, QrFinishes, QrKilled DEF Qr!Publish

LEMMA QrNext == QrInv /\ [Qr!Next]_qr_vars => QrInv'
<1>1. SUFFICES ASSUME QrInv, [Qr!Next]_qr_vars PROVE QrInv'
    OBVIOUS
<1>2. CASE UNCHANGED qr_vars
    <2>1. PICK w, ps : w = world /\ w = world' /\ ps = pubs /\ ps = pubs'
        BY <1>2 DEF qr_vars
    <2>2. QED
        BY <1>1, <2>1 DEF QrInv, QrSure, QrTells, QrTyped
<1>3. CASE Qr!Next
    BY <1>1, <1>3, QrOthersCommit, QrPublishes DEF Qr!Next
<1>4. QED
    BY <1>1, <1>2, <1>3

(* What follows. *)
LEMMA QrReports == QrInv => Qr!ReceiptTrue /\ Qr!RecordTellsTarget
<1>1. SUFFICES ASSUME QrInv PROVE Qr!ReceiptTrue /\ Qr!RecordTellsTarget
    OBVIOUS
<1>2. Qr!ReceiptTrue
    BY <1>1, QrAt DEF Qr!ReceiptTrue, Sure
<1>3. Qr!Unsettled(world.record.link) <=> \E p \in Publishers : Open(pubs[p], world.record.link)
    BY DEF Qr!Unsettled, Open
<1>4. Qr!RecordTellsTarget
    BY <1>1, <1>3 DEF Qr!RecordTellsTarget, QrInv, QrTells, Tells
<1>5. QED
    BY <1>2, <1>4

LEMMA QrTypes == QrInv => Qr!TypeOK
<1>1. SUFFICES ASSUME QrInv PROVE Qr!TypeOK
    OBVIOUS
<1>2. world \in Worlds /\ \A p \in Publishers : pubs[p] \in Publications
    BY <1>1 DEF QrInv, QrSure, QrTyped
<1>3. QED
    BY <1>2 DEF Qr!TypeOK, Worlds, Publications, ShortLinks

(* A step moves one run. *)
LEMMA QrOneMoves ==
  ASSUME QrInv, Qr!Next, NEW p \in Publishers, pubs'[p].pc # pubs[p].pc
  PROVE  Qr!Publish(p)
<1>1. pubs \in [Publishers -> Publications]
    BY DEF QrInv, QrSure, QrTyped
<1>2. PICK q \in Publishers : Qr!Publish(q)
    BY DEF Qr!Next, Qr!OtherCommit
<1>3. PICK r : Qr!Upd(q, r)
    <2>1. \/ Qr!Start(q) \/ Qr!StartPreresolved(q) \/ Qr!Lock(q) \/ Qr!Reload(q)
          \/ Qr!Preresolved(q) \/ Qr!ReuseCached(q) \/ Qr!NoShortener(q) \/ Qr!Unconfigured(q)
          \/ Qr!Retarget(q) \/ Qr!CreateRebrandly(q) \/ Qr!CreateBitly(q) \/ Qr!BackHalf(q)
          \/ Qr!WritePngs(q) \/ Qr!InsertIntoDeck(q)
          \/ Qr!CommitRead(q) \/ Qr!CommitWrite(q) \/ Qr!Finish(q) \/ Qr!Killed(q)
        BY <1>2 DEF Qr!Publish
    <2>2. CASE Qr!Start(q)
        BY <2>2 DEF Qr!Start
    <2>3. CASE Qr!StartPreresolved(q)
        BY <2>3 DEF Qr!StartPreresolved
    <2>4. CASE Qr!Lock(q) \/ Qr!Reload(q) \/ Qr!Preresolved(q) \/ Qr!ReuseCached(q)
                 \/ Qr!NoShortener(q) \/ Qr!Unconfigured(q)
        BY <2>4 DEF Qr!Lock, Qr!Reload, Qr!End, Qr!Preresolved, Qr!ReuseCached,
                    Qr!NoShortener, Qr!Unconfigured
    <2>5. CASE Qr!Retarget(q)
        BY <2>5 DEF Qr!Retarget, Qr!End
    <2>6. CASE Qr!CreateRebrandly(q) \/ Qr!CreateBitly(q)
        BY <2>6 DEF Qr!CreateRebrandly, Qr!CreateBitly, Qr!End
    <2>7. CASE Qr!BackHalf(q)
        BY <2>7 DEF Qr!BackHalf
    <2>8. CASE Qr!WritePngs(q) \/ Qr!InsertIntoDeck(q)
        BY <2>8 DEF Qr!WritePngs, Qr!InsertIntoDeck, Qr!End
    <2>9. CASE Qr!CommitRead(q) \/ Qr!CommitWrite(q) \/ Qr!Finish(q) \/ Qr!Killed(q)
        BY <2>9 DEF Qr!CommitRead, Qr!CommitWrite, Qr!Finish, Qr!Killed, Qr!End
    <2>10. QED
        BY <2>1, <2>2, <2>3, <2>4, <2>5, <2>6, <2>7, <2>8, <2>9
<1>4. q # p => pubs'[p] = pubs[p]
    BY <1>1, <1>3 DEF Qr!Upd
<1>5. QED
    BY <1>2, <1>4

LEMMA QrKeepsDecision ==
  ASSUME QrInv, Qr!Next, NEW p \in Publishers, pubs[p].pc = "write", pubs'[p].pc = "committed"
  PROVE  world.record = pubs[p].prior
<1>1. Qr!Publish(p)
    BY QrOneMoves
<1>2. pubs[p] \in Publications /\ Sure(p, pubs[p], world)
      /\ pubs \in [Publishers -> Publications]
    BY QrAt DEF QrInv, QrSure, QrTyped
<1>3. Qr!CommitWrite(p) \/ Qr!Killed(p)
    BY <1>1, <1>2
       DEF Qr!Publish, Qr!At, Qr!Start, Qr!StartPreresolved, Qr!Lock, Qr!Reload, Qr!Preresolved,
           Qr!ReuseCached, Qr!NoShortener, Qr!Unconfigured, Qr!Retarget, Qr!CreateRebrandly,
           Qr!CreateBitly, Qr!MayCreate, Qr!BackHalf, Qr!WritePngs, Qr!InsertIntoDeck,
           Qr!CommitRead, Qr!Finish
<1>4. ~(\E o \in Qr!Outcomes : Qr!End(p, o))
    <2>1. SUFFICES ASSUME NEW o \in Qr!Outcomes, Qr!End(p, o) PROVE FALSE
        OBVIOUS
    <2>2. pubs'[p] = Qr!Ended(p, o)
        BY <1>2, <2>1 DEF Qr!End, Qr!Upd
    <2>3. pubs'[p].pc = "ended"
        BY <1>2, <2>2, QrEnded
    <2>4. QED
        BY <2>3
<1>5. world.generation = pubs[p].fresh
    BY <1>3, <1>4 DEF Qr!CommitWrite, Qr!Killed, Qr!Outcomes
<1>6. QED
    BY <1>2, <1>5 DEF Sure

(* A run that makes a link has found none to point. *)
LEMMA QrMakesOne ==
  ASSUME QrInv, Qr!Next, NEW p \in Publishers, pubs[p].pc = "resolve",
         Len(world'.links) > Len(world.links), pubs'[p].pc # "resolve",
         world.record # None, world.record.link # 0, world.record.slugged,
         world.record.service = pubs[p].service
  PROVE  FALSE
<1>1. Qr!Publish(p)
    BY QrOneMoves
<1>2. /\ pubs[p] \in Publications /\ Sure(p, pubs[p], world) /\ world \in Worlds
      /\ Len(world.links) \in Nat
    BY QrAt
<1>3. /\ Since(pubs[p].prior, world) /\ pubs[p].prior # None
      /\ pubs[p].prior.service = pubs[p].service /\ pubs[p].prior.slugged
    BY <1>2, QrAssumed DEF Sure, Since
<1>4. Qr!Existing(p) # None
    BY <1>3 DEF Qr!Existing
<1>5. ~Qr!MayCreate(p)
    BY <1>4 DEF Qr!MayCreate
<1>6. Qr!Unlocked(world, p).links = world.links
    BY <1>2, QrUnlocks
<1>7. \/ Qr!Reload(p) \/ Qr!Preresolved(p) \/ Qr!ReuseCached(p) \/ Qr!NoShortener(p)
      \/ Qr!Unconfigured(p) \/ Qr!Retarget(p) \/ Qr!Killed(p)
    BY <1>1, <1>5
       DEF Qr!Publish, Qr!At, Qr!Start, Qr!StartPreresolved, Qr!Lock, Qr!CreateRebrandly,
           Qr!CreateBitly, Qr!BackHalf, Qr!WritePngs, Qr!InsertIntoDeck,
           Qr!CommitRead, Qr!CommitWrite, Qr!Finish
<1>8. CASE ~Qr!Retarget(p)
    BY <1>2, <1>6, <1>7, <1>8
       DEF Qr!Reload, Qr!Preresolved, Qr!ReuseCached, Qr!NoShortener, Qr!Unconfigured,
           Qr!Killed, Qr!End
<1>9. CASE Qr!Retarget(p)
    <2>1. PICK w : w = [world EXCEPT !.links[Qr!Existing(p).link].target = pubs[p].target]
        OBVIOUS
    <2>2. PICK s : s = [world.links EXCEPT ![Qr!Existing(p).link].target = pubs[p].target]
        OBVIOUS
    <2>3. /\ pubs[p].service \in Services /\ pubs[p].service # "preresolved"
        BY <1>9, QrAssumed DEF Qr!Retarget
    <2>4. PICK k : k = Qr!Existing(p)
        OBVIOUS
    <2>5. k \in Qr!Records /\ Real(k, world) /\ k.service = pubs[p].service
        BY <1>4, <2>3, <2>4, QrExisting
    <2>6. PICK link \in 1 .. Len(world.links) : link = k.link
        BY <1>2, <2>3, <2>5, QrAssumed DEF Real, Qr!Records
    <2>7. PICK z : z = [world.links[link] EXCEPT !.target = pubs[p].target]
        OBVIOUS
    <2>8. s = [world.links EXCEPT ![link] = z]
        BY <2>2, <2>4, <2>6, <2>7
    <2>9. world.links \in Seq(ShortLinks) /\ world.links[link] \in ShortLinks
          /\ pubs[p].target \in Targets
        BY <1>2, <2>6 DEF Worlds, Sure
    <2>10. z \in ShortLinks
        BY <2>7, <2>9 DEF ShortLinks
    <2>11. s \in Seq(ShortLinks) /\ Len(s) = Len(world.links)
        BY <2>6, <2>8, <2>9, <2>10
    <2>12. w = [world EXCEPT !.links = s]
        BY <1>2, <2>1, <2>2 DEF Worlds
    <2>13. w \in Worlds /\ w.links = s
        BY <1>2, <2>11, <2>12, QrLinked
    <2>14. Qr!Unlocked(w, p).links = s
        BY <2>13, QrUnlocks
    <2>15. world' = w \/ world' = Qr!Unlocked(w, p) \/ world' = Qr!Unlocked(world, p)
        BY <1>9, <2>1 DEF Qr!Retarget, Qr!End
    <2>16. QED
        BY <1>2, <1>6, <2>11, <2>13, <2>14, <2>15
<1>10. QED
    BY <1>8, <1>9

-----------------------------------------------------------------------------
(* fetch-transcript.py                                                     *)

Bundles ==
  [text : Bundle!Texts \union {None}, timing : Bundle!Timings \union {None},
   quality : Bundle!Receipts \union {None}, recording : Recordings, local : BOOLEAN,
   take : Nat, changes : Nat]

Judgement == [quality : Bundle!Receipts]
Renewal ==
  [text : Bundle!Texts, quality : Bundle!Receipts, timing : Bundle!Timings \union {None}]
Backup ==
  [Bundle!Files -> Bundle!Texts \union Bundle!Timings \union Bundle!Receipts \union {None}]

Amends == <<"quality">>
Renews == <<"timing", "quality", "text">>

Fetches ==
  [pc : {"idle", "ended", "look", "judge", "acquire", "stage", "guard", "install", "rollback",
         "timing", "done"},
   runs : Nat, force : BOOLEAN, captions : BOOLEAN,
   claim : {"captions", "whisper", "manual", None},
   seen : Bundle!Texts \union {None}, receipt : Bundle!Receipts \union {None},
   known : Recordings \union {None}, take : Nat, plan : {<<>>, Amends, Renews},
   new : Judgement \union Renewal \union {None}, base : Backup \union {None}, at : Nat,
   timed : BOOLEAN, incomplete : BOOLEAN, alone : BOOLEAN,
   outcome : Bundle!Outcomes \union {None}]

(* What a receipt says of the text it names. *)
GoodReceipt(r) == r # None => Bundle!Fits(r.of, r.recording)
GoodTiming(t) ==
  t # None => IF t.source = "captions" THEN t.of.origin \in Bundle!Wording
              ELSE t.of.origin = t.recording

(* What an invocation is about to write is good, unless the recording was replaced since
   it began, which it will notice before it writes. *)
Prepared(x, b) ==
  /\ x.plan # Renews =>
       /\ x.seen \in Bundle!Texts /\ x.new \in Judgement
       /\ x.new.quality = [of |-> x.seen, recording |-> x.known]
       /\ Bundle!Fits(x.seen, x.known)
  /\ x.plan = Renews =>
       /\ x.new \in Renewal /\ ~x.timed
       /\ x.new.quality = [of |-> x.new.text, recording |-> x.known]
       /\ Bundle!Fits(x.new.text, x.known)
       /\ x.new.timing # None => x.new.timing.of = x.new.text
       /\ \/ x.pc \in {"stage", "guard"} /\ b.local /\ x.take # b.take
          \/ GoodTiming(x.new.timing)

(* The files an invocation found are its backups. *)
Backed(x) ==
  /\ x.base \in Backup /\ x.base["text"] \in Bundle!Texts \union {None}
  /\ x.base["timing"] \in Bundle!Timings \union {None}
  /\ x.base["quality"] \in Bundle!Receipts \union {None}
  /\ GoodReceipt(x.base["quality"]) /\ GoodTiming(x.base["timing"])

(* The text that was judged is there, and what is known of its receipts. *)
Judged(x, b) ==
  /\ x.plan # Renews =>
       /\ b.text = x.seen
       /\ x.plan = <<>> => Bundle!QualityVerifies(b)
       /\ (x.plan = Amends /\ Bundle!QualityVerifies(b)) => x.known # None
       /\ x.timed => Bundle!TimingVerifies(b)

Same(x, b, k) == b[k] = x.base[k]

(* What an invocation may rely on that has been alone with the bundle. *)
Alone(x, b) ==
  /\ x.pc = "judge" => b.text = x.seen
  /\ x.pc \in {"stage", "guard"} => Judged(x, b)
  /\ x.pc \in {"guard", "install", "rollback"} =>
       (x.plan = Renews /\ ~x.force => x.base["text"] = None)
  /\ x.pc = "guard" => \A k \in Bundle!Files : Same(x, b, k)
  /\ x.pc = "install" =>
       /\ x.plan = Amends => Judged(x, b) /\ \A k \in Bundle!Files : Same(x, b, k)
       /\ x.plan = Renews =>
            /\ Same(x, b, "text")
            /\ IF x.at = 1 THEN Same(x, b, "timing") ELSE b.timing = x.new.timing
            /\ IF x.at = 3 THEN b.quality = x.new.quality ELSE Same(x, b, "quality")
  /\ x.pc = "rollback" =>
       /\ Same(x, b, "text")
       /\ x.plan = Amends => Same(x, b, "quality") /\ Same(x, b, "timing")
       /\ x.at = 1 /\ ~x.incomplete => Same(x, b, "quality")
  /\ x.pc = "timing" =>
       /\ b.text = x.seen /\ Bundle!QualityVerifies(b)
       /\ x.timed => Bundle!TimingVerifies(b)
  /\ x.pc = "done" \/ x.outcome = "ok" =>
       /\ Bundle!QualityVerifies(b)
       /\ x.timed => Bundle!TimingVerifies(b)
  /\ x.pc = "done" /\ x.plan = Renews /\ x.new.timing # None => Bundle!TimingVerifies(b)
  /\ x.outcome = "failed" /\ ~x.incomplete => \A k \in Bundle!Files : Same(x, b, k)

(* What any invocation may rely on. *)
Steady(x, b) ==
  /\ x.pc # "ended" => x.outcome = None
  /\ x.pc \notin {"idle", "ended"} =>
       /\ x.take <= b.take
       /\ b.local /\ x.take = b.take => x.known = b.recording
  /\ x.pc \in {"look", "judge", "acquire"} => ~x.timed
  /\ x.pc = "judge" => x.seen \in Bundle!Texts
  /\ x.pc \in {"stage", "guard", "install", "rollback", "timing", "done"} => Prepared(x, b)
  /\ x.pc \in {"guard", "install", "rollback"} => Backed(x)
  /\ x.pc \in {"install", "rollback"} =>
       \/ x.plan = Amends /\ x.at = 1
       \/ x.plan = Renews /\ x.at \in {1, 2, 3}
  /\ x.pc = "timing" => x.plan # Renews
  /\ x.alone => Alone(x, b)

BundleTyped ==
  /\ bundle \in Bundles /\ GoodReceipt(bundle.quality) /\ GoodTiming(bundle.timing)
  /\ fetchers \in [Fetchers -> Fetches]

BundleInv == BundleTyped /\ \A f \in Fetchers : Steady(fetchers[f], bundle)

LEMMA BundleAssumed ==
  /\ None \notin Fetchers /\ None \notin Bundle!Texts /\ None \notin Bundle!Receipts
  /\ None \notin Bundle!Timings /\ None \notin Bundle!Outcomes
  /\ Tracks \subseteq {"few", "many", "huge"} /\ Recordings \subseteq {"short", "long", "recut"}
BY ToolAssumptions DEF Bundle!Assumptions

LEMMA PlansDiffer ==
  /\ Amends # Renews /\ Amends # <<>> /\ Renews # <<>>
  /\ Len(Amends) = 1 /\ Len(Renews) = 3 /\ Len(<<>>) = 0
  /\ Amends[1] = "quality" /\ Renews[1] = "timing" /\ Renews[2] = "quality" /\ Renews[3] = "text"
<1>1. Len(Amends) = 1 /\ Len(Renews) = 3 /\ Len(<<>>) = 0
    BY DEF Amends, Renews
<1>2. Amends # Renews /\ Amends # <<>> /\ Renews # <<>>
    BY <1>1
<1>3. Amends[1] = "quality" /\ Renews[1] = "timing" /\ Renews[2] = "quality" /\ Renews[3] = "text"
    BY DEF Amends, Renews
<1>4. QED
    BY <1>1, <1>2, <1>3

LEMMA BundleAt ==
  ASSUME BundleInv, NEW f \in Fetchers
  PROVE  /\ bundle \in Bundles /\ GoodReceipt(bundle.quality) /\ GoodTiming(bundle.timing)
         /\ fetchers[f] \in Fetches /\ Steady(fetchers[f], bundle)
BY DEF BundleInv, BundleTyped

(* A step that writes no file. *)
LEMMA FetchQuiet ==
  ASSUME BundleInv, NEW f \in Fetchers, NEW r \in Fetches,
         Bundle!Upd(f, r), UNCHANGED bundle, Steady(r, bundle)
  PROVE  BundleInv'
<1>1. PICK b : b = bundle /\ b = bundle'
    OBVIOUS
<1>2. /\ fetchers' \in [Fetchers -> Fetches] /\ fetchers'[f] = r
      /\ \A g \in Fetchers \ {f} : fetchers'[g] = fetchers[g]
    BY DEF BundleInv, BundleTyped, Bundle!Upd
<1>3. PICK s : s = fetchers'
    OBVIOUS
<1>4. ASSUME NEW g \in Fetchers PROVE Steady(s[g], b)
    <2>1. CASE g = f
        BY <1>1, <1>2, <1>3, <2>1
    <2>2. CASE g # f
        <3>1. PICK x : x = fetchers[g] /\ x = s[g]
            BY <1>2, <1>3, <2>2
        <3>2. QED
            BY <1>1, <3>1, BundleAt
    <2>3. QED
        BY <2>1, <2>2
<1>5. b \in Bundles /\ GoodReceipt(b.quality) /\ GoodTiming(b.timing)
    BY <1>1, BundleAt
<1>6. QED
    BY <1>1, <1>2, <1>3, <1>4, <1>5 DEF BundleInv, BundleTyped

(* What others rely on when the bundle becomes b. *)
LEMMA OthersSteady ==
  ASSUME BundleInv, NEW b \in Bundles, NEW g \in Fetchers, NEW y,
         y = [fetchers[g] EXCEPT !.alone = @ /\ (b = bundle \/ Bundle!At(g, "idle"))],
         b.local = bundle.local, bundle.take <= b.take,
         b.take = bundle.take => b.recording = bundle.recording
  PROVE  /\ y \in Fetches /\ Steady(y, b) /\ y.pc = fetchers[g].pc
         /\ b # bundle /\ y.pc # "idle" => ~y.alone
<1>1. PICK x : x = fetchers[g]
    OBVIOUS
<1>2. /\ x \in Fetches /\ Steady(x, bundle) /\ bundle \in Bundles
    BY <1>1, BundleAt
<1>3. PICK e \in BOOLEAN : e = (x.alone /\ (b = bundle \/ x.pc = "idle"))
    OBVIOUS
<1>4. y = [x EXCEPT !.alone = e]
    BY <1>1, <1>3 DEF Bundle!At
<1>5. /\ y \in Fetches /\ y.pc = x.pc /\ y.alone = e /\ y.outcome = x.outcome
      /\ y.take = x.take /\ y.known = x.known /\ y.timed = x.timed /\ y.seen = x.seen
      /\ y.plan = x.plan /\ y.new = x.new /\ y.base = x.base /\ y.at = x.at
      /\ y.force = x.force /\ y.incomplete = x.incomplete
    BY <1>2, <1>4 DEF Fetches
<1>6. b.take \in Nat /\ bundle.take \in Nat /\ x.take \in Nat
    BY <1>2 DEF Bundles, Fetches
<1>7. x.pc \in {"stage", "guard", "install", "rollback", "timing", "done"} => Prepared(y, b)
    BY <1>2, <1>5, <1>6 DEF Steady, Prepared
<1>8. x.pc \in {"guard", "install", "rollback"} => Backed(y)
    BY <1>2, <1>5 DEF Steady, Backed
<1>9. x.pc = "idle" /\ x.alone => Alone(y, b)
    BY <1>2, <1>5, BundleAssumed DEF Steady, Alone, Bundle!Outcomes
<1>10. b = bundle /\ x.alone => Alone(y, b)
    BY <1>2, <1>5 DEF Steady, Alone, Judged, Same
<1>11. e => Alone(y, b)
    BY <1>3, <1>9, <1>10
<1>12. x.pc \notin {"idle", "ended"} =>
         y.take <= b.take /\ (b.local /\ y.take = b.take => y.known = b.recording)
    BY <1>2, <1>5, <1>6 DEF Steady
<1>13. Steady(y, b)
    BY <1>2, <1>5, <1>7, <1>8, <1>11, <1>12 DEF Steady
<1>14. QED
    BY <1>1, <1>3, <1>5, <1>13

(* A step that writes one. *)
LEMMA FetchWrites ==
  ASSUME BundleInv, NEW f \in Fetchers, NEW r \in Fetches, NEW b \in Bundles,
         Bundle!Write(f, r, b), Steady(r, b), GoodReceipt(b.quality), GoodTiming(b.timing),
         b.local = bundle.local, b.take = bundle.take, b.recording = bundle.recording
  PROVE  BundleInv'
<1>1. PICK c : c = b /\ c = bundle'
    BY DEF Bundle!Write
<1>2. PICK s : s = fetchers'
    OBVIOUS
<1>3. s = [g \in Fetchers |->
             IF g = f THEN r
             ELSE [fetchers[g] EXCEPT !.alone = @ /\ (b = bundle \/ Bundle!At(g, "idle"))]]
    BY <1>2 DEF Bundle!Write
<1>4. bundle.take \in Nat /\ b.take \in Nat
    BY BundleAt DEF Bundles
<1>5. ASSUME NEW g \in Fetchers PROVE s[g] \in Fetches /\ Steady(s[g], c)
    <2>1. CASE g = f
        BY <1>1, <1>3, <2>1
    <2>2. CASE g # f
        <3>1. PICK y : y = s[g]
            OBVIOUS
        <3>2. y = [fetchers[g] EXCEPT !.alone = @ /\ (b = bundle \/ Bundle!At(g, "idle"))]
            BY <1>3, <2>2, <3>1
        <3>3. y \in Fetches /\ Steady(y, b)
            BY <1>4, <3>2, OthersSteady
        <3>4. QED
            BY <1>1, <3>1, <3>3
    <2>3. QED
        BY <2>1, <2>2
<1>6. s \in [Fetchers -> Fetches]
    BY <1>3, <1>5
<1>7. QED
    BY <1>1, <1>2, <1>5, <1>6 DEF BundleInv, BundleTyped

(* The owner at work. *)
LEMMA OwnerChanges ==
  ASSUME BundleInv, Bundle!Change PROVE BundleInv'
<1>1. /\ bundle \in Bundles /\ GoodReceipt(bundle.quality) /\ GoodTiming(bundle.timing)
    BY DEF BundleInv, BundleTyped
<1>2. PICK text \in Bundle!Edited(bundle.text), recording \in Recordings :
        Bundle!Write(None, Bundle!Idle,
          [bundle EXCEPT !.text = text, !.recording = recording, !.changes = @ + 1,
                         !.take = IF recording = bundle.recording THEN @ ELSE @ + 1])
    BY DEF Bundle!Change
<1>3. text \in Bundle!Texts \union {None}
    <2>1. PICK old \in Bundle!Texts \union {None} : old = bundle.text
        BY <1>1 DEF Bundles
    <2>2. /\ Bundle!Text("owner", "many") \in Bundle!Texts
        BY DEF Bundle!Text, Bundle!Texts
    <2>3. ASSUME NEW t \in {u \in {old} \ {None} : u.origin \in Bundle!Wording}
          PROVE  Bundle!Text("reflowed", t.size) \in Bundle!Texts
        BY <2>1, <2>3 DEF Bundle!Text, Bundle!Texts, Bundle!Wording
    <2>4. QED
        BY <1>2, <2>1, <2>2, <2>3 DEF Bundle!Edited
<1>4. PICK take \in Nat : /\ take = IF recording = bundle.recording THEN bundle.take
                                    ELSE bundle.take + 1
    BY <1>1 DEF Bundles
<1>5. PICK changes \in Nat : changes = bundle.changes + 1
    BY <1>1 DEF Bundles
<1>6. PICK b : b = [bundle EXCEPT !.text = text, !.recording = recording, !.changes = changes,
                                  !.take = take]
    OBVIOUS
<1>7. /\ b \in Bundles /\ b.local = bundle.local /\ bundle.take <= b.take
      /\ b.take = bundle.take => b.recording = bundle.recording
      /\ b.quality = bundle.quality /\ b.timing = bundle.timing
    <2>1. /\ b \in Bundles /\ b.local = bundle.local /\ b.take = take
          /\ b.recording = recording
          /\ b.quality = bundle.quality /\ b.timing = bundle.timing
        BY <1>1, <1>2, <1>3, <1>4, <1>5, <1>6 DEF Bundles
    <2>2. bundle.take \in Nat
        BY <1>1 DEF Bundles
    <2>3. QED
        BY <1>4, <2>1, <2>2
<1>8. Bundle!Write(None, Bundle!Idle, b)
    BY <1>2, <1>4, <1>5, <1>6
<1>9. PICK c : c = b /\ c = bundle'
    BY <1>8 DEF Bundle!Write
<1>10. PICK s : s = fetchers'
    OBVIOUS
<1>11. s = [g \in Fetchers |->
              IF g = None THEN Bundle!Idle
              ELSE [fetchers[g] EXCEPT !.alone = @ /\ (b = bundle \/ Bundle!At(g, "idle"))]]
    BY <1>8, <1>10 DEF Bundle!Write
<1>12. ASSUME NEW g \in Fetchers PROVE s[g] \in Fetches /\ Steady(s[g], c)
    <2>1. PICK y : y = s[g]
        OBVIOUS
    <2>2. y = [fetchers[g] EXCEPT !.alone = @ /\ (b = bundle \/ Bundle!At(g, "idle"))]
        BY <1>11, <2>1, BundleAssumed
    <2>3. y \in Fetches /\ Steady(y, b)
        BY <1>7, <2>2, OthersSteady
    <2>4. QED
        BY <1>9, <2>1, <2>3
<1>13. s \in [Fetchers -> Fetches]
    BY <1>11, <1>12
<1>14. QED
    BY <1>1, <1>7, <1>9, <1>10, <1>12, <1>13 DEF BundleInv, BundleTyped

LEMMA IdleTyped ==
  /\ Bundle!Idle \in Fetches /\ Bundle!Idle.pc = "idle" /\ Bundle!Idle.outcome = None
  /\ Bundle!Idle.alone /\ ~Bundle!Idle.timed /\ Bundle!Idle.plan = <<>>
  /\ ~Bundle!Idle.incomplete
BY DEF Bundle!Idle, Fetches

(* An invocation ends. *)
LEMMA FetchEnded ==
  ASSUME NEW f \in Fetchers, fetchers[f] \in Fetches, NEW o \in Bundle!Outcomes, NEW r,
         r = Bundle!End(f, o)
  PROVE  /\ r \in Fetches /\ r.pc = "ended" /\ r.outcome = o /\ r.alone = fetchers[f].alone
         /\ r.timed <=> (o = "ok" /\ fetchers[f].timed)
         /\ r.incomplete = fetchers[f].incomplete
         /\ o = "failed" => r.base = fetchers[f].base
<1>1. PICK x : x = fetchers[f]
    OBVIOUS
<1>2. PICK timed : timed = (o = "ok" /\ x.timed)
    OBVIOUS
<1>3. PICK base : base = IF o = "failed" THEN x.base ELSE None
    OBVIOUS
<1>4. x \in Fetches /\ timed \in BOOLEAN /\ base \in Backup \union {None}
    BY <1>1, <1>2, <1>3 DEF Fetches
<1>5. r = [Bundle!Idle EXCEPT !.pc = "ended", !.runs = x.runs, !.outcome = o, !.alone = x.alone,
                              !.timed = timed, !.incomplete = x.incomplete, !.base = base]
    BY <1>1, <1>2, <1>3 DEF Bundle!End
<1>6. PICK i : i = Bundle!Idle
    OBVIOUS
<1>7. i \in Fetches
    BY <1>6, IdleTyped
<1>8. r = [i EXCEPT !.pc = "ended", !.runs = x.runs, !.outcome = o, !.alone = x.alone,
                    !.timed = timed, !.incomplete = x.incomplete, !.base = base]
    BY <1>5, <1>6
<1>a. /\ x.runs \in Nat /\ x.alone \in BOOLEAN /\ x.incomplete \in BOOLEAN
    BY <1>4 DEF Fetches
<1>b. /\ r.pc = "ended" /\ r.outcome = o /\ r.alone = x.alone
      /\ r.timed = timed /\ r.incomplete = x.incomplete /\ r.base = base
    BY <1>7, <1>8 DEF Fetches
<1>c. r \in Fetches
    <2>1. PICK a : a = [i EXCEPT !.pc = "ended"]
        OBVIOUS
    <2>2. a \in Fetches
        BY <1>7, <2>1 DEF Fetches
    <2>3. PICK b : b = [a EXCEPT !.runs = x.runs]
        OBVIOUS
    <2>4. b \in Fetches
        BY <2>2, <2>3, <1>a DEF Fetches
    <2>5. PICK c : c = [b EXCEPT !.outcome = o]
        OBVIOUS
    <2>6. c \in Fetches
        BY <2>4, <2>5 DEF Fetches
    <2>7. PICK d : d = [c EXCEPT !.alone = x.alone]
        OBVIOUS
    <2>8. d \in Fetches
        BY <2>6, <2>7, <1>a DEF Fetches
    <2>9. PICK e : e = [d EXCEPT !.timed = timed]
        OBVIOUS
    <2>10. e \in Fetches
        BY <2>8, <2>9, <1>4 DEF Fetches
    <2>11. PICK g : g = [e EXCEPT !.incomplete = x.incomplete]
        OBVIOUS
    <2>12. g \in Fetches
        BY <2>10, <2>11, <1>a DEF Fetches
    <2>13. r = [g EXCEPT !.base = base]
        BY <1>8, <2>1, <2>3, <2>5, <2>7, <2>9, <2>11
    <2>14. QED
        BY <1>4, <2>12, <2>13 DEF Fetches
<1>9. /\ r \in Fetches /\ r.pc = "ended" /\ r.outcome = o /\ r.alone = x.alone
      /\ r.timed = timed /\ r.incomplete = x.incomplete /\ r.base = base
    BY <1>b, <1>c
<1>10. QED
    BY <1>1, <1>2, <1>3, <1>9

LEMMA FetchEnds ==
  ASSUME BundleInv, NEW f \in Fetchers, NEW o \in {"refused", "killed"},
         Bundle!Upd(f, Bundle!End(f, o)), UNCHANGED bundle
  PROVE  BundleInv'
<1>1. PICK r : r = Bundle!End(f, o)
    OBVIOUS
<1>2. r \in Fetches /\ r.pc = "ended" /\ r.outcome = o
    BY <1>1, BundleAt, FetchEnded DEF Bundle!Outcomes
<1>3. Steady(r, bundle)
    BY <1>2 DEF Steady, Alone
<1>4. QED
    BY <1>1, <1>2, <1>3, FetchQuiet

LEMMA FetchStarts ==
  ASSUME BundleInv, NEW f \in Fetchers, Bundle!Start(f) PROVE BundleInv'
<1>1. bundle \in Bundles /\ fetchers[f] \in Fetches
    BY BundleAt
<1>2. PICK force \in BOOLEAN, captions \in BOOLEAN, claim \in {"captions", "whisper", "manual"} :
        Bundle!Upd(f, [Bundle!Idle EXCEPT
                    !.pc = "look", !.runs = fetchers[f].runs + 1, !.force = force,
                    !.captions = captions, !.claim = claim,
                    !.known = IF bundle.local THEN bundle.recording ELSE None,
                    !.take = bundle.take])
    BY DEF Bundle!Start
<1>3. PICK runs \in Nat : runs = fetchers[f].runs + 1
    BY <1>1 DEF Fetches
<1>4. PICK known \in Recordings \union {None} :
        known = IF bundle.local THEN bundle.recording ELSE None
    BY <1>1 DEF Bundles
<1>5. PICK take \in Nat : take = bundle.take
    BY <1>1 DEF Bundles
<1>6. PICK i : i = Bundle!Idle
    OBVIOUS
<1>7. i \in Fetches /\ i.outcome = None /\ ~i.timed
    BY <1>6, IdleTyped
<1>8. PICK r : r = [i EXCEPT !.pc = "look", !.runs = runs, !.force = force,
                    !.captions = captions, !.claim = claim, !.known = known, !.take = take]
    OBVIOUS
<1>a. PICK y : y = [i EXCEPT !.pc = "look", !.runs = runs,
                    !.claim = claim, !.known = known, !.take = take]
    OBVIOUS
<1>b. y \in Fetches
    <2>1. claim \in {"captions", "whisper", "manual", None}
        BY <1>2
    <2>2. runs \in Nat /\ take \in Nat /\ known \in Recordings \union {None}
        BY <1>3, <1>4, <1>5
    <2>3. i \in Fetches
        BY <1>7
    <2>4. QED
        BY <1>a, <2>1, <2>2, <2>3 DEF Fetches
<1>c. PICK z : z = [y EXCEPT !.force = force]
    OBVIOUS
<1>d. z \in Fetches
    BY <1>2, <1>b, <1>c DEF Fetches
<1>e. r = [z EXCEPT !.captions = captions]
    BY <1>7, <1>8, <1>a, <1>c DEF Fetches
<1>f. r \in Fetches
    BY <1>2, <1>d, <1>e DEF Fetches
<1>9. r \in Fetches /\ r.pc = "look" /\ r.known = known /\ r.take = take /\ r.outcome = None
      /\ ~r.timed
    BY <1>7, <1>8, <1>f DEF Fetches
<1>10. Bundle!Upd(f, r)
    BY <1>2, <1>3, <1>4, <1>5, <1>6, <1>8
<1>11. Steady(r, bundle)
    BY <1>4, <1>5, <1>9, BundleAssumed DEF Steady, Alone, Bundle!Outcomes
<1>12. QED
    BY <1>9, <1>10, <1>11, FetchQuiet DEF Bundle!Start

LEMMA FetchLooks ==
  ASSUME BundleInv, NEW f \in Fetchers, Bundle!LookForText(f) PROVE BundleInv'
<1>1. /\ bundle \in Bundles /\ fetchers[f] \in Fetches /\ Steady(fetchers[f], bundle)
      /\ fetchers[f].pc = "look"
    BY BundleAt DEF Bundle!LookForText, Bundle!At
<1>2. PICK x : x = fetchers[f]
    OBVIOUS
<1>3. x.outcome = None /\ None \notin {"ok", "failed"}
    BY <1>1, <1>2, BundleAssumed DEF Steady, Bundle!Outcomes
<1>4. CASE bundle.text # None /\ ~x.force
    <2>1. PICK text \in Bundle!Texts : text = bundle.text
        BY <1>1, <1>4 DEF Bundles
    <2>2. PICK r : r = [x EXCEPT !.pc = "judge", !.seen = text]
        OBVIOUS
    <2>3. /\ r \in Fetches /\ r.pc = "judge" /\ r.seen = text /\ r.outcome = x.outcome
          /\ r.take = x.take /\ r.known = x.known /\ r.timed = x.timed
        BY <1>1, <1>2, <2>2 DEF Fetches
    <2>4. Bundle!Upd(f, r)
        BY <1>2, <1>4, <2>1, <2>2 DEF Bundle!LookForText, Bundle!Goto
    <2>5. Steady(r, bundle)
        BY <1>1, <1>2, <1>3, <2>1, <2>3 DEF Steady, Alone
    <2>6. QED
        BY <2>3, <2>4, <2>5, FetchQuiet DEF Bundle!LookForText
<1>5. CASE ~(bundle.text # None /\ ~x.force)
    <2>1. PICK r : r = [x EXCEPT !.pc = "acquire"]
        OBVIOUS
    <2>2. /\ r \in Fetches /\ r.pc = "acquire" /\ r.outcome = x.outcome
          /\ r.take = x.take /\ r.known = x.known /\ r.timed = x.timed
        BY <1>1, <1>2, <2>1 DEF Fetches
    <2>3. Bundle!Upd(f, r)
        BY <1>2, <1>5, <2>1 DEF Bundle!LookForText, Bundle!Goto
    <2>4. Steady(r, bundle)
        BY <1>1, <1>2, <1>3, <2>2 DEF Steady, Alone
    <2>5. QED
        BY <2>2, <2>3, <2>4, FetchQuiet DEF Bundle!LookForText
<1>6. QED
    BY <1>4, <1>5

(* The text that is there, judged by what is known now. *)
LEMMA FetchJudges ==
  ASSUME BundleInv, NEW f \in Fetchers, Bundle!Judge(f) PROVE BundleInv'
<1>1. /\ bundle \in Bundles /\ fetchers[f] \in Fetches /\ Steady(fetchers[f], bundle)
      /\ fetchers[f].pc = "judge"
    BY BundleAt DEF Bundle!Judge, Bundle!At
<1>2. PICK x : x = fetchers[f]
    OBVIOUS
<1>3. x \in Fetches /\ Steady(x, bundle) /\ x.pc = "judge"
    BY <1>1, <1>2
<1>4. PICK receipt : receipt = Bundle!VerifiedReceipt
    OBVIOUS
<1>5. PICK known \in IF bundle.local \/ Bundle!NeedsProbe(f, receipt) THEN Bundle!Probed(f)
                     ELSE {None} :
        Bundle!Upd(f,
          IF ~Bundle!Fits(x.seen, known) THEN Bundle!End(f, "refused")
          ELSE [[x EXCEPT !.known = known, !.receipt = receipt,
                   !.timed = bundle.local /\ Bundle!TimingOwned(f),
                   !.plan = IF Bundle!Keeps(receipt, known) THEN <<>> ELSE <<"quality">>,
                   !.new = [quality |-> Bundle!Receipt(x.seen, known)]] EXCEPT !.pc = "stage"])
    BY <1>2, <1>4 DEF Bundle!Judge
<1>6. known \in Recordings \union {None} /\ (bundle.local => known = x.known)
    BY <1>1, <1>2, <1>5 DEF Bundle!Probed, Bundles, Fetches
<1>7. receipt \in Bundle!Receipts \union {None}
    BY <1>1, <1>4 DEF Bundle!VerifiedReceipt, Bundles
<1>8. CASE ~Bundle!Fits(x.seen, known)
    BY <1>5, <1>8, FetchEnds DEF Bundle!Judge
<1>9. CASE Bundle!Fits(x.seen, known)
    <2>1. PICK q : q = [of |-> x.seen, recording |-> known]
        OBVIOUS
    <2>2. x.seen \in Bundle!Texts
        BY <1>3 DEF Steady
    <2>3. q \in Bundle!Receipts
        BY <1>6, <2>1, <2>2 DEF Bundle!Receipts
    <2>4. PICK n : n = [quality |-> q]
        OBVIOUS
    <2>5. n \in Judgement /\ n.quality = q
        BY <2>3, <2>4 DEF Judgement
    <2>6. PICK plan : plan = IF Bundle!Keeps(receipt, known) THEN <<>> ELSE <<"quality">>
        OBVIOUS
    <2>7. plan \in {<<>>, Amends, Renews} /\ plan # Renews
        BY <2>6, PlansDiffer DEF Amends
    <2>8. PICK timed : timed = (bundle.local /\ Bundle!TimingOwned(f))
        OBVIOUS
    <2>9. timed \in BOOLEAN /\ (timed => Bundle!TimingVerifies(bundle))
        BY <2>8 DEF Bundle!TimingOwned
    <2>10. PICK r : r = [x EXCEPT !.known = known, !.receipt = receipt, !.timed = timed,
                          !.plan = plan, !.new = n, !.pc = "stage"]
        OBVIOUS
    <2>11. /\ r \in Fetches /\ r.pc = "stage" /\ r.known = known /\ r.timed = timed
           /\ r.plan = plan /\ r.new = n /\ r.take = x.take /\ r.outcome = x.outcome
           /\ r.seen = x.seen /\ r.alone = x.alone
        <3>a. PICK y : y = [x EXCEPT !.known = known, !.receipt = receipt,
                          !.plan = plan, !.new = n, !.pc = "stage"]
            OBVIOUS
        <3>b. y \in Fetches
            BY <1>3, <1>6, <1>7, <2>5, <2>7, <3>a DEF Fetches
        <3>c. r = [y EXCEPT !.timed = timed]
            BY <1>3, <2>10, <3>a DEF Fetches
        <3>1. r \in Fetches
            BY <2>9, <3>b, <3>c DEF Fetches
        <3>2. /\ r.pc = "stage" /\ r.known = known /\ r.timed = timed
              /\ r.plan = plan /\ r.new = n /\ r.take = x.take /\ r.outcome = x.outcome
              /\ r.seen = x.seen /\ r.alone = x.alone
            BY <1>3, <2>10 DEF Fetches
        <3>3. QED
            BY <3>1, <3>2
    <2>12. Bundle!Upd(f, r)
        BY <1>3, <1>5, <1>9, <2>1, <2>4, <2>6, <2>8, <2>10 DEF Bundle!Receipt, Fetches
    <2>13. Prepared(r, bundle)
        BY <1>9, <2>1, <2>2, <2>5, <2>7, <2>11 DEF Prepared
    <2>14. /\ plan = <<>> => Bundle!QualityVerifies(bundle)
           /\ plan = Amends /\ Bundle!QualityVerifies(bundle) => known # None
        <3>1. receipt # None => Bundle!QualityVerifies(bundle)
            BY <1>4 DEF Bundle!VerifiedReceipt
        <3>2. Bundle!QualityVerifies(bundle) => receipt # None
            BY <1>4 DEF Bundle!VerifiedReceipt, Bundle!QualityVerifies
        <3>3. QED
            BY <2>6, <3>1, <3>2, PlansDiffer DEF Bundle!Keeps, Amends
    <2>15. x.outcome = None /\ None \notin {"ok", "failed"}
        BY <1>3, BundleAssumed DEF Steady, Bundle!Outcomes
    <2>16. r.alone => Judged(r, bundle)
        BY <1>3, <2>9, <2>11, <2>14 DEF Steady, Alone, Judged
    <2>17. Steady(r, bundle)
        BY <1>3, <1>6, <2>11, <2>13, <2>15, <2>16 DEF Steady, Alone
    <2>18. QED
        BY <2>11, <2>12, <2>17, FetchQuiet DEF Bundle!Judge
<1>10. QED
    BY <1>8, <1>9

(* A text that was fetched or transcribed. *)
LEMMA FetchRenews ==
  ASSUME BundleInv, NEW f \in Fetchers, fetchers[f].pc = "acquire",
         NEW text \in Bundle!Texts, NEW source \in {"captions", "whisper"},
         NEW known \in Recordings \union {None}, NEW timed \in BOOLEAN,
         Bundle!Fits(text, known), bundle.local => known = fetchers[f].known,
         source = "captions" => text.origin \in Bundle!Wording,
         source = "whisper" => text.origin = bundle.recording,
         ~bundle.local /\ source = "whisper" => known = bundle.recording,
         Bundle!Upd(f, Bundle!New(f, text, source, known, timed)), UNCHANGED bundle
  PROVE  BundleInv'
<1>1. PICK x : x = fetchers[f]
    OBVIOUS
<1>2. /\ bundle \in Bundles /\ x \in Fetches /\ Steady(x, bundle) /\ x.pc = "acquire"
    BY <1>1, BundleAt
<1>3. PICK q : q = [of |-> text, recording |-> known]
    OBVIOUS
<1>4. q \in Bundle!Receipts
    BY <1>3 DEF Bundle!Receipts
<1>5. PICK t : t = IF timed /\ known # None
                   THEN [of |-> text, source |-> source, recording |-> known] ELSE None
    OBVIOUS
<1>6. /\ t \in Bundle!Timings \union {None}
      /\ t # None => t.of = text /\ t.source = source /\ t.recording = known
    BY <1>5, BundleAssumed DEF Bundle!Timings
<1>7. PICK n : n = [text |-> text, quality |-> q, timing |-> t]
    OBVIOUS
<1>8. n \in Renewal /\ n.text = text /\ n.quality = q /\ n.timing = t
    BY <1>4, <1>6, <1>7 DEF Renewal
<1>9. PICK r : r = [x EXCEPT !.pc = "stage", !.captions = FALSE, !.claim = None,
                             !.known = known, !.plan = Renews, !.new = n]
    OBVIOUS
<1>10. /\ r \in Fetches /\ r.pc = "stage" /\ r.known = known /\ r.plan = Renews /\ r.new = n
       /\ r.take = x.take /\ r.outcome = x.outcome /\ r.timed = x.timed
    BY <1>2, <1>8, <1>9 DEF Fetches
<1>11. Bundle!Upd(f, r)
    BY <1>1, <1>3, <1>5, <1>7, <1>9
       DEF Bundle!New, Bundle!Goto, Bundle!Receipt, Bundle!Timing, Renews
<1>12. /\ x.outcome = None /\ None \notin {"ok", "failed"} /\ ~x.timed
       /\ bundle.local /\ x.take = bundle.take => x.known = bundle.recording
       /\ x.take <= bundle.take
    BY <1>2, BundleAssumed DEF Steady, Bundle!Outcomes
<1>13. (bundle.local /\ x.take # bundle.take) \/ GoodTiming(t)
    BY <1>1, <1>6, <1>12 DEF GoodTiming
<1>14. Prepared(r, bundle)
    BY <1>3, <1>6, <1>8, <1>10, <1>12, <1>13 DEF Prepared
<1>15. Steady(r, bundle)
    BY <1>1, <1>10, <1>12, <1>14 DEF Steady, Alone, Judged
<1>16. QED
    BY <1>10, <1>11, <1>15, FetchQuiet

LEMMA FetchGetsCaptions ==
  ASSUME BundleInv, NEW f \in Fetchers, Bundle!FetchCaptions(f) PROVE BundleInv'
<1>1. /\ bundle \in Bundles /\ fetchers[f] \in Fetches /\ fetchers[f].pc = "acquire"
      /\ ~bundle.local
    BY BundleAt DEF Bundle!FetchCaptions, Bundle!At
<1>2. PICK known \in Bundle!Probed(f), size \in Tracks, timed \in BOOLEAN :
        /\ Bundle!Fits(Bundle!Text("captions", size), known)
        /\ Bundle!Upd(f, Bundle!New(f, Bundle!Text("captions", size), "captions", known, timed))
    BY DEF Bundle!FetchCaptions
<1>3. known \in Recordings \union {None}
    BY <1>1, <1>2 DEF Bundle!Probed, Bundles
<1>4. PICK text : text = Bundle!Text("captions", size)
    OBVIOUS
<1>5. text \in Bundle!Texts /\ text.origin \in Bundle!Wording
    BY <1>2, <1>4, BundleAssumed DEF Bundle!Text, Bundle!Texts, Bundle!Wording
<1>6. "captions" # "whisper"
    OBVIOUS
<1>7. QED
    BY <1>1, <1>2, <1>3, <1>4, <1>5, FetchRenews DEF Bundle!FetchCaptions

LEMMA FetchTranscribes ==
  ASSUME BundleInv, NEW f \in Fetchers, Bundle!Transcribe(f) PROVE BundleInv'
<1>1. /\ bundle \in Bundles /\ fetchers[f] \in Fetches /\ fetchers[f].pc = "acquire"
    BY BundleAt DEF Bundle!Transcribe, Bundle!At
<1>2. PICK text : text = Bundle!Text(bundle.recording,
                                     IF bundle.recording = "short" THEN "few" ELSE "many")
    OBVIOUS
<1>3. PICK known : known = IF bundle.local THEN fetchers[f].known ELSE bundle.recording
    OBVIOUS
<1>4. PICK timed \in BOOLEAN :
        /\ Bundle!Fits(text, known)
        /\ Bundle!Upd(f, Bundle!New(f, text, "whisper", known, timed))
    BY <1>2, <1>3 DEF Bundle!Transcribe
<1>5. text \in Bundle!Texts /\ text.origin = bundle.recording
    BY <1>1, <1>2 DEF Bundle!Text, Bundle!Texts, Bundles
<1>6. known \in Recordings \union {None}
    BY <1>1, <1>3 DEF Bundles, Fetches
<1>7. QED
    BY <1>1, <1>3, <1>4, <1>5, <1>6, FetchRenews DEF Bundle!Transcribe

LEMMA FetchStages ==
  ASSUME BundleInv, NEW f \in Fetchers, Bundle!Stage(f) PROVE BundleInv'
<1>1. PICK x : x = fetchers[f]
    OBVIOUS
<1>2. /\ bundle \in Bundles /\ GoodReceipt(bundle.quality) /\ GoodTiming(bundle.timing)
      /\ x \in Fetches /\ Steady(x, bundle) /\ x.pc = "stage"
    BY <1>1, BundleAt DEF Bundle!Stage, Bundle!At
<1>3. CASE Bundle!Upd(f, Bundle!End(f, "refused"))
    BY <1>3, FetchEnds DEF Bundle!Stage
<1>4. CASE /\ Bundle!NewText(f) => bundle.text = None \/ fetchers[f].force
           /\ Bundle!Upd(f, [Bundle!Goto(f, "guard") EXCEPT
                               !.base = [k \in Bundle!Files |-> bundle[k]]])
    <2>1. PICK base : base = [k \in Bundle!Files |-> bundle[k]]
        OBVIOUS
    <2>2. /\ base["text"] = bundle.text /\ base["timing"] = bundle.timing
          /\ base["quality"] = bundle.quality /\ \A k \in Bundle!Files : bundle[k] = base[k]
        BY <2>1 DEF Bundle!Files
    <2>3. \A k \in Bundle!Files :
            bundle[k] \in Bundle!Texts \union Bundle!Timings \union Bundle!Receipts \union {None}
        BY <1>2 DEF Bundle!Files, Bundles
    <2>4. base \in Backup
        BY <2>1, <2>3 DEF Backup
    <2>5. PICK r : r = [x EXCEPT !.pc = "guard", !.base = base]
        OBVIOUS
    <2>6. /\ r \in Fetches /\ r.pc = "guard" /\ r.base = base /\ r.plan = x.plan
          /\ r.new = x.new /\ r.take = x.take /\ r.outcome = x.outcome /\ r.timed = x.timed
          /\ r.seen = x.seen /\ r.known = x.known /\ r.alone = x.alone /\ r.force = x.force
        BY <1>2, <2>4, <2>5 DEF Fetches
    <2>7. Bundle!Upd(f, r)
        BY <1>1, <1>4, <2>1, <2>5 DEF Bundle!Goto
    <2>8. Backed(r)
        BY <1>2, <2>2, <2>4, <2>6 DEF Backed, Bundles
    <2>9. Prepared(r, bundle)
        BY <1>2, <2>6 DEF Steady, Prepared
    <2>10. x.plan = Renews /\ ~x.force => bundle.text = None
        BY <1>1, <1>4, PlansDiffer DEF Bundle!NewText
    <2>11. x.outcome = None /\ None \notin {"ok", "failed"}
        BY <1>2, BundleAssumed DEF Steady, Bundle!Outcomes
    <2>12. r.alone => Alone(r, bundle)
        BY <1>2, <2>2, <2>6, <2>10, <2>11 DEF Steady, Alone, Judged, Same
    <2>13. Steady(r, bundle)
        BY <1>2, <2>6, <2>8, <2>9, <2>11, <2>12 DEF Steady
    <2>14. QED
        BY <2>6, <2>7, <2>13, FetchQuiet DEF Bundle!Stage
<1>5. QED
    BY <1>3, <1>4 DEF Bundle!Stage

(* Past the guard a local recording is the one that was judged. *)
LEMMA FetchGuards ==
  ASSUME BundleInv, NEW f \in Fetchers, Bundle!Guard(f) PROVE BundleInv'
<1>1. PICK x : x = fetchers[f]
    OBVIOUS
<1>2. /\ bundle \in Bundles /\ x \in Fetches /\ Steady(x, bundle) /\ x.pc = "guard"
    BY <1>1, BundleAt DEF Bundle!Guard, Bundle!At
<1>3. x.outcome = None /\ None \notin {"ok", "failed"} /\ Prepared(x, bundle) /\ Backed(x)
    BY <1>2, BundleAssumed DEF Steady, Bundle!Outcomes
<1>4. x.plan \in {<<>>, Amends, Renews}
    BY <1>2 DEF Fetches
<1>5. CASE /\ bundle.local
           /\ \/ bundle.take # x.take
              \/ ~Bundle!NewText(f) /\ bundle.text # x.seen
    BY <1>1, <1>5, FetchEnds DEF Bundle!Guard
<1>6. ASSUME ~(/\ bundle.local
               /\ \/ bundle.take # x.take
                  \/ ~Bundle!NewText(f) /\ bundle.text # x.seen)
      PROVE BundleInv'
    <2>1. ~(bundle.local /\ x.take # bundle.take)
        BY <1>6
    <2>2. CASE x.plan = <<>>
        <3>1. PICK r : r = [x EXCEPT !.pc = "timing"]
            OBVIOUS
        <3>2. /\ r \in Fetches /\ r.pc = "timing" /\ r.plan = x.plan /\ r.new = x.new
              /\ r.take = x.take /\ r.outcome = x.outcome /\ r.timed = x.timed
              /\ r.seen = x.seen /\ r.known = x.known /\ r.alone = x.alone
            BY <1>2, <3>1 DEF Fetches
        <3>3. Bundle!Upd(f, r)
            BY <1>1, <1>6, <2>2, <3>1 DEF Bundle!Guard, Bundle!Goto, Bundle!Replacing
        <3>4. Prepared(r, bundle)
            BY <1>3, <2>2, <3>2, PlansDiffer DEF Prepared
        <3>5. Steady(r, bundle)
            BY <1>2, <1>3, <2>2, <3>2, <3>4, PlansDiffer DEF Steady, Alone, Judged
        <3>6. QED
            BY <3>2, <3>3, <3>5, FetchQuiet DEF Bundle!Guard
    <2>3. CASE x.plan # <<>>
        <3>1. PICK r : r = [x EXCEPT !.pc = "install", !.at = 1]
            OBVIOUS
        <3>2. /\ r \in Fetches /\ r.pc = "install" /\ r.plan = x.plan /\ r.new = x.new
              /\ r.take = x.take /\ r.outcome = x.outcome /\ r.timed = x.timed /\ r.at = 1
              /\ r.seen = x.seen /\ r.known = x.known /\ r.alone = x.alone
              /\ r.base = x.base /\ r.force = x.force
            BY <1>2, <3>1 DEF Fetches
        <3>3. Bundle!Upd(f, r)
            BY <1>1, <1>6, <2>3, <3>1 DEF Bundle!Guard, Bundle!Goto, Bundle!Replacing
        <3>4. Prepared(r, bundle)
            BY <1>3, <2>1, <3>2 DEF Prepared
        <3>5. Backed(r)
            BY <1>3, <3>2 DEF Backed
        <3>6. r.alone => Alone(r, bundle)
            BY <1>2, <1>3, <3>2 DEF Steady, Alone, Judged, Same, Bundle!Files
        <3>7. Steady(r, bundle)
            BY <1>2, <1>3, <1>4, <2>3, <3>2, <3>4, <3>5, <3>6 DEF Steady
        <3>8. QED
            BY <3>2, <3>3, <3>7, FetchQuiet DEF Bundle!Guard
    <2>4. QED
        BY <2>2, <2>3
<1>7. QED
    BY <1>5, <1>6

(* A file of the bundle is written with what a plan, or a backup, holds of it. *)
LEMMA BundleWritten ==
  ASSUME bundle \in Bundles, NEW b,
         \/ \E t \in Bundle!Texts \union {None} : b = [bundle EXCEPT !["text"] = t]
         \/ \E t \in Bundle!Timings \union {None} : b = [bundle EXCEPT !["timing"] = t]
         \/ \E t \in Bundle!Receipts \union {None} : b = [bundle EXCEPT !["quality"] = t]
  PROVE  b \in Bundles /\ b.local = bundle.local /\ b.take = bundle.take
         /\ b.recording = bundle.recording
BY DEF Bundles

(* The one file of a kept text's plan. *)
LEMMA FetchAmends ==
  ASSUME BundleInv, NEW f \in Fetchers, fetchers[f].pc = "install",
         fetchers[f].plan = Amends,
         Bundle!Write(f, [fetchers[f] EXCEPT !.pc = "timing"],
                      [bundle EXCEPT !["quality"] = fetchers[f].new["quality"]])
  PROVE  BundleInv'
<1>1. PICK x : x = fetchers[f]
    OBVIOUS
<1>2. /\ bundle \in Bundles /\ GoodReceipt(bundle.quality) /\ GoodTiming(bundle.timing)
      /\ x \in Fetches /\ Steady(x, bundle) /\ x.pc = "install" /\ x.plan = Amends
    BY <1>1, BundleAt
<1>3. /\ x.outcome = None /\ None \notin {"ok", "failed"} /\ Prepared(x, bundle)
      /\ x.at = 1 /\ x.at \in Nat
    BY <1>2, PlansDiffer, BundleAssumed DEF Steady, Bundle!Outcomes, Fetches
<1>4. PICK q : q = x.new.quality
    OBVIOUS
<1>5. /\ x.seen \in Bundle!Texts /\ q \in Bundle!Receipts
      /\ q.of = x.seen /\ q.recording = x.known /\ GoodReceipt(q)
    BY <1>2, <1>3, <1>4, PlansDiffer DEF Prepared, Judgement, GoodReceipt
<1>6. PICK b : b = [bundle EXCEPT !["quality"] = q]
    OBVIOUS
<1>7. /\ b \in Bundles /\ b.local = bundle.local /\ b.take = bundle.take
      /\ b.recording = bundle.recording
    BY <1>2, <1>5, <1>6, BundleWritten
<1>8. b.quality = q /\ b.text = bundle.text /\ b.timing = bundle.timing
    BY <1>2, <1>6 DEF Bundles
<1>a. PICK at \in Nat : at = x.at
    BY <1>3
<1>b. PICK pc \in {"install", "rollback", "timing", "done"} : pc = "timing"
    OBVIOUS
<1>c. x \in Fetches
    BY <1>2
<1>9. PICK r : r = [x EXCEPT !.pc = pc, !.at = at]
    OBVIOUS
<1>10. /\ r \in Fetches /\ r.pc = "timing" /\ r.plan = x.plan /\ r.new = x.new
       /\ r.take = x.take /\ r.outcome = x.outcome /\ r.timed = x.timed
       /\ r.seen = x.seen /\ r.known = x.known /\ r.alone = x.alone
    <2>1. PICK y : y = [x EXCEPT !.pc = pc]
        OBVIOUS
    <2>2. y \in Fetches
        BY <1>b, <1>c, <2>1 DEF Fetches
    <2>3. r = [y EXCEPT !.at = at]
        BY <1>9, <2>1
    <2>4. r \in Fetches
        BY <1>a, <2>2, <2>3 DEF Fetches
    <2>5. r.pc = pc
        BY <1>c, <1>9 DEF Fetches
    <2>6. /\ r.plan = x.plan /\ r.new = x.new
          /\ r.take = x.take /\ r.outcome = x.outcome /\ r.timed = x.timed
          /\ r.seen = x.seen /\ r.known = x.known /\ r.alone = x.alone
        BY <1>c, <1>9 DEF Fetches
    <2>7. QED
        BY <1>b, <2>4, <2>5, <2>6
<1>11. [x EXCEPT !.pc = "timing"] = r
    BY <1>a, <1>b, <1>c, <1>9 DEF Fetches
<1>12. Bundle!Write(f, r, b)
    BY <1>1, <1>4, <1>6, <1>11
<1>13. Prepared(r, b)
    BY <1>2, <1>3, <1>10, PlansDiffer DEF Prepared
<1>14. r.alone => Alone(r, b)
    <2>1. SUFFICES ASSUME x.alone
                   PROVE  b.text = x.seen /\ Bundle!QualityVerifies(b)
                          /\ (x.timed => Bundle!TimingVerifies(b))
        BY <1>3, <1>10 DEF Alone
    <2>2. bundle.text = x.seen /\ (x.timed => Bundle!TimingVerifies(bundle))
        BY <1>2, <2>1, PlansDiffer DEF Steady, Alone, Judged
    <2>3. QED
        BY <1>5, <1>8, <2>2, BundleAssumed
           DEF Bundle!QualityVerifies, Bundle!TimingVerifies
<1>15. Steady(r, b)
    BY <1>2, <1>3, <1>7, <1>10, <1>13, <1>14, PlansDiffer DEF Steady
<1>16. QED
    BY <1>2, <1>5, <1>7, <1>8, <1>10, <1>12, <1>15, FetchWrites

(* The next of a new text's three files. *)
LEMMA FetchInstallsNew ==
  ASSUME BundleInv, NEW f \in Fetchers, fetchers[f].pc = "install",
         fetchers[f].plan = Renews, NEW k \in {"timing", "quality", "text"},
         k = Renews[fetchers[f].at],
         NEW pc \in {"install", "done"}, NEW at \in Nat,
         fetchers[f].at \in {1, 2} => pc = "install" /\ at = fetchers[f].at + 1,
         fetchers[f].at = 3 => pc = "done",
         Bundle!Write(f, [fetchers[f] EXCEPT !.pc = pc, !.at = at],
                      [bundle EXCEPT ![k] = fetchers[f].new[k]])
  PROVE  BundleInv'
<1>1. PICK x : x = fetchers[f]
    OBVIOUS
<1>2. /\ bundle \in Bundles /\ GoodReceipt(bundle.quality) /\ GoodTiming(bundle.timing)
      /\ x \in Fetches /\ Steady(x, bundle) /\ x.pc = "install" /\ x.plan = Renews
    BY <1>1, BundleAt
<1>3. /\ x.outcome = None /\ None \notin {"ok", "failed"} /\ Prepared(x, bundle)
      /\ x.at \in {1, 2, 3} /\ ~x.timed /\ Backed(x)
    BY <1>2, PlansDiffer, BundleAssumed DEF Steady, Bundle!Outcomes, Prepared
<1>4. PICK n : n = x.new
    OBVIOUS
<1>5. /\ n \in Renewal /\ n.text \in Bundle!Texts /\ n.quality \in Bundle!Receipts
      /\ n.timing \in Bundle!Timings \union {None}
      /\ n.quality.of = n.text /\ GoodReceipt(n.quality) /\ GoodTiming(n.timing)
      /\ n.timing # None => n.timing.of = n.text
    BY <1>2, <1>3, <1>4 DEF Prepared, Renewal, GoodReceipt
<1>6. PICK b : b = [bundle EXCEPT ![k] = n[k]]
    OBVIOUS
<1>7. /\ b \in Bundles /\ b.local = bundle.local /\ b.take = bundle.take
      /\ b.recording = bundle.recording
    BY <1>2, <1>5, <1>6, BundleWritten
<1>8. /\ b.text = IF k = "text" THEN n.text ELSE bundle.text
      /\ b.timing = IF k = "timing" THEN n.timing ELSE bundle.timing
      /\ b.quality = IF k = "quality" THEN n.quality ELSE bundle.quality
    BY <1>2, <1>5, <1>6 DEF Bundles, Renewal
<1>9. GoodReceipt(b.quality) /\ GoodTiming(b.timing)
    BY <1>2, <1>5, <1>8
<1>a. x \in Fetches /\ pc \in {"install", "rollback", "timing", "done"}
    BY <1>2
<1>10. PICK r : r = [x EXCEPT !.pc = pc, !.at = at]
    OBVIOUS
<1>11. /\ r \in Fetches /\ r.pc = pc /\ r.at = at /\ r.plan = x.plan /\ r.new = n
       /\ r.take = x.take /\ r.outcome = x.outcome /\ r.timed = x.timed
       /\ r.seen = x.seen /\ r.known = x.known /\ r.alone = x.alone
       /\ r.base = x.base /\ r.force = x.force
    BY <1>4, <1>a, <1>10 DEF Fetches
<1>12. Bundle!Write(f, r, b)
    BY <1>1, <1>4, <1>6, <1>10
<1>13. Prepared(r, b)
    BY <1>2, <1>3, <1>4, <1>5, <1>11, PlansDiffer DEF Prepared
<1>14. Backed(r)
    BY <1>3, <1>11 DEF Backed
<1>15. r.alone => Alone(r, b)
    <2>1. SUFFICES ASSUME x.alone PROVE Alone(r, b)
        BY <1>11
    <2>2. /\ ~x.force => x.base["text"] = None
          /\ bundle.text = x.base["text"]
          /\ IF x.at = 1 THEN bundle.timing = x.base["timing"] ELSE bundle.timing = n.timing
          /\ IF x.at = 3 THEN bundle.quality = n.quality
             ELSE bundle.quality = x.base["quality"]
        BY <1>2, <1>4, <2>1 DEF Steady, Alone, Same
    <2>3. CASE x.at = 1
        <3>1. k = "timing" /\ pc = "install" /\ at = 2
            BY <1>1, <2>3, PlansDiffer
        <3>2. QED
            BY <1>2, <1>3, <1>8, <1>11, <2>2, <2>3, <3>1, PlansDiffer DEF Alone, Same
    <2>4. CASE x.at = 2
        <3>1. k = "quality" /\ pc = "install" /\ at = 3
            BY <1>1, <2>4, PlansDiffer
        <3>2. QED
            BY <1>2, <1>3, <1>8, <1>11, <2>2, <2>4, <3>1, PlansDiffer DEF Alone, Same
    <2>5. CASE x.at = 3
        <3>1. k = "text" /\ pc = "done"
            BY <1>1, <2>5, PlansDiffer
        <3>2. b.text = n.text /\ b.quality = n.quality /\ b.timing = n.timing
            BY <1>8, <2>2, <2>5, <3>1
        <3>3. Bundle!QualityVerifies(b) /\ (n.timing # None => Bundle!TimingVerifies(b))
            BY <1>5, <3>2, BundleAssumed DEF Bundle!QualityVerifies, Bundle!TimingVerifies
        <3>4. QED
            BY <1>2, <1>3, <1>11, <3>1, <3>3 DEF Alone
    <2>6. QED
        BY <1>3, <2>3, <2>4, <2>5
<1>16. pc = "install" => at \in {1, 2, 3}
    BY <1>1, <1>3
<1>17. Steady(r, b)
    BY <1>2, <1>3, <1>7, <1>11, <1>13, <1>14, <1>15, <1>16 DEF Steady
<1>18. QED
    BY <1>7, <1>9, <1>11, <1>12, <1>17, FetchWrites

(* A rename fails: what the plan did so far has to be undone. *)
LEMMA FetchTurnsBack ==
  ASSUME BundleInv, NEW f \in Fetchers, fetchers[f].pc = "install",
         Bundle!Upd(f, Bundle!Goto(f, "rollback")), UNCHANGED bundle
  PROVE  BundleInv'
<1>1. PICK x : x = fetchers[f]
    OBVIOUS
<1>2. /\ bundle \in Bundles /\ x \in Fetches /\ Steady(x, bundle) /\ x.pc = "install"
    BY <1>1, BundleAt
<1>3. /\ x.outcome = None /\ None \notin {"ok", "failed"} /\ Prepared(x, bundle) /\ Backed(x)
      /\ x.at \in Nat
    BY <1>2, BundleAssumed DEF Steady, Bundle!Outcomes, Fetches
<1>a. PICK at \in Nat : at = x.at
    BY <1>3
<1>b. PICK pc \in {"install", "rollback", "timing", "done"} : pc = "rollback"
    OBVIOUS
<1>c. x \in Fetches
    BY <1>2
<1>4. PICK r : r = [x EXCEPT !.pc = pc, !.at = at]
    OBVIOUS
<1>5. /\ r \in Fetches /\ r.pc = "rollback" /\ r.at = x.at /\ r.plan = x.plan /\ r.new = x.new
      /\ r.take = x.take /\ r.outcome = x.outcome /\ r.timed = x.timed
      /\ r.seen = x.seen /\ r.known = x.known /\ r.alone = x.alone
      /\ r.base = x.base /\ r.force = x.force /\ r.incomplete = x.incomplete
    BY <1>a, <1>b, <1>c, <1>4 DEF Fetches
<1>6. Bundle!Upd(f, r)
    BY <1>1, <1>a, <1>b, <1>c, <1>4 DEF Bundle!Goto, Fetches
<1>7. Prepared(r, bundle)
    BY <1>2, <1>3, <1>5 DEF Prepared
<1>8. Backed(r)
    BY <1>3, <1>5 DEF Backed
<1>9. r.alone => Alone(r, bundle)
    <2>1. SUFFICES ASSUME x.alone PROVE Alone(r, bundle)
        BY <1>5
    <2>2. /\ x.plan = Renews /\ ~x.force => x.base["text"] = None
          /\ x.plan = Amends => \A k \in Bundle!Files : Same(x, bundle, k)
          /\ x.plan = Renews => Same(x, bundle, "text")
          /\ x.plan = Renews /\ x.at = 1 => Same(x, bundle, "quality")
        BY <1>2, <2>1 DEF Steady, Alone
    <2>3. x.plan = Amends \/ x.plan = Renews
        BY <1>2 DEF Steady
    <2>4. QED
        BY <1>3, <1>5, <2>2, <2>3 DEF Alone, Same, Bundle!Files
<1>10. Steady(r, bundle)
    BY <1>2, <1>3, <1>5, <1>7, <1>8, <1>9 DEF Steady
<1>11. QED
    BY <1>5, <1>6, <1>10, FetchQuiet

LEMMA FetchInstalls ==
  ASSUME BundleInv, NEW f \in Fetchers, Bundle!Install(f) PROVE BundleInv'
<1>1. PICK x : x = fetchers[f]
    OBVIOUS
<1>2. /\ x \in Fetches /\ Steady(x, bundle) /\ x.pc = "install"
    BY <1>1, BundleAt DEF Bundle!Install, Bundle!At
<1>3. \/ Bundle!Write(f,
           IF x.at < Len(x.plan) THEN [x EXCEPT !.at = x.at + 1]
           ELSE Bundle!Goto(f, IF Bundle!NewText(f) THEN "done" ELSE "timing"),
           [bundle EXCEPT ![x.plan[x.at]] = x.new[x.plan[x.at]]])
      \/ Bundle!Upd(f, Bundle!Goto(f, "rollback")) /\ UNCHANGED bundle
    BY <1>1 DEF Bundle!Install
<1>4. CASE Bundle!Upd(f, Bundle!Goto(f, "rollback")) /\ UNCHANGED bundle
    BY <1>1, <1>2, <1>4, FetchTurnsBack
<1>5. ASSUME Bundle!Write(f,
           IF x.at < Len(x.plan) THEN [x EXCEPT !.at = x.at + 1]
           ELSE Bundle!Goto(f, IF Bundle!NewText(f) THEN "done" ELSE "timing"),
           [bundle EXCEPT ![x.plan[x.at]] = x.new[x.plan[x.at]]])
      PROVE  BundleInv'
    <2>1. CASE x.plan = Amends
        <3>1. x.at = 1 /\ Len(x.plan) = 1 /\ x.plan[x.at] = "quality"
            BY <1>2, <2>1, PlansDiffer DEF Steady
        <3>2. ~Bundle!NewText(f) /\ ~(x.at < Len(x.plan))
            BY <1>1, <3>1 DEF Bundle!NewText
        <3>3. Bundle!Write(f, [x EXCEPT !.pc = "timing"],
                           [bundle EXCEPT !["quality"] = x.new["quality"]])
            BY <1>1, <1>5, <3>1, <3>2 DEF Bundle!Goto
        <3>4. QED
            BY <1>1, <1>2, <2>1, <3>3, FetchAmends
    <2>2. CASE x.plan = Renews
        <3>1. x.at \in {1, 2, 3} /\ Len(x.plan) = 3
            BY <1>2, <2>2, PlansDiffer DEF Steady
        <3>2. PICK k \in {"timing", "quality", "text"} : k = x.plan[x.at]
            BY <2>2, <3>1, PlansDiffer
        <3>3. PICK at \in Nat : at = IF x.at < 3 THEN x.at + 1 ELSE x.at
            BY <3>1
        <3>4. PICK pc \in {"install", "done"} : pc = IF x.at < 3 THEN "install" ELSE "done"
            OBVIOUS
        <3>5. Bundle!NewText(f)
            BY <1>1, <3>1 DEF Bundle!NewText
        <3>6. (IF x.at < Len(x.plan) THEN [x EXCEPT !.at = x.at + 1]
               ELSE Bundle!Goto(f, IF Bundle!NewText(f) THEN "done" ELSE "timing"))
              = [x EXCEPT !.pc = pc, !.at = at]
            <4>1. CASE x.at < 3
                <5>1. [x EXCEPT !.at = at] = [x EXCEPT !.pc = pc, !.at = at]
                    BY <1>2, <3>4, <4>1 DEF Fetches
                <5>2. QED
                    BY <3>1, <3>3, <4>1, <5>1
            <4>2. CASE ~(x.at < 3)
                <5>1. [x EXCEPT !.pc = pc] = [x EXCEPT !.pc = pc, !.at = at]
                    BY <1>2, <3>3, <4>2 DEF Fetches
                <5>2. QED
                    BY <1>1, <3>1, <3>4, <3>5, <4>2, <5>1 DEF Bundle!Goto
            <4>3. QED
                BY <4>1, <4>2
        <3>7. Bundle!Write(f, [x EXCEPT !.pc = pc, !.at = at], [bundle EXCEPT ![k] = x.new[k]])
            BY <1>5, <3>2, <3>6
        <3>8. /\ x.at \in {1, 2} => pc = "install" /\ at = x.at + 1
              /\ x.at = 3 => pc = "done"
              /\ k = Renews[x.at]
            BY <2>2, <3>1, <3>2, <3>3, <3>4
        <3>9. QED
            BY <1>1, <1>2, <2>2, <3>7, <3>8, FetchInstallsNew
    <2>3. QED
        BY <1>2, <2>1, <2>2 DEF Steady
<1>6. QED
    BY <1>3, <1>4, <1>5

(* What an invocation is at that has done with one file of a rollback. *)
Undoes(x, r) ==
  /\ r \in Fetches /\ r.alone = x.alone /\ r.base = x.base
  /\ x.at = 1 => r.pc = "ended" /\ r.outcome = "failed"
  /\ x.at # 1 =>
       /\ r.pc = "rollback" /\ r.at = x.at - 1 /\ r.plan = x.plan /\ r.new = x.new
       /\ r.take = x.take /\ r.outcome = x.outcome /\ r.timed = x.timed
       /\ r.seen = x.seen /\ r.known = x.known /\ r.force = x.force

(* A file is put back as it was found. *)
LEMMA FetchRestores ==
  ASSUME BundleInv, NEW f \in Fetchers, fetchers[f].pc = "rollback",
         NEW k \in {"timing", "quality", "text"}, k = fetchers[f].plan[fetchers[f].at],
         NEW r, Undoes(fetchers[f], r), r.incomplete = fetchers[f].incomplete,
         NEW b, b = [bundle EXCEPT ![k] = fetchers[f].base[k]], Bundle!Write(f, r, b)
  PROVE  BundleInv'
<1>1. PICK x : x = fetchers[f]
    OBVIOUS
<1>2. /\ bundle \in Bundles /\ GoodReceipt(bundle.quality) /\ GoodTiming(bundle.timing)
      /\ x \in Fetches /\ Steady(x, bundle) /\ x.pc = "rollback"
    BY <1>1, BundleAt
<1>3. /\ x.outcome = None /\ None \notin {"ok", "failed"} /\ Prepared(x, bundle) /\ Backed(x)
      /\ \/ x.plan = Amends /\ x.at = 1
         \/ x.plan = Renews /\ x.at \in {1, 2, 3}
    BY <1>2, BundleAssumed DEF Steady, Bundle!Outcomes
<1>4. PICK base : base = x.base
    OBVIOUS
<1>5. /\ base["text"] \in Bundle!Texts \union {None}
      /\ base["timing"] \in Bundle!Timings \union {None}
      /\ base["quality"] \in Bundle!Receipts \union {None}
      /\ GoodReceipt(base["quality"]) /\ GoodTiming(base["timing"])
    BY <1>3, <1>4 DEF Backed
<1>6. b = [bundle EXCEPT ![k] = base[k]]
    BY <1>1, <1>4
<1>7. /\ b \in Bundles /\ b.local = bundle.local /\ b.take = bundle.take
      /\ b.recording = bundle.recording
    <2>1. bundle \in Bundles
        BY <1>2
    <2>2. CASE k = "text"
        BY <1>5, <1>6, <2>1, <2>2 DEF Bundles
    <2>3. CASE k = "timing"
        BY <1>5, <1>6, <2>1, <2>3 DEF Bundles
    <2>4. CASE k = "quality"
        BY <1>5, <1>6, <2>1, <2>4 DEF Bundles
    <2>5. QED
        BY <2>2, <2>3, <2>4
<1>8. /\ b.text = IF k = "text" THEN base["text"] ELSE bundle.text
      /\ b.timing = IF k = "timing" THEN base["timing"] ELSE bundle.timing
      /\ b.quality = IF k = "quality" THEN base["quality"] ELSE bundle.quality
    BY <1>2, <1>6 DEF Bundles
<1>9. GoodReceipt(b.quality) /\ GoodTiming(b.timing)
    BY <1>2, <1>5, <1>8
<1>10. Undoes(x, r) /\ r.incomplete = x.incomplete
    BY <1>1
<1>11. Steady(r, b)
    <2>1. CASE x.at = 1
        <3>1. /\ r.pc = "ended" /\ r.outcome = "failed" /\ r.alone = x.alone /\ r.base = base
            BY <1>4, <1>10, <2>1 DEF Undoes
        <3>2. k = IF x.plan = Amends THEN "quality" ELSE "timing"
            BY <1>1, <1>3, <2>1, PlansDiffer
        <3>3. ASSUME x.alone, ~x.incomplete
              PROVE  b.text = base["text"] /\ b.timing = base["timing"]
                     /\ b.quality = base["quality"]
            <4>1. /\ bundle.text = base["text"]
                  /\ x.plan = Amends => bundle.timing = base["timing"]
                  /\ bundle.quality = base["quality"]
                BY <1>2, <1>4, <2>1, <3>3 DEF Steady, Alone, Same
            <4>2. QED
                BY <1>3, <1>8, <3>2, <4>1, PlansDiffer
        <3>4. r.alone => Alone(r, b)
            BY <1>10, <3>1, <3>3 DEF Alone, Same, Bundle!Files
        <3>5. QED
            BY <3>1, <3>4 DEF Steady
    <2>2. CASE x.at # 1
        <3>1. /\ r.pc = "rollback" /\ r.at = x.at - 1 /\ r.plan = x.plan /\ r.new = x.new
              /\ r.take = x.take /\ r.outcome = x.outcome /\ r.timed = x.timed
              /\ r.seen = x.seen /\ r.known = x.known /\ r.force = x.force
              /\ r.alone = x.alone /\ r.base = base /\ r.incomplete = x.incomplete
            BY <1>4, <1>10, <2>2 DEF Undoes
        <3>2. /\ x.plan = Renews /\ x.at \in {2, 3} /\ r.at \in {1, 2}
              /\ k = IF x.at = 2 THEN "quality" ELSE "text"
              /\ r.at = 1 <=> x.at = 2
            BY <1>1, <1>3, <2>2, <3>1, PlansDiffer
        <3>3. Prepared(r, b)
            BY <1>2, <1>3, <3>1, <3>2 DEF Prepared
        <3>4. Backed(r)
            BY <1>3, <1>4, <3>1 DEF Backed
        <3>5. ASSUME x.alone
              PROVE  /\ ~x.force => base["text"] = None
                     /\ b.text = base["text"] /\ (r.at = 1 => b.quality = base["quality"])
            <4>1. /\ ~x.force => base["text"] = None
                  /\ bundle.text = base["text"]
                BY <1>2, <1>4, <3>2, <3>5 DEF Steady, Alone, Same
            <4>2. QED
                BY <1>8, <3>2, <4>1
        <3>6. r.alone => Alone(r, b)
            BY <1>3, <3>1, <3>2, <3>5, PlansDiffer DEF Alone, Same
        <3>7. QED
            BY <1>2, <1>3, <1>7, <3>1, <3>2, <3>3, <3>4, <3>6 DEF Steady
    <2>3. QED
        BY <2>1, <2>2
<1>12. r \in Fetches
    BY <1>10 DEF Undoes
<1>13. QED
    BY <1>7, <1>9, <1>11, <1>12, FetchWrites

(* A file cannot be put back. *)
LEMMA FetchLeaves ==
  ASSUME BundleInv, NEW f \in Fetchers, fetchers[f].pc = "rollback",
         NEW r, Undoes(fetchers[f], r), r.incomplete,
         Bundle!Upd(f, r), UNCHANGED bundle
  PROVE  BundleInv'
<1>1. PICK x : x = fetchers[f]
    OBVIOUS
<1>2. /\ bundle \in Bundles /\ x \in Fetches /\ Steady(x, bundle) /\ x.pc = "rollback"
    BY <1>1, BundleAt
<1>3. /\ x.outcome = None /\ None \notin {"ok", "failed"} /\ Prepared(x, bundle) /\ Backed(x)
      /\ \/ x.plan = Amends /\ x.at = 1
         \/ x.plan = Renews /\ x.at \in {1, 2, 3}
    BY <1>2, BundleAssumed DEF Steady, Bundle!Outcomes
<1>4. Undoes(x, r) /\ r.incomplete
    BY <1>1
<1>5. Steady(r, bundle)
    <2>1. CASE x.at = 1
        <3>1. r.pc = "ended" /\ r.outcome = "failed"
            BY <1>4, <2>1 DEF Undoes
        <3>2. QED
            BY <1>4, <3>1 DEF Steady, Alone
    <2>2. CASE x.at # 1
        <3>1. /\ r.pc = "rollback" /\ r.at = x.at - 1 /\ r.plan = x.plan /\ r.new = x.new
              /\ r.take = x.take /\ r.outcome = x.outcome /\ r.timed = x.timed
              /\ r.seen = x.seen /\ r.known = x.known /\ r.force = x.force
              /\ r.alone = x.alone /\ r.base = x.base
            BY <1>4, <2>2 DEF Undoes
        <3>2. x.plan = Renews /\ r.at \in {1, 2}
            BY <1>3, <2>2, <3>1
        <3>3. Prepared(r, bundle)
            BY <1>2, <1>3, <3>1, <3>2 DEF Prepared
        <3>4. Backed(r)
            BY <1>3, <3>1 DEF Backed
        <3>5. ASSUME x.alone
              PROVE  (~x.force => x.base["text"] = None) /\ bundle.text = x.base["text"]
            BY <1>2, <3>2, <3>5 DEF Steady, Alone, Same
        <3>6. r.alone => Alone(r, bundle)
            BY <1>3, <1>4, <3>1, <3>2, <3>5, PlansDiffer DEF Alone, Same
        <3>7. QED
            BY <1>2, <1>3, <3>1, <3>2, <3>3, <3>4, <3>6 DEF Steady
    <2>3. QED
        BY <2>1, <2>2
<1>6. r \in Fetches
    BY <1>4 DEF Undoes
<1>7. QED
    BY <1>5, <1>6, FetchQuiet

LEMMA FetchRollsBack ==
  ASSUME BundleInv, NEW f \in Fetchers, Bundle!Rollback(f) PROVE BundleInv'
<1>1. PICK x : x = fetchers[f]
    OBVIOUS
<1>2. /\ x \in Fetches /\ Steady(x, bundle) /\ x.pc = "rollback"
    BY <1>1, BundleAt DEF Bundle!Rollback, Bundle!At
<1>3. /\ \/ x.plan = Amends /\ x.at = 1
         \/ x.plan = Renews /\ x.at \in {1, 2, 3}
    BY <1>2 DEF Steady
<1>4. PICK k \in {"timing", "quality", "text"} : k = x.plan[x.at]
    BY <1>3, PlansDiffer
<1>5. PICK next : next = IF x.at = 1 THEN Bundle!End(f, "failed") ELSE [x EXCEPT !.at = x.at - 1]
    OBVIOUS
<1>6. Undoes(x, next) /\ next.incomplete = x.incomplete
    <2>1. CASE x.at = 1
        <3>1. next = Bundle!End(f, "failed") /\ "failed" \in Bundle!Outcomes
            BY <1>5, <2>1 DEF Bundle!Outcomes
        <3>2. /\ next \in Fetches /\ next.pc = "ended" /\ next.outcome = "failed"
              /\ next.alone = x.alone /\ next.incomplete = x.incomplete /\ next.base = x.base
            BY <1>1, <1>2, <3>1, FetchEnded
        <3>3. QED
            BY <2>1, <3>2 DEF Undoes
    <2>2. CASE x.at # 1
        <3>1. PICK at \in Nat : at = x.at - 1
            BY <1>3, <2>2
        <3>2. next = [x EXCEPT !.at = at]
            BY <1>5, <2>2, <3>1
        <3>3. QED
            BY <1>2, <2>2, <3>1, <3>2 DEF Undoes, Fetches
    <2>3. QED
        BY <2>1, <2>2
<1>7. \/ Bundle!Write(f, next, [bundle EXCEPT ![k] = x.base[k]])
      \/ Bundle!Upd(f, [next EXCEPT !.incomplete = TRUE]) /\ UNCHANGED bundle
    BY <1>1, <1>4, <1>5 DEF Bundle!Rollback
<1>8. CASE Bundle!Write(f, next, [bundle EXCEPT ![k] = x.base[k]])
    <2>1. PICK b : b = [bundle EXCEPT ![k] = x.base[k]]
        OBVIOUS
    <2>2. Bundle!Write(f, next, b)
        BY <1>8, <2>1
    <2>3. fetchers[f].pc = "rollback" /\ k = fetchers[f].plan[fetchers[f].at]
        BY <1>1, <1>2, <1>4
    <2>4. Undoes(fetchers[f], next) /\ next.incomplete = fetchers[f].incomplete
        BY <1>1, <1>6
    <2>5. b = [bundle EXCEPT ![k] = fetchers[f].base[k]]
        BY <1>1, <2>1
    <2>6. QED
        BY <2>2, <2>3, <2>4, <2>5, FetchRestores
<1>9. CASE Bundle!Upd(f, [next EXCEPT !.incomplete = TRUE]) /\ UNCHANGED bundle
    <2>1. PICK r : r = [next EXCEPT !.incomplete = TRUE]
        OBVIOUS
    <2>2. next \in Fetches
        BY <1>6 DEF Undoes
    <2>3. /\ r \in Fetches /\ r.incomplete /\ r.pc = next.pc /\ r.outcome = next.outcome
          /\ r.alone = next.alone /\ r.base = next.base /\ r.at = next.at
          /\ r.plan = next.plan /\ r.new = next.new /\ r.take = next.take
          /\ r.timed = next.timed /\ r.seen = next.seen /\ r.known = next.known
          /\ r.force = next.force
        BY <2>1, <2>2 DEF Fetches
    <2>4. Undoes(fetchers[f], r)
        BY <1>1, <1>6, <2>3 DEF Undoes
    <2>5. Bundle!Upd(f, r)
        BY <1>9, <2>1
    <2>6. QED
        BY <1>1, <1>2, <1>9, <2>3, <2>4, <2>5, FetchLeaves
<1>10. QED
    BY <1>7, <1>8, <1>9

LEMMA FetchTimed ==
  ASSUME BundleInv, NEW f \in Fetchers, Bundle!TimingEnds(f) PROVE BundleInv'
<1>1. PICK x : x = fetchers[f]
    OBVIOUS
<1>2. /\ bundle \in Bundles /\ x \in Fetches /\ Steady(x, bundle) /\ x.pc = "timing"
    BY <1>1, BundleAt DEF Bundle!TimingEnds, Bundle!At
<1>3. /\ x.outcome = None /\ None \notin {"ok", "failed"} /\ Prepared(x, bundle)
      /\ x.plan # Renews
    BY <1>2, BundleAssumed DEF Steady, Bundle!Outcomes
<1>4. PICK timed : timed = IF bundle.local THEN x.timed ELSE Bundle!TimingOwned(f)
    OBVIOUS
<1>5. /\ timed \in BOOLEAN
      /\ x.alone /\ timed => Bundle!TimingVerifies(bundle)
    BY <1>2, <1>4 DEF Bundle!TimingOwned, Steady, Alone, Fetches
<1>6. PICK z : z = [x EXCEPT !.pc = "done"]
    OBVIOUS
<1>7. /\ z \in Fetches /\ z.pc = "done" /\ z.plan = x.plan /\ z.new = x.new
      /\ z.take = x.take /\ z.outcome = x.outcome /\ z.timed = x.timed
      /\ z.seen = x.seen /\ z.known = x.known /\ z.alone = x.alone
    BY <1>2, <1>6 DEF Fetches
<1>8. PICK r : r = [z EXCEPT !.timed = timed]
    OBVIOUS
<1>9. /\ r \in Fetches /\ r.pc = "done" /\ r.plan = x.plan /\ r.new = x.new
      /\ r.take = x.take /\ r.outcome = x.outcome /\ r.timed = timed
      /\ r.seen = x.seen /\ r.known = x.known /\ r.alone = x.alone
    BY <1>5, <1>7, <1>8 DEF Fetches
<1>10. Bundle!Upd(f, r)
    <2>1. Bundle!Upd(f, [[x EXCEPT !.pc = "done"] EXCEPT !.timed =
                           IF bundle.local THEN x.timed ELSE Bundle!TimingOwned(f)])
        <3>1. z.timed = x.timed
            BY <1>7
        <3>2. QED
            BY <1>1, <1>6, <3>1 DEF Bundle!TimingEnds, Bundle!Goto
    <2>2. QED
        BY <1>4, <1>6, <1>8, <2>1
<1>11. Prepared(r, bundle)
    BY <1>3, <1>9 DEF Prepared
<1>12. x.alone => Bundle!QualityVerifies(bundle)
    BY <1>2 DEF Steady, Alone
<1>13. r.alone => Alone(r, bundle)
    BY <1>3, <1>5, <1>9, <1>12 DEF Alone
<1>14. Steady(r, bundle)
    BY <1>2, <1>3, <1>9, <1>11, <1>13 DEF Steady
<1>15. QED
    BY <1>9, <1>10, <1>14, FetchQuiet DEF Bundle!TimingEnds

(* A track of the very words that were judged gives them their cues. *)
LEMMA FetchEnriches ==
  ASSUME BundleInv, NEW f \in Fetchers, Bundle!Enrich(f) PROVE BundleInv'
<1>1. PICK x : x = fetchers[f]
    OBVIOUS
<1>2. /\ bundle \in Bundles /\ GoodReceipt(bundle.quality) /\ GoodTiming(bundle.timing)
      /\ x \in Fetches /\ Steady(x, bundle) /\ x.pc = "timing" /\ x.known # None
    BY <1>1, BundleAt DEF Bundle!Enrich, Bundle!At
<1>3. /\ x.outcome = None /\ None \notin {"ok", "failed"} /\ Prepared(x, bundle)
      /\ x.plan # Renews /\ x.seen \in Bundle!Texts /\ x.known \in Recordings
    BY <1>2, BundleAssumed DEF Steady, Bundle!Outcomes, Prepared, Fetches
<1>4. PICK size \in Tracks :
        /\ Bundle!Equivalent(x.seen, Bundle!Text("captions", size))
        /\ Bundle!Write(f, [Bundle!Goto(f, "done") EXCEPT !.timed = TRUE],
             [bundle EXCEPT !.timing = Bundle!Timing(x.seen, "captions", x.known)])
    BY <1>1 DEF Bundle!Enrich
<1>5. x.seen.origin \in Bundle!Wording
    BY <1>4 DEF Bundle!Equivalent
<1>6. PICK t : t = [of |-> x.seen, source |-> "captions", recording |-> x.known]
    OBVIOUS
<1>7. t \in Bundle!Timings /\ t.of = x.seen /\ t.source = "captions" /\ GoodTiming(t)
    BY <1>3, <1>5, <1>6 DEF Bundle!Timings, GoodTiming
<1>8. PICK b : b = [bundle EXCEPT !.timing = t]
    OBVIOUS
<1>9. /\ b \in Bundles /\ b.local = bundle.local /\ b.take = bundle.take
      /\ b.recording = bundle.recording /\ b.timing = t /\ b.text = bundle.text
      /\ b.quality = bundle.quality
    BY <1>2, <1>7, <1>8 DEF Bundles
<1>10. PICK z : z = [x EXCEPT !.pc = "done"]
    OBVIOUS
<1>11. /\ z \in Fetches /\ z.pc = "done" /\ z.plan = x.plan /\ z.new = x.new
      /\ z.take = x.take /\ z.outcome = x.outcome
      /\ z.seen = x.seen /\ z.known = x.known /\ z.alone = x.alone
    BY <1>2, <1>10 DEF Fetches
<1>12. PICK r : r = [z EXCEPT !.timed = TRUE]
    OBVIOUS
<1>13. /\ r \in Fetches /\ r.pc = "done" /\ r.plan = x.plan /\ r.new = x.new
      /\ r.take = x.take /\ r.outcome = x.outcome /\ r.timed
      /\ r.seen = x.seen /\ r.known = x.known /\ r.alone = x.alone
    BY <1>11, <1>12 DEF Fetches
<1>14. Bundle!Write(f, r, b)
    BY <1>1, <1>4, <1>6, <1>8, <1>10, <1>12 DEF Bundle!Goto, Bundle!Timing
<1>15. Prepared(r, b)
    BY <1>3, <1>13 DEF Prepared
<1>16. r.alone => Alone(r, b)
    <2>1. SUFFICES ASSUME x.alone
                   PROVE  Bundle!QualityVerifies(b) /\ Bundle!TimingVerifies(b)
        BY <1>3, <1>13 DEF Alone
    <2>2. bundle.text = x.seen /\ Bundle!QualityVerifies(bundle)
        BY <1>2, <2>1 DEF Steady, Alone
    <2>3. t # None
        BY <1>7, BundleAssumed
    <2>4. QED
        BY <1>7, <1>9, <2>2, <2>3 DEF Bundle!QualityVerifies, Bundle!TimingVerifies
<1>17. Steady(r, b)
    BY <1>2, <1>3, <1>9, <1>13, <1>15, <1>16 DEF Steady
<1>18. GoodReceipt(b.quality) /\ GoodTiming(b.timing)
    BY <1>2, <1>7, <1>9
<1>19. QED
    BY <1>9, <1>13, <1>14, <1>17, <1>18, FetchWrites

LEMMA FetchReports ==
  ASSUME BundleInv, NEW f \in Fetchers, Bundle!Report(f) PROVE BundleInv'
<1>1. PICK x : x = fetchers[f]
    OBVIOUS
<1>2. /\ bundle \in Bundles /\ x \in Fetches /\ Steady(x, bundle) /\ x.pc = "done"
    BY <1>1, BundleAt DEF Bundle!Report, Bundle!At
<1>3. PICK z : z = Bundle!End(f, "ok")
    OBVIOUS
<1>4. "ok" \in Bundle!Outcomes
    BY DEF Bundle!Outcomes
<1>5. /\ z \in Fetches /\ z.pc = "ended" /\ z.outcome = "ok" /\ z.alone = x.alone
    BY <1>1, <1>2, <1>3, <1>4, FetchEnded
<1>6. PICK timed : timed = (x.timed \/ (Bundle!NewText(f) /\ x.new.timing # None))
    OBVIOUS
<1>7. timed \in BOOLEAN
    BY <1>2, <1>6 DEF Fetches
<1>8. PICK r : r = [z EXCEPT !.timed = timed]
    OBVIOUS
<1>9. r \in Fetches /\ r.pc = "ended" /\ r.outcome = "ok" /\ r.alone = x.alone /\ r.timed = timed
    BY <1>5, <1>7, <1>8 DEF Fetches
<1>10. Bundle!Upd(f, r)
    BY <1>1, <1>3, <1>6, <1>8 DEF Bundle!Report
<1>11. Bundle!NewText(f) => x.plan = Renews
    <2>1. x.plan \in {<<>>, Amends, Renews}
        BY <1>2 DEF Fetches
    <2>2. QED
        BY <1>1, <2>1, PlansDiffer DEF Bundle!NewText
<1>12. x.alone => /\ Bundle!QualityVerifies(bundle)
                  /\ timed => Bundle!TimingVerifies(bundle)
    BY <1>2, <1>6, <1>11 DEF Steady, Alone
<1>13. Steady(r, bundle)
    BY <1>9, <1>12 DEF Steady, Alone
<1>14. QED
    BY <1>9, <1>10, <1>13, FetchQuiet DEF Bundle!Report

LEMMA BundleStarts ==
  ASSUME Bundle!Init PROVE BundleInv
<1>1. PICK recording \in Recordings, local \in BOOLEAN,
           text \in {None} \union {Bundle!Text("captions", size) : size \in Tracks} :
        bundle = [text |-> text, timing |-> None, quality |-> None,
                  recording |-> recording, local |-> local, take |-> 0, changes |-> 0]
    BY DEF Bundle!Init
<1>2. text \in Bundle!Texts \union {None}
    BY <1>1, BundleAssumed DEF Bundle!Text, Bundle!Texts, Bundle!Wording
<1>3. bundle \in Bundles /\ bundle.quality = None /\ bundle.timing = None
    BY <1>1, <1>2 DEF Bundles
<1>4. fetchers = [f \in Fetchers |-> Bundle!Idle]
    BY DEF Bundle!Init
<1>5. PICK i : i = Bundle!Idle
    OBVIOUS
<1>6. i \in Fetches /\ i.pc = "idle" /\ i.outcome = None
    BY <1>5, IdleTyped
<1>7. Steady(i, bundle)
    BY <1>6, BundleAssumed DEF Steady, Alone, Bundle!Outcomes
<1>8. QED
    BY <1>3, <1>4, <1>5, <1>6, <1>7 DEF BundleInv, BundleTyped, GoodReceipt, GoodTiming

LEMMA BundleNext ==
  ASSUME BundleInv, [Bundle!Next]_(Bundle!bundle_vars) PROVE BundleInv'
<1>1. CASE Bundle!Change
    BY <1>1, OwnerChanges
<1>2. ASSUME NEW f \in Fetchers, Bundle!Fetch(f) PROVE BundleInv'
    <2>1. CASE Bundle!Refuse(f)
        BY <2>1, FetchEnds DEF Bundle!Refuse
    <2>2. CASE Bundle!NothingFetched(f)
        BY <2>2, FetchEnds DEF Bundle!NothingFetched
    <2>3. CASE Bundle!Killed(f)
        BY <2>3, FetchEnds DEF Bundle!Killed
    <2>4. CASE Bundle!Start(f) \/ Bundle!LookForText(f) \/ Bundle!Judge(f)
        BY <2>4, FetchStarts, FetchLooks, FetchJudges
    <2>5. CASE Bundle!FetchCaptions(f) \/ Bundle!Transcribe(f) \/ Bundle!Stage(f)
        BY <2>5, FetchGetsCaptions, FetchTranscribes, FetchStages
    <2>6. CASE Bundle!Guard(f) \/ Bundle!Install(f) \/ Bundle!Rollback(f)
        BY <2>6, FetchGuards, FetchInstalls, FetchRollsBack
    <2>7. CASE Bundle!TimingEnds(f) \/ Bundle!Enrich(f) \/ Bundle!Report(f)
        BY <2>7, FetchTimed, FetchEnriches, FetchReports
    <2>8. QED
        BY <1>2, <2>1, <2>2, <2>3, <2>4, <2>5, <2>6, <2>7 DEF Bundle!Fetch
<1>3. CASE UNCHANGED Bundle!bundle_vars
    <2>1. UNCHANGED <<bundle, fetchers>>
        BY <1>3 DEF Bundle!bundle_vars
    <2>2. PICK b : b = bundle /\ b = bundle'
        BY <2>1
    <2>3. PICK s : s = fetchers /\ s = fetchers'
        BY <2>1
    <2>4. QED
        BY <2>2, <2>3 DEF BundleInv, BundleTyped
<1>4. QED
    BY <1>1, <1>2, <1>3 DEF Bundle!Next

LEMMA BundleHonest ==
  ASSUME BundleInv PROVE Bundle!ReceiptsHonest
<1>1. PICK b : b = bundle
    OBVIOUS
<1>2. GoodReceipt(b.quality) /\ GoodTiming(b.timing)
    BY <1>1 DEF BundleInv, BundleTyped
<1>3. Bundle!QualityVerifies(b) => Bundle!Fits(b.text, b.quality.recording)
    <2>1. SUFFICES ASSUME Bundle!QualityVerifies(b)
                   PROVE  Bundle!Fits(b.text, b.quality.recording)
        OBVIOUS
    <2>2. b.quality # None /\ b.quality.of = b.text
        BY <2>1 DEF Bundle!QualityVerifies
    <2>3. QED
        BY <1>2, <2>2 DEF GoodReceipt
<1>4. Bundle!TimingVerifies(b) =>
        IF b.timing.source = "captions" THEN b.text.origin \in Bundle!Wording
        ELSE b.text.origin = b.timing.recording
    <2>1. SUFFICES ASSUME Bundle!TimingVerifies(b)
                   PROVE  IF b.timing.source = "captions" THEN b.text.origin \in Bundle!Wording
                          ELSE b.text.origin = b.timing.recording
        OBVIOUS
    <2>2. b.timing # None /\ b.timing.of = b.text
        BY <2>1 DEF Bundle!TimingVerifies
    <2>3. QED
        BY <1>2, <2>2 DEF GoodTiming
<1>5. QED
    BY <1>1, <1>3, <1>4 DEF Bundle!ReceiptsHonest

LEMMA BundleTells ==
  ASSUME BundleInv PROVE Bundle!ReportTrue
<1>1. PICK b : b = bundle
    OBVIOUS
<1>2. ASSUME NEW f \in Fetchers
      PROVE  /\ fetchers[f].outcome = "ok" /\ fetchers[f].alone =>
                  /\ Bundle!QualityVerifies(b)
                  /\ fetchers[f].timed => Bundle!TimingVerifies(b)
             /\ fetchers[f].outcome = "failed" /\ fetchers[f].alone /\ ~fetchers[f].incomplete =>
                  \A k \in Bundle!Files : b[k] = fetchers[f].base[k]
    <2>1. PICK x : x = fetchers[f]
        OBVIOUS
    <2>2. Steady(x, b)
        BY <1>1, <2>1, BundleAt
    <2>3. x.alone => Alone(x, b)
        BY <2>2 DEF Steady
    <2>4. QED
        BY <2>1, <2>3 DEF Alone, Same
<1>3. QED
    BY <1>1, <1>2 DEF Bundle!ReportTrue

LEMMA BundleTypes ==
  ASSUME BundleInv PROVE Bundle!TypeOK
<1>1. bundle \in Bundles /\ \A f \in Fetchers : fetchers[f] \in Fetches
    BY DEF BundleInv, BundleTyped
<1>2. QED
    BY <1>1 DEF Bundle!TypeOK, Bundles, Fetches

(* Whoever sees another's write has not been alone. *)
LEMMA NotAlone ==
  ASSUME BundleInv, NEW f \in Fetchers, ~Bundle!At(f, "idle"),
         NEW g, NEW r, NEW b, Bundle!Write(g, r, b), f # g, bundle' # bundle
  PROVE  ~fetchers'[f].alone
<1>1. PICK x : x = fetchers[f]
    OBVIOUS
<1>2. x \in Fetches /\ x.pc # "idle"
    BY <1>1, BundleAt DEF Bundle!At
<1>3. PICK s : s = fetchers'
    OBVIOUS
<1>4. s = [h \in Fetchers |->
             IF h = g THEN r
             ELSE [fetchers[h] EXCEPT !.alone = @ /\ (b = bundle \/ Bundle!At(h, "idle"))]]
    BY <1>3 DEF Bundle!Write
<1>5. b # bundle
    BY DEF Bundle!Write
<1>6. s[f] = [x EXCEPT !.alone = @ /\ (b = bundle \/ Bundle!At(f, "idle"))]
    BY <1>1, <1>4
<1>7. PICK e : e = (x.alone /\ (b = bundle \/ Bundle!At(f, "idle")))
    OBVIOUS
<1>8. s[f] = [x EXCEPT !.alone = e]
    BY <1>6, <1>7
<1>9. s[f].alone = e
    BY <1>2, <1>8 DEF Fetches
<1>10. QED
    BY <1>3, <1>5, <1>7, <1>9

(* What a text, and what a verified receipt knows, survive. *)
Spares(a, b) ==
  /\ a.text # None => b.text = a.text
  /\ a.text # None /\ Bundle!QualityVerifies(a) /\ a.quality.recording # None =>
       b.quality # None /\ b.quality.recording # None

LEMMA InstallSpares ==
  ASSUME BundleInv, NEW f \in Fetchers, fetchers[f].pc = "install", fetchers[f].alone,
         ~fetchers[f].force, NEW b,
         b = [bundle EXCEPT ![fetchers[f].plan[fetchers[f].at]] =
                              fetchers[f].new[fetchers[f].plan[fetchers[f].at]]]
  PROVE  Spares(bundle, b)
<1>1. PICK x : x = fetchers[f]
    OBVIOUS
<1>2. bundle \in Bundles /\ x \in Fetches /\ Steady(x, bundle) /\ x.pc = "install"
    BY <1>1, BundleAt
<1>3. Alone(x, bundle) /\ Prepared(x, bundle)
    BY <1>1, <1>2 DEF Steady
<1>4. CASE x.plan = Amends
    <2>1. x.at = 1
        BY <1>2, <1>4, PlansDiffer DEF Steady
    <2>2. b = [bundle EXCEPT !["quality"] = x.new["quality"]]
        BY <1>1, <1>4, <2>1, PlansDiffer
    <2>3. PICK q : q = x.new.quality
        OBVIOUS
    <2>4. q \in Bundle!Receipts /\ q.recording = x.known
        BY <1>3, <1>4, <2>3, PlansDiffer DEF Prepared, Judgement
    <2>5. b.text = bundle.text /\ b.quality = q
        BY <1>2, <2>2, <2>3 DEF Bundles
    <2>6. Bundle!QualityVerifies(bundle) => x.known # None
        BY <1>2, <1>3, <1>4, PlansDiffer DEF Alone, Judged
    <2>7. q # None
        BY <2>4, BundleAssumed
    <2>8. QED
        BY <2>4, <2>5, <2>6, <2>7 DEF Spares
<1>5. CASE x.plan = Renews
    <2>1. bundle.text = None
        BY <1>1, <1>2, <1>3, <1>5 DEF Alone, Same
    <2>2. QED
        BY <2>1 DEF Spares
<1>6. QED
    BY <1>2, <1>4, <1>5 DEF Steady

LEMMA RollbackSpares ==
  ASSUME BundleInv, NEW f \in Fetchers, fetchers[f].pc = "rollback", fetchers[f].alone,
         ~fetchers[f].force, NEW b,
         b = [bundle EXCEPT ![fetchers[f].plan[fetchers[f].at]] =
                              fetchers[f].base[fetchers[f].plan[fetchers[f].at]]]
  PROVE  Spares(bundle, b)
<1>1. PICK x : x = fetchers[f]
    OBVIOUS
<1>2. bundle \in Bundles /\ x \in Fetches /\ Steady(x, bundle) /\ x.pc = "rollback"
    BY <1>1, BundleAt
<1>3. Alone(x, bundle)
    BY <1>1, <1>2 DEF Steady
<1>4. CASE x.plan = Amends
    <2>1. x.at = 1
        BY <1>2, <1>4, PlansDiffer DEF Steady
    <2>2. b = [bundle EXCEPT !["quality"] = x.base["quality"]]
        BY <1>1, <1>4, <2>1, PlansDiffer
    <2>3. bundle.quality = x.base["quality"]
        BY <1>2, <1>3, <1>4 DEF Alone, Same
    <2>4. b.text = bundle.text /\ b.quality = bundle.quality
        BY <1>2, <2>2, <2>3 DEF Bundles
    <2>5. QED
        BY <2>4 DEF Spares, Bundle!QualityVerifies
<1>5. CASE x.plan = Renews
    <2>1. bundle.text = None
        BY <1>1, <1>2, <1>3, <1>5 DEF Alone, Same
    <2>2. QED
        BY <2>1 DEF Spares
<1>6. QED
    BY <1>2, <1>4, <1>5 DEF Steady

(* Without force an invocation that is alone spares what the bundle holds. *)
LEMMA FetchSpares ==
  ASSUME BundleInv, NEW f \in Fetchers, NEW g \in Fetchers, Bundle!Fetch(g),
         ~Bundle!At(f, "idle"), ~fetchers[f].force, fetchers'[f].alone, bundle' # bundle
  PROVE  Spares(bundle, bundle')
<1>1. PICK x : x = fetchers[f]
    OBVIOUS
<1>2. bundle \in Bundles /\ x \in Fetches
    BY <1>1, BundleAt
<1>3. PICK r, b : Bundle!Write(g, r, b) /\
        \/ /\ g \in Fetchers /\ Bundle!Install(g)
           /\ b = [bundle EXCEPT ![fetchers[g].plan[fetchers[g].at]] =
                                   fetchers[g].new[fetchers[g].plan[fetchers[g].at]]]
           /\ r.alone = fetchers[g].alone
        \/ /\ Bundle!Rollback(g)
           /\ b = [bundle EXCEPT ![fetchers[g].plan[fetchers[g].at]] =
                                   fetchers[g].base[fetchers[g].plan[fetchers[g].at]]]
           /\ r.alone = fetchers[g].alone
        \/ /\ b.text = bundle.text /\ b.quality = bundle.quality
    <2>1. PICK y : y = fetchers[g]
        OBVIOUS
    <2>2. y \in Fetches
        BY <2>1, BundleAt
    <2>3. CASE Bundle!Install(g)
        <3>1. PICK r : r = IF y.at < Len(y.plan) THEN [y EXCEPT !.at = y.at + 1]
                   ELSE Bundle!Goto(g, IF Bundle!NewText(g) THEN "done" ELSE "timing")
            OBVIOUS
        <3>2. r.alone = y.alone
            <4>1. PICK z \in {y.at + 1} : z = y.at + 1
                OBVIOUS
            <4>2. PICK pc \in {"done", "timing"} :
                    pc = IF Bundle!NewText(g) THEN "done" ELSE "timing"
                OBVIOUS
            <4>3. r = [y EXCEPT !.at = z] \/ r = [y EXCEPT !.pc = pc]
                BY <2>1, <3>1, <4>1, <4>2 DEF Bundle!Goto
            <4>4. QED
                BY <2>2, <4>3 DEF Fetches
        <3>3. PICK b : b = [bundle EXCEPT ![y.plan[y.at]] = y.new[y.plan[y.at]]]
            OBVIOUS
        <3>4. Bundle!Write(g, r, b)
            BY <2>1, <2>3, <3>1, <3>3 DEF Bundle!Install
        <3>5. QED
            BY <2>1, <2>3, <3>2, <3>3, <3>4
    <2>4. CASE Bundle!Rollback(g)
        <3>1. PICK r : r = IF y.at = 1 THEN Bundle!End(g, "failed")
                           ELSE [y EXCEPT !.at = y.at - 1]
            OBVIOUS
        <3>2. r.alone = y.alone
            <4>1. PICK z \in {y.at - 1} : z = y.at - 1
                OBVIOUS
            <4>2. "failed" \in Bundle!Outcomes
                BY DEF Bundle!Outcomes
            <4>3. CASE y.at = 1
                <5>1. r = Bundle!End(g, "failed")
                    BY <3>1, <4>3
                <5>2. QED
                    BY <2>1, <2>2, <4>2, <5>1, FetchEnded
            <4>4. CASE y.at # 1
                <5>1. r = [y EXCEPT !.at = z]
                    BY <3>1, <4>1, <4>4
                <5>2. QED
                    BY <2>2, <5>1 DEF Fetches
            <4>5. QED
                BY <4>3, <4>4
        <3>3. PICK b : b = [bundle EXCEPT ![y.plan[y.at]] = y.base[y.plan[y.at]]]
            OBVIOUS
        <3>4. Bundle!Write(g, r, b)
            BY <2>1, <2>4, <3>1, <3>3 DEF Bundle!Rollback
        <3>5. QED
            BY <2>1, <2>4, <3>2, <3>3, <3>4
    <2>5. CASE Bundle!Enrich(g)
        <3>1. PICK size \in Tracks :
                Bundle!Write(g, [Bundle!Goto(g, "done") EXCEPT !.timed = TRUE],
                  [bundle EXCEPT !.timing = Bundle!Timing(y.seen, "captions", y.known)])
            BY <2>1, <2>5 DEF Bundle!Enrich
        <3>2. PICK r : r = [Bundle!Goto(g, "done") EXCEPT !.timed = TRUE]
            OBVIOUS
        <3>3. PICK b : b = [bundle EXCEPT !.timing = Bundle!Timing(y.seen, "captions", y.known)]
            OBVIOUS
        <3>4. b.text = bundle.text /\ b.quality = bundle.quality
            <4>1. PICK t : t = Bundle!Timing(y.seen, "captions", y.known)
                OBVIOUS
            <4>2. b = [bundle EXCEPT !.timing = t]
                BY <3>3, <4>1
            <4>3. QED
                BY <1>2, <4>2 DEF Bundles
        <3>5. Bundle!Write(g, r, b)
            BY <3>1, <3>2, <3>3
        <3>6. QED
            BY <3>4, <3>5
    <2>6. QED
        BY <2>3, <2>4, <2>5
           DEF Bundle!Fetch, Bundle!Start, Bundle!Refuse, Bundle!LookForText, Bundle!Judge,
               Bundle!FetchCaptions, Bundle!Transcribe, Bundle!NothingFetched, Bundle!Stage,
               Bundle!Guard, Bundle!TimingEnds, Bundle!Report, Bundle!Killed,
               Bundle!Install, Bundle!Rollback
<1>4. f = g
    BY <1>3, NotAlone
<1>5. b = bundle' /\ fetchers'[f] = r
    BY <1>3, <1>4 DEF Bundle!Write
<1>6. CASE b.text = bundle.text /\ b.quality = bundle.quality
    <2>1. Spares(bundle, b)
        BY <1>6 DEF Spares, Bundle!QualityVerifies
    <2>2. QED
        BY <1>5, <2>1
<1>7. CASE /\ Bundle!Install(g) /\ r.alone = fetchers[g].alone
           /\ b = [bundle EXCEPT ![fetchers[g].plan[fetchers[g].at]] =
                                   fetchers[g].new[fetchers[g].plan[fetchers[g].at]]]
    <2>1. fetchers[f].pc = "install" /\ fetchers[f].alone
        BY <1>4, <1>5, <1>7 DEF Bundle!Install, Bundle!At
    <2>2. Spares(bundle, b)
        BY <1>4, <1>7, <2>1, InstallSpares
    <2>3. QED
        BY <1>5, <2>2
<1>8. CASE /\ Bundle!Rollback(g) /\ r.alone = fetchers[g].alone
           /\ b = [bundle EXCEPT ![fetchers[g].plan[fetchers[g].at]] =
                                   fetchers[g].base[fetchers[g].plan[fetchers[g].at]]]
    <2>1. fetchers[f].pc = "rollback" /\ fetchers[f].alone
        BY <1>4, <1>5, <1>8 DEF Bundle!Rollback, Bundle!At
    <2>2. Spares(bundle, b)
        BY <1>4, <1>8, <2>1, RollbackSpares
    <2>3. QED
        BY <1>5, <2>2
<1>9. QED
    BY <1>3, <1>6, <1>7, <1>8

LEMMA BundleKeepsEvidence ==
  ASSUME BundleInv, [Bundle!Next]_(Bundle!bundle_vars), NEW f \in Fetchers
  PROVE  ~Bundle!At(f, "idle") /\ ~fetchers[f].force /\ fetchers'[f].alone /\ bundle' # bundle
         => /\ bundle.text # None => bundle'.text = bundle.text
            /\ bundle.text # None /\ Bundle!QualityVerifies(bundle)
                 /\ bundle.quality.recording # None =>
                 bundle'.quality # None /\ bundle'.quality.recording # None
<1>1. SUFFICES ASSUME ~Bundle!At(f, "idle"), ~fetchers[f].force, fetchers'[f].alone,
                      bundle' # bundle
               PROVE  Spares(bundle, bundle')
    BY DEF Spares
<1>2. CASE Bundle!Change
    <2>1. PICK r, b : Bundle!Write(None, r, b)
        BY <1>2 DEF Bundle!Change
    <2>2. f # None
        BY BundleAssumed
    <2>3. QED
        BY <1>1, <2>1, <2>2, NotAlone
<1>3. ASSUME NEW g \in Fetchers, Bundle!Fetch(g) PROVE Spares(bundle, bundle')
    BY <1>1, <1>3, FetchSpares
<1>4. QED
    BY <1>1, <1>2, <1>3 DEF Bundle!Next, Bundle!bundle_vars

-----------------------------------------------------------------------------
(* The commands side by side: what a step of one may do to a record.         *)

RecordInv ==
  /\ SummaryInv
  /\ tool = "qr" => QrInv
  /\ tool = "bundle" => BundleInv

LEMMA OneCommandMoves ==
  ASSUME [Next]_vars
  PROVE  /\ tool' = tool
         /\ [Summary!Next]_summary_vars
         /\ UNCHANGED qr_vars \/ (tool = "qr" /\ Qr!Next)
         /\ UNCHANGED bundle_vars \/ (tool = "bundle" /\ Bundle!Next)
BY DEF Next, vars

LEMMA RecordStarts == Init => RecordInv
BY SummaryStart, QrStarting, BundleStarts DEF Init, RecordInv

LEMMA RecordMoves ==
  ASSUME RecordInv, [Next]_vars PROVE RecordInv'
<1>1. SummaryInv'
    BY OneCommandMoves, SummaryStep DEF RecordInv
<1>2. ASSUME tool = "qr" PROVE QrInv'
    BY <1>2, OneCommandMoves, QrNext DEF RecordInv
<1>3. ASSUME tool = "bundle" PROVE BundleInv'
    <2>1. [Bundle!Next]_(Bundle!bundle_vars)
        BY OneCommandMoves DEF bundle_vars, Bundle!bundle_vars
    <2>2. QED
        BY <1>3, <2>1, BundleNext DEF RecordInv
<1>4. QED
    BY <1>1, <1>2, <1>3, OneCommandMoves DEF RecordInv

Splicing ==
  \A run \in Summary!Runs :
    /\ Summary!At(run, "checked") /\ summary'.file # summary.file
    /\ ~Summary!At(run, "checked")'
    /\ renderers[run].edits = summary.file.prose
    => summary'.file = Summary!Spliced(run, summary.file)

Renewing ==
  summary.file.status >= 0 /\ summary'.file.status >= 0
    => summary'.file.status >= summary.file.status

Deciding ==
  \A p \in Publishers : Qr!At(p, "write") /\ Qr!At(p, "committed")' =>
    world.record = pubs[p].prior

Linking ==
  \A p \in Publishers :
    /\ Qr!At(p, "resolve") /\ Len(world'.links) > Len(world.links)
    /\ ~Qr!At(p, "resolve")'
    => ~(/\ world.record # None /\ world.record.link # 0
         /\ world.record.slugged /\ world.record.service = pubs[p].service)

Sparing ==
  \A f \in Fetchers :
    ~Bundle!At(f, "idle") /\ ~fetchers[f].force /\ fetchers'[f].alone /\ bundle' # bundle
    => /\ bundle.text # None => bundle'.text = bundle.text
       /\ bundle.text # None /\ Bundle!QualityVerifies(bundle)
            /\ bundle.quality.recording # None =>
            bundle'.quality # None /\ bundle'.quality.recording # None

(* However renders, links, fetches and edits interleave: an install of the summary
   replaces its own block and never by an older one, a run's commit meets the QR
   decision it was made from, no second managed link is made, and an unforced fetch
   that was alone neither replaces the text nor forgets the recording's length. *)
THEOREM RecordsAreKept == Spec => RecordsKept
<1>1. Init => RecordInv
    BY RecordStarts
<1>2. RecordInv /\ [Next]_vars => RecordInv'
    BY RecordMoves
<1>3. RecordInv /\ [Next]_vars => [Splicing]_<<summary, renderers>>
    <2>1. SUFFICES ASSUME RecordInv, [Next]_vars, ~UNCHANGED <<summary, renderers>>
                   PROVE  Splicing
        OBVIOUS
    <2>2. Summary!Next /\ SummaryInv
        BY <2>1, OneCommandMoves DEF RecordInv, summary_vars
    <2>3. QED
        BY <2>2, SummaryAssumed, NothingElse DEF Splicing
<1>4. RecordInv /\ [Next]_vars => [Renewing]_<<summary, renderers>>
    <2>1. SUFFICES ASSUME RecordInv, [Next]_vars, ~UNCHANGED <<summary, renderers>>
                   PROVE  Renewing
        OBVIOUS
    <2>2. Summary!Next /\ SummaryInv
        BY <2>1, OneCommandMoves DEF RecordInv, summary_vars
    <2>3. SUFFICES ASSUME 0 <= summary.file.status, 0 <= summary'.file.status
                   PROVE  summary.file.status <= summary'.file.status
        BY DEF Renewing
    <2>4. QED
        BY <2>2, <2>3, StatusNewer
<1>5. RecordInv /\ [Next]_vars => [Deciding]_<<world, pubs>>
    <2>1. SUFFICES ASSUME RecordInv, [Next]_vars, ~UNCHANGED <<world, pubs>>
                   PROVE  Deciding
        OBVIOUS
    <2>2. Qr!Next /\ QrInv
        BY <2>1, OneCommandMoves DEF RecordInv, qr_vars
    <2>3. QED
        BY <2>2, QrKeepsDecision DEF Deciding, Qr!At
<1>6. RecordInv /\ [Next]_vars => [Linking]_<<world, pubs>>
    <2>1. SUFFICES ASSUME RecordInv, [Next]_vars, ~UNCHANGED <<world, pubs>>
                   PROVE  Linking
        OBVIOUS
    <2>2. Qr!Next /\ QrInv
        BY <2>1, OneCommandMoves DEF RecordInv, qr_vars
    <2>3. QED
        BY <2>2, QrMakesOne DEF Linking, Qr!At
<1>7. RecordInv /\ [Next]_vars => [Sparing]_<<bundle, fetchers>>
    <2>1. SUFFICES ASSUME RecordInv, [Next]_vars, ~UNCHANGED <<bundle, fetchers>>
                   PROVE  Sparing
        OBVIOUS
    <2>2. [Bundle!Next]_(Bundle!bundle_vars) /\ BundleInv
        BY <2>1, OneCommandMoves DEF RecordInv, bundle_vars, Bundle!bundle_vars
    <2>3. QED
        BY <2>2, BundleKeepsEvidence DEF Sparing
<1>8. Spec => [][Next]_vars
    BY PTL DEF Spec
<1>9. Spec => /\ [][Splicing]_<<summary, renderers>> /\ [][Renewing]_<<summary, renderers>>
              /\ [][Deciding]_<<world, pubs>> /\ [][Linking]_<<world, pubs>>
              /\ [][Sparing]_<<bundle, fetchers>>
    BY <1>1, <1>2, <1>3, <1>4, <1>5, <1>6, <1>7, <1>8, PTL DEF Spec
<1>10. QED
    BY <1>9 DEF RecordsKept, Summary!BlocksKept, Summary!NothingElseReplaced,
                Summary!StatusNeverOlder, Qr!DecisionKept, Qr!OneManagedLink,
                Bundle!EvidenceKept, Splicing, Renewing, Deciding, Linking, Sparing,
                Summary!summary_vars, Qr!qr_vars, Bundle!bundle_vars
=============================================================================

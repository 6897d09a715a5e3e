--------------------------- MODULE AnalysisBatchProofs ---------------------------
(* What atomic_write_batch of write-analysis.py leaves behind, for any output
   directory, any disturbances and any bounds. The types hold for any number of
   processes; the other theorems are of one process, because write-analysis.py
   takes no lock: two batches over one file would move each other's work. *)
EXTENDS AnalysisBatch, TLAPS

(* No other process writes analyses meanwhile. *)
SoleWriter == \A v, w \in Writer : v = w

-----------------------------------------------------------------------------
(* The inductive invariant                                                 *)

Looping == {"inspect", "mkstemp", "move", "record", "install", "mark", "confirm"}
Unwinding == {"unwind", "restore", "forget"}
Working == {"stage", "recheck", "clear", "restore", "forget"} \union Looping

(* Which item a process is working on, and what it may say about its run. *)
Shape(w) ==
    /\ IF pc[w] = "idle" THEN batch[w] = <<>> ELSE batch[w] \in Batches
    /\ pc[w] \in Working => at[w] \in 1..Len(batch[w])
    /\ pc[w] = "unwind" => at[w] \in 0..Len(batch[w])
    /\ pc[w] # "done" => result[w] = "none"
    /\ hit[w] => /\ pc[w] \in Unwinding \union {"done", "crashed"}
                 /\ pc[w] = "done" => result[w] = "interrupted"

(* The target is as the run found it; a directory may have taken a free name. *)
Stays(w, t) ==
    \/ disk[t] = prior[w][t]
    \/ prior[w][t] = Absent /\ disk[t] = Directory

(* The old file is under the backup name on record, or there was none. *)
Aside(w, t) ==
    /\ t \in recorded[w]
    /\ saved[w][t] = prior[w][t] /\ prior[w][t] \in Content
Backed(w, t) ==
    \/ Aside(w, t)
    \/ t \notin recorded[w] /\ saved[w][t] = Absent /\ prior[w][t] = Absent

Vacant(t) == disk[t] \in {Absent, Directory}
Filled(w, t) == disk[t] \in {w, Stranger}
Unmarked(w, t) == t \notin marked[w] /\ t \notin unproven[w]

(* An item before its turn, and one that is in place. *)
Fresh(w, t) ==
    Stays(w, t) /\ saved[w][t] = Absent /\ t \notin recorded[w] /\ Unmarked(w, t)
Placed(w, t) ==
    /\ t \in marked[w] /\ Backed(w, t) /\ Filled(w, t)
    /\ t \notin unproven[w] => disk[t] = w

(* The item at hand, by the step that comes next. *)
AtHand(w, t) ==
    /\ pc[w] = "inspect" => Fresh(w, t)
    /\ pc[w] = "mkstemp" => Fresh(w, t) /\ disk[t] = prior[w][t] /\ disk[t] \in Content
    /\ pc[w] = "move" => /\ disk[t] = prior[w][t] /\ disk[t] \in Content
                         /\ t \notin recorded[w] /\ Unmarked(w, t)
    /\ pc[w] = "record" => /\ Vacant(t) /\ t \notin recorded[w] /\ Unmarked(w, t)
                           /\ saved[w][t] = prior[w][t] /\ prior[w][t] \in Content
    /\ pc[w] = "install" => Vacant(t) /\ Backed(w, t) /\ Unmarked(w, t)
    /\ pc[w] = "mark" => Filled(w, t) /\ Backed(w, t) /\ Unmarked(w, t)
    /\ pc[w] = "confirm" => /\ Filled(w, t) /\ Backed(w, t)
                            /\ t \in marked[w] /\ t \notin unproven[w]

(* Once the batch is in place, only unverified targets need their backups. *)
Kept(w, t) ==
    IF t \in unproven[w] THEN Backed(w, t) ELSE disk[t] = w

(* While unwinding: an item before its turn, the one whose file was removed, and
   one that is restored or left as it is after an error. *)
Undone(w, t) ==
    \/ t \notin marked[w] /\ t \notin recorded[w] /\ Stays(w, t)
    \/ t \notin marked[w] /\ Aside(w, t) /\ Vacant(t)
    \/ t \in marked[w] /\ Backed(w, t) /\ Filled(w, t)
Removed(w, t) ==
    \/ t \notin recorded[w] /\ Stays(w, t)
    \/ Aside(w, t) /\ Vacant(t)
Settled(w, t) ==
    \/ t \notin recorded[w] /\ Stays(w, t)
    \/ failing[w] /\ (Aside(w, t) \/ prior[w][t] = Absent)

Safe(w, t) ==
    \/ prior[w][t] \in {Absent, Directory}
    \/ prior[w][t] \in {disk[t], saved[w][t]}

(* Where every item of an uninterrupted run stands. *)
Position(w) ==
    /\ pc[w] \in {"stage", "recheck"} => \A i \in DOMAIN batch[w] : Fresh(w, batch[w][i])
    /\ pc[w] = "recheck" => at[w] = 1
    /\ pc[w] \in Looping =>
           /\ AtHand(w, Current(w))
           /\ \A i \in DOMAIN batch[w] :
                  /\ i < at[w] => Placed(w, batch[w][i])
                  /\ i > at[w] => Fresh(w, batch[w][i])
    /\ pc[w] = "clear" => \A i \in DOMAIN batch[w] : Kept(w, batch[w][i])
    /\ pc[w] \in Unwinding =>
           \A i \in DOMAIN batch[w] :
               /\ i > at[w] => Settled(w, batch[w][i])
               /\ i < at[w] => Undone(w, batch[w][i])
    /\ pc[w] = "unwind" /\ at[w] > 0 => Undone(w, Current(w))
    /\ pc[w] = "restore" => Removed(w, Current(w))
    /\ pc[w] = "forget" => /\ disk[Current(w)] = prior[w][Current(w)]
                           /\ disk[Current(w)] \in Content
    /\ pc[w] = "done" =>
           \A i \in DOMAIN batch[w] :
               /\ result[w] = "rejected" => Stays(w, batch[w][i])
               /\ result[w] \in {"installed", "unverified"} => Kept(w, batch[w][i])
               /\ result[w] \in {"restored", "unrestored"} => Settled(w, batch[w][i])
    /\ pc[w] = "done" => result[w] \in
           {"rejected", "installed", "unverified", "restored", "unrestored"}
    /\ result[w] = "installed" => unproven[w] = {}
    /\ result[w] = "restored" => ~failing[w]
    /\ pc[w] # "crashed" =>
           (committed[w] <=> pc[w] = "clear" \/ result[w] \in {"installed", "unverified"})
    /\ pc[w] = "crashed" =>
           \A i \in DOMAIN batch[w] :
               ~committed[w] \/ batch[w][i] \in unproven[w] => Safe(w, batch[w][i])

TypeInv == TypeOK /\ \A w \in Writer : Shape(w)
BatchInv == \A w \in Writer : ~hit[w] => Position(w)

-----------------------------------------------------------------------------
(* Batches                                                                 *)

LEMMA BatchFields ==
    ASSUME NEW b \in Batches
    PROVE  /\ Len(b) \in 1..MaxBatch /\ Len(b) \in 0..MaxBatch /\ Len(b) \in Nat
           /\ DOMAIN b = 1..Len(b)
           /\ \A i \in DOMAIN b : b[i] \in Target
           /\ \A i, j \in DOMAIN b : b[i] = b[j] => i = j
<1>1. PICK n \in 1..MaxBatch :
        b \in {c \in [1..n -> Target] : \A i, j \in 1..n : c[i] = c[j] => i = j}
    BY DEF Batches
<1>2. n \in Nat /\ MaxBatch \in Nat
    BY BatchBoundAssumption
<1>3. Len(b) = n /\ DOMAIN b = 1..n
    BY <1>1, <1>2
<1>4. QED
    BY <1>1, <1>2, <1>3

LEMMA CurrentItem ==
    ASSUME TypeInv, NEW w \in Writer,
           pc[w] \in Working \/ (pc[w] = "unwind" /\ at[w] > 0)
    PROVE  /\ batch[w] \in Batches
           /\ at[w] \in 1..Len(batch[w]) /\ at[w] \in DOMAIN batch[w] /\ at[w] \in Nat
           /\ Current(w) \in Target
           /\ \A i \in DOMAIN batch[w] :
                  batch[w][i] \in Target /\ (i # at[w] => batch[w][i] # Current(w))
<1>1. Shape(w) /\ pc[w] # "idle"
    BY DEF TypeInv, Working, Looping
<1>2. batch[w] \in Batches
    BY <1>1 DEF Shape
<1>3. at[w] \in 1..Len(batch[w])
    BY <1>1, <1>2, BatchFields DEF Shape
<1>4. at[w] \in DOMAIN batch[w]
    BY <1>2, <1>3, BatchFields
<1>5. QED
    BY <1>2, <1>3, <1>4, BatchFields DEF Current

LEMMA SavedTyped ==
    ASSUME NEW S, NEW f \in [Writer -> [Target -> S]],
           NEW w \in Writer, NEW t \in Target, NEW x \in S
    PROVE  [f EXCEPT ![w][t] = x] \in [Writer -> [Target -> S]]
OBVIOUS

LEMMA ItemNumbers ==
    ASSUME TypeInv, NEW w \in Writer,
           pc[w] \in Working \/ (pc[w] = "unwind" /\ at[w] > 0)
    PROVE  /\ 1 \in 0..MaxBatch /\ at[w] \in 0..MaxBatch /\ at[w] - 1 \in 0..MaxBatch
           /\ at[w] # Len(batch[w]) => at[w] + 1 \in 0..MaxBatch
           /\ Len(batch[w]) \in 0..MaxBatch /\ Current(w) \in Target
<1>1. MaxBatch \in Nat
    BY BatchBoundAssumption
<1>2. Len(batch[w]) \in 1..MaxBatch /\ at[w] \in 1..Len(batch[w]) /\ Current(w) \in Target
    BY CurrentItem, BatchFields
<1>3. QED
    BY <1>1, <1>2

(* A process whose own variables a step leaves alone keeps its shape. *)
LEMMA ShapeStays ==
    ASSUME NEW u, Shape(u), pc'[u] = pc[u], batch'[u] = batch[u], at'[u] = at[u],
           result'[u] = result[u], hit'[u] = hit[u]
    PROVE  Shape(u)'
BY DEF Shape

-----------------------------------------------------------------------------
(* Types                                                                   *)

LEMMA StageItemTyped ==
    ASSUME TypeInv, NEW w \in Writer, StageItem(w)
    PROVE  TypeInv'
<1>1. TypeOK /\ Shape(w)
    BY DEF TypeInv
<1>2. batch[w] \in Batches => Len(batch[w]) \in 1..MaxBatch /\ MaxBatch \in Nat
    BY BatchFields, BatchBoundAssumption
<1>3. pc[w] \in Working \/ (pc[w] = "unwind" /\ at[w] > 0) =>
        /\ at[w] \in 1..Len(batch[w]) /\ Current(w) \in Target
    BY CurrentItem
<1>4. TypeOK'
    <2>0. Current(w) \in Target
        BY ItemNumbers DEF StageItem, Working, Looping
    <2>1. UNCHANGED <<disk, saved, batch, recorded, marked, unproven, failing, hit,
                      committed, result, prior, runs, meddling>>
        BY DEF StageItem
    <2>2. stage' = stage \/
            \E x \in [Target -> {"none", "own", "other"}] : stage' = [stage EXCEPT ![w] = x]
        BY <1>1, ItemNumbers DEF StageItem, Working, Looping, TypeOK, Goto
    <2>3. stage' \in [Writer -> [Target -> {"none", "own", "other"}]]
        BY <1>1, <2>2 DEF TypeOK
    <2>4. pc' = pc \/ \E x \in Phase : pc' = [pc EXCEPT ![w] = x]
        BY <1>1, ItemNumbers DEF StageItem, Goto, GoAt, Advance, Working, Looping,
           TypeOK, Phase
    <2>5. pc' \in [Writer -> Phase]
        BY <1>1, <2>4 DEF TypeOK
    <2>6. at' = at \/ \E x \in 0..MaxBatch : at' = [at EXCEPT ![w] = x]
        BY <1>1, ItemNumbers DEF StageItem, GoAt, Advance, Working, Looping,
           TypeOK, Goto
    <2>7. at' \in [Writer -> 0..MaxBatch]
        BY <1>1, <2>6 DEF TypeOK
    <2> QED
        BY <1>1, <2>1, <2>3, <2>5, <2>7 DEF TypeOK
<1>5. Shape(w)'
    BY <1>1, <1>2, <1>3 DEF StageItem, TypeOK, Shape, Working, Looping, Unwinding,
       Goto, GoAt, Advance
<1>6. ASSUME NEW u \in Writer, u # w PROVE Shape(u)'
    BY <1>1, <1>6, ShapeStays DEF StageItem, TypeInv, TypeOK, Goto, GoAt, Advance
<1>7. QED
    BY <1>4, <1>5, <1>6 DEF TypeInv

LEMMA StageFaultTyped ==
    ASSUME TypeInv, NEW w \in Writer, StageFault(w)
    PROVE  TypeInv'
<1>1. TypeOK /\ Shape(w)
    BY DEF TypeInv
<1>2. batch[w] \in Batches => Len(batch[w]) \in 1..MaxBatch /\ MaxBatch \in Nat
    BY BatchFields, BatchBoundAssumption
<1>3. pc[w] \in Working \/ (pc[w] = "unwind" /\ at[w] > 0) =>
        /\ at[w] \in 1..Len(batch[w]) /\ Current(w) \in Target
    BY CurrentItem
<1>4. TypeOK'
    BY <1>1, <1>2, <1>3 DEF StageFault, TypeOK, Shape, Working, Looping, Entry,
       Content, Phase, Outcome, Goto, Release, Finish
<1>5. Shape(w)'
    BY <1>1, <1>2, <1>3 DEF StageFault, TypeOK, Shape, Working, Looping, Unwinding,
       Goto, Release, Finish
<1>6. ASSUME NEW u \in Writer, u # w PROVE Shape(u)'
    BY <1>1, <1>6, ShapeStays DEF StageFault, TypeInv, TypeOK, Goto, Release, Finish
<1>7. QED
    BY <1>4, <1>5, <1>6 DEF TypeInv

LEMMA RecheckTyped ==
    ASSUME TypeInv, NEW w \in Writer, Recheck(w)
    PROVE  TypeInv'
<1>1. TypeOK /\ Shape(w)
    BY DEF TypeInv
<1>2. batch[w] \in Batches => Len(batch[w]) \in 1..MaxBatch /\ MaxBatch \in Nat
    BY BatchFields, BatchBoundAssumption
<1>3. pc[w] \in Working \/ (pc[w] = "unwind" /\ at[w] > 0) =>
        /\ at[w] \in 1..Len(batch[w]) /\ Current(w) \in Target
    BY CurrentItem
<1>4. TypeOK'
    <2>0. Current(w) \in Target
        BY ItemNumbers DEF Recheck, Working, Looping
    <2>1. UNCHANGED <<disk, stage, saved, batch, recorded, marked, unproven, hit,
                      committed, result, prior, runs, meddling>>
        BY DEF Recheck
    <2>2. pc' = pc \/ \E x \in Phase : pc' = [pc EXCEPT ![w] = x]
        BY <1>1, ItemNumbers DEF Recheck, Goto, GoAt, Fail, Working, Looping,
           TypeOK, Phase
    <2>3. pc' \in [Writer -> Phase]
        BY <1>1, <2>2 DEF TypeOK
    <2>4. at' = at \/ \E x \in 0..MaxBatch : at' = [at EXCEPT ![w] = x]
        BY <1>1, ItemNumbers DEF Recheck, GoAt, Fail, Working, Looping, TypeOK, Goto
    <2>5. at' \in [Writer -> 0..MaxBatch]
        BY <1>1, <2>4 DEF TypeOK
    <2>6. failing' \in [Writer -> BOOLEAN]
        BY <1>1 DEF Recheck, Fail, Working, Looping, TypeOK, Goto
    <2> QED
        BY <1>1, <2>1, <2>3, <2>5, <2>6 DEF TypeOK
<1>5. Shape(w)'
    BY <1>1, <1>2, <1>3 DEF Recheck, TypeOK, Shape, Working, Looping, Unwinding,
       Goto, GoAt, Fail
<1>6. ASSUME NEW u \in Writer, u # w PROVE Shape(u)'
    BY <1>1, <1>6, ShapeStays DEF Recheck, TypeInv, TypeOK, Goto, GoAt, Fail
<1>7. QED
    BY <1>4, <1>5, <1>6 DEF TypeInv

LEMMA InspectTyped ==
    ASSUME TypeInv, NEW w \in Writer, Inspect(w)
    PROVE  TypeInv'
<1>1. TypeOK /\ Shape(w)
    BY DEF TypeInv
<1>2. batch[w] \in Batches => Len(batch[w]) \in 1..MaxBatch /\ MaxBatch \in Nat
    BY BatchFields, BatchBoundAssumption
<1>3. pc[w] \in Working \/ (pc[w] = "unwind" /\ at[w] > 0) =>
        /\ at[w] \in 1..Len(batch[w]) /\ Current(w) \in Target
    BY CurrentItem
<1>4. TypeOK'
    <2>0. Current(w) \in Target
        BY ItemNumbers DEF Inspect, Working, Looping
    <2>1. UNCHANGED <<disk, stage, saved, batch, recorded, marked, unproven, hit,
                      committed, result, prior, runs, meddling>>
        BY DEF Inspect
    <2>2. pc' = pc \/ \E x \in Phase : pc' = [pc EXCEPT ![w] = x]
        BY <1>1, ItemNumbers DEF Inspect, Goto, GoAt, Fail, Working, Looping,
           TypeOK, Phase
    <2>3. pc' \in [Writer -> Phase]
        BY <1>1, <2>2 DEF TypeOK
    <2>4. at' = at \/ \E x \in 0..MaxBatch : at' = [at EXCEPT ![w] = x]
        BY <1>1, ItemNumbers DEF Inspect, GoAt, Fail, Working, Looping, TypeOK, Goto
    <2>5. at' \in [Writer -> 0..MaxBatch]
        BY <1>1, <2>4 DEF TypeOK
    <2>6. failing' \in [Writer -> BOOLEAN]
        BY <1>1 DEF Inspect, Fail, Working, Looping, TypeOK, Goto
    <2> QED
        BY <1>1, <2>1, <2>3, <2>5, <2>6 DEF TypeOK
<1>5. Shape(w)'
    BY <1>1, <1>2, <1>3 DEF Inspect, TypeOK, Shape, Working, Looping, Unwinding,
       Goto, GoAt, Fail
<1>6. ASSUME NEW u \in Writer, u # w PROVE Shape(u)'
    BY <1>1, <1>6, ShapeStays DEF Inspect, TypeInv, TypeOK, Goto, GoAt, Fail
<1>7. QED
    BY <1>4, <1>5, <1>6 DEF TypeInv

LEMMA MakeBackupTyped ==
    ASSUME TypeInv, NEW w \in Writer, MakeBackup(w)
    PROVE  TypeInv'
<1>1. TypeOK /\ Shape(w)
    BY DEF TypeInv
<1>2. batch[w] \in Batches => Len(batch[w]) \in 1..MaxBatch /\ MaxBatch \in Nat
    BY BatchFields, BatchBoundAssumption
<1>3. pc[w] \in Working \/ (pc[w] = "unwind" /\ at[w] > 0) =>
        /\ at[w] \in 1..Len(batch[w]) /\ Current(w) \in Target
    BY CurrentItem
<1>4. TypeOK'
    BY <1>1, <1>2, <1>3 DEF MakeBackup, TypeOK, Shape, Working, Looping, Entry,
       Content, Phase, Outcome, Goto, Save
<1>5. Shape(w)'
    BY <1>1, <1>2, <1>3 DEF MakeBackup, TypeOK, Shape, Working, Looping, Unwinding,
       Goto, Save
<1>6. ASSUME NEW u \in Writer, u # w PROVE Shape(u)'
    BY <1>1, <1>6, ShapeStays DEF MakeBackup, TypeInv, TypeOK, Goto, Save
<1>7. QED
    BY <1>4, <1>5, <1>6 DEF TypeInv

LEMMA MoveAsideTyped ==
    ASSUME TypeInv, NEW w \in Writer, MoveAside(w)
    PROVE  TypeInv'
<1>1. TypeOK /\ Shape(w)
    BY DEF TypeInv
<1>2. batch[w] \in Batches => Len(batch[w]) \in 1..MaxBatch /\ MaxBatch \in Nat
    BY BatchFields, BatchBoundAssumption
<1>3. pc[w] \in Working \/ (pc[w] = "unwind" /\ at[w] > 0) =>
        /\ at[w] \in 1..Len(batch[w]) /\ Current(w) \in Target
    BY CurrentItem
<1>4. TypeOK'
    BY <1>1, <1>2, <1>3 DEF MoveAside, TypeOK, Shape, Working, Looping, Entry,
       Content, Phase, Outcome, Goto, Put, Save
<1>5. Shape(w)'
    BY <1>1, <1>2, <1>3 DEF MoveAside, TypeOK, Shape, Working, Looping, Unwinding,
       Goto, Put, Save
<1>6. ASSUME NEW u \in Writer, u # w PROVE Shape(u)'
    BY <1>1, <1>6, ShapeStays DEF MoveAside, TypeInv, TypeOK, Goto, Put, Save
<1>7. QED
    BY <1>4, <1>5, <1>6 DEF TypeInv

LEMMA MoveFailsTyped ==
    ASSUME TypeInv, NEW w \in Writer, MoveFails(w)
    PROVE  TypeInv'
<1>1. TypeOK /\ Shape(w)
    BY DEF TypeInv
<1>2. batch[w] \in Batches => Len(batch[w]) \in 1..MaxBatch /\ MaxBatch \in Nat
    BY BatchFields, BatchBoundAssumption
<1>3. pc[w] \in Working \/ (pc[w] = "unwind" /\ at[w] > 0) =>
        /\ at[w] \in 1..Len(batch[w]) /\ Current(w) \in Target
    BY CurrentItem
<1>4. TypeOK'
    BY <1>1, <1>2, <1>3 DEF MoveFails, TypeOK, Shape, Working, Looping, Entry,
       Content, Phase, Outcome, Goto, GoAt, Save, Fail
<1>5. Shape(w)'
    BY <1>1, <1>2, <1>3 DEF MoveFails, TypeOK, Shape, Working, Looping, Unwinding,
       Goto, GoAt, Save, Fail
<1>6. ASSUME NEW u \in Writer, u # w PROVE Shape(u)'
    BY <1>1, <1>6, ShapeStays DEF MoveFails, TypeInv, TypeOK, Goto, GoAt, Save, Fail
<1>7. QED
    BY <1>4, <1>5, <1>6 DEF TypeInv

LEMMA RecordBackupTyped ==
    ASSUME TypeInv, NEW w \in Writer, RecordBackup(w)
    PROVE  TypeInv'
<1>1. TypeOK /\ Shape(w)
    BY DEF TypeInv
<1>2. batch[w] \in Batches => Len(batch[w]) \in 1..MaxBatch /\ MaxBatch \in Nat
    BY BatchFields, BatchBoundAssumption
<1>3. pc[w] \in Working \/ (pc[w] = "unwind" /\ at[w] > 0) =>
        /\ at[w] \in 1..Len(batch[w]) /\ Current(w) \in Target
    BY CurrentItem
<1>4. TypeOK'
    BY <1>1, <1>2, <1>3 DEF RecordBackup, TypeOK, Shape, Working, Looping, Entry,
       Content, Phase, Outcome, Goto
<1>5. Shape(w)'
    BY <1>1, <1>2, <1>3 DEF RecordBackup, TypeOK, Shape, Working, Looping,
       Unwinding, Goto
<1>6. ASSUME NEW u \in Writer, u # w PROVE Shape(u)'
    BY <1>1, <1>6, ShapeStays DEF RecordBackup, TypeInv, TypeOK, Goto
<1>7. QED
    BY <1>4, <1>5, <1>6 DEF TypeInv

LEMMA InstallTyped ==
    ASSUME TypeInv, NEW w \in Writer, Install(w)
    PROVE  TypeInv'
<1>1. TypeOK /\ Shape(w)
    BY DEF TypeInv
<1>2. batch[w] \in Batches => Len(batch[w]) \in 1..MaxBatch /\ MaxBatch \in Nat
    BY BatchFields, BatchBoundAssumption
<1>3. pc[w] \in Working \/ (pc[w] = "unwind" /\ at[w] > 0) =>
        /\ at[w] \in 1..Len(batch[w]) /\ Current(w) \in Target
    BY CurrentItem
<1>4. TypeOK'
    BY <1>1, <1>2, <1>3 DEF Install, TypeOK, Shape, Working, Looping, Entry,
       Content, Phase, Outcome, Goto, Put
<1>5. Shape(w)'
    BY <1>1, <1>2, <1>3 DEF Install, TypeOK, Shape, Working, Looping, Unwinding,
       Goto, Put
<1>6. ASSUME NEW u \in Writer, u # w PROVE Shape(u)'
    BY <1>1, <1>6, ShapeStays DEF Install, TypeInv, TypeOK, Goto, Put
<1>7. QED
    BY <1>4, <1>5, <1>6 DEF TypeInv

LEMMA CommitFailsTyped ==
    ASSUME TypeInv, NEW w \in Writer, CommitFails(w)
    PROVE  TypeInv'
<1>1. TypeOK /\ Shape(w)
    BY DEF TypeInv
<1>2. batch[w] \in Batches => Len(batch[w]) \in 1..MaxBatch /\ MaxBatch \in Nat
    BY BatchFields, BatchBoundAssumption
<1>3. pc[w] \in Working \/ (pc[w] = "unwind" /\ at[w] > 0) =>
        /\ at[w] \in 1..Len(batch[w]) /\ Current(w) \in Target
    BY CurrentItem
<1>4. TypeOK'
    BY <1>1, <1>2, <1>3 DEF CommitFails, TypeOK, Shape, Working, Looping, Entry,
       Content, Phase, Outcome, Goto, GoAt, Fail
<1>5. Shape(w)'
    BY <1>1, <1>2, <1>3 DEF CommitFails, TypeOK, Shape, Working, Looping,
       Unwinding, Goto, GoAt, Fail
<1>6. ASSUME NEW u \in Writer, u # w PROVE Shape(u)'
    BY <1>1, <1>6, ShapeStays DEF CommitFails, TypeInv, TypeOK, Goto, GoAt, Fail
<1>7. QED
    BY <1>4, <1>5, <1>6 DEF TypeInv

LEMMA MarkInstalledTyped ==
    ASSUME TypeInv, NEW w \in Writer, MarkInstalled(w)
    PROVE  TypeInv'
<1>1. TypeOK /\ Shape(w)
    BY DEF TypeInv
<1>2. batch[w] \in Batches => Len(batch[w]) \in 1..MaxBatch /\ MaxBatch \in Nat
    BY BatchFields, BatchBoundAssumption
<1>3. pc[w] \in Working \/ (pc[w] = "unwind" /\ at[w] > 0) =>
        /\ at[w] \in 1..Len(batch[w]) /\ Current(w) \in Target
    BY CurrentItem
<1>4. TypeOK'
    BY <1>1, <1>2, <1>3 DEF MarkInstalled, TypeOK, Shape, Working, Looping, Entry,
       Content, Phase, Outcome, Goto
<1>5. Shape(w)'
    BY <1>1, <1>2, <1>3 DEF MarkInstalled, TypeOK, Shape, Working, Looping,
       Unwinding, Goto
<1>6. ASSUME NEW u \in Writer, u # w PROVE Shape(u)'
    BY <1>1, <1>6, ShapeStays DEF MarkInstalled, TypeInv, TypeOK, Goto
<1>7. QED
    BY <1>4, <1>5, <1>6 DEF TypeInv

LEMMA ConfirmTyped ==
    ASSUME TypeInv, NEW w \in Writer, Confirm(w)
    PROVE  TypeInv'
<1>1. TypeOK /\ Shape(w)
    BY DEF TypeInv
<1>2. batch[w] \in Batches => Len(batch[w]) \in 1..MaxBatch /\ MaxBatch \in Nat
    BY BatchFields, BatchBoundAssumption
<1>3. pc[w] \in Working \/ (pc[w] = "unwind" /\ at[w] > 0) =>
        /\ at[w] \in 1..Len(batch[w]) /\ Current(w) \in Target
    BY CurrentItem
<1>4. TypeOK'
    <2>0. Current(w) \in Target
        BY ItemNumbers DEF Confirm, Working, Looping
    <2>1. UNCHANGED <<disk, stage, saved, batch, recorded, marked, failing, hit,
                      result, prior, runs, meddling>>
        BY DEF Confirm
    <2>2. unproven' = unproven \/
            \E x \in SUBSET Target : unproven' = [unproven EXCEPT ![w] = x]
        BY <1>1, ItemNumbers DEF Confirm, Working, Looping, TypeOK, Goto
    <2>3. unproven' \in [Writer -> SUBSET Target]
        BY <1>1, <2>2 DEF TypeOK
    <2>4. pc' = pc \/ \E x \in Phase : pc' = [pc EXCEPT ![w] = x]
        BY <1>1, ItemNumbers DEF Confirm, Goto, GoAt, Advance, Working, Looping,
           TypeOK, Phase
    <2>5. pc' \in [Writer -> Phase]
        BY <1>1, <2>4 DEF TypeOK
    <2>6. at' = at \/ \E x \in 0..MaxBatch : at' = [at EXCEPT ![w] = x]
        BY <1>1, ItemNumbers DEF Confirm, GoAt, Advance, Working, Looping, TypeOK,
           Goto
    <2>7. at' \in [Writer -> 0..MaxBatch]
        BY <1>1, <2>6 DEF TypeOK
    <2>8. committed' \in [Writer -> BOOLEAN]
        BY <1>1 DEF Confirm, Working, Looping, TypeOK, Goto
    <2> QED
        BY <1>1, <2>1, <2>3, <2>5, <2>7, <2>8 DEF TypeOK
<1>5. Shape(w)'
    BY <1>1, <1>2, <1>3 DEF Confirm, TypeOK, Shape, Working, Looping, Unwinding,
       Goto, GoAt, Advance
<1>6. ASSUME NEW u \in Writer, u # w PROVE Shape(u)'
    <2>1. Advance(w, "inspect", "clear") /\ UNCHANGED <<batch, result, hit>>
        BY DEF Confirm
    <2> QED
        BY <1>1, <1>6, <2>1, ShapeStays DEF TypeInv, TypeOK, Goto, GoAt, Advance
<1>7. QED
    BY <1>4, <1>5, <1>6 DEF TypeInv

LEMMA ClearBackupTyped ==
    ASSUME TypeInv, NEW w \in Writer, ClearBackup(w)
    PROVE  TypeInv'
<1>1. TypeOK /\ Shape(w)
    BY DEF TypeInv
<1>2. batch[w] \in Batches => Len(batch[w]) \in 1..MaxBatch /\ MaxBatch \in Nat
    BY BatchFields, BatchBoundAssumption
<1>3. pc[w] \in Working \/ (pc[w] = "unwind" /\ at[w] > 0) =>
        /\ at[w] \in 1..Len(batch[w]) /\ Current(w) \in Target
    BY CurrentItem
<1>4. TypeOK'
    <2>0. Current(w) \in Target
        BY ItemNumbers DEF ClearBackup, Working, Looping
    <2>1. UNCHANGED <<disk, batch, marked, unproven, failing, hit, committed,
                      prior, runs, meddling>>
        BY DEF ClearBackup
    <2>2. saved' = saved \/
            \E x \in Content \union {Absent} : saved' = [saved EXCEPT ![w][Current(w)] = x]
        BY <1>1, ItemNumbers DEF ClearBackup, Save, Working, Looping, TypeOK, Goto,
           Content, Entry
    <2>3. saved' \in [Writer -> [Target -> Content \union {Absent}]]
        <3>1. saved \in [Writer -> [Target -> Content \union {Absent}]]
            BY <1>1 DEF TypeOK
        <3>2. ASSUME NEW x \in Content \union {Absent}
              PROVE  [saved EXCEPT ![w][Current(w)] = x] \in
                        [Writer -> [Target -> Content \union {Absent}]]
            BY <2>0, <3>1, SavedTyped
        <3>3. QED
            BY <2>2, <3>1, <3>2
    <2>4. recorded' = recorded \/
            \E x \in SUBSET Target : recorded' = [recorded EXCEPT ![w] = x]
        BY <1>1, ItemNumbers DEF ClearBackup, Dropped, Working, Looping, TypeOK,
           Goto
    <2>5. recorded' \in [Writer -> SUBSET Target]
        BY <1>1, <2>4 DEF TypeOK
    <2>6. pc' = pc \/ \E x \in Phase : pc' = [pc EXCEPT ![w] = x]
        BY <1>1, ItemNumbers DEF ClearBackup, Goto, GoAt, Finish, Working, Looping,
           TypeOK, Phase
    <2>7. pc' \in [Writer -> Phase]
        BY <1>1, <2>6 DEF TypeOK
    <2>8. at' = at \/ \E x \in 0..MaxBatch : at' = [at EXCEPT ![w] = x]
        BY <1>1, ItemNumbers DEF ClearBackup, GoAt, Finish, Working, Looping,
           TypeOK, Goto
    <2>9. at' \in [Writer -> 0..MaxBatch]
        BY <1>1, <2>8 DEF TypeOK
    <2>10. result' = result \/ \E x \in Outcome : result' = [result EXCEPT ![w] = x]
        BY <1>1, ItemNumbers DEF ClearBackup, Finish, Working, Looping, TypeOK,
           Goto, Outcome
    <2>11. result' \in [Writer -> Outcome]
        BY <1>1, <2>10 DEF TypeOK
    <2>12. stage' = stage \/
            \E x \in [Target -> {"none", "own", "other"}] : stage' = [stage EXCEPT ![w] = x]
        BY <1>1, ItemNumbers DEF ClearBackup, Release, Finish, Working, Looping,
           TypeOK, Goto
    <2>13. stage' \in [Writer -> [Target -> {"none", "own", "other"}]]
        BY <1>1, <2>12 DEF TypeOK
    <2> QED
        BY <1>1, <2>1, <2>3, <2>5, <2>7, <2>9, <2>11, <2>13 DEF TypeOK
<1>5. Shape(w)'
    BY <1>1, <1>2, <1>3 DEF ClearBackup, TypeOK, Shape, Working, Looping,
       Unwinding, Goto, GoAt, Save, Release, Finish, Dropped
<1>6. ASSUME NEW u \in Writer, u # w PROVE Shape(u)'
    BY <1>1, <1>6, ShapeStays DEF ClearBackup, TypeInv, TypeOK, Goto, GoAt, Save,
       Release, Finish
<1>7. QED
    BY <1>4, <1>5, <1>6 DEF TypeInv

LEMMA RemoveInstalledTyped ==
    ASSUME TypeInv, NEW w \in Writer, RemoveInstalled(w)
    PROVE  TypeInv'
<1>1. TypeOK /\ Shape(w)
    BY DEF TypeInv
<1>2. batch[w] \in Batches => Len(batch[w]) \in 1..MaxBatch /\ MaxBatch \in Nat
    BY BatchFields, BatchBoundAssumption
<1>3. pc[w] \in Working \/ (pc[w] = "unwind" /\ at[w] > 0) =>
        /\ at[w] \in 1..Len(batch[w]) /\ Current(w) \in Target
    BY CurrentItem
<1>4. TypeOK'
    <2>0. Current(w) \in Target
        BY ItemNumbers DEF RemoveInstalled, Working, Looping
    <2>1. UNCHANGED <<stage, saved, batch, recorded, marked, unproven, hit,
                      committed, result, prior, runs, meddling>>
        BY DEF RemoveInstalled
    <2>2. disk' = disk \/ \E x \in Entry : disk' = [disk EXCEPT ![Current(w)] = x]
        BY <1>1, ItemNumbers DEF RemoveInstalled, Put, Working, Looping, TypeOK,
           Goto, Entry, Content
    <2>3. disk' \in [Target -> Entry]
        BY <1>1, <2>0, <2>2 DEF TypeOK
    <2>4. pc' = pc \/ \E x \in Phase : pc' = [pc EXCEPT ![w] = x]
        BY <1>1, ItemNumbers DEF RemoveInstalled, Goto, GoAt, Skip, Working,
           Looping, TypeOK, Phase
    <2>5. pc' \in [Writer -> Phase]
        BY <1>1, <2>4 DEF TypeOK
    <2>6. at' = at \/ \E x \in 0..MaxBatch : at' = [at EXCEPT ![w] = x]
        BY <1>1, ItemNumbers DEF RemoveInstalled, GoAt, Skip, Working, Looping,
           TypeOK, Goto
    <2>7. at' \in [Writer -> 0..MaxBatch]
        BY <1>1, <2>6 DEF TypeOK
    <2>8. failing' \in [Writer -> BOOLEAN]
        BY <1>1 DEF RemoveInstalled, Skip, Working, Looping, TypeOK, Goto
    <2> QED
        BY <1>1, <2>1, <2>3, <2>5, <2>7, <2>8 DEF TypeOK
<1>5. Shape(w)'
    BY <1>1, <1>2, <1>3 DEF RemoveInstalled, TypeOK, Shape, Working, Looping,
       Unwinding, Goto, GoAt, Put, Skip
<1>6. ASSUME NEW u \in Writer, u # w PROVE Shape(u)'
    BY <1>1, <1>6, ShapeStays DEF RemoveInstalled, TypeInv, TypeOK, Goto, GoAt,
       Put, Skip
<1>7. QED
    BY <1>4, <1>5, <1>6 DEF TypeInv

LEMMA RestoreBackupTyped ==
    ASSUME TypeInv, NEW w \in Writer, RestoreBackup(w)
    PROVE  TypeInv'
<1>1. TypeOK /\ Shape(w)
    BY DEF TypeInv
<1>2. batch[w] \in Batches => Len(batch[w]) \in 1..MaxBatch /\ MaxBatch \in Nat
    BY BatchFields, BatchBoundAssumption
<1>3. pc[w] \in Working \/ (pc[w] = "unwind" /\ at[w] > 0) =>
        /\ at[w] \in 1..Len(batch[w]) /\ Current(w) \in Target
    BY CurrentItem
<1>4. TypeOK'
    <2>0. Current(w) \in Target
        BY ItemNumbers DEF RestoreBackup, Working, Looping
    <2>1. UNCHANGED <<stage, batch, recorded, marked, unproven, hit, committed,
                      result, prior, runs, meddling>>
        BY DEF RestoreBackup
    <2>A. saved[w][Current(w)] \in Content \union {Absent}
        BY <1>1, <2>0 DEF TypeOK
    <2>B. Content \union {Absent} \subseteq Entry
        BY DEF Entry
    <2>2. disk' = disk \/ \E x \in Entry : disk' = [disk EXCEPT ![Current(w)] = x]
        BY <2>A, <2>B DEF RestoreBackup, Put, Goto
    <2>3. disk' \in [Target -> Entry]
        BY <1>1, <2>0, <2>2 DEF TypeOK
    <2>4. saved' = saved \/
            \E x \in Content \union {Absent} : saved' = [saved EXCEPT ![w][Current(w)] = x]
        BY <1>1, ItemNumbers DEF RestoreBackup, Save, Working, Looping, TypeOK,
           Goto, Content, Entry
    <2>5. saved' \in [Writer -> [Target -> Content \union {Absent}]]
        <3>1. saved \in [Writer -> [Target -> Content \union {Absent}]]
            BY <1>1 DEF TypeOK
        <3>2. ASSUME NEW x \in Content \union {Absent}
              PROVE  [saved EXCEPT ![w][Current(w)] = x] \in
                        [Writer -> [Target -> Content \union {Absent}]]
            BY <2>0, <3>1, SavedTyped
        <3>3. QED
            BY <2>4, <3>1, <3>2
    <2>6. pc' = pc \/ \E x \in Phase : pc' = [pc EXCEPT ![w] = x]
        BY <1>1, ItemNumbers DEF RestoreBackup, Goto, GoAt, Skip, Working, Looping,
           TypeOK, Phase
    <2>7. pc' \in [Writer -> Phase]
        BY <1>1, <2>6 DEF TypeOK
    <2>8. at' = at \/ \E x \in 0..MaxBatch : at' = [at EXCEPT ![w] = x]
        BY <1>1, ItemNumbers DEF RestoreBackup, GoAt, Skip, Working, Looping,
           TypeOK, Goto
    <2>9. at' \in [Writer -> 0..MaxBatch]
        BY <1>1, <2>8 DEF TypeOK
    <2>10. failing' \in [Writer -> BOOLEAN]
        BY <1>1 DEF RestoreBackup, Skip, Working, Looping, TypeOK, Goto
    <2> QED
        BY <1>1, <2>1, <2>3, <2>5, <2>7, <2>9, <2>10 DEF TypeOK
<1>5. Shape(w)'
    BY <1>1, <1>2, <1>3 DEF RestoreBackup, TypeOK, Shape, Working, Looping,
       Unwinding, Goto, GoAt, Put, Save, Skip
<1>6. ASSUME NEW u \in Writer, u # w PROVE Shape(u)'
    BY <1>1, <1>6, ShapeStays DEF RestoreBackup, TypeInv, TypeOK, Goto, GoAt, Put,
       Save, Skip
<1>7. QED
    BY <1>4, <1>5, <1>6 DEF TypeInv

LEMMA ForgetBackupTyped ==
    ASSUME TypeInv, NEW w \in Writer, ForgetBackup(w)
    PROVE  TypeInv'
<1>1. TypeOK /\ Shape(w)
    BY DEF TypeInv
<1>2. batch[w] \in Batches => Len(batch[w]) \in 1..MaxBatch /\ MaxBatch \in Nat
    BY BatchFields, BatchBoundAssumption
<1>3. pc[w] \in Working \/ (pc[w] = "unwind" /\ at[w] > 0) =>
        /\ at[w] \in 1..Len(batch[w]) /\ Current(w) \in Target
    BY CurrentItem
<1>4. TypeOK'
    BY <1>1, <1>2, <1>3 DEF ForgetBackup, TypeOK, Shape, Working, Looping, Entry,
       Content, Phase, Outcome, Goto, GoAt
<1>5. Shape(w)'
    BY <1>1, <1>2, <1>3 DEF ForgetBackup, TypeOK, Shape, Working, Looping,
       Unwinding, Goto, GoAt
<1>6. ASSUME NEW u \in Writer, u # w PROVE Shape(u)'
    BY <1>1, <1>6, ShapeStays DEF ForgetBackup, TypeInv, TypeOK, Goto, GoAt
<1>7. QED
    BY <1>4, <1>5, <1>6 DEF TypeInv

LEMMA EndUnwindingTyped ==
    ASSUME TypeInv, NEW w \in Writer, EndUnwinding(w)
    PROVE  TypeInv'
<1>1. TypeOK /\ Shape(w)
    BY DEF TypeInv
<1>2. batch[w] \in Batches => Len(batch[w]) \in 1..MaxBatch /\ MaxBatch \in Nat
    BY BatchFields, BatchBoundAssumption
<1>3. pc[w] \in Working \/ (pc[w] = "unwind" /\ at[w] > 0) =>
        /\ at[w] \in 1..Len(batch[w]) /\ Current(w) \in Target
    BY CurrentItem
<1>4. TypeOK'
    BY <1>1, <1>2, <1>3 DEF EndUnwinding, TypeOK, Shape, Working, Looping, Entry,
       Content, Phase, Outcome, Goto, Release, Finish, Verdict
<1>5. Shape(w)'
    BY <1>1, <1>2, <1>3 DEF EndUnwinding, TypeOK, Shape, Working, Looping,
       Unwinding, Goto, Release, Finish, Verdict
<1>6. ASSUME NEW u \in Writer, u # w PROVE Shape(u)'
    BY <1>1, <1>6, ShapeStays DEF EndUnwinding, TypeInv, TypeOK, Goto, Release,
       Finish
<1>7. QED
    BY <1>4, <1>5, <1>6 DEF TypeInv

LEMMA InterruptOutsideTyped ==
    ASSUME TypeInv, NEW w \in Writer, InterruptOutside(w)
    PROVE  TypeInv'
<1>1. TypeOK /\ Shape(w)
    BY DEF TypeInv
<1>2. batch[w] \in Batches => Len(batch[w]) \in 1..MaxBatch /\ MaxBatch \in Nat
    BY BatchFields, BatchBoundAssumption
<1>3. pc[w] \in Working \/ (pc[w] = "unwind" /\ at[w] > 0) =>
        /\ at[w] \in 1..Len(batch[w]) /\ Current(w) \in Target
    BY CurrentItem
<1>4. TypeOK'
    BY <1>1, <1>2, <1>3 DEF InterruptOutside, TypeOK, Shape, Working, Looping,
       Entry, Content, Phase, Outcome, Goto, Release, Finish
<1>5. Shape(w)'
    BY <1>1, <1>2, <1>3 DEF InterruptOutside, TypeOK, Shape, Working, Looping,
       Unwinding, Goto, Release, Finish
<1>6. ASSUME NEW u \in Writer, u # w PROVE Shape(u)'
    BY <1>1, <1>6, ShapeStays DEF InterruptOutside, TypeInv, TypeOK, Goto, Release,
       Finish
<1>7. QED
    BY <1>4, <1>5, <1>6 DEF TypeInv

LEMMA InterruptCommitTyped ==
    ASSUME TypeInv, NEW w \in Writer, InterruptCommit(w)
    PROVE  TypeInv'
<1>1. TypeOK /\ Shape(w)
    BY DEF TypeInv
<1>2. batch[w] \in Batches => Len(batch[w]) \in 1..MaxBatch /\ MaxBatch \in Nat
    BY BatchFields, BatchBoundAssumption
<1>3. pc[w] \in Working \/ (pc[w] = "unwind" /\ at[w] > 0) =>
        /\ at[w] \in 1..Len(batch[w]) /\ Current(w) \in Target
    BY CurrentItem
<1>4. TypeOK'
    <2>0. Current(w) \in Target
        BY ItemNumbers DEF InterruptCommit, Working, Looping
    <2>1. UNCHANGED <<disk, stage, batch, recorded, marked, unproven, committed,
                      result, prior, runs, meddling>>
        BY DEF InterruptCommit
    <2>2. hit' \in [Writer -> BOOLEAN]
        BY <1>1 DEF InterruptCommit, Working, Looping, TypeOK, Goto
    <2>3. saved' = saved \/
            \E x \in Content \union {Absent} : saved' = [saved EXCEPT ![w][Current(w)] = x]
        BY <1>1, ItemNumbers DEF InterruptCommit, Save, Working, Looping, TypeOK,
           Goto, Content, Entry
    <2>4. saved' \in [Writer -> [Target -> Content \union {Absent}]]
        <3>1. saved \in [Writer -> [Target -> Content \union {Absent}]]
            BY <1>1 DEF TypeOK
        <3>2. ASSUME NEW x \in Content \union {Absent}
              PROVE  [saved EXCEPT ![w][Current(w)] = x] \in
                        [Writer -> [Target -> Content \union {Absent}]]
            BY <2>0, <3>1, SavedTyped
        <3>3. QED
            BY <2>3, <3>1, <3>2
    <2>5. pc' = pc \/ \E x \in Phase : pc' = [pc EXCEPT ![w] = x]
        BY <1>1, ItemNumbers DEF InterruptCommit, Goto, GoAt, Fail, Working,
           Looping, TypeOK, Phase
    <2>6. pc' \in [Writer -> Phase]
        BY <1>1, <2>5 DEF TypeOK
    <2>7. at' = at \/ \E x \in 0..MaxBatch : at' = [at EXCEPT ![w] = x]
        BY <1>1, ItemNumbers DEF InterruptCommit, GoAt, Fail, Working, Looping,
           TypeOK, Goto
    <2>8. at' \in [Writer -> 0..MaxBatch]
        BY <1>1, <2>7 DEF TypeOK
    <2>9. failing' \in [Writer -> BOOLEAN]
        BY <1>1 DEF InterruptCommit, Fail, Working, Looping, TypeOK, Goto
    <2> QED
        BY <1>1, <2>1, <2>2, <2>4, <2>6, <2>8, <2>9 DEF TypeOK
<1>5. Shape(w)'
    BY <1>1, <1>2, <1>3 DEF InterruptCommit, TypeOK, Shape, Working, Looping,
       Unwinding, Goto, GoAt, Save, Fail
<1>6. ASSUME NEW u \in Writer, u # w PROVE Shape(u)'
    BY <1>1, <1>6, ShapeStays DEF InterruptCommit, TypeInv, TypeOK, Goto, GoAt,
       Save, Fail
<1>7. QED
    BY <1>4, <1>5, <1>6 DEF TypeInv

LEMMA InterruptUnwindingTyped ==
    ASSUME TypeInv, NEW w \in Writer, InterruptUnwinding(w)
    PROVE  TypeInv'
<1>1. TypeOK /\ Shape(w)
    BY DEF TypeInv
<1>2. batch[w] \in Batches => Len(batch[w]) \in 1..MaxBatch /\ MaxBatch \in Nat
    BY BatchFields, BatchBoundAssumption
<1>3. pc[w] \in Working \/ (pc[w] = "unwind" /\ at[w] > 0) =>
        /\ at[w] \in 1..Len(batch[w]) /\ Current(w) \in Target
    BY CurrentItem
<1>4. TypeOK'
    BY <1>1, <1>2, <1>3 DEF InterruptUnwinding, TypeOK, Shape, Working, Looping,
       Entry, Content, Phase, Outcome, Goto, GoAt, Fail
<1>5. Shape(w)'
    BY <1>1, <1>2, <1>3 DEF InterruptUnwinding, TypeOK, Shape, Working, Looping,
       Unwinding, Goto, GoAt, Fail
<1>6. ASSUME NEW u \in Writer, u # w PROVE Shape(u)'
    BY <1>1, <1>6, ShapeStays DEF InterruptUnwinding, TypeInv, TypeOK, Goto, GoAt,
       Fail
<1>7. QED
    BY <1>4, <1>5, <1>6 DEF TypeInv

LEMMA CrashTyped ==
    ASSUME TypeInv, NEW w \in Writer, Crash(w)
    PROVE  TypeInv'
<1>1. TypeOK /\ Shape(w)
    BY DEF TypeInv
<1>2. batch[w] \in Batches => Len(batch[w]) \in 1..MaxBatch /\ MaxBatch \in Nat
    BY BatchFields, BatchBoundAssumption
<1>3. pc[w] \in Working \/ (pc[w] = "unwind" /\ at[w] > 0) =>
        /\ at[w] \in 1..Len(batch[w]) /\ Current(w) \in Target
    BY CurrentItem
<1>4. TypeOK'
    BY <1>1, <1>2, <1>3 DEF Crash, Running, TypeOK, Shape, Working, Looping, Entry,
       Content, Phase, Outcome, Goto
<1>5. Shape(w)'
    BY <1>1, <1>2, <1>3 DEF Crash, Running, TypeOK, Shape, Working, Looping,
       Unwinding, Goto
<1>6. ASSUME NEW u \in Writer, u # w PROVE Shape(u)'
    BY <1>1, <1>6, ShapeStays DEF Crash, Running, TypeInv, TypeOK, Goto
<1>7. QED
    BY <1>4, <1>5, <1>6 DEF TypeInv

LEMMA StartTyped ==
    ASSUME TypeInv, NEW w \in Writer, NEW b \in Batches, Start(w, b)
    PROVE  TypeInv'
<1>1. TypeOK /\ Shape(w) /\ ~Running(w) /\ runs[w] < MaxRuns
    BY DEF TypeInv, Start
<1>2. Len(b) \in 1..MaxBatch /\ Len(b) \in Nat /\ MaxBatch \in Nat /\ MaxRuns \in Nat
    BY BatchFields, BatchBoundAssumption
<1>3. TypeOK'
    <2>1. disk' \in [Target -> Entry] /\ meddling' \in 0..MaxMeddling
        BY <1>1 DEF Start, TypeOK
    <2>2. runs' \in [Writer -> 0..MaxRuns] /\ at' \in [Writer -> 0..MaxBatch]
        BY <1>1, <1>2 DEF Start, TypeOK
    <2>3. stage' \in [Writer -> [Target -> {"none", "own", "other"}]]
        BY <1>1 DEF Start, TypeOK
    <2>4. saved' \in [Writer -> [Target -> Content \union {Absent}]]
        BY <1>1 DEF Start, TypeOK
    <2>5. pc' \in [Writer -> Phase] /\ result' \in [Writer -> Outcome]
        BY <1>1 DEF Start, TypeOK, Goto, Phase, Outcome
    <2>6. batch' \in [Writer -> Batches \union {<<>>}]
        BY <1>1 DEF Start, TypeOK
    <2>7. /\ recorded' \in [Writer -> SUBSET Target] /\ marked' \in [Writer -> SUBSET Target]
          /\ unproven' \in [Writer -> SUBSET Target]
        BY <1>1 DEF Start, TypeOK
    <2>8. /\ failing' \in [Writer -> BOOLEAN] /\ hit' \in [Writer -> BOOLEAN]
          /\ committed' \in [Writer -> BOOLEAN]
        BY <1>1 DEF Start, TypeOK
    <2>9. prior' \in [Writer -> [Target -> Entry]]
        BY <1>1 DEF Start, TypeOK
    <2> QED
        BY <2>1, <2>2, <2>3, <2>4, <2>5, <2>6, <2>7, <2>8, <2>9 DEF TypeOK
<1>4. Shape(w)'
    <2>1. /\ pc'[w] \in {"done", "stage"} /\ batch'[w] = b /\ at'[w] = 1
          /\ hit'[w] = FALSE /\ (pc'[w] # "done" => result'[w] = "none")
        BY <1>1 DEF Start, TypeOK, Goto
    <2> QED
        BY <1>2, <2>1 DEF Shape
<1>5. ASSUME NEW u \in Writer, u # w PROVE Shape(u)'
    BY <1>1, <1>5, ShapeStays DEF Start, TypeInv, TypeOK, Goto
<1>6. QED
    BY <1>3, <1>4, <1>5 DEF TypeInv

LEMMA SubstituteTyped ==
    ASSUME TypeInv, NEW w \in Writer, NEW t \in Target, Substitute(w, t)
    PROVE  TypeInv'
<1>1. TypeOK /\ meddling < MaxMeddling /\ MaxMeddling \in Nat
    BY BatchBoundAssumption DEF TypeInv, Substitute
<1>2. stage' \in [Writer -> [Target -> {"none", "own", "other"}]]
    BY <1>1 DEF Substitute, TypeOK
<1>3. meddling' \in 0..MaxMeddling
    BY <1>1 DEF Substitute, TypeOK
<1>4. TypeOK'
    BY <1>1, <1>2, <1>3 DEF Substitute, TypeOK
<1>5. ASSUME NEW u \in Writer PROVE Shape(u)'
    BY ShapeStays DEF Substitute, TypeInv
<1>6. QED
    BY <1>4, <1>5 DEF TypeInv

LEMMA MakeDirectoryTyped ==
    ASSUME TypeInv, NEW t \in Target, MakeDirectory(t)
    PROVE  TypeInv'
<1>1. TypeOK /\ meddling < MaxMeddling /\ MaxMeddling \in Nat
    BY BatchBoundAssumption DEF TypeInv, MakeDirectory
<1>2. disk' \in [Target -> Entry] /\ meddling' \in 0..MaxMeddling
    BY <1>1 DEF MakeDirectory, Put, TypeOK, Entry
<1>3. TypeOK'
    BY <1>1, <1>2 DEF MakeDirectory, procVars, TypeOK
<1>4. ASSUME NEW u \in Writer PROVE Shape(u)'
    BY ShapeStays DEF MakeDirectory, procVars, TypeInv
<1>5. QED
    BY <1>3, <1>4 DEF TypeInv

LEMMA TypeInvStart == Init => TypeInv
<1>1. SUFFICES ASSUME Init PROVE TypeInv
    OBVIOUS
<1>2. {MaxRuns, MaxBatch, MaxMeddling} \subseteq Nat
    BY BatchBoundAssumption
<1>3. TypeOK
    BY <1>1, <1>2 DEF Init, TypeOK, Entry, Content, Phase, Outcome
<1>4. ASSUME NEW w \in Writer PROVE Shape(w)
    BY <1>1 DEF Init, Shape, Working, Looping
<1>5. QED
    BY <1>3, <1>4 DEF TypeInv

LEMMA TypeInvStep == TypeInv /\ [Next]_vars => TypeInv'
<1>1. SUFFICES ASSUME TypeInv, [Next]_vars PROVE TypeInv'
    OBVIOUS
<1>2. ASSUME NEW w \in Writer, Step(w) PROVE TypeInv'
    BY <1>1, <1>2, StartTyped, StageItemTyped, StageFaultTyped, RecheckTyped,
       InspectTyped, MakeBackupTyped, MoveAsideTyped, MoveFailsTyped,
       RecordBackupTyped, InstallTyped, CommitFailsTyped, MarkInstalledTyped,
       ConfirmTyped, ClearBackupTyped, RemoveInstalledTyped, RestoreBackupTyped,
       ForgetBackupTyped, EndUnwindingTyped DEF Step
<1>3. ASSUME NEW w \in Writer, Disturb(w) PROVE TypeInv'
    BY <1>1, <1>3, InterruptOutsideTyped, InterruptCommitTyped,
       InterruptUnwindingTyped, CrashTyped, SubstituteTyped DEF Disturb
<1>4. ASSUME NEW t \in Target, MakeDirectory(t) PROVE TypeInv'
    BY <1>1, <1>4, MakeDirectoryTyped
<1>5. CASE UNCHANGED vars
    BY <1>1, <1>5 DEF vars, procVars, TypeInv, TypeOK, Shape
<1>6. QED
    BY <1>1, <1>2, <1>3, <1>4, <1>5 DEF Next

(* Whatever fails, is interrupted or crashes, and however many processes write:
   every name holds a file, a directory or nothing, and the bookkeeping of each
   batch speaks of its own targets. *)
THEOREM TypesHold == Spec => []TypeOK
<1>1. Spec => []TypeInv
    BY TypeInvStart, TypeInvStep, PTL DEF Spec
<1>2. TypeInv => TypeOK
    BY DEF TypeInv
<1>3. QED
    BY <1>1, <1>2, PTL

-----------------------------------------------------------------------------
(* One process: where its items stand                                      *)

(* A step leaves the item alone. *)
SameItem(w, t) ==
    /\ disk'[t] = disk[t] /\ saved'[w][t] = saved[w][t] /\ prior'[w][t] = prior[w][t]
    /\ t \in recorded'[w] <=> t \in recorded[w]
    /\ t \in marked'[w] <=> t \in marked[w]
    /\ t \in unproven'[w] <=> t \in unproven[w]

LEMMA ItemStays ==
    ASSUME NEW w, NEW t, SameItem(w, t)
    PROVE  /\ Stays(w, t) => Stays(w, t)'
           /\ Fresh(w, t) => Fresh(w, t)'
           /\ Placed(w, t) => Placed(w, t)'
           /\ Kept(w, t) => Kept(w, t)'
           /\ Undone(w, t) => Undone(w, t)'
           /\ Removed(w, t) => Removed(w, t)'
           /\ Settled(w, t) /\ (failing[w] => failing'[w]) => Settled(w, t)'
BY DEF SameItem, Stays, Aside, Backed, Vacant, Filled, Unmarked, Fresh, Placed,
   Kept, Undone, Removed, Settled

(* The sorts of bytes are told apart. *)
LEMMA Names ==
    ASSUME NEW w \in Writer
    PROVE  /\ w \in Content /\ Stranger \in Content /\ Empty \in Content
           /\ Absent \notin Content /\ Directory \notin Content /\ Absent # Directory
BY BatchNameAssumption DEF Content

LEMMA Underway ==
    ASSUME TypeInv, NEW w \in Writer, Position(w),
           pc[w] \in {"stage", "recheck"} \union Looping \union Unwinding
    PROVE  result[w] = "none" /\ committed[w] = FALSE /\ batch[w] \in Batches
<1>1. TypeOK /\ Shape(w) /\ committed[w] \in BOOLEAN
    BY DEF TypeInv, TypeOK
<1>2. pc[w] \notin {"idle", "clear", "done", "crashed"}
    BY DEF Looping, Unwinding
<1>3. QED
    BY <1>1, <1>2 DEF Position, Shape

(* An item before its turn has nothing to unwind; neither has one that was not
   renamed into place; one that is in place has what it takes. *)
LEMMA UndoneItem ==
    ASSUME NEW w \in Writer, NEW t
    PROVE  /\ Fresh(w, t) => Undone(w, t)
           /\ Placed(w, t) => Undone(w, t)
           /\ Vacant(t) /\ Backed(w, t) /\ Unmarked(w, t) => Undone(w, t)
BY DEF Fresh, Placed, Undone, Unmarked, Backed, Aside, Vacant, Stays

(* Wherever an item stands, the old file has a name. *)
LEMMA SafeItem ==
    ASSUME NEW w \in Writer, NEW t
    PROVE  /\ Stays(w, t) => Safe(w, t)
           /\ Fresh(w, t) => Safe(w, t)
           /\ Backed(w, t) => Safe(w, t)
           /\ Placed(w, t) => Safe(w, t)
           /\ Undone(w, t) => Safe(w, t)
           /\ Removed(w, t) => Safe(w, t)
           /\ Settled(w, t) => Safe(w, t)
           /\ pc[w] \in Looping /\ AtHand(w, t) => Safe(w, t)
           /\ t \in unproven[w] /\ Kept(w, t) => Safe(w, t)
BY DEF Stays, Aside, Backed, Fresh, Placed, Undone, Removed, Settled, Looping,
   AtHand, Kept, Safe

(* Ways into a phase: what is left to show of the items.                    *)
LEMMA EnterStaging ==
    ASSUME NEW w \in Writer, pc'[w] \in {"stage", "recheck"},
           result'[w] = "none", committed'[w] = FALSE,
           pc'[w] = "recheck" => at'[w] = 1,
           \A i \in DOMAIN batch'[w] : Fresh(w, batch[w][i])'
    PROVE  Position(w)'
BY DEF Position, Looping, Unwinding

LEMMA EnterLoop ==
    ASSUME NEW w \in Writer, pc'[w] \in Looping,
           result'[w] = "none", committed'[w] = FALSE, AtHand(w, Current(w))',
           \A i \in DOMAIN batch'[w] :
               /\ i < at'[w] => Placed(w, batch[w][i])'
               /\ i > at'[w] => Fresh(w, batch[w][i])'
    PROVE  Position(w)'
BY DEF Position, Looping, Unwinding

LEMMA EnterUnwinding ==
    ASSUME NEW w \in Writer, pc'[w] \in Unwinding,
           result'[w] = "none", committed'[w] = FALSE,
           \A i \in DOMAIN batch'[w] :
               /\ i > at'[w] => Settled(w, batch[w][i])'
               /\ i < at'[w] => Undone(w, batch[w][i])',
           pc'[w] = "unwind" /\ at'[w] > 0 => Undone(w, Current(w))',
           pc'[w] = "restore" => Removed(w, Current(w))',
           pc'[w] = "forget" => /\ disk'[Current(w)'] = prior'[w][Current(w)']
                                /\ disk'[Current(w)'] \in Content
    PROVE  Position(w)'
BY DEF Position, Looping, Unwinding

(* Fail unwinds from the last item: every item must be ready for that. *)
LEMMA EnterFailing ==
    ASSUME TypeInv, NEW w \in Writer, Fail(w), batch[w] \in Batches,
           batch'[w] = batch[w], result'[w] = "none", committed'[w] = FALSE,
           \A i \in DOMAIN batch[w] : Undone(w, batch[w][i])'
    PROVE  Position(w)'
<1>1. TypeOK
    BY DEF TypeInv
<1>2. pc'[w] = "unwind" /\ at'[w] = Len(batch[w])
    BY <1>1 DEF Fail, GoAt, Goto, TypeOK
<1>3. Len(batch[w]) \in Nat /\ DOMAIN batch[w] = 1..Len(batch[w])
    BY BatchFields
<1>4. \A i \in DOMAIN batch'[w] : ~(i > at'[w]) /\ Undone(w, batch[w][i])'
    BY <1>2, <1>3
<1>5. at'[w] > 0 => Undone(w, Current(w))'
    BY <1>2, <1>3, <1>4 DEF Current
<1>6. QED
    BY <1>2, <1>4, <1>5, EnterUnwinding DEF Unwinding

LEMMA StageItemKeeps ==
    ASSUME TypeInv, NEW w \in Writer, Position(w), StageItem(w)
    PROVE  Position(w)'
<1>1. TypeOK /\ result[w] = "none" /\ committed[w] = FALSE
    BY Underway DEF TypeInv, StageItem
<1>2. /\ pc'[w] \in {"stage", "recheck"} /\ (pc'[w] = "recheck" => at'[w] = 1)
      /\ UNCHANGED <<disk, saved, prior, recorded, marked, unproven, batch, result,
                     committed>>
    BY <1>1 DEF StageItem, Advance, GoAt, Goto, TypeOK
<1>3. \A i \in DOMAIN batch'[w] : Fresh(w, batch[w][i])'
    <2>1. \A i \in DOMAIN batch[w] : Fresh(w, batch[w][i])
        BY DEF Position, StageItem
    <2> QED
        BY <1>2, <2>1 DEF Fresh, Stays, Unmarked
<1>4. QED
    BY <1>1, <1>2, <1>3, EnterStaging

LEMMA StageFaultKeeps ==
    ASSUME TypeInv, NEW w \in Writer, Position(w), StageFault(w)
    PROVE  Position(w)'
<1>1. TypeOK /\ result[w] = "none" /\ committed[w] = FALSE
    BY Underway DEF TypeInv, StageFault
<1>2. /\ pc'[w] = "done" /\ result'[w] = "rejected"
      /\ UNCHANGED <<disk, saved, prior, recorded, marked, unproven, batch,
                     committed>>
    BY <1>1 DEF StageFault, Finish, Goto, TypeOK
<1>3. \A i \in DOMAIN batch'[w] : Stays(w, batch[w][i])'
    <2>1. \A i \in DOMAIN batch[w] : Fresh(w, batch[w][i])
        BY DEF Position, StageFault
    <2> QED
        BY <1>2, <2>1 DEF Fresh, Stays
<1>4. QED
    BY <1>1, <1>2, <1>3 DEF Position, Looping, Unwinding

LEMMA RecheckKeeps ==
    ASSUME TypeInv, NEW w \in Writer, Position(w), Recheck(w)
    PROVE  Position(w)'
<1>1. TypeOK /\ result[w] = "none" /\ committed[w] = FALSE /\ batch[w] \in Batches
    BY Underway DEF TypeInv, Recheck
<1>2. UNCHANGED <<disk, saved, prior, recorded, marked, unproven, batch, result,
                  committed>>
    BY DEF Recheck
<1>3. at[w] = 1 /\ \A i \in DOMAIN batch[w] : Fresh(w, batch[w][i])
    BY DEF Position, Recheck
<1>4. \A i \in DOMAIN batch[w] : Fresh(w, batch[w][i])' /\ Undone(w, batch[w][i])'
    BY <1>2, <1>3, UndoneItem DEF Fresh, Stays, Unmarked, Undone
<1>5. CASE Goto(w, "inspect") /\ UNCHANGED <<at, failing>>
    <2>1. pc'[w] = "inspect" /\ at'[w] = 1
        BY <1>1, <1>3, <1>5 DEF Goto, TypeOK
    <2>2. 1 \in DOMAIN batch[w] /\ \A i \in DOMAIN batch[w] : ~(i < 1)
        BY <1>1, BatchFields
    <2>3. AtHand(w, Current(w))'
        BY <1>2, <1>4, <2>1, <2>2 DEF AtHand, Current
    <2>4. QED
        BY <1>1, <1>2, <1>4, <2>1, <2>2, <2>3, EnterLoop DEF Looping
<1>6. CASE Fail(w)
    BY <1>1, <1>2, <1>4, <1>6, EnterFailing
<1>7. QED
    BY <1>5, <1>6 DEF Recheck

(* What the loop has behind it and before it. *)
LEMMA LoopItems ==
    ASSUME TypeInv, NEW w \in Writer, Position(w), pc[w] \in Looping
    PROVE  /\ TypeOK /\ result[w] = "none" /\ committed[w] = FALSE
           /\ batch[w] \in Batches /\ Current(w) \in Target
           /\ at[w] \in DOMAIN batch[w] /\ at[w] \in Nat
           /\ AtHand(w, Current(w))
           /\ \A i \in DOMAIN batch[w] :
                  /\ batch[w][i] \in Target /\ i \in Nat
                  /\ i # at[w] => batch[w][i] # Current(w)
                  /\ i < at[w] => Placed(w, batch[w][i])
                  /\ i > at[w] => Fresh(w, batch[w][i])
<1>1. pc[w] \in Working
    BY DEF Working
<1>2. result[w] = "none" /\ committed[w] = FALSE /\ batch[w] \in Batches
    BY Underway
<1>3. DOMAIN batch[w] = 1..Len(batch[w]) /\ Len(batch[w]) \in Nat
    BY <1>2, BatchFields
<1>4. QED
    BY <1>1, <1>2, <1>3, CurrentItem DEF Position, TypeInv

(* A step of the loop on the item at hand. *)
LEMMA LoopStep ==
    ASSUME TypeInv, NEW w \in Writer, Position(w), pc[w] \in Looping,
           pc'[w] \in Looping, UNCHANGED <<batch, at, result, committed>>,
           \A t \in Target : t # Current(w) => SameItem(w, t),
           AtHand(w, Current(w))'
    PROVE  Position(w)'
<1>1. /\ result[w] = "none" /\ committed[w] = FALSE /\ at[w] \in Nat
      /\ \A i \in DOMAIN batch[w] :
             /\ batch[w][i] \in Target /\ i \in Nat
             /\ i # at[w] => batch[w][i] # Current(w)
             /\ i < at[w] => Placed(w, batch[w][i])
             /\ i > at[w] => Fresh(w, batch[w][i])
    BY LoopItems
<1>2. ASSUME NEW i \in DOMAIN batch[w]
      PROVE  /\ i < at[w] => Placed(w, batch[w][i])'
             /\ i > at[w] => Fresh(w, batch[w][i])'
    <2>1. PICK t \in Target : t = batch[w][i] /\ t = batch'[w][i]
        BY <1>1
    <2>2. i # at[w] => SameItem(w, t)
        BY <1>1, <2>1
    <2>3. i # at[w] => /\ Placed(w, t) => Placed(w, t)'
                       /\ Fresh(w, t) => Fresh(w, t)'
        BY <2>2, ItemStays
    <2>4. (i < at[w] => i # at[w]) /\ (i > at[w] => i # at[w])
        BY <1>1
    <2>5. (i < at[w] => Placed(w, t)) /\ (i > at[w] => Fresh(w, t))
        BY <1>1, <2>1
    <2>6. (i < at[w] => Placed(w, t)') /\ (i > at[w] => Fresh(w, t)')
        BY <2>3, <2>4, <2>5
    <2>7. QED
        BY <2>1, <2>6
<1>3. QED
    BY <1>1, <1>2, EnterLoop

(* A failure at the item at hand. *)
LEMMA LoopFails ==
    ASSUME TypeInv, NEW w \in Writer, Position(w), pc[w] \in Looping,
           Fail(w), UNCHANGED <<batch, result, committed>>,
           NEW c \in Target, c = Current(w), Undone(w, c)',
           \A t \in Target : t # c => SameItem(w, t)
    PROVE  Position(w)'
<1>1. /\ result[w] = "none" /\ committed[w] = FALSE /\ at[w] \in Nat
      /\ batch[w] \in Batches
      /\ \A i \in DOMAIN batch[w] :
             /\ batch[w][i] \in Target /\ i \in Nat
             /\ i # at[w] => batch[w][i] # Current(w)
             /\ i < at[w] => Placed(w, batch[w][i])
             /\ i > at[w] => Fresh(w, batch[w][i])
    BY LoopItems
<1>2. ASSUME NEW i \in DOMAIN batch[w]
      PROVE  Undone(w, batch[w][i])'
    <2>1. PICK t \in Target : t = batch[w][i] /\ t = batch'[w][i]
        BY <1>1
    <2>2. CASE i # at[w]
        <3>1. SameItem(w, t)
            BY <1>1, <2>1, <2>2
        <3>2. Undone(w, t)
            BY <1>1, <2>1, <2>2, UndoneItem
        <3>3. Undone(w, t)'
            BY <3>1, <3>2, ItemStays
        <3>4. QED
            BY <2>1, <3>3
    <2>3. CASE i = at[w]
        BY <2>1, <2>3 DEF Current
    <2>4. QED
        BY <2>2, <2>3
<1>3. QED
    BY <1>1, <1>2, EnterFailing

LEMMA InspectKeeps ==
    ASSUME TypeInv, NEW w \in Writer, Position(w), Inspect(w)
    PROVE  Position(w)'
<1>1. TypeOK /\ pc[w] \in Looping
    BY DEF TypeInv, Inspect, Looping
<1>2. PICK c \in Target : c = Current(w)
    BY <1>1, LoopItems
<1>3. AtHand(w, c)
    BY <1>1, <1>2, LoopItems
<1>4. \A t \in Target : t # c => SameItem(w, t)
    BY DEF Inspect, SameItem
<1>5. Fresh(w, c)
    BY <1>3 DEF Inspect, AtHand
<1>6. CASE /\ disk[c] # Directory /\ UNCHANGED <<at, failing>>
           /\ Goto(w, IF disk[c] = Absent THEN "install" ELSE "mkstemp")
    <2>1. pc'[w] = IF disk[c] = Absent THEN "install" ELSE "mkstemp"
        BY <1>1, <1>6 DEF Goto, TypeOK
    <2>2. disk[c] \in Content \union {Absent}
        BY <1>1, <1>6 DEF TypeOK, Entry
    <2>3. AtHand(w, c)'
        BY <1>5, <1>6, <2>1, <2>2 DEF Inspect, AtHand, Fresh, Stays, Backed, Aside,
           Vacant, Filled, Unmarked
    <2>4. QED
        BY <1>1, <1>2, <1>4, <1>6, <2>1, <2>3, LoopStep DEF Inspect, Looping,
           Current
<1>7. CASE Fail(w)
    <2>1. Undone(w, c)'
        BY <1>5, UndoneItem DEF Inspect, Undone, Aside, Backed, Filled, Vacant,
           Stays
    <2>2. QED
        BY <1>1, <1>2, <1>4, <1>7, <2>1, LoopFails DEF Inspect
<1>8. QED
    BY <1>2, <1>6, <1>7 DEF Inspect

LEMMA MakeBackupKeeps ==
    ASSUME TypeInv, NEW w \in Writer, Position(w), MakeBackup(w)
    PROVE  Position(w)'
<1>1. TypeOK /\ pc[w] \in Looping
    BY DEF TypeInv, MakeBackup, Looping
<1>2. PICK c \in Target : c = Current(w)
    BY <1>1, LoopItems
<1>3. AtHand(w, c)
    BY <1>1, <1>2, LoopItems
<1>4. \A t \in Target : t # c => SameItem(w, t)
    BY <1>1, <1>2 DEF MakeBackup, Put, Save, SameItem, TypeOK
<1>5. pc'[w] = "move"
    BY <1>1 DEF MakeBackup, Goto, TypeOK
<1>6. AtHand(w, c)'
    BY <1>1, <1>2, <1>3, <1>5 DEF MakeBackup, Save, TypeOK, AtHand, Fresh, Stays,
       Backed, Aside, Vacant, Filled, Unmarked
<1>7. QED
    BY <1>1, <1>2, <1>4, <1>5, <1>6, LoopStep DEF MakeBackup, Looping, Current

LEMMA MoveAsideKeeps ==
    ASSUME TypeInv, NEW w \in Writer, Position(w), MoveAside(w)
    PROVE  Position(w)'
<1>1. TypeOK /\ pc[w] \in Looping
    BY DEF TypeInv, MoveAside, Looping
<1>2. PICK c \in Target : c = Current(w)
    BY <1>1, LoopItems
<1>3. AtHand(w, c)
    BY <1>1, <1>2, LoopItems
<1>4. \A t \in Target : t # c => SameItem(w, t)
    BY <1>1, <1>2 DEF MoveAside, Put, Save, SameItem, TypeOK
<1>5. pc'[w] = "record"
    BY <1>1 DEF MoveAside, Goto, TypeOK
<1>6. AtHand(w, c)'
    BY <1>1, <1>2, <1>3, <1>5 DEF MoveAside, Put, Save, TypeOK, AtHand, Fresh,
       Stays, Backed, Aside, Vacant, Filled, Unmarked
<1>7. QED
    BY <1>1, <1>2, <1>4, <1>5, <1>6, LoopStep DEF MoveAside, Looping, Current

LEMMA RecordBackupKeeps ==
    ASSUME TypeInv, NEW w \in Writer, Position(w), RecordBackup(w)
    PROVE  Position(w)'
<1>1. TypeOK /\ pc[w] \in Looping
    BY DEF TypeInv, RecordBackup, Looping
<1>2. PICK c \in Target : c = Current(w)
    BY <1>1, LoopItems
<1>3. AtHand(w, c)
    BY <1>1, <1>2, LoopItems
<1>4. \A t \in Target : t # c => SameItem(w, t)
    BY <1>1, <1>2 DEF RecordBackup, Put, Save, SameItem, TypeOK
<1>5. pc'[w] = "install"
    BY <1>1 DEF RecordBackup, Goto, TypeOK
<1>6. AtHand(w, c)'
    BY <1>1, <1>2, <1>3, <1>5 DEF RecordBackup, TypeOK, AtHand, Fresh, Stays,
       Backed, Aside, Vacant, Filled, Unmarked
<1>7. QED
    BY <1>1, <1>2, <1>4, <1>5, <1>6, LoopStep DEF RecordBackup, Looping, Current

LEMMA InstallKeeps ==
    ASSUME TypeInv, NEW w \in Writer, Position(w), Install(w)
    PROVE  Position(w)'
<1>1. TypeOK /\ pc[w] \in Looping
    BY DEF TypeInv, Install, Looping
<1>2. PICK c \in Target : c = Current(w)
    BY <1>1, LoopItems
<1>3. AtHand(w, c)
    BY <1>1, <1>2, LoopItems
<1>4. \A t \in Target : t # c => SameItem(w, t)
    BY <1>1, <1>2 DEF Install, Put, Save, SameItem, TypeOK
<1>5. pc'[w] = "mark"
    BY <1>1 DEF Install, Goto, TypeOK
<1>6. AtHand(w, c)'
    BY <1>1, <1>2, <1>3, <1>5, Names DEF Install, Put, TypeOK, AtHand, Fresh,
       Stays, Backed, Aside, Vacant, Filled, Unmarked
<1>7. QED
    BY <1>1, <1>2, <1>4, <1>5, <1>6, LoopStep DEF Install, Looping, Current

LEMMA MarkInstalledKeeps ==
    ASSUME TypeInv, NEW w \in Writer, Position(w), MarkInstalled(w)
    PROVE  Position(w)'
<1>1. TypeOK /\ pc[w] \in Looping
    BY DEF TypeInv, MarkInstalled, Looping
<1>2. PICK c \in Target : c = Current(w)
    BY <1>1, LoopItems
<1>3. AtHand(w, c)
    BY <1>1, <1>2, LoopItems
<1>4. \A t \in Target : t # c => SameItem(w, t)
    BY <1>1, <1>2 DEF MarkInstalled, Put, Save, SameItem, TypeOK
<1>5. pc'[w] = "confirm"
    BY <1>1 DEF MarkInstalled, Goto, TypeOK
<1>6. AtHand(w, c)'
    BY <1>1, <1>2, <1>3, <1>5 DEF MarkInstalled, TypeOK, AtHand, Fresh, Stays,
       Backed, Aside, Vacant, Filled, Unmarked
<1>7. QED
    BY <1>1, <1>2, <1>4, <1>5, <1>6, LoopStep DEF MarkInstalled, Looping, Current

LEMMA MoveFailsKeeps ==
    ASSUME TypeInv, NEW w \in Writer, Position(w), MoveFails(w)
    PROVE  Position(w)'
<1>1. TypeOK /\ pc[w] \in Looping
    BY DEF TypeInv, MoveFails, Looping
<1>2. PICK c \in Target : c = Current(w)
    BY <1>1, LoopItems
<1>3. AtHand(w, c)
    BY <1>1, <1>2, LoopItems
<1>4. \A t \in Target : t # c => SameItem(w, t)
    BY <1>1, <1>2 DEF MoveFails, Put, Save, SameItem, TypeOK
<1>5. Undone(w, c)'
    BY <1>1, <1>2, <1>3 DEF MoveFails, AtHand, Save, TypeOK, Undone, Stays, Unmarked
<1>6. QED
    BY <1>1, <1>2, <1>4, <1>5, LoopFails DEF MoveFails

LEMMA CommitFailsKeeps ==
    ASSUME TypeInv, NEW w \in Writer, Position(w), CommitFails(w)
    PROVE  Position(w)'
<1>1. CASE pc[w] = "recheck"
    <2>1. result[w] = "none" /\ committed[w] = FALSE /\ batch[w] \in Batches
        BY <1>1, Underway
    <2>2. \A i \in DOMAIN batch[w] : Undone(w, batch[w][i])
        BY <1>1, UndoneItem DEF Position
    <2>3. \A i \in DOMAIN batch[w] : Undone(w, batch[w][i])'
        BY <2>2 DEF CommitFails, Undone, Stays, Aside, Backed, Vacant, Filled
    <2>4. QED
        BY <2>1, <2>3, EnterFailing DEF CommitFails
<1>2. CASE pc[w] \in {"inspect", "mkstemp", "install"}
    <2>1. TypeOK /\ pc[w] \in Looping
        BY <1>2 DEF TypeInv, Looping
    <2>2. PICK c \in Target : c = Current(w)
        BY <2>1, LoopItems
    <2>3. AtHand(w, c)
        BY <2>1, <2>2, LoopItems
    <2>4. Undone(w, c)
        BY <1>2, <2>3, UndoneItem DEF AtHand
    <2>5. Undone(w, c)'
        BY <2>4 DEF CommitFails, Undone, Stays, Aside, Backed, Vacant, Filled
    <2>6. \A t \in Target : t # c => SameItem(w, t)
        BY DEF CommitFails, SameItem
    <2>7. QED
        BY <2>1, <2>2, <2>5, <2>6, LoopFails DEF CommitFails
<1>3. QED
    BY <1>1, <1>2 DEF CommitFails

LEMMA ConfirmKeeps ==
    ASSUME TypeInv, NEW w \in Writer, Position(w), Confirm(w)
    PROVE  Position(w)'
<1>1. TypeOK /\ pc[w] \in Looping
    BY DEF TypeInv, Confirm, Looping
<1>2. PICK c \in Target : c = Current(w)
    BY <1>1, LoopItems
<1>3. AtHand(w, c)
    BY <1>1, <1>2, LoopItems
<1>4. \A t \in Target : t # c => SameItem(w, t)
    BY <1>1, <1>2 DEF Confirm, SameItem, TypeOK
<1>5. /\ result[w] = "none" /\ committed[w] = FALSE /\ at[w] \in Nat
      /\ batch[w] \in Batches /\ at[w] \in DOMAIN batch[w]
      /\ \A i \in DOMAIN batch[w] :
             /\ batch[w][i] \in Target /\ i \in Nat
             /\ i # at[w] => batch[w][i] # c
             /\ i < at[w] => Placed(w, batch[w][i])
             /\ i > at[w] => Fresh(w, batch[w][i])
    BY <1>1, <1>2, LoopItems
<1>6. DOMAIN batch[w] = 1..Len(batch[w]) /\ Len(batch[w]) \in Nat
    BY <1>5, BatchFields
<1>7. Placed(w, c)'
    BY <1>1, <1>2, <1>3 DEF Confirm, Proven, Placed, TypeOK, AtHand, Backed, Aside,
       Filled
<1>8. ASSUME NEW i \in DOMAIN batch[w]
      PROVE  /\ i < at[w] + 1 => Placed(w, batch[w][i])'
             /\ i > at[w] => Fresh(w, batch[w][i])'
    <2>1. PICK t \in Target : t = batch[w][i] /\ t = batch'[w][i]
        BY <1>5 DEF Confirm
    <2>2. CASE i = at[w]
        <3>1. t = c
            BY <1>2, <2>1, <2>2 DEF Current
        <3>2. Placed(w, t)'
            BY <1>7, <3>1
        <3>3. ~(i > at[w])
            BY <1>5, <2>2
        <3>4. QED
            BY <2>1, <3>2, <3>3
    <2>3. CASE i # at[w]
        <3>1. SameItem(w, t)
            BY <1>4, <1>5, <2>1, <2>3
        <3>2. (Placed(w, t) => Placed(w, t)') /\ (Fresh(w, t) => Fresh(w, t)')
            BY <3>1, ItemStays
        <3>3. (i < at[w] => Placed(w, t)) /\ (i > at[w] => Fresh(w, t))
            BY <1>5, <2>1
        <3>4. i < at[w] + 1 => i < at[w]
            BY <1>5, <2>3
        <3>5. (i < at[w] + 1 => Placed(w, t)') /\ (i > at[w] => Fresh(w, t)')
            BY <3>2, <3>3, <3>4
        <3>6. QED
            BY <2>1, <3>5
    <2>4. QED
        BY <2>2, <2>3
<1>9. CASE at[w] # Len(batch[w])
    <2>1. pc'[w] = "inspect" /\ at'[w] = at[w] + 1 /\ committed'[w] = FALSE
        BY <1>1, <1>9 DEF Confirm, Advance, GoAt, Goto, TypeOK
    <2>2. at[w] + 1 \in DOMAIN batch[w] /\ at[w] + 1 > at[w]
        BY <1>5, <1>6, <1>9
    <2>3. PICK j \in DOMAIN batch[w] : j = at[w] + 1 /\ j = at'[w] /\ j > at[w]
        BY <2>1, <2>2
    <2>4. PICK t \in Target : t = batch'[w][j] /\ t = Current(w)'
        BY <1>5, <2>3 DEF Confirm, Current
    <2>5. Fresh(w, batch[w][j])'
        BY <1>8, <2>3
    <2>6. Fresh(w, t)'
        BY <2>4, <2>5
    <2>7. AtHand(w, t)'
        BY <2>1, <2>6 DEF AtHand
    <2>8. AtHand(w, Current(w))'
        BY <2>4, <2>7
    <2>9. \A i \in DOMAIN batch'[w] :
            /\ i < at'[w] => Placed(w, batch[w][i])'
            /\ i > at'[w] => Fresh(w, batch[w][i])'
        <3>1. ASSUME NEW i \in DOMAIN batch[w]
              PROVE  /\ i < at'[w] => i < at[w] + 1
                     /\ i > at'[w] => i > at[w]
            BY <1>5, <2>1
        <3>2. DOMAIN batch'[w] = DOMAIN batch[w]
            BY DEF Confirm
        <3>3. QED
            BY <1>8, <3>1, <3>2
    <2>10. result'[w] = "none"
        BY <1>5 DEF Confirm
    <2>11. QED
        BY <2>1, <2>8, <2>9, <2>10, EnterLoop DEF Looping
<1>10. CASE at[w] = Len(batch[w])
    <2>1. pc'[w] = "clear" /\ at'[w] = 1 /\ committed'[w] = TRUE
        BY <1>1, <1>10 DEF Confirm, Advance, GoAt, Goto, TypeOK
    <2>2. \A i \in DOMAIN batch'[w] : Placed(w, batch[w][i])'
        <3>1. \A i \in DOMAIN batch[w] : i < at[w] + 1
            BY <1>5, <1>6, <1>10
        <3>2. DOMAIN batch'[w] = DOMAIN batch[w]
            BY DEF Confirm
        <3>3. QED
            BY <1>8, <3>1, <3>2
    <2>3. \A i \in DOMAIN batch'[w] : Kept(w, batch[w][i])'
        BY <2>2 DEF Placed, Kept
    <2>4. result'[w] = "none"
        BY <1>5 DEF Confirm
    <2>5. QED
        BY <2>1, <2>3, <2>4 DEF Position, Looping, Unwinding
<1>11. QED
    BY <1>9, <1>10

(* What the unwinding has behind it and before it. *)
LEMMA UnwindItems ==
    ASSUME TypeInv, NEW w \in Writer, Position(w),
           pc[w] \in {"restore", "forget"} \/ (pc[w] = "unwind" /\ at[w] > 0)
    PROVE  /\ TypeOK /\ result[w] = "none" /\ committed[w] = FALSE
           /\ batch[w] \in Batches /\ Current(w) \in Target
           /\ at[w] \in DOMAIN batch[w] /\ at[w] \in Nat
           /\ \A i \in DOMAIN batch[w] :
                  /\ batch[w][i] \in Target /\ i \in Nat
                  /\ i # at[w] => batch[w][i] # Current(w)
                  /\ i > at[w] => Settled(w, batch[w][i])
                  /\ i < at[w] => Undone(w, batch[w][i])
<1>1. /\ pc[w] \in Working \/ (pc[w] = "unwind" /\ at[w] > 0)
      /\ pc[w] \in Unwinding
    BY DEF Working, Unwinding
<1>2. result[w] = "none" /\ committed[w] = FALSE /\ batch[w] \in Batches
    BY <1>1, Underway
<1>3. DOMAIN batch[w] = 1..Len(batch[w]) /\ Len(batch[w]) \in Nat
    BY <1>2, BatchFields
<1>4. QED
    BY <1>1, <1>2, <1>3, CurrentItem DEF Position, TypeInv

(* A step of the unwinding that stays on its item. *)
LEMMA UnwindHere ==
    ASSUME TypeInv, NEW w \in Writer, Position(w),
           pc[w] \in {"restore", "forget"} \/ (pc[w] = "unwind" /\ at[w] > 0),
           pc'[w] \in {"restore", "forget"},
           UNCHANGED <<batch, at, failing, result, committed>>,
           NEW c \in Target, c = Current(w),
           \A t \in Target : t # c => SameItem(w, t),
           pc'[w] = "restore" => Removed(w, c)',
           pc'[w] = "forget" => disk'[c] = prior'[w][c] /\ disk'[c] \in Content
    PROVE  Position(w)'
<1>1. /\ result[w] = "none" /\ committed[w] = FALSE /\ at[w] \in Nat
      /\ \A i \in DOMAIN batch[w] :
             /\ batch[w][i] \in Target /\ i \in Nat
             /\ i # at[w] => batch[w][i] # c
             /\ i > at[w] => Settled(w, batch[w][i])
             /\ i < at[w] => Undone(w, batch[w][i])
    BY UnwindItems
<1>2. ASSUME NEW i \in DOMAIN batch[w]
      PROVE  /\ i > at[w] => Settled(w, batch[w][i])'
             /\ i < at[w] => Undone(w, batch[w][i])'
    <2>1. PICK t \in Target : t = batch[w][i] /\ t = batch'[w][i]
        BY <1>1
    <2>2. i # at[w] => SameItem(w, t)
        BY <1>1, <2>1
    <2>3. i # at[w] => /\ Settled(w, t) => Settled(w, t)'
                       /\ Undone(w, t) => Undone(w, t)'
        BY <2>2, ItemStays
    <2>4. (i < at[w] => i # at[w]) /\ (i > at[w] => i # at[w])
        BY <1>1
    <2>5. (i > at[w] => Settled(w, t)) /\ (i < at[w] => Undone(w, t))
        BY <1>1, <2>1
    <2>6. (i > at[w] => Settled(w, t)') /\ (i < at[w] => Undone(w, t)')
        BY <2>3, <2>4, <2>5
    <2>7. QED
        BY <2>1, <2>6
<1>3. c = Current(w)'
    BY DEF Current
<1>4. QED
    BY <1>1, <1>2, <1>3, EnterUnwinding DEF Unwinding

(* A step of the unwinding that is done with its item. *)
LEMMA UnwindNext ==
    ASSUME TypeInv, NEW w \in Writer, Position(w),
           pc[w] \in {"restore", "forget"} \/ (pc[w] = "unwind" /\ at[w] > 0),
           pc'[w] = "unwind", at'[w] = at[w] - 1, failing[w] => failing'[w],
           UNCHANGED <<batch, result, committed>>,
           NEW c \in Target, c = Current(w),
           \A t \in Target : t # c => SameItem(w, t),
           Settled(w, c)'
    PROVE  Position(w)'
<1>1. /\ result[w] = "none" /\ committed[w] = FALSE /\ at[w] \in Nat
      /\ batch[w] \in Batches /\ at[w] \in DOMAIN batch[w]
      /\ \A i \in DOMAIN batch[w] :
             /\ batch[w][i] \in Target /\ i \in Nat
             /\ i # at[w] => batch[w][i] # c
             /\ i > at[w] => Settled(w, batch[w][i])
             /\ i < at[w] => Undone(w, batch[w][i])
    BY UnwindItems
<1>2. ASSUME NEW i \in DOMAIN batch[w]
      PROVE  /\ i > at[w] - 1 => Settled(w, batch[w][i])'
             /\ i < at[w] => Undone(w, batch[w][i])'
    <2>1. PICK t \in Target : t = batch[w][i] /\ t = batch'[w][i]
        BY <1>1
    <2>2. CASE i # at[w]
        <3>1. SameItem(w, t)
            BY <1>1, <2>1, <2>2
        <3>2. (Settled(w, t) => Settled(w, t)') /\ (Undone(w, t) => Undone(w, t)')
            BY <3>1, ItemStays
        <3>3. i > at[w] - 1 => i > at[w]
            BY <1>1, <2>2
        <3>4. (i > at[w] => Settled(w, t)) /\ (i < at[w] => Undone(w, t))
            BY <1>1, <2>1
        <3>5. (i > at[w] - 1 => Settled(w, t)') /\ (i < at[w] => Undone(w, t)')
            BY <3>2, <3>3, <3>4
        <3>6. QED
            BY <2>1, <3>5
    <2>3. CASE i = at[w]
        <3>1. t = c
            BY <2>1, <2>3 DEF Current
        <3>2. Settled(w, t)'
            BY <3>1
        <3>3. ~(i < at[w])
            BY <1>1, <2>3
        <3>4. QED
            BY <2>1, <3>2, <3>3
    <2>4. QED
        BY <2>2, <2>3
<1>3. \A i \in DOMAIN batch'[w] :
        /\ i > at'[w] => Settled(w, batch[w][i])'
        /\ i < at'[w] => Undone(w, batch[w][i])'
    <2>1. \A i \in DOMAIN batch[w] : i < at[w] - 1 => i < at[w]
        BY <1>1
    <2>2. QED
        BY <1>2, <2>1
<1>4. at'[w] > 0 => Undone(w, Current(w))'
    <2>1. SUFFICES ASSUME at[w] - 1 > 0 PROVE Undone(w, Current(w))'
        OBVIOUS
    <2>2. DOMAIN batch[w] = 1..Len(batch[w]) /\ Len(batch[w]) \in Nat
        BY <1>1, BatchFields
    <2>3. PICK j \in DOMAIN batch[w] : j = at[w] - 1 /\ j < at[w] /\ j = at'[w]
        <3>1. at[w] \in 1..Len(batch[w])
            BY <1>1, <2>2
        <3>2. at[w] - 1 \in 1..Len(batch[w]) /\ at[w] - 1 < at[w]
            BY <2>1, <2>2, <3>1
        <3>3. QED
            BY <2>2, <3>2
    <2>4. PICK t \in Target : t = batch'[w][j] /\ t = Current(w)'
        BY <1>1, <2>3 DEF Current
    <2>5. Undone(w, batch[w][j])'
        BY <1>2, <2>3
    <2>6. Undone(w, t)'
        BY <2>4, <2>5
    <2>7. QED
        BY <2>4, <2>6
<1>5. result'[w] = "none" /\ committed'[w] = FALSE
    BY <1>1
<1>6. QED
    BY <1>3, <1>4, <1>5, EnterUnwinding DEF Unwinding

LEMMA RemoveInstalledKeeps ==
    ASSUME TypeInv, NEW w \in Writer, Position(w), RemoveInstalled(w)
    PROVE  Position(w)'
<1>1. /\ TypeOK /\ Current(w) \in Target
      /\ pc[w] \in {"restore", "forget"} \/ (pc[w] = "unwind" /\ at[w] > 0)
    BY UnwindItems DEF RemoveInstalled
<1>2. PICK c \in Target : c = Current(w)
    BY <1>1
<1>3. \A t \in Target : t # c => SameItem(w, t)
    BY <1>1, <1>2 DEF RemoveInstalled, Put, Save, SameItem, TypeOK
<1>4. Undone(w, c)
    BY <1>2 DEF RemoveInstalled, Position
<1>5. UNCHANGED <<batch, prior, saved, recorded, marked, result, committed>>
    BY DEF RemoveInstalled
<1>6. CASE Goto(w, "restore") /\ UNCHANGED <<at, failing>>
           /\ \/ c \notin marked[w] /\ UNCHANGED disk
              \/ c \in marked[w] /\ Put(c, Absent)
    <2>1. pc'[w] = "restore"
        BY <1>1, <1>6 DEF Goto, TypeOK
    <2>2. Removed(w, c)'
        BY <1>1, <1>4, <1>5, <1>6 DEF Put, TypeOK, Settled, Undone, Removed, Stays,
           Aside, Backed, Vacant, Filled
    <2>3. QED
        BY <1>1, <1>2, <1>3, <1>5, <1>6, <2>1, <2>2, UnwindHere
<1>7. CASE c \in marked[w] /\ Skip(w) /\ UNCHANGED disk
    <2>1. pc'[w] = "unwind" /\ at'[w] = at[w] - 1 /\ failing'[w] = TRUE
        BY <1>1, <1>7 DEF Skip, GoAt, Goto, TypeOK
    <2>2. Settled(w, c)'
        BY <1>4, <1>5, <1>7, <2>1 DEF Settled, Undone, Removed, Stays, Aside,
           Backed, Vacant, Filled
    <2>3. QED
        BY <1>1, <1>2, <1>3, <1>5, <2>1, <2>2, UnwindNext
<1>8. QED
    BY <1>2, <1>6, <1>7 DEF RemoveInstalled

LEMMA RestoreBackupKeeps ==
    ASSUME TypeInv, NEW w \in Writer, Position(w), RestoreBackup(w)
    PROVE  Position(w)'
<1>1. /\ TypeOK /\ Current(w) \in Target
      /\ pc[w] \in {"restore", "forget"} \/ (pc[w] = "unwind" /\ at[w] > 0)
    BY UnwindItems DEF RestoreBackup
<1>2. PICK c \in Target : c = Current(w)
    BY <1>1
<1>3. \A t \in Target : t # c => SameItem(w, t)
    BY <1>1, <1>2 DEF RestoreBackup, Put, Save, SameItem, TypeOK
<1>4. Removed(w, c)
    BY <1>2 DEF RestoreBackup, Position
<1>5. UNCHANGED <<batch, prior, recorded, marked, result, committed>>
    BY DEF RestoreBackup
<1>6. CASE /\ c \notin recorded[w] /\ GoAt(w, "unwind", at[w] - 1)
           /\ UNCHANGED <<disk, saved, failing>>
    <2>1. pc'[w] = "unwind" /\ at'[w] = at[w] - 1 /\ failing'[w] = failing[w]
        BY <1>1, <1>6 DEF GoAt, Goto, TypeOK
    <2>2. Settled(w, c)'
        BY <1>4, <1>5, <1>6 DEF Settled, Undone, Removed, Stays, Aside, Backed,
           Vacant, Filled
    <2>3. QED
        BY <1>1, <1>2, <1>3, <1>5, <2>1, <2>2, UnwindNext
<1>7. CASE /\ c \in recorded[w] /\ Put(c, saved[w][c]) /\ Goto(w, "forget")
           /\ UNCHANGED <<at, failing>>
    <2>1. pc'[w] = "forget"
        BY <1>1, <1>7 DEF Goto, TypeOK
    <2>2. disk'[c] = prior'[w][c] /\ disk'[c] \in Content
        BY <1>1, <1>4, <1>5, <1>7 DEF Put, TypeOK, Removed, Aside
    <2>3. QED
        BY <1>1, <1>2, <1>3, <1>5, <1>7, <2>1, <2>2, UnwindHere
<1>8. CASE c \in recorded[w] /\ Skip(w) /\ UNCHANGED <<disk, saved>>
    <2>1. pc'[w] = "unwind" /\ at'[w] = at[w] - 1 /\ failing'[w] = TRUE
        BY <1>1, <1>8 DEF Skip, GoAt, Goto, TypeOK
    <2>2. Settled(w, c)'
        BY <1>4, <1>5, <1>8, <2>1 DEF Settled, Undone, Removed, Stays, Aside,
           Backed, Vacant, Filled
    <2>3. QED
        BY <1>1, <1>2, <1>3, <1>5, <2>1, <2>2, UnwindNext
<1>9. QED
    BY <1>2, <1>6, <1>7, <1>8 DEF RestoreBackup

LEMMA ForgetBackupKeeps ==
    ASSUME TypeInv, NEW w \in Writer, Position(w), ForgetBackup(w)
    PROVE  Position(w)'
<1>1. /\ TypeOK /\ Current(w) \in Target
      /\ pc[w] \in {"restore", "forget"} \/ (pc[w] = "unwind" /\ at[w] > 0)
    BY UnwindItems DEF ForgetBackup
<1>2. PICK c \in Target : c = Current(w)
    BY <1>1
<1>3. \A t \in Target : t # c => SameItem(w, t)
    BY <1>1, <1>2 DEF ForgetBackup, Put, Save, SameItem, TypeOK
<1>4. disk[c] = prior[w][c]
    BY <1>2 DEF ForgetBackup, Position
<1>5. pc'[w] = "unwind" /\ at'[w] = at[w] - 1 /\ failing'[w] = failing[w]
    BY <1>1 DEF ForgetBackup, GoAt, Goto, TypeOK
<1>6. Settled(w, c)'
    BY <1>1, <1>2, <1>4 DEF ForgetBackup, TypeOK, Settled, Stays
<1>7. QED
    BY <1>1, <1>2, <1>3, <1>5, <1>6, UnwindNext DEF ForgetBackup

LEMMA EndUnwindingKeeps ==
    ASSUME TypeInv, NEW w \in Writer, Position(w), ~hit[w], EndUnwinding(w)
    PROVE  Position(w)'
<1>1. /\ TypeOK /\ batch[w] \in Batches /\ committed[w] = FALSE
      /\ at[w] = 0 /\ pc[w] \in Unwinding /\ pc[w] = "unwind"
    BY Underway DEF TypeInv, EndUnwinding, Unwinding
<1>2. DOMAIN batch[w] = 1..Len(batch[w]) /\ Len(batch[w]) \in Nat
    BY <1>1, BatchFields
<1>3. \A i \in DOMAIN batch[w] : Settled(w, batch[w][i])
    BY <1>1, <1>2 DEF Position
<1>4. /\ pc'[w] = "done"
      /\ result'[w] = IF failing[w] THEN "unrestored" ELSE "restored"
      /\ UNCHANGED <<batch, disk, saved, prior, recorded, failing, committed>>
    BY <1>1 DEF EndUnwinding, Verdict, Finish, Goto, TypeOK
<1>5. \A i \in DOMAIN batch'[w] : Settled(w, batch[w][i])'
    BY <1>3, <1>4 DEF Settled, Stays, Aside
<1>6. QED
    BY <1>1, <1>4, <1>5 DEF Position, Looping, Unwinding

LEMMA ClearBackupKeeps ==
    ASSUME TypeInv, NEW w \in Writer, Position(w), ClearBackup(w)
    PROVE  Position(w)'
<1>1. TypeOK /\ Current(w) \in Target /\ pc[w] = "clear" /\ result[w] = "none"
    BY CurrentItem DEF TypeInv, ClearBackup, Working, Shape
<1>2. \A i \in DOMAIN batch[w] : batch[w][i] \in Target /\ Kept(w, batch[w][i])
    BY <1>1, CurrentItem DEF Position, Working
<1>3. committed[w] = TRUE
    BY <1>1 DEF Position, TypeOK
<1>4. UNCHANGED <<batch, disk, prior, unproven, committed>>
    BY DEF ClearBackup
<1>5. PICK c \in Target : c = Current(w)
    BY <1>1
<1>6. \A t \in Target : t # c => SameItem(w, t)
    BY <1>1, <1>5 DEF ClearBackup, Save, SameItem, TypeOK
<1>7. Kept(w, c) => Kept(w, c)'
    <2>1. CASE c \in unproven[w]
        BY <1>1, <1>5, <2>1 DEF ClearBackup, Dropped, Kept, Backed, Aside
    <2>2. CASE c \notin unproven[w]
        BY <1>4, <2>2 DEF Kept
    <2>3. QED
        BY <2>1, <2>2
<1>8. ASSUME NEW i \in DOMAIN batch[w]
      PROVE  Kept(w, batch[w][i])'
    <2>1. PICK t \in Target : t = batch[w][i] /\ t = batch'[w][i]
        BY <1>2, <1>4
    <2>2. Kept(w, t)
        BY <1>2, <2>1
    <2>3. Kept(w, t)'
        BY <1>6, <1>7, <2>2, ItemStays
    <2>4. QED
        BY <2>1, <2>3
<1>9. \/ pc'[w] = "clear" /\ result'[w] = "none"
      \/ /\ pc'[w] = "done"
         /\ result'[w] = IF unproven[w] = {} THEN "installed" ELSE "unverified"
    BY <1>1 DEF ClearBackup, GoAt, Finish, Goto, TypeOK
<1>10. CASE pc'[w] = "clear" /\ result'[w] = "none"
    BY <1>3, <1>4, <1>8, <1>10 DEF Position, Looping, Unwinding
<1>11. CASE /\ pc'[w] = "done"
            /\ result'[w] = IF unproven[w] = {} THEN "installed" ELSE "unverified"
    BY <1>3, <1>4, <1>8, <1>11 DEF Position, Looping, Unwinding
<1>12. QED
    BY <1>9, <1>10, <1>11

LEMMA StartKeeps ==
    ASSUME TypeInv, NEW w \in Writer, NEW b \in Batches, Start(w, b)
    PROVE  Position(w)'
<1>1. TypeOK /\ \A i \in DOMAIN b : b[i] \in Target
    BY BatchFields DEF TypeInv
<1>2. /\ batch'[w] = b /\ at'[w] = 1 /\ committed'[w] = FALSE
      /\ pc'[w] = IF Blocked(b) THEN "done" ELSE "stage"
      /\ result'[w] = IF Blocked(b) THEN "rejected" ELSE "none"
    BY <1>1 DEF Start, Goto, TypeOK
<1>3. \A t \in Target : Fresh(w, t)'
    BY <1>1 DEF Start, TypeOK, Fresh, Stays, Unmarked
<1>4. \A i \in DOMAIN batch'[w] : Fresh(w, batch[w][i])'
    <2>1. ASSUME NEW i \in DOMAIN b PROVE Fresh(w, batch[w][i])'
        <3>1. PICK t \in Target : t = b[i] /\ t = batch'[w][i]
            BY <1>1, <1>2
        <3>2. QED
            BY <1>3, <3>1
    <2>2. QED
        BY <1>2, <2>1
<1>5. CASE Blocked(b)
    <2>1. \A i \in DOMAIN batch'[w] : Stays(w, batch[w][i])'
        BY <1>4 DEF Fresh
    <2>2. QED
        BY <1>2, <1>5, <2>1 DEF Position, Looping, Unwinding
<1>6. CASE ~Blocked(b)
    BY <1>2, <1>4, <1>6, EnterStaging
<1>7. QED
    BY <1>5, <1>6

(* Until the batch is in place, and for an unverified target even then, the old
   file of an uninterrupted run has a name. *)
LEMMA SafeEverywhere ==
    ASSUME TypeInv, NEW w \in Writer, Position(w), ~hit[w],
           NEW i \in DOMAIN batch[w],
           ~committed[w] \/ batch[w][i] \in unproven[w]
    PROVE  Safe(w, batch[w][i])
<1>1. TypeOK /\ Shape(w) /\ pc[w] \in Phase
    BY DEF TypeInv, TypeOK
<1>2. PICK t : t = batch[w][i]
    OBVIOUS
<1>3. CASE pc[w] = "idle"
    BY <1>1, <1>3 DEF Shape
<1>4. CASE pc[w] \in {"stage", "recheck"}
    BY <1>4, SafeItem DEF Position
<1>5. CASE pc[w] \in Looping
    <2>1. /\ at[w] \in Nat /\ i \in Nat /\ AtHand(w, Current(w))
          /\ i < at[w] => Placed(w, batch[w][i])
          /\ i > at[w] => Fresh(w, batch[w][i])
        BY <1>5, LoopItems
    <2>2. CASE i = at[w]
        BY <1>5, <2>1, <2>2, SafeItem DEF Current
    <2>3. CASE i # at[w]
        BY <2>1, <2>3, SafeItem
    <2>4. QED
        BY <2>2, <2>3
<1>6. CASE pc[w] = "clear"
    <2>1. committed[w] /\ Kept(w, batch[w][i])
        BY <1>6 DEF Position
    <2>2. QED
        BY <2>1, SafeItem
<1>7. CASE pc[w] \in Unwinding
    <2>1. /\ i > at[w] => Settled(w, batch[w][i])
          /\ i < at[w] => Undone(w, batch[w][i])
          /\ pc[w] = "unwind" /\ at[w] > 0 => Undone(w, Current(w))
          /\ pc[w] = "restore" => Removed(w, Current(w))
          /\ pc[w] = "forget" => disk[Current(w)] = prior[w][Current(w)]
        BY <1>7 DEF Position
    <2>2. i \in Nat /\ at[w] \in Nat /\ i > 0
        <3>1. batch[w] \in Batches
            BY <1>7, Underway
        <3>2. at[w] \in Nat
            BY <1>1, BatchBoundAssumption DEF TypeOK
        <3>3. QED
            BY <3>1, <3>2, BatchFields
    <2>3. CASE i = at[w]
        <3>1. Current(w) = batch[w][i]
            BY <2>3 DEF Current
        <3>2. CASE pc[w] = "forget"
            BY <2>1, <3>1, <3>2 DEF Safe
        <3>3. CASE pc[w] # "forget"
            BY <1>7, <2>1, <2>2, <2>3, <3>1, <3>3, SafeItem DEF Unwinding
        <3>4. QED
            BY <3>2, <3>3
    <2>4. QED
        BY <2>1, <2>2, <2>3, SafeItem
<1>8. CASE pc[w] = "done"
    <2>1. result[w] \in {"rejected", "installed", "unverified", "restored", "unrestored"}
        BY <1>8 DEF Position
    <2>2. CASE result[w] = "rejected"
        BY <1>8, <2>2, SafeItem DEF Position
    <2>3. CASE result[w] \in {"installed", "unverified"}
        <3>1. committed[w] /\ Kept(w, batch[w][i])
            BY <1>8, <2>3 DEF Position
        <3>2. QED
            BY <3>1, SafeItem
    <2>4. CASE result[w] \in {"restored", "unrestored"}
        BY <1>8, <2>4, SafeItem DEF Position
    <2>5. QED
        BY <2>1, <2>2, <2>3, <2>4
<1>9. CASE pc[w] = "crashed"
    BY <1>9 DEF Position
<1>10. QED
    BY <1>1, <1>3, <1>4, <1>5, <1>6, <1>7, <1>8, <1>9
       DEF Phase, Looping, Unwinding

LEMMA CrashKeeps ==
    ASSUME TypeInv, NEW w \in Writer, Position(w), ~hit[w], Crash(w)
    PROVE  Position(w)'
<1>1. /\ UNCHANGED <<disk, saved, prior, batch, unproven, committed, result>>
      /\ pc'[w] = "crashed" /\ result[w] = "none"
    BY DEF Crash, Goto, Running, TypeInv, TypeOK, Shape
<1>2. \A i \in DOMAIN batch[w] :
        ~committed[w] \/ batch[w][i] \in unproven[w] => Safe(w, batch[w][i])
    BY SafeEverywhere
<1>3. QED
    BY <1>1, <1>2 DEF Position, Safe, Looping, Unwinding

(* A disturbance of the names that takes nothing from any item. *)
LEMMA OutsideStep ==
    ASSUME TypeInv, NEW w \in Writer, Position(w),
           UNCHANGED <<pc, batch, at, prior, unproven, failing, committed, result>>,
           \A t \in Target :
               /\ Stays(w, t) => Stays(w, t)'
               /\ Fresh(w, t) => Fresh(w, t)'
               /\ Placed(w, t) => Placed(w, t)'
               /\ Kept(w, t) => Kept(w, t)'
               /\ Undone(w, t) => Undone(w, t)'
               /\ Removed(w, t) => Removed(w, t)'
               /\ Settled(w, t) => Settled(w, t)'
               /\ Safe(w, t) => Safe(w, t)'
               /\ AtHand(w, t) => AtHand(w, t)'
               /\ disk[t] \in Content => disk'[t] = disk[t]
    PROVE  Position(w)'
<1>1. ASSUME NEW i \in DOMAIN batch[w]
      PROVE  /\ Stays(w, batch[w][i]) => Stays(w, batch[w][i])'
             /\ Fresh(w, batch[w][i]) => Fresh(w, batch[w][i])'
             /\ Placed(w, batch[w][i]) => Placed(w, batch[w][i])'
             /\ Kept(w, batch[w][i]) => Kept(w, batch[w][i])'
             /\ Undone(w, batch[w][i]) => Undone(w, batch[w][i])'
             /\ Settled(w, batch[w][i]) => Settled(w, batch[w][i])'
             /\ Safe(w, batch[w][i]) => Safe(w, batch[w][i])'
    <2>1. batch[w][i] \in Target
        BY BatchFields DEF TypeInv, Shape
    <2>2. PICK t \in Target : t = batch[w][i] /\ t = batch'[w][i]
        BY <2>1
    <2>3. QED
        BY <2>2
<1>2. ASSUME pc[w] \in Working \/ (pc[w] = "unwind" /\ at[w] > 0)
      PROVE  /\ AtHand(w, Current(w)) => AtHand(w, Current(w))'
             /\ Undone(w, Current(w)) => Undone(w, Current(w))'
             /\ Removed(w, Current(w)) => Removed(w, Current(w))'
             /\ Current(w)' = Current(w)
             /\ disk[Current(w)] \in Content =>
                    disk'[Current(w)] = disk[Current(w)]
    <2>1. PICK t \in Target : t = Current(w) /\ t = Current(w)'
        BY <1>2, CurrentItem DEF Current
    <2>2. QED
        BY <2>1
<1>3. Looping \subseteq Working /\ {"restore", "forget"} \subseteq Working
    BY DEF Working
<1>4. CASE pc[w] \in {"stage", "recheck"}
    <2>1. result[w] = "none" /\ committed[w] = FALSE
        BY <1>4, Underway
    <2>2. QED
        BY <1>1, <1>4, <2>1, EnterStaging DEF Position
<1>5. CASE pc[w] \in Looping
    <2>1. result[w] = "none" /\ committed[w] = FALSE
        BY <1>5, Underway
    <2>2. QED
        BY <1>1, <1>2, <1>3, <1>5, <2>1, EnterLoop DEF Position
<1>6. CASE pc[w] \in Unwinding
    <2>1. result[w] = "none" /\ committed[w] = FALSE
        BY <1>6, Underway
    <2>2. \A i \in DOMAIN batch'[w] :
            /\ i > at'[w] => Settled(w, batch[w][i])'
            /\ i < at'[w] => Undone(w, batch[w][i])'
        BY <1>1, <1>6 DEF Position
    <2>3. /\ pc'[w] = "unwind" /\ at'[w] > 0 => Undone(w, Current(w))'
          /\ pc'[w] = "restore" => Removed(w, Current(w))'
          /\ pc'[w] = "forget" => /\ disk'[Current(w)'] = prior'[w][Current(w)']
                                  /\ disk'[Current(w)'] \in Content
        BY <1>2, <1>3, <1>6 DEF Position
    <2>4. QED
        BY <1>6, <2>1, <2>2, <2>3, EnterUnwinding
<1>7. CASE pc[w] \in {"idle", "clear", "done", "crashed"}
    <2>1. pc'[w] \notin Looping \union Unwinding \union {"stage", "recheck"}
        BY <1>7 DEF Looping, Unwinding
    <2>2. QED
        BY <1>1, <1>7, <2>1 DEF Position, Looping, Unwinding
<1>8. QED
    BY <1>4, <1>5, <1>6, <1>7 DEF TypeInv, TypeOK, Phase, Looping, Unwinding

LEMMA SubstituteKeeps ==
    ASSUME TypeInv, NEW w \in Writer, Position(w), NEW d \in Target,
           Substitute(w, d)
    PROVE  Position(w)'
<1>1. \A t \in Target :
        /\ Stays(w, t) => Stays(w, t)'
        /\ Fresh(w, t) => Fresh(w, t)'
        /\ Placed(w, t) => Placed(w, t)'
        /\ Kept(w, t) => Kept(w, t)'
        /\ Undone(w, t) => Undone(w, t)'
        /\ Removed(w, t) => Removed(w, t)'
        /\ Settled(w, t) => Settled(w, t)'
    <2>1. SUFFICES ASSUME NEW t \in Target
                   PROVE  SameItem(w, t) /\ (failing[w] => failing'[w])
        BY ItemStays
    <2>2. QED
        BY DEF Substitute, SameItem
<1>2. \A t \in Target :
        /\ Safe(w, t) => Safe(w, t)'
        /\ disk[t] \in Content => disk'[t] = disk[t]
    BY DEF Substitute, Safe
<1>3. \A t \in Target : AtHand(w, t) => AtHand(w, t)'
    BY DEF Substitute, AtHand, Fresh, Stays, Backed, Aside, Vacant, Filled, Unmarked
<1>4. QED
    BY <1>1, <1>2, <1>3, OutsideStep DEF Substitute

(* A directory under a free name takes nothing from any item. *)
LEMMA DirectorySpares ==
    ASSUME TypeOK, NEW w \in Writer, NEW d \in Target, NEW t \in Target,
           MakeDirectory(d)
    PROVE  /\ Stays(w, t) => Stays(w, t)'
           /\ Fresh(w, t) => Fresh(w, t)'
           /\ Placed(w, t) => Placed(w, t)'
           /\ Kept(w, t) => Kept(w, t)'
           /\ Undone(w, t) => Undone(w, t)'
           /\ Removed(w, t) => Removed(w, t)'
           /\ Settled(w, t) => Settled(w, t)'
           /\ Safe(w, t) => Safe(w, t)'
           /\ AtHand(w, t) => AtHand(w, t)'
           /\ disk[t] \in Content => disk'[t] = disk[t]
<1>1. UNCHANGED <<saved, prior, recorded, marked, unproven, failing, pc>>
    BY DEF MakeDirectory, procVars
<1>2. /\ disk'[t] = disk[t] \/ (disk[t] = Absent /\ disk'[t] = Directory)
      /\ disk[t] \in Content \union {Directory} => disk'[t] = disk[t]
    BY Names DEF MakeDirectory, Put, TypeOK
<1>3. Stays(w, t) => Stays(w, t)'
    BY <1>1, <1>2 DEF Stays
<1>4. Filled(w, t) => disk'[t] = disk[t] /\ Filled(w, t)'
    BY <1>1, <1>2, Names DEF Filled
<1>5. Vacant(t) => Vacant(t)'
    BY <1>1, <1>2 DEF Vacant
<1>6. /\ Aside(w, t) <=> Aside(w, t)'
      /\ Backed(w, t) <=> Backed(w, t)'
      /\ Unmarked(w, t) <=> Unmarked(w, t)'
    BY <1>1 DEF Aside, Backed, Unmarked
<1>7. Fresh(w, t) => Fresh(w, t)'
    BY <1>1, <1>3, <1>6 DEF Fresh
<1>8. Placed(w, t) => Placed(w, t)'
    BY <1>1, <1>4, <1>6 DEF Placed
<1>9. Kept(w, t) => Kept(w, t)'
    BY <1>1, <1>2, <1>6, Names DEF Kept
<1>10. /\ Undone(w, t) => Undone(w, t)'
       /\ Removed(w, t) => Removed(w, t)'
       /\ Settled(w, t) => Settled(w, t)'
    <2>1. prior[w][t] = Absent <=> prior'[w][t] = Absent
        BY <1>1
    <2>2. QED
        BY <1>1, <1>3, <1>4, <1>5, <1>6, <2>1 DEF Undone, Removed, Settled
<1>11. Safe(w, t) => Safe(w, t)'
    BY <1>1, <1>2 DEF Safe
<1>12. AtHand(w, t) => AtHand(w, t)'
    BY <1>1, <1>2, <1>4, <1>5, <1>6, <1>7 DEF AtHand
<1>13. QED
    BY <1>2, <1>3, <1>7, <1>8, <1>9, <1>10, <1>11, <1>12

LEMMA MakeDirectoryKeeps ==
    ASSUME TypeInv, NEW w \in Writer, Position(w), NEW d \in Target,
           MakeDirectory(d)
    PROVE  Position(w)'
<1>1. TypeOK
    BY DEF TypeInv
<1>2. QED
    BY <1>1, DirectorySpares, OutsideStep DEF MakeDirectory, procVars

-----------------------------------------------------------------------------
(* One process: what its reports are worth                                 *)

LEMMA BatchInvStart == Init => BatchInv
BY DEF Init, BatchInv, Position, Looping, Unwinding

LEMMA BatchInvStep ==
    ASSUME SoleWriter
    PROVE  TypeInv /\ BatchInv /\ [Next]_vars => BatchInv'
<1>1. SUFFICES ASSUME TypeInv, BatchInv, [Next]_vars, NEW w \in Writer, ~hit'[w]
               PROVE  Position(w)'
    BY DEF BatchInv
<1>2. \A v \in Writer : v = w
    BY DEF SoleWriter
<1>3. hit[w] \in BOOLEAN /\ (hit[w] = FALSE => Position(w))
    BY <1>1 DEF BatchInv, TypeInv, TypeOK
<1>4. ASSUME NEW b \in Batches, Start(w, b) PROVE Position(w)'
    BY <1>1, <1>4, StartKeeps
<1>5. CASE Step(w) /\ \A b \in Batches : ~Start(w, b)
    <2>1. hit[w] = FALSE
        BY <1>1, <1>5 DEF Step, StageItem, StageFault, Recheck, Inspect,
           MakeBackup, MoveAside, MoveFails, RecordBackup, Install, CommitFails,
           MarkInstalled, Confirm, ClearBackup, RemoveInstalled, RestoreBackup,
           ForgetBackup, EndUnwinding, TypeInv, TypeOK
    <2>2. Position(w)
        BY <1>3, <2>1
    <2>3. QED
        BY <1>1, <1>5, <2>1, <2>2, StageItemKeeps, StageFaultKeeps, RecheckKeeps,
           InspectKeeps, MakeBackupKeeps, MoveAsideKeeps, MoveFailsKeeps,
           RecordBackupKeeps, InstallKeeps, CommitFailsKeeps, MarkInstalledKeeps,
           ConfirmKeeps, ClearBackupKeeps, RemoveInstalledKeeps,
           RestoreBackupKeeps, ForgetBackupKeeps, EndUnwindingKeeps DEF Step
<1>6. CASE Disturb(w)
    <2>1. ~InterruptOutside(w) /\ ~InterruptCommit(w) /\ ~InterruptUnwinding(w)
        BY <1>1 DEF InterruptOutside, InterruptCommit, InterruptUnwinding, TypeInv,
           TypeOK
    <2>2. CASE Crash(w)
        <3>1. hit[w] = FALSE
            BY <1>1, <1>3, <2>2 DEF Crash
        <3>2. QED
            BY <1>1, <1>3, <2>2, <3>1, CrashKeeps
    <2>3. ASSUME NEW t \in Target, Substitute(w, t) PROVE Position(w)'
        <3>1. hit[w] = FALSE
            BY <1>1, <1>3, <2>3 DEF Substitute
        <3>2. QED
            BY <1>1, <1>3, <2>3, <3>1, SubstituteKeeps
    <2>4. QED
        BY <1>6, <2>1, <2>2, <2>3 DEF Disturb
<1>7. ASSUME NEW t \in Target, MakeDirectory(t) PROVE Position(w)'
    <2>1. hit[w] = FALSE
        BY <1>1, <1>3, <1>7 DEF MakeDirectory, procVars
    <2>2. QED
        BY <1>1, <1>3, <1>7, <2>1, MakeDirectoryKeeps
<1>8. CASE UNCHANGED vars
    <2>1. hit[w] = FALSE
        BY <1>1, <1>3, <1>8 DEF vars, procVars
    <2>2. Position(w)
        BY <1>3, <2>1
    <2>3. QED
        BY <1>1, <1>8, <2>2, OutsideStep DEF vars, procVars, Stays, Aside, Backed,
           Vacant, Filled, Unmarked, Fresh, Placed, Kept, Undone, Removed, Settled,
           Safe, AtHand
<1>9. QED
    BY <1>1, <1>2, <1>4, <1>5, <1>6, <1>7, <1>8 DEF Next

LEMMA BatchInvHolds ==
    ASSUME SoleWriter
    PROVE  Spec => [](TypeInv /\ BatchInv)
<1>1. Init => TypeInv /\ BatchInv
    BY TypeInvStart, BatchInvStart
<1>2. TypeInv /\ BatchInv /\ [Next]_vars => (TypeInv /\ BatchInv)'
    BY TypeInvStep, BatchInvStep
<1>3. QED
    BY <1>1, <1>2, PTL DEF Spec

(* The items of a batch, one by one. *)
LEMMA EveryItem ==
    ASSUME NEW w \in Writer, NEW t \in Items(w)
    PROVE  \E i \in DOMAIN batch[w] : t = batch[w][i]
BY DEF Items

(* Whatever syscall fails, whoever takes over a staged name or makes a directory
   in the way, and wherever the process dies: a run that was not interrupted
   never leaves a file it found without a name while the batch is not in place,
   and keeps the backups of the targets it could not verify. *)
THEOREM PriorFilesKept ==
    ASSUME SoleWriter
    PROVE  Spec => []PriorKept
<1>1. TypeInv /\ BatchInv => PriorKept
    <2>1. SUFFICES ASSUME TypeInv, BatchInv, NEW w \in Writer, NEW t \in Items(w),
                          ~hit[w], ~committed[w] \/ t \in unproven[w]
                   PROVE  Safe(w, t)
        BY DEF PriorKept, Safe
    <2>2. PICK i \in DOMAIN batch[w] : t = batch[w][i]
        BY EveryItem
    <2>3. Position(w)
        BY <2>1 DEF BatchInv
    <2>4. Safe(w, batch[w][i])
        BY <2>1, <2>2, <2>3, SafeEverywhere
    <2>5. QED
        BY <2>2, <2>4
<1>2. QED
    BY <1>1, BatchInvHolds, PTL

(* A finished run that was not interrupted: where its items stand. *)
LEMMA Finished ==
    ASSUME TypeInv, BatchInv, NEW w \in Writer, NEW t \in Items(w),
           result[w] \in {"installed", "unverified", "restored", "unrestored"}
    PROVE  /\ result[w] \in {"installed", "unverified"} => Kept(w, t)
           /\ result[w] \in {"restored", "unrestored"} => Settled(w, t)
           /\ result[w] = "installed" => unproven[w] = {}
           /\ result[w] = "restored" => ~failing[w]
<1>1. pc[w] = "done" /\ ~hit[w]
    BY DEF TypeInv, Shape
<1>2. Position(w)
    BY <1>1 DEF BatchInv
<1>3. PICK i \in DOMAIN batch[w] : t = batch[w][i]
    BY EveryItem
<1>4. QED
    BY <1>1, <1>2, <1>3 DEF Position

(* The error text of a failed batch tells the truth: "restored" only when every
   target is as the run found it, and otherwise every file that is not back is
   under a backup name the text lists. *)
THEOREM ErrorsTellTheTruth ==
    ASSUME SoleWriter
    PROVE  Spec => []RollbackReported
<1>1. TypeInv /\ BatchInv => RestoredIsTrue
    <2>1. SUFFICES ASSUME TypeInv, BatchInv, NEW w \in Writer, NEW t \in Items(w),
                          result[w] = "restored"
                   PROVE  Stays(w, t)
        BY DEF RestoredIsTrue, Stays
    <2>2. QED
        BY <2>1, Finished DEF Settled
<1>2. TypeInv /\ BatchInv => BackupsListed
    <2>1. SUFFICES ASSUME TypeInv, BatchInv, NEW w \in Writer, NEW t \in Items(w),
                          result[w] \in {"unrestored", "unverified"},
                          prior[w][t] \in Content \ {disk[t]}
                   PROVE  \/ t \in recorded[w] /\ saved[w][t] = prior[w][t]
                          \/ result[w] = "unverified" /\ t \notin unproven[w]
        BY DEF BackupsListed
    <2>2. prior[w][t] # Absent
        BY <2>1, Names
    <2>3. CASE result[w] = "unrestored"
        BY <2>1, <2>2, <2>3, Finished DEF Settled, Stays, Aside
    <2>4. CASE result[w] = "unverified"
        BY <2>1, <2>2, <2>4, Finished DEF Kept, Backed, Aside
    <2>5. QED
        BY <2>1, <2>3, <2>4
<1>3. TypeInv /\ BatchInv => RollbackReported
    BY <1>1, <1>2 DEF RollbackReported
<1>4. QED
    BY <1>3, BatchInvHolds, PTL

(* A run that reports success has its own rendering under every target, even if
   a staged name was taken over after it was verified. *)
THEOREM SuccessIsWhole ==
    ASSUME SoleWriter
    PROVE  Spec => []InstalledWhole
<1>1. TypeInv /\ BatchInv => InstalledWhole
    <2>1. SUFFICES ASSUME TypeInv, BatchInv, NEW w \in Writer, NEW t \in Items(w),
                          result[w] = "installed"
                   PROVE  disk[t] = w
        BY DEF InstalledWhole
    <2>2. QED
        BY <2>1, Finished DEF Kept
<1>2. QED
    BY <1>1, BatchInvHolds, PTL

=============================================================================

---------------------- MODULE TrackingDatabaseIOProofs ----------------------
(* Theorems about TrackingDatabaseIO that hold for any set of processes, any
   environment and any bounds. *)
EXTENDS TrackingDatabaseIO, TLAPS

(* Steps at which a process has a stage, and at which a commit has a
   snapshot. *)
HasStage == {"write", "sync", "verify", "recheck", "reverify", "backup",
             "filling", "lastcheck", "lastverify", "replace", "confirm",
             "release", "releasing", "fsync"}
HasSnapshot == {"ready", "waiting", "verifying", "check", "stage"} \union HasStage

Held ==
    \A w \in Writer :
        /\ pc[w] \in HasStage => staged[w] # Nothing
        /\ pc[w] \in HasSnapshot /\ job[w] # "initialize" =>
               snap[w] # Nothing /\ snap[w].bytes # Garbage

TypeInv == TypeOK /\ Held

USE DEF Goto, Report, Enabled, Resting, LockWait, Abort

LEMMA NewStageIsFile ==
    ASSUME NEW w \in Writer, NEW m \in {"shared", "private"}, NEW g \in Nat
    PROVE  NewStage(w, m, g) \in File
BY DEF NewStage, File, Author

LEMMA StrangersFileIsFile ==
    ASSUME NEW g \in Nat
    PROVE  StrangersFile(g) \in File
BY DEF StrangersFile, File

(* The fields of a file, and the files its single-field updates yield. *)
LEMMA FileFields ==
    ASSUME NEW f \in File
    PROVE  /\ f.ino \in Author \union {Garbage} /\ f.gen \in Nat
           /\ f.ctime \in Nat /\ f.mode \in {"shared", "private"}
           /\ f.bytes \in {Garbage} \union Payload /\ f.synced \in BOOLEAN
BY DEF File

LEMMA FileWithBytes ==
    ASSUME NEW f \in File, NEW b \in {Garbage} \union Payload
    PROVE  [f EXCEPT !.bytes = b] \in File
BY DEF File

LEMMA RewrittenIsFile ==
    ASSUME NEW f \in File, NEW b \in {Garbage} \union Payload,
           NEW n \in Nat, NEW c \in Nat
    PROVE  Rewritten(f, b, n, c) \in File
BY DEF File, Rewritten

LEMMA TouchedIsFile ==
    ASSUME NEW f \in File, NEW m \in {"shared", "private"}
    PROVE  Touched(f, m) \in File
<1> DEFINE g == [f EXCEPT !.mode = m]
<1>1. g \in File
    BY DEF File
<1>2. [g EXCEPT !.ctime = g.ctime + 1] \in File
    <2> HIDE DEF g
    <2> QED
        BY <1>1 DEF File
<1>3. QED
    BY <1>2 DEF Touched

LEMMA FileSynced ==
    ASSUME NEW f \in File
    PROVE  [f EXCEPT !.synced = TRUE] \in File
BY DEF File

LEMMA TypeInit == Init => TypeInv
<1> SUFFICES ASSUME Init PROVE TypeInv
    OBVIOUS
<1>1. [ino |-> Editor, gen |-> 0, ctime |-> 0, mode |-> "shared",
       bytes |-> {}, synced |-> TRUE] \in File
    BY DEF File, Author, Payload
<1>2. QED
    BY <1>1 DEF Init, TypeInv, TypeOK, Held, Phase, Job, Outcome, Payload,
                HasStage, HasSnapshot

LEMMA TypeStep == TypeInv /\ [Next]_vars => TypeInv'
<1> SUFFICES ASSUME TypeInv, [Next]_vars PROVE TypeInv'
    OBVIOUS
<1> USE NameAssumption DEF TypeInv
<1>1. ASSUME NEW w \in Writer, LoadFinish(w) PROVE TypeInv'
    <2>1. seen[w] \in File /\ pc[w] = "loading"
        BY <1>1 DEF LoadFinish, TypeOK
    <2>2. CASE ~ReadIsStable(w) \/ seen[w].bytes = Garbage
        BY <1>1, <2>2 DEF LoadFinish, TypeOK, Held, HasStage, HasSnapshot,
           Phase, Job, Outcome, envVars, diskVars
    <2>3. CASE ~(~ReadIsStable(w) \/ seen[w].bytes = Garbage)
        <3>1. seen[w].bytes \in Payload /\ db \in File
            BY <2>1, <2>3, FileFields DEF ReadIsStable, TypeOK
        <3>2. SnapshotRead(w) \in File /\ SnapshotRead(w).bytes # Garbage
            BY <3>1, <2>3 DEF SnapshotRead, File
        <3>3. Candidates(w, seen[w].bytes) \subseteq Payload
            BY <3>1 DEF Candidates, Payload, Author
        <3>4. SnapshotRead(w) # Nothing
            BY <3>2
        <3>5. TypeOK'
            BY <1>1, <2>3, <3>2, <3>3 DEF LoadFinish, TypeOK, Held, HasStage,
               HasSnapshot, Phase, Job, Outcome, envVars, diskVars
        <3>6. Held'
            BY <1>1, <2>3, <3>2, <3>4 DEF LoadFinish, TypeOK, Held, HasStage,
               HasSnapshot, Phase, Job, Outcome, envVars, diskVars
        <3>7. QED
            BY <3>5, <3>6
    <2>4. QED
        BY <2>2, <2>3
<1>2. ASSUME NEW w \in Writer, OpenLock(w) PROVE TypeInv'
    BY <1>2 DEF OpenLock, TypeOK, Held, HasStage, HasSnapshot, Phase, Job,
       Outcome, envVars, diskVars
<1>3. ASSUME NEW w \in Writer, Flock(w) PROVE TypeInv'
    BY <1>3 DEF Flock, TypeOK, Held, HasStage, HasSnapshot, Phase, Job,
       Outcome, envVars, diskVars
<1>4. ASSUME NEW w \in Writer, VerifyLock(w) PROVE TypeInv'
    BY <1>4 DEF VerifyLock, TypeOK, Held, HasStage, HasSnapshot, Phase, Job,
       Outcome, envVars, diskVars
<1>5. ASSUME NEW w \in Writer, Unlock(w) PROVE TypeInv'
    BY <1>5 DEF Unlock, TypeOK, Held, HasStage, HasSnapshot, Phase, Job,
       Outcome, envVars, diskVars
<1>6. ASSUME NEW w \in Writer, FirstCheck(w) PROVE TypeInv'
    BY <1>6 DEF FirstCheck, CheckFinish, RequireMissing, TypeOK, Held,
       HasStage, HasSnapshot, Phase, Job, Outcome, envVars, diskVars
<1>7. ASSUME NEW w \in Writer, Recheck(w) PROVE TypeInv'
    BY <1>7 DEF Recheck, CheckFinish, RequireMissing, TypeOK, Held, HasStage,
       HasSnapshot, Phase, Job, Outcome, envVars, diskVars
<1>8. ASSUME NEW w \in Writer, LastCheck(w) PROVE TypeInv'
    BY <1>8 DEF LastCheck, CheckFinish, TypeOK, Held, HasStage, HasSnapshot,
       Phase, Job, Outcome, envVars, diskVars
<1>9. ASSUME NEW w \in Writer, StageFault(w) PROVE TypeInv'
    BY <1>9 DEF StageFault, TypeOK, Held, HasStage, HasSnapshot, Phase, Job,
       Outcome, envVars, diskVars
<1>10. ASSUME NEW w \in Writer, OpenStage(w) PROVE TypeInv'
    <2>1. job[w] # "initialize" => snap[w] \in File
        BY <1>10 DEF OpenStage, TypeOK, Held, HasStage, HasSnapshot, Phase,
           Job, Outcome, envVars, diskVars
    <2> DEFINE mode == IF job[w] = "initialize" THEN "private" ELSE snap[w].mode
    <2>2. mode \in {"shared", "private"}
        BY <2>1, FileFields
    <2>3. stamp' \in Nat
        BY <1>10 DEF OpenStage, TypeOK
    <2>4. NewStage(w, mode, stamp') \in File
        BY <2>2, <2>3, NewStageIsFile
    <2>5. NewStage(w, mode, stamp') # Nothing
        BY <2>4
    <2> HIDE DEF mode
    <2>6. staged' = [staged EXCEPT ![w] = NewStage(w, mode, stamp')]
        BY <1>10 DEF OpenStage, mode
    <2>7. QED
        BY <1>10, <2>3, <2>4, <2>5, <2>6 DEF OpenStage, TypeOK, Held, HasStage,
           HasSnapshot, Phase, Job, Outcome, envVars, diskVars
<1>11. ASSUME NEW w \in Writer, WriteStage(w) PROVE TypeInv'
    <2>1. staged[w] \in File
        BY <1>11 DEF WriteStage, TypeOK, Held, HasStage, HasSnapshot, Phase,
           Job, Outcome, envVars, diskVars
    <2>2. [staged[w] EXCEPT !.bytes = cand[w]] \in File
        BY <2>1, FileWithBytes DEF TypeOK
    <2>3. QED
        BY <1>11, <2>2 DEF WriteStage, TypeOK, Held, HasStage, HasSnapshot,
           Phase, Job, Outcome, envVars, diskVars
<1>12. ASSUME NEW w \in Writer, SyncStage(w) PROVE TypeInv'
    <2>1. staged[w] \in File
        BY <1>12 DEF SyncStage, TypeOK, Held, HasStage, HasSnapshot, Phase,
           Job, Outcome, envVars, diskVars
    <2>2. [staged[w] EXCEPT !.synced = TRUE] \in File
        BY <2>1, FileSynced
    <2>3. TypeOK'
        BY <1>12, <2>2 DEF SyncStage, TypeOK, Phase, envVars, diskVars
    <2>4. Held'
        <3>1. staged' = [staged EXCEPT ![w] = [staged[w] EXCEPT !.synced = TRUE]]
            BY <1>12 DEF SyncStage
        <3>2. \A v \in Writer : staged[v] # Nothing => staged'[v] # Nothing
            BY <2>2, <3>1 DEF TypeOK
        <3>3. /\ UNCHANGED <<snap, job>> /\ pc[w] = "sync"
              /\ pc' = [pc EXCEPT ![w] = "verify"]
            BY <1>12 DEF SyncStage, Goto
        <3>4. QED
            BY <3>2, <3>3 DEF TypeOK, Held, HasStage, HasSnapshot
    <2>5. QED
        BY <2>3, <2>4
<1>13. ASSUME NEW w \in Writer, Verify(w) PROVE TypeInv'
    BY <1>13 DEF Verify, VerifyStage, TypeOK, Held, HasStage, HasSnapshot,
       Phase, Job, Outcome, envVars, diskVars
<1>14. ASSUME NEW w \in Writer, OpenBackup(w) PROVE TypeInv'
    BY <1>14 DEF OpenBackup, TypeOK, Held, HasStage, HasSnapshot, Phase, Job,
       Outcome, envVars
<1>15. ASSUME NEW w \in Writer, FillBackup(w) PROVE TypeInv'
    BY <1>15 DEF FillBackup, TypeOK, Held, HasStage, HasSnapshot, Phase, Job,
       Outcome, envVars
<1>16. ASSUME NEW w \in Writer, InstallFault(w) PROVE TypeInv'
    BY <1>16 DEF InstallFault, TypeOK, Held, HasStage, HasSnapshot, Phase, Job,
       Outcome, envVars, diskVars
<1>17. ASSUME NEW w \in Writer, Replace(w) PROVE TypeInv'
    <2>1. Incoming(w) \in File
        BY <1>17, StrangersFileIsFile DEF Replace, Incoming, TypeOK, Held,
           HasStage, HasSnapshot, Phase, Job, Outcome, envVars
    <2>2. TypeOK'
        BY <1>17, <2>1 DEF Replace, TypeOK, Held, HasStage, HasSnapshot, Phase,
           Job, Outcome, envVars
    <2>3. Held'
        BY <1>17 DEF Replace, TypeOK, Held, HasStage, HasSnapshot, Phase, Job,
           Outcome, envVars
    <2>4. QED
        BY <2>2, <2>3
<1>18. ASSUME NEW w \in Writer, Link(w) PROVE TypeInv'
    <2>1. Incoming(w) \in File
        BY <1>18, StrangersFileIsFile DEF Link, Incoming, TypeOK, Held,
           HasStage, HasSnapshot, Phase, Job, Outcome, envVars
    <2>2. TypeOK'
        BY <1>18, <2>1 DEF Link, TypeOK, Held, HasStage, HasSnapshot, Phase,
           Job, Outcome, envVars
    <2>3. Held'
        BY <1>18 DEF Link, TypeOK, Held, HasStage, HasSnapshot, Phase, Job,
           Outcome, envVars
    <2>4. QED
        BY <2>2, <2>3
<1>19. ASSUME NEW w \in Writer, Confirm(w) PROVE TypeInv'
    BY <1>19 DEF Confirm, TypeOK, Held, HasStage, HasSnapshot, Phase, Job,
       Outcome, envVars, diskVars
<1>20. ASSUME NEW w \in Writer, FsyncDirectory(w) PROVE TypeInv'
    BY <1>20 DEF FsyncDirectory, TypeOK, Held, HasStage, HasSnapshot, Phase,
       Job, Outcome, envVars
<1>21. ASSUME NEW w \in Writer, Close(w) PROVE TypeInv'
    <2>1. db # Missing => Touched(db, db.mode) \in File
        BY TouchedIsFile, FileFields DEF TypeOK
    <2>2. TypeOK'
        BY <1>21, <2>1 DEF Close, Unlink, Inspect, Remove, Told, Unlinking,
           TypeOK, Phase, diskVars, envVars
    <2>3. Held'
        BY <1>21
           DEF Close, Unlink, Inspect, Remove, Told, TypeOK, Held, HasStage, HasSnapshot, Phase,
           Job, Outcome, envVars
    <2>4. QED
        BY <2>2, <2>3
<1>22. ASSUME NEW w \in Writer, Begin(w) PROVE TypeInv'
    <2>1. PICK j \in Job : Start(w, j)
        BY <1>22 DEF Begin
    <2>2. TypeOK'
        BY <2>1 DEF Start, TypeOK, Held, HasStage, HasSnapshot, Phase, Job,
           Outcome, Payload, envVars, diskVars
    <2>3. Held'
        BY <2>1 DEF Start, TypeOK, Held, HasStage, HasSnapshot, Phase, Job,
           Outcome, envVars, diskVars
    <2>4. QED
        BY <2>2, <2>3
<1>23. ASSUME NEW w \in Writer, TakeStage(w) PROVE TypeInv'
    BY <1>23 DEF TakeStage, TypeOK, Held, HasStage, HasSnapshot, Phase, Job,
       Outcome, diskVars
<1>24. ASSUME NEW w \in Writer, Crash(w) PROVE TypeInv'
    BY <1>24 DEF Crash, TypeOK, Held, HasStage, HasSnapshot, Phase, Job,
       Outcome, envVars, diskVars
<1>25. ASSUME NEW w \in Writer, Read(w) PROVE TypeInv'
    BY <1>25 DEF Read, ReadOpen, TypeOK, Held, HasStage, HasSnapshot, Phase,
       Job, Outcome, envVars, diskVars
<1>26. CASE EditSave
    <2>1. EditorBytes \subseteq Payload
        BY DEF EditorBytes, Payload, Author
    <2>2. db' \in File
        BY <1>26, <2>1 DEF EditSave, TypeOK, File, Author
    <2>3. QED
        BY <1>26, <2>2 DEF EditSave, TypeOK, Held, HasStage, HasSnapshot,
           Phase, Job, Outcome, procVars
<1>27. CASE EditBegin
    <2> stamp' \in Nat /\ db \in File
        BY <1>27 DEF EditBegin, TypeOK
    <2>1. db' \in File
        BY <1>27, RewrittenIsFile, FileFields DEF EditBegin
    <2>2. QED
        BY <1>27, <2>1 DEF EditBegin, TypeOK, Held, HasStage, HasSnapshot,
           Phase, Job, Outcome, procVars
<1>28. CASE EditEnd
    <2>1. EditorBytes \subseteq Payload
        BY DEF EditorBytes, Payload, Author
    <2> stamp' \in Nat
        BY <1>28 DEF EditEnd, TypeOK
    <2>2. db' \in File \union {Missing}
        <3>1. CASE db # Missing /\ db.bytes = Garbage
            <4>1. db \in File /\ db.ctime \in Nat
                BY <3>1, FileFields DEF TypeOK
            <4>2. PICK b \in EditorBytes : db' = Rewritten(db, b, stamp', db.ctime)
                BY <1>28, <3>1 DEF EditEnd
            <4>3. QED
                BY <2>1, <4>1, <4>2, RewrittenIsFile
        <3>2. CASE ~(db # Missing /\ db.bytes = Garbage)
            BY <1>28, <3>2 DEF EditEnd, TypeOK
        <3>3. QED
            BY <3>1, <3>2
    <2>3. TypeOK'
        BY <1>28, <2>2 DEF EditEnd, TypeOK, Held, HasStage, HasSnapshot, Phase,
           Job, Outcome, procVars
    <2>4. Held'
        BY <1>28 DEF EditEnd, TypeOK, Held, HasStage, HasSnapshot, Phase, Job,
           Outcome, procVars
    <2>5. QED
        BY <2>3, <2>4
<1>29. CASE EditBackdated
    <2>1. EditorBytes \subseteq Payload
        BY DEF EditorBytes, Payload, Author
    <2> db \in File /\ db.gen \in Nat /\ db.ctime + 1 \in Nat
        BY <1>29, FileFields DEF EditBackdated, TypeOK
    <2>2. db' \in File
        BY <1>29, <2>1, RewrittenIsFile DEF EditBackdated
    <2>3. QED
        BY <1>29, <2>2 DEF EditBackdated, TypeOK, Held, HasStage, HasSnapshot,
           Phase, Job, Outcome, procVars
<1>30. CASE Chmod
    <2>1. db' \in File
        BY <1>30, TouchedIsFile DEF Chmod, TypeOK
    <2>2. QED
        BY <1>30, <2>1 DEF Chmod, TypeOK, Held, HasStage, HasSnapshot, Phase,
           Job, Outcome, procVars
<1>31. CASE Churn
    <2>1. db' \in File
        BY <1>31, TouchedIsFile, FileFields DEF Churn, TypeOK
    <2>2. QED
        BY <1>31, <2>1 DEF Churn, TypeOK, Held, HasStage, HasSnapshot, Phase,
           Job, Outcome, procVars
<1>32. CASE ReplaceLockFile
    BY <1>32 DEF ReplaceLockFile, TypeOK, Held, HasStage, HasSnapshot, Phase,
       Job, Outcome, procVars
<1>33. CASE PowerLoss
    <2>1. db' \in File \union {Missing}
        BY <1>33, FileWithBytes DEF PowerLoss, TypeOK
    <2>2. QED
        BY <1>33, <2>1 DEF PowerLoss, TypeOK, Held, HasStage, HasSnapshot,
           Phase, Job, Outcome
<1>34. CASE UNCHANGED vars
    BY <1>34 DEF TypeOK, Held, HasStage, HasSnapshot, Phase, Job, Outcome,
       vars, procVars, envVars, diskVars
<1>35. QED
    BY <1>1, <1>2, <1>3, <1>4, <1>5, <1>6, <1>7, <1>8, <1>9, <1>10, <1>11,
       <1>12, <1>13, <1>14, <1>15, <1>16, <1>17, <1>18, <1>19, <1>20, <1>21,
       <1>22, <1>23, <1>24, <1>25, <1>26, <1>27, <1>28, <1>29, <1>30, <1>31,
       <1>32, <1>33, <1>34 DEF Next, Disturb, Step

(* Every variable keeps its type in every run, for any set of processes. *)
THEOREM TypeCorrect == Spec => []TypeOK
<1>1. Init => TypeInv
    BY TypeInit
<1>2. TypeInv /\ [Next]_vars => TypeInv'
    BY TypeStep
<1>3. TypeInv => TypeOK
    BY DEF TypeInv
<1>4. QED
    BY <1>1, <1>2, <1>3, PTL DEF Spec

-----------------------------------------------------------------------------
(* Mutual exclusion: a process in the guarded body holds flock on the inode
   the lock file's name means, and no inode is held twice. *)

InBody == Phase \ {"idle", "loading", "ready", "waiting", "verifying", "done",
                   "crashed"}

LockInv ==
    /\ \A w \in Writer : w \in holds <=> pc[w] \in InBody \union {"verifying"}
    /\ \A v, w \in holds : lockFd[v] = lockFd[w] => v = w
    /\ \A w \in Writer : pc[w] \in InBody => lockFd[w] = lockFile

LEMMA LockInit == Init => LockInv
BY DEF Init, LockInv, InBody, Phase

LEMMA LockStep == TypeInv /\ LockInv /\ [Next]_vars => LockInv'
<1> SUFFICES ASSUME TypeInv, LockInv, [Next]_vars PROVE LockInv'
    OBVIOUS
<1> USE DEF TypeInv, TypeOK, LockInv, InBody, Phase
<1>1. ASSUME NEW w \in Writer, LoadFinish(w) PROVE LockInv'
    BY <1>1 DEF LoadFinish, envVars, diskVars
<1>2. ASSUME NEW w \in Writer, OpenLock(w) PROVE LockInv'
    BY <1>2 DEF OpenLock, envVars, diskVars
<1>3. ASSUME NEW w \in Writer, Flock(w) PROVE LockInv'
    BY <1>3 DEF Flock, envVars, diskVars
<1>4. ASSUME NEW w \in Writer, VerifyLock(w) PROVE LockInv'
    BY <1>4 DEF VerifyLock, envVars, diskVars
<1>5. ASSUME NEW w \in Writer, Unlock(w) PROVE LockInv'
    BY <1>5 DEF Unlock, envVars, diskVars
<1>6. ASSUME NEW w \in Writer, FirstCheck(w) PROVE LockInv'
    BY <1>6 DEF FirstCheck, CheckFinish, RequireMissing, envVars, diskVars
<1>7. ASSUME NEW w \in Writer, Recheck(w) PROVE LockInv'
    BY <1>7 DEF Recheck, CheckFinish, RequireMissing, envVars, diskVars
<1>8. ASSUME NEW w \in Writer, LastCheck(w) PROVE LockInv'
    BY <1>8 DEF LastCheck, CheckFinish, envVars, diskVars
<1>9. ASSUME NEW w \in Writer, StageFault(w) PROVE LockInv'
    BY <1>9 DEF StageFault, envVars, diskVars
<1>10. ASSUME NEW w \in Writer, OpenStage(w) PROVE LockInv'
    BY <1>10 DEF OpenStage, envVars, diskVars
<1>11. ASSUME NEW w \in Writer, WriteStage(w) PROVE LockInv'
    BY <1>11 DEF WriteStage, envVars, diskVars
<1>12. ASSUME NEW w \in Writer, SyncStage(w) PROVE LockInv'
    BY <1>12 DEF SyncStage, envVars, diskVars
<1>13. ASSUME NEW w \in Writer, Verify(w) PROVE LockInv'
    BY <1>13 DEF Verify, VerifyStage, envVars, diskVars
<1>14. ASSUME NEW w \in Writer, OpenBackup(w) PROVE LockInv'
    BY <1>14 DEF OpenBackup, envVars
<1>15. ASSUME NEW w \in Writer, FillBackup(w) PROVE LockInv'
    BY <1>15 DEF FillBackup, envVars
<1>16. ASSUME NEW w \in Writer, InstallFault(w) PROVE LockInv'
    BY <1>16 DEF InstallFault, envVars, diskVars
<1>17. ASSUME NEW w \in Writer, Replace(w) PROVE LockInv'
    BY <1>17 DEF Replace, Incoming, envVars
<1>18. ASSUME NEW w \in Writer, Link(w) PROVE LockInv'
    BY <1>18 DEF Link, Incoming, envVars
<1>19. ASSUME NEW w \in Writer, Confirm(w) PROVE LockInv'
    BY <1>19 DEF Confirm, envVars, diskVars
<1>20. ASSUME NEW w \in Writer, FsyncDirectory(w) PROVE LockInv'
    BY <1>20 DEF FsyncDirectory, envVars
<1>21. ASSUME NEW w \in Writer, Close(w) PROVE LockInv'
    BY <1>21 DEF Close, Unlink, Inspect, Remove, diskVars, envVars
<1>22. ASSUME NEW w \in Writer, Begin(w) PROVE LockInv'
    BY <1>22 DEF Begin, Start, envVars, diskVars
<1>23. ASSUME NEW w \in Writer, TakeStage(w) PROVE LockInv'
    BY <1>23 DEF TakeStage, diskVars
<1>24. ASSUME NEW w \in Writer, Crash(w) PROVE LockInv'
    BY <1>24 DEF Crash, envVars, diskVars
<1>25. ASSUME NEW w \in Writer, Read(w) PROVE LockInv'
    BY <1>25 DEF Read, ReadOpen, envVars, diskVars
<1>26. CASE EditSave
    BY <1>26 DEF EditSave, procVars
<1>27. CASE EditBegin
    BY <1>27 DEF EditBegin, procVars
<1>28. CASE EditEnd
    BY <1>28 DEF EditEnd, procVars
<1>29. CASE EditBackdated
    BY <1>29 DEF EditBackdated, procVars
<1>30. CASE Chmod
    BY <1>30 DEF Chmod, procVars
<1>31. CASE Churn
    BY <1>31 DEF Churn, procVars
<1>32. CASE ReplaceLockFile
    BY <1>32 DEF ReplaceLockFile, Locked, procVars
<1>33. CASE PowerLoss
    BY <1>33 DEF PowerLoss
<1>34. CASE UNCHANGED vars
    BY <1>34 DEF vars, procVars, envVars, diskVars
<1>35. QED
    BY <1>1, <1>2, <1>3, <1>4, <1>5, <1>6, <1>7, <1>8, <1>9, <1>10, <1>11,
       <1>12, <1>13, <1>14, <1>15, <1>16, <1>17, <1>18, <1>19, <1>20, <1>21,
       <1>22, <1>23, <1>24, <1>25, <1>26, <1>27, <1>28, <1>29, <1>30, <1>31,
       <1>32, <1>33, <1>34 DEF Next, Disturb, Step

(* At most one process is inside the guarded body, although the lock file may
   be replaced while others wait on the old one: exclusive_file_lock's second
   look at the name is what makes the inodes agree. *)
THEOREM MutualExclusion == Spec => []LockExcludes
<1>1. Init => TypeInv /\ LockInv
    BY TypeInit, LockInit
<1>2. TypeInv /\ LockInv /\ [Next]_vars => TypeInv' /\ LockInv'
    BY TypeStep, LockStep
<1>3. TypeInv /\ LockInv => LockExcludes
    BY DEF TypeInv, TypeOK, LockInv, LockExcludes, Locked, InBody, Phase
<1>4. QED
    BY <1>1, <1>2, <1>3, PTL DEF Spec

-----------------------------------------------------------------------------
(* No lost update. A generation number names one content: whatever a running
   process saw or snapshotted under the live generation's number is older
   metadata of it or exactly it; and the staged file of a running process has
   a number nothing else has. *)

Running(w) == pc[w] \notin Resting

Faithful(f) ==
    db # Missing /\ f.gen = db.gen =>
        /\ f.ctime <= db.ctime
        /\ f.ctime = db.ctime => f.bytes = db.bytes /\ f.mode = db.mode

(* The file a process has staged and not installed. *)
Pending(w) == Running(w) /\ staged[w] # Nothing /\ w \notin installed

Numbered ==
    /\ db # Missing => db.gen <= stamp
    /\ \A f \in fallback : f # Missing => f.gen <= stamp
    /\ \A w \in Writer :
        /\ seen[w] # Nothing => seen[w].gen <= stamp
        /\ snap[w] # Nothing => snap[w].gen <= stamp
        /\ staged[w] # Nothing => staged[w].gen <= stamp

SeenFaithful ==
    \A w \in Writer : Running(w) =>
        /\ seen[w] # Nothing => Faithful(seen[w])
        /\ snap[w] # Nothing => Faithful(snap[w])

Fresh ==
    \A w \in Writer : Pending(w) =>
        /\ db # Missing => db.gen # staged[w].gen
        /\ \A v \in Writer : Running(v) =>
            /\ seen[v] # Nothing => seen[v].gen # staged[w].gen
            /\ snap[v] # Nothing => snap[v].gen # staged[w].gen
            /\ v # w /\ staged[v] # Nothing => staged[v].gen # staged[w].gen

(* Only a process past its rename counts as installed. *)
AfterInstall == {"confirm", "release", "releasing", "fsync", "close", "closing",
                 "unlock"} \union Resting
InstalledLate == \A w \in installed : pc[w] \in AfterInstall

GenInv == Numbered /\ SeenFaithful /\ Fresh /\ InstalledLate

LEMMA NewFields ==
    ASSUME NEW f \in File, NEW b, NEW n, NEW c, NEW m, NEW w
    PROVE  /\ Rewritten(f, b, n, c).gen = n /\ Rewritten(f, b, n, c).ctime = c
           /\ Rewritten(f, b, n, c).bytes = b
           /\ Rewritten(f, b, n, c).synced = f.synced
           /\ Touched(f, m).synced = f.synced
           /\ Touched(f, m).gen = f.gen /\ Touched(f, m).ctime = f.ctime + 1
           /\ Touched(f, m).bytes = f.bytes /\ Touched(f, m).mode = m
           /\ StrangersFile(n).gen = n
           /\ NewStage(w, m, n).gen = n /\ NewStage(w, m, n).mode = m
BY DEF Rewritten, Touched, StrangersFile, NewStage, File

GenFacts == Numbered /\ SeenFaithful /\ Fresh

LEMMA GenInit == Init => GenInv
<1> SUFFICES ASSUME Init PROVE GenInv
    OBVIOUS
<1>1. db # Missing => db.gen = 0
    BY DEF Init
<1>2. QED
    BY <1>1 DEF Init, GenInv, Numbered, SeenFaithful, Fresh, InstalledLate,
                Running, Pending

(* A step that leaves the database and every staged file alone, and at most
   forgets what was seen. *)
LEMMA QuietStep ==
    ASSUME TypeOK, GenFacts,
           fallback' \subseteq fallback,
           UNCHANGED <<db, stamp, snap, staged, installed>>,
           \A v \in Writer : Running(v)' => Running(v),
           \A v \in Writer : seen'[v] \in {seen[v], Nothing}
    PROVE  GenFacts'
<1>1. Numbered'
    BY DEF GenFacts, Numbered
<1>2. SeenFaithful'
    BY DEF GenFacts, SeenFaithful, Faithful
<1>3. Fresh'
    BY DEF GenFacts, Fresh, Pending
<1>4. QED
    BY <1>1, <1>2, <1>3 DEF GenFacts

(* A step that writes the database: its file gets a new number, or keeps it
   with a later change time. *)
LEMMA DatabaseStep ==
    ASSUME TypeOK, GenFacts,
           UNCHANGED <<fallback, snap, seen, staged, installed, pc>>,
           db' \in File, stamp' \in Nat, stamp' >= stamp, db'.gen <= stamp',
           \/ db'.gen > stamp
           \/ db # Missing /\ db'.gen = db.gen /\ db'.ctime > db.ctime
    PROVE  GenFacts'
<1> USE NameAssumption, FileFields DEF TypeOK
<1>1. Numbered'
    BY DEF GenFacts, Numbered
<1>2. ASSUME NEW f \in File, f.gen <= stamp, Faithful(f) PROVE Faithful(f)'
    BY <1>2 DEF Faithful
<1>3. SeenFaithful'
    BY <1>2 DEF GenFacts, SeenFaithful, Numbered, Running
<1>4. Fresh'
    BY DEF GenFacts, Fresh, Pending, Running, Numbered
<1>5. QED
    BY <1>1, <1>3, <1>4 DEF GenFacts

LEMMA GenStep == TypeInv /\ GenInv /\ [Next]_vars => GenInv'
<1> SUFFICES ASSUME TypeInv, GenInv, [Next]_vars PROVE GenFacts' /\ InstalledLate'
    BY DEF GenInv, GenFacts
<1>a. TypeOK /\ GenFacts /\ InstalledLate
    BY DEF TypeInv, GenInv, GenFacts
<1>1. ASSUME NEW w \in Writer, LoadFinish(w) PROVE GenFacts' /\ InstalledLate'
    <2>1. InstalledLate' /\ Running(w) /\ seen[w] # Nothing
        BY <1>a, <1>1 DEF LoadFinish, InstalledLate, AfterInstall, TypeOK, Running
    <2>2. CASE ~ReadIsStable(w) \/ seen[w].bytes = Garbage
        <3>1. GenFacts'
            BY <1>a, <1>1, <2>2, QuietStep DEF LoadFinish, Running, TypeOK,
               diskVars
        <3>2. QED
            BY <2>1, <3>1
    <2>3. CASE ~(~ReadIsStable(w) \/ seen[w].bytes = Garbage)
        <3>1. UNCHANGED <<db, fallback, stamp, staged, installed>>
            BY <1>1 DEF LoadFinish, diskVars
        <3>2. \A v \in Writer : v # w => seen'[v] = seen[v] /\ snap'[v] = snap[v] /\ pc'[v] = pc[v]
            BY <1>a, <1>1, <2>3 DEF LoadFinish, TypeOK
        <3>3. seen'[w] = Nothing /\ snap'[w] = SnapshotRead(w) /\ pc'[w] = "ready"
            BY <1>a, <1>1, <2>3 DEF LoadFinish, TypeOK
        <3>4. db \in File /\ seen[w] \in File /\ Generation(db) = Generation(seen[w])
            BY <1>a, <2>1, <2>3 DEF ReadIsStable, TypeOK
        <3>5. seen[w].gen = db.gen /\ seen[w].ctime = db.ctime
            BY <3>4 DEF Generation
        <3>6. Faithful(seen[w])
            BY <1>a, <2>1 DEF GenFacts, SeenFaithful
        <3>7. SnapshotRead(w) = db
            BY <3>4, <3>5, <3>6, NameAssumption DEF SnapshotRead, Faithful, File
        <3>8. db # Missing /\ Faithful(db)
            BY <3>4, FileFields, NameAssumption DEF Faithful
        <3>9. Numbered'
            BY <1>a, <3>1, <3>2, <3>3, <3>7, <3>8 DEF GenFacts, Numbered
        <3>10. SeenFaithful'
            BY <1>a, <3>1, <3>2, <3>3, <3>7, <3>8 DEF GenFacts, SeenFaithful,
               Faithful, Running
        <3>11. Fresh'
            BY <1>a, <2>1, <3>1, <3>2, <3>3, <3>7, <3>8 DEF GenFacts, Fresh,
               Running, Pending
        <3>12. QED
            BY <2>1, <3>9, <3>10, <3>11 DEF GenFacts
    <2>4. QED
        BY <2>2, <2>3
<1>2. ASSUME NEW w \in Writer, OpenLock(w) PROVE GenFacts' /\ InstalledLate'
    <2>1. GenFacts'
        BY <1>a, <1>2, QuietStep DEF OpenLock, Running, TypeOK, envVars, diskVars
    <2>2. InstalledLate'
        BY <1>a, <1>2 DEF OpenLock, InstalledLate, AfterInstall, TypeOK,
           envVars, diskVars
    <2>3. QED
        BY <2>1, <2>2
<1>3. ASSUME NEW w \in Writer, Flock(w) PROVE GenFacts' /\ InstalledLate'
    <2>1. GenFacts'
        BY <1>a, <1>3, QuietStep DEF Flock, Running, TypeOK, envVars, diskVars
    <2>2. InstalledLate'
        BY <1>a, <1>3 DEF Flock, InstalledLate, AfterInstall, TypeOK, envVars,
           diskVars
    <2>3. QED
        BY <2>1, <2>2
<1>4. ASSUME NEW w \in Writer, VerifyLock(w) PROVE GenFacts' /\ InstalledLate'
    <2>1. GenFacts'
        BY <1>a, <1>4, QuietStep DEF VerifyLock, Running, TypeOK, envVars,
           diskVars
    <2>2. InstalledLate'
        BY <1>a, <1>4 DEF VerifyLock, InstalledLate, AfterInstall, TypeOK,
           envVars, diskVars
    <2>3. QED
        BY <2>1, <2>2
<1>5. ASSUME NEW w \in Writer, Unlock(w) PROVE GenFacts' /\ InstalledLate'
    <2>1. GenFacts'
        BY <1>a, <1>5, QuietStep DEF Unlock, Running, TypeOK, envVars, diskVars
    <2>2. InstalledLate'
        BY <1>a, <1>5 DEF Unlock, InstalledLate, AfterInstall, TypeOK, envVars,
           diskVars
    <2>3. QED
        BY <2>1, <2>2
<1>6. ASSUME NEW w \in Writer, FirstCheck(w) PROVE GenFacts' /\ InstalledLate'
    <2>1. GenFacts'
        BY <1>a, <1>6, QuietStep DEF FirstCheck, CheckFinish, RequireMissing,
           Running, TypeOK, envVars, diskVars
    <2>2. InstalledLate'
        BY <1>a, <1>6 DEF FirstCheck, CheckFinish, RequireMissing,
           InstalledLate, AfterInstall, TypeOK, envVars, diskVars
    <2>3. QED
        BY <2>1, <2>2
<1>7. ASSUME NEW w \in Writer, Recheck(w) PROVE GenFacts' /\ InstalledLate'
    <2>1. GenFacts'
        BY <1>a, <1>7, QuietStep DEF Recheck, CheckFinish, RequireMissing,
           Running, TypeOK, envVars, diskVars
    <2>2. InstalledLate'
        BY <1>a, <1>7 DEF Recheck, CheckFinish, RequireMissing, InstalledLate,
           AfterInstall, TypeOK, envVars, diskVars
    <2>3. QED
        BY <2>1, <2>2
<1>8. ASSUME NEW w \in Writer, LastCheck(w) PROVE GenFacts' /\ InstalledLate'
    <2>1. GenFacts'
        BY <1>a, <1>8, QuietStep DEF LastCheck, CheckFinish, Running, TypeOK,
           envVars, diskVars
    <2>2. InstalledLate'
        BY <1>a, <1>8 DEF LastCheck, CheckFinish, InstalledLate, AfterInstall,
           TypeOK, envVars, diskVars
    <2>3. QED
        BY <2>1, <2>2
<1>9. ASSUME NEW w \in Writer, StageFault(w) PROVE GenFacts' /\ InstalledLate'
    <2>1. GenFacts'
        BY <1>a, <1>9, QuietStep DEF StageFault, Running, TypeOK, envVars,
           diskVars
    <2>2. InstalledLate'
        BY <1>a, <1>9 DEF StageFault, InstalledLate, AfterInstall, TypeOK,
           envVars, diskVars
    <2>3. QED
        BY <2>1, <2>2
<1>10. ASSUME NEW w \in Writer, OpenStage(w) PROVE GenFacts' /\ InstalledLate'
    <2>1. InstalledLate'
        BY <1>a, <1>10 DEF OpenStage, InstalledLate, AfterInstall, TypeOK
    <2>2. stamp' = stamp + 1 /\ stamp \in Nat
        BY <1>a, <1>10 DEF OpenStage, TypeOK
    <2>3. staged'[w].gen = stamp'
        BY <1>a, <1>10 DEF OpenStage, TypeOK, NewStage
    <2>4. \A v \in Writer : v # w => staged'[v] = staged[v] /\ pc'[v] = pc[v]
        BY <1>a, <1>10 DEF OpenStage, TypeOK
    <2>5. UNCHANGED <<db, fallback, seen, snap, installed>> /\ Running(w)
        BY <1>a, <1>10 DEF OpenStage, diskVars, Running
    <2>6. Numbered'
        BY <1>a, <2>2, <2>3, <2>4, <2>5, FileFields DEF GenFacts, Numbered, TypeOK
    <2>7. SeenFaithful'
        BY <1>a, <2>4, <2>5 DEF GenFacts, SeenFaithful, Faithful, Running
    <2>8. Fresh'
        BY <1>a, <2>2, <2>3, <2>4, <2>5, FileFields DEF GenFacts, Numbered,
           Fresh, Running, Pending, TypeOK
    <2>9. QED
        BY <2>1, <2>6, <2>7, <2>8 DEF GenFacts
<1>11. ASSUME NEW w \in Writer, WriteStage(w) PROVE GenFacts' /\ InstalledLate'
    <2>1. InstalledLate'
        BY <1>a, <1>11 DEF WriteStage, InstalledLate, AfterInstall, TypeOK
    <2>2. staged[w] \in File /\ staged[w] # Nothing
        BY <1>a, <1>11, NameAssumption DEF WriteStage, TypeInv, TypeOK, Held,
           HasStage
    <2>3. staged'[w] = [staged[w] EXCEPT !.bytes = cand[w]] /\ staged'[w].gen = staged[w].gen
        BY <1>a, <1>11, <2>2 DEF WriteStage, TypeOK, File
    <2>4. \A v \in Writer : v # w => staged'[v] = staged[v] /\ pc'[v] = pc[v]
        BY <1>a, <1>11 DEF WriteStage, TypeOK
    <2>5. UNCHANGED <<db, fallback, stamp, seen, snap, installed>> /\ Running(w)
        BY <1>a, <1>11 DEF WriteStage, diskVars, Running
    <2>6. Numbered'
        BY <1>a, <2>2, <2>3, <2>4, <2>5 DEF GenFacts, Numbered
    <2>7. SeenFaithful'
        BY <1>a, <2>4, <2>5 DEF GenFacts, SeenFaithful, Faithful, Running
    <2>8. Fresh'
        <3>1. \A v \in Writer :
                  /\ Pending(v)' => Pending(v)
                  /\ Running(v)' <=> Running(v)
                  /\ staged'[v] # Nothing => staged[v] # Nothing
                  /\ staged[v] # Nothing => staged'[v].gen = staged[v].gen
            BY <1>a, <1>11, <2>2, <2>3, <2>4, <2>5 DEF WriteStage, Running,
               Pending, TypeOK
        <3>2. Fresh
            BY <1>a DEF GenFacts
        <3> HIDE DEF Pending, Running
        <3>3. QED
            BY <2>5, <3>1, <3>2 DEF Fresh, Pending
    <2>9. QED
        BY <2>1, <2>6, <2>7, <2>8 DEF GenFacts
<1>12. ASSUME NEW w \in Writer, SyncStage(w) PROVE GenFacts' /\ InstalledLate'
    <2>1. InstalledLate'
        BY <1>a, <1>12 DEF SyncStage, InstalledLate, AfterInstall, TypeOK
    <2>2. staged[w] \in File /\ staged[w] # Nothing
        BY <1>a, <1>12, NameAssumption DEF SyncStage, TypeInv, TypeOK, Held,
           HasStage
    <2>3. staged'[w] = [staged[w] EXCEPT !.synced = TRUE] /\ staged'[w].gen = staged[w].gen
        BY <1>a, <1>12, <2>2 DEF SyncStage, TypeOK, File
    <2>4. \A v \in Writer : v # w => staged'[v] = staged[v] /\ pc'[v] = pc[v]
        BY <1>a, <1>12 DEF SyncStage, TypeOK
    <2>5. UNCHANGED <<db, fallback, stamp, seen, snap, installed>> /\ Running(w)
        BY <1>a, <1>12 DEF SyncStage, diskVars, Running
    <2>6. Numbered'
        BY <1>a, <2>2, <2>3, <2>4, <2>5 DEF GenFacts, Numbered
    <2>7. SeenFaithful'
        BY <1>a, <2>4, <2>5 DEF GenFacts, SeenFaithful, Faithful, Running
    <2>8. Fresh'
        <3>1. \A v \in Writer :
                  /\ Pending(v)' => Pending(v)
                  /\ Running(v)' <=> Running(v)
                  /\ staged'[v] # Nothing => staged[v] # Nothing
                  /\ staged[v] # Nothing => staged'[v].gen = staged[v].gen
            BY <1>a, <1>12, <2>2, <2>3, <2>4, <2>5 DEF SyncStage, Running,
               Pending, TypeOK
        <3>2. Fresh
            BY <1>a DEF GenFacts
        <3> HIDE DEF Pending, Running
        <3>3. QED
            BY <2>5, <3>1, <3>2 DEF Fresh, Pending
    <2>9. QED
        BY <2>1, <2>6, <2>7, <2>8 DEF GenFacts
<1>13. ASSUME NEW w \in Writer, Verify(w) PROVE GenFacts' /\ InstalledLate'
    <2>1. GenFacts'
        BY <1>a, <1>13, QuietStep DEF Verify, VerifyStage, Running, TypeOK,
           envVars, diskVars
    <2>2. InstalledLate'
        BY <1>a, <1>13 DEF Verify, VerifyStage, InstalledLate, AfterInstall,
           TypeOK, envVars, diskVars
    <2>3. QED
        BY <2>1, <2>2
<1>14. ASSUME NEW w \in Writer, OpenBackup(w) PROVE GenFacts' /\ InstalledLate'
    <2>1. GenFacts'
        BY <1>a, <1>14, QuietStep DEF OpenBackup, Running, TypeOK, envVars
    <2>2. InstalledLate'
        BY <1>a, <1>14 DEF OpenBackup, InstalledLate, AfterInstall, TypeOK,
           envVars
    <2>3. QED
        BY <2>1, <2>2
<1>15. ASSUME NEW w \in Writer, FillBackup(w) PROVE GenFacts' /\ InstalledLate'
    <2>1. GenFacts'
        BY <1>a, <1>15, QuietStep DEF FillBackup, Running, TypeOK, envVars
    <2>2. InstalledLate'
        BY <1>a, <1>15 DEF FillBackup, InstalledLate, AfterInstall, TypeOK,
           envVars
    <2>3. QED
        BY <2>1, <2>2
<1>16. ASSUME NEW w \in Writer, InstallFault(w) PROVE GenFacts' /\ InstalledLate'
    <2>1. GenFacts'
        BY <1>a, <1>16, QuietStep DEF InstallFault, Running, TypeOK, envVars,
           diskVars
    <2>2. InstalledLate'
        BY <1>a, <1>16 DEF InstallFault, InstalledLate, AfterInstall, TypeOK,
           envVars, diskVars
    <2>3. QED
        BY <2>1, <2>2
<1>17. ASSUME NEW w \in Writer, Replace(w) PROVE GenFacts' /\ InstalledLate'
    <2>1. InstalledLate' /\ Running(w) /\ w \notin installed
        BY <1>a, <1>17 DEF Replace, InstalledLate, AfterInstall, TypeOK, Running
    <2>2. CASE stage[w] = "none"
        <3>1. GenFacts'
            BY <1>a, <1>17, <2>2, QuietStep DEF Replace, Running, TypeOK
        <3>2. QED
            BY <2>1, <3>1
    <2>3. CASE ~stage[w] = "none"
        <3>1. /\ db' = Incoming(w) /\ fallback' = fallback \union {db}
              /\ installed' = installed \union {w} /\ stamp' = stamp + 1
              /\ UNCHANGED <<seen, snap, staged>>
              /\ \A v \in Writer : Running(v)' => Running(v)
            BY <1>a, <1>17, <2>1, <2>3 DEF Replace, Running, TypeOK
        <3>2. staged[w] \in File /\ staged[w] # Nothing /\ Pending(w)
            BY <1>17, <2>1, NameAssumption DEF Replace, TypeInv, TypeOK, Held,
               HasStage, Pending
        <3>3. \/ db' = staged[w]
              \/ db' = StrangersFile(stamp + 1)
            BY <3>1 DEF Incoming
        <3>4. stamp \in Nat /\ StrangersFile(stamp + 1).gen = stamp + 1
            BY <1>a DEF StrangersFile, TypeOK
        <3>5. db'.gen \in Nat /\ db'.gen <= stamp'
            BY <1>a, <3>1, <3>2, <3>3, <3>4, FileFields DEF GenFacts, Numbered
        <3>6. Numbered'
            BY <1>a, <3>1, <3>4, <3>5, FileFields DEF GenFacts, Numbered, TypeOK
        <3>7. \A v \in Writer : Running(v) =>
                  /\ seen[v] # Nothing => seen[v].gen # db'.gen
                  /\ snap[v] # Nothing => snap[v].gen # db'.gen
                  /\ Pending(v) /\ v # w => staged[v].gen # db'.gen
            BY <1>a, <2>1, <3>2, <3>3, <3>4, FileFields
               DEF GenFacts, Numbered, Fresh, Pending, TypeOK
        <3>8. SeenFaithful'
            BY <3>1, <3>7 DEF SeenFaithful, Faithful
        <3>9. Fresh'
            BY <1>a, <3>1, <3>7 DEF GenFacts, Fresh, Pending
        <3>10. QED
            BY <2>1, <3>6, <3>8, <3>9 DEF GenFacts
    <2>4. QED
        BY <2>2, <2>3
<1>18. ASSUME NEW w \in Writer, Link(w) PROVE GenFacts' /\ InstalledLate'
    <2>1. InstalledLate' /\ Running(w) /\ w \notin installed
        BY <1>a, <1>18 DEF Link, InstalledLate, AfterInstall, TypeOK, Running
    <2>2. CASE (stage[w] = "none" \/ db # Missing)
        <3>1. GenFacts'
            BY <1>a, <1>18, <2>2, QuietStep DEF Link, Running, TypeOK
        <3>2. QED
            BY <2>1, <3>1
    <2>3. CASE ~(stage[w] = "none" \/ db # Missing)
        <3>1. /\ db' = Incoming(w) /\ fallback' = fallback \union {db}
              /\ installed' = installed \union {w} /\ stamp' = stamp + 1
              /\ UNCHANGED <<seen, snap, staged>>
              /\ \A v \in Writer : Running(v)' => Running(v)
            BY <1>a, <1>18, <2>1, <2>3 DEF Link, Running, TypeOK
        <3>2. staged[w] \in File /\ staged[w] # Nothing /\ Pending(w)
            BY <1>18, <2>1, NameAssumption DEF Link, TypeInv, TypeOK, Held,
               HasStage, Pending
        <3>3. \/ db' = staged[w]
              \/ db' = StrangersFile(stamp + 1)
            BY <3>1 DEF Incoming
        <3>4. stamp \in Nat /\ StrangersFile(stamp + 1).gen = stamp + 1
            BY <1>a DEF StrangersFile, TypeOK
        <3>5. db'.gen \in Nat /\ db'.gen <= stamp'
            BY <1>a, <3>1, <3>2, <3>3, <3>4, FileFields DEF GenFacts, Numbered
        <3>6. Numbered'
            BY <1>a, <3>1, <3>4, <3>5, FileFields DEF GenFacts, Numbered, TypeOK
        <3>7. \A v \in Writer : Running(v) =>
                  /\ seen[v] # Nothing => seen[v].gen # db'.gen
                  /\ snap[v] # Nothing => snap[v].gen # db'.gen
                  /\ Pending(v) /\ v # w => staged[v].gen # db'.gen
            BY <1>a, <2>1, <3>2, <3>3, <3>4, FileFields
               DEF GenFacts, Numbered, Fresh, Pending, TypeOK
        <3>8. SeenFaithful'
            BY <3>1, <3>7 DEF SeenFaithful, Faithful
        <3>9. Fresh'
            BY <1>a, <3>1, <3>7 DEF GenFacts, Fresh, Pending
        <3>10. QED
            BY <2>1, <3>6, <3>8, <3>9 DEF GenFacts
    <2>4. QED
        BY <2>2, <2>3
<1>19. ASSUME NEW w \in Writer, Confirm(w) PROVE GenFacts' /\ InstalledLate'
    <2>1. GenFacts'
        BY <1>a, <1>19, QuietStep DEF Confirm, Running, TypeOK, envVars, diskVars
    <2>2. InstalledLate'
        BY <1>a, <1>19 DEF Confirm, InstalledLate, AfterInstall, TypeOK,
           envVars, diskVars
    <2>3. QED
        BY <2>1, <2>2
<1>20. ASSUME NEW w \in Writer,
FsyncDirectory(w) PROVE GenFacts' /\ InstalledLate'
    <2>1. GenFacts'
        BY <1>a, <1>20, QuietStep DEF FsyncDirectory, Running, TypeOK, envVars
    <2>2. InstalledLate'
        BY <1>a, <1>20 DEF FsyncDirectory, InstalledLate, AfterInstall, TypeOK,
           envVars
    <2>3. QED
        BY <2>1, <2>2
<1>21. ASSUME NEW w \in Writer, Close(w) PROVE GenFacts' /\ InstalledLate'
    <2>1. InstalledLate' /\ Running(w) /\ Running(w)'
        BY <1>a, <1>21
           DEF Close, Unlink, Inspect, Remove, diskVars, InstalledLate, AfterInstall, TypeOK,
           Running
    <2>2. /\ UNCHANGED <<fallback, snap, seen, staged, installed, stamp>>
          /\ \A v \in Writer : Running(v)' <=> Running(v)
        BY <1>a, <1>21, <2>1
           DEF Close, Unlink, Inspect, Remove, diskVars, TypeOK, Running
    <2>3. CASE db' = db
        <3>1. GenFacts'
            BY <1>a, <2>2, <2>3, QuietStep
        <3>2. QED
            BY <2>1, <3>1
    <2>4. CASE db # Missing /\ db' = Touched(db, db.mode)
        <3>1. db \in File
            BY <1>a, <2>4 DEF TypeOK
        <3>2. db'.gen = db.gen /\ db'.ctime = db.ctime + 1 /\ db.ctime \in Nat /\ db.gen \in Nat
            BY <2>4, <3>1, NewFields, FileFields
        <3>3. Numbered'
            BY <1>a, <2>2, <2>4, <3>2 DEF GenFacts, Numbered
        <3>4. SeenFaithful'
            BY <1>a, <2>2, <2>4, <3>2, FileFields DEF GenFacts, SeenFaithful,
               Faithful, TypeOK
        <3>5. Fresh'
            BY <1>a, <2>2, <2>4, <3>2 DEF GenFacts, Fresh, Pending
        <3>6. QED
            BY <2>1, <3>3, <3>4, <3>5 DEF GenFacts
    <2>5. QED
        BY <1>21, <2>3, <2>4 DEF Close, Unlink, Inspect, Remove, diskVars
<1>22. ASSUME NEW w \in Writer, Begin(w) PROVE GenFacts' /\ InstalledLate'
    <2>1. PICK j \in Job : Start(w, j)
        BY <1>22 DEF Begin
    <2>2. seen'[w] = Nothing /\ snap'[w] = Nothing /\ staged'[w] = Nothing /\ w \notin installed'
        BY <1>a, <2>1 DEF Start, TypeOK
    <2>3. \A v \in Writer : v # w => /\ seen'[v] = seen[v] /\ snap'[v] = snap[v]
                                     /\ staged'[v] = staged[v] /\ pc'[v] = pc[v]
                                     /\ (v \in installed' <=> v \in installed)
        BY <1>a, <2>1 DEF Start, TypeOK
    <2>4. UNCHANGED <<db, fallback, stamp>>
        BY <2>1 DEF Start, diskVars
    <2>5. Numbered'
        BY <1>a, <2>2, <2>3, <2>4 DEF GenFacts, Numbered
    <2>6. SeenFaithful'
        BY <1>a, <2>2, <2>3, <2>4 DEF GenFacts, SeenFaithful, Faithful, Running
    <2>7. Fresh'
        BY <1>a, <2>2, <2>3, <2>4 DEF GenFacts, Fresh, Running, Pending
    <2>8. InstalledLate'
        BY <1>a, <2>2, <2>3, <2>1 DEF InstalledLate, TypeOK, Start
    <2>9. QED
        BY <2>5, <2>6, <2>7, <2>8 DEF GenFacts
<1>23. ASSUME NEW w \in Writer, TakeStage(w) PROVE GenFacts' /\ InstalledLate'
    <2>1. GenFacts'
        BY <1>a, <1>23, QuietStep DEF TakeStage, Running, TypeOK, diskVars
    <2>2. InstalledLate'
        BY <1>a, <1>23 DEF TakeStage, InstalledLate, AfterInstall, TypeOK,
           diskVars
    <2>3. QED
        BY <2>1, <2>2
<1>24. ASSUME NEW w \in Writer, Crash(w) PROVE GenFacts' /\ InstalledLate'
    <2>1. GenFacts'
        BY <1>a, <1>24, QuietStep DEF Crash, Running, TypeOK, envVars, diskVars
    <2>2. InstalledLate'
        BY <1>a, <1>24 DEF Crash, InstalledLate, AfterInstall, TypeOK, envVars,
           diskVars
    <2>3. QED
        BY <2>1, <2>2
<1>25. ASSUME NEW w \in Writer, Read(w) PROVE GenFacts' /\ InstalledLate'
    <2>1. InstalledLate'
        BY <1>a, <1>25 DEF Read, ReadOpen, InstalledLate, AfterInstall, TypeOK
    <2>2. CASE seen'[w] \in {seen[w], Nothing}
        <3>1. GenFacts'
            BY <1>a, <1>25, <2>2, QuietStep DEF Read, ReadOpen, Running,
               TypeOK, diskVars
        <3>2. QED
            BY <2>1, <3>1
    <2>3. CASE seen'[w] = db /\ db # Missing
        <3>1. UNCHANGED <<db, fallback, stamp, snap, staged, installed, pc>>
            BY <1>25, <2>3, NameAssumption DEF Read, ReadOpen, diskVars, TypeOK
        <3>2. \A v \in Writer : v # w => seen'[v] = seen[v]
            BY <1>a, <1>25 DEF Read, ReadOpen, TypeOK
        <3>3. Numbered'
            BY <1>a, <2>3, <3>1, <3>2 DEF GenFacts, Numbered
        <3>4. Faithful(db)
            BY <1>a, <2>3, FileFields DEF Faithful, TypeOK
        <3>5. SeenFaithful'
            BY <1>a, <2>3, <3>1, <3>2, <3>4 DEF GenFacts, SeenFaithful,
               Faithful, Running
        <3>6. Fresh'
            BY <1>a, <2>3, <3>1, <3>2 DEF GenFacts, Fresh, Running, Pending
        <3>7. QED
            BY <2>1, <3>3, <3>5, <3>6 DEF GenFacts
    <2>4. QED
        BY <1>a, <1>25, <2>2, <2>3 DEF Read, ReadOpen, TypeOK
<1>26. CASE EditSave
    <2> EditorBytes \subseteq {Garbage} \union Payload
        BY DEF EditorBytes, Payload, Author
    <2>1. db' \in File /\ db'.gen = stamp'
        BY <1>a, <1>26 DEF EditSave, TypeOK, File, Author
    <2>2. GenFacts'
        BY <1>a, <1>26, <2>1, DatabaseStep DEF EditSave, TypeOK, procVars
    <2>3. QED
        BY <1>a, <1>26, <2>2 DEF EditSave, procVars, InstalledLate
<1>27. CASE EditBegin
    <2> db \in File /\ db.ctime \in Nat /\ stamp' \in Nat /\ Garbage \in {Garbage} \union Payload
        BY <1>a, <1>27, FileFields DEF EditBegin, TypeOK
    <2>1. db' \in File /\ db'.gen = stamp'
        <3>1. db' = Rewritten(db, Garbage, stamp', db.ctime)
            BY <1>27 DEF EditBegin
        <3>2. Rewritten(db, Garbage, stamp', db.ctime) \in File
            BY RewrittenIsFile
        <3>3. Rewritten(db, Garbage, stamp', db.ctime).gen = stamp'
            BY NewFields
        <3>4. QED
            BY <3>1, <3>2, <3>3
    <2>2. GenFacts'
        BY <1>a, <1>27, <2>1, DatabaseStep DEF EditBegin, TypeOK, procVars
    <2>3. QED
        BY <1>a, <1>27, <2>2 DEF EditBegin, procVars, InstalledLate
<1>28. CASE EditEnd
    <2>1. CASE db # Missing /\ db.bytes = Garbage
        <3> db \in File /\ db.ctime \in Nat /\ stamp' \in Nat
            BY <1>a, <1>28, <2>1, FileFields DEF EditEnd, TypeOK
        <3> EditorBytes \subseteq {Garbage} \union Payload
            BY DEF EditorBytes, Payload, Author
        <3>1. db' \in File /\ db'.gen = stamp'
            <4>1. PICK b \in EditorBytes : db' = Rewritten(db, b, stamp', db.ctime)
                BY <1>28, <2>1 DEF EditEnd
            <4>2. b \in {Garbage} \union Payload
                OBVIOUS
            <4>3. Rewritten(db, b, stamp', db.ctime) \in File
                BY <4>2, RewrittenIsFile
            <4>4. Rewritten(db, b, stamp', db.ctime).gen = stamp'
                BY NewFields
            <4>5. QED
                BY <4>1, <4>3, <4>4
        <3>2. GenFacts'
            BY <1>a, <1>28, <3>1, DatabaseStep DEF EditEnd, TypeOK, procVars
        <3>3. QED
            BY <1>a, <1>28, <3>2 DEF EditEnd, procVars, InstalledLate
    <2>2. CASE ~(db # Missing /\ db.bytes = Garbage)
        <3>1. UNCHANGED <<db, fallback, pc, snap, seen, staged, installed>>
            BY <1>28, <2>2 DEF EditEnd, procVars
        <3>2. stamp' = stamp + 1 /\ stamp \in Nat
            BY <1>a, <1>28 DEF EditEnd, TypeOK
        <3>3. Numbered'
            BY <1>a, <3>1, <3>2, FileFields DEF GenFacts, Numbered, TypeOK
        <3>4. SeenFaithful' /\ Fresh' /\ InstalledLate'
            BY <1>a, <3>1 DEF GenFacts, SeenFaithful, Fresh, Running, Pending,
               Faithful, InstalledLate
        <3>5. QED
            BY <3>3, <3>4 DEF GenFacts
    <2>3. QED
        BY <2>1, <2>2
<1>29. CASE EditBackdated
    <2> db \in File /\ db.gen \in Nat /\ db.ctime \in Nat /\ db.ctime + 1 \in Nat
        BY <1>a, <1>29, FileFields DEF EditBackdated, TypeOK
    <2> EditorBytes \subseteq {Garbage} \union Payload
        BY DEF EditorBytes, Payload, Author
    <2>1. db' \in File /\ db'.gen = db.gen /\ db'.ctime = db.ctime + 1
        <3>1. PICK b \in EditorBytes : db' = Rewritten(db, b, db.gen, db.ctime + 1)
            BY <1>29 DEF EditBackdated
        <3>2. QED
            BY <3>1, RewrittenIsFile, NewFields
    <2>2. GenFacts'
        BY <1>a, <1>29, <2>1, DatabaseStep DEF EditBackdated, TypeOK, procVars,
           GenFacts, Numbered
    <2>3. QED
        BY <1>a, <1>29, <2>2 DEF EditBackdated, procVars, InstalledLate
<1>30. CASE Chmod
    <2> db \in File /\ db.gen \in Nat /\ db.ctime \in Nat
        BY <1>a, <1>30, FileFields DEF Chmod, TypeOK
    <2>1. db' \in File /\ db'.gen = db.gen /\ db'.ctime = db.ctime + 1
        BY <1>30, TouchedIsFile, NewFields DEF Chmod
    <2>2. GenFacts'
        BY <1>a, <1>30, <2>1, DatabaseStep DEF Chmod, TypeOK, procVars,
           GenFacts, Numbered
    <2>3. QED
        BY <1>a, <1>30, <2>2 DEF Chmod, procVars, InstalledLate
<1>31. CASE Churn
    <2> db \in File /\ db.gen \in Nat /\ db.ctime \in Nat /\ db.mode \in {"shared", "private"}
        BY <1>a, <1>31, FileFields DEF Churn, TypeOK
    <2>1. db' \in File /\ db'.gen = db.gen /\ db'.ctime = db.ctime + 1
        BY <1>31, TouchedIsFile, NewFields DEF Churn
    <2>2. GenFacts'
        BY <1>a, <1>31, <2>1, DatabaseStep DEF Churn, TypeOK, procVars,
           GenFacts, Numbered
    <2>3. QED
        BY <1>a, <1>31, <2>2 DEF Churn, procVars, InstalledLate
<1>32. CASE ReplaceLockFile
    <2>1. GenFacts'
        BY <1>a, <1>32, QuietStep DEF ReplaceLockFile, Running, TypeOK, procVars
    <2>2. InstalledLate'
        BY <1>a, <1>32 DEF ReplaceLockFile, InstalledLate, AfterInstall,
           TypeOK, procVars
    <2>3. QED
        BY <2>1, <2>2
<1>33. CASE PowerLoss
    <2>1. \A v \in Writer : ~Running(v)'
        BY <1>a, <1>33 DEF PowerLoss, Running, TypeOK
    <2>2. SeenFaithful' /\ Fresh'
        BY <2>1 DEF SeenFaithful, Fresh, Pending
    <2>3. db' # Missing => db'.gen <= stamp
        <3>1. PICK f \in fallback \union {db} :
                  db' = IF f = Missing \/ f.synced THEN f
                        ELSE [f EXCEPT !.bytes = Garbage]
            BY <1>33 DEF PowerLoss
        <3>2. f # Missing => f \in File /\ f.gen <= stamp
            BY <1>a, <3>1 DEF TypeOK, GenFacts, Numbered
        <3>3. f \in File => [f EXCEPT !.bytes = Garbage].gen = f.gen
            BY DEF File
        <3>4. QED
            BY <3>1, <3>2, <3>3
    <2>4. Numbered'
        BY <1>a, <1>33, <2>3 DEF PowerLoss, GenFacts, Numbered
    <2>5. InstalledLate'
        BY <1>a, <1>33 DEF PowerLoss, InstalledLate, AfterInstall, TypeOK
    <2>6. QED
        BY <2>2, <2>4, <2>5 DEF GenFacts
<1>34. CASE UNCHANGED vars
    <2>1. GenFacts'
        BY <1>a, <1>34, QuietStep DEF Running, vars, procVars, envVars, diskVars
    <2>2. QED
        BY <1>a, <1>34, <2>1 DEF InstalledLate, vars, procVars, envVars, diskVars
<1>35. QED
    BY <1>1, <1>2, <1>3, <1>4, <1>5, <1>6, <1>7, <1>8, <1>9, <1>10, <1>11,
       <1>12, <1>13, <1>14, <1>15, <1>16, <1>17, <1>18, <1>19, <1>20, <1>21,
       <1>22, <1>23, <1>24, <1>25, <1>26, <1>27, <1>28, <1>29, <1>30, <1>31,
       <1>32, <1>33, <1>34 DEF Next, Disturb, Step

(* A snapshot stands for the live bytes whenever its generation is the live
   one, whoever writes, renames or settles metadata meanwhile. *)
THEOREM SnapshotsFaithful == Spec => []SnapshotFaithful
<1>1. Init => TypeInv /\ GenInv
    BY TypeInit, GenInit
<1>2. TypeInv /\ GenInv /\ [Next]_vars => TypeInv' /\ GenInv'
    BY TypeStep, GenStep
<1>3. GenInv => SnapshotFaithful
    BY DEF GenInv, SeenFaithful, SnapshotFaithful, Faithful, Generation, Running
<1>4. QED
    BY <1>1, <1>2, <1>3, PTL DEF Spec

-----------------------------------------------------------------------------
(* What a process has prepared when it installs, and what it knows of the
   database between its last look and the install, in an environment that
   keeps its hands off during that time. *)

Mode(w) == IF job[w] = "initialize" THEN "private" ELSE snap[w].mode
Staging == {"write", "sync", "verify", "recheck", "reverify", "backup",
            "filling", "lastcheck", "lastverify", "replace"}

(* The candidate derives from the snapshot; the staged file is the candidate
   under the mode it has to carry, complete and synced when its turn comes. *)
Prepared(w) ==
    /\ pc[w] = "loading" => job[w] # "initialize"
    /\ pc[w] \in HasSnapshot =>
           cand[w] \in IF job[w] = "initialize" THEN {{}}
                       ELSE Candidates(w, snap[w].bytes)
    /\ pc[w] \in Staging => staged[w].mode = Mode(w)
    /\ pc[w] \in Staging \ {"write"} => staged[w].bytes = cand[w]
    /\ pc[w] \in Staging \ {"write", "sync"} => staged[w].synced = TRUE
    /\ pc[w] = "replace" => stage[w] = "own"

Unmoved(w) ==
    DatabaseUnwatched(w) =>
        db # Missing /\ db.bytes = snap[w].bytes /\ db.mode = snap[w].mode

(* Everything that has or had the database's name is whole and on disk. *)
Whole ==
    /\ \A f \in fallback \union {db} : f # Missing => f.synced = TRUE
    /\ \A f \in fallback : f # Missing => f.bytes # Garbage
    /\ NeverTorn
    /\ editor = "writing" => Enabled("edit")

CommitInv == Whole /\ \A w \in Writer : Prepared(w) /\ Unmoved(w)

(* A process's own fields change in its own steps, when its staged name is
   taken, and in a crash. *)
Mine(w) == <<pc[w], job[w], seen[w], snap[w], cand[w], stage[w], staged[w]>>

LEMMA OthersLeaveMine ==
    ASSUME TypeOK, [Next]_vars, NEW w \in Writer
    PROVE  \/ Begin(w) \/ Step(w) \/ TakeStage(w) \/ Crash(w) \/ PowerLoss
           \/ UNCHANGED Mine(w)
<1> SUFFICES ASSUME NEW v \in Writer, v # w,
                    Begin(v) \/ Step(v) \/ TakeStage(v) \/ Crash(v)
             PROVE  UNCHANGED Mine(w)
    BY DEF Next, Disturb, vars, procVars, Mine, EditSave, EditBegin, EditEnd,
           EditBackdated, Chmod, Churn, ReplaceLockFile
<1> USE DEF Mine, TypeOK
<1>1. CASE LoadFinish(v)
    BY <1>1 DEF LoadFinish
<1>2. CASE OpenLock(v)
    BY <1>2 DEF OpenLock
<1>3. CASE Flock(v)
    BY <1>3 DEF Flock
<1>4. CASE VerifyLock(v)
    BY <1>4 DEF VerifyLock
<1>5. CASE Unlock(v)
    BY <1>5 DEF Unlock
<1>6. CASE FirstCheck(v)
    BY <1>6 DEF FirstCheck, CheckFinish, RequireMissing
<1>7. CASE Recheck(v)
    BY <1>7 DEF Recheck, CheckFinish, RequireMissing
<1>8. CASE LastCheck(v)
    BY <1>8 DEF LastCheck, CheckFinish
<1>9. CASE StageFault(v)
    BY <1>9 DEF StageFault
<1>10. CASE OpenStage(v)
    BY <1>10 DEF OpenStage
<1>11. CASE WriteStage(v)
    BY <1>11 DEF WriteStage
<1>12. CASE SyncStage(v)
    BY <1>12 DEF SyncStage
<1>13. CASE Verify(v)
    BY <1>13 DEF Verify, VerifyStage
<1>14. CASE OpenBackup(v)
    BY <1>14 DEF OpenBackup
<1>15. CASE FillBackup(v)
    BY <1>15 DEF FillBackup
<1>16. CASE InstallFault(v)
    BY <1>16 DEF InstallFault
<1>17. CASE Replace(v)
    BY <1>17 DEF Replace, Incoming
<1>18. CASE Link(v)
    BY <1>18 DEF Link, Incoming
<1>19. CASE Confirm(v)
    BY <1>19 DEF Confirm
<1>20. CASE FsyncDirectory(v)
    BY <1>20 DEF FsyncDirectory
<1>21. CASE Close(v)
    BY <1>21 DEF Close, Unlink, Inspect, Remove, diskVars
<1>22. CASE Begin(v)
    BY <1>22 DEF Begin, Start
<1>23. CASE TakeStage(v)
    BY <1>23 DEF TakeStage
<1>24. CASE Crash(v)
    BY <1>24 DEF Crash
<1>25. CASE Read(v)
    BY <1>25 DEF Read, ReadOpen
<1>26. QED
    BY <1>1, <1>2, <1>3, <1>4, <1>5, <1>6, <1>7, <1>8, <1>9, <1>10, <1>11,
       <1>12, <1>13, <1>14, <1>15, <1>16, <1>17, <1>18, <1>19, <1>20, <1>21,
       <1>22, <1>23, <1>24, <1>25 DEF Step

(* Updates of one field of a staged file leave its other fields alone. *)
LEMMA StagedFields ==
    ASSUME NEW f \in File, NEW b
    PROVE  /\ [f EXCEPT !.bytes = b].bytes = b
           /\ [f EXCEPT !.bytes = b].mode = f.mode
           /\ [f EXCEPT !.synced = TRUE].synced = TRUE
           /\ [f EXCEPT !.synced = TRUE].bytes = f.bytes
           /\ [f EXCEPT !.synced = TRUE].mode = f.mode
BY DEF File

LEMMA PreparedStep ==
    ASSUME TypeInv, [Next]_vars, "window" \notin Env,
           NEW w \in Writer, Prepared(w)
    PROVE  Prepared(w)'
<1> USE DEF Prepared, Mode, HasSnapshot, HasStage, Staging
<1>a. TypeOK
    BY DEF TypeInv
<1>1. CASE UNCHANGED Mine(w)
    BY <1>1 DEF Mine
<1>2. CASE PowerLoss \/ Crash(w)
    <2>1. pc'[w] \in Resting
        BY <1>a, <1>2 DEF PowerLoss, Crash, TypeOK
    <2>2. QED
        BY <2>1
<1>3. CASE TakeStage(w)
    <2>1. pc[w] # "replace" /\ UNCHANGED <<pc, job, snap, cand, staged>>
        BY <1>3 DEF TakeStage, MayTouchStage
    <2>2. QED
        BY <2>1
<1>4. CASE Begin(w)
    <2>1. PICK j \in Job : Start(w, j)
        BY <1>4 DEF Begin
    <2>2. job'[w] = j /\ cand'[w] = {} /\ pc'[w] \in {"loading", "ready"}
          /\ (pc'[w] = "ready" <=> j = "initialize")
        BY <1>a, <2>1 DEF Start, TypeOK
    <2>3. QED
        BY <2>2
<1>5. CASE LoadFinish(w)
    <2>1. UNCHANGED <<job, staged, stage>> /\ pc'[w] \in {"ready", "done", "unlock", "close"}
        BY <1>a, <1>5 DEF LoadFinish, TypeOK
    <2>2. CASE pc'[w] # "ready"
        BY <2>1, <2>2
    <2>3. CASE pc'[w] = "ready"
        <3>1. /\ snap'[w] = SnapshotRead(w)
              /\ cand'[w] \in Candidates(w, seen[w].bytes)
              /\ pc[w] = "loading" /\ db \in File
            BY <1>a, <1>5, <2>3 DEF LoadFinish, ReadIsStable, TypeOK
        <3>2. SnapshotRead(w).bytes = seen[w].bytes
            BY <3>1 DEF SnapshotRead, File
        <3>3. QED
            BY <2>1, <2>3, <3>1, <3>2
    <2>4. QED
        BY <2>2, <2>3
<1>6. CASE OpenStage(w)
    <2>1. UNCHANGED <<job, snap, cand>> /\ pc[w] = "stage" /\ pc'[w] = "write"
        BY <1>a, <1>6 DEF OpenStage, TypeOK
    <2>2. staged'[w] = NewStage(w, Mode(w), stamp')
        BY <1>a, <1>6 DEF OpenStage, TypeOK
    <2>3. staged'[w].mode = Mode(w)
        BY <2>2 DEF NewStage
    <2>4. QED
        BY <2>1, <2>3
<1>7. CASE WriteStage(w)
    <2>1. staged[w] \in File
        BY <1>7, NameAssumption DEF WriteStage, TypeInv, TypeOK, Held
    <2>2. staged'[w] = [staged[w] EXCEPT !.bytes = cand[w]]
        BY <1>a, <1>7 DEF WriteStage, TypeOK
    <2>3. staged'[w].bytes = cand[w] /\ staged'[w].mode = staged[w].mode
        BY <2>1, <2>2, StagedFields
    <2>4. UNCHANGED <<job, snap, cand>> /\ pc[w] = "write" /\ pc'[w] = "sync"
        BY <1>a, <1>7 DEF WriteStage, TypeOK
    <2>5. QED
        BY <2>3, <2>4
<1>8. CASE SyncStage(w)
    <2>1. staged[w] \in File
        BY <1>8, NameAssumption DEF SyncStage, TypeInv, TypeOK, Held
    <2>2. staged'[w] = [staged[w] EXCEPT !.synced = TRUE]
        BY <1>a, <1>8 DEF SyncStage, TypeOK
    <2>3. /\ staged'[w].synced = TRUE /\ staged'[w].bytes = staged[w].bytes
          /\ staged'[w].mode = staged[w].mode
        BY <2>1, <2>2, StagedFields
    <2>4. UNCHANGED <<job, snap, cand>> /\ pc[w] = "sync" /\ pc'[w] = "verify"
        BY <1>a, <1>8 DEF SyncStage, TypeOK
    <2>5. QED
        BY <2>3, <2>4
<1>9. CASE Verify(w)
    <2>1. UNCHANGED <<job, snap, cand, staged, stage>>
        BY <1>9 DEF Verify, VerifyStage
    <2>2. \/ pc'[w] \in {"done", "unlock", "close", "drop"}
          \/ /\ stage[w] = "own"
             /\ \/ pc[w] = "verify" /\ pc'[w] = "recheck"
                \/ pc[w] = "reverify" /\ pc'[w] \in {"backup", "replace"}
                \/ pc[w] = "lastverify" /\ pc'[w] = "replace"
        BY <1>a, <1>9 DEF Verify, VerifyStage, TypeOK
    <2>3. QED
        BY <2>1, <2>2
<1>10. CASE OpenLock(w)
    BY <1>a, <1>10 DEF OpenLock, TypeOK
<1>11. CASE Flock(w)
    BY <1>a, <1>11 DEF Flock, TypeOK
<1>12. CASE VerifyLock(w)
    BY <1>a, <1>12 DEF VerifyLock, TypeOK
<1>13. CASE Unlock(w)
    BY <1>a, <1>13 DEF Unlock, TypeOK
<1>14. CASE FirstCheck(w)
    BY <1>a, <1>14 DEF FirstCheck, CheckFinish, RequireMissing, TypeOK
<1>15. CASE Recheck(w)
    BY <1>a, <1>15 DEF Recheck, CheckFinish, RequireMissing, TypeOK
<1>16. CASE LastCheck(w)
    BY <1>a, <1>16 DEF LastCheck, CheckFinish, TypeOK
<1>17. CASE StageFault(w)
    BY <1>a, <1>17 DEF StageFault, TypeOK
<1>18. CASE OpenBackup(w)
    BY <1>a, <1>18 DEF OpenBackup, TypeOK
<1>19. CASE FillBackup(w)
    BY <1>a, <1>19 DEF FillBackup, TypeOK
<1>20. CASE InstallFault(w)
    BY <1>a, <1>20 DEF InstallFault, TypeOK
<1>21. CASE Replace(w)
    BY <1>a, <1>21 DEF Replace, TypeOK
<1>22. CASE Link(w)
    BY <1>a, <1>22 DEF Link, TypeOK
<1>23. CASE Confirm(w)
    BY <1>a, <1>23 DEF Confirm, TypeOK
<1>24. CASE FsyncDirectory(w)
    BY <1>a, <1>24 DEF FsyncDirectory, TypeOK
<1>25. CASE Close(w)
    BY <1>a, <1>25 DEF Close, Unlink, Inspect, Remove, diskVars, TypeOK
<1>26. CASE Read(w)
    BY <1>a, <1>26 DEF Read, ReadOpen, TypeOK
<1>27. QED
    BY <1>a, <1>1, <1>2, <1>3, <1>4, <1>5, <1>6, <1>7, <1>8, <1>9, <1>10,
       <1>11, <1>12, <1>13, <1>14, <1>15, <1>16, <1>17, <1>18, <1>19, <1>20,
       <1>21, <1>22, <1>23, <1>24, <1>25, <1>26, OthersLeaveMine DEF Step

(* The steps that may change what the database's name means, or meant. *)
LEMMA WhoWrites ==
    ASSUME [Next]_vars
    PROVE  \/ UNCHANGED <<db, fallback, editor>>
           \/ \E v \in Writer : Replace(v) \/ Link(v) \/ FsyncDirectory(v) \/ Close(v)
           \/ EditSave \/ EditBegin \/ EditEnd \/ EditBackdated
           \/ Chmod \/ Churn \/ PowerLoss
<1> USE DEF diskVars, envVars
<1>1. ASSUME NEW v \in Writer, LoadFinish(v) PROVE UNCHANGED <<db, fallback,
editor>>
    BY <1>1 DEF LoadFinish
<1>2. ASSUME NEW v \in Writer, OpenLock(v) PROVE UNCHANGED <<db, fallback,
editor>>
    BY <1>2 DEF OpenLock
<1>3. ASSUME NEW v \in Writer, Flock(v) PROVE UNCHANGED <<db, fallback, editor>>
    BY <1>3 DEF Flock
<1>4. ASSUME NEW v \in Writer, VerifyLock(v) PROVE UNCHANGED <<db, fallback,
editor>>
    BY <1>4 DEF VerifyLock
<1>5. ASSUME NEW v \in Writer, Unlock(v) PROVE UNCHANGED <<db, fallback, editor>>
    BY <1>5 DEF Unlock
<1>6. ASSUME NEW v \in Writer, FirstCheck(v) PROVE UNCHANGED <<db, fallback,
editor>>
    BY <1>6 DEF FirstCheck, CheckFinish, RequireMissing
<1>7. ASSUME NEW v \in Writer, Recheck(v) PROVE UNCHANGED <<db, fallback, editor>>
    BY <1>7 DEF Recheck, CheckFinish, RequireMissing
<1>8. ASSUME NEW v \in Writer, LastCheck(v) PROVE UNCHANGED <<db, fallback,
editor>>
    BY <1>8 DEF LastCheck, CheckFinish
<1>9. ASSUME NEW v \in Writer, StageFault(v) PROVE UNCHANGED <<db, fallback,
editor>>
    BY <1>9 DEF StageFault
<1>10. ASSUME NEW v \in Writer, OpenStage(v) PROVE UNCHANGED <<db, fallback,
editor>>
    BY <1>10 DEF OpenStage
<1>11. ASSUME NEW v \in Writer, WriteStage(v) PROVE UNCHANGED <<db, fallback,
editor>>
    BY <1>11 DEF WriteStage
<1>12. ASSUME NEW v \in Writer, SyncStage(v) PROVE UNCHANGED <<db, fallback,
editor>>
    BY <1>12 DEF SyncStage
<1>13. ASSUME NEW v \in Writer, Verify(v) PROVE UNCHANGED <<db, fallback, editor>>
    BY <1>13 DEF Verify, VerifyStage
<1>14. ASSUME NEW v \in Writer, OpenBackup(v) PROVE UNCHANGED <<db, fallback,
editor>>
    BY <1>14 DEF OpenBackup
<1>15. ASSUME NEW v \in Writer, FillBackup(v) PROVE UNCHANGED <<db, fallback,
editor>>
    BY <1>15 DEF FillBackup
<1>16. ASSUME NEW v \in Writer, InstallFault(v) PROVE UNCHANGED <<db, fallback,
editor>>
    BY <1>16 DEF InstallFault
<1>17. ASSUME NEW v \in Writer, Confirm(v) PROVE UNCHANGED <<db, fallback,
editor>>
    BY <1>17 DEF Confirm
<1>18. ASSUME NEW v \in Writer, Begin(v) PROVE UNCHANGED <<db, fallback, editor>>
    BY <1>18 DEF Begin, Start
<1>19. ASSUME NEW v \in Writer, TakeStage(v) PROVE UNCHANGED <<db, fallback,
editor>>
    BY <1>19 DEF TakeStage
<1>20. ASSUME NEW v \in Writer, Crash(v) PROVE UNCHANGED <<db, fallback, editor>>
    BY <1>20 DEF Crash
<1>21. ASSUME NEW v \in Writer, Read(v) PROVE UNCHANGED <<db, fallback, editor>>
    BY <1>21 DEF Read, ReadOpen
<1>22. QED
    BY <1>1, <1>2, <1>3, <1>4, <1>5, <1>6, <1>7, <1>8, <1>9, <1>10, <1>11,
       <1>12, <1>13, <1>14, <1>15, <1>16, <1>17, <1>18, <1>19, <1>20, <1>21
       DEF Next, Disturb, Step, ReplaceLockFile, vars

(* Two processes are never past the lock's verification together. *)
LEMMA Alone ==
    ASSUME TypeOK, LockInv, NEW v \in Writer, NEW w \in Writer,
           pc[v] \in InBody, pc[w] \in InBody
    PROVE  v = w
BY DEF LockInv

LEMMA UnmovedStep ==
    ASSUME TypeInv, LockInv, GenInv, [Next]_vars, "window" \notin Env,
           NEW w \in Writer, Unmoved(w)
    PROVE  Unmoved(w)'
<1> SUFFICES ASSUME DatabaseUnwatched(w)'
             PROVE  /\ db' # Missing /\ db'.bytes = snap'[w].bytes
                    /\ db'.mode = snap'[w].mode
    BY DEF Unmoved
<1> USE DEF DatabaseUnwatched
<1>a. TypeOK
    BY DEF TypeInv
<1>b. pc'[w] \in {"replace", "reverify", "lastverify"}
    OBVIOUS
<1>1. CASE UNCHANGED Mine(w)
    <2>1. /\ DatabaseUnwatched(w) /\ snap'[w] = snap[w] /\ pc[w] \in InBody
          /\ pc'[w] = pc[w]
        BY <1>1 DEF Mine, InBody, Phase
    <2>2. db \in File /\ db.bytes = snap[w].bytes /\ db.mode = snap[w].mode
        BY <1>a, <2>1 DEF Unmoved, TypeOK
    <2>3. ~MayTouchDatabase
        BY <2>1 DEF MayTouchDatabase
    <2>4. CASE UNCHANGED db
        BY <2>1, <2>2, <2>4, NameAssumption
    <2>5. CASE Churn
        <3>1. db' = Touched(db, db.mode)
            BY <2>5 DEF Churn
        <3>2. db' \in File /\ db'.bytes = db.bytes /\ db'.mode = db.mode
            BY <2>2, <3>1, NewFields, TouchedIsFile, FileFields
        <3>3. QED
            BY <2>1, <2>2, <3>2, NameAssumption
    <2>6. ASSUME NEW v \in Writer, Replace(v) \/ Link(v) \/ Close(v)
          PROVE  UNCHANGED db
        <3>1. pc[v] \in {"replace", "release", "releasing", "drop", "dropping", "close",
                         "closing"} /\ pc'[v] # pc[v]
            BY <1>a, <2>6
               DEF Replace, Link, Close, Unlink, Inspect, Remove, diskVars, TypeOK
        <3>2. v = w
            BY <1>a, <2>1, <3>1, Alone DEF InBody, Phase
        <3>3. QED
            BY <2>1, <3>1, <3>2
    <2>7. PowerLoss => pc'[w] = "crashed"
        BY <1>a, <2>1 DEF PowerLoss, TypeOK
    <2>8. QED
        BY <1>b, <2>3, <2>4, <2>5, <2>6, <2>7, WhoWrites
           DEF EditSave, EditBegin, EditEnd, EditBackdated, Chmod, FsyncDirectory
<1>2. CASE Recheck(w) \/ LastCheck(w)
    <2>1. /\ ReadIsStable(w) /\ StillExpected(SnapshotRead(w), snap[w])
          /\ seen[w] # Nothing /\ pc[w] \in {"recheck", "lastcheck"}
          /\ UNCHANGED <<db, snap>>
        BY <1>a, <1>2 DEF Recheck, LastCheck, CheckFinish, RequireMissing,
                          TypeOK, diskVars
    <2>2. db \in File /\ db # Missing /\ seen[w] \in File
        BY <1>a, <2>1 DEF ReadIsStable, TypeOK
    <2>3. Faithful(seen[w])
        BY <2>1 DEF GenInv, SeenFaithful, Running
    <2>4. seen[w].bytes = db.bytes
        BY <2>1, <2>2, <2>3 DEF ReadIsStable, Generation, Faithful
    <2>5. SnapshotRead(w).bytes = seen[w].bytes /\ SnapshotRead(w).mode = db.mode
        BY <2>2 DEF SnapshotRead, File
    <2>6. QED
        BY <2>1, <2>2, <2>4, <2>5 DEF StillExpected
<1>3. CASE Verify(w) \/ TakeStage(w)
    <2>1. DatabaseUnwatched(w) /\ UNCHANGED <<db, snap>>
        BY <1>a, <1>3 DEF Verify, VerifyStage, TakeStage, TypeOK, Job, diskVars
    <2>2. QED
        BY <2>1 DEF Unmoved
<1>4. ~PowerLoss /\ ~Crash(w) /\ ~Begin(w)
    BY <1>a DEF PowerLoss, Crash, Begin, Start, TypeOK
<1>5. ~LoadFinish(w)
    BY <1>a DEF LoadFinish, TypeOK
<1>6. ~OpenLock(w)
    BY <1>a DEF OpenLock, TypeOK
<1>7. ~Flock(w)
    BY <1>a DEF Flock, TypeOK
<1>8. ~VerifyLock(w)
    BY <1>a DEF VerifyLock, TypeOK
<1>9. ~Unlock(w)
    BY <1>a DEF Unlock, TypeOK
<1>10. ~FirstCheck(w)
    BY <1>a DEF FirstCheck, CheckFinish, RequireMissing, TypeOK
<1>11. ~StageFault(w)
    BY <1>a DEF StageFault, TypeOK
<1>12. ~OpenStage(w)
    BY <1>a DEF OpenStage, TypeOK
<1>13. ~WriteStage(w)
    BY <1>a DEF WriteStage, TypeOK
<1>14. ~SyncStage(w)
    BY <1>a DEF SyncStage, TypeOK
<1>15. ~OpenBackup(w)
    BY <1>a DEF OpenBackup, TypeOK
<1>16. ~FillBackup(w)
    BY <1>a DEF FillBackup, TypeOK
<1>17. ~InstallFault(w)
    BY <1>a DEF InstallFault, TypeOK
<1>18. ~Replace(w)
    BY <1>a DEF Replace, TypeOK
<1>19. ~Link(w)
    BY <1>a DEF Link, TypeOK
<1>20. ~Confirm(w)
    BY <1>a DEF Confirm, TypeOK
<1>21. ~FsyncDirectory(w)
    BY <1>a DEF FsyncDirectory, TypeOK
<1>22. ~Close(w)
    BY <1>a DEF Close, Unlink, Inspect, Remove, diskVars, TypeOK
<1>23. ~Read(w)
    BY <1>a DEF Read, ReadOpen, TypeOK
<1>24. QED
    BY <1>a, <1>1, <1>2, <1>3, <1>4, <1>5, <1>6, <1>7, <1>8, <1>9, <1>10,
       <1>11, <1>12, <1>13, <1>14, <1>15, <1>16, <1>17, <1>18, <1>19, <1>20,
       <1>21, <1>22, <1>23, OthersLeaveMine DEF Step

(* What an install brings in when nobody touches the staged name in time. *)
LEMMA InstallsCandidate ==
    ASSUME TypeInv, NEW w \in Writer, Prepared(w), pc[w] = "replace"
    PROVE  /\ Incoming(w) = staged[w] /\ staged[w] \in File
           /\ staged[w].bytes = cand[w] /\ staged[w].bytes # Garbage
           /\ staged[w].mode = Mode(w) /\ staged[w].synced = TRUE
           /\ cand[w] \in IF job[w] = "initialize" THEN {{}}
                          ELSE Candidates(w, snap[w].bytes)
           /\ job[w] # "initialize" => snap[w] # Nothing /\ snap[w].bytes # Garbage
BY NameAssumption DEF TypeInv, TypeOK, Held, HasStage, HasSnapshot, Prepared,
                      Staging, Incoming

LEMMA WholeStep ==
    ASSUME TypeInv, [Next]_vars, "window" \notin Env, Whole,
           \A w \in Writer : Prepared(w) /\ Unmoved(w)
    PROVE  Whole'
<1> USE DEF Whole, NeverTorn
<1>a. TypeOK
    BY DEF TypeInv
<1>b. db # Missing => db \in File
    BY <1>a DEF TypeOK
<1>1. CASE UNCHANGED <<db, fallback, editor>>
    BY <1>1
<1>2. ASSUME NEW w \in Writer, Replace(w) \/ Link(w)
      PROVE  Whole'
    <2>1. CASE UNCHANGED <<db, fallback>>
        BY <1>2, <2>1 DEF Replace, Link, envVars
    <2>2. CASE ~UNCHANGED <<db, fallback>>
        <3>1. /\ db' = Incoming(w) /\ fallback' = fallback \union {db}
              /\ pc[w] = "replace" /\ UNCHANGED editor
              /\ job[w] = "initialize" => db = Missing
            BY <1>2, <2>2 DEF Replace, Link, envVars
        <3>2. db'.bytes # Garbage /\ db'.synced = TRUE
            BY <3>1, InstallsCandidate
        <3>3. job[w] # "initialize" => db.bytes # Garbage
            BY <3>1, InstallsCandidate DEF Unmoved, DatabaseUnwatched
        <3>4. QED
            BY <3>1, <3>2, <3>3
    <2>3. QED
        BY <2>1, <2>2
<1>3. ASSUME NEW w \in Writer, FsyncDirectory(w)
      PROVE  Whole'
    BY <1>3 DEF FsyncDirectory, envVars
<1>4. ASSUME NEW w \in Writer, Close(w)
      PROVE  Whole'
    <2>1. /\ UNCHANGED <<fallback, editor>>
          /\ db' = db \/ (db # Missing /\ db' = Touched(db, db.mode))
        BY <1>4 DEF Close, Unlink, Inspect, Remove, diskVars, envVars
    <2>2. db # Missing => /\ Touched(db, db.mode).bytes = db.bytes
                          /\ Touched(db, db.mode).synced = db.synced
        BY <1>b, NewFields
    <2>3. QED
        BY <2>1, <2>2
<1>5. CASE EditSave
    <2>1. UNCHANGED <<fallback, editor>> /\ db'.bytes # Garbage /\ db'.synced = TRUE
        BY <1>5, NameAssumption DEF EditSave, EditorBytes, Payload, Author
    <2>2. QED
        BY <2>1
<1>6. CASE EditBegin
    <2>1. /\ db' = Rewritten(db, Garbage, stamp', db.ctime) /\ db # Missing
          /\ editor' = "writing" /\ "edit" \in Env /\ UNCHANGED fallback
        BY <1>6 DEF EditBegin
    <2>2. Rewritten(db, Garbage, stamp', db.ctime).synced = db.synced
        BY <1>b, <2>1, NewFields
    <2>3. QED
        BY <2>1, <2>2
<1>7. CASE EditEnd
    <2>1. editor' = "idle" /\ UNCHANGED fallback
        BY <1>7 DEF EditEnd
    <2>2. CASE db # Missing /\ db.bytes = Garbage
        <3>1. PICK b \in EditorBytes : db' = Rewritten(db, b, stamp', db.ctime)
            BY <1>7, <2>2 DEF EditEnd
        <3>2. b # Garbage
            BY NameAssumption DEF EditorBytes, Payload, Author
        <3>3. /\ Rewritten(db, b, stamp', db.ctime).synced = db.synced
              /\ Rewritten(db, b, stamp', db.ctime).bytes = b
            BY <1>b, <2>2, NewFields
        <3>4. QED
            BY <2>1, <2>2, <3>1, <3>2, <3>3
    <2>3. CASE ~(db # Missing /\ db.bytes = Garbage)
        BY <1>7, <2>1, <2>3 DEF EditEnd
    <2>4. QED
        BY <2>2, <2>3
<1>8. CASE EditBackdated
    <2>1. PICK b \in EditorBytes : db' = Rewritten(db, b, db.gen, db.ctime + 1)
        BY <1>8 DEF EditBackdated
    <2>2. b # Garbage
        BY NameAssumption DEF EditorBytes, Payload, Author
    <2>3. /\ Rewritten(db, b, db.gen, db.ctime + 1).synced = db.synced
          /\ Rewritten(db, b, db.gen, db.ctime + 1).bytes = b
        BY <1>8, <1>b, NewFields DEF EditBackdated
    <2>4. db # Missing /\ UNCHANGED <<fallback, editor>>
        BY <1>8 DEF EditBackdated
    <2>5. QED
        BY <2>1, <2>2, <2>3, <2>4
<1>9. CASE Chmod \/ Churn
    <2>1. PICK m : db' = Touched(db, m)
        BY <1>9 DEF Chmod, Churn
    <2>2. db # Missing /\ UNCHANGED <<fallback, editor>>
        BY <1>9 DEF Chmod, Churn
    <2>3. Touched(db, m).bytes = db.bytes /\ Touched(db, m).synced = db.synced
        BY <1>b, <2>2, NewFields
    <2>4. QED
        BY <2>1, <2>2, <2>3
<1>10. CASE PowerLoss
    <2>1. fallback' = {} /\ UNCHANGED editor /\ db' \in fallback \union {db}
        BY <1>10 DEF PowerLoss
    <2>2. QED
        BY <2>1
<1>11. QED
    BY <1>1, <1>2, <1>3, <1>4, <1>5, <1>6, <1>7, <1>8, <1>9, <1>10, WhoWrites

AllInv == TypeInv /\ LockInv /\ GenInv /\ CommitInv

LEMMA AllInit == Init => AllInv
<1> SUFFICES ASSUME Init PROVE AllInv
    OBVIOUS
<1>1. Whole
    BY NameAssumption DEF Init, Whole, NeverTorn, Payload, Author
<1>2. \A w \in Writer : Prepared(w) /\ Unmoved(w)
    BY DEF Init, Prepared, Unmoved, DatabaseUnwatched, HasSnapshot, HasStage,
       Staging
<1>3. QED
    BY <1>1, <1>2, TypeInit, LockInit, GenInit DEF AllInv, CommitInv

LEMMA AllStep ==
    ASSUME "window" \notin Env
    PROVE  AllInv /\ [Next]_vars => AllInv'
<1> SUFFICES ASSUME AllInv, [Next]_vars PROVE AllInv'
    OBVIOUS
<1> USE DEF AllInv
<1>1. TypeInv' /\ LockInv' /\ GenInv'
    BY TypeStep, LockStep, GenStep
<1>2. Whole' /\ \A w \in Writer : Prepared(w)' /\ Unmoved(w)'
    BY WholeStep, PreparedStep, UnmovedStep DEF CommitInv
<1>3. QED
    BY <1>1, <1>2 DEF CommitInv

(* A process counts as installed through its own rename or link alone. *)
LEMMA WhoInstalls ==
    ASSUME [Next]_vars, NEW w \in Writer, w \in installed', w \notin installed
    PROVE  /\ Replace(w) \/ Link(w)
           /\ pc[w] = "replace" /\ db' = Incoming(w)
           /\ job[w] = "initialize" => db = Missing
<1> SUFFICES Replace(w) \/ Link(w)
    BY DEF Replace, Link
<1>1. ASSUME NEW v \in Writer, LoadFinish(v) PROVE FALSE
    BY <1>1 DEF LoadFinish
<1>2. ASSUME NEW v \in Writer, OpenLock(v) PROVE FALSE
    BY <1>2 DEF OpenLock
<1>3. ASSUME NEW v \in Writer, Flock(v) PROVE FALSE
    BY <1>3 DEF Flock
<1>4. ASSUME NEW v \in Writer, VerifyLock(v) PROVE FALSE
    BY <1>4 DEF VerifyLock
<1>5. ASSUME NEW v \in Writer, Unlock(v) PROVE FALSE
    BY <1>5 DEF Unlock
<1>6. ASSUME NEW v \in Writer, FirstCheck(v) PROVE FALSE
    BY <1>6 DEF FirstCheck, CheckFinish, RequireMissing
<1>7. ASSUME NEW v \in Writer, Recheck(v) PROVE FALSE
    BY <1>7 DEF Recheck, CheckFinish, RequireMissing
<1>8. ASSUME NEW v \in Writer, LastCheck(v) PROVE FALSE
    BY <1>8 DEF LastCheck, CheckFinish
<1>9. ASSUME NEW v \in Writer, StageFault(v) PROVE FALSE
    BY <1>9 DEF StageFault
<1>10. ASSUME NEW v \in Writer, OpenStage(v) PROVE FALSE
    BY <1>10 DEF OpenStage
<1>11. ASSUME NEW v \in Writer, WriteStage(v) PROVE FALSE
    BY <1>11 DEF WriteStage
<1>12. ASSUME NEW v \in Writer, SyncStage(v) PROVE FALSE
    BY <1>12 DEF SyncStage
<1>13. ASSUME NEW v \in Writer, Verify(v) PROVE FALSE
    BY <1>13 DEF Verify, VerifyStage
<1>14. ASSUME NEW v \in Writer, OpenBackup(v) PROVE FALSE
    BY <1>14 DEF OpenBackup
<1>15. ASSUME NEW v \in Writer, FillBackup(v) PROVE FALSE
    BY <1>15 DEF FillBackup
<1>16. ASSUME NEW v \in Writer, InstallFault(v) PROVE FALSE
    BY <1>16 DEF InstallFault
<1>17. ASSUME NEW v \in Writer, Replace(v) PROVE v = w
    BY <1>17 DEF Replace
<1>18. ASSUME NEW v \in Writer, Link(v) PROVE v = w
    BY <1>18 DEF Link
<1>19. ASSUME NEW v \in Writer, Confirm(v) PROVE FALSE
    BY <1>19 DEF Confirm
<1>20. ASSUME NEW v \in Writer, FsyncDirectory(v) PROVE FALSE
    BY <1>20 DEF FsyncDirectory
<1>21. ASSUME NEW v \in Writer, Close(v) PROVE FALSE
    BY <1>21 DEF Close, Unlink, Inspect, Remove, diskVars
<1>22. ASSUME NEW v \in Writer, Begin(v) PROVE FALSE
    BY <1>22 DEF Begin, Start
<1>23. ASSUME NEW v \in Writer, TakeStage(v) PROVE FALSE
    BY <1>23 DEF TakeStage
<1>24. ASSUME NEW v \in Writer, Crash(v) PROVE FALSE
    BY <1>24 DEF Crash
<1>25. ASSUME NEW v \in Writer, Read(v) PROVE FALSE
    BY <1>25 DEF Read, ReadOpen
<1>26. QED
    BY <1>1, <1>2, <1>3, <1>4, <1>5, <1>6, <1>7, <1>8, <1>9, <1>10, <1>11,
       <1>12, <1>13, <1>14, <1>15, <1>16, <1>17, <1>18, <1>19, <1>20, <1>21,
       <1>22, <1>23, <1>24, <1>25 DEF Next, Disturb, Step, EditSave, EditBegin,
       EditEnd, EditBackdated, Chmod, Churn, ReplaceLockFile, PowerLoss, vars,
       procVars

(* For any set of processes and any environment that does not write between a
   transaction's last look and its rename: a commit replaces exactly what its
   candidate was computed from, and keeps the permissions. *)
THEOREM NoUpdateLost ==
    ASSUME "window" \notin Env
    PROVE  Spec => NoLostUpdate
<1>1. ASSUME AllInv, [Next]_vars
      PROVE  [\A w \in Writer :
                 w \in installed' /\ w \notin installed /\ job[w] # "initialize" =>
                     /\ db # Missing
                     /\ db'.bytes \in Candidates(w, db.bytes)
                     /\ db'.mode = db.mode]_vars
    <2> SUFFICES ASSUME NEW w \in Writer, w \in installed', w \notin installed,
                        job[w] # "initialize"
                 PROVE  /\ db # Missing /\ db'.bytes \in Candidates(w, db.bytes)
                        /\ db'.mode = db.mode
        OBVIOUS
    <2>1. pc[w] = "replace" /\ db' = Incoming(w)
        BY <1>1, WhoInstalls
    <2>2. TypeInv /\ Prepared(w) /\ Unmoved(w)
        BY <1>1 DEF AllInv, CommitInv
    <2>3. /\ db'.bytes = cand[w] /\ cand[w] \in Candidates(w, snap[w].bytes)
          /\ db'.mode = snap[w].mode
        BY <2>1, <2>2, InstallsCandidate DEF Mode
    <2>4. db # Missing /\ db.bytes = snap[w].bytes /\ db.mode = snap[w].mode
        BY <2>1, <2>2 DEF Unmoved, DatabaseUnwatched
    <2>5. QED
        BY <2>3, <2>4
<1>2. QED
    BY <1>1, AllInit, AllStep, PTL DEF Spec, NoLostUpdate

(* Whatever the environment does, initialization creates and never overwrites:
   the link refuses a name that is taken. *)
THEOREM InitializationCreates == Spec => InitializeCreates
<1>1. ASSUME [Next]_vars
      PROVE  [\A w \in Writer :
                 w \in installed' /\ w \notin installed /\ job[w] = "initialize" =>
                     db = Missing]_vars
    BY <1>1, WhoInstalls
<1>2. QED
    BY <1>1, PTL DEF Spec, InitializeCreates

(* No process ever reads a torn database, crashes and power losses at any
   point included, but for an editor's own rewrite in place. *)
THEOREM DatabaseNeverTorn ==
    ASSUME "window" \notin Env
    PROVE  Spec => []NeverTorn
<1>1. AllInv => NeverTorn
    BY DEF AllInv, CommitInv, Whole
<1>2. QED
    BY <1>1, AllInit, AllStep, PTL DEF Spec

-----------------------------------------------------------------------------
(* Refinement of the abstract register                                     *)

LEMMA ContentsOfFile ==
    ASSUME NEW f \in File
    PROVE  /\ Contents(f) = [bytes |-> f.bytes, mode |-> f.mode]
           /\ Contents(f) \in Register!Value /\ Contents(f) # Missing
<1>1. Contents(f) = [bytes |-> f.bytes, mode |-> f.mode]
    BY NameAssumption DEF Contents
<1>2. Contents(f) \in [bytes : {Garbage} \union Payload, mode : {"shared",
"private"}]
    BY <1>1, FileFields
<1>3. QED
    BY <1>1, <1>2, NameAssumption
       DEF Register!Value, Register!Entries, Register!Modes, Payload, Author

LEMMA RegisterInit == Init => Register!Init
<1> SUFFICES ASSUME Init PROVE Register!Init
    OBVIOUS
<1>1. {Contents(f) : f \in fallback} = {}
    BY DEF Init
<1>2. CASE db = Missing
    BY <1>1, <1>2 DEF Register!Init, Contents
<1>3. CASE db # Missing
    <2>1. Contents(db) = [bytes |-> db.bytes, mode |-> db.mode]
        BY <1>3 DEF Contents
    <2>2. db.bytes = {} /\ db.mode = "shared"
        BY <1>3 DEF Init
    <2>3. QED
        BY <1>1, <2>1, <2>2 DEF Register!Init
<1>4. QED
    BY <1>2, <1>3

value == Contents(db)
older == {Contents(f) : f \in fallback}

LEMMA RegisterStep ==
    ASSUME AllInv, [Next]_vars, "window" \notin Env
    PROVE  Register!Next \/ UNCHANGED <<value, older>>
<1> USE DEF value, older
<1>a. TypeInv /\ TypeOK /\ Whole /\ (db # Missing => db \in File)
    BY DEF AllInv, TypeInv, TypeOK, CommitInv
<1>b. (TypeOK /\ (db # Missing => db \in File))'
    BY TypeStep, <1>a DEF AllInv, TypeInv, TypeOK
<1>1. CASE UNCHANGED <<db, fallback>>
    BY <1>1
<1>2. ASSUME NEW w \in Writer, Replace(w) \/ Link(w), ~UNCHANGED <<db, fallback>>
      PROVE  Register!Next
    <2>1. /\ db' = Incoming(w) /\ fallback' = fallback \union {db}
          /\ pc[w] = "replace" /\ (job[w] = "initialize" => db = Missing)
        BY <1>2 DEF Replace, Link
    <2>2. Prepared(w) /\ Unmoved(w)
        BY DEF AllInv, CommitInv
    <2>3. /\ db' \in File /\ db'.bytes = cand[w] /\ db'.mode = Mode(w)
          /\ cand[w] \in IF job[w] = "initialize" THEN {{}}
                         ELSE Candidates(w, snap[w].bytes)
        BY <1>a, <2>1, <2>2, InstallsCandidate
    <2>4. value' = [bytes |-> cand[w], mode |-> Mode(w)]
        BY <2>3, ContentsOfFile
    <2>5. older' = older \union {value}
        BY <2>1
    <2>6. CASE job[w] = "initialize"
        <3>1. value = Missing
            BY <2>1, <2>6 DEF Contents
        <3>2. QED
            BY <2>3, <2>4, <2>5, <2>6, <3>1 DEF Register!Next,
               Register!Initialize, Mode
    <2>7. CASE job[w] # "initialize"
        <3>1. db \in File /\ db.bytes = snap[w].bytes /\ db.mode = snap[w].mode
            BY <1>a, <2>1, <2>2, <2>7 DEF Unmoved, DatabaseUnwatched
        <3>2. snap[w].bytes # Garbage
            BY <1>a, <2>1, <2>2, <2>7, InstallsCandidate
        <3>3. value = [bytes |-> db.bytes, mode |-> db.mode] /\ value # Missing
            BY <3>1, ContentsOfFile
        <3>4. value' = [value EXCEPT !.bytes = cand[w]]
            BY <2>4, <2>7, <3>1, <3>3 DEF Mode
        <3>5. cand[w] \in {value.bytes \union {w}, value.bytes \ {w}}
            BY <2>3, <2>7, <3>1, <3>3 DEF Candidates
        <3>6. value.bytes # Garbage
            BY <3>1, <3>2, <3>3
        <3>7. Register!Commit(w)
            BY <2>5, <3>3, <3>4, <3>5, <3>6 DEF Register!Commit
        <3>8. QED
            BY <3>7 DEF Register!Next
    <2>8. QED
        BY <2>6, <2>7
<1>3. ASSUME NEW w \in Writer, FsyncDirectory(w), ~UNCHANGED <<db, fallback>>
      PROVE  Register!Next
    BY <1>3 DEF FsyncDirectory, Register!Next, Register!Settle
<1>4. CASE UNCHANGED fallback /\ db # Missing /\ \E m : db' = Touched(db,
m) /\ m = db.mode
    <2>1. db' \in File /\ db'.bytes = db.bytes /\ db'.mode = db.mode
        BY <1>a, <1>4, NewFields, TouchedIsFile, FileFields
    <2>2. value' = value
        BY <1>a, <1>4, <2>1, ContentsOfFile
    <2>3. QED
        BY <1>4, <2>2
<1>5. ASSUME NEW w \in Writer, Close(w), ~UNCHANGED <<db, fallback>>
      PROVE  Register!Next \/ UNCHANGED <<value, older>>
    <2>1. UNCHANGED fallback /\ db # Missing /\ db' = Touched(db, db.mode)
        BY <1>5 DEF Close, Unlink, Inspect, Remove, diskVars
    <2>2. QED
        BY <1>4, <2>1
<1>6. CASE UNCHANGED fallback /\ db' # Missing /\ Env \intersect {"edit",
"chmod"} # {}
    <2>1. value' \in Register!Value
        BY <1>b, <1>6, ContentsOfFile
    <2>2. older' = older
        BY <1>6
    <2>3. QED
        BY <1>6, <2>1, <2>2 DEF Register!Next, Register!Edit
<1>7. CASE PowerLoss
    <2>1. fallback' = {} /\ db' \in fallback \union {db}
        BY <1>7, <1>a DEF PowerLoss, Whole
    <2>2. older' = {} /\ value' \in older \union {value}
        BY <2>1
    <2>3. QED
        BY <2>2 DEF Register!Next, Register!PowerLoss
<1>8. CASE EditSave
    <2>1. db' \in File
        BY <1>a, <1>8 DEF EditSave, EditorBytes, TypeOK, File, Author, Payload
    <2>2. QED
        BY <1>6, <1>8, <2>1, NameAssumption DEF EditSave
<1>9. CASE EditBegin
    <2>1. db' \in File
        <3>1. db' = Rewritten(db, Garbage, stamp', db.ctime) /\ stamp' \in Nat
            BY <1>a, <1>9 DEF EditBegin, TypeOK
        <3>2. db \in File /\ db.ctime \in Nat
            BY <1>a, <1>9, FileFields DEF EditBegin
        <3>3. Rewritten(db, Garbage, stamp', db.ctime) \in File
            BY <3>1, <3>2, RewrittenIsFile
        <3>4. QED
            BY <3>1, <3>3
    <2>2. QED
        BY <1>6, <1>9, <2>1, NameAssumption DEF EditBegin
<1>10. CASE EditEnd
    <2>1. "edit" \in Env /\ UNCHANGED fallback
        BY <1>a, <1>10 DEF EditEnd, Whole
    <2>2. CASE db' = db
        BY <2>1, <2>2
    <2>3. CASE db' # db
        <3>1. PICK b \in EditorBytes : db' = Rewritten(db, b, stamp', db.ctime)
            BY <1>10, <2>3 DEF EditEnd
        <3>2. db # Missing /\ stamp' \in Nat /\ b \in {Garbage} \union Payload
            BY <1>a, <1>10, <2>3 DEF EditEnd, TypeOK, EditorBytes, Payload, Author
        <3>3. Rewritten(db, b, stamp', db.ctime) \in File
            BY <1>a, <3>2, RewrittenIsFile, FileFields
        <3>4. QED
            BY <1>6, <2>1, <3>1, <3>3, NameAssumption
    <2>4. QED
        BY <2>2, <2>3
<1>11. CASE EditBackdated
    <2>1. PICK b \in EditorBytes : db' = Rewritten(db, b, db.gen, db.ctime + 1)
        BY <1>11 DEF EditBackdated
    <2>2. b \in {Garbage} \union Payload /\ db \in File
        BY <1>a, <1>11 DEF EditBackdated, EditorBytes, Payload, Author
    <2>3. db.gen \in Nat /\ db.ctime + 1 \in Nat
        BY <2>2, FileFields
    <2>4. Rewritten(db, b, db.gen, db.ctime + 1) \in File
        BY <2>2, <2>3, RewrittenIsFile
    <2>5. QED
        BY <1>6, <1>11, <2>1, <2>4, NameAssumption DEF EditBackdated
<1>12. CASE Chmod
    <2>1. db' \in File
        BY <1>a, <1>12, TouchedIsFile DEF Chmod
    <2>2. QED
        BY <1>6, <1>12, <2>1, NameAssumption DEF Chmod
<1>13. CASE Churn
    BY <1>4, <1>13 DEF Churn
<1>14. QED
    BY <1>1, <1>2, <1>3, <1>5, <1>7, <1>8, <1>9, <1>10, <1>11, <1>12, <1>13,
       WhoWrites

(* The abstract register is implemented, for any set of processes: locks,
   staged files, re-checks, crashes and fsyncs amount to atomic updates, each
   computed from the value it replaces. *)
THEOREM RegisterImplemented ==
    ASSUME "window" \notin Env
    PROVE  Spec => RegisterSpec
<1>1. AllInv /\ [Next]_vars => [Register!Next]_<<Contents(db),
{Contents(f) : f \in fallback}>>
    BY RegisterStep DEF value, older
<1>2. QED
    BY <1>1, RegisterInit, AllInit, AllStep, PTL
       DEF Spec, RegisterSpec, Register!Spec

-----------------------------------------------------------------------------
(* What a transaction reports when it ends, what it keeps and what it makes
   durable, for any set of processes, any environment and any bounds. *)

Successes == {"durable", "installed_verification_failed",
              "installed_directory_fsync_failed"}
Refusals == {"error", "conflict", "unchanged"}

(* A process names no outcome before its install is looked at, and one of the
   successes from then on. *)
Undecided == {"loading", "ready", "waiting", "verifying", "check", "stage",
              "confirm"} \union Staging
Reported(w) ==
    /\ pc[w] \in Undecided => result[w] = "none"
    /\ pc[w] \in {"confirm", "release", "releasing", "fsync"} => w \in installed
    /\ pc[w] \in {"drop", "dropping"} => result[w] \in Refusals
    /\ w \in installed => pc[w] \in AfterInstall
    /\ w \in installed /\ pc[w] \notin {"confirm", "crashed"} =>
           result[w] \in Successes
    /\ result[w] \in Refusals => w \notin installed

(* A staged name exists from the creation of the file to the cleanup, which
   unlinks none that was somebody else's when it looked. Past the cleanup it is
   told, but for that of a complete file whose transaction failed. *)
BeforeStage == {"idle", "loading", "ready", "waiting", "verifying", "check", "stage"}
Complete == {"verify", "recheck", "reverify", "backup", "filling", "lastcheck",
             "lastverify", "replace", "confirm", "release", "releasing", "fsync",
             "close", "closing"}
Tidy(w) ==
    /\ pc[w] \in BeforeStage => staged[w] = Nothing
    /\ staged[w] = Nothing => stage[w] = "none"
    /\ pc[w] \in Complete => staged[w] # Nothing /\ staged[w].synced
    /\ pc[w] \in Unlinking => stage[w] # "other"
    /\ (/\ pc[w] \in {"unlock", "done"} /\ stage[w] # "none"
        /\ result[w] \in Failures => ~staged[w].synced) => w \in warned

ReportInv == \A w \in Writer : Reported(w) /\ Tidy(w)

(* The backup of the snapshot's bytes is whole from the time it was written,
   and nobody else is writing one while this process does. *)
BackedUp(w) ==
    /\ pc[w] \in {"backup", "filling", "lastcheck", "lastverify"} => job[w] = "backup"
    /\ pc[w] = "filling" => backups[snap[w].bytes] = "partial"
    /\ pc[w] \in {"lastcheck", "lastverify"} => backups[snap[w].bytes] = "exact"
    /\ pc[w] = "replace" /\ job[w] = "backup" => backups[snap[w].bytes] = "exact"
    /\ w \in installed /\ job[w] = "backup" =>
           snap[w].bytes \in Payload /\ backups[snap[w].bytes] = "exact"

BackupInv == \A w \in Writer : BackedUp(w)

(* w installed its file and, once its report says durable, made the entry
   durable: nothing older is under the name, none can return there, and no
   staged file that is older awaits its rename. *)
Entered(w) ==
    pc[w] \in {"close", "closing", "unlock", "done"} /\ result[w] = "durable"
Landed(w) ==
    \/ pc[w] \in {"confirm", "release", "releasing", "fsync"}
    \/ Entered(w)

Lasting(w) ==
    /\ Landed(w) =>
        /\ staged[w] # Nothing
        /\ db # Missing /\ db.gen >= staged[w].gen
        /\ \A v \in Writer : v # w /\ pc[v] \in Staging => staged[v].gen >= staged[w].gen
    /\ Entered(w) =>
        \A f \in fallback : f # Missing /\ f.gen >= staged[w].gen

DurableInv == \A w \in Writer : Lasting(w)

USE DEF Goto, Report, Enabled, Resting, LockWait, Abort

LEMMA ReportInit == Init => ReportInv
BY DEF Init, ReportInv, Reported, Tidy, BeforeStage, Complete, Unlinking,
   Undecided, Staging, AfterInstall, Successes, Refusals, Failures

LEMMA ReportStep == TypeInv /\ LockInv /\ ReportInv /\ [Next]_vars => ReportInv'
<1> SUFFICES ASSUME TypeInv, LockInv, ReportInv, [Next]_vars PROVE ReportInv'
    OBVIOUS
<1>a. TypeInv'
    BY TypeStep
<1> USE DEF TypeInv, TypeOK, LockInv, InBody, Phase, ReportInv, Reported, Tidy,
            BeforeStage, Complete, Unlinking, Undecided, Staging, AfterInstall,
            Successes, Refusals, Failures
<1>1. ASSUME NEW v \in Writer, LoadFinish(v) PROVE ReportInv'
    BY <1>1 DEF LoadFinish, envVars, diskVars
<1>2. ASSUME NEW v \in Writer, OpenLock(v) PROVE ReportInv'
    BY <1>2 DEF OpenLock, envVars, diskVars
<1>3. ASSUME NEW v \in Writer, Flock(v) PROVE ReportInv'
    BY <1>3 DEF Flock, envVars, diskVars
<1>4. ASSUME NEW v \in Writer, VerifyLock(v) PROVE ReportInv'
    BY <1>4 DEF VerifyLock, envVars, diskVars
<1>5. ASSUME NEW v \in Writer, Unlock(v) PROVE ReportInv'
    BY <1>5 DEF Unlock, envVars, diskVars
<1>6. ASSUME NEW v \in Writer, FirstCheck(v) PROVE ReportInv'
    BY <1>6 DEF FirstCheck, CheckFinish, RequireMissing, envVars, diskVars
<1>7. ASSUME NEW v \in Writer, Recheck(v) PROVE ReportInv'
    BY <1>7 DEF Recheck, CheckFinish, RequireMissing, envVars, diskVars
<1>8. ASSUME NEW v \in Writer, LastCheck(v) PROVE ReportInv'
    BY <1>8 DEF LastCheck, CheckFinish, envVars, diskVars
<1>9. ASSUME NEW v \in Writer, StageFault(v) PROVE ReportInv'
    BY <1>9 DEF StageFault, envVars, diskVars
<1>10. ASSUME NEW v \in Writer, OpenStage(v) PROVE ReportInv'
    <2>1. staged'[v] # Nothing
        BY <1>a, <1>10 DEF OpenStage, Held, HasStage
    <2>2. QED
        BY <2>1, <1>10 DEF OpenStage, envVars, diskVars
<1>11. ASSUME NEW v \in Writer, WriteStage(v) PROVE ReportInv'
    <2>1. staged'[v] # Nothing
        BY <1>a, <1>11 DEF WriteStage, Held, HasStage
    <2>2. QED
        BY <2>1, <1>11 DEF WriteStage, envVars, diskVars
<1>12. ASSUME NEW v \in Writer, SyncStage(v) PROVE ReportInv'
    <2>1. staged'[v] # Nothing
        BY <1>a, <1>12 DEF SyncStage, Held, HasStage
    <2>2. QED
        BY <2>1, <1>12 DEF SyncStage, envVars, diskVars
<1>13. ASSUME NEW v \in Writer, Verify(v) PROVE ReportInv'
    BY <1>13 DEF Verify, VerifyStage, envVars, diskVars
<1>14. ASSUME NEW v \in Writer, OpenBackup(v) PROVE ReportInv'
    BY <1>14 DEF OpenBackup, envVars
<1>15. ASSUME NEW v \in Writer, FillBackup(v) PROVE ReportInv'
    BY <1>15 DEF FillBackup, envVars
<1>16. ASSUME NEW v \in Writer, InstallFault(v) PROVE ReportInv'
    BY <1>16 DEF InstallFault, envVars, diskVars
<1>17. ASSUME NEW v \in Writer, Replace(v) PROVE ReportInv'
    BY <1>17 DEF Replace, envVars
<1>18. ASSUME NEW v \in Writer, Link(v) PROVE ReportInv'
    BY <1>18 DEF Link, envVars
<1>19. ASSUME NEW v \in Writer, Confirm(v) PROVE ReportInv'
    BY <1>19 DEF Confirm, envVars, diskVars
<1>20. ASSUME NEW v \in Writer, FsyncDirectory(v) PROVE ReportInv'
    BY <1>20 DEF FsyncDirectory, envVars
<1>21. ASSUME NEW v \in Writer, Close(v) PROVE ReportInv'
    BY <1>21 DEF Close, Unlink, Inspect, Remove, Told, diskVars, envVars
<1>22. ASSUME NEW v \in Writer, Begin(v) PROVE ReportInv'
    BY <1>22 DEF Begin, Start, envVars, diskVars
<1>23. ASSUME NEW v \in Writer, TakeStage(v) PROVE ReportInv'
    BY <1>23 DEF TakeStage, diskVars
<1>24. ASSUME NEW v \in Writer, Crash(v) PROVE ReportInv'
    BY <1>24 DEF Crash, envVars, diskVars
<1>25. ASSUME NEW v \in Writer, Read(v) PROVE ReportInv'
    BY <1>25 DEF Read, ReadOpen, envVars, diskVars
<1>26. CASE EditSave
    BY <1>26 DEF EditSave, procVars
<1>27. CASE EditBegin
    BY <1>27 DEF EditBegin, procVars
<1>28. CASE EditEnd
    BY <1>28 DEF EditEnd, procVars
<1>29. CASE EditBackdated
    BY <1>29 DEF EditBackdated, procVars
<1>30. CASE Chmod
    BY <1>30 DEF Chmod, procVars
<1>31. CASE Churn
    BY <1>31 DEF Churn, procVars
<1>32. CASE ReplaceLockFile
    BY <1>32 DEF ReplaceLockFile, procVars
<1>33. CASE PowerLoss
    BY <1>33 DEF PowerLoss
<1>34. CASE UNCHANGED vars
    BY <1>34 DEF vars, procVars, envVars, diskVars
<1>35. QED
    BY <1>1, <1>2, <1>3, <1>4, <1>5, <1>6, <1>7, <1>8, <1>9, <1>10, <1>11,
       <1>12, <1>13, <1>14, <1>15, <1>16, <1>17, <1>18, <1>19, <1>20, <1>21,
       <1>22, <1>23, <1>24, <1>25, <1>26, <1>27, <1>28, <1>29, <1>30, <1>31,
       <1>32, <1>33, <1>34 DEF Next, Disturb, Step


(* A failure means that nothing was installed and a success that something
   was. A staged name left behind is in the answer of every transaction that
   installed, and of every one that failed before its staged file was complete;
   of one that failed later nothing is claimed, because the exception leaves the
   warnings of commit_tracking_database's finally behind. All of it holds
   whatever fails, is swapped or is killed in between. *)
THEOREM ReportsAreTruthful == Spec => []ReportsTruthful
<1>1. Init => TypeInv /\ LockInv /\ ReportInv
    BY TypeInit, LockInit, ReportInit
<1>2. TypeInv /\ LockInv /\ ReportInv /\ [Next]_vars => (TypeInv /\ LockInv /\ ReportInv)'
    BY TypeStep, LockStep, ReportStep
<1>3. TypeInv /\ ReportInv => ReportsTruthful
    BY DEF TypeInv, TypeOK, ReportInv, Reported, Tidy, ReportsTruthful,
           FailureInstalledNothing, InstalledOrUnfinishedTells, Failures,
           Successes, Refusals
<1>4. QED
    BY <1>1, <1>2, <1>3, PTL DEF Spec

LEMMA BackupInit == Init => BackupInv
BY DEF Init, BackupInv, BackedUp

LEMMA BackupStep ==
    TypeInv /\ LockInv /\ ReportInv /\ BackupInv /\ [Next]_vars => BackupInv'
<1> SUFFICES ASSUME TypeInv, LockInv, ReportInv, BackupInv, [Next]_vars PROVE BackupInv'
    OBVIOUS
<1> USE DEF TypeInv, TypeOK, LockInv, InBody, Phase, ReportInv, Reported,
            AfterInstall, BackupInv, BackedUp
<1>1. ASSUME NEW v \in Writer, LoadFinish(v) PROVE BackupInv'
    BY <1>1 DEF LoadFinish, envVars, diskVars
<1>2. ASSUME NEW v \in Writer, OpenLock(v) PROVE BackupInv'
    BY <1>2 DEF OpenLock, envVars, diskVars
<1>3. ASSUME NEW v \in Writer, Flock(v) PROVE BackupInv'
    BY <1>3 DEF Flock, envVars, diskVars
<1>4. ASSUME NEW v \in Writer, VerifyLock(v) PROVE BackupInv'
    BY <1>4 DEF VerifyLock, envVars, diskVars
<1>5. ASSUME NEW v \in Writer, Unlock(v) PROVE BackupInv'
    BY <1>5 DEF Unlock, envVars, diskVars
<1>6. ASSUME NEW v \in Writer, FirstCheck(v) PROVE BackupInv'
    BY <1>6 DEF FirstCheck, CheckFinish, RequireMissing, envVars, diskVars
<1>7. ASSUME NEW v \in Writer, Recheck(v) PROVE BackupInv'
    BY <1>7 DEF Recheck, CheckFinish, RequireMissing, envVars, diskVars
<1>8. ASSUME NEW v \in Writer, LastCheck(v) PROVE BackupInv'
    BY <1>8 DEF LastCheck, CheckFinish, envVars, diskVars
<1>9. ASSUME NEW v \in Writer, StageFault(v) PROVE BackupInv'
    BY <1>9 DEF StageFault, envVars, diskVars
<1>10. ASSUME NEW v \in Writer, OpenStage(v) PROVE BackupInv'
    BY <1>10 DEF OpenStage, envVars, diskVars
<1>11. ASSUME NEW v \in Writer, WriteStage(v) PROVE BackupInv'
    BY <1>11 DEF WriteStage, envVars, diskVars
<1>12. ASSUME NEW v \in Writer, SyncStage(v) PROVE BackupInv'
    BY <1>12 DEF SyncStage, envVars, diskVars
<1>13. ASSUME NEW v \in Writer, Verify(v) PROVE BackupInv'
    BY <1>13 DEF Verify, VerifyStage, envVars, diskVars
<1>14. ASSUME NEW v \in Writer, OpenBackup(v) PROVE BackupInv'
    <2>1. job[v] # "initialize" /\ snap[v] # Nothing /\ snap[v].bytes \in Payload
        BY <1>14, FileFields DEF OpenBackup, Held, HasSnapshot, HasStage
    <2>2. /\ pc[v] = "backup" /\ v \notin installed
          /\ UNCHANGED <<job, snap, installed>>
        BY <1>14 DEF OpenBackup
    <2>3. ASSUME NEW w \in Writer, w # v PROVE BackedUp(w)'
        <3>1. pc'[w] = pc[w] /\ pc[w] # "filling"
            BY <1>14, <2>3 DEF OpenBackup
        <3>2. \A b \in Payload : backups[b] = "exact" => backups'[b] = "exact"
            BY <1>14, <2>1 DEF OpenBackup
        <3>3. snap[w] # Nothing => snap[w] \in File
            OBVIOUS
        <3>4. pc[w] \in HasSnapshot /\ job[w] # "initialize" => snap[w].bytes \in Payload
            BY <3>3, FileFields DEF Held
        <3>5. QED
            BY <2>2, <3>1, <3>2, <3>4 DEF HasSnapshot, HasStage
    <2>4. BackedUp(v)'
        <3>1. \/ pc'[v] = "filling" /\ backups'[snap[v].bytes] = "partial"
              \/ pc'[v] = "lastcheck" /\ backups'[snap[v].bytes] = "exact"
              \/ pc'[v] \in {"done", "unlock", "close", "drop"}
            BY <1>14, <2>1 DEF OpenBackup
        <3>2. QED
            BY <2>2, <3>1
    <2>5. QED
        BY <2>3, <2>4
<1>15. ASSUME NEW v \in Writer, FillBackup(v) PROVE BackupInv'
    <2>1. job[v] # "initialize" /\ snap[v] # Nothing /\ snap[v].bytes \in Payload
        BY <1>15, FileFields DEF FillBackup, Held, HasSnapshot, HasStage
    <2>2. /\ pc[v] = "filling" /\ v \notin installed
          /\ backups[snap[v].bytes] = "partial"
          /\ UNCHANGED <<job, snap, installed>>
        BY <1>15 DEF FillBackup
    <2>3. ASSUME NEW w \in Writer, w # v PROVE BackedUp(w)'
        <3>1. pc'[w] = pc[w] /\ pc[w] # "filling"
            BY <1>15, <2>3 DEF FillBackup
        <3>2. \A b \in Payload : backups[b] = "exact" => backups'[b] = "exact"
            BY <1>15, <2>1, <2>2 DEF FillBackup
        <3>3. snap[w] # Nothing => snap[w] \in File
            OBVIOUS
        <3>4. pc[w] \in HasSnapshot /\ job[w] # "initialize" => snap[w].bytes \in Payload
            BY <3>3, FileFields DEF Held
        <3>5. QED
            BY <2>2, <3>1, <3>2, <3>4 DEF HasSnapshot, HasStage
    <2>4. BackedUp(v)'
        <3>1. \/ pc'[v] = "lastcheck" /\ backups'[snap[v].bytes] = "exact"
              \/ pc'[v] \in {"done", "unlock", "close", "drop"}
            BY <1>15, <2>1 DEF FillBackup
        <3>2. QED
            BY <2>2, <3>1
    <2>5. QED
        BY <2>3, <2>4
<1>16. ASSUME NEW v \in Writer, InstallFault(v) PROVE BackupInv'
    BY <1>16 DEF InstallFault, envVars, diskVars
<1>17. ASSUME NEW v \in Writer, Replace(v) PROVE BackupInv'
    <2>1. job[v] # "initialize" /\ snap[v] # Nothing /\ snap[v].bytes \in Payload
        BY <1>17, FileFields DEF Replace, Held, HasSnapshot, HasStage
    <2>2. QED
        BY <1>17, <2>1 DEF Replace, envVars
<1>18. ASSUME NEW v \in Writer, Link(v) PROVE BackupInv'
    BY <1>18 DEF Link, envVars
<1>19. ASSUME NEW v \in Writer, Confirm(v) PROVE BackupInv'
    BY <1>19 DEF Confirm, envVars, diskVars
<1>20. ASSUME NEW v \in Writer, FsyncDirectory(v) PROVE BackupInv'
    BY <1>20 DEF FsyncDirectory, envVars
<1>21. ASSUME NEW v \in Writer, Close(v) PROVE BackupInv'
    BY <1>21 DEF Close, Unlink, Inspect, Remove, diskVars, envVars
<1>22. ASSUME NEW v \in Writer, Begin(v) PROVE BackupInv'
    BY <1>22 DEF Begin, Start, envVars, diskVars
<1>23. ASSUME NEW v \in Writer, TakeStage(v) PROVE BackupInv'
    BY <1>23 DEF TakeStage, diskVars
<1>24. ASSUME NEW v \in Writer, Crash(v) PROVE BackupInv'
    BY <1>24 DEF Crash, envVars, diskVars
<1>25. ASSUME NEW v \in Writer, Read(v) PROVE BackupInv'
    BY <1>25 DEF Read, ReadOpen, envVars, diskVars
<1>26. CASE EditSave
    BY <1>26 DEF EditSave, procVars
<1>27. CASE EditBegin
    BY <1>27 DEF EditBegin, procVars
<1>28. CASE EditEnd
    BY <1>28 DEF EditEnd, procVars
<1>29. CASE EditBackdated
    BY <1>29 DEF EditBackdated, procVars
<1>30. CASE Chmod
    BY <1>30 DEF Chmod, procVars
<1>31. CASE Churn
    BY <1>31 DEF Churn, procVars
<1>32. CASE ReplaceLockFile
    BY <1>32 DEF ReplaceLockFile, procVars
<1>33. CASE PowerLoss
    BY <1>33 DEF PowerLoss
<1>34. CASE UNCHANGED vars
    BY <1>34 DEF vars, procVars, envVars, diskVars
<1>35. QED
    BY <1>1, <1>2, <1>3, <1>4, <1>5, <1>6, <1>7, <1>8, <1>9, <1>10, <1>11,
       <1>12, <1>13, <1>14, <1>15, <1>16, <1>17, <1>18, <1>19, <1>20, <1>21,
       <1>22, <1>23, <1>24, <1>25, <1>26, <1>27, <1>28, <1>29, <1>30, <1>31,
       <1>32, <1>33, <1>34 DEF Next, Disturb, Step

(* Whatever a transaction with a backup replaced can be restored: the backup of
   exactly the replaced bytes was whole before the rename and no later failure,
   of this process or another, touches it (_write_exact_backup). *)
THEOREM BackupsHoldInput == Spec => []BackupHoldsInput
<1>1. Init => TypeInv /\ LockInv /\ ReportInv /\ BackupInv
    BY TypeInit, LockInit, ReportInit, BackupInit
<1>2. TypeInv /\ LockInv /\ ReportInv /\ BackupInv /\ [Next]_vars
          => (TypeInv /\ LockInv /\ ReportInv /\ BackupInv)'
    BY TypeStep, LockStep, ReportStep, BackupStep
<1>3. BackupInv => BackupHoldsInput
    BY DEF BackupInv, BackedUp, BackupHoldsInput
<1>4. QED
    BY <1>1, <1>2, <1>3, PTL DEF Spec

(* A file that had taken over a staged name when the cleanup looked at the name
   is never removed by the process whose name it was, on no path through the
   transaction (_unlink_staged_name). One that comes between that look and
   os.unlink is removed, and the theorem does not speak of it. *)
THEOREM StrangersSpared == Spec => StrangerSpared
<1>1. ASSUME TypeInv, ReportInv, [Next]_vars
      PROVE  [\A w \in Writer :
                stage[w] = "other" /\ stage'[w] = "none" =>
                    \/ w \in installed' /\ w \notin installed
                    \/ pc[w] \in {"idle", "done", "crashed"}]_vars
    <2> SUFFICES ASSUME NEW w \in Writer, stage[w] = "other", stage'[w] = "none",
                        pc[w] \notin {"idle", "done", "crashed"}
                 PROVE  w \in installed' /\ w \notin installed
        OBVIOUS
    <2>1. TypeOK
        BY <1>1 DEF TypeInv
    <2>2. ~UNCHANGED Mine(w)
        BY DEF Mine
    <2>3. w \in Writer /\ (Step(w) \/ Begin(w) \/ TakeStage(w) \/ Crash(w) \/ PowerLoss)
        BY <1>1, <2>1, <2>2, OthersLeaveMine
    <2>4. ~Begin(w) /\ ~Crash(w) /\ ~PowerLoss /\ ~TakeStage(w)
        BY DEF Begin, Start, Crash, PowerLoss, TakeStage
    <2>5. CASE Replace(w)
        BY <1>1, <2>1, <2>5 DEF Replace, ReportInv, Reported, AfterInstall, TypeOK
    <2>6. ~Close(w) /\ ~OpenStage(w)
        <3>1. pc[w] \notin Unlinking
            BY <1>1 DEF ReportInv, Tidy
        <3>2. QED
            BY <2>1, <3>1
               DEF Close, Unlink, Inspect, Remove, diskVars, Unlinking, OpenStage,
               TypeOK
    <2>7. ~Read(w) /\ ~LoadFinish(w) /\ ~OpenLock(w) /\ ~Flock(w)
        BY DEF Read, ReadOpen, LoadFinish, OpenLock, Flock
    <2>8. ~VerifyLock(w) /\ ~Unlock(w) /\ ~FirstCheck(w) /\ ~Recheck(w) /\ ~LastCheck(w)
        BY DEF VerifyLock, Unlock, FirstCheck, Recheck, LastCheck, CheckFinish, RequireMissing
    <2>9. ~StageFault(w) /\ ~WriteStage(w) /\ ~SyncStage(w) /\ ~Verify(w)
        BY DEF StageFault, WriteStage, SyncStage, Verify, VerifyStage
    <2>10. ~OpenBackup(w) /\ ~FillBackup(w) /\ ~InstallFault(w)
        BY DEF OpenBackup, FillBackup, InstallFault
    <2>11. ~Link(w) /\ ~Confirm(w) /\ ~FsyncDirectory(w)
        BY DEF Link, Confirm, FsyncDirectory
    <2>12. QED
        BY <2>3, <2>4, <2>5, <2>6, <2>7, <2>8, <2>9, <2>10, <2>11 DEF Step
<1>2. Init => TypeInv /\ LockInv /\ ReportInv
    BY TypeInit, LockInit, ReportInit
<1>3. TypeInv /\ LockInv /\ ReportInv /\ [Next]_vars => (TypeInv /\ LockInv /\ ReportInv)'
    BY TypeStep, LockStep, ReportStep
<1>4. QED
    BY <1>1, <1>2, <1>3, PTL DEF Spec, StrangerSpared

LEMMA DurableInit == Init => DurableInv
BY DEF Init, DurableInv, Lasting, Landed, Entered

(* A step that keeps the database's number or raises it, and that lands no
   file and stages none. *)
LEMMA LaterDatabase ==
    ASSUME TypeOK, TypeOK', DurableInv,
           db # Missing => db' # Missing /\ db'.gen >= db.gen,
           UNCHANGED <<fallback, staged>>,
           \A w \in Writer :
              /\ Landed(w)' => Landed(w)
              /\ Entered(w)' => Entered(w)
              /\ pc'[w] \in Staging => pc[w] \in Staging
    PROVE  DurableInv'
<1>1. db # Missing => db \in File /\ db' \in File /\ db.gen \in Nat /\ db'.gen \in Nat
    BY FileFields DEF TypeOK
<1>2. \A w \in Writer : staged[w] # Nothing => staged[w].gen \in Nat
    BY FileFields DEF TypeOK
<1>3. ASSUME NEW w \in Writer PROVE Lasting(w)'
    BY <1>1, <1>2 DEF DurableInv, Lasting
<1>4. QED
    BY <1>3 DEF DurableInv

(* Nobody else is between staging and unlocking while w is. *)
LEMMA AloneInBody ==
    ASSUME LockInv, NEW v \in Writer, pc[v] \in InBody,
           NEW w \in Writer, pc[w] \in InBody
    PROVE  v = w
BY DEF LockInv

LEMMA DurableStep ==
    TypeInv /\ LockInv /\ GenInv /\ ReportInv /\ DurableInv /\ [Next]_vars => DurableInv'
<1> SUFFICES ASSUME TypeInv, LockInv, GenInv, ReportInv, DurableInv, [Next]_vars
             PROVE  DurableInv'
    OBVIOUS
<1>a. TypeInv'
    BY TypeStep
<1>b. /\ stamp \in Nat
      /\ db # Missing =>
            /\ db \in File /\ db.gen \in Nat /\ db.gen <= stamp
            /\ db.ctime \in Nat /\ db.mode \in {"shared", "private"}
            /\ \A b \in {Garbage} \union Payload, n, c \in Nat :
                   Rewritten(db, b, n, c) # Missing /\ Rewritten(db, b, n, c).gen = n
            /\ \A m \in {"shared", "private"} :
                   Touched(db, m) # Missing /\ Touched(db, m).gen = db.gen
    <2>1. stamp \in Nat /\ (db # Missing => db \in File /\ db.gen <= stamp)
        BY DEF TypeInv, TypeOK, GenInv, Numbered
    <2>2. SUFFICES ASSUME db # Missing, db \in File
                   PROVE  /\ db.gen \in Nat /\ db.ctime \in Nat
                          /\ db.mode \in {"shared", "private"}
                          /\ \A b \in {Garbage} \union Payload, n, c \in Nat :
                                /\ Rewritten(db, b, n, c) # Missing
                                /\ Rewritten(db, b, n, c).gen = n
                          /\ \A m \in {"shared", "private"} :
                                Touched(db, m) # Missing /\ Touched(db, m).gen = db.gen
        BY <2>1
    <2>3. db.gen \in Nat /\ db.ctime \in Nat /\ db.mode \in {"shared", "private"}
        BY <2>2, FileFields
    <2>4. ASSUME NEW b \in {Garbage} \union Payload, NEW n \in Nat, NEW c \in Nat
          PROVE  Rewritten(db, b, n, c) # Missing /\ Rewritten(db, b, n, c).gen = n
        <3>1. Rewritten(db, b, n, c) \in File
            BY <2>2, RewrittenIsFile
        <3>2. Rewritten(db, b, n, c).gen = n
            BY <2>2 DEF Rewritten, File
        <3>3. QED
            BY <3>1, <3>2, NameAssumption
    <2>5. ASSUME NEW m \in {"shared", "private"}
          PROVE  Touched(db, m) # Missing /\ Touched(db, m).gen = db.gen
        BY <2>2, TouchedIsFile, NewFields, NameAssumption
    <2>6. QED
        BY <2>3, <2>4, <2>5
<1>c. EditorBytes \subseteq Payload
    BY DEF EditorBytes, Payload, Author
<1> USE DEF TypeInv, TypeOK, LockInv, InBody, Phase,
            DurableInv, Lasting, Landed, Entered, Staging
<1>1. ASSUME NEW v \in Writer, LoadFinish(v) PROVE DurableInv'
    BY <1>1 DEF LoadFinish, ReportInv, Reported, Undecided, envVars, diskVars
<1>2. ASSUME NEW v \in Writer, OpenLock(v) PROVE DurableInv'
    BY <1>2 DEF OpenLock, envVars, diskVars
<1>3. ASSUME NEW v \in Writer, Flock(v) PROVE DurableInv'
    BY <1>3 DEF Flock, envVars, diskVars
<1>4. ASSUME NEW v \in Writer, VerifyLock(v) PROVE DurableInv'
    BY <1>4 DEF VerifyLock, envVars, diskVars
<1>5. ASSUME NEW v \in Writer, Unlock(v) PROVE DurableInv'
    BY <1>5 DEF Unlock, ReportInv, Reported, Undecided, envVars, diskVars
<1>6. ASSUME NEW v \in Writer, FirstCheck(v) PROVE DurableInv'
    BY <1>6 DEF FirstCheck, CheckFinish, RequireMissing, ReportInv, Reported,
       Undecided, envVars, diskVars
<1>7. ASSUME NEW v \in Writer, Recheck(v) PROVE DurableInv'
    BY <1>7 DEF Recheck, CheckFinish, RequireMissing, envVars, diskVars
<1>8. ASSUME NEW v \in Writer, LastCheck(v) PROVE DurableInv'
    BY <1>8 DEF LastCheck, CheckFinish, envVars, diskVars
<1>9. ASSUME NEW v \in Writer, StageFault(v) PROVE DurableInv'
    BY <1>9 DEF StageFault, envVars, diskVars
<1>10. ASSUME NEW v \in Writer, OpenStage(v) PROVE DurableInv'
    <2>1. /\ staged' = [staged EXCEPT ![v] = NewStage(v, Mode(v), stamp + 1)]
          /\ pc' = [pc EXCEPT ![v] = "write"] /\ pc[v] = "stage"
          /\ UNCHANGED <<db, fallback, result>>
        BY <1>10 DEF OpenStage, Mode, diskVars
    <2>2. staged'[v].gen = stamp + 1
        BY <2>1 DEF NewStage
    <2>3. ASSUME NEW w \in Writer PROVE Lasting(w)'
        <3>1. CASE w = v
            BY <2>1, <3>1
        <3>2. CASE w # v
            <4>1. staged'[w] = staged[w] /\ pc'[w] = pc[w] /\ result'[w] = result[w]
                BY <2>1, <3>2
            <4>2. staged[w] # Nothing => staged[w].gen \in Nat /\ staged[w].gen <= stamp
                BY FileFields DEF GenInv, Numbered
            <4>3. \A u \in Writer : u # v => staged'[u] = staged[u] /\ pc'[u] = pc[u]
                BY <2>1
            <4>4. QED
                BY <2>1, <2>2, <4>1, <4>2, <4>3
        <3>3. QED
            BY <3>1, <3>2
    <2>4. QED
        BY <2>3
<1>11. ASSUME NEW v \in Writer, WriteStage(v) PROVE DurableInv'
    BY <1>11 DEF WriteStage, envVars, diskVars
<1>12. ASSUME NEW v \in Writer, SyncStage(v) PROVE DurableInv'
    BY <1>12 DEF SyncStage, envVars, diskVars
<1>13. ASSUME NEW v \in Writer, Verify(v) PROVE DurableInv'
    BY <1>13 DEF Verify, VerifyStage, envVars, diskVars
<1>14. ASSUME NEW v \in Writer, OpenBackup(v) PROVE DurableInv'
    BY <1>14 DEF OpenBackup, envVars
<1>15. ASSUME NEW v \in Writer, FillBackup(v) PROVE DurableInv'
    BY <1>15 DEF FillBackup, envVars
<1>16. ASSUME NEW v \in Writer, InstallFault(v) PROVE DurableInv'
    BY <1>16 DEF InstallFault, envVars, diskVars
<1>17. ASSUME NEW v \in Writer, Replace(v) PROVE DurableInv'
    <2>1. CASE stage[v] = "none"
        <3>1. /\ UNCHANGED <<db, fallback, staged>>
              /\ \A w \in Writer : w # v => pc'[w] = pc[w] /\ result'[w] = result[w]
            BY <1>17, <2>1 DEF Replace
        <3>2. ~Landed(v)' /\ ~Entered(v)' /\ pc'[v] \notin Staging
            BY <1>17, <2>1 DEF Replace
        <3>3. \A w \in Writer :
                  /\ Landed(w)' => Landed(w)
                  /\ Entered(w)' => Entered(w)
                  /\ pc'[w] \in Staging => pc[w] \in Staging
            BY <3>1, <3>2
        <3>4. db # Missing => db' # Missing /\ db'.gen >= db.gen
            BY <1>b, <3>1
        <3>5. QED
            BY <1>a, <3>1, <3>3, <3>4, LaterDatabase
    <2>2. CASE ~(stage[v] = "none")
        <3>1. /\ pc[v] = "replace" /\ pc' = [pc EXCEPT ![v] = "confirm"]
              /\ db' = Incoming(v) /\ fallback' = fallback \union {db}
              /\ UNCHANGED <<staged, result>>
            BY <1>17, <2>2 DEF Replace
        <3>2. staged[v] # Nothing /\ staged[v] \in File
            BY <3>1, <1>a DEF TypeInv, Held, HasStage
        <3>3. db' # Missing /\ db'.gen >= staged[v].gen /\ db'.gen \in Nat
            <4>1. /\ StrangersFile(stamp + 1) \in File
                  /\ StrangersFile(stamp + 1).gen = stamp + 1
                BY <1>b, StrangersFileIsFile DEF StrangersFile
            <4>2. staged[v].gen \in Nat /\ staged[v].gen <= stamp
                BY <3>2, FileFields DEF GenInv, Numbered
            <4>3. QED
                BY <1>b, <3>1, <3>2, <4>1, <4>2, NameAssumption DEF Incoming
        <3>4. ASSUME NEW w \in Writer, w # v, pc[w] \in InBody PROVE FALSE
            BY <3>1, <3>4, AloneInBody
        <3>5. ASSUME NEW w \in Writer, w # v PROVE Lasting(w)'
            <4>1. pc'[w] = pc[w] /\ result'[w] = result[w] /\ staged'[w] = staged[w]
                BY <3>1, <3>5
            <4>2. SUFFICES ASSUME Landed(w) PROVE Lasting(w)'
                BY <4>1
            <4>3. pc[w] = "done" /\ result[w] = "durable"
                BY <3>4, <3>5, <4>2
            <4>4. /\ staged[w] # Nothing /\ staged[w].gen \in Nat
                  /\ db # Missing /\ db.gen >= staged[w].gen
                  /\ staged[v].gen >= staged[w].gen
                BY <3>1, <3>5, <4>2, FileFields
            <4>5. db'.gen >= staged[w].gen
                BY <3>2, <3>3, <4>4, FileFields
            <4>6. QED
                BY <3>1, <3>3, <4>1, <4>2, <4>3, <4>4, <4>5
        <3>6. Lasting(v)'
            <4>1. pc'[v] = "confirm"
                BY <3>1
            <4>2. \A u \in Writer : u # v => pc'[u] \notin Staging
                BY <3>1, <3>4
            <4>3. QED
                BY <3>1, <3>2, <3>3, <4>1, <4>2
        <3>7. QED
            BY <3>5, <3>6
    <2>3. QED
        BY <2>1, <2>2
<1>18. ASSUME NEW v \in Writer, Link(v) PROVE DurableInv'
    <2>1. CASE stage[v] = "none" \/ db # Missing
        <3>1. /\ UNCHANGED <<db, fallback, staged>>
              /\ \A w \in Writer : w # v => pc'[w] = pc[w] /\ result'[w] = result[w]
            BY <1>18, <2>1 DEF Link
        <3>2. ~Landed(v)' /\ ~Entered(v)' /\ pc'[v] \notin Staging
            BY <1>18, <2>1 DEF Link
        <3>3. \A w \in Writer :
                  /\ Landed(w)' => Landed(w)
                  /\ Entered(w)' => Entered(w)
                  /\ pc'[w] \in Staging => pc[w] \in Staging
            BY <3>1, <3>2
        <3>4. db # Missing => db' # Missing /\ db'.gen >= db.gen
            BY <1>b, <3>1
        <3>5. QED
            BY <1>a, <3>1, <3>3, <3>4, LaterDatabase
    <2>2. CASE ~(stage[v] = "none" \/ db # Missing)
        <3>1. /\ pc[v] = "replace" /\ pc' = [pc EXCEPT ![v] = "confirm"]
              /\ db' = Incoming(v) /\ fallback' = fallback \union {db}
              /\ UNCHANGED <<staged, result>>
            BY <1>18, <2>2 DEF Link
        <3>2. staged[v] # Nothing /\ staged[v] \in File
            BY <3>1, <1>a DEF TypeInv, Held, HasStage
        <3>3. db' # Missing /\ db'.gen >= staged[v].gen /\ db'.gen \in Nat
            <4>1. /\ StrangersFile(stamp + 1) \in File
                  /\ StrangersFile(stamp + 1).gen = stamp + 1
                BY <1>b, StrangersFileIsFile DEF StrangersFile
            <4>2. staged[v].gen \in Nat /\ staged[v].gen <= stamp
                BY <3>2, FileFields DEF GenInv, Numbered
            <4>3. QED
                BY <1>b, <3>1, <3>2, <4>1, <4>2, NameAssumption DEF Incoming
        <3>4. ASSUME NEW w \in Writer, w # v, pc[w] \in InBody PROVE FALSE
            BY <3>1, <3>4, AloneInBody
        <3>5. ASSUME NEW w \in Writer, w # v PROVE Lasting(w)'
            <4>1. pc'[w] = pc[w] /\ result'[w] = result[w] /\ staged'[w] = staged[w]
                BY <3>1, <3>5
            <4>2. SUFFICES ASSUME Landed(w) PROVE Lasting(w)'
                BY <4>1
            <4>3. pc[w] = "done" /\ result[w] = "durable"
                BY <3>4, <3>5, <4>2
            <4>4. /\ staged[w] # Nothing /\ staged[w].gen \in Nat
                  /\ db # Missing /\ db.gen >= staged[w].gen
                  /\ staged[v].gen >= staged[w].gen
                BY <3>1, <3>5, <4>2, FileFields
            <4>5. db'.gen >= staged[w].gen
                BY <3>2, <3>3, <4>4, FileFields
            <4>6. QED
                BY <3>1, <3>3, <4>1, <4>2, <4>3, <4>4, <4>5
        <3>6. Lasting(v)'
            <4>1. pc'[v] = "confirm"
                BY <3>1
            <4>2. \A u \in Writer : u # v => pc'[u] \notin Staging
                BY <3>1, <3>4
            <4>3. QED
                BY <3>1, <3>2, <3>3, <4>1, <4>2
        <3>7. QED
            BY <3>5, <3>6
    <2>3. QED
        BY <2>1, <2>2
<1>19. ASSUME NEW v \in Writer, Confirm(v) PROVE DurableInv'
    BY <1>19 DEF Confirm, ReportInv, Reported, Undecided, envVars, diskVars
<1>20. ASSUME NEW v \in Writer, FsyncDirectory(v) PROVE DurableInv'
    BY <1>20 DEF FsyncDirectory, ReportInv, Reported, Undecided, envVars
<1>21. ASSUME NEW v \in Writer, Close(v) PROVE DurableInv'
    <2>1. db # Missing => db' # Missing /\ db'.gen >= db.gen
        BY <1>b, <1>21 DEF Close, Unlink, Inspect, Remove, diskVars
    <2>2. UNCHANGED <<fallback, staged, result>>
        BY <1>21 DEF Close, Unlink, Inspect, Remove, diskVars
    <2>3. \/ /\ pc[v] \in {"release", "releasing"}
             /\ \E p \in {"releasing", "fsync"} : pc' = [pc EXCEPT ![v] = p]
          \/ /\ pc[v] \in {"drop", "dropping"} /\ result[v] # "durable"
             /\ \E p \in {"dropping", "unlock"} : pc' = [pc EXCEPT ![v] = p]
          \/ /\ pc[v] \in {"close", "closing"}
             /\ \E p \in {"closing", "unlock"} : pc' = [pc EXCEPT ![v] = p]
        BY <1>21
           DEF Close, Unlink, Inspect, Remove, diskVars, ReportInv, Reported, Refusals
    <2>4. \A w \in Writer :
              /\ Landed(w)' => Landed(w)
              /\ Entered(w)' => Entered(w)
              /\ pc'[w] \in Staging => pc[w] \in Staging
        BY <2>2, <2>3
    <2>5. QED
        BY <1>a, <2>1, <2>2, <2>4, LaterDatabase
<1>22. ASSUME NEW v \in Writer, Begin(v) PROVE DurableInv'
    BY <1>22 DEF Begin, Start, envVars, diskVars
<1>23. ASSUME NEW v \in Writer, TakeStage(v) PROVE DurableInv'
    BY <1>23 DEF TakeStage, diskVars
<1>24. ASSUME NEW v \in Writer, Crash(v) PROVE DurableInv'
    BY <1>24 DEF Crash, envVars, diskVars
<1>25. ASSUME NEW v \in Writer, Read(v) PROVE DurableInv'
    BY <1>25 DEF Read, ReadOpen, ReportInv, Reported, Undecided, envVars,
       diskVars
<1>26. CASE EditSave
    <2>1. db # Missing => db' # Missing /\ db'.gen >= db.gen
        <3>1. db'.gen = stamp + 1 /\ db' \in File
            BY <1>a, <1>c, <1>26 DEF EditSave, File, Author
        <3>2. QED
            BY <1>b, <3>1, NameAssumption
    <2>2. UNCHANGED <<fallback, staged, pc, result>>
        BY <1>26 DEF EditSave, procVars
    <2>3. QED
        BY <1>a, <2>1, <2>2, LaterDatabase DEF Landed, Entered
<1>27. CASE EditBegin
    <2>1. db # Missing => db' # Missing /\ db'.gen >= db.gen
        <3>1. /\ db # Missing /\ stamp' = stamp + 1
              /\ db' = Rewritten(db, Garbage, stamp', db.ctime)
            BY <1>27 DEF EditBegin
        <3>2. Garbage \in {Garbage} \union Payload /\ stamp' \in Nat /\ db.ctime \in Nat
            BY <1>b, <3>1
        <3>3. db \in File
            BY <1>b, <3>1
        <3>4. db' \in File
            BY <3>1, <3>2, <3>3, RewrittenIsFile
        <3>5. db'.gen = stamp'
            BY <3>1, <3>3 DEF Rewritten, File
        <3>6. QED
            BY <1>b, <3>1, <3>4, <3>5, NameAssumption
    <2>2. UNCHANGED <<fallback, staged, pc, result>>
        BY <1>27 DEF EditBegin, procVars
    <2>3. QED
        BY <1>a, <2>1, <2>2, LaterDatabase DEF Landed, Entered
<1>28. CASE EditEnd
    <2>1. db # Missing => db' # Missing /\ db'.gen >= db.gen
        BY <1>b, <1>c, <1>28 DEF EditEnd
    <2>2. UNCHANGED <<fallback, staged, pc, result>>
        BY <1>28 DEF EditEnd, procVars
    <2>3. QED
        BY <1>a, <2>1, <2>2, LaterDatabase DEF Landed, Entered
<1>29. CASE EditBackdated
    <2>1. db # Missing => db' # Missing /\ db'.gen >= db.gen
        <3>1. PICK b \in EditorBytes :
                db # Missing /\ db' = Rewritten(db, b, db.gen, db.ctime + 1)
            BY <1>29 DEF EditBackdated
        <3>2. db # Missing => db.ctime + 1 \in Nat
            BY <1>b
        <3>3. QED
            BY <1>b, <1>c, <3>1, <3>2
    <2>2. UNCHANGED <<fallback, staged, pc, result>>
        BY <1>29 DEF EditBackdated, procVars
    <2>3. QED
        BY <1>a, <2>1, <2>2, LaterDatabase DEF Landed, Entered
<1>30. CASE Chmod
    <2>1. db # Missing => db' # Missing /\ db'.gen >= db.gen
        BY <1>b, <1>c, <1>30 DEF Chmod
    <2>2. UNCHANGED <<fallback, staged, pc, result>>
        BY <1>30 DEF Chmod, procVars
    <2>3. QED
        BY <1>a, <2>1, <2>2, LaterDatabase DEF Landed, Entered
<1>31. CASE Churn
    <2>1. db # Missing => db' # Missing /\ db'.gen >= db.gen
        BY <1>b, <1>c, <1>31 DEF Churn
    <2>2. UNCHANGED <<fallback, staged, pc, result>>
        BY <1>31 DEF Churn, procVars
    <2>3. QED
        BY <1>a, <2>1, <2>2, LaterDatabase DEF Landed, Entered
<1>32. CASE ReplaceLockFile
    BY <1>32 DEF ReplaceLockFile, procVars
<1>33. CASE PowerLoss
    <2>1. \A w \in Writer :
              /\ pc'[w] \in {"idle", "done", "crashed"}
              /\ pc'[w] = "done" => pc[w] = "done"
        BY <1>33 DEF PowerLoss
    <2>2. UNCHANGED <<staged, result>> /\ fallback' = {}
        BY <1>33 DEF PowerLoss
    <2>3. PICK f \in fallback \union {db} :
              db' = IF f = Missing \/ f.synced THEN f ELSE [f EXCEPT !.bytes = Garbage]
        BY <1>33 DEF PowerLoss
    <2>4. f # Missing => db' # Missing /\ db'.gen = f.gen
        BY <2>3, FileWithBytes, NameAssumption DEF File
    <2>5. ASSUME NEW w \in Writer PROVE Lasting(w)'
        <3>1. SUFFICES ASSUME Landed(w)' PROVE Lasting(w)'
            OBVIOUS
        <3>2. pc[w] = "done" /\ result[w] = "durable" /\ staged'[w] = staged[w]
            BY <2>1, <2>2, <3>1
        <3>3. f # Missing /\ f.gen >= staged[w].gen /\ staged[w] # Nothing
            BY <2>3, <3>2
        <3>4. \A u \in Writer : pc'[u] \notin Staging
            BY <2>1
        <3>5. QED
            BY <2>2, <2>4, <3>2, <3>3, <3>4
    <2>6. QED
        BY <2>5
<1>34. CASE UNCHANGED vars
    BY <1>34 DEF vars, procVars, envVars, diskVars
<1>35. QED
    BY <1>1, <1>2, <1>3, <1>4, <1>5, <1>6, <1>7, <1>8, <1>9, <1>10, <1>11,
       <1>12, <1>13, <1>14, <1>15, <1>16, <1>17, <1>18, <1>19, <1>20, <1>21,
       <1>22, <1>23, <1>24, <1>25, <1>26, <1>27, <1>28, <1>29, <1>30, <1>31,
       <1>32, <1>33, <1>34 DEF Next, Disturb, Step

(* What was reported durable stays: no power loss, whenever it happens, brings
   back the database that a durable transaction replaced, and no transaction
   that staged its file earlier can still install it (the directory fsync of
   commit_tracking_database, under the lock). *)
THEOREM DurabilityHolds == Spec => []DurableSurvives
<1>1. Init => TypeInv /\ LockInv /\ GenInv /\ ReportInv /\ DurableInv
    BY TypeInit, LockInit, GenInit, ReportInit, DurableInit
<1>2. TypeInv /\ LockInv /\ GenInv /\ ReportInv /\ DurableInv /\ [Next]_vars
          => (TypeInv /\ LockInv /\ GenInv /\ ReportInv /\ DurableInv)'
    BY TypeStep, LockStep, GenStep, ReportStep, DurableStep
<1>3. DurableInv => DurableSurvives
    BY DEF DurableInv, Lasting, Landed, Entered, DurableSurvives
<1>4. QED
    BY <1>1, <1>2, <1>3, PTL DEF Spec

=============================================================================

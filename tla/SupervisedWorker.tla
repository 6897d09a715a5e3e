-------------------------- MODULE SupervisedWorker --------------------------
(***************************************************************************)
(* One call of run_authenticated_worker (artifact_supervisor.py): a child  *)
(* process reads one artifact and answers over a pipe, under a deadline.   *)
(*                                                                         *)
(* Four parties interleave: the caller's thread, the threads that write    *)
(* the request and drain the two outputs, the thread that cleans up, and   *)
(* the processes, which are the child and one process it may start.  The   *)
(* child reads, answers, starts its own child, hangs and exits as it       *)
(* likes; nothing below assumes that it ever does anything.                *)
(*                                                                         *)
(* Standard error is drained like standard output and only hashed; it is   *)
(* left out.  Frames and JSON are reduced to whether the answer is whole   *)
(* and what _verify_response makes of it.                                  *)
(***************************************************************************)
EXTENDS Naturals

CONSTANTS
  Wall,        \* wall_seconds, in ticks
  Cleanup,     \* cleanup_seconds, in ticks
  Replies,     \* the whole answers a child may give
  Platforms,   \* of {"linux", "darwin", "windows"}
  None

\* Why a call may fail.
Reasons ==
  {"worker_start_failed", "worker_containment_unavailable", "worker_exit_before_barrier",
   "worker_monitor_unavailable", "worker_timeout", "worker_output_limit_exceeded",
   "worker_request_write_failed", "worker_memory_limit_exceeded", "root_disappeared",
   "worker_output_read_failed", "worker_exit", "worker_process_tree_leak",
   "worker_cleanup_failed", "worker_reason", "worker_generation_changed",
   "invalid_worker_response"}

Assumptions ==
  /\ None \notin Reasons \union {"ok"}
  /\ Wall \in Nat \ {0} /\ Cleanup \in Nat \ {0}
  /\ Replies \subseteq {"good", "refusal", "changed", "garbled"}
  /\ Platforms \subseteq {"linux", "darwin", "windows"}

VARIABLES
  call,    \* the supervisor: its thread, its cleanup thread, what it knows
  procs,   \* the operating system's processes
  pipes    \* the request and the answer on their way, and who moves them

worker_vars == <<call, procs, pipes>>

(***************************************************************************)
(* A child that exits vanishes from the process table's metadata, on       *)
(* Darwin before waitpid can reap it, is a zombie until somebody polls it, *)
(* and is then reaped, which makes its exit code known.                    *)
(***************************************************************************)
Alive == {"running"}
Unreaped == {"running", "vanished", "zombie"}

Answers == {"none", "part"} \union Replies

\* What a reader of process metadata finds.
ChildVisible == procs.child = "running"

\* Popen.poll(): reaps a zombie; a vanished child still counts as running.
Polled == IF procs.child = "zombie" THEN "reaped" ELSE procs.child

\* Someone still holds the write end of the answer's pipe.
PipeHeld == procs.child \in Alive \/ procs.heir \in {"grouped", "detached"}

ThreadsRun(p) == p.writer = "running" \/ p.drainer = "running"

HeirSeenAlive(q) == q.seen /\ q.heir \in {"grouped", "detached"}

(***************************************************************************)
(* The caller's thread.                                                    *)
(***************************************************************************)
Later(pc) == [call EXCEPT !.pc = pc]

\* The body ends, with a reason or without one: cleanup starts in a thread of
\* its own and gets a deadline of its own.
Unwind(reason) ==
  [call EXCEPT !.pc = "unwind", !.primary = reason, !.cleaner = "terminate",
               !.cleanBy = call.clock + Cleanup]

Spawn ==
  /\ call.pc = "spawn"
  /\ \/ /\ procs' = [procs EXCEPT !.child = "running"]
        /\ call' = Later("contain")
     \/ call' = Unwind("worker_start_failed") /\ UNCHANGED procs
  /\ UNCHANGED pipes

\* A Windows job or nothing; then the monitor has to find the child.
Contain ==
  /\ call.pc = "contain"
  /\ \/ call' = Later("attach")
     \/ procs.platform = "windows" /\ call' = Unwind("worker_containment_unavailable")
  /\ UNCHANGED <<procs, pipes>>

Attach ==
  /\ call.pc = "attach"
  /\ \/ /\ ChildVisible
        /\ call' = Later("launch")
        /\ procs' = [procs EXCEPT !.seen = @ \/ procs.heir # "none"]
     \/ /\ procs' = [procs EXCEPT !.child = Polled]
        /\ call' = Unwind(IF Polled = "reaped" THEN "worker_exit_before_barrier"
                          ELSE "worker_monitor_unavailable")
  /\ UNCHANGED pipes

\* Only a contained and monitored child is told what to read.
Launch ==
  /\ call.pc = "launch"
  /\ IF call.clock >= Wall
     THEN call' = Unwind("worker_timeout") /\ UNCHANGED pipes
     ELSE /\ call' = [Later("poll") EXCEPT !.started = TRUE]
          /\ pipes' = [pipes EXCEPT !.writer = "running", !.drainer = "running"]
  /\ UNCHANGED procs

Poll ==
  /\ call.pc = "poll"
  /\ procs' = [procs EXCEPT !.child = Polled]
  /\ call' = CASE Polled = "reaped" -> Later("join")
               [] Polled # "reaped" /\ pipes.flooded -> Unwind("worker_output_limit_exceeded")
               [] Polled # "reaped" /\ ~pipes.flooded /\ pipes.writer = "failed" ->
                    Unwind("worker_request_write_failed")
               [] Polled # "reaped" /\ ~pipes.flooded /\ pipes.writer # "failed" ->
                    IF call.clock >= Wall THEN Unwind("worker_timeout") ELSE Later("sample")
  /\ UNCHANGED pipes

\* The monitor sees the tree, finds it over a limit, or does not find the child;
\* only Popen can tell whether that one has exited.
Sample ==
  /\ call.pc = "sample"
  /\ \/ /\ ChildVisible
        /\ procs' = [procs EXCEPT !.seen = @ \/ procs.heir \in {"grouped", "detached"}]
        /\ call' \in {Later("sleep"), Unwind("worker_memory_limit_exceeded"),
                      Unwind("worker_monitor_unavailable")}
     \/ /\ ~ChildVisible
        /\ procs' = [procs EXCEPT !.child = Polled]
        /\ call' = IF Polled = "reaped" THEN Later("join") ELSE Later("settle")
  /\ UNCHANGED pipes

\* A short wait for the exit of a child whose metadata is gone.
Settle ==
  /\ call.pc = "settle"
  /\ procs' = [procs EXCEPT !.child = Polled]
  /\ call' = IF Polled = "reaped" THEN Later("join") ELSE Unwind("root_disappeared")
  /\ UNCHANGED pipes

Sleep ==
  /\ call.pc = "sleep"
  /\ call' = Later("poll")
  /\ UNCHANGED <<procs, pipes>>

\* Joins the threads for a while at most, then judges what they did.
Join ==
  /\ call.pc = "join"
  /\ call' =
       CASE pipes.writer = "failed" -> Unwind("worker_request_write_failed")
         [] pipes.writer # "failed" /\ pipes.drainer = "failed" -> Unwind("worker_output_read_failed")
         [] pipes.writer # "failed" /\ pipes.drainer # "failed" ->
              IF pipes.flooded THEN Unwind("worker_output_limit_exceeded")
              ELSE IF procs.code # 0 THEN Unwind("worker_exit")
              ELSE IF HeirSeenAlive(procs) THEN Unwind("worker_process_tree_leak")
              ELSE Unwind(None)
  /\ UNCHANGED <<procs, pipes>>

(***************************************************************************)
(* The cleanup thread.  A step may fail, which is remembered and does not  *)
(* stop the next; past the deadline the whole of it fails.                 *)
(***************************************************************************)
Onward(step) == [call EXCEPT !.cleaner = step]
Failing(step) == [call EXCEPT !.cleaner = step, !.failed = TRUE]

Expired == call.clock >= call.cleanBy

GiveUp ==
  /\ call.cleaner \notin {"none", "done"} /\ Expired
  /\ call' = Failing("done")
  /\ UNCHANGED <<procs, pipes>>

InJob == procs.platform = "windows" /\ call.primary # "worker_containment_unavailable"

ChildKilled ==
  [procs EXCEPT !.child = IF @ = "running" THEN "zombie" ELSE @,
                !.code  = IF procs.child = "running" THEN 1 ELSE @]

\* SIGKILL to the child's group, or the end of its job.
Killed ==
  [ChildKilled EXCEPT
     !.heir = IF InJob \/ (@ = "grouped" /\ procs.platform # "windows") THEN "dead" ELSE @]

\* Nothing is sent to a reaped child, whose number may be somebody else's.  A
\* refused group kill is followed by one of the child alone.  On Darwin a group
\* without a live member refuses, which a bounded wait tells from a refusal
\* over a live child.
Terminate ==
  /\ call.cleaner = "terminate" /\ ~Expired
  /\ LET polled == [procs EXCEPT !.child = Polled] IN
       \/ /\ procs.child = "none" \/ (Polled = "reaped" /\ ~InJob)
          /\ procs' = polled
          /\ call' = Onward("wait")
       \/ /\ procs.child = "running" \/ (InJob /\ procs.child # "none")
          /\ procs' = Killed
          /\ call' = [Onward("wait") EXCEPT !.killed = TRUE]
       \/ /\ procs.child = "vanished"
          /\ UNCHANGED procs
          /\ call' \in {Onward("wait"), [Onward("wait") EXCEPT !.killed = TRUE], Failing("wait")}
       \/ /\ procs.child = "running"
          /\ \/ UNCHANGED procs /\ call' = Failing("wait")
             \/ procs' = ChildKilled /\ call' = [Failing("wait") EXCEPT !.killed = TRUE]
  /\ UNCHANGED pipes

Wait ==
  /\ call.cleaner = "wait" /\ ~Expired
  /\ procs.child # "running" /\ procs.child # "vanished"
  /\ procs' = [procs EXCEPT !.child = Polled]
  /\ call' = Onward("kill_seen")
  /\ UNCHANGED pipes

KillSeen ==
  /\ call.cleaner = "kill_seen" /\ ~Expired
  /\ IF HeirSeenAlive(procs)
     THEN \/ /\ procs' = [procs EXCEPT !.heir = "dead"]
             /\ call' = [Onward("close") EXCEPT !.killed = TRUE]
          \/ call' = Failing("close") /\ UNCHANGED procs
     ELSE call' = Onward("close") /\ UNCHANGED procs
  /\ UNCHANGED pipes

\* Closing a stream under a thread that uses it makes its next call fail.
Close ==
  /\ call.cleaner = "close" /\ ~Expired
  /\ pipes' = [pipes EXCEPT !.closed = TRUE]
  /\ call' = Onward("join")
  /\ UNCHANGED procs

JoinThreads ==
  /\ call.cleaner = "join" /\ ~Expired
  /\ ~ThreadsRun(pipes)
  /\ call' = Onward("check")
  /\ UNCHANGED <<procs, pipes>>

\* mutant: what the signals achieved is taken for granted.
Check_Trusting ==
  /\ call.cleaner = "check" /\ ~Expired
  /\ call' = [Onward("done") EXCEPT !.failed = FALSE]
  /\ UNCHANGED <<procs, pipes>>

\* Nothing of the call may be left, whatever the signals reported.
Check ==
  /\ call.cleaner = "check" /\ ~Expired
  /\ procs' = [procs EXCEPT !.child = Polled]
  /\ call' = IF Polled \in Unreaped \/ HeirSeenAlive(procs) THEN Failing("done") ELSE Onward("done")
  /\ UNCHANGED pipes

CleanupThread ==
  GiveUp \/ Terminate \/ Wait \/ KillSeen \/ Close \/ JoinThreads \/ Check

(***************************************************************************)
(* The end of the call.                                                    *)
(***************************************************************************)
\* Darwin hides the child before it can be reaped.  A clean exit that cleanup
\* found without having killed anything, in time, is no failure.
Reconciled ==
  /\ procs.platform = "darwin" /\ call.started
  /\ call.primary = "root_disappeared"
  /\ procs.child = "reaped" /\ procs.code = 0
  /\ ~call.killed /\ call.clock < Wall

\* mutant: pipe failures that appear after the body are not looked at again.
LatePipeError_Never == None

LatePipeError ==
  CASE pipes.writer = "failed" -> "worker_request_write_failed"
    [] pipes.writer # "failed" /\ pipes.drainer = "failed" -> "worker_output_read_failed"
    [] pipes.writer # "failed" /\ pipes.drainer # "failed" ->
         IF pipes.flooded THEN "worker_output_limit_exceeded" ELSE None

\* _verify_response: framing, authentication, the artifact's generation, body.
Verified ==
  CASE pipes.got = "good" -> "ok"
    [] pipes.got = "refusal" -> "worker_reason"
    [] pipes.got = "changed" -> "worker_generation_changed"
    [] OTHER -> "invalid_worker_response"

Outcome ==
  LET primary == IF Reconciled THEN None ELSE call.primary IN
  CASE call.failed -> "worker_cleanup_failed"
    [] ~call.failed /\ primary # None -> primary
    [] ~call.failed /\ primary = None ->
         IF LatePipeError # None THEN LatePipeError ELSE Verified

\* mutant: the caller waits for its cleanup thread however long it takes.
Return_Patient ==
  /\ call.pc = "unwind"
  /\ call.cleaner = "done"
  /\ call' = [Later("returned") EXCEPT !.outcome = Outcome]
  /\ UNCHANGED <<procs, pipes>>

\* The caller waits for its cleanup thread until the deadline.  One that is late
\* makes the call fail, and so does one that could not be started, for which
\* the caller makes a single pass of signals itself.
Return ==
  /\ call.pc = "unwind"
  /\ \/ /\ call.cleaner = "done"
        /\ call' = [Later("returned") EXCEPT !.outcome = Outcome]
        /\ UNCHANGED <<procs, pipes>>
     \/ /\ call.cleaner # "done" /\ Expired
        /\ call' = [Later("returned") EXCEPT !.outcome = "worker_cleanup_failed"]
        /\ UNCHANGED <<procs, pipes>>
     \/ /\ call.cleaner = "terminate"
        /\ call' = [Later("returned") EXCEPT !.cleaner = "done", !.failed = TRUE,
                                            !.outcome = "worker_cleanup_failed"]
        /\ procs' \in {procs, ChildKilled, Killed}
        /\ pipes' = [pipes EXCEPT !.closed = TRUE]

CallerThread ==
  \/ Spawn \/ Contain \/ Attach \/ Launch \/ Poll
  \/ Sample \/ Settle \/ Sleep \/ Join \/ Return

(***************************************************************************)
(* The pipe threads.                                                       *)
(***************************************************************************)
\* The request fits the pipe's buffer: it is written unless nobody is there, or
\* the stream was closed under the writer.
WriterThread ==
  /\ pipes.writer = "running"
  /\ \/ procs.child \in Alive /\ ~pipes.closed /\ pipes' = [pipes EXCEPT !.writer = "done"]
     \/ (procs.child \notin Alive \/ pipes.closed) /\ pipes' = [pipes EXCEPT !.writer = "failed"]
  /\ UNCHANGED <<call, procs>>

\* Takes what is in the pipe, ends when nobody holds its other end, and fails
\* when it calls a stream that was closed.
DrainerThread ==
  /\ pipes.drainer = "running"
  /\ \/ /\ pipes.got # pipes.sent
        /\ pipes' = [pipes EXCEPT !.got = pipes.sent, !.flooded = @ \/ pipes.flood]
     \/ /\ pipes.got = pipes.sent /\ ~PipeHeld
        /\ pipes' = [pipes EXCEPT !.drainer = "ended"]
     \/ /\ pipes.closed /\ (pipes.got # pipes.sent \/ ~PipeHeld)
        /\ pipes' = [pipes EXCEPT !.drainer = "failed"]
  /\ UNCHANGED <<call, procs>>

(***************************************************************************)
(* The processes, and time.                                                *)
(***************************************************************************)
ChildAnswers ==
  /\ procs.child = "running" /\ pipes.writer = "done"
  /\ \/ /\ pipes.sent = "none"
        /\ pipes' = [pipes EXCEPT !.sent = "part"]
     \/ /\ pipes.sent = "part"
        /\ \E answer \in Replies, flood \in BOOLEAN :
             pipes' = [pipes EXCEPT !.sent = answer, !.flood = flood]
  /\ UNCHANGED <<call, procs>>

ChildForks ==
  /\ procs.child = "running" /\ procs.heir = "none"
  /\ \E heir \in {"grouped", "detached"} : procs' = [procs EXCEPT !.heir = heir]
  /\ UNCHANGED <<call, pipes>>

ChildExits ==
  /\ \/ /\ procs.child = "running"
        /\ \E code \in {0, 1} : procs' = [procs EXCEPT !.code = code,
             !.child = IF procs.platform = "darwin" THEN "vanished" ELSE "zombie"]
     \/ /\ procs.child = "vanished"
        /\ procs' = [procs EXCEPT !.child = "zombie"]
  /\ UNCHANGED <<call, pipes>>

HeirExits ==
  /\ procs.heir \in {"grouped", "detached"}
  /\ procs' = [procs EXCEPT !.heir = "dead"]
  /\ UNCHANGED <<call, pipes>>

\* Time passes, as far as the deadline that is looked at next.
Tick ==
  /\ call.clock < IF call.pc = "unwind" THEN call.cleanBy ELSE Wall
  /\ call' = [call EXCEPT !.clock = @ + 1]
  /\ UNCHANGED <<procs, pipes>>

Init ==
  /\ call = [pc |-> "spawn", primary |-> None, outcome |-> None, started |-> FALSE,
             clock |-> 0, cleaner |-> "none", cleanBy |-> 0, failed |-> FALSE, killed |-> FALSE]
  /\ procs \in [platform : Platforms, child : {"none"}, code : {0}, heir : {"none"}, seen : {FALSE}]
  /\ pipes = [writer |-> "idle", drainer |-> "idle", sent |-> "none", got |-> "none",
              flood |-> FALSE, flooded |-> FALSE, closed |-> FALSE]

\* What goes on once the call has returned is nobody's business any more.
Next ==
  /\ call.pc # "returned"
  /\ \/ CallerThread \/ CleanupThread \/ WriterThread \/ DrainerThread
     \/ ChildAnswers \/ ChildForks \/ ChildExits \/ HeirExits \/ Tick

Spec == Init /\ [][Next]_worker_vars

\* The caller's thread runs and time passes.  Nothing is asked of the child, of
\* the pipes, or of the cleanup thread, which may hang in a system call.
Fairness == WF_worker_vars(CallerThread) /\ WF_worker_vars(Tick)
FairSpec == Spec /\ Fairness

(***************************************************************************)
(* Properties.                                                             *)
(***************************************************************************)
TypeOK ==
  /\ call.pc \in {"spawn", "contain", "attach", "launch", "poll", "sample", "settle",
                  "sleep", "join", "unwind", "returned"}
  /\ call.cleaner \in {"none", "terminate", "wait", "kill_seen", "close", "join", "check", "done"}
  /\ call.clock \in 0 .. Wall + Cleanup /\ call.cleanBy \in 0 .. Wall + 2 * Cleanup
  /\ {call.started, call.failed, call.killed} \subseteq BOOLEAN
  /\ procs \in [platform : Platforms, child : {"none", "running", "vanished", "zombie", "reaped"},
                code : {0, 1}, heir : {"none", "grouped", "detached", "dead"}, seen : BOOLEAN]
  /\ pipes \in [writer : {"idle", "running", "done", "failed"},
                drainer : {"idle", "running", "ended", "failed"}, sent : Answers, got : Answers,
                flood : BOOLEAN, flooded : BOOLEAN, closed : BOOLEAN]

\* A result is handed over only when the worker exited by itself, cleanly, and
\* all it wrote was read; and whatever the call reports, other than that its
\* cleanup failed, no process it saw and no thread it started is left.
OutcomeTruthful ==
  /\ call.outcome = "ok" =>
       /\ procs.child = "reaped" /\ procs.code = 0
       /\ pipes.got = pipes.sent /\ ~pipes.flooded
  /\ call.outcome \notin {None, "worker_cleanup_failed"} =>
       /\ procs.child \notin Unreaped
       /\ ~HeirSeenAlive(procs)
       /\ ~ThreadsRun(pipes)

\* The call returns, whatever the worker, the pipes and the cleanup thread do.
CallReturns == <>(call.pc = "returned")

=============================================================================

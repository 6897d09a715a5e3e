--------------------------- MODULE VideoDownload ---------------------------
(***************************************************************************)
(* One video's file, as batch-download-videos.py fetches it.               *)
(*                                                                         *)
(* An invocation takes each id once, but two invocations may both take     *)
(* this one: they share the name under which yt-dlp works and the name of  *)
(* the finished video.  A file keeps its identity when it is renamed, and  *)
(* whoever writes it goes on writing it under its new name.                *)
(*                                                                         *)
(* A killed invocation takes its yt-dlp with it.                           *)
(***************************************************************************)
EXTENDS Naturals, Sequences

CONSTANTS
  Invocations,  \* of batch-download-videos.py, each one call after the other
  MaxCalls,     \* bound: calls of one invocation's operator
  None

Outcomes == {"ok", "skip", "fail", "killed"}

Assumptions == MaxCalls \in Nat /\ None \notin Outcomes

VARIABLES
  names,      \* what the two names mean, and the files made so far
  downloads   \* what each invocation is at, and what it has verified

video_vars == <<names, downloads>>

NoFile == 0
Content(file) == IF file = NoFile THEN "nothing" ELSE names.content[file]

At(i, pc) == downloads[i].pc = pc
Goto(i, pc) == [downloads[i] EXCEPT !.pc = pc]
Upd(i, call) == downloads' = [downloads EXCEPT ![i] = call]

Idle == [pc |-> "idle", calls |-> 0, file |-> NoFile, receipt |-> NoFile, exit |-> None,
         promoted |-> FALSE, outcome |-> None]
\* What a call renamed into place and did not report as downloaded is remembered.
End(i, outcome) ==
  Upd(i, [Idle EXCEPT !.pc = "ended", !.calls = downloads[i].calls, !.outcome = outcome,
                      !.promoted = downloads[i].promoted /\ outcome # "ok"])

----------------------------------------------------------------------------

\* What is there already is decoded in full before it is skipped; what is there
\* and damaged is left to the owner.
Look(i) ==
  /\ At(i, "idle") \/ At(i, "ended")
  /\ downloads[i].calls < MaxCalls
  /\ LET call == [Idle EXCEPT !.calls = downloads[i].calls + 1,
                              !.promoted = downloads[i].promoted]
         found == Content(names.target)
     IN \/ found \in {"nothing", "empty"} /\ Upd(i, [call EXCEPT !.pc = "clear"])
        \/ found = "whole" /\ Upd(i, [call EXCEPT !.pc = "ended", !.outcome = "skip"])
        \/ found = "part" /\ Upd(i, [call EXCEPT !.pc = "ended", !.outcome = "fail"])
  /\ UNCHANGED names

\* yt-dlp would take a file that is there for its own finished download.
ClearStaging(i) ==
  /\ At(i, "clear")
  /\ \/ names' = [names EXCEPT !.staging = NoFile] /\ Upd(i, Goto(i, "start"))
     \/ names.staging # NoFile /\ End(i, "fail") /\ UNCHANGED names

\* yt-dlp cannot be run, or opens its file; one that finds a file under the name
\* says that it is downloaded.
YtDlpStarts(i) ==
  /\ At(i, "start")
  /\ \/ End(i, "fail") /\ UNCHANGED names
     \/ /\ Content(names.staging) \in {"nothing", "empty"}
        /\ LET file == Len(names.content) + 1 IN
             /\ names' = [names EXCEPT !.staging = file, !.content = Append(@, "empty")]
             /\ Upd(i, [Goto(i, "fetch") EXCEPT !.file = file])
     \/ /\ Content(names.staging) \in {"part", "whole"}
        /\ Upd(i, [Goto(i, "written") EXCEPT !.exit = 0])
        /\ UNCHANGED names

\* It fills its file, wherever that is by now, and ends well or badly, truthfully
\* or not.
YtDlpWrites(i) ==
  /\ At(i, "fetch")
  /\ LET file == downloads[i].file IN
       \/ /\ names.content[file] = "empty"
          /\ names' = [names EXCEPT !.content[file] = "part"]
          /\ UNCHANGED downloads
       \/ /\ names.content[file] = "part"
          /\ names' = [names EXCEPT !.content[file] = "whole"]
          /\ UNCHANGED downloads

YtDlpEnds(i) ==
  /\ At(i, "fetch")
  /\ \E code \in {0, 1} : Upd(i, [Goto(i, "written") EXCEPT !.file = NoFile, !.exit = code])
  /\ UNCHANGED names

\* A clean exit and a file are not enough: the file is decoded in full.  What
\* else is there is discarded, if that can be done.
Verify(i) ==
  /\ At(i, "written")
  /\ LET found == Content(names.staging) IN
       \/ /\ downloads[i].exit = 0 /\ found = "whole"
          /\ Upd(i, [Goto(i, "promote") EXCEPT !.receipt = names.staging])
          /\ UNCHANGED names
       \/ /\ downloads[i].exit = 0 /\ found # "whole"
          /\ End(i, "fail") /\ UNCHANGED names
       \/ /\ downloads[i].exit = 1
          /\ End(i, "fail")
          /\ \/ names' = [names EXCEPT !.staging = IF found = "empty" THEN @ ELSE NoFile]
             \/ UNCHANGED names

Promote(i) ==
  /\ At(i, "promote")
  /\ \/ /\ names.staging # NoFile
        /\ names' = [names EXCEPT !.target = names.staging, !.staging = NoFile]
        /\ Upd(i, [Goto(i, "bind") EXCEPT !.promoted = TRUE])
     \/ End(i, "fail") /\ UNCHANGED names

\* mutant: a promoted file is the one that was verified.
Bind_Trusting(i) == At(i, "bind") /\ End(i, "ok") /\ UNCHANGED names

\* What stands under the name has to be the file that was verified, byte for byte.
Bind(i) ==
  /\ At(i, "bind")
  /\ \/ names.target = downloads[i].receipt /\ End(i, "ok")
     \/ End(i, "fail")
  /\ UNCHANGED names

Killed(i) ==
  /\ ~At(i, "idle") /\ ~At(i, "ended")
  /\ End(i, "killed") /\ UNCHANGED names

DownloadOne(i) ==
  \/ Look(i) \/ ClearStaging(i) \/ YtDlpStarts(i) \/ YtDlpWrites(i) \/ YtDlpEnds(i)
  \/ Verify(i) \/ Promote(i) \/ Bind(i) \/ Killed(i)

\* Nothing is there at first, or what an interrupted download of an earlier
\* release left under either name.
Init ==
  /\ names \in
       {[content |-> <<>>, staging |-> NoFile, target |-> NoFile],
        [content |-> <<"part">>, staging |-> 1, target |-> NoFile],
        [content |-> <<"part">>, staging |-> NoFile, target |-> 1]}
  /\ downloads = [i \in Invocations |-> Idle]

Next == \E i \in Invocations : DownloadOne(i)

Spec == Init /\ [][Next]_video_vars

----------------------------------------------------------------------------

TypeOK ==
  /\ names.content \in Seq({"empty", "part", "whole"})
  /\ names.staging \in 0 .. Len(names.content) /\ names.target \in 0 .. Len(names.content)
  /\ \A i \in Invocations :
       /\ downloads[i].file \in 0 .. Len(names.content)
       /\ downloads[i].outcome \in Outcomes \union {None}

\* A video that was reported as downloaded or present is whole, and stays so unless
\* another invocation renamed over it, between its verdict and the rename, what a
\* third had begun to download under the shared name: then that call is not done, has
\* reported a failure, or was killed.  No damage goes with good reports only.
VideoKept ==
  \A i \in Invocations : downloads[i].outcome \in {"ok", "skip"} =>
    \/ Content(names.target) = "whole"
    \/ \E j \in Invocations \ {i} : downloads[j].promoted

=============================================================================

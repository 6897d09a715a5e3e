----------------------------- MODULE MediaProofs -----------------------------
(***************************************************************************)
(* A video that was reported, and audio that was installed and reported,   *)
(* stay, for any number of invocations, calls, rewrites of the recording   *)
(* and power losses, but for the two kinds of damage that MediaKept names: *)
(* VideoDownload and AudioExtraction as MCVaultTools puts them side by     *)
(* side.                                                                   *)
(***************************************************************************)
EXTENDS MCVaultTools, TLAPS

LEMMA ToolsAssumed == Video!Assumptions /\ Audio!Assumptions
BY ToolAssumptions

-----------------------------------------------------------------------------
(* batch-download-videos.py                                                *)

States == {"empty", "part", "whole"}
Whole(file) == file # 0 /\ names.content[file] = "whole"

Calls ==
  [pc : {"idle", "ended", "clear", "start", "fetch", "written", "promote", "bind"},
   calls : Nat, file : Nat, receipt : Nat, exit : {None, 0, 1}, promoted : BOOLEAN,
   outcome : Video!Outcomes \union {None}]

VideoTyped ==
  /\ names \in [content : Seq(States), staging : Nat, target : Nat]
  /\ names.staging \in 0 .. Len(names.content) /\ names.target \in 0 .. Len(names.content)
  /\ downloads \in [Invocations -> Calls]

(* An invocation that knows nothing yet of the video has no outcome, yt-dlp works on
   a file it made, and what was verified is whole and stays so. *)
Fetching(i) ==
  /\ downloads[i].file \in 0 .. Len(names.content)
  /\ downloads[i].receipt \in 0 .. Len(names.content)
  /\ downloads[i].pc = "fetch" => downloads[i].file # 0
  /\ downloads[i].pc \in {"promote", "bind"} => Whole(downloads[i].receipt)
  /\ downloads[i].pc = "bind" => downloads[i].promoted

Reported(i) == downloads[i].pc = "ended" /\ downloads[i].outcome \in {"ok", "skip"}

VideoInv ==
  /\ VideoTyped
  /\ \A i \in Invocations :
       /\ Fetching(i)
       /\ downloads[i].outcome \in {"ok", "skip"} => downloads[i].pc = "ended"
       /\ Reported(i) =>
            \/ Whole(names.target)
            \/ \E j \in Invocations \ {i} : downloads[j].promoted

LEMMA VideoStart == Video!Init => VideoInv
<1>1. SUFFICES ASSUME Video!Init PROVE VideoInv
    OBVIOUS
<1>2. /\ names \in [content : Seq(States), staging : Nat, target : Nat]
      /\ names.staging \in 0 .. Len(names.content)
      /\ names.target \in 0 .. Len(names.content)
    <2>1. <<>> \in Seq(States) /\ Len(<<>>) = 0
        OBVIOUS
    <2>2. <<"part">> \in Seq(States) /\ Len(<<"part">>) = 1
        BY DEF States
    <2>3. CASE names = [content |-> <<>>, staging |-> 0, target |-> 0]
        BY <2>1, <2>3
    <2>4. CASE names = [content |-> <<"part">>, staging |-> 1, target |-> 0]
        BY <2>2, <2>4
    <2>5. CASE names = [content |-> <<"part">>, staging |-> 0, target |-> 1]
        BY <2>2, <2>5
    <2>6. QED
        BY <1>1, <2>3, <2>4, <2>5 DEF Video!Init, Video!NoFile
<1>3. VideoTyped
    BY <1>1, <1>2 DEF Video!Init, Video!Idle, Video!NoFile, VideoTyped, Calls
<1>4. ASSUME NEW i \in Invocations
      PROVE  /\ downloads[i].pc = "idle" /\ downloads[i].outcome = None
             /\ downloads[i].file = 0 /\ downloads[i].receipt = 0
    BY <1>1 DEF Video!Init, Video!Idle, Video!NoFile
<1>5. None \notin {"ok", "skip"}
    BY ToolsAssumed DEF Video!Assumptions, Video!Outcomes
<1>6. QED
    BY <1>2, <1>3, <1>4, <1>5 DEF VideoInv, Fetching, Reported

(* What one call of download_one may do to the others: files grow and stay whole,
   and who renames something over the video is known by it. *)
LEMMA VideoCall ==
  ASSUME VideoInv, NEW i \in Invocations, VideoTyped',
         \A j \in Invocations \ {i} : downloads'[j] = downloads[j],
         Len(names.content) <= Len(names'.content),
         \A f \in 1 .. Len(names.content) :
           names.content[f] = "whole" => names'.content[f] = "whole",
         Fetching(i)',
         downloads'[i].outcome \in {"ok", "skip"} =>
           downloads'[i].pc = "ended" /\ Whole(names.target)',
         \/ Whole(names.target)'
         \/ downloads'[i].promoted
         \/ names'.target = names.target /\ ~downloads[i].promoted
  PROVE  VideoInv'
<1>1. /\ names.target \in 0 .. Len(names.content)
      /\ Len(names.content) \in Nat /\ Len(names'.content) \in Nat
    BY DEF VideoInv, VideoTyped
<1>2. ASSUME NEW f \in 0 .. Len(names.content), Whole(f) PROVE Whole(f)'
    BY <1>1, <1>2 DEF Whole
<1>3. ASSUME NEW k \in Invocations, k # i
      PROVE  /\ Fetching(k)'
             /\ downloads'[k].outcome \in {"ok", "skip"} => downloads'[k].pc = "ended"
             /\ Reported(k)' => \/ Whole(names.target)'
                                \/ \E j \in Invocations \ {k} : downloads'[j].promoted
    <2>1. downloads'[k] = downloads[k] /\ Fetching(k)
        BY <1>3 DEF VideoInv
    <2>2. PICK f \in 0 .. Len(names.content) : f = downloads[k].receipt
        BY <2>1 DEF Fetching
    <2>3. Fetching(k)'
        BY <1>1, <1>2, <2>1, <2>2 DEF Fetching
    <2>4. ASSUME Reported(k)'
          PROVE  \/ Whole(names.target)'
                 \/ \E j \in Invocations \ {k} : downloads'[j].promoted
        <3>1. \/ Whole(names.target)
              \/ \E j \in Invocations \ {k} : downloads[j].promoted
            BY <2>1, <2>4 DEF VideoInv, Reported
        <3>2. CASE downloads'[i].promoted
            BY <1>3, <3>2
        <3>3. CASE names'.target = names.target /\ ~downloads[i].promoted
            <4>1. PICK t \in 0 .. Len(names.content) :
                    t = names.target /\ t = names'.target
                BY <1>1, <3>3
            <4>2. Whole(names.target) => Whole(names.target)'
                BY <1>2, <4>1
            <4>3. QED
                BY <3>1, <3>3, <4>2
        <3>4. QED
            BY <3>2, <3>3
    <2>5. QED
        BY <2>1, <2>3, <2>4 DEF VideoInv
<1>4. QED
    BY <1>3 DEF VideoInv, Reported

(* A call that leaves the files alone and the video where it is. *)
LEMMA VideoQuiet ==
  ASSUME VideoInv, NEW i \in Invocations, NEW r \in Calls, Video!Upd(i, r),
         names' \in {names, [names EXCEPT !.staging = 0]},
         r.file \in 0 .. Len(names.content), r.receipt \in 0 .. Len(names.content),
         r.pc = "fetch" => r.file # 0,
         r.pc \in {"promote", "bind"} => Whole(r.receipt),
         r.pc = "bind" => r.promoted,
         r.outcome \in {"ok", "skip"} => r.pc = "ended" /\ Whole(names.target),
         downloads[i].promoted => r.promoted \/ Whole(names.target)
  PROVE  VideoInv'
<1>1. VideoTyped
    BY DEF VideoInv
<1>2. /\ names' \in [content : Seq(States), staging : Nat, target : Nat]
      /\ names'.content = names.content /\ names'.target = names.target
      /\ names'.staging \in 0 .. Len(names'.content)
      /\ Len(names.content) \in Nat
    BY <1>1 DEF VideoTyped
<1>3. /\ downloads' \in [Invocations -> Calls] /\ downloads'[i] = r
      /\ \A j \in Invocations \ {i} : downloads'[j] = downloads[j]
    BY <1>1 DEF VideoTyped, Video!Upd
<1>4. VideoTyped'
    BY <1>1, <1>2, <1>3 DEF VideoTyped
<1>5. Whole(names.target)' <=> Whole(names.target)
    BY <1>2 DEF Whole
<1>6. Fetching(i)'
    BY <1>2, <1>3 DEF Fetching, Whole
<1>7. /\ r.promoted \in BOOLEAN /\ downloads[i].promoted \in BOOLEAN
      /\ Whole(names.target) \/ r.promoted \/ ~downloads[i].promoted
    BY <1>1 DEF VideoTyped, Calls
<1>8. QED
    BY <1>2, <1>3, <1>4, <1>5, <1>6, <1>7, VideoCall

(* A call fails, or its process dies. *)
LEMMA VideoFails ==
  ASSUME VideoInv, NEW i \in Invocations, NEW o \in {"fail", "killed"}, Video!End(i, o),
         names' \in {names, [names EXCEPT !.staging = 0]}
  PROVE  VideoInv'
<1>1. downloads[i] \in Calls
    BY DEF VideoInv, VideoTyped
<1>2. PICK r : Video!Upd(i, r) /\
                r = [Video!Idle EXCEPT !.pc = "ended", !.calls = downloads[i].calls,
                       !.outcome = o, !.promoted = downloads[i].promoted /\ o # "ok"]
    BY DEF Video!End
<1>3. /\ r \in Calls /\ r.pc = "ended" /\ r.outcome = o /\ r.file = 0 /\ r.receipt = 0
      /\ r.promoted = downloads[i].promoted
    BY <1>1, <1>2 DEF Calls, Video!Idle, Video!NoFile, Video!Outcomes
<1>4. /\ 0 \in 0 .. Len(names.content)
      /\ r.file \in 0 .. Len(names.content) /\ r.receipt \in 0 .. Len(names.content)
    <2>1. Len(names.content) \in Nat
        BY DEF VideoInv, VideoTyped
    <2>2. QED
        BY <1>3, <2>1
<1>5. /\ r.pc # "fetch" /\ r.pc \notin {"promote", "bind"}
      /\ r.outcome \notin {"ok", "skip"}
    BY <1>3
<1>6. QED
    BY <1>2, <1>3, <1>4, <1>5, VideoQuiet

(* Each step of a call. *)
LEMMA VideoLook ==
  ASSUME VideoInv, NEW i \in Invocations, Video!Look(i) PROVE VideoInv'
<1>1. /\ downloads[i] \in Calls /\ names'.staging = names.staging /\ names' = names
      /\ names.target \in 0 .. Len(names.content) /\ Len(names.content) \in Nat
      /\ None \notin Video!Outcomes
    BY ToolsAssumed DEF VideoInv, VideoTyped, Video!Look, Video!Assumptions
<1> DEFINE c == [Video!Idle EXCEPT !.calls = downloads[i].calls + 1,
                                   !.promoted = downloads[i].promoted]
<1>2. /\ c \in Calls /\ c.file = 0 /\ c.receipt = 0 /\ c.outcome = None
      /\ c.promoted = downloads[i].promoted
    <2>1. downloads[i].calls \in Nat /\ downloads[i].promoted \in BOOLEAN
        BY <1>1 DEF Calls
    <2>2. PICK n \in Nat : n = downloads[i].calls + 1
        BY <2>1
    <2>3. PICK p \in BOOLEAN : p = downloads[i].promoted
        BY <2>1
    <2>4. c = [Video!Idle EXCEPT !.calls = n, !.promoted = p]
        BY <2>2, <2>3
    <2>5. QED
        BY <2>3, <2>4 DEF Calls, Video!Idle, Video!NoFile
<1>3. None \notin {"ok", "skip"}
    BY <1>1 DEF Video!Outcomes
<1>4. 0 \in 0 .. Len(names.content)
    BY <1>1
<1>5. CASE Video!Upd(i, [c EXCEPT !.pc = "clear"])
    <2>1. PICK r : r = [c EXCEPT !.pc = "clear"]
        OBVIOUS
    <2>2. /\ r \in Calls /\ r.pc = "clear" /\ r.file = 0 /\ r.receipt = 0
          /\ r.outcome = None /\ r.promoted = downloads[i].promoted
        BY <1>2, <2>1 DEF Calls
    <2>3. Video!Upd(i, r)
        BY <1>5, <2>1
    <2>4. QED
        BY <1>1, <1>3, <1>4, <2>2, <2>3, VideoQuiet
<1>6. CASE /\ Video!Content(names.target) = "whole"
           /\ Video!Upd(i, [c EXCEPT !.pc = "ended", !.outcome = "skip"])
    <2>1. PICK r : r = [c EXCEPT !.pc = "ended", !.outcome = "skip"]
        OBVIOUS
    <2>2. /\ r \in Calls /\ r.pc = "ended" /\ r.file = 0 /\ r.receipt = 0
          /\ r.outcome = "skip" /\ r.promoted = downloads[i].promoted
        BY <1>2, <2>1 DEF Calls, Video!Outcomes
    <2>3. Video!Upd(i, r)
        BY <1>6, <2>1
    <2>4. Whole(names.target)
        BY <1>6 DEF Video!Content, Video!NoFile, Whole
    <2>5. QED
        BY <1>1, <1>4, <2>2, <2>3, <2>4, VideoQuiet
<1>7. CASE Video!Upd(i, [c EXCEPT !.pc = "ended", !.outcome = "fail"])
    <2>1. PICK r : r = [c EXCEPT !.pc = "ended", !.outcome = "fail"]
        OBVIOUS
    <2>2. /\ r \in Calls /\ r.pc = "ended" /\ r.file = 0 /\ r.receipt = 0
          /\ r.outcome = "fail" /\ r.promoted = downloads[i].promoted
        BY <1>2, <2>1 DEF Calls, Video!Outcomes
    <2>3. Video!Upd(i, r)
        BY <1>7, <2>1
    <2>4. QED
        BY <1>1, <1>4, <2>2, <2>3, VideoQuiet
<1>8. QED
    BY <1>5, <1>6, <1>7 DEF Video!Look

LEMMA VideoMoves ==
  ASSUME VideoInv, NEW i \in Invocations, NEW pc \in {"start", "written"},
         NEW x \in {None, 0, 1}, NEW f \in {0, downloads[i].file},
         downloads[i].pc \notin {"idle", "ended"},
         Video!Upd(i, [downloads[i] EXCEPT !.pc = pc, !.file = f, !.exit = x]),
         names' \in {names, [names EXCEPT !.staging = 0]}
  PROVE  VideoInv'
<1>1. PICK r : r = [downloads[i] EXCEPT !.pc = pc, !.file = f, !.exit = x]
    OBVIOUS
<1>2. downloads[i] \in Calls /\ Fetching(i) /\ Len(names.content) \in Nat
    BY DEF VideoInv, VideoTyped
<1>3. /\ r \in Calls /\ r.pc = pc /\ r.file = f /\ r.receipt = downloads[i].receipt
      /\ r.outcome = downloads[i].outcome /\ r.promoted = downloads[i].promoted
    <2>1. f \in Nat
        BY <1>2 DEF Calls
    <2>2. QED
        BY <1>1, <1>2, <2>1 DEF Calls
<1>4. r.outcome \notin {"ok", "skip"}
    BY <1>3 DEF VideoInv
<1>5. r.file \in 0 .. Len(names.content) /\ r.receipt \in 0 .. Len(names.content)
    BY <1>2, <1>3 DEF Fetching
<1>6. Video!Upd(i, r)
    BY <1>1
<1>7. QED
    BY <1>3, <1>4, <1>5, <1>6, VideoQuiet

LEMMA VideoClears ==
  ASSUME VideoInv, NEW i \in Invocations, Video!ClearStaging(i) PROVE VideoInv'
<1>1. downloads[i] \in Calls
    BY DEF VideoInv, VideoTyped
<1>2. CASE Video!End(i, "fail") /\ UNCHANGED names
    BY <1>2, VideoFails
<1>3. CASE names' = [names EXCEPT !.staging = 0] /\ Video!Upd(i, Video!Goto(i, "start"))
    <2>1. Video!Goto(i, "start") = [downloads[i] EXCEPT !.pc = "start",
             !.file = downloads[i].file, !.exit = downloads[i].exit]
        BY <1>1 DEF Video!Goto, Calls
    <2>2. downloads[i].exit \in {None, 0, 1} /\ downloads[i].pc \notin {"idle", "ended"}
        BY <1>1 DEF Calls, Video!ClearStaging, Video!At
    <2>3. Video!Upd(i, [downloads[i] EXCEPT !.pc = "start",
             !.file = downloads[i].file, !.exit = downloads[i].exit])
        BY <1>3, <2>1
    <2>4. PICK f \in {0, downloads[i].file}, x \in {None, 0, 1} :
            f = downloads[i].file /\ x = downloads[i].exit
        BY <2>2
    <2>5. names' \in {names, [names EXCEPT !.staging = 0]}
        BY <1>3
    <2>6. Video!Upd(i, [downloads[i] EXCEPT !.pc = "start", !.file = f, !.exit = x])
        BY <2>3, <2>4
    <2>7. QED
        BY <2>2, <2>5, <2>6, VideoMoves
<1>4. QED
    BY <1>2, <1>3 DEF Video!ClearStaging, Video!NoFile

LEMMA VideoStarts ==
  ASSUME VideoInv, NEW i \in Invocations, Video!YtDlpStarts(i) PROVE VideoInv'
<1>1. /\ downloads[i] \in Calls /\ Fetching(i) /\ VideoTyped /\ Len(names.content) \in Nat
      /\ downloads[i].pc = "start"
    BY DEF VideoInv, VideoTyped, Video!YtDlpStarts, Video!At
<1>2. CASE Video!End(i, "fail") /\ UNCHANGED names
    BY <1>2, VideoFails
<1>3. CASE /\ Video!Upd(i, [Video!Goto(i, "written") EXCEPT !.exit = 0])
           /\ UNCHANGED names
    <2>1. [Video!Goto(i, "written") EXCEPT !.exit = 0] =
            [downloads[i] EXCEPT !.pc = "written", !.file = downloads[i].file, !.exit = 0]
        BY <1>1 DEF Video!Goto, Calls
    <2>2. QED
        BY <1>1, <1>3, <2>1, VideoMoves
<1>4. ASSUME NEW file, file = Len(names.content) + 1,
             names' = [names EXCEPT !.staging = file, !.content = Append(@, "empty")],
             Video!Upd(i, [Video!Goto(i, "fetch") EXCEPT !.file = file])
      PROVE  VideoInv'
    <2>1. PICK r : r = [Video!Goto(i, "fetch") EXCEPT !.file = file]
        OBVIOUS
    <2>2. /\ r \in Calls /\ r.pc = "fetch" /\ r.file = file
          /\ r.receipt = downloads[i].receipt /\ r.outcome = downloads[i].outcome
          /\ r.promoted = downloads[i].promoted
        <3>1. file \in Nat
            BY <1>1, <1>4
        <3>2. r = [downloads[i] EXCEPT !.pc = "fetch", !.file = file]
            BY <1>1, <2>1 DEF Calls, Video!Goto
        <3>3. QED
            BY <1>1, <3>1, <3>2 DEF Calls
    <2>3. /\ downloads' \in [Invocations -> Calls] /\ downloads'[i] = r
          /\ \A j \in Invocations \ {i} : downloads'[j] = downloads[j]
        BY <1>1, <1>4, <2>1, <2>2 DEF VideoTyped, Video!Upd
    <2>4. /\ names.content \in Seq(States) /\ "empty" \in States
          /\ names.staging \in Nat /\ names.target \in 0 .. Len(names.content)
        BY <1>1 DEF VideoTyped, States
    <2>5. /\ names'.content = Append(names.content, "empty")
          /\ names'.staging = file /\ names'.target = names.target
        BY <1>1, <1>4 DEF VideoTyped
    <2>6. /\ Append(names.content, "empty") \in Seq(States)
          /\ Len(Append(names.content, "empty")) = Len(names.content) + 1
          /\ \A f \in 1 .. Len(names.content) :
               Append(names.content, "empty")[f] = names.content[f]
        BY <2>4
    <2>7. /\ names' \in [content : Seq(States), staging : Nat, target : Nat]
          /\ names'.staging \in 0 .. Len(names'.content)
          /\ names'.target \in 0 .. Len(names'.content)
        <3>1. names'.content \in Seq(States) /\ Len(names'.content) = Len(names.content) + 1
            BY <2>5, <2>6
        <3>2. file \in Nat /\ names.target \in Nat
            BY <1>1, <1>4, <2>4
        <3>3. names \in [content : Seq(States), staging : Nat, target : Nat]
            BY <1>1 DEF VideoTyped
        <3>4. names' = [content |-> names'.content, staging |-> file, target |-> names.target]
            BY <1>4, <2>5, <3>3
        <3>5. names' \in [content : Seq(States), staging : Nat, target : Nat]
            BY <3>1, <3>2, <3>4
        <3>6. QED
            BY <1>1, <1>4, <2>4, <2>5, <3>1, <3>5
    <2>8. VideoTyped'
        BY <2>3, <2>7 DEF VideoTyped
    <2>9. Fetching(i)'
        <3>1. downloads[i].receipt \in 0 .. Len(names.content)
            BY <1>1 DEF Fetching
        <3>2. QED
            BY <1>1, <1>4, <2>2, <2>3, <2>5, <2>6, <3>1 DEF Fetching
    <2>10. downloads'[i].outcome \notin {"ok", "skip"}
        BY <1>1, <2>2, <2>3 DEF VideoInv
    <2>11. Whole(names.target) => Whole(names.target)'
        BY <2>4, <2>5, <2>6 DEF Whole
    <2>12. downloads[i].promoted \in BOOLEAN /\ downloads'[i].promoted = downloads[i].promoted
        BY <1>1, <2>2, <2>3 DEF Calls
    <2>13. /\ Len(names.content) <= Len(names'.content)
           /\ \A f \in 1 .. Len(names.content) :
                names.content[f] = "whole" => names'.content[f] = "whole"
        BY <1>1, <2>5, <2>6
    <2>14. QED
        BY <2>3, <2>5, <2>8, <2>9, <2>10, <2>12, <2>13, VideoCall
<1>5. QED
    BY <1>2, <1>3, <1>4 DEF Video!YtDlpStarts

LEMMA VideoWrites ==
  ASSUME VideoInv, NEW i \in Invocations, Video!YtDlpWrites(i) PROVE VideoInv'
<1>1. /\ downloads[i] \in Calls /\ Fetching(i) /\ VideoTyped /\ Len(names.content) \in Nat
      /\ downloads[i].pc = "fetch" /\ downloads' = downloads
    BY DEF VideoInv, VideoTyped, Video!YtDlpWrites, Video!At
<1>2. PICK f \in 1 .. Len(names.content) : f = downloads[i].file
    BY <1>1 DEF Fetching
<1>3. PICK s \in States : names' = [names EXCEPT !.content[f] = s] /\ names.content[f] # "whole"
    BY <1>2 DEF Video!YtDlpWrites, States
<1>4. /\ names.content \in Seq(States) /\ names.target \in 0 .. Len(names.content)
      /\ names.staging \in 0 .. Len(names.content)
    BY <1>1 DEF VideoTyped
<1>5. /\ names'.content = [names.content EXCEPT ![f] = s]
      /\ names'.target = names.target /\ names'.staging = names.staging
    BY <1>1, <1>3 DEF VideoTyped
<1>6. /\ [names.content EXCEPT ![f] = s] \in Seq(States)
      /\ Len([names.content EXCEPT ![f] = s]) = Len(names.content)
      /\ \A g \in 1 .. Len(names.content) \ {f} :
           [names.content EXCEPT ![f] = s][g] = names.content[g]
    BY <1>4
<1>7. VideoTyped'
    BY <1>1, <1>3, <1>4, <1>5, <1>6 DEF VideoTyped
<1>8. \A g \in 1 .. Len(names.content) :
        names.content[g] = "whole" => names'.content[g] = "whole"
    BY <1>3, <1>5, <1>6
<1>9. Fetching(i)'
    BY <1>1, <1>5, <1>6 DEF Fetching
<1>10. /\ downloads'[i].outcome \notin {"ok", "skip"}
       /\ downloads'[i].promoted \/ ~downloads[i].promoted
    BY <1>1 DEF VideoInv, Calls
<1>11. QED
    BY <1>1, <1>5, <1>6, <1>7, <1>8, <1>9, <1>10, VideoCall

LEMMA VideoEnds ==
  ASSUME VideoInv, NEW i \in Invocations, Video!YtDlpEnds(i) PROVE VideoInv'
<1>1. downloads[i] \in Calls /\ downloads[i].pc = "fetch" /\ names' = names
    BY DEF VideoInv, VideoTyped, Video!YtDlpEnds, Video!At
<1>2. PICK x \in {0, 1} :
        Video!Upd(i, [Video!Goto(i, "written") EXCEPT !.file = 0, !.exit = x])
    BY DEF Video!YtDlpEnds, Video!NoFile
<1>3. [Video!Goto(i, "written") EXCEPT !.file = 0, !.exit = x] =
        [downloads[i] EXCEPT !.pc = "written", !.file = 0, !.exit = x]
    BY <1>1 DEF Video!Goto, Calls
<1>4. QED
    BY <1>1, <1>2, <1>3, VideoMoves

LEMMA VideoVerifies ==
  ASSUME VideoInv, NEW i \in Invocations, Video!Verify(i) PROVE VideoInv'
<1>1. /\ downloads[i] \in Calls /\ Fetching(i) /\ downloads[i].pc = "written"
      /\ names.staging \in 0 .. Len(names.content)
      /\ VideoTyped
    BY DEF VideoInv, VideoTyped, Video!Verify, Video!At
<1>2. CASE /\ Video!Content(names.staging) = "whole" /\ UNCHANGED names
           /\ Video!Upd(i, [Video!Goto(i, "promote") EXCEPT !.receipt = names.staging])
    <2>1. PICK r : r = [Video!Goto(i, "promote") EXCEPT !.receipt = names.staging]
        OBVIOUS
    <2>2. names.staging \in Nat
        BY <1>1 DEF VideoTyped
    <2>3. /\ r \in Calls /\ r.pc = "promote" /\ r.file = downloads[i].file
          /\ r.receipt = names.staging /\ r.outcome = downloads[i].outcome
          /\ r.promoted = downloads[i].promoted
        BY <1>1, <2>1, <2>2 DEF Calls, Video!Goto
    <2>4. r.outcome \notin {"ok", "skip"}
        BY <1>1, <2>3 DEF VideoInv
    <2>5. Whole(r.receipt)
        BY <1>2, <2>3 DEF Video!Content, Video!NoFile, Whole
    <2>6. r.file \in 0 .. Len(names.content) /\ r.receipt \in 0 .. Len(names.content)
        BY <1>1, <2>3 DEF Fetching
    <2>7. Video!Upd(i, r)
        BY <1>2, <2>1
    <2>8. QED
        BY <1>2, <2>3, <2>4, <2>5, <2>6, <2>7, VideoQuiet
<1>3. CASE /\ Video!End(i, "fail")
           /\ \/ names' = [names EXCEPT !.staging =
                             IF Video!Content(names.staging) = "empty" THEN @ ELSE 0]
              \/ UNCHANGED names
    <2>1. names' \in {names, [names EXCEPT !.staging = 0]}
        <3>1. names = [names EXCEPT !.staging = names.staging]
            BY <1>1 DEF VideoTyped
        <3>2. QED
            BY <1>3, <3>1
    <2>2. QED
        BY <1>3, <2>1, VideoFails
<1>4. QED
    BY <1>2, <1>3 DEF Video!Verify, Video!NoFile

LEMMA VideoPromotes ==
  ASSUME VideoInv, NEW i \in Invocations, Video!Promote(i) PROVE VideoInv'
<1>1. /\ downloads[i] \in Calls /\ Fetching(i) /\ downloads[i].pc = "promote"
      /\ names.staging \in 0 .. Len(names.content) /\ Len(names.content) \in Nat
      /\ VideoTyped
    BY DEF VideoInv, VideoTyped, Video!Promote, Video!At
<1>2. CASE Video!End(i, "fail") /\ UNCHANGED names
    BY <1>2, VideoFails
<1>3. CASE /\ names' = [names EXCEPT !.target = names.staging, !.staging = 0]
           /\ Video!Upd(i, [Video!Goto(i, "bind") EXCEPT !.promoted = TRUE])
    <2>1. PICK r : r = [Video!Goto(i, "bind") EXCEPT !.promoted = TRUE]
        OBVIOUS
    <2>2. /\ r \in Calls /\ r.pc = "bind" /\ r.file = downloads[i].file
          /\ r.receipt = downloads[i].receipt /\ r.outcome = downloads[i].outcome
          /\ r.promoted
        BY <1>1, <2>1 DEF Calls, Video!Goto
    <2>3. /\ downloads' \in [Invocations -> Calls] /\ downloads'[i] = r
          /\ \A j \in Invocations \ {i} : downloads'[j] = downloads[j]
        BY <1>1, <1>3, <2>1, <2>2 DEF VideoTyped, Video!Upd
    <2>4. /\ names' \in [content : Seq(States), staging : Nat, target : Nat]
          /\ names'.content = names.content
          /\ names'.staging = 0 /\ names'.target = names.staging
        BY <1>1, <1>3 DEF VideoTyped
    <2>5. VideoTyped'
        BY <1>1, <2>3, <2>4 DEF VideoTyped
    <2>6. Fetching(i)'
        BY <1>1, <2>2, <2>3, <2>4 DEF Fetching, Whole
    <2>7. downloads'[i].outcome \notin {"ok", "skip"} /\ downloads'[i].promoted
        BY <1>1, <2>2, <2>3 DEF VideoInv
    <2>8. /\ Len(names.content) <= Len(names'.content)
          /\ \A f \in 1 .. Len(names.content) :
               names.content[f] = "whole" => names'.content[f] = "whole"
        BY <1>1, <2>4
    <2>9. QED
        BY <2>3, <2>5, <2>6, <2>7, <2>8, VideoCall
<1>4. QED
    BY <1>2, <1>3 DEF Video!Promote, Video!NoFile

LEMMA VideoBinds ==
  ASSUME VideoInv, NEW i \in Invocations, Video!Bind(i) PROVE VideoInv'
<1>1. /\ downloads[i] \in Calls /\ Fetching(i) /\ downloads[i].pc = "bind"
      /\ Len(names.content) \in Nat /\ names' = names
    BY DEF VideoInv, VideoTyped, Video!Bind, Video!At
<1>2. CASE Video!End(i, "fail")
    BY <1>1, <1>2, VideoFails
<1>3. CASE names.target = downloads[i].receipt /\ Video!End(i, "ok")
    <2>1. PICK r : Video!Upd(i, r) /\
                r = [Video!Idle EXCEPT !.pc = "ended", !.calls = downloads[i].calls,
                       !.outcome = "ok", !.promoted = downloads[i].promoted /\ "ok" # "ok"]
        BY <1>3 DEF Video!End
    <2>2. /\ r \in Calls /\ r.pc = "ended" /\ r.outcome = "ok" /\ r.file = 0
          /\ r.receipt = 0 /\ r.promoted = FALSE
        BY <1>1, <2>1 DEF Calls, Video!Idle, Video!NoFile, Video!Outcomes
    <2>3. Whole(names.target)
        BY <1>1, <1>3 DEF Fetching
    <2>4. r.file \in 0 .. Len(names.content) /\ r.receipt \in 0 .. Len(names.content)
        BY <1>1, <2>2
    <2>5. QED
        BY <1>1, <2>1, <2>2, <2>3, <2>4, VideoQuiet
<1>4. QED
    BY <1>2, <1>3 DEF Video!Bind

LEMMA VideoStep == VideoInv /\ [Video!Next]_video_vars => VideoInv'
<1>1. ASSUME VideoInv, NEW i \in Invocations, Video!DownloadOne(i) PROVE VideoInv'
    <2>1. CASE Video!Killed(i)
        BY <1>1, <2>1, VideoFails DEF Video!Killed
    <2>2. QED
        BY <1>1, <2>1, VideoLook, VideoClears, VideoStarts, VideoWrites, VideoEnds,
           VideoVerifies, VideoPromotes, VideoBinds DEF Video!DownloadOne
<1>2. ASSUME VideoInv, UNCHANGED video_vars PROVE VideoInv'
    BY <1>2 DEF VideoInv, VideoTyped, Fetching, Reported, Whole, video_vars
<1>3. QED
    BY <1>1, <1>2 DEF Video!Next

LEMMA VideoIsKept == VideoInv => Video!VideoKept
BY DEF VideoInv, VideoTyped, Reported, Whole, Video!VideoKept, Video!Content, Video!NoFile

-----------------------------------------------------------------------------
(* extract-local-audio.py                                                  *)

Volumes ==
  [versions : Seq(Nat), output : Audio!Audios \union {None},
   dataSynced : BOOLEAN, nameSynced : BOOLEAN, rewrites : Nat, losses : Nat]

Installing == {"install", "sync", "link", "sync_output", "copy", "sync_copy", "sync_name"}

Extractions ==
  [pc : {"idle", "ended", "read", "write", "check"} \union Installing,
   calls : Nat, held : Audio!Audios \union {None}, audio : Audio!Audios \union {None},
   synced : BOOLEAN, relies : Audio!Reliances, outcome : Audio!Outcomes \union {None}]

(* What ffmpeg made of one version of one of the recording's files. *)
Made(audio) == audio \in Audio!Audios /\ audio.file >= 1

(* A call x reads the file it holds, which may have been rewritten: audio that is not
   of one version of it betrays itself, the file has changed since it was taken. *)
Reads(x, v) ==
  /\ x.pc \in {"read", "write", "check"} =>
       /\ x.held \in Audio!Audios /\ x.held.file \in 1 .. Len(v.versions)
       /\ x.held.version <= v.versions[x.held.file]
  /\ x.pc = "write" =>
       /\ x.audio \in Audio!Audios /\ x.audio.file = x.held.file
       /\ x.held.version <= x.audio.version
       /\ x.audio.version <= v.versions[x.held.file]
  /\ x.pc = "check" =>
       \/ Made(x.audio)
       \/ x.audio \in Audio!Audios /\ x.held.version < v.versions[x.held.file]

(* What a call installs is whole; what it takes for finished is the output, as far as
   it is synced, or was found there and removed since. *)
Installs(x, v) ==
  /\ x.pc \in Installing \/ x.outcome = "ok" => Made(x.audio)
  /\ x.pc = "link" => x.synced
  /\ x.pc = "copy" => v.output = Audio!Partial
  /\ x.pc = "sync_copy" => v.output = x.audio
  /\ x.pc = "sync_output" =>
       \/ v.output = x.audio /\ x.relies = "found"
       \/ x.relies = "undone"
  /\ x.pc = "sync_name" => (v.output = x.audio /\ v.dataSynced) \/ x.relies = "undone"
  /\ x.outcome = "ok" =>
       /\ x.pc = "ended"
       /\ (v.output = x.audio /\ v.dataSynced /\ v.nameSynced) \/ x.relies = "undone"

Copies(x) == x.pc \in {"copy", "sync_copy"}

(* A call that finished the output itself; while another copies there is none. *)
Owns(x) == (x.pc = "sync_name" \/ x.outcome = "ok") /\ x.relies = "own"

AudioInv ==
  /\ volume \in Volumes /\ volume.versions # <<>>
  /\ extractors \in [Extractors -> Extractions]
  /\ \A e \in Extractors : Reads(extractors[e], volume) /\ Installs(extractors[e], volume)
  /\ \A e \in Extractors : Copies(extractors[e]) =>
       \A g \in Extractors \ {e} : ~Copies(extractors[g]) /\ ~Owns(extractors[g])

LEMMA NoneMade == ~Made(None) /\ ~Made(Audio!Partial) /\ ~Made(Audio!Torn)
BY ToolsAssumed DEF Made, Audio!Assumptions, Audio!Partial, Audio!Torn

LEMMA AudioStart == Audio!Init => AudioInv
<1>1. SUFFICES ASSUME Audio!Init PROVE AudioInv
    OBVIOUS
<1>2. <<1>> \in Seq(Nat) /\ <<1>> # <<>>
    OBVIOUS
<1>3. Audio!Foreign \in Audio!Audios
    BY DEF Audio!Foreign, Audio!Audios
<1>4. volume \in Volumes /\ volume.versions # <<>>
    BY <1>1, <1>2, <1>3 DEF Audio!Init, Volumes
<1>5. None \notin Audio!Outcomes
    BY ToolsAssumed DEF Audio!Assumptions
<1>6. Audio!Idle \in Extractions /\ Audio!Idle.pc = "idle" /\ Audio!Idle.outcome # "ok"
    BY <1>5 DEF Audio!Idle, Extractions, Audio!Outcomes, Audio!Reliances
<1>7. extractors = [e \in Extractors |-> Audio!Idle]
    BY <1>1 DEF Audio!Init
<1>8. QED
    BY <1>4, <1>6, <1>7 DEF AudioInv, Reads, Installs, Installing, Copies

(* One call's step, seen from all of them. *)
LEMMA AudioCall ==
  ASSUME AudioInv, NEW e \in Extractors, NEW r \in Extractions, Audio!Upd(e, r),
         volume' \in Volumes, volume'.versions # <<>>,
         Reads(r, volume'), Installs(r, volume'),
         \A g \in Extractors \ {e} :
           Reads(extractors[g], volume') /\ Installs(extractors[g], volume'),
         Copies(r) =>
           \/ Copies(extractors[e])
           \/ \A g \in Extractors : ~Copies(extractors[g]) /\ ~Owns(extractors[g]),
         Owns(r) =>
           \/ Copies(extractors[e]) \/ Owns(extractors[e])
           \/ \A g \in Extractors : ~Copies(extractors[g])
  PROVE  AudioInv'
<1>1. /\ extractors' \in [Extractors -> Extractions] /\ extractors'[e] = r
      /\ \A g \in Extractors \ {e} : extractors'[g] = extractors[g]
    BY DEF AudioInv, Audio!Upd
<1>2. \A g \in Extractors : Reads(extractors'[g], volume') /\ Installs(extractors'[g], volume')
    BY <1>1
<1>3. ASSUME NEW f \in Extractors, NEW g \in Extractors \ {f}, Copies(extractors'[f])
      PROVE  ~Copies(extractors'[g]) /\ ~Owns(extractors'[g])
    <2>1. CASE f # e /\ g # e
        BY <1>1, <1>3, <2>1 DEF AudioInv
    <2>2. CASE f = e
        <3>1. extractors'[g] = extractors[g]
            BY <1>1, <2>2
        <3>2. Copies(r)
            BY <1>1, <1>3, <2>2
        <3>3. QED
            BY <2>2, <3>1, <3>2 DEF AudioInv
    <2>3. CASE g = e
        <3>1. Copies(extractors[f]) /\ f # e
            BY <1>1, <1>3, <2>3
        <3>2. ~Copies(extractors[e]) /\ ~Owns(extractors[e])
            BY <3>1 DEF AudioInv
        <3>3. ~Copies(r) /\ ~Owns(r)
            BY <3>1, <3>2
        <3>4. QED
            BY <1>1, <2>3, <3>3
    <2>4. QED
        BY <2>1, <2>2, <2>3
<1>4. QED
    BY <1>1, <1>2, <1>3 DEF AudioInv

(* A step that leaves the volume alone. *)
LEMMA AudioQuiet ==
  ASSUME AudioInv, NEW e \in Extractors, NEW r \in Extractions, Audio!Upd(e, r),
         UNCHANGED volume, Reads(r, volume), Installs(r, volume), ~Copies(r), ~Owns(r)
  PROVE  AudioInv'
<1>1. PICK v : v = volume /\ v = volume'
    OBVIOUS
<1>2. /\ v \in Volumes /\ v.versions # <<>>
      /\ \A g \in Extractors : Reads(extractors[g], v) /\ Installs(extractors[g], v)
    BY <1>1 DEF AudioInv
<1>3. Reads(r, v) /\ Installs(r, v)
    BY <1>1
<1>4. QED
    BY <1>1, <1>2, <1>3, AudioCall

(* A call is refused, or its process dies. *)
LEMMA AudioEnds ==
  ASSUME NEW e \in Extractors, extractors[e] \in Extractions,
         NEW o \in {"refused", "killed"}, NEW v
  PROVE  /\ Audio!Ended(e, o) \in Extractions /\ Audio!Ended(e, o).pc = "ended"
         /\ Audio!Ended(e, o).outcome = o
         /\ Reads(Audio!Ended(e, o), v) /\ Installs(Audio!Ended(e, o), v)
         /\ ~Copies(Audio!Ended(e, o)) /\ ~Owns(Audio!Ended(e, o))
<1>1. PICK c \in Nat : c = extractors[e].calls
    BY DEF Extractions
<1>2. PICK r : r = [pc |-> "ended", calls |-> c, held |-> None, audio |-> None,
                    synced |-> FALSE, relies |-> "own", outcome |-> o]
    OBVIOUS
<1>3. Audio!Ended(e, o) = r
    <2>1. /\ (IF o = "ok" THEN extractors[e].relies ELSE "own") = "own"
          /\ (IF o = "ok" THEN extractors[e].audio ELSE None) = None
        OBVIOUS
    <2>2. Audio!Ended(e, o) = [Audio!Idle EXCEPT !.pc = "ended", !.calls = c, !.outcome = o,
                                 !.relies = "own", !.audio = None]
        BY <1>1, <2>1 DEF Audio!Ended
    <2>3. QED
        BY <1>2, <2>2 DEF Audio!Idle
<1>4. r \in Extractions /\ r.pc = "ended" /\ r.outcome = o
    BY <1>2 DEF Extractions, Audio!Outcomes, Audio!Reliances
<1>5. QED
    BY <1>3, <1>4 DEF Reads, Installs, Installing, Copies, Owns

LEMMA AudioRefused ==
  ASSUME AudioInv, NEW e \in Extractors, NEW o \in {"refused", "killed"},
         Audio!Upd(e, Audio!Ended(e, o)), UNCHANGED volume
  PROVE  AudioInv'
<1>1. extractors[e] \in Extractions
    BY DEF AudioInv
<1>2. PICK r : r = Audio!Ended(e, o)
    OBVIOUS
<1>3. /\ r \in Extractions /\ Reads(r, volume) /\ Installs(r, volume) /\ ~Copies(r) /\ ~Owns(r)
    BY <1>1, <1>2, AudioEnds
<1>4. QED
    BY <1>2, <1>3, AudioQuiet

(* What holds of a call holds as more of the output is synced. *)
LEMMA SyncedMore ==
  ASSUME NEW x, NEW v, NEW w, Reads(x, v), Installs(x, v),
         w.versions = v.versions, w.output = v.output,
         v.dataSynced => w.dataSynced, v.nameSynced => w.nameSynced
  PROVE  Reads(x, w) /\ Installs(x, w)
BY DEF Reads, Installs

(* A call that is not copying counts on nothing that is not a whole audio. *)
LEMMA NotCounted ==
  ASSUME NEW x, NEW v, NEW w, Reads(x, v), Installs(x, v), ~Copies(x), ~Made(v.output),
         w.versions = v.versions
  PROVE  Reads(x, w) /\ Installs(x, w)
<1>1. Reads(x, w)
    BY DEF Reads
<1>2. Installs(x, w)
    BY DEF Installs, Installing, Copies
<1>3. QED
    BY <1>1, <1>2

(* The recording. *)
LEMMA Grows ==
  ASSUME NEW x, NEW v, NEW w \in Volumes, v \in Volumes, Reads(x, v), Installs(x, v),
         w.output = v.output,
         w.dataSynced = v.dataSynced, w.nameSynced = v.nameSynced,
         Len(v.versions) <= Len(w.versions),
         \A f \in 1 .. Len(v.versions) : v.versions[f] <= w.versions[f]
  PROVE  Reads(x, w) /\ Installs(x, w)
<1>1. /\ Len(v.versions) \in Nat /\ Len(w.versions) \in Nat
      /\ \A f \in 1 .. Len(v.versions) : v.versions[f] \in Nat /\ w.versions[f] \in Nat
    <2>1. PICK s \in Seq(Nat), t \in Seq(Nat) : s = v.versions /\ t = w.versions
        BY DEF Volumes
    <2>2. Len(s) \in Nat /\ Len(t) \in Nat /\ Len(s) <= Len(t)
        BY <2>1
    <2>3. \A f \in 1 .. Len(s) : s[f] \in Nat /\ f \in 1 .. Len(t)
        BY <2>2
    <2>4. \A f \in 1 .. Len(s) : t[f] \in Nat
        BY <2>3
    <2>5. QED
        BY <2>1, <2>2, <2>3, <2>4, Zenon
<1>2. ASSUME x.pc \in {"read", "write", "check"} PROVE Reads(x, w)
    <2>1. PICK f \in 1 .. Len(v.versions) : f = x.held.file
        BY <1>2 DEF Reads
    <2>2. x.held.version \in Nat
        BY <1>2 DEF Reads, Audio!Audios
    <2>3. v.versions[f] <= w.versions[f] /\ v.versions[f] \in Nat /\ w.versions[f] \in Nat
        BY <1>1
    <2>4. f \in 1 .. Len(w.versions)
        BY <1>1
    <2>5. x.held.version <= w.versions[f]
        BY <1>2, <2>1, <2>2, <2>3 DEF Reads
    <2>6. ASSUME x.pc = "write" PROVE x.audio.version <= w.versions[f]
        <3>1. x.audio.version \in Nat /\ x.audio.version <= v.versions[f]
            BY <2>1, <2>6 DEF Reads, Audio!Audios
        <3>2. QED
            BY <2>3, <3>1
    <2>7. x.held.version < v.versions[f] => x.held.version < w.versions[f]
        BY <2>2, <2>3
    <2>8. /\ x.held \in Audio!Audios /\ x.held.file \in 1 .. Len(w.versions)
          /\ x.held.version <= w.versions[x.held.file]
        BY <1>2, <2>1, <2>4, <2>5 DEF Reads
    <2>9. x.pc = "write" =>
            /\ x.audio \in Audio!Audios /\ x.audio.file = x.held.file
            /\ x.held.version <= x.audio.version
            /\ x.audio.version <= w.versions[x.held.file]
        BY <2>1, <2>6 DEF Reads
    <2>10. x.pc = "check" =>
             \/ Made(x.audio)
             \/ x.audio \in Audio!Audios /\ x.held.version < w.versions[x.held.file]
        BY <2>1, <2>7 DEF Reads
    <2>11. QED
        BY <2>8, <2>9, <2>10 DEF Reads
<1>3. Reads(x, w)
    BY <1>2 DEF Reads
<1>4. QED
    BY <1>3 DEF Installs

LEMMA AudioRewrite == ASSUME AudioInv, Audio!Rewrite PROVE AudioInv'
<1>1. /\ volume \in Volumes /\ volume.versions # <<>> /\ volume.versions \in Seq(Nat)
      /\ volume.rewrites \in Nat
    BY DEF AudioInv, Volumes
<1>2. PICK l \in 1 .. Len(volume.versions) : l = Len(volume.versions)
    BY <1>1
<1>3. PICK s : /\ s \in Seq(Nat) /\ s # <<>> /\ Len(volume.versions) <= Len(s)
               /\ \A f \in 1 .. Len(volume.versions) : volume.versions[f] <= s[f]
               /\ volume' = [volume EXCEPT !.rewrites = @ + 1, !.versions = s]
    <2>1. CASE volume' = [volume EXCEPT !.rewrites = @ + 1, !.versions[l] = @ + 1]
        <3>1. PICK s : s = [volume.versions EXCEPT ![l] = @ + 1]
            OBVIOUS
        <3>2. PICK n \in Nat : n = volume.versions[l] + 1
            BY <1>1
        <3>3. s = [volume.versions EXCEPT ![l] = n]
            BY <3>1, <3>2
        <3>4. /\ s \in Seq(Nat) /\ Len(s) = Len(volume.versions)
              /\ \A f \in 1 .. Len(volume.versions) :
                   s[f] = IF f = l THEN n ELSE volume.versions[f]
            BY <1>1, <3>3
        <3>5. \A f \in 1 .. Len(volume.versions) : volume.versions[f] <= s[f]
            <4>1. PICK q \in Seq(Nat) : q = volume.versions
                BY <1>1
            <4>2. \A f \in 1 .. Len(q) : q[f] \in Nat /\ q[f] <= q[f]
                OBVIOUS
            <4>3. l \in 1 .. Len(q) /\ n = q[l] + 1
                BY <3>2, <4>1
            <4>4. q[l] <= n
                BY <4>2, <4>3
            <4>5. QED
                BY <3>4, <4>1, <4>2, <4>4, Zenon
        <3>6. s # <<>>
            BY <1>1, <1>2, <3>4
        <3>7. volume' = [volume EXCEPT !.rewrites = @ + 1, !.versions = s]
            BY <1>1, <2>1, <3>1 DEF Volumes
        <3>8. Len(volume.versions) <= Len(s)
            BY <1>1, <3>4
        <3>9. QED
            BY <3>4, <3>5, <3>6, <3>7, <3>8, Zenon
    <2>2. CASE volume' = [volume EXCEPT !.rewrites = @ + 1, !.versions = Append(@, 1)]
        <3>1. PICK s : s = Append(volume.versions, 1)
            OBVIOUS
        <3>2. /\ s \in Seq(Nat) /\ Len(s) = Len(volume.versions) + 1
              /\ \A f \in 1 .. Len(volume.versions) : s[f] = volume.versions[f]
            <4>1. PICK q \in Seq(Nat) : q = volume.versions
                BY <1>1
            <4>2. Append(q, 1) \in Seq(Nat) /\ Len(Append(q, 1)) = Len(q) + 1
                OBVIOUS
            <4>3. \A f \in 1 .. Len(q) : Append(q, 1)[f] = q[f]
                OBVIOUS
            <4>4. QED
                BY <3>1, <4>1, <4>2, <4>3, Zenon
        <3>3. \A f \in 1 .. Len(volume.versions) : volume.versions[f] <= s[f]
            <4>1. PICK q \in Seq(Nat) : q = volume.versions
                BY <1>1
            <4>2. \A f \in 1 .. Len(q) : q[f] \in Nat /\ q[f] <= q[f]
                OBVIOUS
            <4>3. QED
                BY <3>2, <4>1, <4>2, Zenon
        <3>4. s # <<>>
            BY <1>1, <3>2
        <3>5. volume' = [volume EXCEPT !.rewrites = @ + 1, !.versions = s]
            BY <2>2, <3>1
        <3>6. Len(volume.versions) <= Len(s)
            BY <1>1, <3>2
        <3>7. QED
            BY <3>2, <3>3, <3>4, <3>5, <3>6, Zenon
    <2>3. QED
        BY <1>2, <2>1, <2>2 DEF Audio!Rewrite
<1>4. PICK n \in Nat : n = volume.rewrites + 1
    BY <1>1
<1>5. PICK w : w = [volume EXCEPT !.rewrites = n, !.versions = s]
    OBVIOUS
<1>6. w \in Volumes /\ w.versions = s /\ w.rewrites = n /\ volume' = w
    BY <1>1, <1>3, <1>4, <1>5 DEF Volumes
<1>7. /\ w.output = volume.output
      /\ w.dataSynced = volume.dataSynced /\ w.nameSynced = volume.nameSynced
    BY <1>1, <1>5, <1>6 DEF Volumes
<1>8. \A e \in Extractors : Reads(extractors[e], w) /\ Installs(extractors[e], w)
    BY <1>1, <1>3, <1>6, <1>7, Grows DEF AudioInv
<1>9. extractors' = extractors
    BY DEF Audio!Rewrite
<1>10. QED
    BY <1>3, <1>6, <1>8, <1>9 DEF AudioInv

LEMMA AudioPowerLoss == ASSUME AudioInv, Audio!PowerLoss PROVE AudioInv'
<1>1. /\ volume \in Volumes /\ volume.versions # <<>>
      /\ extractors \in [Extractors -> Extractions]
    BY DEF AudioInv
<1>2. PICK output \in {volume.output} \union (IF volume.nameSynced THEN {} ELSE {None})
                      \union (IF volume.output = None \/ volume.dataSynced THEN {}
                                ELSE {Audio!Partial}) :
        volume' = [volume EXCEPT !.losses = @ + 1, !.output = output,
                                 !.nameSynced = TRUE, !.dataSynced = TRUE]
    BY DEF Audio!PowerLoss
<1>3. PICK n \in Nat : n = volume.losses + 1
    BY <1>1 DEF Volumes
<1>4. PICK w : w = [volume EXCEPT !.losses = n, !.output = output,
                                  !.nameSynced = TRUE, !.dataSynced = TRUE]
    OBVIOUS
<1>5. volume' = w
    BY <1>2, <1>3, <1>4
<1>6. output \in Audio!Audios \union {None}
    BY <1>1, <1>2 DEF Volumes, Audio!Audios, Audio!Partial
<1>7. /\ w \in Volumes /\ w.versions = volume.versions
      /\ w.output = output /\ w.nameSynced /\ w.dataSynced
    BY <1>1, <1>4, <1>6 DEF Volumes
<1>8. ASSUME NEW e \in Extractors
      PROVE  /\ extractors'[e] \in Extractions /\ Reads(extractors'[e], w)
             /\ Installs(extractors'[e], w) /\ ~Copies(extractors'[e])
    <2>1. /\ extractors[e] \in Extractions
          /\ Reads(extractors[e], volume) /\ Installs(extractors[e], volume)
        BY DEF AudioInv
    <2>2. CASE extractors'[e] = Audio!Ended(e, "killed")
        BY <2>1, <2>2, AudioEnds
    <2>3. CASE extractors'[e] = extractors[e] /\ extractors[e].pc \in {"idle", "ended"}
        <3>1. PICK x : x = extractors[e] /\ x = extractors'[e]
            BY <2>3
        <3>2. /\ x \in Extractions /\ x.pc \in {"idle", "ended"}
              /\ Reads(x, volume) /\ Installs(x, volume)
            BY <2>1, <2>3, <3>1
        <3>3. Reads(x, w)
            BY <3>2 DEF Reads
        <3>4. x.outcome = "ok" =>
                \/ volume.output = x.audio /\ volume.dataSynced /\ volume.nameSynced
                \/ x.relies = "undone"
            BY <3>2 DEF Installs
        <3>5. volume.dataSynced /\ volume.nameSynced => output = volume.output
            BY <1>2
        <3>6. Installs(x, w)
            BY <1>7, <3>2, <3>4, <3>5 DEF Installs, Installing
        <3>7. QED
            BY <3>1, <3>2, <3>3, <3>6 DEF Copies
    <2>4. QED
        BY <2>2, <2>3 DEF Audio!PowerLoss, Audio!At
<1>9. extractors' \in [Extractors -> Extractions]
    <2>1. extractors' = [e \in Extractors |-> extractors'[e]]
        BY DEF Audio!PowerLoss
    <2>2. QED
        BY <1>8, <2>1
<1>10. QED
    BY <1>1, <1>5, <1>7, <1>8, <1>9 DEF AudioInv

(* Each step of a call, which knows what its phase knows. *)
LEMMA AudioAt ==
  ASSUME AudioInv, NEW e \in Extractors
  PROVE  /\ volume \in Volumes /\ volume.versions # <<>> /\ Len(volume.versions) \in Nat
         /\ extractors[e] \in Extractions
         /\ Reads(extractors[e], volume) /\ Installs(extractors[e], volume)
BY DEF AudioInv, Volumes

LEMMA AudioStarts == ASSUME AudioInv, NEW e \in Extractors, Audio!Start(e) PROVE AudioInv'
<1>1. /\ volume \in Volumes /\ volume.versions # <<>> /\ volume.versions \in Seq(Nat)
      /\ extractors[e] \in Extractions
    BY AudioAt DEF Volumes
<1>2. PICK c \in Nat : c = extractors[e].calls + 1
    BY <1>1 DEF Extractions
<1>3. PICK h : h = Audio!Recording
    OBVIOUS
<1>4. /\ h = [file |-> Len(volume.versions), version |-> volume.versions[Len(volume.versions)]]
      /\ Len(volume.versions) \in 1 .. Len(volume.versions)
      /\ volume.versions[Len(volume.versions)] \in Nat
    BY <1>1, <1>3 DEF Audio!Recording, Audio!Version
<1>5. /\ h \in Audio!Audios /\ h.file \in 1 .. Len(volume.versions)
      /\ h.version <= volume.versions[h.file]
    BY <1>4 DEF Audio!Audios
<1>6. PICK r : r = [Audio!Idle EXCEPT !.pc = "read", !.calls = c, !.held = h]
    OBVIOUS
<1>7. None # "ok"
    BY ToolsAssumed DEF Audio!Assumptions, Audio!Outcomes
<1>8. r \in Extractions /\ r.pc = "read" /\ r.held = h /\ r.outcome # "ok"
    BY <1>5, <1>6, <1>7 DEF Audio!Idle, Extractions, Audio!Reliances
<1>9. Reads(r, volume) /\ Installs(r, volume) /\ ~Copies(r) /\ ~Owns(r)
    BY <1>5, <1>8 DEF Reads, Installs, Installing, Copies, Owns
<1>10. Audio!Upd(e, r) /\ UNCHANGED volume
    BY <1>2, <1>3, <1>6 DEF Audio!Start
<1>11. QED
    BY <1>8, <1>9, <1>10, AudioQuiet

LEMMA AudioReads ==
  ASSUME AudioInv, NEW e \in Extractors, Audio!FfmpegReads(e) PROVE AudioInv'
<1>1. /\ volume \in Volumes /\ extractors[e] \in Extractions /\ extractors[e].pc = "read"
      /\ Reads(extractors[e], volume) /\ Installs(extractors[e], volume)
      /\ volume.versions \in Seq(Nat)
    BY AudioAt DEF Audio!FfmpegReads, Audio!At, Volumes
<1>2. PICK h \in Audio!Audios : h = extractors[e].held
    BY <1>1 DEF Reads
<1>3. /\ h.file \in 1 .. Len(volume.versions) /\ h.version <= volume.versions[h.file]
      /\ volume.versions[h.file] \in Nat /\ h.file \in Nat
    BY <1>1, <1>2 DEF Reads
<1>4. PICK a : a = [file |-> h.file, version |-> volume.versions[h.file]]
    OBVIOUS
<1>5. a \in Audio!Audios /\ a.file = h.file /\ a.version = volume.versions[h.file]
    BY <1>3, <1>4 DEF Audio!Audios
<1>6. PICK r : r = [extractors[e] EXCEPT !.pc = "write", !.audio = a]
    OBVIOUS
<1>7. /\ r \in Extractions /\ r.pc = "write" /\ r.held = h /\ r.audio = a
      /\ r.outcome = extractors[e].outcome
    BY <1>1, <1>2, <1>5, <1>6 DEF Extractions
<1>8. r.outcome # "ok"
    BY <1>1, <1>7 DEF Installs
<1>9. a.version <= volume.versions[h.file]
    BY <1>3, <1>5
<1>10. Reads(r, volume) /\ Installs(r, volume) /\ ~Copies(r) /\ ~Owns(r)
    BY <1>2, <1>3, <1>5, <1>7, <1>8, <1>9 DEF Reads, Installs, Installing, Copies, Owns
<1>11. Audio!Upd(e, r) /\ UNCHANGED volume
    BY <1>2, <1>4, <1>6 DEF Audio!FfmpegReads, Audio!Held, Audio!Version, Audio!Goto
<1>12. QED
    BY <1>7, <1>10, <1>11, AudioQuiet

LEMMA AudioFfmpegEnds ==
  ASSUME AudioInv, NEW e \in Extractors, Audio!FfmpegEnds(e) PROVE AudioInv'
<1>1. /\ volume \in Volumes /\ extractors[e] \in Extractions /\ extractors[e].pc = "write"
      /\ Reads(extractors[e], volume) /\ Installs(extractors[e], volume)
      /\ volume.versions \in Seq(Nat) /\ volume' = volume
    BY AudioAt DEF Audio!FfmpegEnds, Audio!At, Volumes
<1>2. CASE Audio!Refuse(e)
    BY <1>1, <1>2, AudioRefused DEF Audio!Refuse
<1>3. CASE Audio!Upd(e, [Audio!Goto(e, "check") EXCEPT
                          !.audio = IF @ = Audio!Held(e) THEN @ ELSE Audio!Torn])
    <2>1. PICK h \in Audio!Audios, b \in Audio!Audios :
            h = extractors[e].held /\ b = extractors[e].audio
        BY <1>1 DEF Reads
    <2>2. /\ h.file \in 1 .. Len(volume.versions) /\ h.version <= volume.versions[h.file]
          /\ volume.versions[h.file] \in Nat /\ h.file \in Nat /\ h.version \in Nat
          /\ b.file = h.file /\ h.version <= b.version /\ b.version \in Nat
          /\ b.version <= volume.versions[h.file]
        BY <1>1, <2>1 DEF Reads, Audio!Audios
    <2>3. PICK a : a = IF b = Audio!Held(e) THEN b ELSE Audio!Torn
        OBVIOUS
    <2>4. Audio!Held(e) = [file |-> h.file, version |-> volume.versions[h.file]]
        BY <2>1 DEF Audio!Held, Audio!Version
    <2>5. b = [file |-> b.file, version |-> b.version]
        BY DEF Audio!Audios
    <2>6. b = Audio!Held(e) \/ h.version < volume.versions[h.file]
        BY <2>2, <2>4, <2>5
    <2>7. a \in Audio!Audios /\ (Made(a) \/ h.version < volume.versions[h.file])
        BY <2>2, <2>3, <2>6 DEF Audio!Audios, Audio!Torn, Made
    <2>8. PICK r : r = [extractors[e] EXCEPT !.pc = "check", !.audio = a]
        OBVIOUS
    <2>9. /\ r \in Extractions /\ r.pc = "check" /\ r.held = h /\ r.audio = a
          /\ r.outcome = extractors[e].outcome
        BY <1>1, <2>1, <2>7, <2>8 DEF Extractions
    <2>10. r.outcome # "ok"
        BY <1>1, <2>9 DEF Installs
    <2>11. Reads(r, volume) /\ Installs(r, volume) /\ ~Copies(r) /\ ~Owns(r)
        BY <2>2, <2>7, <2>9, <2>10 DEF Reads, Installs, Installing, Copies, Owns
    <2>12. Audio!Goto(e, "check").audio = b
        BY <1>1, <2>1 DEF Audio!Goto, Extractions
    <2>13. Audio!Upd(e, [Audio!Goto(e, "check") EXCEPT !.audio = a])
        BY <1>3, <2>3, <2>12
    <2>14. Audio!Upd(e, r)
        BY <2>8, <2>13 DEF Audio!Goto
    <2>15. QED
        BY <1>1, <2>9, <2>11, <2>14, AudioQuiet
<1>4. QED
    BY <1>2, <1>3 DEF Audio!FfmpegEnds

(* Only a recording that is as it was when it was held goes on to be installed. *)
LEMMA AudioChecks ==
  ASSUME AudioInv, NEW e \in Extractors, Audio!CheckRecording(e) PROVE AudioInv'
<1>1. /\ volume \in Volumes /\ extractors[e] \in Extractions /\ extractors[e].pc = "check"
      /\ Reads(extractors[e], volume) /\ Installs(extractors[e], volume)
      /\ volume.versions \in Seq(Nat) /\ volume' = volume
    BY AudioAt DEF Audio!CheckRecording, Audio!At, Volumes
<1>2. CASE Audio!Refuse(e)
    BY <1>1, <1>2, AudioRefused DEF Audio!Refuse
<1>3. CASE /\ Audio!Held(e) = extractors[e].held
           /\ Audio!Upd(e, Audio!Goto(e, "install"))
    <2>1. PICK h \in Audio!Audios : h = extractors[e].held
        BY <1>1 DEF Reads
    <2>2. h = [file |-> h.file, version |-> volume.versions[h.file]]
        BY <1>3, <2>1 DEF Audio!Held, Audio!Version
    <2>3. h.version = volume.versions[h.file] /\ h.version \in Nat
        BY <2>2 DEF Audio!Audios
    <2>4. ~(h.version < volume.versions[h.file])
        BY <2>3
    <2>5. Made(extractors[e].audio)
        BY <1>1, <2>1, <2>4 DEF Reads
    <2>6. PICK r : r = Audio!Goto(e, "install")
        OBVIOUS
    <2>7. /\ r \in Extractions /\ r.pc = "install" /\ r.audio = extractors[e].audio
          /\ r.outcome = extractors[e].outcome
        BY <1>1, <2>6 DEF Extractions, Installing, Audio!Goto
    <2>8. r.outcome # "ok"
        BY <1>1, <2>7 DEF Installs
    <2>9. Reads(r, volume) /\ Installs(r, volume) /\ ~Copies(r) /\ ~Owns(r)
        BY <2>5, <2>7, <2>8 DEF Reads, Installs, Installing, Copies, Owns
    <2>10. QED
        BY <1>1, <1>3, <2>6, <2>7, <2>9, AudioQuiet
<1>4. QED
    BY <1>2, <1>3 DEF Audio!CheckRecording

LEMMA AudioCompares ==
  ASSUME AudioInv, NEW e \in Extractors, Audio!Compare(e) PROVE AudioInv'
<1>1. /\ volume \in Volumes /\ extractors[e] \in Extractions /\ extractors[e].pc = "install"
      /\ Reads(extractors[e], volume) /\ Installs(extractors[e], volume) /\ volume' = volume
    BY AudioAt DEF Audio!Compare, Audio!At
<1>2. CASE Audio!Refuse(e)
    BY <1>1, <1>2, AudioRefused DEF Audio!Refuse
<1>3. ASSUME NEW r \in Extractions, Audio!Upd(e, r),
             r.audio = extractors[e].audio, r.outcome = extractors[e].outcome,
             \/ r.pc = "sync"
             \/ /\ r.pc = "sync_output" /\ r.relies = "found"
                /\ volume.output = extractors[e].audio
      PROVE  AudioInv'
    <2>1. r.outcome # "ok" /\ Made(r.audio)
        BY <1>1, <1>3 DEF Installs, Installing
    <2>2. Reads(r, volume) /\ Installs(r, volume) /\ ~Copies(r) /\ ~Owns(r)
        BY <1>3, <2>1 DEF Reads, Installs, Installing, Copies, Owns
    <2>3. QED
        BY <1>1, <1>3, <2>2, AudioQuiet
<1>4. CASE Audio!Upd(e, Audio!Goto(e, "sync"))
    <2>1. PICK r : r = Audio!Goto(e, "sync")
        OBVIOUS
    <2>2. /\ r \in Extractions /\ r.pc = "sync" /\ r.audio = extractors[e].audio
          /\ r.outcome = extractors[e].outcome
        BY <1>1, <2>1 DEF Extractions, Installing, Audio!Goto
    <2>3. QED
        BY <1>3, <1>4, <2>1, <2>2
<1>5. CASE /\ volume.output = extractors[e].audio
           /\ Audio!Upd(e, [Audio!Goto(e, "sync_output") EXCEPT !.relies = "found"])
    <2>1. PICK r : r = [Audio!Goto(e, "sync_output") EXCEPT !.relies = "found"]
        OBVIOUS
    <2>2. /\ r \in Extractions /\ r.pc = "sync_output" /\ r.audio = extractors[e].audio
          /\ r.outcome = extractors[e].outcome /\ r.relies = "found"
        BY <1>1, <2>1 DEF Extractions, Installing, Audio!Goto, Audio!Reliances
    <2>3. QED
        BY <1>3, <1>5, <2>1, <2>2
<1>6. QED
    BY <1>2, <1>4, <1>5 DEF Audio!Compare

LEMMA AudioSyncsStaged ==
  ASSUME AudioInv, NEW e \in Extractors, Audio!SyncStaged(e) PROVE AudioInv'
<1>1. /\ volume \in Volumes /\ extractors[e] \in Extractions /\ extractors[e].pc = "sync"
      /\ Reads(extractors[e], volume) /\ Installs(extractors[e], volume) /\ volume' = volume
    BY AudioAt DEF Audio!SyncStaged, Audio!At
<1>2. CASE Audio!Refuse(e)
    BY <1>1, <1>2, AudioRefused DEF Audio!Refuse
<1>3. CASE Audio!Upd(e, [Audio!Goto(e, "link") EXCEPT !.synced = TRUE])
    <2>1. PICK r : r = [Audio!Goto(e, "link") EXCEPT !.synced = TRUE]
        OBVIOUS
    <2>2. /\ r \in Extractions /\ r.pc = "link" /\ r.audio = extractors[e].audio
          /\ r.outcome = extractors[e].outcome /\ r.synced
        BY <1>1, <2>1 DEF Extractions, Installing, Audio!Goto
    <2>3. r.outcome # "ok" /\ Made(r.audio)
        BY <1>1, <2>2 DEF Installs, Installing
    <2>4. Reads(r, volume) /\ Installs(r, volume) /\ ~Copies(r) /\ ~Owns(r)
        BY <1>3, <2>2, <2>3 DEF Reads, Installs, Installing, Copies, Owns
    <2>5. QED
        BY <1>1, <1>3, <2>1, <2>2, <2>4, AudioQuiet
<1>4. QED
    BY <1>2, <1>3 DEF Audio!SyncStaged

(* The output is synced, by whoever compared it or copied it; the others see no
   difference. *)
LEMMA AudioSyncs ==
  ASSUME AudioInv, NEW e \in Extractors, Audio!SyncOutput(e) \/ Audio!SyncCopy(e),
         volume' = [volume EXCEPT !.dataSynced = TRUE],
         Audio!Upd(e, Audio!Goto(e, "sync_name"))
  PROVE  AudioInv'
<1>1. /\ volume \in Volumes /\ extractors[e] \in Extractions
      /\ extractors[e].pc \in {"sync_output", "sync_copy"}
      /\ Reads(extractors[e], volume) /\ Installs(extractors[e], volume)
      /\ volume.versions # <<>>
    BY AudioAt DEF Audio!SyncOutput, Audio!SyncCopy, Audio!At
<1>2. PICK r : r = Audio!Goto(e, "sync_name")
    OBVIOUS
<1>3. /\ r \in Extractions /\ r.pc = "sync_name" /\ r.audio = extractors[e].audio
      /\ r.outcome = extractors[e].outcome /\ r.relies = extractors[e].relies
    BY <1>1, <1>2 DEF Extractions, Installing, Audio!Goto
<1>4. PICK w : w = [volume EXCEPT !.dataSynced = TRUE]
    OBVIOUS
<1>5. /\ w \in Volumes /\ w.versions = volume.versions /\ w.output = volume.output
      /\ w.dataSynced /\ w.nameSynced = volume.nameSynced
    BY <1>1, <1>4 DEF Volumes
<1>6. /\ r.outcome # "ok" /\ Made(r.audio)
      /\ volume.output = r.audio \/ r.relies = "undone"
      /\ Owns(r) => Copies(extractors[e])
    BY <1>1, <1>3 DEF Installs, Installing, Owns, Copies
<1>7. Reads(r, w) /\ Installs(r, w) /\ ~Copies(r)
    BY <1>3, <1>5, <1>6 DEF Reads, Installs, Installing, Copies
<1>8. ASSUME NEW g \in Extractors
      PROVE  Reads(extractors[g], w) /\ Installs(extractors[g], w)
    <2>1. Reads(extractors[g], volume) /\ Installs(extractors[g], volume)
        BY AudioAt
    <2>2. QED
        BY <1>5, <2>1, SyncedMore
<1>9. volume' = w /\ Audio!Upd(e, r)
    BY <1>2, <1>4
<1>10. volume' \in Volumes /\ volume'.versions # <<>>
    BY <1>1, <1>5, <1>9
<1>11. /\ Reads(r, volume') /\ Installs(r, volume')
       /\ \A g \in Extractors \ {e} :
            Reads(extractors[g], volume') /\ Installs(extractors[g], volume')
    BY <1>7, <1>8, <1>9
<1>12. QED
    BY <1>3, <1>6, <1>7, <1>9, <1>10, <1>11, AudioCall

LEMMA AudioSyncsOutput ==
  ASSUME AudioInv, NEW e \in Extractors, Audio!SyncOutput(e) PROVE AudioInv'
<1>1. CASE Audio!Refuse(e) /\ UNCHANGED volume
    BY <1>1, AudioRefused DEF Audio!Refuse
<1>2. CASE /\ volume' = [volume EXCEPT !.dataSynced = TRUE]
           /\ Audio!Upd(e, Audio!Goto(e, "sync_name"))
    BY <1>2, AudioSyncs
<1>3. QED
    BY <1>1, <1>2 DEF Audio!SyncOutput

(* Nobody owns an output that is not a whole audio. *)
LEMMA NobodyOwns ==
  ASSUME AudioInv, ~Made(volume.output)
  PROVE  \A g \in Extractors : ~Owns(extractors[g])
BY AudioAt DEF Installs, Installing, Owns

(* While one call copies, no other does, and the output is not what another counts
   on. *)
LEMMA AudioWrites ==
  ASSUME AudioInv, NEW e \in Extractors, NEW r \in Extractions, Audio!Upd(e, r),
         NEW w \in Volumes, volume' = w, w.versions = volume.versions,
         ~Made(volume.output), Reads(r, w), Installs(r, w),
         \A g \in Extractors \ {e} : ~Copies(extractors[g])
  PROVE  AudioInv'
<1>1. volume.versions # <<>>
    BY AudioAt
<1>2. volume' \in Volumes /\ volume'.versions # <<>>
    BY <1>1
<1>3. ASSUME NEW g \in Extractors \ {e}
      PROVE  Reads(extractors[g], w) /\ Installs(extractors[g], w)
    <2>1. Reads(extractors[g], volume) /\ Installs(extractors[g], volume)
        BY AudioAt
    <2>2. QED
        BY <2>1, NotCounted
<1>4. /\ Reads(r, volume') /\ Installs(r, volume')
      /\ \A g \in Extractors \ {e} :
           Reads(extractors[g], volume') /\ Installs(extractors[g], volume')
    BY <1>3
<1>5. Copies(extractors[e]) \/ \A g \in Extractors : ~Copies(extractors[g]) /\ ~Owns(extractors[g])
    BY NobodyOwns
<1>6. QED
    BY <1>2, <1>4, <1>5, AudioCall

LEMMA AudioLinks ==
  ASSUME AudioInv, NEW e \in Extractors, Audio!Link(e) PROVE AudioInv'
<1>1. /\ volume \in Volumes /\ extractors[e] \in Extractions /\ extractors[e].pc = "link"
      /\ Reads(extractors[e], volume) /\ Installs(extractors[e], volume)
    BY AudioAt DEF Audio!Link, Audio!At
<1>2. CASE Audio!Refuse(e) /\ UNCHANGED volume
    BY <1>2, AudioRefused DEF Audio!Refuse
<1>3. Made(extractors[e].audio) /\ extractors[e].outcome # "ok" /\ extractors[e].synced
    BY <1>1 DEF Installs, Installing
<1>4. ASSUME volume.output = None
      PROVE  ~Made(volume.output) /\ \A g \in Extractors : ~Copies(extractors[g])
    <2>1. ~Made(volume.output) /\ None # Audio!Partial
        BY <1>4, NoneMade, ToolsAssumed
           DEF Audio!Assumptions, Audio!Partial, Audio!Audios
    <2>2. ASSUME NEW g \in Extractors, Copies(extractors[g]) PROVE FALSE
        <3>1. Installs(extractors[g], volume)
            BY AudioAt
        <3>2. Made(extractors[g].audio)
            BY <2>2, <3>1 DEF Installs, Installing, Copies
        <3>3. QED
            BY <1>4, <2>1, <2>2, <3>1, <3>2 DEF Installs, Copies
    <2>3. QED
        BY <2>1, <2>2
<1>5. CASE /\ volume.output = None
           /\ volume' = Audio!Named(e, extractors[e].audio, extractors[e].synced)
           /\ Audio!Upd(e, Audio!Goto(e, "sync_name"))
    <2>1. PICK r : r = Audio!Goto(e, "sync_name")
        OBVIOUS
    <2>2. /\ r \in Extractions /\ r.pc = "sync_name" /\ r.audio = extractors[e].audio
          /\ r.outcome = extractors[e].outcome
        BY <1>1, <2>1 DEF Extractions, Installing, Audio!Goto
    <2>3. PICK w : w = Audio!Named(e, extractors[e].audio, extractors[e].synced)
        OBVIOUS
    <2>4. /\ w \in Volumes /\ w.versions = volume.versions
          /\ w.output = extractors[e].audio /\ w.dataSynced
        BY <1>1, <1>3, <2>3 DEF Volumes, Audio!Named, Made
    <2>5. Reads(r, w) /\ Installs(r, w)
        BY <1>3, <2>2, <2>4 DEF Reads, Installs, Installing
    <2>6. volume' = w /\ Audio!Upd(e, r)
        BY <1>5, <2>1, <2>3
    <2>7. QED
        BY <1>4, <1>5, <2>2, <2>4, <2>5, <2>6, AudioWrites
<1>6. CASE /\ volume.output = None
           /\ volume' = Audio!Named(e, Audio!Partial, FALSE)
           /\ Audio!Upd(e, Audio!Goto(e, "copy"))
    <2>1. PICK r : r = Audio!Goto(e, "copy")
        OBVIOUS
    <2>2. /\ r \in Extractions /\ r.pc = "copy" /\ r.audio = extractors[e].audio
          /\ r.outcome = extractors[e].outcome
        BY <1>1, <2>1 DEF Extractions, Installing, Audio!Goto
    <2>3. PICK w : w = Audio!Named(e, Audio!Partial, FALSE)
        OBVIOUS
    <2>4. Audio!Partial \in Audio!Audios
        BY DEF Audio!Partial, Audio!Audios
    <2>5. /\ w \in Volumes /\ w.versions = volume.versions
          /\ w.output = Audio!Partial
        BY <1>1, <2>3, <2>4 DEF Volumes, Audio!Named
    <2>6. Reads(r, w) /\ Installs(r, w)
        BY <1>3, <1>6, <2>2, <2>5 DEF Reads, Installs, Installing
    <2>7. volume' = w /\ Audio!Upd(e, r)
        BY <1>6, <2>1, <2>3
    <2>8. QED
        BY <1>4, <1>6, <2>2, <2>5, <2>6, <2>7, AudioWrites
<1>7. QED
    BY <1>2, <1>5, <1>6 DEF Audio!Link

(* While a call copies, nobody else does, or finished the output. *)
LEMMA OneCopies ==
  ASSUME AudioInv, NEW e \in Extractors, Copies(extractors[e])
  PROVE  \A g \in Extractors \ {e} : ~Copies(extractors[g]) /\ ~Owns(extractors[g])
BY DEF AudioInv

(* Whoever found a copy that is removed is marked. *)
LEMMA AudioCopyFails ==
  ASSUME AudioInv, NEW e \in Extractors, Copies(extractors[e]), Audio!CopyFails(e)
  PROVE  AudioInv'
<1>1. CASE Audio!Refuse(e) /\ UNCHANGED volume
    BY <1>1, AudioRefused DEF Audio!Refuse
<1>2. ASSUME extractors' = [g \in Extractors |->
               IF g = e THEN Audio!Ended(e, "refused")
               ELSE IF extractors[g].relies = "found" /\ extractors[g].audio = volume.output
               THEN [extractors[g] EXCEPT !.relies = "undone"]
               ELSE extractors[g]],
             volume' = [volume EXCEPT !.output = None, !.nameSynced = FALSE]
      PROVE  AudioInv'
    <2>1. /\ volume \in Volumes /\ volume.versions # <<>> /\ extractors[e] \in Extractions
        BY AudioAt
    <2>2. PICK w : w = [volume EXCEPT !.output = None, !.nameSynced = FALSE]
        OBVIOUS
    <2>3. /\ w \in Volumes /\ w.versions = volume.versions /\ volume' = w
        BY <1>2, <2>1, <2>2 DEF Volumes
    <2>4. ASSUME NEW g \in Extractors
          PROVE  /\ extractors'[g] \in Extractions
                 /\ Reads(extractors'[g], w) /\ Installs(extractors'[g], w)
                 /\ ~Copies(extractors'[g])
        <3>1. CASE g = e
            <4>1. extractors'[g] = Audio!Ended(e, "refused")
                BY <1>2, <3>1
            <4>2. QED
                BY <2>1, <4>1, AudioEnds
        <3>2. CASE g # e
            <4>1. /\ extractors[g] \in Extractions
                  /\ Reads(extractors[g], volume) /\ Installs(extractors[g], volume)
                BY AudioAt
            <4>2. ~Copies(extractors[g]) /\ ~Owns(extractors[g])
                BY <3>2, OneCopies
            <4>3. PICK u \in Audio!Reliances :
                    u = IF extractors[g].relies = "found" /\ extractors[g].audio = volume.output
                        THEN "undone" ELSE extractors[g].relies
                BY <4>1 DEF Extractions, Audio!Reliances
            <4>4. PICK x : x = [extractors[g] EXCEPT !.relies = u]
                OBVIOUS
            <4>5. extractors'[g] = x
                BY <1>2, <3>2, <4>1, <4>3, <4>4 DEF Extractions
            <4>6. /\ x \in Extractions /\ x.pc = extractors[g].pc /\ x.held = extractors[g].held
                  /\ x.audio = extractors[g].audio /\ x.synced = extractors[g].synced
                  /\ x.outcome = extractors[g].outcome /\ x.relies = u
                BY <4>1, <4>4 DEF Extractions
            <4>7. Reads(x, w)
                BY <2>3, <4>1, <4>6 DEF Reads
            <4>8. extractors[g].relies \in {"own", "found", "undone"}
                BY <4>1 DEF Extractions, Audio!Reliances
            <4>9. Installs(x, w)
                BY <2>3, <4>1, <4>2, <4>3, <4>6, <4>8
                   DEF Installs, Installing, Copies, Owns
            <4>10. QED
                BY <4>2, <4>5, <4>6, <4>7, <4>9 DEF Copies
        <3>3. QED
            BY <3>1, <3>2
    <2>5. extractors' = [g \in Extractors |-> extractors'[g]]
        BY <1>2
    <2>6. extractors' \in [Extractors -> Extractions]
        BY <2>4, <2>5
    <2>7. QED
        BY <2>1, <2>3, <2>4, <2>6 DEF AudioInv
<1>3. QED
    BY <1>1, <1>2 DEF Audio!CopyFails

LEMMA AudioCopies ==
  ASSUME AudioInv, NEW e \in Extractors, Audio!Copy(e) PROVE AudioInv'
<1>1. /\ volume \in Volumes /\ extractors[e] \in Extractions /\ extractors[e].pc = "copy"
      /\ Installs(extractors[e], volume) /\ Copies(extractors[e])
    BY AudioAt DEF Audio!Copy, Audio!At, Copies
<1>2. CASE Audio!CopyFails(e)
    BY <1>1, <1>2, AudioCopyFails
<1>3. CASE /\ volume' = [volume EXCEPT !.output = extractors[e].audio, !.dataSynced = FALSE]
           /\ Audio!Upd(e, Audio!Goto(e, "sync_copy"))
    <2>1. PICK r : r = Audio!Goto(e, "sync_copy")
        OBVIOUS
    <2>2. /\ r \in Extractions /\ r.pc = "sync_copy" /\ r.audio = extractors[e].audio
          /\ r.outcome = extractors[e].outcome
        BY <1>1, <2>1 DEF Extractions, Installing, Audio!Goto
    <2>3. /\ Made(extractors[e].audio) /\ r.outcome # "ok"
          /\ volume.output = Audio!Partial
        BY <1>1, <2>2 DEF Installs, Installing
    <2>4. PICK w : w = [volume EXCEPT !.output = extractors[e].audio, !.dataSynced = FALSE]
        OBVIOUS
    <2>5. /\ w \in Volumes /\ w.versions = volume.versions
          /\ w.output = extractors[e].audio
        BY <1>1, <2>3, <2>4 DEF Volumes, Made
    <2>6. Reads(r, w) /\ Installs(r, w)
        BY <2>2, <2>3, <2>5 DEF Reads, Installs, Installing
    <2>7. volume' = w /\ Audio!Upd(e, r) /\ ~Made(volume.output)
        BY <1>3, <2>1, <2>3, <2>4, NoneMade
    <2>8. QED
        BY <1>1, <2>2, <2>5, <2>6, <2>7, OneCopies, AudioWrites
<1>4. QED
    BY <1>2, <1>3 DEF Audio!Copy

LEMMA AudioSyncsCopy ==
  ASSUME AudioInv, NEW e \in Extractors, Audio!SyncCopy(e) PROVE AudioInv'
<1>1. CASE Audio!CopyFails(e)
    BY <1>1, AudioCopyFails DEF Audio!SyncCopy, Audio!At, Copies
<1>2. CASE /\ volume' = [volume EXCEPT !.dataSynced = TRUE]
           /\ Audio!Upd(e, Audio!Goto(e, "sync_name"))
    BY <1>2, AudioSyncs
<1>3. QED
    BY <1>1, <1>2 DEF Audio!SyncCopy

LEMMA AudioSyncsName ==
  ASSUME AudioInv, NEW e \in Extractors, Audio!SyncName(e) PROVE AudioInv'
<1>1. /\ volume \in Volumes /\ extractors[e] \in Extractions /\ extractors[e].pc = "sync_name"
      /\ Installs(extractors[e], volume) /\ volume.versions # <<>>
    BY AudioAt DEF Audio!SyncName, Audio!At
<1>2. CASE Audio!Refuse(e) /\ UNCHANGED volume
    BY <1>2, AudioRefused DEF Audio!Refuse
<1>3. CASE /\ volume' = [volume EXCEPT !.nameSynced = TRUE]
           /\ Audio!Upd(e, Audio!Ended(e, "ok"))
    <2>1. PICK c \in Nat, u \in Audio!Reliances :
            c = extractors[e].calls /\ u = extractors[e].relies
        BY <1>1 DEF Extractions
    <2>2. PICK a : a = extractors[e].audio
        OBVIOUS
    <2>3. Made(a)
        BY <1>1, <2>2 DEF Installs, Installing
    <2>4. PICK r : r = [pc |-> "ended", calls |-> c, held |-> None, audio |-> a,
                        synced |-> FALSE, relies |-> u, outcome |-> "ok"]
        OBVIOUS
    <2>5. Audio!Ended(e, "ok") = r
        <3>1. /\ (IF "ok" = "ok" THEN extractors[e].relies ELSE "own") = u
              /\ (IF "ok" = "ok" THEN extractors[e].audio ELSE None) = a
            BY <2>1, <2>2
        <3>2. Audio!Ended(e, "ok") = [Audio!Idle EXCEPT !.pc = "ended", !.calls = c,
                                        !.outcome = "ok", !.relies = u, !.audio = a]
            BY <2>1, <3>1 DEF Audio!Ended
        <3>3. QED
            BY <2>4, <3>2 DEF Audio!Idle
    <2>6. /\ r \in Extractions /\ r.pc = "ended" /\ r.outcome = "ok" /\ r.audio = a
          /\ r.relies = u
        BY <2>3, <2>4 DEF Extractions, Made, Audio!Outcomes
    <2>7. PICK w : w = [volume EXCEPT !.nameSynced = TRUE]
        OBVIOUS
    <2>8. /\ w \in Volumes /\ w.versions = volume.versions /\ w.output = volume.output
          /\ w.dataSynced = volume.dataSynced /\ w.nameSynced
        BY <1>1, <2>7 DEF Volumes
    <2>9. (volume.output = a /\ volume.dataSynced) \/ u = "undone"
        BY <1>1, <2>1, <2>2 DEF Installs
    <2>10. Reads(r, w) /\ Installs(r, w) /\ ~Copies(r)
        BY <2>3, <2>6, <2>8, <2>9 DEF Reads, Installs, Installing, Copies
    <2>11. ASSUME NEW g \in Extractors
           PROVE  Reads(extractors[g], w) /\ Installs(extractors[g], w)
        <3>1. Reads(extractors[g], volume) /\ Installs(extractors[g], volume)
            BY AudioAt
        <3>2. QED
            BY <2>8, <3>1, SyncedMore
    <2>12. volume' = w /\ Audio!Upd(e, r)
        BY <1>3, <2>5, <2>7
    <2>13. /\ volume' \in Volumes /\ volume'.versions # <<>>
           /\ Reads(r, volume') /\ Installs(r, volume')
           /\ \A g \in Extractors \ {e} :
                Reads(extractors[g], volume') /\ Installs(extractors[g], volume')
        BY <1>1, <2>8, <2>10, <2>11, <2>12
    <2>14. Owns(r) => Owns(extractors[e])
        BY <1>1, <2>1, <2>6 DEF Owns
    <2>15. QED
        BY <2>6, <2>10, <2>12, <2>13, <2>14, AudioCall
<1>4. QED
    BY <1>2, <1>3 DEF Audio!SyncName

LEMMA AudioStep == AudioInv /\ [Audio!Next]_audio_vars => AudioInv'
<1>1. ASSUME AudioInv, NEW e \in Extractors, Audio!Extract(e) PROVE AudioInv'
    <2>1. CASE Audio!Killed(e)
        BY <1>1, <2>1, AudioRefused DEF Audio!Killed
    <2>2. QED
        BY <1>1, <2>1, AudioStarts, AudioReads, AudioFfmpegEnds, AudioChecks, AudioCompares,
           AudioSyncsOutput, AudioSyncsStaged, AudioLinks, AudioCopies, AudioSyncsCopy,
           AudioSyncsName DEF Audio!Extract
<1>2. ASSUME AudioInv, UNCHANGED audio_vars PROVE AudioInv'
    <2>1. volume' = volume /\ extractors' = extractors
        BY <1>2 DEF audio_vars
    <2>2. QED
        BY <1>2, <2>1 DEF AudioInv
<1>3. QED
    BY <1>1, <1>2, AudioRewrite, AudioPowerLoss DEF Audio!Next

LEMMA AudioIsKept == AudioInv => Audio!AudioKept
<1>1. ASSUME AudioInv, NEW e \in Extractors, extractors[e].outcome = "ok"
      PROVE  \/ volume.output = extractors[e].audio
                /\ volume.output \notin {Audio!Torn, Audio!Partial}
             \/ extractors[e].relies = "undone"
    <2>1. Installs(extractors[e], volume)
        BY <1>1, AudioAt
    <2>2. QED
        BY <1>1, <2>1, NoneMade DEF Installs
<1>2. QED
    BY <1>1 DEF Audio!AudioKept

-----------------------------------------------------------------------------

MediaInv ==
  /\ tool = "video" => VideoInv
  /\ tool = "audio" => AudioInv

LEMMA MediaMoves == MediaInv /\ [Next]_vars => MediaInv'
<1>1. ASSUME MediaInv, Next PROVE MediaInv'
    <2>1. tool' = tool
        BY <1>1 DEF Next
    <2>2. ASSUME tool = "video" PROVE VideoInv'
        <3>1. Video!Next
            BY <1>1, <2>2 DEF Next
        <3>2. QED
            BY <1>1, <2>2, <3>1, VideoStep DEF MediaInv
    <2>3. ASSUME tool = "audio" PROVE AudioInv'
        <3>1. Audio!Next
            BY <1>1, <2>3 DEF Next
        <3>2. QED
            BY <1>1, <2>3, <3>1, AudioStep DEF MediaInv
    <2>4. QED
        BY <2>1, <2>2, <2>3 DEF MediaInv
<1>2. ASSUME MediaInv, UNCHANGED vars PROVE MediaInv'
    <2>1. tool' = tool /\ UNCHANGED video_vars /\ UNCHANGED audio_vars
        BY <1>2 DEF vars
    <2>2. QED
        BY <1>2, <2>1, VideoStep, AudioStep DEF MediaInv
<1>3. QED
    BY <1>1, <1>2

(* A video that a call reported as downloaded or present is whole, unless another
   invocation renamed something over it that it did not report; audio that a call
   installed and reported is under its name for good, through power losses, and so is
   audio it found there, unless it was another call's copy that failed and was removed:
   VideoKept and AudioKept, for any numbers of invocations, calls, rewrites and losses. *)
THEOREM MediaIsKept == Spec => []MediaKept
<1>1. Init => MediaInv
    BY VideoStart, AudioStart DEF Init, MediaInv
<1>2. MediaInv /\ [Next]_vars => MediaInv'
    BY MediaMoves
<1>3. MediaInv => MediaKept
    BY VideoIsKept, AudioIsKept DEF MediaInv, MediaKept
<1>4. Spec => [][Next]_vars
    BY PTL DEF Spec
<1>5. QED
    BY <1>1, <1>2, <1>3, <1>4, PTL DEF Spec
=============================================================================

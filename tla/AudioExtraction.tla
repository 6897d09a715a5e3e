-------------------------- MODULE AudioExtraction --------------------------
(***************************************************************************)
(* One recording's audio under the name that a talk will declare:          *)
(* extract-local-audio.py, which installs a file and never replaces one.   *)
(*                                                                         *)
(* The recording may be rewritten in place, or another file may take its   *)
(* name, while ffmpeg reads it.  Processes are killed, syscalls fail, and  *)
(* the host loses power, which undoes whatever was not synced.             *)
(*                                                                         *)
(* Audio is known by the recording and its version; ffmpeg that reads two  *)
(* versions makes something torn.                                          *)
(***************************************************************************)
EXTENDS Naturals, Sequences

CONSTANTS
  Extractors,  \* whoever calls extract-local-audio.py for the output
  MaxCalls,    \* bound: calls of one of them
  MaxRewrites, \* bound: changes of the recording
  MaxLosses,   \* bound: power losses
  None

Audios == [file : Nat, version : Nat]

Outcomes == {"ok", "refused", "killed"}

\* Whose audio a call takes the output for: what it installs itself, what it found
\* there and compared, or what it found and another call has removed since.
Reliances == {"own", "found", "undone"}

Assumptions ==
  /\ {MaxCalls, MaxRewrites, MaxLosses} \subseteq Nat
  /\ None \notin Audios \union Outcomes

VARIABLES
  volume,      \* the recording's files, the output, and what survives a power loss
  extractors   \* what each call is at, and what it has seen and staged

audio_vars == <<volume, extractors>>

Partial == [file |-> 0, version |-> 0]
Torn    == [file |-> 0, version |-> 1]
Foreign == [file |-> 0, version |-> 2]

\* The files that have had the recording's name, in turn, each at its last version.
Version(file) == [file |-> file, version |-> volume.versions[file]]
Recording == Version(Len(volume.versions))

At(e, pc) == extractors[e].pc = pc
Goto(e, pc) == [extractors[e] EXCEPT !.pc = pc]
Upd(e, call) == extractors' = [extractors EXCEPT ![e] = call]

Idle ==
  [pc |-> "idle", calls |-> 0, held |-> None, audio |-> None, synced |-> FALSE,
         relies |-> "own", outcome |-> None]
Ended(e, outcome) ==
  [Idle EXCEPT !.pc = "ended", !.calls = extractors[e].calls, !.outcome = outcome,
               !.relies = IF outcome = "ok" THEN extractors[e].relies ELSE "own",
               !.audio = IF outcome = "ok" THEN extractors[e].audio ELSE None]
Refuse(e) == Upd(e, Ended(e, "refused"))

\* What a held descriptor reads: a rewrite in place shows, a file that took the
\* name does not.
Held(e) == Version(extractors[e].held.file)

Start(e) ==
  /\ At(e, "idle") \/ At(e, "ended")
  /\ extractors[e].calls < MaxCalls
  /\ Upd(e, [Idle EXCEPT !.pc = "read", !.calls = extractors[e].calls + 1, !.held = Recording])
  /\ UNCHANGED volume

\* ffmpeg begins to read, and is done; it may fail, or be stopped at the ceiling.
FfmpegReads(e) ==
  /\ At(e, "read")
  /\ Upd(e, [Goto(e, "write") EXCEPT !.audio = Held(e)])
  /\ UNCHANGED volume

FfmpegEnds(e) ==
  /\ At(e, "write")
  /\ \/ Upd(e, [Goto(e, "check") EXCEPT !.audio = IF @ = Held(e) THEN @ ELSE Torn])
     \/ Refuse(e)
  /\ UNCHANGED volume

\* mutant: the recording's generation is not compared after ffmpeg is done.
CheckRecording_Not(e) ==
  At(e, "check") /\ Upd(e, Goto(e, "install")) /\ UNCHANGED volume

\* The recording that was held must be as it was, and the owner's probe has to
\* take the audio.
CheckRecording(e) ==
  /\ At(e, "check")
  /\ \/ Held(e) = extractors[e].held /\ Upd(e, Goto(e, "install"))
     \/ Refuse(e)
  /\ UNCHANGED volume

----------------------------------------------------------------------------
\* _install.

\* Another call's audio, if it is the same, is a success to be synced; anything
\* else under the name stays.
Compare(e) ==
  /\ At(e, "install")
  /\ IF volume.output = None THEN Upd(e, Goto(e, "sync"))
     ELSE IF volume.output = extractors[e].audio
       THEN Upd(e, [Goto(e, "sync_output") EXCEPT !.relies = "found"])
     ELSE Refuse(e)
  /\ UNCHANGED volume

SyncOutput(e) ==
  /\ At(e, "sync_output")
  /\ \/ volume' = [volume EXCEPT !.dataSynced = TRUE] /\ Upd(e, Goto(e, "sync_name"))
     \/ Refuse(e) /\ UNCHANGED volume

\* mutant: ffmpeg's bytes are linked without being synced.
SyncStaged_Not(e) == At(e, "sync") /\ Upd(e, Goto(e, "link")) /\ UNCHANGED volume

SyncStaged(e) ==
  /\ At(e, "sync")
  /\ \/ Upd(e, [Goto(e, "link") EXCEPT !.synced = TRUE])
     \/ Refuse(e)
  /\ UNCHANGED volume

Named(e, audio, synced) ==
  [volume EXCEPT !.output = audio, !.dataSynced = synced, !.nameSynced = FALSE]

\* mutant: a link that fails is followed by a file that replaces what is there.
Link_Replaces(e) ==
  /\ At(e, "link")
  /\ \/ Refuse(e) /\ UNCHANGED volume
     \/ /\ volume.output = None
        /\ volume' = Named(e, extractors[e].audio, extractors[e].synced)
        /\ Upd(e, Goto(e, "sync_name"))
     \/ volume' = Named(e, Partial, FALSE) /\ Upd(e, Goto(e, "copy"))

\* A hard link or, when that fails for whatever reason but a taken name, a file that
\* is created exclusively: neither replaces what came there meanwhile.
Link(e) ==
  /\ At(e, "link")
  /\ \/ Refuse(e) /\ UNCHANGED volume      \* the name is taken, or cannot be created
     \/ /\ volume.output = None
        /\ \/ /\ volume' = Named(e, extractors[e].audio, extractors[e].synced)
              /\ Upd(e, Goto(e, "sync_name"))
           \/ /\ volume' = Named(e, Partial, FALSE)
              /\ Upd(e, Goto(e, "copy"))

\* The copy, its sync and its digest: what cannot be finished is removed, under
\* whoever found it there meanwhile.
CopyFails(e) ==
  \/ /\ extractors' = [g \in Extractors |->
                          IF g = e THEN Ended(e, "refused")
                          ELSE IF extractors[g].relies = "found" /\ extractors[g].audio = volume.output
                          THEN [extractors[g] EXCEPT !.relies = "undone"]
                          ELSE extractors[g]]
     /\ volume' = [volume EXCEPT !.output = None, !.nameSynced = FALSE]
  \/ Refuse(e) /\ UNCHANGED volume

Copy(e) ==
  /\ At(e, "copy")
  /\ \/ /\ volume' = [volume EXCEPT !.output = extractors[e].audio, !.dataSynced = FALSE]
        /\ Upd(e, Goto(e, "sync_copy"))
     \/ CopyFails(e)

SyncCopy(e) ==
  /\ At(e, "sync_copy")
  /\ \/ /\ volume' = [volume EXCEPT !.dataSynced = TRUE]
        /\ Upd(e, Goto(e, "sync_name"))
     \/ CopyFails(e)

\* A name that could not be synced is there all the same, and the next call for
\* the same audio syncs it.
SyncName(e) ==
  /\ At(e, "sync_name")
  /\ \/ volume' = [volume EXCEPT !.nameSynced = TRUE] /\ Upd(e, Ended(e, "ok"))
     \/ Refuse(e) /\ UNCHANGED volume

Killed(e) ==
  /\ ~At(e, "idle") /\ ~At(e, "ended")
  /\ Upd(e, Ended(e, "killed")) /\ UNCHANGED volume

Extract(e) ==
  \/ Start(e) \/ FfmpegReads(e) \/ FfmpegEnds(e) \/ CheckRecording(e)
  \/ Compare(e) \/ SyncOutput(e) \/ SyncStaged(e) \/ Link(e)
  \/ Copy(e) \/ SyncCopy(e) \/ SyncName(e) \/ Killed(e)

----------------------------------------------------------------------------

\* The recording is rewritten, or another file takes its name.
Rewrite ==
  /\ volume.rewrites < MaxRewrites
  /\ volume' \in {[volume EXCEPT !.rewrites = @ + 1, !.versions[Len(volume.versions)] = @ + 1],
                  [volume EXCEPT !.rewrites = @ + 1, !.versions = Append(@, 1)]}
  /\ UNCHANGED extractors

\* Every call is gone; a name that was not synced may be gone, and with bytes that
\* were not synced nobody knows what the file holds.
PowerLoss ==
  /\ volume.losses < MaxLosses
  /\ extractors' = [e \in Extractors |->
       IF At(e, "idle") \/ At(e, "ended") THEN extractors[e] ELSE Ended(e, "killed")]
  /\ \E output \in {volume.output} \union (IF volume.nameSynced THEN {} ELSE {None})
                    \union (IF volume.output = None \/ volume.dataSynced THEN {} ELSE {Partial}) :
       volume' = [volume EXCEPT !.losses = @ + 1, !.output = output,
                                !.nameSynced = TRUE, !.dataSynced = TRUE]

\* Nothing is there, or another recording's audio that a receipt may bind.
Init ==
  /\ \E output \in {None, Foreign} :
       volume = [versions |-> <<1>>, output |-> output,
                 dataSynced |-> TRUE, nameSynced |-> TRUE, rewrites |-> 0, losses |-> 0]
  /\ extractors = [e \in Extractors |-> Idle]

Next == Rewrite \/ PowerLoss \/ \E e \in Extractors : Extract(e)

Spec == Init /\ [][Next]_audio_vars

----------------------------------------------------------------------------

TypeOK ==
  /\ volume.output \in Audios \union {None} /\ volume.versions \in Seq(Nat)
  /\ {volume.dataSynced, volume.nameSynced} \subseteq BOOLEAN
  /\ \A e \in Extractors :
       /\ extractors[e].audio \in Audios \union {None}
       /\ extractors[e].outcome \in Outcomes \union {None}
       /\ extractors[e].relies \in Reliances

\* Audio that a call installed and reported, with its digest, stays, as the whole of
\* one version of the recording: no later call, no change of the recording, no failing
\* copy and no power loss takes it away, so what a receipt binds stays what it binds.
\* Not so for a call that found the audio there and reported that: if another call was
\* still copying it, and its copy fails, the copy is removed and that call refused.
AudioKept ==
  \A e \in Extractors : extractors[e].outcome = "ok" =>
    \/ volume.output = extractors[e].audio /\ volume.output \notin {Torn, Partial}
    \/ extractors[e].relies = "undone"

=============================================================================

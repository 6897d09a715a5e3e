-------------------------- MODULE TranscriptBundle --------------------------
(***************************************************************************)
(* One talk's transcript and its two receipts, as fetch-transcript.py      *)
(* keeps them: three files that only mean something together.              *)
(*                                                                         *)
(* A receipt names the exact bytes it is about.  The quality receipt tells *)
(* which recording's length the text was judged by, or that it was judged  *)
(* by the fixed floor; the timing receipt tells whose cues it holds.       *)
(*                                                                         *)
(* Several fetches of the talk may run, while its owner edits the text and *)
(* the recording is replaced; a fetch may be killed at any step, and each  *)
(* rename may fail.  The provider answers, or not, as it likes.            *)
(*                                                                         *)
(* A text is known by where it came from and how many words it has, which  *)
(* is all that validate_transcript and the receipts tell apart.            *)
(***************************************************************************)
EXTENDS Naturals, Sequences

CONSTANTS
  Fetchers,     \* whoever invokes fetch-transcript.py for the talk
  Recordings,   \* of {"short", "long", "recut"}: what the recording may be
  Tracks,       \* sizes of the caption tracks the provider may serve
  MaxRuns,      \* bound: runs of one invoker, a retry of a killed one included
  MaxChanges,   \* bound: edits of the text and replacements of the recording
  None

Wording == {"captions", "reflowed"}  \* a caption track, and its words laid out anew

Texts == [origin : Wording \union Recordings \union {"owner"}, size : {"few", "many", "huge"}]
Receipts == [of : Texts \union {None}, recording : Recordings \union {None}]
Timings == [of : Texts \union {None}, source : {"captions", "whisper"}, recording : Recordings]
Outcomes == {"ok", "refused", "failed", "killed"}

Assumptions ==
  /\ Recordings \subseteq {"short", "long", "recut"}
  /\ Tracks \subseteq {"few", "many", "huge"}
  /\ MaxRuns \in Nat /\ MaxChanges \in Nat
  /\ None \notin Fetchers \union Texts \union Receipts \union Timings \union Outcomes

VARIABLES
  bundle,    \* the three files, the recording, and whether it is a local file
  fetchers   \* what each invocation is at, has read and prepares

bundle_vars == <<bundle, fetchers>>

Lengthy == {"long", "recut"}
Files == {"text", "timing", "quality"}

Text(origin, size) == [origin |-> origin, size |-> size]

\* validate_transcript under the policy for a known recording, or the fixed one:
\* the floor, then words per minute from below and from above.
Fits(text, recording) ==
  CASE text.size = "few"  -> recording = "short"
    [] text.size = "many" -> recording \in Lengthy \union {None}
    [] text.size = "huge" -> recording = None

\* timing_enrichment_equivalent: the same words whatever the white space.
Equivalent(text, fetched) ==
  text.size = fetched.size /\ {text.origin, fetched.origin} \subseteq Wording

\* mutant: a receipt takes the digest of the file that is there when it is built.
Receipt_OfDisk(text, recording) == [of |-> bundle.text, recording |-> recording]

Receipt(text, recording) == [of |-> text, recording |-> recording]
Timing(text, source, recording) == [of |-> text, source |-> source, recording |-> recording]

QualityVerifies(b) == b.quality # None /\ b.text # None /\ b.quality.of = b.text
TimingVerifies(b)  == b.timing # None /\ b.text # None /\ b.timing.of = b.text

\* _timing_owner_matches: the owner's word on where the text came from, and the
\* recording as it is known now, have to agree with the receipt.
TimingOwned(f) ==
  /\ TimingVerifies(bundle)
  /\ bundle.timing.source = fetchers[f].claim
  /\ fetchers[f].known # None /\ bundle.timing.recording = fetchers[f].known

----------------------------------------------------------------------------

At(f, pc) == fetchers[f].pc = pc
Goto(f, pc) == [fetchers[f] EXCEPT !.pc = pc]

Upd(f, run) == fetchers' = [fetchers EXCEPT ![f] = run]

\* A file changes: whoever else is at work has not been alone with the bundle.
Write(f, run, b) ==
  /\ bundle' = b
  /\ fetchers' = [g \in Fetchers |-> IF g = f THEN run
                    ELSE [fetchers[g] EXCEPT !.alone = @ /\ (b = bundle \/ At(g, "idle"))]]

Idle ==
  [pc |-> "idle", runs |-> 0, force |-> FALSE, captions |-> FALSE, claim |-> None, seen |-> None,
   receipt |-> None, known |-> None, take |-> 0, plan |-> <<>>, new |-> None, base |-> None, at |-> 0,
   timed |-> FALSE, incomplete |-> FALSE, alone |-> TRUE, outcome |-> None]

\* What was read and prepared is of no use any more but to the properties.
End(f, outcome) ==
  [Idle EXCEPT !.pc = "ended", !.runs = fetchers[f].runs, !.outcome = outcome, !.alone = fetchers[f].alone,
               !.timed = outcome = "ok" /\ fetchers[f].timed, !.incomplete = fetchers[f].incomplete,
               !.base = IF outcome = "failed" THEN fetchers[f].base ELSE None]

\* The recording on disk is probed first; a provider is asked when need be.
Start(f) ==
  /\ At(f, "idle") \/ At(f, "ended")
  /\ fetchers[f].runs < MaxRuns
  /\ \E force, captions \in BOOLEAN, claim \in {"captions", "whisper", "manual"} :
       /\ bundle.local => ~captions
       /\ Upd(f, [Idle EXCEPT
                    !.pc = "look", !.runs = fetchers[f].runs + 1, !.force = force, !.captions = captions, !.claim = claim,
                    !.known = IF bundle.local THEN bundle.recording ELSE None, !.take = bundle.take])
  /\ UNCHANGED bundle

\* Bad arguments, a bundle behind symbolic links, a text that cannot be read.
Refuse(f) ==
  /\ At(f, "look")
  /\ Upd(f, End(f, "refused")) /\ UNCHANGED bundle

LookForText(f) ==
  /\ At(f, "look")
  /\ Upd(f, IF bundle.text # None /\ ~fetchers[f].force
            THEN [Goto(f, "judge") EXCEPT !.seen = bundle.text] ELSE Goto(f, "acquire"))
  /\ UNCHANGED bundle

\* What the provider says of the recording, if it answers.
Probed(f) == IF bundle.local THEN {fetchers[f].known} ELSE {bundle.recording, None}

NeedsProbe(f, receipt) ==
  \/ fetchers[f].seen.size = "few"
  \/ bundle.timing # None
  \/ receipt # None /\ receipt.recording # None
  \/ fetchers[f].claim = "captions" /\ fetchers[f].captions

VerifiedReceipt == IF QualityVerifies(bundle) THEN bundle.quality ELSE None

\* mutant: an unreachable provider is reason enough to write the fixed policy.
Keeps_Nothing(receipt, known) == receipt # None /\ receipt.recording = known

\* The receipt says what a new one would say, or the new one could only say less.
Keeps(receipt, known) ==
  /\ receipt # None
  /\ receipt.recording = known \/ known = None

\* The text that is there is judged by what is known now, and kept or refused.
Judge(f) ==
  /\ At(f, "judge")
  /\ LET receipt == VerifiedReceipt
         seen == fetchers[f].seen
     IN \E known \in IF bundle.local \/ NeedsProbe(f, receipt) THEN Probed(f) ELSE {None} :
          LET judged == [fetchers[f] EXCEPT !.known = known, !.receipt = receipt,
                           !.timed = bundle.local /\ TimingOwned(f),
                           !.plan = IF Keeps(receipt, known) THEN <<>> ELSE <<"quality">>,
                           !.new = [quality |-> Receipt(seen, known)]]
          IN Upd(f, IF ~Fits(seen, known) THEN End(f, "refused")
                    ELSE [judged EXCEPT !.pc = "stage"])
  /\ UNCHANGED bundle

----------------------------------------------------------------------------
\* A new text, from captions or from speech.

New(f, text, source, known, timed) ==
  [Goto(f, "stage") EXCEPT
     !.captions = FALSE, !.claim = None, !.known = known,
     !.plan = <<"timing", "quality", "text">>,
     !.new = [text |-> text, quality |-> Receipt(text, known),
              timing |-> IF timed /\ known # None THEN Timing(text, source, known) ELSE None]]

\* Tracks of a longer recording are told by their last cue, if the length is known.
FetchCaptions(f) ==
  /\ At(f, "acquire") /\ ~bundle.local /\ fetchers[f].captions
  /\ \E known \in Probed(f), size \in Tracks, timed \in BOOLEAN :
       /\ Fits(Text("captions", size), known)
       /\ Upd(f, New(f, Text("captions", size), "captions", known, timed))
  /\ UNCHANGED bundle

\* The lane before gave nothing.  Speech is that of the recording as it is now,
\* whose length replaces what was known, unless the two differ.
Transcribe(f) ==
  /\ At(f, "acquire")
  /\ LET speech == Text(bundle.recording, IF bundle.recording = "short" THEN "few" ELSE "many")
     IN \E timed \in BOOLEAN :
          LET known == IF bundle.local THEN fetchers[f].known ELSE bundle.recording IN
          /\ Fits(speech, known)
          /\ Upd(f, New(f, speech, "whisper", known, timed))
  /\ UNCHANGED bundle

NothingFetched(f) ==
  /\ At(f, "acquire")
  /\ Upd(f, End(f, "refused")) /\ UNCHANGED bundle

----------------------------------------------------------------------------
\* _replace_transactionally.

Replacing(f) == fetchers[f].plan # <<>>
NewText(f) == Len(fetchers[f].plan) = 3

\* A text that came into being meanwhile is not replaced without force.  Backups
\* are made of everything the plan will replace; the disk may be full.
Stage(f) ==
  /\ At(f, "stage")
  /\ \/ Upd(f, End(f, "refused"))
     \/ /\ NewText(f) => bundle.text = None \/ fetchers[f].force
        /\ Upd(f, [Goto(f, "guard") EXCEPT !.base = [k \in Files |-> bundle[k]]])
  /\ UNCHANGED bundle

\* mutant: the recording is not looked at again before the commit.
Guard_Blind(f) ==
  /\ At(f, "guard")
  /\ Upd(f, IF Replacing(f) THEN [Goto(f, "install") EXCEPT !.at = 1] ELSE Goto(f, "timing"))
  /\ UNCHANGED bundle

\* before_commit, which only a local recording has: neither it nor the text that
\* was judged may have changed.
Guard(f) ==
  /\ At(f, "guard")
  /\ Upd(f, IF /\ bundle.local
               /\ \/ bundle.take # fetchers[f].take
                  \/ ~NewText(f) /\ bundle.text # fetchers[f].seen
            THEN End(f, "refused")
            ELSE IF Replacing(f) THEN [Goto(f, "install") EXCEPT !.at = 1] ELSE Goto(f, "timing"))
  /\ UNCHANGED bundle

Install(f) ==
  /\ At(f, "install")
  /\ LET at == fetchers[f].at
         file == fetchers[f].plan[at]
         next == IF at < Len(fetchers[f].plan) THEN [fetchers[f] EXCEPT !.at = at + 1]
                 ELSE Goto(f, IF NewText(f) THEN "done" ELSE "timing")
     IN \/ Write(f, next, [bundle EXCEPT ![file] = fetchers[f].new[file]])
        \/ Upd(f, Goto(f, "rollback")) /\ UNCHANGED bundle

\* mutant: files that were not there before stay after a rollback.
Rollback_Backups(f) ==
  /\ At(f, "rollback")
  /\ LET at == fetchers[f].at
         file == fetchers[f].plan[at]
         next == IF at = 1 THEN End(f, "failed") ELSE [fetchers[f] EXCEPT !.at = at - 1]
     IN IF fetchers[f].base[file] # None
        THEN Write(f, next, [bundle EXCEPT ![file] = fetchers[f].base[file]])
        ELSE Upd(f, next) /\ UNCHANGED bundle

\* Every replacement that was attempted is undone, the last one first.  One that
\* cannot be undone is named, and does not stop the others.
Rollback(f) ==
  /\ At(f, "rollback")
  /\ LET at == fetchers[f].at
         file == fetchers[f].plan[at]
         next == IF at = 1 THEN End(f, "failed") ELSE [fetchers[f] EXCEPT !.at = at - 1]
     IN \/ Write(f, next, [bundle EXCEPT ![file] = fetchers[f].base[file]])
        \/ Upd(f, [next EXCEPT !.incomplete = TRUE]) /\ UNCHANGED bundle

----------------------------------------------------------------------------
\* The timing of a text that is kept: the receipt that is there, or one from a
\* caption track of the very same words.

TimingEnds(f) ==
  /\ At(f, "timing")
  /\ Upd(f, [Goto(f, "done") EXCEPT !.timed = IF bundle.local THEN @ ELSE TimingOwned(f)])
  /\ UNCHANGED bundle

Enrich(f) ==
  /\ At(f, "timing") /\ ~bundle.local /\ ~TimingOwned(f)
  /\ fetchers[f].claim = "captions" /\ fetchers[f].captions /\ fetchers[f].known # None
  /\ \E size \in Tracks :
       /\ Equivalent(fetchers[f].seen, Text("captions", size))
       /\ Write(f, [Goto(f, "done") EXCEPT !.timed = TRUE],
                [bundle EXCEPT !.timing = Timing(fetchers[f].seen, "captions", fetchers[f].known)])

Report(f) ==
  /\ At(f, "done")
  /\ Upd(f, [End(f, "ok") EXCEPT !.timed = fetchers[f].timed \/ (NewText(f) /\ fetchers[f].new.timing # None)])
  /\ UNCHANGED bundle

Killed(f) ==
  /\ ~At(f, "idle") /\ ~At(f, "ended")
  /\ Upd(f, End(f, "killed")) /\ UNCHANGED bundle

Fetch(f) ==
  \/ Start(f) \/ Refuse(f) \/ LookForText(f) \/ Judge(f)
  \/ FetchCaptions(f) \/ Transcribe(f) \/ NothingFetched(f)
  \/ Stage(f) \/ Guard(f) \/ Install(f) \/ Rollback(f)
  \/ TimingEnds(f) \/ Enrich(f) \/ Report(f) \/ Killed(f)

\* The owner writes, lays out anew or removes the text.
Edited(text) ==
  {text, Text("owner", "many"), None}
    \union {Text("reflowed", t.size) : t \in {u \in {text} \ {None} : u.origin \in Wording}}

\* An edit, or another recording under the same name.
Change ==
  /\ bundle.changes < MaxChanges
  /\ \E text \in Edited(bundle.text), recording \in Recordings :
       /\ (text = bundle.text) # (recording = bundle.recording)
       /\ Write(None, Idle,
            [bundle EXCEPT !.text = text, !.recording = recording, !.changes = @ + 1,
                           !.take = IF recording = bundle.recording THEN @ ELSE @ + 1])

\* At first there is nothing, or a caption text of before there were receipts.
Init ==
  /\ \E recording \in Recordings, local \in BOOLEAN,
        text \in {None} \union {Text("captions", size) : size \in Tracks} :
       bundle = [text |-> text, timing |-> None, quality |-> None,
                 recording |-> recording, local |-> local, take |-> 0, changes |-> 0]
  /\ fetchers = [f \in Fetchers |-> Idle]

Next == Change \/ \E f \in Fetchers : Fetch(f)

Spec == Init /\ [][Next]_bundle_vars

----------------------------------------------------------------------------

TypeOK ==
  /\ bundle.text \in Texts \union {None}
  /\ bundle.timing \in Timings \union {None} /\ bundle.quality \in Receipts \union {None}
  /\ \A f \in Fetchers :
       /\ fetchers[f].known \in Recordings \union {None}
       /\ fetchers[f].receipt \in Receipts \union {None}
       /\ fetchers[f].outcome \in Outcomes \union {None}

\* A receipt that verifies tells the truth about the text beside it, whatever was
\* edited, killed or half undone before: the text passes the policy the receipt
\* names, and the cues are those of its words.
ReceiptsHonest ==
  /\ QualityVerifies(bundle) => Fits(bundle.text, bundle.quality.recording)
  /\ TimingVerifies(bundle) =>
       IF bundle.timing.source = "captions" THEN bundle.text.origin \in Wording
       ELSE bundle.text.origin = bundle.timing.recording

\* What an invocation that was alone with the bundle reports is so: after "ok" a
\* text is there with receipts that verify, after a failure whose rollback was
\* complete the three files are those it found.
ReportTrue ==
  \A f \in Fetchers :
    LET run == fetchers[f] IN
    /\ run.outcome = "ok" /\ run.alone =>
         /\ QualityVerifies(bundle)
         /\ run.timed => TimingVerifies(bundle)
    /\ run.outcome = "failed" /\ run.alone /\ ~run.incomplete =>
         \A file \in Files : bundle[file] = run.base[file]

\* Without force, and with nobody else at work, an invocation neither replaces a
\* text nor takes away what a verified receipt knows of the recording's length,
\* however unreachable the provider is.
EvidenceKept ==
  [][\A f \in Fetchers :
       ~At(f, "idle") /\ ~fetchers[f].force /\ fetchers'[f].alone /\ bundle' # bundle
       => /\ bundle.text # None => bundle'.text = bundle.text
          /\ bundle.text # None /\ QualityVerifies(bundle) /\ bundle.quality.recording # None =>
               bundle'.quality # None /\ bundle'.quality.recording # None]_bundle_vars

=============================================================================

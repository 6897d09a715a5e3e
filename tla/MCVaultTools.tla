---------------------------- MODULE MCVaultTools ----------------------------
(* Independent commands side by side: a behaviour is that of one of them. *)
EXTENDS Naturals, Sequences

CONSTANTS
  Wall, Cleanup, Replies, Platforms,
  StatusRuns, PatternRuns, MaxGeneration, MaxSaves,
  Publishers, Targets, Services, AgentLinks, MaxLinks, MaxEdits,
  Fetchers, Recordings, Tracks, MaxFetches, MaxChanges,
  Invocations, MaxDownloads,
  Extractors, MaxExtracts, MaxRewrites, MaxLosses,
  Numbers, Frames,
  Artists, Models, Exts, MaxRenders, MaxMoves,
  None

VARIABLES
  tool,                \* the command this behaviour is about
  call, procs, pipes,
  summary, renderers,
  world, pubs,
  bundle, fetchers,
  names, downloads,
  volume, extractors,
  outline, assembly,
  studio, artists

Worker  == INSTANCE SupervisedWorker
Summary == INSTANCE SummaryFile WITH MaxEdits <- MaxSaves
Qr      == INSTANCE QrPublication
Bundle  == INSTANCE TranscriptBundle WITH MaxRuns <- MaxFetches
Video   == INSTANCE VideoDownload WITH MaxCalls <- MaxDownloads
Audio   == INSTANCE AudioExtraction WITH MaxCalls <- MaxExtracts
Deck    == INSTANCE DeckAssembly
Style   == INSTANCE StyleExploration

ASSUME ToolAssumptions ==
  /\ Worker!Assumptions /\ Summary!Assumptions /\ Qr!Assumptions
  /\ Bundle!Assumptions /\ Video!Assumptions /\ Audio!Assumptions
  /\ Deck!Assumptions /\ Style!Assumptions

worker_vars  == <<call, procs, pipes>>
summary_vars == <<summary, renderers>>
qr_vars      == <<world, pubs>>
bundle_vars  == <<bundle, fetchers>>
video_vars   == <<names, downloads>>
audio_vars   == <<volume, extractors>>
deck_vars    == <<outline, assembly>>
style_vars   == <<studio, artists>>

vars ==
  <<tool, worker_vars, summary_vars, qr_vars, bundle_vars, video_vars, audio_vars, deck_vars,
    style_vars>>

\* A command that this behaviour is not about does nothing.
NoWorker == call = [pc |-> "returned", clock |-> Wall] /\ procs = 0 /\ pipes = 0
NoQr     == world = 0 /\ pubs = [p \in Publishers |-> [pc |-> "off"]]
NoBundle == bundle = 0 /\ fetchers = [f \in Fetchers |-> [pc |-> "idle"]]
NoVideo  == names = 0 /\ downloads = <<>>
NoAudio  == volume = 0 /\ extractors = <<>>
NoDeck   == outline = 0 /\ assembly = <<>>
NoStyle  == studio = [versions |-> <<>>] /\ artists = [a \in Artists |-> [pc |-> "idle"]]

Init ==
  /\ tool \in {"worker", "summary", "qr", "bundle", "video", "audio", "deck", "style"}
  /\ IF tool = "worker"  THEN Worker!Init ELSE NoWorker
  /\ Summary!Init
  /\ IF tool = "qr"      THEN Qr!Init     ELSE NoQr
  /\ IF tool = "bundle"  THEN Bundle!Init ELSE NoBundle
  /\ IF tool = "video"   THEN Video!Init  ELSE NoVideo
  /\ IF tool = "audio"   THEN Audio!Init  ELSE NoAudio
  /\ IF tool = "deck"    THEN Deck!Init   ELSE NoDeck
  /\ IF tool = "style"   THEN Style!Init  ELSE NoStyle

Next ==
  /\ UNCHANGED tool
  /\ \/ tool = "worker" /\ Worker!Next
        /\ UNCHANGED <<summary_vars, qr_vars, bundle_vars, video_vars, audio_vars, deck_vars, style_vars>>
     \/ tool = "summary" /\ Summary!Next
        /\ UNCHANGED <<worker_vars, qr_vars, bundle_vars, video_vars, audio_vars, deck_vars, style_vars>>
     \/ tool = "qr" /\ Qr!Next
        /\ UNCHANGED <<worker_vars, summary_vars, bundle_vars, video_vars, audio_vars, deck_vars, style_vars>>
     \/ tool = "bundle" /\ Bundle!Next
        /\ UNCHANGED <<worker_vars, summary_vars, qr_vars, video_vars, audio_vars, deck_vars, style_vars>>
     \/ tool = "video" /\ Video!Next
        /\ UNCHANGED <<worker_vars, summary_vars, qr_vars, bundle_vars, audio_vars, deck_vars, style_vars>>
     \/ tool = "audio" /\ Audio!Next
        /\ UNCHANGED <<worker_vars, summary_vars, qr_vars, bundle_vars, video_vars, deck_vars, style_vars>>
     \/ tool = "deck" /\ Deck!Next
        /\ UNCHANGED <<worker_vars, summary_vars, qr_vars, bundle_vars, video_vars, audio_vars, style_vars>>
     \/ tool = "style" /\ Style!Next
        /\ UNCHANGED <<worker_vars, summary_vars, qr_vars, bundle_vars, video_vars, audio_vars, deck_vars>>

Spec == Init /\ [][Next]_vars /\ Worker!Fairness

TypesOK ==
  /\ tool = "worker" => Worker!TypeOK
  /\ tool = "summary" => Summary!TypeOK
  /\ tool = "qr" => Qr!TypeOK
  /\ tool = "bundle" => Bundle!TypeOK
  /\ tool = "video" => Video!TypeOK
  /\ tool = "audio" => Audio!TypeOK
  /\ tool = "deck" => Deck!TypeOK
  /\ tool = "style" => Style!TypeOK
\* What a call or a command reports is what happened.
ReportsTrue ==
  /\ tool = "worker" => Worker!OutcomeTruthful
  /\ tool = "qr" => Qr!ReceiptTrue
  /\ tool = "bundle" => Bundle!ReportTrue
\* A record beside an artifact tells the truth about it.
RecordsHonest ==
  /\ tool = "qr" => Qr!RecordTellsTarget
  /\ tool = "bundle" => Bundle!ReceiptsHonest
  /\ tool = "style" => Style!EvidenceIsOfModel
\* Audio that a call installed and reported, and a video, stay as they were reported,
\* through kills, failing syscalls, rewrites of the recording and power losses.  Two
\* kinds of damage are excepted, and each leaves a call that did not report success:
\* a video that another invocation replaced and then did not report, and audio that a
\* call only found, while another was copying it, whose copy then failed.
MediaKept ==
  /\ tool = "video" => Video!VideoKept
  /\ tool = "audio" => Audio!AudioKept
CallReturns == Worker!CallReturns
\* A run puts back no block it did not make, and what others decided, the one managed
\* link and the stronger evidence outlive it.
RecordsKept == Summary!BlocksKept /\ Qr!DecisionKept /\ Qr!OneManagedLink /\ Bundle!EvidenceKept
\* A numbered version of an image is not written over by who could have known of it.
VersionsKept == Style!VersionsKept
\* The deck is what its outline asks for, whatever the numbering and the frames.
DeckAssembled == tool = "deck" => Deck!DeckAssembled
=============================================================================

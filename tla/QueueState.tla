---------------------------- MODULE QueueState ----------------------------
(***************************************************************************)
(* The reprocessing queue that lives inside tracking-database.json: the    *)
(* claims (leases) queue-state.py issues and recovers, the returns         *)
(* persist-results.py merges, and the owner writers that change a talk's   *)
(* status or sources behind the queue's back.                              *)
(*                                                                         *)
(* One command = one step.  Every command loads one snapshot, validates    *)
(* it, computes a candidate and installs it only over that snapshot, so a  *)
(* command that lands behaves as if it ran alone: TrackingDatabaseIO       *)
(* proves that of the commit, and this module builds on it.                *)
(*                                                                         *)
(* What the commands read from outside the database is an input of the     *)
(* step: the capability of each talk's artifacts on disk, the talks whose  *)
(* scoring evidence went stale, the `--now` an operator passes, and the    *)
(* returns a worker wrote.                                                 *)
(***************************************************************************)
EXTENDS Naturals, FiniteSets

CONSTANTS
  Talks,          \* talk filenames, as numbers in filename order
  Runs,           \* run ids
  Batches,        \* batch ids
  Sources,        \* evidence sources a talk can have (video, slides, audio)
  Results,        \* statuses a return may carry
  InitStatuses,   \* statuses of the talks a database starts with
  RepairStatuses, \* statuses a source-repair plan may set
  RepairReasons,  \* reprocess reasons a source-repair plan may set
  Fillers,        \* writers that may fill in an empty source field of a listed talk
  Outside,        \* statuses a hand edit may leave on a claimed talk
  MaxTime,        \* bound on the timestamps passed as --now
  MaxGen,         \* bound on reprocess_generation
  NoClaim         \* a talk without a _queue_claim

Claimable == {"pending", "needs-reprocessing", "skipped_download_failed"}
Legacy    == {"skipped_no_video", "skipped_no_transcript"}
Inflight  == "reprocessing-inflight"
Analysed  == {"processed", "processed_partial"}
TerminalResults ==
  Analysed \union {"skipped_no_sources", "skipped_download_failed", "skipped_duplicate"}
KnownStatuses == Claimable \union Legacy \union TerminalResults \union {Inflight}

\* A filename the database has no record of: scan-shownotes.py may add it.
Unlisted == "unlisted"

\* reprocess_reason: "source_added", or one of the scoring-generation and
\* persisted-observation codes ("evidence"), or free text a repair wrote.
Reasons    == {"none", "source_added", "evidence", "other"}
Deliberate == {"source_added", "evidence"}

Times == 0 .. MaxTime
Gens  == 1 .. MaxGen

ClaimStates == {"claimed", "completed", "stale_recovered", "superseded"}
Closed      == ClaimStates \ {"claimed"}

Claim ==
  [ run      : Runs,
    batch    : Batches,
    at       : Times,             \* claimed_at
    prev     : Claimable,         \* previous_status
    gen      : Gens,              \* reprocess_generation
    state    : ClaimStates,
    result   : TerminalResults \union {"none"},
    excluded : SUBSET Talks ]     \* adherence_baseline.excluded_filenames

Talk ==
  [ status  : KnownStatuses \union {Unlisted},
    reason  : Reasons,
    sources : SUBSET Sources,
    gen     : 0 .. MaxGen,
    claim   : Claim \union {NoClaim},
    history : SUBSET Claim ]      \* _queue_claim_history

ASSUME NameAssumption == NoClaim \notin Claim
ASSUME TalksAssumption == Talks \subseteq Nat /\ IsFiniteSet(Talks)
ASSUME BoundsAssumption == MaxTime \in Nat /\ MaxGen \in Nat
ASSUME StatusAssumption ==
  /\ Results \subseteq TerminalResults
  /\ InitStatuses \subseteq (KnownStatuses \ {Inflight}) \union {Unlisted}
  /\ RepairStatuses \subseteq
       {"pending", "needs-reprocessing", "processed_partial", "skipped_no_sources"}
  /\ RepairReasons \subseteq Reasons
  /\ Outside \subseteq KnownStatuses \ {Inflight}
ASSUME FillersAssumption ==
  Fillers \subseteq
    {"scan_shownotes", "update_talk_publishing", "record_pptx", "source_repairs"}

VARIABLES
  talks,  \* the database: one record per filename
  saw,    \* history variable: the sources on record when a talk was last claimed
  filled  \* history variable: of those on record, the ones a writer has filled in since

vars == <<talks, saw, filled>>
history_vars == <<saw, filled>>

TypeOK ==
  /\ talks \in [Talks -> Talk]
  /\ {saw, filled} \subseteq [Talks -> SUBSET Sources]

-----------------------------------------------------------------------------
(* Reading the claims *)

HasClaim(k) == k.claim # NoClaim
Open(k) == HasClaim(k) /\ k.claim.state = "claimed"
Listed(db) == {t \in Talks : db[t].status # Unlisted}

\* Current claim and history of one talk.
AllClaims(k) == k.history \union (IF HasClaim(k) THEN {k.claim} ELSE {})

Id(c) == <<c.run, c.batch>>
SameIssue(c, d) == Id(c) = Id(d) /\ c.gen = d.gen
SameEpoch(c, d) == Id(c) = Id(d) /\ c.at = d.at

\* The talks whose current claim belongs to one run and batch.
Members(db, id) == {t \in Talks : HasClaim(db[t]) /\ Id(db[t].claim) = id}

\* The talks that ever held a claim of one run and batch.
ClaimedUnder(db, id) == {t \in Talks : \E c \in AllClaims(db[t]) : Id(c) = id}

LatestUnder(k, id) ==
  CHOOSE c \in AllClaims(k) :
    /\ Id(c) = id
    /\ \A d \in AllClaims(k) : Id(d) = id => d.gen <= c.gen

-----------------------------------------------------------------------------
(* The stored contract: what a database must satisfy to be loaded.  A      *)
(* reader that allows drift accepts a claimed talk under another status.   *)

DriftFree(k) == Open(k) => k.status = Inflight

ClaimContract(k) ==
  /\ \A c \in k.history : c.state \in Closed
  /\ \A c, d \in k.history : SameIssue(c, d) => c = d
  /\ k.status = Inflight => Open(k)
  /\ HasClaim(k) =>
       /\ k.claim.gen = k.gen
       /\ \A c \in k.history : ~SameIssue(c, k.claim)
       /\ k.claim.state = "completed" =>
            \/ k.status = k.claim.result
            \/ k.status = "needs-reprocessing" /\ k.reason \in Deliberate

\* The current claims of one run and batch were issued together.
SharedClaimTime(db) ==
  \A t, u \in Talks :
    (HasClaim(db[t]) /\ HasClaim(db[u]) /\ Id(db[t].claim) = Id(db[u].claim))
      => db[t].claim.at = db[u].claim.at

Epoch(db, c) == {t \in Talks : \E d \in AllClaims(db[t]) : SameEpoch(c, d)}

\* Every claim excludes exactly the talks claimed with it, each of them once.
ExactExclusion(db) ==
  \A t \in Talks : \A c \in AllClaims(db[t]) :
    /\ c.excluded = Epoch(db, c)
    /\ \A d \in AllClaims(db[t]) : SameEpoch(c, d) => c = d

BatchContract(db) == SharedClaimTime(db) /\ ExactExclusion(db)

\* require_current_tracking_database: drift is admitted.
Admitted(db) == BatchContract(db) /\ \A t \in Talks : ClaimContract(db[t])

\* Mutant: the queue loads a database with drift.
StrictWithDrift(db) == Admitted(db)

\* validate_database of queue-state.py: drift is refused.
Strict(db) == Admitted(db) /\ \A t \in Talks : DriftFree(db[t])

-----------------------------------------------------------------------------
Init ==
  /\ talks \in [Talks ->
       [ status  : InitStatuses, reason  : {"none"}, sources : SUBSET Sources,
         gen     : {0},          claim   : {NoClaim}, history : {{}} ]]
  /\ \A t \in Talks : talks[t].status \in {Unlisted} => talks[t].sources = {}
  /\ saw = [t \in Talks |-> {}]
  /\ filled = [t \in Talks |-> {}]

-----------------------------------------------------------------------------
(* queue-state.py *)

\* What the artifact probe reports of a talk: a usable source, a required
\* deck it cannot read, nothing to process, or an artifact only in the cloud.
\* The queue looks at the probe of a claimable or legacy talk only.
Capabilities == {"usable", "blocked", "none", "dataless"}

Probes(db) ==
  LET probed == {t \in Talks : db[t].status \in Claimable \union Legacy}
  IN {cap \in [Talks -> Capabilities] :
        \A t \in Talks : (db[t].sources = {} \/ t \notin probed) => cap[t] = "none"}

WithStatus(k, st, why) == [k EXCEPT !.status = st, !.reason = why]

LegacyNormalized(db, cap) ==
  [t \in Talks |->
     IF db[t].status \in Legacy /\ cap[t] # "dataless"
     THEN [db[t] EXCEPT !.status = IF cap[t] = "none" THEN "skipped_no_sources" ELSE "pending"]
     ELSE db[t]]

\* The analysed talks whose score is outside the current generation go back
\* to the queue; `stale` is what partition_pattern_scoring_cohort excluded.
Requeued(db, stale) ==
  [t \in Talks |-> IF t \in stale THEN WithStatus(db[t], "needs-reprocessing", "evidence")
                   ELSE db[t]]

AnalysedIn(db) == {t \in Talks : db[t].status \in Analysed}

Normalize ==
  /\ Strict(talks)
  /\ \E cap \in Probes(talks), stale \in SUBSET AnalysedIn(talks) :
       LET new == Requeued(LegacyNormalized(talks, cap), stale)
       IN /\ new # talks
          /\ Strict(new)
          /\ talks' = new
          /\ UNCHANGED history_vars

\* Mutant: only answered claims are archived.
ArchivedAnswered(k) ==
  IF HasClaim(k) /\ k.claim.state = "completed" THEN k.history \union {k.claim} ELSE k.history

\* Mutant: every archived claim is marked superseded.
ArchivedSuperseded(k) ==
  IF HasClaim(k) THEN k.history \union {[k.claim EXCEPT !.state = "superseded"]} ELSE k.history

\* archive_current_claim
Archived(k) ==
  CASE ~HasClaim(k) -> k.history
    [] Open(k)      -> k.history \union {[k.claim EXCEPT !.state = "superseded"]}
    [] OTHER        -> k.history \union {k.claim}

\* Mutant: the previous status is read after the talk went inflight.
LeasedLate(k, id, now, batch) ==
  [k EXCEPT
    !.history = Archived(k),
    !.gen     = k.gen + 1,
    !.status  = Inflight,
    !.claim   = [ run |-> id[1], batch |-> id[2], at |-> now, prev |-> Inflight,
                  gen |-> k.gen + 1, state |-> "claimed", result |-> "none",
                  excluded |-> batch ]]

\* claim_talk: a new generation under the batch's shared exclusion list.
Leased(k, id, now, batch) ==
  [k EXCEPT
    !.history = Archived(k),
    !.gen     = k.gen + 1,
    !.status  = Inflight,
    !.claim   = [ run |-> id[1], batch |-> id[2], at |-> now, prev |-> k.status,
                  gen |-> k.gen + 1, state |-> "claimed", result |-> "none",
                  excluded |-> batch ]]

FirstOf(S, n) == {t \in S : Cardinality({u \in S : u < t}) < n}

\* A batch identity that was used before is claimed again only when recovery
\* took back every one of its talks, and then as the same set of talks; while
\* its leases are open or completed the command is a replay that writes nothing.
MayClaim(id, requested) ==
  LET existing == ClaimedUnder(talks, id)
  IN existing # {} =>
       /\ requested \in {{}, existing}
       /\ \A t \in existing : LatestUnder(talks[t], id).state = "stale_recovered"

Named(id, requested) ==
  IF ClaimedUnder(talks, id) = {} THEN requested ELSE ClaimedUnder(talks, id)

Eligible(db, cap) == {t \in Talks : db[t].status \in Claimable /\ cap[t] = "usable"}

Selected(db, cap, id, requested, limit) ==
  IF Named(id, requested) # {} THEN Named(id, requested)
  ELSE FirstOf(Eligible(db, cap), limit)

ClaimBatch(db, cap, id, now, requested, limit) ==
  LET chosen == Selected(db, cap, id, requested, limit)
      new    == [t \in Talks |-> IF t \in chosen THEN Leased(db[t], id, now, chosen) ELSE db[t]]
  IN /\ Named(id, requested) # {} =>
          Cardinality(chosen) <= limit /\ chosen \subseteq Eligible(db, cap)
     /\ \A t \in chosen : db[t].gen < MaxGen
     /\ new # talks
     /\ Strict(new)
     /\ talks' = new
     /\ saw' = [t \in Talks |-> IF t \in chosen THEN talks[t].sources ELSE saw[t]]
     /\ filled' = [t \in Talks |-> IF t \in chosen THEN {} ELSE filled[t]]

\* The command: `requested` is {} when no --filename is given.
ClaimCommand ==
  /\ Strict(talks)
  /\ \E id \in Runs \X Batches, requested \in SUBSET Listed(talks) :
       /\ MayClaim(id, requested)
       /\ \E now \in Times, limit \in 1 .. Cardinality(Talks), cap \in Probes(talks) :
            ClaimBatch(LegacyNormalized(talks, cap), cap, id, now, requested, limit)

\* Mutant: recovery stops after the first expired lease.
DueFirst(db, now, age, runs) ==
  FirstOf({t \in Talks : /\ Open(db[t])
                         /\ db[t].claim.run \in runs
                         /\ db[t].status # Inflight \/ now - db[t].claim.at >= age}, 1)

\* The leases a recovery at `now` takes back: expired, or drifted at any age.
Due(db, now, age, runs) ==
  {t \in Talks :
    /\ Open(db[t])
    /\ db[t].claim.run \in runs
    /\ db[t].status # Inflight \/ now - db[t].claim.at >= age}

Released(k) ==
  [k EXCEPT !.status = k.claim.prev, !.claim = [k.claim EXCEPT !.state = "stale_recovered"]]

RecoverLeases(now, age, runs) ==
  LET due == Due(talks, now, age, runs)
      new == [t \in Talks |-> IF t \in due THEN Released(talks[t]) ELSE talks[t]]
  IN /\ \A t \in Talks : (Open(talks[t]) /\ talks[t].claim.run \in runs) => talks[t].claim.at <= now
     /\ due # {}
     /\ Strict(new)
     /\ talks' = new
     /\ UNCHANGED history_vars

Recover ==
  /\ Admitted(talks)
  /\ \E now \in Times, age \in Times \ {0}, runs \in {Runs} \union {{r} : r \in Runs} :
       RecoverLeases(now, age, runs)

-----------------------------------------------------------------------------
(* persist-results.py *)

\* validate_claim_against_talk for a return made under generation `gen`.
ReturnFits(k, gen) ==
  /\ k.claim.state = "claimed"
  /\ k.claim.gen = k.gen
  /\ gen = k.claim.gen
  /\ k.status = Inflight

\* Mutant: each return is checked against its own talk only.
BatchFitsPiecemeal(id, rets) ==
  /\ DOMAIN rets # {}
  /\ DOMAIN rets \subseteq Members(talks, id)
  /\ \A t \in DOMAIN rets : ReturnFits(talks[t], rets[t].gen)

\* validate_batch_claims_against_talks: the returns are those of every talk
\* whose current claim is of this run and batch, and the batch is whole.
BatchFits(id, rets) ==
  LET members == Members(talks, id)
  IN /\ members # {}
     /\ DOMAIN rets = members
     /\ \A t \in members : ReturnFits(talks[t], rets[t].gen)
     /\ \A t, u \in members : talks[t].claim.at = talks[u].claim.at
     /\ \A t \in members : talks[t].claim.excluded = members

\* Mutant: the claim is closed and the talk left inflight.
MergedInflight(k, ret) ==
  [k EXCEPT !.reason = "none",
            !.claim  = [k.claim EXCEPT !.state = "completed", !.result = ret.result]]

\* merge_talk and close_queue_claim
Merged(k, ret) ==
  [k EXCEPT !.status = ret.result, !.reason = "none",
            !.claim  = [k.claim EXCEPT !.state = "completed", !.result = ret.result]]

Return == [gen : Gens, result : Results]

PersistBatch(id, rets) ==
  /\ BatchFits(id, rets)
  /\ talks' = [t \in Talks |-> IF t \in DOMAIN rets THEN Merged(talks[t], rets[t]) ELSE talks[t]]
  /\ UNCHANGED history_vars

Persist ==
  /\ Admitted(talks)
  /\ \E id \in Runs \X Batches, answered \in SUBSET Listed(talks) :
       \E rets \in [answered -> Return] : PersistBatch(id, rets)

-----------------------------------------------------------------------------
(* The owner writers beside the queue.  Each validates its candidate as    *)
(* require_current_tracking_database does before it commits.               *)

\* Mutant: the owner writers do not look at the claim.
IdleOrNot(k) == k.status # Unlisted

Idle(k) == k.status \notin {Unlisted, Inflight} /\ ~Open(k)

\* `fill` are the sources that k has only because a field was filled in.
Install(t, k, fill) ==
  LET new == [talks EXCEPT ![t] = k]
  IN /\ new # talks
     /\ Admitted(new)
     /\ talks' = new
     /\ filled' = [filled EXCEPT ![t] = (@ \intersect k.sources) \union fill]
     /\ UNCHANGED saw

\* Source fields that are on record but hold nothing (null or ""), the ones
\* scan-shownotes.py fills in.  A plan whose `expect` names the empty value
\* registers no source in the eyes of _newly_registered_sources.
Blanks(k) == IF "source_repairs" \in Fillers THEN Sources \ k.sources ELSE {}

\* apply-source-repairs.py, one talk of a plan: the plan's talks are checked
\* and changed independently of one another, so a longer plan is a sequence.
RegistrationRequeues(k, src, blank, st, why) ==
  (src \ (k.sources \union blank) # {} /\ k.status \in Analysed)
    => st = "needs-reprocessing" /\ why = "source_added"

RepairSources ==
  /\ Admitted(talks)
  /\ \E t \in Talks :
       /\ Idle(talks[t])
       /\ \E src \in SUBSET Sources, blank \in SUBSET Blanks(talks[t]),
           st \in RepairStatuses \union {talks[t].status},
           why \in RepairReasons \union {talks[t].reason} :
            /\ RegistrationRequeues(talks[t], src, blank, st, why)
            /\ Install(t, [talks[t] EXCEPT !.sources = src, !.status = st, !.reason = why],
                       src \intersect blank)

\* Mutant: a talk that was analysed in part is not requeued.
AudioDeclaredWhole(k, s) ==
  LET with == [k EXCEPT !.sources = k.sources \union {s}]
  IN IF k.status = "processed" THEN WithStatus(with, "needs-reprocessing", "source_added") ELSE with

\* mutate-tracking-database.py declare_local_audio: a talk that was analysed,
\* or that the queue closed without sources, is requeued.
AudioDeclared(k, s) ==
  LET with == [k EXCEPT !.sources = k.sources \union {s}]
      closed == HasClaim(k) /\ k.claim.state = "completed"
  IN CASE k.status \in Analysed                        -> WithStatus(with, "needs-reprocessing", "source_added")
       [] k.status = "skipped_no_sources" /\ closed    -> WithStatus(with, "needs-reprocessing", "source_added")
       [] k.status = "skipped_no_sources" /\ ~closed   -> [with EXCEPT !.status = "pending"]
       [] OTHER                                        -> with

DeclareLocalAudio ==
  /\ Admitted(talks)
  /\ \E t \in Talks, s \in Sources :
       /\ Idle(talks[t])
       /\ Install(t, AudioDeclared(talks[t], s), {})

\* promote_source_alias: the official upload replaces the active source.
PromoteSourceAlias ==
  /\ Admitted(talks)
  /\ \E t \in Talks : \E old \in talks[t].sources, s \in Sources \ talks[t].sources :
       /\ Idle(talks[t])
       /\ Install(t, WithStatus([talks[t] EXCEPT !.sources = (@ \ {old}) \union {s}],
                                "needs-reprocessing", "source_added"), {})

\* migrate-tracking-database.py: gate_persisted_observations requeues the
\* analysed talks whose stored observations it cannot repair.
MigrateObservations ==
  /\ Admitted(talks)
  /\ \E broken \in SUBSET AnalysedIn(talks) \ {{}} :
       LET new == Requeued(talks, broken)
       IN /\ Admitted(new)
          /\ talks' = new
          /\ UNCHANGED history_vars

Filled(k, s) == [k EXCEPT !.sources = k.sources \union {s}]

\* scan-shownotes.py --apply: every new file becomes a pending talk and empty
\* source fields of listed talks are filled in, whatever their status.
ScanShownotes ==
  /\ Admitted(talks)
  /\ \E new \in SUBSET (Talks \ Listed(talks)), s \in Sources,
        filled_in \in SUBSET (IF "scan_shownotes" \in Fillers THEN Listed(talks) ELSE {}) :
       LET db == [t \in Talks |->
                    IF t \in new THEN [Filled(talks[t], s) EXCEPT !.status = "pending"]
                    ELSE IF t \in filled_in THEN Filled(talks[t], s) ELSE talks[t]]
       IN /\ db # talks
          /\ Admitted(db)
          /\ talks' = db
          /\ filled' = [t \in Talks |-> IF t \in filled_in THEN filled[t] \union ({s} \ talks[t].sources)
                                        ELSE filled[t]]
          /\ UNCHANGED saw

\* update_talk_publishing sets a published video_url on a listed talk.
UpdateTalkPublishing ==
  /\ "update_talk_publishing" \in Fillers
  /\ Admitted(talks)
  /\ \E t \in Listed(talks), s \in Sources : Install(t, Filled(talks[t], s), {s} \ talks[t].sources)

\* record_pptx points a matched talk's pptx_path at a catalogued deck.
RecordPptx ==
  /\ "record_pptx" \in Fillers
  /\ Admitted(talks)
  /\ \E t \in Listed(talks), s \in Sources : Install(t, Filled(talks[t], s), {s} \ talks[t].sources)

\* A hand edit, or a writer older than the queue, changes a claimed talk's
\* status: the stranded lease recover repairs.
OutsideEdit ==
  \E t \in Talks, st \in Outside :
    /\ Open(talks[t])
    /\ talks[t].status # st
    /\ talks' = [talks EXCEPT ![t].status = st]
    /\ UNCHANGED history_vars

-----------------------------------------------------------------------------
Next ==
  \/ Normalize
  \/ ClaimCommand
  \/ Recover
  \/ Persist
  \/ RepairSources
  \/ DeclareLocalAudio
  \/ PromoteSourceAlias
  \/ MigrateObservations
  \/ ScanShownotes
  \/ UpdateTalkPublishing
  \/ RecordPptx
  \/ OutsideEdit

Spec == Init /\ [][Next]_vars

-----------------------------------------------------------------------------
(* Properties *)

\* Every database a command leaves behind is one every reader accepts, and
\* with no outside edit one the queue itself accepts.  persist-results.py and
\* the owner writers rely on it: the first installs its merge without
\* validating it, the others do not look for drift.
Loadable == Admitted(talks) /\ (Outside = {} => Strict(talks))

\* A batch is answered whole or not at all: of the claims one claim command
\* issued, however many recoveries and later generations followed, either all
\* are completed or none (persist-results.py, validate_batch_claims_against_talks).
BatchAnsweredWhole ==
  \A t, u \in Talks : \A c \in AllClaims(talks[t]), d \in AllClaims(talks[u]) :
    (SameEpoch(c, d) /\ c.state = "completed") => d.state = "completed"

\* While nobody edits the database by hand, no batch is stranded: all members
\* of an open batch are still claimed under the exclusion list they were
\* issued with, so the gate of persist-results.py would take their returns.
OpenBatchAnswerable ==
  Outside = {} =>
    \A t \in Talks : Open(talks[t]) =>
      LET members == Members(talks, Id(talks[t].claim))
      IN /\ talks[t].claim.excluded = members
         /\ \A u \in members : Open(talks[u]) /\ talks[u].status = Inflight

\* A lease ends by a return or by recovery, never by being claimed over:
\* archive_current_claim would mark such a claim superseded, and no database
\* ever holds one.
NeverSuperseded ==
  \A t \in Talks : \A c \in AllClaims(talks[t]) : c.state # "superseded"

\* The generations of a talk's claims are 1 .. reprocess_generation, each used
\* once: no command loses a claim or issues a generation twice.
GenerationsGapFree ==
  \A t \in Talks :
    LET claims == AllClaims(talks[t])
    IN /\ {c.gen : c \in claims} = 1 .. talks[t].gen
       /\ Cardinality(claims) = talks[t].gen

\* A closed claim is evidence: no command reopens, rewrites or drops it, and a
\* claim changes only by being closed (docstring of queue-state.py: without
\* deleting the generation record).
ClosedClaimsKept ==
  [][\A t \in Talks : \A c \in AllClaims(talks[t]) :
       \E d \in AllClaims(talks'[t]) :
         /\ Id(d) = Id(c) /\ d.gen = c.gen /\ d.at = c.at /\ d.excluded = c.excluded
         /\ c.state \in Closed => d = c]_vars

\* What an analysis that lands did not see was filled in under the claim, by a
\* scan, a published video or a catalogued deck: these writers do not look at the
\* claim.  Repairs, declarations and promotions refuse a talk that a worker holds,
\* so nothing they register can slip in between a claim and its answer, whatever
\* recoveries, hand edits and later claims come in between.
ReturnMissesOnlyFilled ==
  [][\A t \in Talks :
       (talks[t].status = Inflight /\ talks'[t].status \in Analysed)
         => talks[t].sources \ saw[t] \subseteq filled[t]]_vars

\* A talk stays analysed beside a source its analysis did not have only when a
\* field was filled in; whoever else registers a source on it requeues it in the
\* same step (declare_local_audio, promote_source_alias, apply-source-repairs.py).
OnlyFillersKeepAnalysis ==
  [][\A t \in Talks :
       (talks[t].status \in Analysed /\ talks'[t].status \in Analysed)
         => talks'[t].sources \ talks[t].sources \subseteq filled'[t]]_vars

\* "the rule every source registration follows: the stored analysis ran without
\* that source" (mutate-tracking-database.py, declare_local_audio): no talk stays
\* analysed beside a source that the analysis the queue stored ran without.
StoredAnalysisSawSources ==
  \A t \in Talks :
    (talks[t].status \in Analysed /\ HasClaim(talks[t]) /\ talks[t].claim.state = "completed")
      => talks[t].sources \subseteq saw[t]

=============================================================================

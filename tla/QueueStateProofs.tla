------------------------- MODULE QueueStateProofs -------------------------
(***************************************************************************)
(* Theorems about the reprocessing queue: its databases are well typed,    *)
(* every one of them can be loaded by the next command, no lease is        *)
(* claimed over, and a batch is answered whole or not at all.              *)
(***************************************************************************)
EXTENDS QueueState, FiniteSetTheorems, TLAPS

-----------------------------------------------------------------------------
(* What each operator that rewrites a talk does to its fields.  The proofs *)
(* of the theorems use these facts and leave the operators closed.         *)

LEMMA ClaimAndNone == ASSUME NEW c \in Claim PROVE c # NoClaim
  BY NameAssumption

LEMMA TalkFields ==
  ASSUME NEW k \in Talk
  PROVE  /\ k.status \in KnownStatuses \union {Unlisted}
         /\ k.reason \in Reasons
         /\ k.sources \in SUBSET Sources
         /\ k.gen \in 0 .. MaxGen
         /\ k.claim \in Claim \union {NoClaim}
         /\ k.history \in SUBSET Claim
<1>1. k.history \in SUBSET Claim BY DEF Talk
<1>2. k.sources \in SUBSET Sources BY DEF Talk
<1> QED BY <1>1, <1>2 DEF Talk

\* Archiving a claim keeps its identity and only closes it.
LEMMA SupersedeFacts ==
  ASSUME NEW c \in Claim
  PROVE  LET d == [c EXCEPT !.state = "superseded"] IN d \in Claim
<1> QED BY DEF Claim, ClaimStates

LEMMA ArchivedType ==
  ASSUME NEW k \in Talk PROVE Archived(k) \in SUBSET Claim
<1>1. k.history \in SUBSET Claim /\ k.claim \in Claim \union {NoClaim}
  BY TalkFields
<1>2. CASE ~HasClaim(k) BY <1>1, <1>2 DEF Archived, HasClaim, Open
<1>3. CASE HasClaim(k) /\ Open(k)
  <2>1. k.claim \in Claim BY <1>1, <1>3 DEF HasClaim
  <2>2. [k.claim EXCEPT !.state = "superseded"] \in Claim BY <2>1, SupersedeFacts
  <2> QED BY <1>1, <1>3, <2>2 DEF Archived
<1>4. CASE HasClaim(k) /\ ~Open(k) BY <1>1, <1>4 DEF Archived, HasClaim
<1> QED BY <1>2, <1>3, <1>4

\* A lease opens one claim numbered after the last one.
LEMMA LeasedFacts ==
  ASSUME NEW k \in Talk, NEW id \in Runs \X Batches, NEW now \in Times,
         NEW batch \in SUBSET Talks, k.gen < MaxGen, k.status \in Claimable
  PROVE  /\ Leased(k, id, now, batch) \in Talk
         /\ Leased(k, id, now, batch).status = Inflight
         /\ Leased(k, id, now, batch).history = Archived(k)
         /\ Leased(k, id, now, batch).gen = k.gen + 1
         /\ Leased(k, id, now, batch).claim \in Claim
         /\ Leased(k, id, now, batch).claim.state = "claimed"
         /\ Leased(k, id, now, batch).claim.run = id[1]
         /\ Leased(k, id, now, batch).claim.batch = id[2]
         /\ Leased(k, id, now, batch).claim.at = now
         /\ Leased(k, id, now, batch).claim.excluded = batch
         /\ Leased(k, id, now, batch).claim.gen = k.gen + 1
<1> DEFINE c == [ run |-> id[1], batch |-> id[2], at |-> now, prev |-> k.status,
                  gen |-> k.gen + 1, state |-> "claimed", result |-> "none",
                  excluded |-> batch ]
<1>1. /\ id[1] \in Runs /\ id[2] \in Batches
      /\ k.gen \in 0 .. MaxGen /\ MaxGen \in Nat
  BY BoundsAssumption DEF Talk
<1>2. k.gen + 1 \in Gens /\ k.gen + 1 \in 0 .. MaxGen
  BY <1>1 DEF Gens
<1>3. c \in Claim
  BY <1>1, <1>2 DEF Claim, ClaimStates
<1>4. /\ c.state = "claimed" /\ c.run = id[1] /\ c.batch = id[2] /\ c.at = now
      /\ c.excluded = batch /\ c.gen = k.gen + 1
  OBVIOUS
<1>5. Leased(k, id, now, batch) = [k EXCEPT !.history = Archived(k), !.gen = k.gen + 1,
                                            !.status = Inflight, !.claim = c]
  BY DEF Leased
<1> HIDE DEF c
<1>6. Archived(k) \in SUBSET Claim BY ArchivedType
<1>7. /\ Leased(k, id, now, batch) \in Talk
      /\ Leased(k, id, now, batch).status = Inflight
      /\ Leased(k, id, now, batch).history = Archived(k)
      /\ Leased(k, id, now, batch).gen = k.gen + 1
      /\ Leased(k, id, now, batch).claim = c
  BY <1>2, <1>3, <1>5, <1>6 DEF Talk, KnownStatuses
<1> QED BY <1>3, <1>4, <1>7

\* Recovery gives a talk back the status it was claimed from.
LEMMA ReleasedFacts ==
  ASSUME NEW k \in Talk, HasClaim(k)
  PROVE  /\ Released(k) \in Talk
         /\ Released(k).status = k.claim.prev
         /\ Released(k).history = k.history
         /\ Released(k).gen = k.gen
         /\ Released(k).sources = k.sources
         /\ Released(k).claim \in Claim
         /\ Released(k).claim.state = "stale_recovered"
         /\ Released(k).claim.run = k.claim.run
         /\ Released(k).claim.batch = k.claim.batch
         /\ Released(k).claim.at = k.claim.at
         /\ Released(k).claim.excluded = k.claim.excluded
         /\ Released(k).claim.gen = k.claim.gen
<1> DEFINE c == [k.claim EXCEPT !.state = "stale_recovered"]
<1>1. k.claim \in Claim
  BY DEF Talk, HasClaim
<1>2. /\ c \in Claim /\ c.state = "stale_recovered"
      /\ c.run = k.claim.run /\ c.batch = k.claim.batch /\ c.at = k.claim.at
      /\ c.excluded = k.claim.excluded /\ c.gen = k.claim.gen
  BY <1>1 DEF Claim, ClaimStates
<1>3. k.claim.prev \in KnownStatuses
  BY <1>1 DEF Claim, KnownStatuses
<1>4. Released(k) = [k EXCEPT !.status = k.claim.prev, !.claim = c]
  BY DEF Released
<1> HIDE DEF c
<1>5. /\ Released(k) \in Talk /\ Released(k).history = k.history
      /\ Released(k).gen = k.gen /\ Released(k).sources = k.sources
      /\ Released(k).claim = c /\ Released(k).status = k.claim.prev
  BY <1>2, <1>3, <1>4 DEF Talk
<1> QED BY <1>2, <1>5

\* An answer closes the claim and nothing else of it changes.
LEMMA MergedFacts ==
  ASSUME NEW k \in Talk, NEW ret \in Return, HasClaim(k)
  PROVE  /\ Merged(k, ret) \in Talk
         /\ Merged(k, ret).status = ret.result
         /\ Merged(k, ret).history = k.history
         /\ Merged(k, ret).gen = k.gen
         /\ Merged(k, ret).claim \in Claim
         /\ Merged(k, ret).claim.state = "completed"
         /\ Merged(k, ret).claim.result = ret.result
         /\ Merged(k, ret).claim.run = k.claim.run
         /\ Merged(k, ret).claim.batch = k.claim.batch
         /\ Merged(k, ret).claim.at = k.claim.at
         /\ Merged(k, ret).claim.excluded = k.claim.excluded
         /\ Merged(k, ret).claim.gen = k.claim.gen
         /\ ret.result \in TerminalResults
<1> DEFINE c == [k.claim EXCEPT !.state = "completed", !.result = ret.result]
<1>1. k.claim \in Claim
  BY DEF Talk, HasClaim
<1>2. ret.result \in TerminalResults /\ ret.result \in KnownStatuses
  BY StatusAssumption DEF Return, KnownStatuses
<1>3. /\ c \in Claim /\ c.state = "completed" /\ c.result = ret.result
      /\ c.run = k.claim.run /\ c.batch = k.claim.batch /\ c.at = k.claim.at
      /\ c.excluded = k.claim.excluded /\ c.gen = k.claim.gen
  BY <1>1, <1>2 DEF Claim, ClaimStates
<1>4. Merged(k, ret) = [k EXCEPT !.status = ret.result, !.reason = "none", !.claim = c]
  BY DEF Merged
<1> HIDE DEF c
<1>5. /\ Merged(k, ret) \in Talk /\ Merged(k, ret).history = k.history
      /\ Merged(k, ret).gen = k.gen /\ Merged(k, ret).claim = c
      /\ Merged(k, ret).status = ret.result
  BY <1>2, <1>3, <1>4 DEF Talk, Reasons
<1> QED BY <1>2, <1>3, <1>5

-----------------------------------------------------------------------------
(* What each step does to the ledger (claim, history, generation).         *)

Kept(k, n) == n.claim = k.claim /\ n.history = k.history /\ n.gen = k.gen

\* The ledger is kept and a talk in flight stays in flight.
Untouched(k, n) == Kept(k, n) /\ (k.status = Inflight => n.status = Inflight)

LEMMA KeptFacts ==
  ASSUME NEW k \in Talk, NEW n \in Talk, Kept(k, n)
  PROVE  /\ HasClaim(n) <=> HasClaim(k)
         /\ Open(n) <=> Open(k)
         /\ AllClaims(n) = AllClaims(k)
<1> QED BY DEF Kept, HasClaim, Open, AllClaims

\* A new status, reason or source set leaves the ledger alone.
LEMMA RestatedFacts ==
  ASSUME NEW k \in Talk, NEW st \in KnownStatuses, NEW why \in Reasons,
         NEW src \in SUBSET Sources
  PROVE  LET n == [k EXCEPT !.sources = src, !.status = st, !.reason = why]
         IN n \in Talk /\ Kept(k, n) /\ n.status = st /\ n.sources = src
<1> QED BY DEF Talk, Kept

LEMMA WithStatusFacts ==
  ASSUME NEW k \in Talk, NEW st \in KnownStatuses, NEW why \in Reasons
  PROVE  /\ WithStatus(k, st, why) \in Talk
         /\ Kept(k, WithStatus(k, st, why))
         /\ WithStatus(k, st, why).status = st
         /\ WithStatus(k, st, why).sources = k.sources
<1> QED BY DEF Talk, Kept, WithStatus

LEMMA StatusFacts ==
  ASSUME NEW k \in Talk, NEW st \in KnownStatuses
  PROVE  /\ [k EXCEPT !.status = st] \in Talk
         /\ Kept(k, [k EXCEPT !.status = st])
         /\ [k EXCEPT !.status = st].status = st
         /\ [k EXCEPT !.status = st].sources = k.sources
<1> QED BY DEF Talk, Kept

LEMMA FilledFacts ==
  ASSUME NEW k \in Talk, NEW s \in Sources
  PROVE  /\ Filled(k, s) \in Talk
         /\ Kept(k, Filled(k, s))
         /\ Filled(k, s).status = k.status
         /\ Filled(k, s).sources = k.sources \union {s}
<1>1. k.sources \union {s} \in SUBSET Sources BY TalkFields
<1> QED BY <1>1 DEF Talk, Kept, Filled

LEMMA LegacyNormalizedFacts ==
  ASSUME NEW db \in [Talks -> Talk], NEW cap
  PROVE  /\ LegacyNormalized(db, cap) \in [Talks -> Talk]
         /\ \A t \in Talks :
              /\ Kept(db[t], LegacyNormalized(db, cap)[t])
              /\ LegacyNormalized(db, cap)[t].sources = db[t].sources
              /\ \/ LegacyNormalized(db, cap)[t].status = db[t].status
                 \/ /\ db[t].status \in Legacy
                    /\ LegacyNormalized(db, cap)[t].status \in {"skipped_no_sources", "pending"}
<1> DEFINE st(t) == IF cap[t] = "none" THEN "skipped_no_sources" ELSE "pending"
<1>1. ASSUME NEW t \in Talks
      PROVE  /\ st(t) \in {"skipped_no_sources", "pending"}
             /\ [db[t] EXCEPT !.status = st(t)] \in Talk
             /\ Kept(db[t], [db[t] EXCEPT !.status = st(t)])
             /\ [db[t] EXCEPT !.status = st(t)].status = st(t)
             /\ [db[t] EXCEPT !.status = st(t)].sources = db[t].sources
  <2>1. st(t) \in {"skipped_no_sources", "pending"} OBVIOUS
  <2>2. st(t) \in KnownStatuses
    BY <2>1 DEF KnownStatuses, TerminalResults, Claimable
  <2> HIDE DEF st
  <2> QED BY <2>1, <2>2, StatusFacts
<1>2. \A t \in Talks : Kept(db[t], db[t]) BY DEF Kept
<1>3. LegacyNormalized(db, cap) =
        [t \in Talks |-> IF db[t].status \in Legacy /\ cap[t] # "dataless"
                         THEN [db[t] EXCEPT !.status = st(t)] ELSE db[t]]
  BY DEF LegacyNormalized
<1> HIDE DEF st
<1> QED BY <1>1, <1>2, <1>3

LEMMA RequeuedFacts ==
  ASSUME NEW db \in [Talks -> Talk], NEW stale \in SUBSET AnalysedIn(db)
  PROVE  /\ Requeued(db, stale) \in [Talks -> Talk]
         /\ \A t \in Talks :
              /\ Untouched(db[t], Requeued(db, stale)[t])
              /\ Requeued(db, stale)[t].sources = db[t].sources
              /\ Requeued(db, stale)[t].status \in {db[t].status, "needs-reprocessing"}
<1>1. "needs-reprocessing" \in KnownStatuses /\ "evidence" \in Reasons
  BY DEF KnownStatuses, Claimable, Reasons
<1>2. \A t \in Talks : Untouched(db[t], db[t]) BY DEF Untouched, Kept
<1>3. ASSUME NEW t \in stale
      PROVE  /\ t \in Talks
             /\ WithStatus(db[t], "needs-reprocessing", "evidence") \in Talk
             /\ Untouched(db[t], WithStatus(db[t], "needs-reprocessing", "evidence"))
             /\ WithStatus(db[t], "needs-reprocessing", "evidence").sources = db[t].sources
             /\ WithStatus(db[t], "needs-reprocessing", "evidence").status = "needs-reprocessing"
  <2>1. t \in Talks /\ db[t].status \in Analysed BY DEF AnalysedIn
  <2>2. db[t].status # Inflight BY <2>1 DEF Analysed, Inflight
  <2> QED BY <1>1, <2>1, <2>2, WithStatusFacts DEF Untouched
<1> QED BY <1>2, <1>3 DEF Requeued

\* The writers that leave every ledger alone and commit a validated database.
OwnerWriter ==
  \/ Normalize
  \/ RepairSources
  \/ DeclareLocalAudio
  \/ PromoteSourceAlias
  \/ MigrateObservations
  \/ ScanShownotes
  \/ UpdateTalkPublishing
  \/ RecordPptx

OwnerStep ==
  /\ talks' \in [Talks -> Talk]
  /\ \A t \in Talks : Untouched(talks[t], talks'[t])
  /\ Admitted(talks) /\ Admitted(talks')
  /\ saw' = saw /\ filled' \in [Talks -> SUBSET Sources]

LEMMA InstallFacts ==
  ASSUME TypeOK, NEW t \in Talks, NEW k \in Talk, Untouched(talks[t], k),
         Admitted(talks), NEW fill \in SUBSET Sources, Install(t, k, fill)
  PROVE  OwnerStep
<1>1. talks' = [talks EXCEPT ![t] = k] /\ Admitted(talks') /\ saw' = saw
  BY DEF Install
<1>0. filled' \in [Talks -> SUBSET Sources]
  <2>1. (filled[t] \intersect k.sources) \union fill \in SUBSET Sources BY DEF TypeOK
  <2>2. filled' = [filled EXCEPT ![t] = (filled[t] \intersect k.sources) \union fill]
    BY DEF Install
  <2> QED BY <2>1, <2>2 DEF TypeOK
<1>2. talks' \in [Talks -> Talk] BY <1>1 DEF TypeOK
<1>3. \A u \in Talks : talks'[u] = IF u = t THEN k ELSE talks[u]
  BY <1>1 DEF TypeOK
<1>4. \A u \in Talks : Untouched(talks[u], talks'[u])
  BY <1>3 DEF Untouched, Kept
<1> QED BY <1>0, <1>1, <1>2, <1>4 DEF OwnerStep

LEMMA RegistrationFacts ==
  ASSUME NEW k \in Talk, Idle(k), NEW src \in SUBSET Sources,
         NEW st \in KnownStatuses, NEW why \in Reasons
  PROVE  LET n == [k EXCEPT !.sources = src, !.status = st, !.reason = why]
         IN n \in Talk /\ Untouched(k, n)
<1> DEFINE n == [k EXCEPT !.sources = src, !.status = st, !.reason = why]
<1>1. n \in Talk /\ Kept(k, n) BY RestatedFacts
<1>2. k.status # Inflight BY DEF Idle
<1> HIDE DEF n
<1> QED BY <1>1, <1>2 DEF Untouched, n

LEMMA AudioFacts ==
  ASSUME NEW k \in Talk, Idle(k), NEW s \in Sources
  PROVE  AudioDeclared(k, s) \in Talk /\ Untouched(k, AudioDeclared(k, s))
<1> DEFINE w == [k EXCEPT !.sources = k.sources \union {s}]
<1>1. /\ w \in Talk /\ Kept(k, w) /\ w.status = k.status
  BY FilledFacts DEF Filled
<1>2. k.status # Inflight BY DEF Idle
<1>3. /\ WithStatus(w, "needs-reprocessing", "source_added") \in Talk
      /\ Kept(w, WithStatus(w, "needs-reprocessing", "source_added"))
  <2>1. "needs-reprocessing" \in KnownStatuses /\ "source_added" \in Reasons
    BY DEF KnownStatuses, Claimable, Reasons
  <2> HIDE DEF w
  <2> QED BY <1>1, <2>1, WithStatusFacts
<1>4. /\ [w EXCEPT !.status = "pending"] \in Talk
      /\ Kept(w, [w EXCEPT !.status = "pending"])
  <2>1. "pending" \in KnownStatuses BY DEF KnownStatuses, Claimable
  <2> HIDE DEF w
  <2> QED BY <1>1, <2>1, StatusFacts
<1>5. AudioDeclared(k, s) \in {w, WithStatus(w, "needs-reprocessing", "source_added"),
                               [w EXCEPT !.status = "pending"]}
  <2> DEFINE closed == HasClaim(k) /\ k.claim.state = "completed"
             a == WithStatus(w, "needs-reprocessing", "source_added")
             b == [w EXCEPT !.status = "pending"]
  <2>1. AudioDeclared(k, s) =
          CASE k.status \in Analysed -> a
            [] k.status = "skipped_no_sources" /\ closed -> a
            [] k.status = "skipped_no_sources" /\ ~closed -> b
            [] OTHER -> w
    BY DEF AudioDeclared
  <2>2. "skipped_no_sources" \notin Analysed BY DEF Analysed
  <2>3. closed \in BOOLEAN BY DEF HasClaim
  <2> HIDE DEF closed, a, b, w
  <2>4. AudioDeclared(k, s) \in {w, a, b} BY <2>1, <2>2, <2>3
  <2> QED BY <2>4 DEF a, b
<1> HIDE DEF w
<1> QED BY <1>1, <1>2, <1>3, <1>4, <1>5 DEF Untouched, Kept

LEMMA OwnerEffect ==
  ASSUME TypeOK, OwnerWriter PROVE OwnerStep
<1>0. talks \in [Talks -> Talk] /\ filled \in [Talks -> SUBSET Sources] BY DEF TypeOK
<1>1. CASE Normalize
  <2>1. PICK cap \in Probes(talks), stale \in SUBSET AnalysedIn(talks) :
          /\ talks' = Requeued(LegacyNormalized(talks, cap), stale)
          /\ Strict(talks') /\ saw' = saw /\ filled' = filled
    BY <1>1 DEF Normalize, history_vars
  <2> DEFINE mid == LegacyNormalized(talks, cap)
  <2>2. /\ mid \in [Talks -> Talk]
        /\ \A t \in Talks : /\ Kept(talks[t], mid[t])
                            /\ mid[t].status = talks[t].status \/ talks[t].status \in Legacy
    BY <1>0, LegacyNormalizedFacts
  <2>3. stale \in SUBSET AnalysedIn(mid)
    <3>1. \A t \in stale : t \in Talks /\ talks[t].status \in Analysed
      BY DEF AnalysedIn
    <3>2. Analysed \cap Legacy = {} BY DEF Analysed, Legacy
    <3> HIDE DEF mid
    <3> QED BY <2>2, <3>1, <3>2 DEF AnalysedIn
  <2> HIDE DEF mid
  <2>4. /\ Requeued(mid, stale) \in [Talks -> Talk]
        /\ \A t \in Talks : Untouched(mid[t], Requeued(mid, stale)[t])
    BY <2>2, <2>3, RequeuedFacts
  <2>5. talks' = Requeued(mid, stale) BY <2>1 DEF mid
  <2>6. Inflight \notin Legacy BY DEF Inflight, Legacy
  <2>7. \A t \in Talks : Untouched(talks[t], talks'[t])
    BY <2>2, <2>4, <2>5, <2>6 DEF Untouched, Kept
  <2>8. Admitted(talks) /\ Admitted(talks') BY <1>1, <2>1 DEF Normalize, Strict
  <2> QED BY <1>0, <2>1, <2>4, <2>5, <2>7, <2>8 DEF OwnerStep
<1>2. CASE RepairSources
  <2>1. PICK t \in Talks :
          /\ Idle(talks[t])
          /\ \E src \in SUBSET Sources, blank \in SUBSET Blanks(talks[t]),
               st \in RepairStatuses \union {talks[t].status},
               why \in RepairReasons \union {talks[t].reason} :
               /\ RegistrationRequeues(talks[t], src, blank, st, why)
               /\ Install(t, [talks[t] EXCEPT !.sources = src, !.status = st, !.reason = why],
                          src \intersect blank)
    BY <1>2 DEF RepairSources
  <2>2. PICK src \in SUBSET Sources, blank \in SUBSET Blanks(talks[t]),
             st \in RepairStatuses \union {talks[t].status},
             why \in RepairReasons \union {talks[t].reason} :
               Install(t, [talks[t] EXCEPT !.sources = src, !.status = st, !.reason = why],
                       src \intersect blank)
    BY <2>1
  <2>3. st \in KnownStatuses /\ why \in Reasons
    <3>1. talks[t].status \in KnownStatuses \union {Unlisted} /\ talks[t].reason \in Reasons
      BY <1>0, TalkFields
    <3>2. talks[t].status # Unlisted BY <2>1 DEF Idle
    <3>3. RepairStatuses \subseteq KnownStatuses /\ RepairReasons \subseteq Reasons
      BY StatusAssumption DEF KnownStatuses, TerminalResults, Claimable, Analysed
    <3> QED BY <3>1, <3>2, <3>3
  <2> DEFINE n == [talks[t] EXCEPT !.sources = src, !.status = st, !.reason = why]
  <2>4. n \in Talk /\ Untouched(talks[t], n)
    BY <1>0, <2>1, <2>3, RegistrationFacts
  <2>5. Install(t, n, src \intersect blank) BY <2>2
  <2> HIDE DEF n
  <2>6. Admitted(talks) BY <1>2 DEF RepairSources
  <2> QED BY <2>4, <2>5, <2>6, InstallFacts
<1>3. CASE DeclareLocalAudio
  <2>1. PICK t \in Talks, s \in Sources :
          Idle(talks[t]) /\ Install(t, AudioDeclared(talks[t], s), {})
    BY <1>3 DEF DeclareLocalAudio
  <2>2. Admitted(talks) BY <1>3 DEF DeclareLocalAudio
  <2> QED BY <1>0, <2>1, <2>2, AudioFacts, InstallFacts
<1>4. CASE PromoteSourceAlias
  <2>1. PICK t \in Talks : \E old \in talks[t].sources, s \in Sources \ talks[t].sources :
          /\ Idle(talks[t])
          /\ Install(t, WithStatus([talks[t] EXCEPT !.sources = (@ \ {old}) \union {s}],
                                   "needs-reprocessing", "source_added"), {})
    BY <1>4 DEF PromoteSourceAlias
  <2>2. PICK old \in talks[t].sources, s \in Sources \ talks[t].sources :
          /\ Idle(talks[t])
          /\ Install(t, WithStatus([talks[t] EXCEPT !.sources = (@ \ {old}) \union {s}],
                                   "needs-reprocessing", "source_added"), {})
    BY <2>1
  <2> DEFINE src == (talks[t].sources \ {old}) \union {s}
             k == [talks[t] EXCEPT !.sources = src]
  <2>3. src \in SUBSET Sources BY <1>0, TalkFields
  <2>4. k \in Talk /\ Kept(talks[t], k) /\ k.status = talks[t].status
    <3> HIDE DEF src
    <3> QED BY <1>0, <2>3 DEF Talk, Kept
  <2> HIDE DEF k
  <2>5. "needs-reprocessing" \in KnownStatuses /\ "source_added" \in Reasons
    BY DEF KnownStatuses, Claimable, Reasons
  <2>6. /\ WithStatus(k, "needs-reprocessing", "source_added") \in Talk
        /\ Kept(k, WithStatus(k, "needs-reprocessing", "source_added"))
    BY <2>4, <2>5, WithStatusFacts
  <2>7. Untouched(talks[t], WithStatus(k, "needs-reprocessing", "source_added"))
    BY <2>2, <2>4, <2>6 DEF Untouched, Kept, Idle
  <2>8. Install(t, WithStatus(k, "needs-reprocessing", "source_added"), {})
    BY <2>2 DEF k
  <2>9. Admitted(talks) BY <1>4 DEF PromoteSourceAlias
  <2> QED BY <2>6, <2>7, <2>8, <2>9, InstallFacts
<1>5. CASE MigrateObservations
  <2>1. PICK broken \in SUBSET AnalysedIn(talks) :
          /\ talks' = Requeued(talks, broken) /\ Admitted(talks')
          /\ saw' = saw /\ filled' = filled
    BY <1>5 DEF MigrateObservations, history_vars
  <2>2. Admitted(talks) BY <1>5 DEF MigrateObservations
  <2>3. /\ Requeued(talks, broken) \in [Talks -> Talk]
        /\ \A t \in Talks : Untouched(talks[t], Requeued(talks, broken)[t])
    BY <1>0, RequeuedFacts
  <2> QED BY <1>0, <2>1, <2>2, <2>3 DEF OwnerStep
<1>6. CASE ScanShownotes
  <2> DEFINE scanned(new, s, fill) ==
               [t \in Talks |->
                  IF t \in new THEN [Filled(talks[t], s) EXCEPT !.status = "pending"]
                  ELSE IF t \in fill THEN Filled(talks[t], s) ELSE talks[t]]
             noted(s, fill) ==
               [t \in Talks |-> IF t \in fill THEN filled[t] \union ({s} \ talks[t].sources)
                                ELSE filled[t]]
             may == IF "scan_shownotes" \in Fillers THEN Listed(talks) ELSE {}
  <2>0. \E new \in SUBSET (Talks \ Listed(talks)), s \in Sources, fill \in SUBSET may :
          /\ scanned(new, s, fill) # talks
          /\ Admitted(scanned(new, s, fill))
          /\ talks' = scanned(new, s, fill)
          /\ filled' = noted(s, fill)
          /\ UNCHANGED saw
    BY <1>6, Zenon DEF ScanShownotes
  <2> HIDE DEF may
  <2>1. PICK new \in SUBSET (Talks \ Listed(talks)), s \in Sources, fill \in SUBSET may :
          /\ talks' = scanned(new, s, fill)
          /\ filled' = noted(s, fill)
          /\ Admitted(talks') /\ saw' = saw
    <3> HIDE DEF scanned, noted
    <3> QED BY <2>0
  <2>2. Admitted(talks) BY <1>6 DEF ScanShownotes
  <2>3. \A t \in Talks : Filled(talks[t], s) \in Talk /\ Untouched(talks[t], Filled(talks[t], s))
    BY <1>0, FilledFacts DEF Untouched
  <2>4. ASSUME NEW t \in new
        PROVE  /\ [Filled(talks[t], s) EXCEPT !.status = "pending"] \in Talk
               /\ Untouched(talks[t], [Filled(talks[t], s) EXCEPT !.status = "pending"])
    <3>1. t \in Talks /\ talks[t].status = Unlisted BY DEF Listed
    <3>2. "pending" \in KnownStatuses /\ Unlisted # Inflight
      BY DEF KnownStatuses, Claimable, Unlisted, Inflight
    <3>3. /\ [Filled(talks[t], s) EXCEPT !.status = "pending"] \in Talk
          /\ Kept(Filled(talks[t], s), [Filled(talks[t], s) EXCEPT !.status = "pending"])
      BY <2>3, <3>1, <3>2, StatusFacts
    <3>4. Kept(talks[t], Filled(talks[t], s)) BY <2>3, <3>1 DEF Untouched
    <3> QED BY <3>1, <3>2, <3>3, <3>4 DEF Untouched, Kept
  <2>5. \A t \in Talks : Untouched(talks[t], talks[t]) BY DEF Untouched, Kept
  <2>6. talks' \in [Talks -> Talk] /\ \A t \in Talks : Untouched(talks[t], talks'[t])
    BY <1>0, <2>1, <2>3, <2>4, <2>5
  <2>7. filled' \in [Talks -> SUBSET Sources]
    <3>1. \A t \in Talks : filled[t] \union ({s} \ talks[t].sources) \in SUBSET Sources
      BY <1>0
    <3> QED BY <1>0, <2>1, <3>1
  <2> QED BY <2>1, <2>2, <2>6, <2>7 DEF OwnerStep
<1>7. CASE UpdateTalkPublishing \/ RecordPptx
  <2>1. PICK t \in Listed(talks), s \in Sources :
          Install(t, Filled(talks[t], s), {s} \ talks[t].sources)
    BY <1>7 DEF UpdateTalkPublishing, RecordPptx
  <2>2. t \in Talks /\ Admitted(talks)
    BY <1>7 DEF UpdateTalkPublishing, RecordPptx, Listed
  <2>3. Filled(talks[t], s) \in Talk /\ Untouched(talks[t], Filled(talks[t], s))
    BY <1>0, <2>2, FilledFacts DEF Untouched
  <2> QED BY <2>1, <2>2, <2>3, InstallFacts
<1> QED BY <1>1, <1>2, <1>3, <1>4, <1>5, <1>6, <1>7 DEF OwnerWriter

\* A claim command opens one claim on each chosen talk, none of which was open.
Issued(id, now, chosen) ==
  /\ talks' \in [Talks -> Talk]
  /\ \A t \in Talks \ chosen : Untouched(talks[t], talks'[t])
  /\ \A t \in chosen :
       /\ ~Open(talks[t])
       /\ talks'[t].status = Inflight
       /\ talks'[t].history = AllClaims(talks[t])
       /\ talks'[t].gen = talks[t].gen + 1
       /\ talks'[t].claim \in Claim
       /\ talks'[t].claim.state = "claimed"
       /\ Id(talks'[t].claim) = id
       /\ talks'[t].claim.at = now
       /\ talks'[t].claim.excluded = chosen
       /\ talks'[t].claim.gen = talks[t].gen + 1
  /\ Strict(talks) /\ Strict(talks')

LEMMA SelectedFacts ==
  ASSUME NEW db \in [Talks -> Talk], NEW cap, NEW id, NEW requested \in SUBSET Talks,
         NEW limit,
         Named(id, requested) # {} => Selected(db, cap, id, requested, limit) \subseteq Eligible(db, cap)
  PROVE  Selected(db, cap, id, requested, limit) \subseteq Eligible(db, cap)
<1>1. FirstOf(Eligible(db, cap), limit) \subseteq Eligible(db, cap) BY DEF FirstOf
<1> QED BY <1>1 DEF Selected

LEMMA ClaimEffect ==
  ASSUME TypeOK, ClaimCommand
  PROVE  \E id \in Runs \X Batches, now \in Times, chosen \in SUBSET Talks :
           /\ Issued(id, now, chosen)
           /\ saw' = [t \in Talks |-> IF t \in chosen THEN talks[t].sources ELSE saw[t]]
           /\ filled' = [t \in Talks |-> IF t \in chosen THEN {} ELSE filled[t]]
<1>0. talks \in [Talks -> Talk] /\ Strict(talks) BY DEF TypeOK, ClaimCommand
<1>1. PICK id \in Runs \X Batches, requested \in SUBSET Listed(talks) :
        \E now \in Times, limit \in 1 .. Cardinality(Talks), cap \in Probes(talks) :
          ClaimBatch(LegacyNormalized(talks, cap), cap, id, now, requested, limit)
  BY DEF ClaimCommand
<1>2. PICK now \in Times, limit \in 1 .. Cardinality(Talks), cap \in Probes(talks) :
        ClaimBatch(LegacyNormalized(talks, cap), cap, id, now, requested, limit)
  BY <1>1
<1> DEFINE db == LegacyNormalized(talks, cap)
           chosen == Selected(db, cap, id, requested, limit)
<1>3. /\ db \in [Talks -> Talk]
      /\ \A t \in Talks : /\ Kept(talks[t], db[t])
                          /\ \/ db[t].status = talks[t].status
                             \/ /\ talks[t].status \in Legacy
                                /\ db[t].status \in {"skipped_no_sources", "pending"}
  BY <1>0, LegacyNormalizedFacts
<1> HIDE DEF db
<1>4. /\ Named(id, requested) # {} => chosen \subseteq Eligible(db, cap)
      /\ \A t \in chosen : db[t].gen < MaxGen
      /\ talks' = [t \in Talks |-> IF t \in chosen THEN Leased(db[t], id, now, chosen) ELSE db[t]]
      /\ Strict(talks')
      /\ saw' = [t \in Talks |-> IF t \in chosen THEN talks[t].sources ELSE saw[t]]
      /\ filled' = [t \in Talks |-> IF t \in chosen THEN {} ELSE filled[t]]
  BY <1>2 DEF ClaimBatch, db
<1>5. chosen \subseteq Eligible(db, cap)
  <2>1. requested \in SUBSET Talks BY DEF Listed
  <2> QED BY <1>3, <1>4, <2>1, SelectedFacts
<1> HIDE DEF chosen
<1>6. ASSUME NEW t \in chosen
      PROVE  /\ t \in Talks
             /\ db[t] \in Talk
             /\ db[t].status \in Claimable
             /\ db[t].gen < MaxGen
             /\ Leased(db[t], id, now, chosen) \in Talk
             /\ talks'[t] = Leased(db[t], id, now, chosen)
  <2>1. t \in Talks /\ db[t].status \in Claimable BY <1>5 DEF Eligible
  <2>2. db[t] \in Talk /\ db[t].gen < MaxGen BY <1>3, <1>4, <2>1
  <2>3. chosen \in SUBSET Talks BY <1>5 DEF Eligible
  <2> QED BY <1>4, <2>1, <2>2, <2>3, LeasedFacts
<1>7. chosen \in SUBSET Talks BY <1>6
<1>8. talks' \in [Talks -> Talk] BY <1>3, <1>4, <1>6
<1>9. \A t \in Talks \ chosen : Untouched(talks[t], talks'[t])
  <2>1. Inflight \notin Legacy BY DEF Inflight, Legacy
  <2> QED BY <1>3, <1>4, <2>1 DEF Untouched
<1>10. ASSUME NEW t \in chosen
       PROVE  /\ ~Open(talks[t])
              /\ Archived(db[t]) = AllClaims(talks[t])
  <2>1. /\ t \in Talks /\ db[t].status \in Claimable
        /\ talks[t] \in Talk /\ db[t] \in Talk /\ Kept(talks[t], db[t])
    BY <1>0, <1>3, <1>6
  <2>2. talks[t].status # Inflight
    <3>1. Inflight \notin Claimable /\ Inflight \notin Legacy
      BY DEF Inflight, Claimable, Legacy
    <3> QED BY <1>3, <2>1, <3>1
  <2>3. ~Open(talks[t]) BY <1>0, <2>1, <2>2 DEF Strict, DriftFree
  <2>4. /\ ~Open(db[t]) /\ AllClaims(db[t]) = AllClaims(talks[t])
    BY <2>1, <2>3, KeptFacts
  <2>5. Archived(db[t]) = AllClaims(db[t])
    <3>1. CASE HasClaim(db[t]) BY <2>4, <3>1 DEF Archived, AllClaims, HasClaim, Open
    <3>2. CASE ~HasClaim(db[t]) BY <2>4, <3>2 DEF Archived, AllClaims, HasClaim, Open
    <3> QED BY <3>1, <3>2
  <2> QED BY <2>3, <2>4, <2>5
<1>11. ASSUME NEW t \in chosen
       PROVE  /\ talks'[t].status = Inflight
              /\ talks'[t].history = AllClaims(talks[t])
              /\ talks'[t].gen = talks[t].gen + 1
              /\ talks'[t].claim \in Claim
              /\ talks'[t].claim.state = "claimed"
              /\ Id(talks'[t].claim) = id
              /\ talks'[t].claim.at = now
              /\ talks'[t].claim.excluded = chosen
              /\ talks'[t].claim.gen = talks[t].gen + 1
  <2>1. db[t].gen = talks[t].gen BY <1>3, <1>6 DEF Kept
  <2>2. id = <<id[1], id[2]>> OBVIOUS
  <2>3. /\ talks'[t] = Leased(db[t], id, now, chosen)
        /\ db[t] \in Talk /\ db[t].gen < MaxGen /\ db[t].status \in Claimable
    BY <1>6
  <2>4. /\ talks'[t].status = Inflight
        /\ talks'[t].history = Archived(db[t])
        /\ talks'[t].gen = db[t].gen + 1
        /\ talks'[t].claim \in Claim
        /\ talks'[t].claim.state = "claimed"
        /\ talks'[t].claim.run = id[1]
        /\ talks'[t].claim.batch = id[2]
        /\ talks'[t].claim.at = now
        /\ talks'[t].claim.excluded = chosen
        /\ talks'[t].claim.gen = db[t].gen + 1
    BY <1>7, <2>3, LeasedFacts
  <2> QED BY <1>10, <2>1, <2>2, <2>4 DEF Id
<1>12. Issued(id, now, chosen)
  BY <1>0, <1>4, <1>8, <1>9, <1>10, <1>11 DEF Issued
<1> QED BY <1>4, <1>7, <1>12

\* Claims that differ at most in how they ended.
Twins(c, d) == c.run = d.run /\ c.batch = d.batch /\ c.at = d.at
               /\ c.excluded = d.excluded /\ c.gen = d.gen

\* The open claims of `ended` are closed as `st`, and nothing else of any
\* ledger changes.
Closing(ended, st) ==
  /\ talks' \in [Talks -> Talk]
  /\ \A t \in Talks \ ended : talks'[t] = talks[t]
  /\ \A t \in ended :
       /\ Open(talks[t])
       /\ talks'[t].history = talks[t].history
       /\ talks'[t].gen = talks[t].gen
       /\ talks'[t].claim \in Claim
       /\ talks'[t].claim.state = st
       /\ Twins(talks'[t].claim, talks[t].claim)
  /\ Admitted(talks)

LEMMA RecoverEffect ==
  ASSUME TypeOK, Recover
  PROVE  \E due \in SUBSET Talks :
           /\ Closing(due, "stale_recovered")
           /\ Strict(talks') /\ saw' = saw /\ filled' = filled
           /\ \A t \in due : talks'[t].sources = talks[t].sources
           /\ \A t \in due : talks'[t].status \in Claimable
           /\ \A t \in Talks, u \in Talks :
                (/\ Open(talks[t]) /\ talks[t].status = Inflight
                 /\ Open(talks[u]) /\ talks[u].status = Inflight
                 /\ talks[t].claim.run = talks[u].claim.run
                 /\ talks[t].claim.at = talks[u].claim.at)
                  => (t \in due <=> u \in due)
<1>0. talks \in [Talks -> Talk] /\ Admitted(talks) BY DEF TypeOK, Recover
<1>1. PICK now \in Times, age \in Times \ {0}, runs \in {Runs} \union {{r} : r \in Runs} :
        RecoverLeases(now, age, runs)
  BY DEF Recover
<1> DEFINE due == Due(talks, now, age, runs)
<1>2. /\ talks' = [t \in Talks |-> IF t \in due THEN Released(talks[t]) ELSE talks[t]]
      /\ Strict(talks') /\ saw' = saw /\ filled' = filled
  BY <1>1 DEF RecoverLeases, history_vars
<1>3. \A t \in due : t \in Talks /\ Open(talks[t]) BY DEF Due
<1>7. \A t \in Talks, u \in Talks :
        (/\ Open(talks[t]) /\ talks[t].status = Inflight
         /\ Open(talks[u]) /\ talks[u].status = Inflight
         /\ talks[t].claim.run = talks[u].claim.run
         /\ talks[t].claim.at = talks[u].claim.at)
          => (t \in due <=> u \in due)
  BY DEF Due
<1> HIDE DEF due
<1>4. ASSUME NEW t \in due
      PROVE  /\ talks[t] \in Talk /\ HasClaim(talks[t])
             /\ Released(talks[t]) \in Talk
             /\ talks'[t] = Released(talks[t])
             /\ talks'[t].history = talks[t].history
             /\ talks'[t].gen = talks[t].gen
             /\ talks'[t].claim \in Claim
             /\ talks'[t].claim.state = "stale_recovered"
             /\ Twins(talks'[t].claim, talks[t].claim)
             /\ talks'[t].sources = talks[t].sources
             /\ talks'[t].status \in Claimable
  <2>1. talks[t] \in Talk /\ HasClaim(talks[t]) BY <1>0, <1>3 DEF Open
  <2>2. talks'[t] = Released(talks[t]) BY <1>2, <1>3
  <2>3. talks[t].claim.prev \in Claimable BY <2>1, TalkFields DEF HasClaim, Claim
  <2> QED BY <2>1, <2>2, <2>3, ReleasedFacts DEF Twins
<1>5. talks' \in [Talks -> Talk] BY <1>0, <1>2, <1>4
<1>6. Closing(due, "stale_recovered")
  BY <1>0, <1>2, <1>3, <1>4, <1>5 DEF Closing
<1> QED BY <1>2, <1>3, <1>4, <1>6, <1>7

LEMMA PersistEffect ==
  ASSUME TypeOK, Persist
  PROVE  \E id \in Runs \X Batches :
           LET members == Members(talks, id)
           IN /\ Closing(members, "completed")
              /\ saw' = saw /\ filled' = filled
              /\ \A t \in members :
                   /\ talks[t].status = Inflight
                   /\ talks[t].claim.excluded = members
                   /\ talks'[t].status = talks'[t].claim.result
                   /\ talks'[t].status \in TerminalResults
                   /\ talks'[t].sources = talks[t].sources
              /\ \A t, u \in members : talks[t].claim.at = talks[u].claim.at
<1>0. talks \in [Talks -> Talk] /\ Admitted(talks) BY DEF TypeOK, Persist
<1>1. PICK id \in Runs \X Batches, answered \in SUBSET Listed(talks) :
        \E rets \in [answered -> Return] : PersistBatch(id, rets)
  BY DEF Persist
<1>2. PICK rets \in [answered -> Return] : PersistBatch(id, rets) BY <1>1
<1> DEFINE members == Members(talks, id)
<1>3. /\ answered = members
      /\ \A t \in members : talks[t].claim.state = "claimed" /\ talks[t].status = Inflight
      /\ \A t, u \in members : talks[t].claim.at = talks[u].claim.at
      /\ \A t \in members : talks[t].claim.excluded = members
  BY <1>2 DEF PersistBatch, BatchFits, ReturnFits
<1>4. \A t \in members : t \in Talks /\ HasClaim(talks[t]) BY DEF Members
<1>5. talks' = [t \in Talks |-> IF t \in members THEN Merged(talks[t], rets[t]) ELSE talks[t]]
  BY <1>2, <1>3 DEF PersistBatch
<1>6. saw' = saw /\ filled' = filled BY <1>2 DEF PersistBatch, history_vars
<1> HIDE DEF members
<1>7. ASSUME NEW t \in members
      PROVE  /\ Open(talks[t])
             /\ Merged(talks[t], rets[t]) \in Talk
             /\ talks'[t] = Merged(talks[t], rets[t])
             /\ talks'[t].status = talks'[t].claim.result
             /\ talks'[t].status \in TerminalResults
             /\ talks'[t].history = talks[t].history
             /\ talks'[t].gen = talks[t].gen
             /\ talks'[t].claim \in Claim
             /\ talks'[t].claim.state = "completed"
             /\ Twins(talks'[t].claim, talks[t].claim)
             /\ talks'[t].sources = talks[t].sources
  <2>1. talks[t] \in Talk /\ HasClaim(talks[t]) /\ rets[t] \in Return
    BY <1>0, <1>3, <1>4
  <2>2. talks'[t] = Merged(talks[t], rets[t]) BY <1>4, <1>5
  <2>3. Open(talks[t]) BY <1>3, <2>1 DEF Open
  <2>4. Merged(talks[t], rets[t]).sources = talks[t].sources
    BY <2>1 DEF Merged, Talk
  <2> QED BY <2>1, <2>2, <2>3, <2>4, MergedFacts DEF Twins
<1>8. talks' \in [Talks -> Talk] BY <1>0, <1>4, <1>5, <1>7
<1>9. Closing(members, "completed")
  BY <1>0, <1>5, <1>7, <1>8 DEF Closing
<1> QED BY <1>3, <1>6, <1>7, <1>9 DEF members

LEMMA OutsideEffect ==
  ASSUME TypeOK, OutsideEdit
  PROVE  /\ talks' \in [Talks -> Talk] /\ saw' = saw /\ filled' = filled
         /\ \E t \in Talks :
              /\ \A u \in Talks \ {t} : talks'[u] = talks[u]
              /\ Open(talks[t]) /\ Kept(talks[t], talks'[t])
              /\ talks'[t].status \in Outside
              /\ talks'[t].sources = talks[t].sources
<1>0. talks \in [Talks -> Talk] BY DEF TypeOK
<1>1. PICK t \in Talks, st \in Outside :
        /\ Open(talks[t])
        /\ talks' = [talks EXCEPT ![t] = [talks[t] EXCEPT !.status = st]]
        /\ saw' = saw /\ filled' = filled
  BY DEF OutsideEdit, history_vars
<1>2. st \in KnownStatuses BY StatusAssumption
<1> DEFINE n == [talks[t] EXCEPT !.status = st]
<1>3. n \in Talk /\ Kept(talks[t], n) /\ n.status = st /\ n.sources = talks[t].sources
  BY <1>0, <1>2, StatusFacts
<1>4. talks' = [talks EXCEPT ![t] = n] BY <1>1
<1> HIDE DEF n
<1> QED BY <1>0, <1>1, <1>3, <1>4

-----------------------------------------------------------------------------
(* Types *)

LEMMA InitType == ASSUME Init PROVE TypeOK
<1> DEFINE Fresh ==
       [ status  : InitStatuses, reason  : {"none"}, sources : SUBSET Sources,
         gen     : {0},          claim   : {NoClaim}, history : {{}} ]
<1>1. /\ talks \in [Talks -> Fresh]
      /\ saw = [t \in Talks |-> {}] /\ filled = [t \in Talks |-> {}]
  BY DEF Init
<1>2. Fresh \subseteq Talk
  BY StatusAssumption, BoundsAssumption DEF Talk, Reasons
<1> HIDE DEF Fresh
<1> QED BY <1>1, <1>2 DEF TypeOK

LEMMA SawType ==
  ASSUME TypeOK, NEW S \in SUBSET Talks
  PROVE  /\ [t \in Talks |-> IF t \in S THEN talks[t].sources ELSE saw[t]] \in [Talks -> SUBSET Sources]
         /\ [t \in Talks |-> IF t \in S THEN {} ELSE filled[t]] \in [Talks -> SUBSET Sources]
<1>1. \A t \in Talks : /\ talks[t].sources \in SUBSET Sources
                       /\ saw[t] \in SUBSET Sources /\ filled[t] \in SUBSET Sources
  BY TalkFields DEF TypeOK
<1> QED BY <1>1

LEMMA NextType == ASSUME TypeOK, [Next]_vars PROVE TypeOK'
<1>1. CASE OwnerWriter BY <1>1, OwnerEffect DEF OwnerStep, TypeOK
<1>2. CASE ClaimCommand
  <2>1. PICK id \in Runs \X Batches, now \in Times, chosen \in SUBSET Talks :
          /\ Issued(id, now, chosen)
          /\ saw' = [t \in Talks |-> IF t \in chosen THEN talks[t].sources ELSE saw[t]]
          /\ filled' = [t \in Talks |-> IF t \in chosen THEN {} ELSE filled[t]]
    BY <1>2, ClaimEffect
  <2>2. talks' \in [Talks -> Talk] BY <2>1 DEF Issued
  <2>3. saw' \in [Talks -> SUBSET Sources] /\ filled' \in [Talks -> SUBSET Sources]
    BY <2>1, SawType
  <2> QED BY <2>2, <2>3 DEF TypeOK
<1>3. CASE Recover BY <1>3, RecoverEffect DEF Closing, TypeOK
<1>4. CASE Persist BY <1>4, PersistEffect DEF Closing, TypeOK
<1>5. CASE OutsideEdit BY <1>5, OutsideEffect DEF TypeOK
<1>6. CASE UNCHANGED vars BY <1>6 DEF vars, TypeOK
<1> QED BY <1>1, <1>2, <1>3, <1>4, <1>5, <1>6 DEF Next, OwnerWriter

\* Every command keeps the database a database: known statuses, one claim or
\* none, generations within the bound.
THEOREM DatabaseTyped == Spec => []TypeOK
<1>1. Init => TypeOK BY InitType
<1>2. TypeOK /\ [Next]_vars => TypeOK' BY NextType
<1> QED BY <1>1, <1>2, PTL DEF Spec

-----------------------------------------------------------------------------
(* Loading.  The stored contract talks about claims only up to how they    *)
(* ended, so a step that closes claims keeps it.                           *)

\* Two databases with the same claims, up to how they ended.
SameClaims(db, new) ==
  \A t \in Talks :
    /\ new[t].history = db[t].history
    /\ HasClaim(new[t]) <=> HasClaim(db[t])
    /\ HasClaim(db[t]) => Twins(new[t].claim, db[t].claim)

LEMMA TwinIdentity ==
  ASSUME NEW c, NEW d, Twins(c, d)
  PROVE  /\ Id(c) = Id(d) /\ c.at = d.at /\ c.gen = d.gen /\ c.excluded = d.excluded
         /\ \A e : SameEpoch(e, c) <=> SameEpoch(e, d)
         /\ \A e : SameEpoch(c, e) <=> SameEpoch(d, e)
         /\ \A e : SameIssue(e, c) <=> SameIssue(e, d)
<1> QED BY DEF Twins, Id, SameEpoch, SameIssue

\* Every claim of one database has a twin in the other, at the same place.
LEMMA TwinClaims ==
  ASSUME NEW db, NEW new, SameClaims(db, new), NEW t \in Talks
  PROVE  /\ \A c \in AllClaims(new[t]) : \E d \in AllClaims(db[t]) :
              /\ Twins(c, d)
              /\ \/ c = d /\ c \in db[t].history
                 \/ HasClaim(db[t]) /\ c = new[t].claim /\ d = db[t].claim
         /\ \A d \in AllClaims(db[t]) : \E c \in AllClaims(new[t]) : Twins(c, d)
<1>1. /\ new[t].history = db[t].history
      /\ HasClaim(new[t]) <=> HasClaim(db[t])
      /\ HasClaim(db[t]) => Twins(new[t].claim, db[t].claim)
  BY DEF SameClaims
<1>2. \A c : Twins(c, c) BY DEF Twins
<1>3. /\ AllClaims(new[t]) = new[t].history \union (IF HasClaim(new[t]) THEN {new[t].claim} ELSE {})
      /\ AllClaims(db[t]) = db[t].history \union (IF HasClaim(db[t]) THEN {db[t].claim} ELSE {})
  BY DEF AllClaims
<1>4. CASE HasClaim(db[t]) BY <1>1, <1>2, <1>3, <1>4
<1>5. CASE ~HasClaim(db[t]) BY <1>1, <1>2, <1>3, <1>5
<1> QED BY <1>4, <1>5

LEMMA TwinEpochs ==
  ASSUME NEW db, NEW new, SameClaims(db, new), NEW c, NEW d, Twins(c, d)
  PROVE  Epoch(new, c) = Epoch(db, d)
<1>1. ASSUME NEW t \in Talks, NEW e \in AllClaims(new[t]), SameEpoch(c, e)
      PROVE  \E f \in AllClaims(db[t]) : SameEpoch(d, f)
  BY <1>1, TwinClaims, TwinIdentity
<1>2. ASSUME NEW t \in Talks, NEW f \in AllClaims(db[t]), SameEpoch(d, f)
      PROVE  \E e \in AllClaims(new[t]) : SameEpoch(c, e)
  BY <1>2, TwinClaims, TwinIdentity
<1> QED BY <1>1, <1>2 DEF Epoch

\* A talk's current claim is not also in its history.
CurrentOnce(db) == \A t \in Talks : HasClaim(db[t]) => db[t].claim \notin db[t].history

LEMMA AdmittedOnce ==
  ASSUME NEW db, Admitted(db) PROVE CurrentOnce(db)
<1> QED BY DEF Admitted, ClaimContract, CurrentOnce, SameIssue

LEMMA BatchContractKept ==
  ASSUME NEW db, NEW new, SameClaims(db, new), BatchContract(db), CurrentOnce(db)
  PROVE  BatchContract(new)
<1>1. SharedClaimTime(new)
  BY TwinIdentity DEF SharedClaimTime, BatchContract, SameClaims
<1>2. ASSUME NEW t \in Talks, NEW c \in AllClaims(new[t])
      PROVE  c.excluded = Epoch(new, c)
  <2>1. PICK d \in AllClaims(db[t]) : Twins(c, d) BY TwinClaims
  <2>2. d.excluded = Epoch(db, d) BY DEF BatchContract, ExactExclusion
  <2> QED BY <2>1, <2>2, TwinEpochs, TwinIdentity
<1>3. ASSUME NEW t \in Talks, NEW c \in AllClaims(new[t]), NEW d \in AllClaims(new[t]),
             SameEpoch(c, d)
      PROVE  c = d
  <2>1. PICK e \in AllClaims(db[t]) :
          /\ Twins(c, e)
          /\ \/ c = e /\ c \in db[t].history
             \/ HasClaim(db[t]) /\ c = new[t].claim /\ e = db[t].claim
    BY TwinClaims
  <2>2. PICK f \in AllClaims(db[t]) :
          /\ Twins(d, f)
          /\ \/ d = f /\ d \in db[t].history
             \/ HasClaim(db[t]) /\ d = new[t].claim /\ f = db[t].claim
    BY TwinClaims
  <2>3. SameEpoch(e, f) BY <1>3, <2>1, <2>2, TwinIdentity
  <2>4. e = f BY <2>3 DEF BatchContract, ExactExclusion
  <2> QED BY <2>1, <2>2, <2>4 DEF CurrentOnce
<1> QED BY <1>1, <1>2, <1>3 DEF BatchContract, ExactExclusion

\* An answered claim meets the contract of one talk.
LEMMA AnswerContract ==
  ASSUME NEW k \in Talk, NEW n \in Talk, ClaimContract(k), Open(k),
         n.history = k.history, n.gen = k.gen, n.claim \in Claim,
         n.claim.state = "completed", Twins(n.claim, k.claim),
         n.status = n.claim.result, n.status \in TerminalResults
  PROVE  ClaimContract(n) /\ DriftFree(n)
<1>1. n.status # Inflight BY DEF TerminalResults, Analysed, Inflight
<1>2. ~Open(n) BY DEF Open
<1>3. k.claim.gen = k.gen /\ \A c \in k.history : ~SameIssue(c, k.claim)
  BY DEF ClaimContract, Open
<1>4. n.claim.gen = n.gen BY <1>3 DEF Twins
<1>5. \A c \in n.history : ~SameIssue(c, n.claim) BY <1>3, TwinIdentity
<1>6. /\ \A c \in n.history : c.state \in Closed
      /\ \A c, d \in n.history : SameIssue(c, d) => c = d
  BY DEF ClaimContract
<1> QED BY <1>1, <1>2, <1>4, <1>5, <1>6 DEF ClaimContract, DriftFree

LEMMA ClosingSameClaims ==
  ASSUME NEW ended, NEW st, Closing(ended, st)
  PROVE  SameClaims(talks, talks')
<1> SUFFICES ASSUME NEW t \in Talks
             PROVE  /\ talks'[t].history = talks[t].history
                    /\ HasClaim(talks'[t]) <=> HasClaim(talks[t])
                    /\ HasClaim(talks[t]) => Twins(talks'[t].claim, talks[t].claim)
  BY DEF SameClaims
<1>1. CASE t \in ended BY <1>1, ClaimAndNone DEF Closing, Open, HasClaim
<1>2. CASE t \notin ended BY <1>2 DEF Closing, Twins
<1> QED BY <1>1, <1>2

LEMMA KeptSameClaims ==
  ASSUME NEW db, NEW new, \A t \in Talks : Kept(db[t], new[t])
  PROVE  SameClaims(db, new)
<1> QED BY DEF SameClaims, Kept, HasClaim, Twins

LEMMA InitLoadable == ASSUME Init PROVE Loadable
<1>1. \A t \in Talks : /\ talks[t].claim = NoClaim /\ talks[t].history = {}
                       /\ talks[t].status # Inflight
  <2>1. Inflight \notin InitStatuses BY StatusAssumption DEF Unlisted, Inflight
  <2> QED BY <2>1 DEF Init
<1>2. \A t \in Talks : ~HasClaim(talks[t]) /\ AllClaims(talks[t]) = {}
  BY <1>1 DEF HasClaim, AllClaims
<1>3. BatchContract(talks) BY <1>2 DEF BatchContract, SharedClaimTime, ExactExclusion
<1>4. \A t \in Talks : ClaimContract(talks[t]) /\ DriftFree(talks[t])
  BY <1>1, <1>2 DEF ClaimContract, DriftFree, Open
<1> QED BY <1>3, <1>4 DEF Loadable, Admitted, Strict

LEMMA NextLoadable ==
  ASSUME TypeOK, Loadable, [Next]_vars PROVE Loadable'
<1>0. talks \in [Talks -> Talk] BY DEF TypeOK
<1>1. CASE OwnerWriter
  <2>1. OwnerStep BY <1>1, OwnerEffect
  <2>2. ASSUME NEW t \in Talks, DriftFree(talks[t]) PROVE DriftFree(talks'[t])
    <3>1. talks[t] \in Talk /\ talks'[t] \in Talk /\ Untouched(talks[t], talks'[t])
      BY <1>0, <2>1 DEF OwnerStep
    <3>2. Open(talks'[t]) <=> Open(talks[t]) BY <3>1, KeptFacts DEF Untouched
    <3> QED BY <2>2, <3>1, <3>2 DEF DriftFree, Untouched
  <2> QED BY <2>1, <2>2 DEF Loadable, Strict, OwnerStep
<1>2. CASE ClaimCommand BY <1>2, ClaimEffect DEF Issued, Loadable, Strict
<1>3. CASE Recover BY <1>3, RecoverEffect DEF Loadable, Strict
<1>4. CASE Persist
  <2>1. PICK id \in Runs \X Batches :
          /\ Closing(Members(talks, id), "completed")
          /\ \A t \in Members(talks, id) :
               /\ talks'[t].status = talks'[t].claim.result
               /\ talks'[t].status \in TerminalResults
    BY <1>4, PersistEffect
  <2>2. BatchContract(talks')
    <3>1. Admitted(talks) BY <2>1 DEF Closing
    <3> QED BY <2>1, <3>1, ClosingSameClaims, AdmittedOnce, BatchContractKept DEF Admitted
  <2>3. ASSUME NEW t \in Members(talks, id)
        PROVE  ClaimContract(talks'[t]) /\ DriftFree(talks'[t])
    <3>1. t \in Talks BY DEF Members
    <3>2. /\ talks[t] \in Talk /\ talks'[t] \in Talk /\ ClaimContract(talks[t])
      BY <1>0, <2>1, <3>1 DEF Closing, Admitted
    <3> QED BY <2>1, <3>2, AnswerContract DEF Closing
  <2>4. \A t \in Talks \ Members(talks, id) : talks'[t] = talks[t] BY <2>1 DEF Closing
  <2> QED BY <2>2, <2>3, <2>4 DEF Loadable, Admitted, Strict
<1>5. CASE OutsideEdit
  <2>1. PICK t \in Talks :
          /\ \A u \in Talks \ {t} : talks'[u] = talks[u]
          /\ Open(talks[t]) /\ Kept(talks[t], talks'[t])
          /\ talks'[t].status \in Outside
    BY <1>5, OutsideEffect
  <2>2. \A u \in Talks : Kept(talks[u], talks'[u]) BY <2>1 DEF Kept
  <2>3. BatchContract(talks')
    BY <2>2, KeptSameClaims, AdmittedOnce, BatchContractKept DEF Loadable, Admitted
  <2>4. ClaimContract(talks'[t])
    <3>1. talks'[t].status # Inflight BY <2>1, StatusAssumption
    <3>2. ClaimContract(talks[t]) BY DEF Loadable, Admitted
    <3> QED BY <2>1, <3>1, <3>2 DEF ClaimContract, Kept, HasClaim, Open
  <2>5. \A u \in Talks : ClaimContract(talks'[u])
    BY <2>1, <2>4 DEF Loadable, Admitted
  <2> QED BY <2>1, <2>3, <2>5 DEF Loadable, Admitted
<1>6. CASE UNCHANGED vars BY <1>6 DEF vars, Loadable
<1> QED BY <1>1, <1>2, <1>3, <1>4, <1>5, <1>6 DEF Next, OwnerWriter

\* Every database a command leaves can be loaded by every reader, although
\* persist-results.py installs its merge without validating it; and as long as
\* nobody edits the database by hand the queue itself can load it.
THEOREM AlwaysLoadable == Spec => []Loadable
<1> DEFINE Inv == TypeOK /\ Loadable
<1>1. Init => Inv BY InitType, InitLoadable
<1>2. Inv /\ [Next]_vars => Inv' BY NextType, NextLoadable
<1>3. Inv => Loadable OBVIOUS
<1> HIDE DEF Inv
<1> QED BY <1>1, <1>2, <1>3, PTL DEF Spec

-----------------------------------------------------------------------------
(* How leases end *)

LEMMA NextNeverSuperseded ==
  ASSUME TypeOK, NeverSuperseded, [Next]_vars PROVE NeverSuperseded'
<1>0. talks \in [Talks -> Talk] BY DEF TypeOK
<1> SUFFICES ASSUME NEW t \in Talks, NEW c \in AllClaims(talks'[t])
             PROVE  c.state # "superseded"
  BY DEF NeverSuperseded
<1>1. CASE OwnerWriter
  <2>1. talks'[t] \in Talk /\ Kept(talks[t], talks'[t])
    BY <1>1, OwnerEffect DEF OwnerStep, Untouched
  <2> QED BY <1>0, <2>1, KeptFacts DEF NeverSuperseded
<1>2. CASE ClaimCommand
  <2>1. PICK id \in Runs \X Batches, now \in Times, chosen \in SUBSET Talks :
          Issued(id, now, chosen)
    BY <1>2, ClaimEffect
  <2>2. CASE t \in chosen
    <3>1. c \in AllClaims(talks[t]) \/ c.state = "claimed"
      BY <2>1, <2>2 DEF Issued, AllClaims
    <3> QED BY <3>1 DEF NeverSuperseded
  <2>3. CASE t \notin chosen
    <3>1. talks'[t] \in Talk /\ Kept(talks[t], talks'[t])
      BY <2>1, <2>3 DEF Issued, Untouched
    <3> QED BY <1>0, <3>1, KeptFacts DEF NeverSuperseded
  <2> QED BY <2>2, <2>3
<1>3. ASSUME NEW ended, NEW st \in {"stale_recovered", "completed"}, Closing(ended, st)
      PROVE  c.state # "superseded"
  <2>1. c \in AllClaims(talks[t]) \/ c.state = st
    BY <1>3 DEF Closing, AllClaims
  <2> QED BY <2>1 DEF NeverSuperseded
<1>4. CASE Recover BY <1>3, <1>4, RecoverEffect
<1>5. CASE Persist BY <1>3, <1>5, PersistEffect
<1>6. CASE OutsideEdit
  <2>1. talks'[t] \in Talk /\ Kept(talks[t], talks'[t])
    BY <1>6, OutsideEffect DEF Kept
  <2> QED BY <1>0, <2>1, KeptFacts DEF NeverSuperseded
<1>7. CASE UNCHANGED vars BY <1>7 DEF vars, NeverSuperseded
<1> QED BY <1>1, <1>2, <1>4, <1>5, <1>6, <1>7 DEF Next, OwnerWriter

\* A lease ends by a return or by recovery and is never claimed over, whatever
\* a hand edit does to the claimed talk.
THEOREM NoLeaseClaimedOver == Spec => []NeverSuperseded
<1> DEFINE Inv == TypeOK /\ NeverSuperseded
<1>1. Init => NeverSuperseded
  BY DEF Init, NeverSuperseded, AllClaims, HasClaim
<1>2. Init => Inv BY <1>1, InitType
<1>3. Inv /\ [Next]_vars => Inv' BY NextType, NextNeverSuperseded
<1>4. Inv => NeverSuperseded OBVIOUS
<1> HIDE DEF Inv
<1> QED BY <1>2, <1>3, <1>4, PTL DEF Spec

\* When the ledgers are kept, so is every statement about claims alone.
LEMMA KeptClaims ==
  ASSUME TypeOK, TypeOK', NEW t \in Talks, Kept(talks[t], talks'[t])
  PROVE  AllClaims(talks'[t]) = AllClaims(talks[t])
<1> QED BY KeptFacts DEF TypeOK

LEMMA EpochSymmetric ==
  ASSUME NEW c, NEW d
  PROVE  /\ SameEpoch(c, d) <=> SameEpoch(d, c)
         /\ \A e : SameEpoch(c, d) /\ SameEpoch(d, e) => SameEpoch(c, e)
         /\ SameEpoch(c, c)
<1> QED BY DEF SameEpoch, Id

\* The step from a claim back to the one it was before: every claim after a
\* closing step is an old one untouched, or an open one that was closed.
LEMMA ClosingClaims ==
  ASSUME NEW ended, NEW st, Closing(ended, st), NEW t \in Talks,
         NEW c \in AllClaims(talks'[t])
  PROVE  \/ c \in AllClaims(talks[t]) /\ (t \in ended => c # talks[t].claim)
         \/ /\ t \in ended /\ Open(talks[t]) /\ c = talks'[t].claim
            /\ c.state = st
            /\ talks[t].claim \in AllClaims(talks[t])
            /\ Twins(c, talks[t].claim)
<1>1. CASE t \notin ended BY <1>1 DEF Closing
<1>2. CASE t \in ended
  <2>1. /\ Open(talks[t]) /\ HasClaim(talks[t])
        /\ talks'[t].history = talks[t].history
        /\ talks'[t].claim.state = st
        /\ Twins(talks'[t].claim, talks[t].claim)
    BY <1>2 DEF Closing, Open
  <2>2. talks[t].claim \in AllClaims(talks[t]) BY <2>1 DEF AllClaims
  <2>3. talks[t].claim \notin talks[t].history
    BY <2>1, AdmittedOnce DEF Closing, CurrentOnce
  <2>4. c = talks'[t].claim \/ c \in talks[t].history
    BY <2>1 DEF AllClaims
  <2> QED BY <1>2, <2>1, <2>2, <2>3, <2>4 DEF AllClaims
<1> QED BY <1>1, <1>2

LEMMA NextAnsweredWhole ==
  ASSUME TypeOK, TypeOK', BatchAnsweredWhole, [Next]_vars PROVE BatchAnsweredWhole'
<1> SUFFICES ASSUME NEW t \in Talks, NEW u \in Talks,
                    NEW c \in AllClaims(talks'[t]), NEW d \in AllClaims(talks'[u]),
                    SameEpoch(c, d), c.state = "completed"
             PROVE  d.state = "completed"
  BY DEF BatchAnsweredWhole
<1>1. ASSUME \A x \in Talks : Kept(talks[x], talks'[x]) PROVE d.state = "completed"
  BY <1>1, KeptClaims DEF BatchAnsweredWhole
<1>2. CASE OwnerWriter BY <1>1, <1>2, OwnerEffect DEF OwnerStep, Untouched
<1>3. CASE OutsideEdit BY <1>1, <1>3, OutsideEffect DEF Kept
<1>4. CASE UNCHANGED vars BY <1>1, <1>4 DEF vars, Kept
<1>5. CASE ClaimCommand
  <2>1. PICK id \in Runs \X Batches, now \in Times, chosen \in SUBSET Talks :
          Issued(id, now, chosen)
    BY <1>5, ClaimEffect
  <2>2. ASSUME NEW x \in Talks, NEW e \in AllClaims(talks'[x])
        PROVE  \/ e \in AllClaims(talks[x])
               \/ x \in chosen /\ e = talks'[x].claim
    <3>1. CASE x \in chosen BY <2>1, <3>1 DEF Issued, AllClaims
    <3>2. CASE x \notin chosen BY <2>1, <3>2, KeptClaims DEF Issued, Untouched
    <3> QED BY <3>1, <3>2
  <2>3. \A x \in chosen : talks'[x].claim.state = "claimed" BY <2>1 DEF Issued
  <2>4. c \in AllClaims(talks[t]) BY <2>2, <2>3
  <2>5. CASE d \in AllClaims(talks[u]) BY <2>4, <2>5 DEF BatchAnsweredWhole
  <2>6. CASE u \in chosen /\ d = talks'[u].claim
    \* c would be of the new epoch, whose members are exactly the chosen talks
    <3>1. d.excluded = Epoch(talks', d) /\ d.excluded = chosen
      BY <2>1, <2>6 DEF Issued, Strict, Admitted, BatchContract, ExactExclusion
    <3>2. t \in Epoch(talks', d) BY EpochSymmetric DEF Epoch
    <3>3. t \in chosen BY <3>1, <3>2
    <3>4. /\ talks'[t].claim \in AllClaims(talks'[t])
          /\ SameEpoch(talks'[t].claim, d)
      BY <2>1, <2>6, <3>3, ClaimAndNone DEF Issued, AllClaims, HasClaim, SameEpoch
    <3>5. SameEpoch(talks'[t].claim, c) BY <3>4, EpochSymmetric
    <3>6. c = talks'[t].claim
      BY <2>1, <3>4, <3>5 DEF Issued, Strict, Admitted, BatchContract, ExactExclusion
    <3> QED BY <2>3, <3>3, <3>6
  <2> QED BY <2>2, <2>5, <2>6
<1>6. CASE Recover
  <2>1. PICK due : Closing(due, "stale_recovered") BY <1>6, RecoverEffect
  <2>2. c \in AllClaims(talks[t]) BY <2>1, ClosingClaims
  <2>3. CASE d \in AllClaims(talks[u]) BY <2>2, <2>3 DEF BatchAnsweredWhole
  <2>4. CASE u \in due /\ Open(talks[u]) /\ Twins(d, talks[u].claim)
              /\ talks[u].claim \in AllClaims(talks[u])
    <3>1. SameEpoch(c, talks[u].claim) BY <2>4, TwinIdentity
    <3>2. talks[u].claim.state = "completed"
      BY <2>2, <2>4, <3>1 DEF BatchAnsweredWhole
    <3> QED BY <2>4, <3>2 DEF Open
  <2> QED BY <2>1, <2>3, <2>4, ClosingClaims
<1>7. CASE Persist
  <2>1. PICK id \in Runs \X Batches :
          /\ Closing(Members(talks, id), "completed")
          /\ \A x \in Members(talks, id) : talks[x].claim.excluded = Members(talks, id)
          /\ \A x, y \in Members(talks, id) : talks[x].claim.at = talks[y].claim.at
    BY <1>7, PersistEffect
  <2> DEFINE M == Members(talks, id)
  <2>2. \A x \in M : x \in Talks /\ HasClaim(talks[x]) /\ Id(talks[x].claim) = id
    BY DEF Members
  <2>3. ExactExclusion(talks) BY <2>1 DEF Closing, Admitted, BatchContract
  <2> HIDE DEF M
  <2>4. CASE d.state = "completed" BY <2>4
  <2>5. CASE d \in AllClaims(talks[u]) /\ (u \in M => d # talks[u].claim)
    <3>1. CASE c \in AllClaims(talks[t]) BY <2>5, <3>1 DEF BatchAnsweredWhole
    <3>2. CASE t \in M /\ Twins(c, talks[t].claim) /\ talks[t].claim \in AllClaims(talks[t])
      \* d is of the answered epoch, so it is the claim u is answered under
      <4> DEFINE e == talks[t].claim
      <4>1. e.excluded = M BY <2>1, <3>2 DEF M
      <4>2. e.excluded = Epoch(talks, e) BY <2>2, <2>3, <3>2 DEF ExactExclusion
      <4>3. SameEpoch(e, d) BY <3>2, TwinIdentity
      <4>4. u \in Epoch(talks, e) BY <2>5, <4>3 DEF Epoch
      <4>5. u \in M BY <4>1, <4>2, <4>4
      <4>6. SameEpoch(talks[u].claim, e)
        BY <2>1, <2>2, <3>2, <4>5 DEF SameEpoch, M
      <4>7. talks[u].claim \in AllClaims(talks[u]) BY <2>2, <4>5 DEF AllClaims
      <4>8. SameEpoch(talks[u].claim, d) BY <4>3, <4>6, EpochSymmetric
      <4>9. talks[u].claim = d BY <2>3, <2>5, <4>7, <4>8 DEF ExactExclusion
      <4> QED BY <2>5, <4>5, <4>9
    <3> QED BY <2>1, <3>1, <3>2, ClosingClaims DEF M
  <2> QED BY <2>1, <2>4, <2>5, ClosingClaims DEF M
<1> QED BY <1>2, <1>3, <1>4, <1>5, <1>6, <1>7 DEF Next, OwnerWriter

\* Of the claims issued together, either all are answered or none, for any
\* number of talks, runs and generations and under any hand edit of a status:
\* the exclusion list each claim carries is the batch, and the gate of
\* persist-results.py compares it with the talks it answers.
THEOREM BatchesAnsweredWhole == Spec => []BatchAnsweredWhole
<1> DEFINE Inv == TypeOK /\ BatchAnsweredWhole
<1>1. Init => BatchAnsweredWhole
  BY DEF Init, BatchAnsweredWhole, AllClaims, HasClaim
<1>2. Init => Inv BY <1>1, InitType
<1>3. Inv /\ [Next]_vars => Inv' BY NextType, NextAnsweredWhole
<1>4. Inv => BatchAnsweredWhole OBVIOUS
<1> HIDE DEF Inv
<1> QED BY <1>2, <1>3, <1>4, PTL DEF Spec

\* A closed claim is never reopened, rewritten or dropped.
THEOREM ClosedClaimsStay == Spec => ClosedClaimsKept
<1> DEFINE Preserved ==
       \A t \in Talks : \A c \in AllClaims(talks[t]) :
         \E d \in AllClaims(talks'[t]) :
           /\ Id(d) = Id(c) /\ d.gen = c.gen /\ d.at = c.at /\ d.excluded = c.excluded
           /\ c.state \in Closed => d = c
<1>1. ASSUME TypeOK, [Next]_vars PROVE [Preserved]_vars
  <2> SUFFICES ASSUME NEW t \in Talks, NEW c \in AllClaims(talks[t])
               PROVE  \E d \in AllClaims(talks'[t]) :
                        /\ Id(d) = Id(c) /\ d.gen = c.gen /\ d.at = c.at
                        /\ d.excluded = c.excluded
                        /\ c.state \in Closed => d = c
    OBVIOUS
  <2>0. TypeOK' BY <1>1, NextType
  <2>1. ASSUME AllClaims(talks'[t]) = AllClaims(talks[t])
        PROVE  \E d \in AllClaims(talks'[t]) :
                 /\ Id(d) = Id(c) /\ d.gen = c.gen /\ d.at = c.at
                 /\ d.excluded = c.excluded
                 /\ c.state \in Closed => d = c
    BY <2>1
  <2>2. CASE OwnerWriter
    BY <1>1, <2>0, <2>1, <2>2, OwnerEffect, KeptClaims DEF OwnerStep, Untouched
  <2>3. CASE OutsideEdit
    BY <1>1, <2>0, <2>1, <2>3, OutsideEffect, KeptClaims DEF Kept
  <2>4. CASE UNCHANGED vars BY <2>1, <2>4 DEF vars
  <2>5. CASE ClaimCommand
    <3>1. PICK id \in Runs \X Batches, now \in Times, chosen \in SUBSET Talks :
            Issued(id, now, chosen)
      BY <1>1, <2>5, ClaimEffect
    <3>2. CASE t \in chosen
      <4>1. c \in AllClaims(talks'[t]) BY <3>1, <3>2 DEF Issued, AllClaims
      <4> QED BY <4>1
    <3>3. CASE t \notin chosen
      BY <1>1, <2>0, <2>1, <3>1, <3>3, KeptClaims DEF Issued, Untouched
    <3> QED BY <3>2, <3>3
  <2>6. ASSUME NEW ended, NEW st, Closing(ended, st)
        PROVE  \E d \in AllClaims(talks'[t]) :
                 /\ Id(d) = Id(c) /\ d.gen = c.gen /\ d.at = c.at
                 /\ d.excluded = c.excluded
                 /\ c.state \in Closed => d = c
    <3>1. CASE t \notin ended BY <2>6, <2>1, <3>1 DEF Closing
    <3>2. CASE t \in ended /\ c \in talks[t].history
      <4>1. c \in AllClaims(talks'[t]) BY <2>6, <3>2 DEF Closing, AllClaims
      <4> QED BY <4>1
    <3>3. CASE t \in ended /\ c \notin talks[t].history
      <4>1. c = talks[t].claim /\ c.state = "claimed"
        BY <2>6, <3>3 DEF Closing, AllClaims, Open
      <4>2. talks'[t].claim \in AllClaims(talks'[t]) /\ Twins(talks'[t].claim, c)
        BY <2>6, <3>3, <4>1, ClaimAndNone DEF Closing, AllClaims, HasClaim
      <4> QED BY <4>1, <4>2, TwinIdentity DEF Closed
    <3> QED BY <3>1, <3>2, <3>3
  <2>7. CASE Recover BY <1>1, <2>6, <2>7, RecoverEffect
  <2>8. CASE Persist BY <1>1, <2>6, <2>8, PersistEffect
  <2> QED BY <1>1, <2>2, <2>3, <2>4, <2>5, <2>7, <2>8 DEF Next, OwnerWriter
<1>2. Init => TypeOK BY InitType
<1>3. TypeOK /\ [Next]_vars => TypeOK' BY NextType
<1> QED BY <1>1, <1>2, <1>3, PTL DEF Spec, ClosedClaimsKept

-----------------------------------------------------------------------------
(* Batches stay answerable *)

LEMMA SameMembers ==
  ASSUME NEW db, NEW new, SameClaims(db, new), NEW id
  PROVE  Members(new, id) = Members(db, id)
<1> QED BY TwinIdentity DEF Members, SameClaims

Answerable ==
  \A t \in Talks : Open(talks[t]) =>
    /\ talks[t].claim.excluded = Members(talks, Id(talks[t].claim))
    /\ \A u \in Members(talks, Id(talks[t].claim)) :
         Open(talks[u]) /\ talks[u].status = Inflight

\* A step that neither opens nor ends a claim of an open batch keeps it answerable.
LEMMA BatchUndisturbed ==
  ASSUME Answerable, SameClaims(talks, talks'), NEW t \in Talks, Open(talks[t]),
         talks'[t].claim = talks[t].claim,
         \A u \in Members(talks, Id(talks[t].claim)) :
           Open(talks'[u]) /\ talks'[u].status = Inflight
  PROVE  /\ talks'[t].claim.excluded = Members(talks', Id(talks'[t].claim))
         /\ \A u \in Members(talks', Id(talks'[t].claim)) :
              Open(talks'[u]) /\ talks'[u].status = Inflight
<1>1. Members(talks', Id(talks[t].claim)) = Members(talks, Id(talks[t].claim))
  BY SameMembers
<1> QED BY <1>1 DEF Answerable

LEMMA NextAnswerable ==
  ASSUME TypeOK, TypeOK', Loadable, Outside = {}, Answerable, [Next]_vars
  PROVE  Answerable'
<1>0. talks \in [Talks -> Talk] /\ talks' \in [Talks -> Talk] /\ Strict(talks)
  BY DEF TypeOK, Loadable
<1> SUFFICES ASSUME NEW t \in Talks, Open(talks'[t])
             PROVE  /\ talks'[t].claim.excluded = Members(talks', Id(talks'[t].claim))
                    /\ \A u \in Members(talks', Id(talks'[t].claim)) :
                         Open(talks'[u]) /\ talks'[u].status = Inflight
  BY DEF Answerable
<1>1. CASE OwnerWriter
  <2>1. \A u \in Talks : Untouched(talks[u], talks'[u])
    BY <1>1, OwnerEffect DEF OwnerStep
  <2>2. \A u \in Talks : Open(talks'[u]) <=> Open(talks[u])
    BY <1>0, <2>1, KeptFacts DEF Untouched
  <2>3. SameClaims(talks, talks') BY <2>1, KeptSameClaims DEF Untouched
  <2>4. talks'[t].claim = talks[t].claim BY <2>1 DEF Untouched, Kept
  <2>5. \A u \in Members(talks, Id(talks[t].claim)) :
          Open(talks'[u]) /\ talks'[u].status = Inflight
    <3>1. \A u \in Members(talks, Id(talks[t].claim)) :
            u \in Talks /\ Open(talks[u]) /\ talks[u].status = Inflight
      BY <2>2 DEF Answerable, Members
    <3> QED BY <2>1, <2>2, <3>1 DEF Untouched
  <2> QED BY <2>2, <2>3, <2>4, <2>5, BatchUndisturbed
<1>2. CASE ClaimCommand
  <2>1. PICK id \in Runs \X Batches, now \in Times, chosen \in SUBSET Talks :
          Issued(id, now, chosen)
    BY <1>2, ClaimEffect
  <2>2. \A u \in chosen :
          /\ HasClaim(talks'[u]) /\ Id(talks'[u].claim) = id
          /\ Open(talks'[u]) /\ talks'[u].status = Inflight /\ ~Open(talks[u])
          /\ talks'[u].claim.at = now /\ talks'[u].claim.excluded = chosen
          /\ talks'[u].claim \in AllClaims(talks'[u])
    BY <2>1, ClaimAndNone DEF Issued, HasClaim, Open, AllClaims
  <2>3. ASSUME NEW u \in chosen PROVE Members(talks', id) = chosen
    <3>1. chosen = Epoch(talks', talks'[u].claim)
      BY <2>1, <2>2 DEF Issued, Strict, Admitted, BatchContract, ExactExclusion
    <3>2. chosen \subseteq Members(talks', id) BY <2>2 DEF Members
    <3>3. ASSUME NEW v \in Members(talks', id) PROVE v \in chosen
      <4>1. /\ v \in Talks /\ HasClaim(talks'[v]) /\ Id(talks'[v].claim) = id
            /\ talks'[v].claim \in AllClaims(talks'[v])
        BY DEF Members, AllClaims
      <4>2. talks'[v].claim.at = talks'[u].claim.at
        BY <2>1, <2>2, <4>1 DEF Issued, Strict, Admitted, BatchContract, SharedClaimTime
      <4>3. SameEpoch(talks'[u].claim, talks'[v].claim) BY <2>2, <4>1, <4>2 DEF SameEpoch
      <4> QED BY <3>1, <4>1, <4>3 DEF Epoch
    <3> QED BY <3>2, <3>3
  <2>4. CASE t \in chosen BY <2>2, <2>3, <2>4
  <2>5. CASE t \notin chosen
    <3>1. \A u \in Talks \ chosen : Untouched(talks[u], talks'[u]) BY <2>1 DEF Issued
    <3>2. /\ Open(talks[t]) /\ talks'[t].claim = talks[t].claim
      BY <1>0, <2>5, <3>1, KeptFacts DEF Untouched, Kept
    <3> DEFINE M == Members(talks, Id(talks[t].claim))
    <3>3. \A u \in M : u \in Talks /\ Open(talks[u]) /\ talks[u].status = Inflight
      BY <3>2 DEF Answerable, Members
    <3>4. \A u \in M : u \notin chosen BY <2>2, <3>3
    <3>5. \A u \in M : Open(talks'[u]) /\ talks'[u].status = Inflight
      BY <1>0, <3>1, <3>3, <3>4, KeptFacts DEF Untouched
    <3>6. ASSUME NEW u \in Talks
          PROVE  u \in Members(talks', Id(talks[t].claim)) <=> u \in M
      <4>1. CASE u \notin chosen
        BY <3>1, <4>1 DEF Members, Untouched, Kept, HasClaim
      <4>2. CASE u \in chosen
        <5>1. ASSUME Id(talks'[u].claim) = Id(talks[t].claim) PROVE FALSE
          <6>1. t \in Members(talks', id) BY <2>2, <3>2, <4>2, <5>1 DEF Members, Open, HasClaim
          <6> QED BY <2>3, <2>5, <4>2, <6>1
        <5> QED BY <3>4, <4>2, <5>1 DEF Members
      <4> QED BY <4>1, <4>2
    <3>7. Members(talks', Id(talks[t].claim)) = M BY <3>6 DEF Members
    <3>8. talks[t].claim.excluded = M BY <3>2 DEF Answerable
    <3> HIDE DEF M
    <3> QED BY <3>2, <3>5, <3>7, <3>8
  <2> QED BY <2>4, <2>5
<1>3. CASE Recover
  <2>1. PICK due \in SUBSET Talks :
          /\ Closing(due, "stale_recovered")
          /\ \A x \in Talks, y \in Talks :
               (/\ Open(talks[x]) /\ talks[x].status = Inflight
                /\ Open(talks[y]) /\ talks[y].status = Inflight
                /\ talks[x].claim.run = talks[y].claim.run
                /\ talks[x].claim.at = talks[y].claim.at)
                 => (x \in due <=> y \in due)
    BY <1>3, RecoverEffect
  <2>2. \A u \in due : ~Open(talks'[u]) BY <2>1 DEF Closing, Open
  <2>3. t \notin due /\ talks'[t] = talks[t] BY <2>1, <2>2 DEF Closing
  <2>4. ASSUME NEW u \in Members(talks, Id(talks[t].claim))
        PROVE  Open(talks'[u]) /\ talks'[u].status = Inflight
    <3>1. /\ u \in Talks /\ HasClaim(talks[u]) /\ Open(talks[u])
          /\ talks[u].status = Inflight
          /\ Id(talks[u].claim) = Id(talks[t].claim)
      BY <2>3 DEF Answerable, Members
    <3>2. Open(talks[t]) /\ HasClaim(talks[t]) /\ talks[t].status = Inflight
      BY <1>0, <2>3 DEF Open, Strict, DriftFree
    <3>3. talks[u].claim.at = talks[t].claim.at
      BY <1>0, <3>1, <3>2 DEF Strict, Admitted, BatchContract, SharedClaimTime
    <3>4. talks[u].claim.run = talks[t].claim.run BY <3>1 DEF Id
    <3>5. u \notin due BY <2>1, <2>3, <3>1, <3>2, <3>3, <3>4
    <3>6. talks'[u] = talks[u] BY <2>1, <3>1, <3>5 DEF Closing
    <3> QED BY <3>1, <3>6
  <2> QED BY <2>1, <2>3, <2>4, ClosingSameClaims, BatchUndisturbed
<1>4. CASE Persist
  <2>1. PICK id \in Runs \X Batches : Closing(Members(talks, id), "completed")
    BY <1>4, PersistEffect
  <2>2. \A u \in Members(talks, id) : ~Open(talks'[u]) BY <2>1 DEF Closing, Open
  <2>3. t \notin Members(talks, id) /\ talks'[t] = talks[t] BY <2>1, <2>2 DEF Closing
  <2>4. Id(talks[t].claim) # id BY <2>3 DEF Members, Open
  <2>5. ASSUME NEW u \in Members(talks, Id(talks[t].claim))
        PROVE  Open(talks'[u]) /\ talks'[u].status = Inflight
    <3>1. u \in Talks /\ u \notin Members(talks, id) BY <2>4 DEF Members
    <3>2. talks'[u] = talks[u] BY <2>1, <3>1 DEF Closing
    <3> QED BY <2>3, <3>2 DEF Answerable
  <2> QED BY <2>1, <2>3, <2>5, ClosingSameClaims, BatchUndisturbed
<1>5. CASE OutsideEdit BY <1>5 DEF OutsideEdit
<1>6. CASE UNCHANGED vars BY <1>6 DEF vars, Answerable
<1> QED BY <1>1, <1>2, <1>3, <1>4, <1>5, <1>6 DEF Next, OwnerWriter

\* While nobody edits the database by hand, the gate of persist-results.py
\* would take the returns of every open batch: recovery takes back the leases
\* of a batch together, because they share one claim time, and no claim joins
\* or leaves a batch that was issued.
THEOREM OpenBatchesAnswerable == Spec => []OpenBatchAnswerable
<1> DEFINE Inv == TypeOK /\ Loadable /\ (Outside = {} => Answerable)
<1>1. Init => Answerable BY DEF Init, Answerable, Open, HasClaim
<1>2. Init => Inv BY <1>1, InitType, InitLoadable
<1>3. Inv /\ [Next]_vars => Inv' BY NextType, NextLoadable, NextAnswerable
<1>4. Inv => OpenBatchAnswerable BY DEF Answerable, OpenBatchAnswerable
<1> HIDE DEF Inv
<1> QED BY <1>2, <1>3, <1>4, PTL DEF Spec

-----------------------------------------------------------------------------
(* Sources.  Whoever adds a source to a claimed talk, or to an analysed     *)
(* talk that stays analysed, has filled in a field.                        *)

\* One talk k becomes n; f and g are what `filled` says of it before and after.
Registered(k, n, f, g) ==
  /\ f \intersect n.sources \subseteq g
  /\ n.sources \ k.sources \subseteq g \/ k.status = Unlisted \/ ~Open(k)
  /\ n.status = Unlisted => k.status = Unlisted
  /\ (k.status \in Analysed /\ n.status \in Analysed) => n.sources \ k.sources \subseteq g

AllRegistered == \A t \in Talks : Registered(talks[t], talks'[t], filled[t], filled'[t])

LEMMA InstallRegistered ==
  ASSUME TypeOK, NEW t \in Talks, NEW k, NEW fill, Install(t, k, fill),
         Registered(talks[t], k, filled[t], (filled[t] \intersect k.sources) \union fill)
  PROVE  AllRegistered
<1>1. \A u \in Talks :
        /\ talks'[u] = IF u = t THEN k ELSE talks[u]
        /\ filled'[u] = IF u = t THEN (filled[t] \intersect k.sources) \union fill ELSE filled[u]
  BY DEF Install, TypeOK
<1>2. \A u \in Talks : Registered(talks[u], talks[u], filled[u], filled[u])
  BY DEF Registered
<1> QED BY <1>1, <1>2 DEF AllRegistered

LEMMA Apart ==
  /\ "needs-reprocessing" \notin Analysed /\ "pending" \notin Analysed
  /\ "skipped_no_sources" \notin Analysed
  /\ Unlisted \notin KnownStatuses /\ Unlisted \notin Legacy
  /\ Unlisted # "needs-reprocessing" /\ Unlisted # "pending"
  /\ Unlisted # "skipped_no_sources"
<1> QED BY DEF Analysed, Unlisted, KnownStatuses, Claimable, Legacy,
               TerminalResults, Inflight

LEMMA AudioStatus ==
  ASSUME NEW k \in Talk, Idle(k), NEW s \in Sources, NEW f
  PROVE  Registered(k, AudioDeclared(k, s), f, (f \intersect AudioDeclared(k, s).sources) \union {})
<1> DEFINE w == [k EXCEPT !.sources = k.sources \union {s}]
           closed == HasClaim(k) /\ k.claim.state = "completed"
<1>1. w.status = k.status /\ w \in Talk BY FilledFacts DEF Filled
<1>2. WithStatus(w, "needs-reprocessing", "source_added").status = "needs-reprocessing"
  <2>1. "needs-reprocessing" \in KnownStatuses /\ "source_added" \in Reasons
    BY DEF KnownStatuses, Claimable, Reasons
  <2> HIDE DEF w
  <2> QED BY <1>1, <2>1, WithStatusFacts
<1>3. [w EXCEPT !.status = "pending"].status = "pending"
  <2> HIDE DEF w
  <2> QED BY <1>1, StatusFacts DEF KnownStatuses, Claimable
<1>4. closed \in BOOLEAN BY DEF HasClaim
<1>5. AudioDeclared(k, s) =
        CASE k.status \in Analysed -> WithStatus(w, "needs-reprocessing", "source_added")
          [] k.status = "skipped_no_sources" /\ closed -> WithStatus(w, "needs-reprocessing", "source_added")
          [] k.status = "skipped_no_sources" /\ ~closed -> [w EXCEPT !.status = "pending"]
          [] OTHER -> w
  BY DEF AudioDeclared
<1>6. k.status # Unlisted /\ ~Open(k) BY DEF Idle
<1> DEFINE a == AudioDeclared(k, s)
<1> HIDE DEF w, closed
<1>7. CASE k.status \in Analysed
  <2>1. a = WithStatus(w, "needs-reprocessing", "source_added") BY <1>5, <1>7, Apart
  <2> QED BY <1>2, <1>6, <2>1, Apart DEF Registered
<1>8. CASE k.status \notin Analysed
  <2>1. a.status \in {"needs-reprocessing", "pending", k.status}
    <3>1. a \in {WithStatus(w, "needs-reprocessing", "source_added"),
                 [w EXCEPT !.status = "pending"], w}
      BY <1>4, <1>5, <1>8
    <3> HIDE DEF a
    <3> QED BY <1>1, <1>2, <1>3, <3>1
  <2> QED BY <1>6, <1>8, <2>1, Apart DEF Registered
<1> QED BY <1>7, <1>8

LEMMA FilledSources ==
  ASSUME NEW k \in Talk, NEW s \in Sources
  PROVE  Filled(k, s).sources = k.sources \union {s} /\ Filled(k, s).status = k.status
<1> QED BY DEF Filled, Talk

LEMMA OwnerSources ==
  ASSUME TypeOK, OwnerWriter
  PROVE  AllRegistered
<1>0. talks \in [Talks -> Talk] /\ filled \in [Talks -> SUBSET Sources] BY DEF TypeOK
<1>1. CASE Normalize
  <2>1. PICK cap \in Probes(talks), stale \in SUBSET AnalysedIn(talks) :
          /\ talks' = Requeued(LegacyNormalized(talks, cap), stale)
          /\ filled' = filled
    BY <1>1 DEF Normalize, history_vars
  <2> DEFINE mid == LegacyNormalized(talks, cap)
  <2>2. /\ mid \in [Talks -> Talk]
        /\ \A t \in Talks : /\ mid[t].sources = talks[t].sources
                            /\ \/ mid[t].status = talks[t].status
                               \/ mid[t].status \in {"skipped_no_sources", "pending"}
                            /\ mid[t].status = talks[t].status \/ talks[t].status \in Legacy
    BY <1>0, LegacyNormalizedFacts
  <2>3. stale \in SUBSET AnalysedIn(mid)
    <3>1. \A t \in stale : t \in Talks /\ talks[t].status \in Analysed
      BY DEF AnalysedIn
    <3>2. Analysed \cap Legacy = {} BY DEF Analysed, Legacy
    <3> HIDE DEF mid
    <3> QED BY <2>2, <3>1, <3>2 DEF AnalysedIn
  <2> HIDE DEF mid
  <2>4. \A t \in Talks :
          /\ Requeued(mid, stale)[t].sources = mid[t].sources
          /\ Requeued(mid, stale)[t].status \in {mid[t].status, "needs-reprocessing"}
    BY <2>2, <2>3, RequeuedFacts
  <2>5. talks' = Requeued(mid, stale) BY <2>1 DEF mid
  <2> QED BY <2>1, <2>2, <2>4, <2>5, Apart DEF Registered, AllRegistered
<1>2. CASE RepairSources
  <2>1. PICK t \in Talks :
          /\ Idle(talks[t])
          /\ \E src \in SUBSET Sources, blank \in SUBSET Blanks(talks[t]),
               st \in RepairStatuses \union {talks[t].status},
               why \in RepairReasons \union {talks[t].reason} :
               /\ RegistrationRequeues(talks[t], src, blank, st, why)
               /\ Install(t, [talks[t] EXCEPT !.sources = src, !.status = st, !.reason = why],
                          src \intersect blank)
    BY <1>2 DEF RepairSources
  <2>2. PICK src \in SUBSET Sources, blank \in SUBSET Blanks(talks[t]),
             st \in RepairStatuses \union {talks[t].status},
             why \in RepairReasons \union {talks[t].reason} :
               /\ RegistrationRequeues(talks[t], src, blank, st, why)
               /\ Install(t, [talks[t] EXCEPT !.sources = src, !.status = st, !.reason = why],
                          src \intersect blank)
    BY <2>1
  <2> DEFINE n == [talks[t] EXCEPT !.sources = src, !.status = st, !.reason = why]
  <2>3. n.sources = src /\ n.status = st BY <1>0 DEF Talk
  <2>4. /\ talks[t].status # Unlisted /\ ~Open(talks[t]) BY <2>1 DEF Idle
  <2>5. st # Unlisted
    <3>1. RepairStatuses \subseteq KnownStatuses
      BY StatusAssumption DEF KnownStatuses, TerminalResults, Claimable, Analysed
    <3> QED BY <2>4, <3>1, Apart
  <2>6. Install(t, n, src \intersect blank) /\ RegistrationRequeues(talks[t], src, blank, st, why) BY <2>2
  <2> HIDE DEF n
  <2>7. Registered(talks[t], n, filled[t],
                   (filled[t] \intersect n.sources) \union (src \intersect blank))
    <3>1. (talks[t].status \in Analysed /\ st \in Analysed)
            => src \ talks[t].sources \subseteq src \intersect blank
      BY <2>6, Apart DEF RegistrationRequeues
    <3> QED BY <2>3, <2>4, <2>5, <3>1 DEF Registered
  <2> QED BY <2>6, <2>7, InstallRegistered
<1>3. CASE DeclareLocalAudio
  <2>1. PICK t \in Talks, s \in Sources :
          Idle(talks[t]) /\ Install(t, AudioDeclared(talks[t], s), {})
    BY <1>3 DEF DeclareLocalAudio
  <2> QED BY <1>0, <2>1, AudioStatus, InstallRegistered
<1>4. CASE PromoteSourceAlias
  <2>1. PICK t \in Talks : \E old \in talks[t].sources, s \in Sources \ talks[t].sources :
          /\ Idle(talks[t])
          /\ Install(t, WithStatus([talks[t] EXCEPT !.sources = (@ \ {old}) \union {s}],
                                   "needs-reprocessing", "source_added"), {})
    BY <1>4 DEF PromoteSourceAlias
  <2>2. PICK old \in talks[t].sources, s \in Sources \ talks[t].sources :
          /\ Idle(talks[t])
          /\ Install(t, WithStatus([talks[t] EXCEPT !.sources = (@ \ {old}) \union {s}],
                                   "needs-reprocessing", "source_added"), {})
    BY <2>1
  <2> DEFINE src == (talks[t].sources \ {old}) \union {s}
             k == [talks[t] EXCEPT !.sources = src]
  <2>3. src \in SUBSET Sources BY <1>0, TalkFields
  <2>4. k \in Talk
    <3> HIDE DEF src
    <3> QED BY <1>0, <2>3 DEF Talk
  <2> HIDE DEF k
  <2>5. "needs-reprocessing" \in KnownStatuses /\ "source_added" \in Reasons
    BY DEF KnownStatuses, Claimable, Reasons
  <2>6. WithStatus(k, "needs-reprocessing", "source_added").status = "needs-reprocessing"
    BY <2>4, <2>5, WithStatusFacts
  <2> DEFINE n == WithStatus(k, "needs-reprocessing", "source_added")
  <2>7. Registered(talks[t], n, filled[t], (filled[t] \intersect n.sources) \union {})
    BY <2>2, <2>6, Apart DEF Registered, Idle
  <2>8. Install(t, WithStatus(k, "needs-reprocessing", "source_added"), {})
    BY <2>2 DEF k
  <2> QED BY <2>7, <2>8, InstallRegistered
<1>5. CASE MigrateObservations
  <2>1. PICK broken \in SUBSET AnalysedIn(talks) :
          talks' = Requeued(talks, broken) /\ filled' = filled
    BY <1>5 DEF MigrateObservations, history_vars
  <2>2. \A t \in Talks : /\ talks'[t].sources = talks[t].sources
                         /\ talks'[t].status \in {talks[t].status, "needs-reprocessing"}
    BY <1>0, <2>1, RequeuedFacts
  <2> QED BY <2>1, <2>2, Apart DEF Registered, AllRegistered
<1>6. CASE ScanShownotes
  <2> DEFINE scanned(new, s, fill) ==
               [t \in Talks |->
                  IF t \in new THEN [Filled(talks[t], s) EXCEPT !.status = "pending"]
                  ELSE IF t \in fill THEN Filled(talks[t], s) ELSE talks[t]]
             noted(s, fill) ==
               [t \in Talks |-> IF t \in fill THEN filled[t] \union ({s} \ talks[t].sources)
                                ELSE filled[t]]
             may == IF "scan_shownotes" \in Fillers THEN Listed(talks) ELSE {}
  <2>0. \E new \in SUBSET (Talks \ Listed(talks)), s \in Sources, fill \in SUBSET may :
          /\ scanned(new, s, fill) # talks
          /\ Admitted(scanned(new, s, fill))
          /\ talks' = scanned(new, s, fill)
          /\ filled' = noted(s, fill)
          /\ UNCHANGED saw
    BY <1>6, Zenon DEF ScanShownotes
  <2>1. may \subseteq Listed(talks) OBVIOUS
  <2> HIDE DEF may
  <2>2. PICK new \in SUBSET (Talks \ Listed(talks)), s \in Sources, fill \in SUBSET may :
          talks' = scanned(new, s, fill) /\ filled' = noted(s, fill)
    <3> HIDE DEF scanned, noted
    <3> QED BY <2>0
  <2>3. ASSUME NEW t \in new
        PROVE  /\ t \in Talks /\ talks[t].status = Unlisted /\ t \notin fill
               /\ [Filled(talks[t], s) EXCEPT !.status = "pending"].status = "pending"
    <3>1. t \in Talks /\ talks[t].status = Unlisted /\ t \notin fill BY <2>1 DEF Listed
    <3>2. Filled(talks[t], s) \in Talk BY <1>0, <3>1, FilledFacts
    <3> QED BY <3>1, <3>2, StatusFacts DEF KnownStatuses, Claimable
  <2>4. \A t \in Talks : /\ Filled(talks[t], s).sources = talks[t].sources \union {s}
                         /\ Filled(talks[t], s).status = talks[t].status
    BY <1>0, FilledSources
  <2>5. ASSUME NEW t \in Talks
        PROVE  Registered(talks[t], talks'[t], filled[t], filled'[t])
    <3>1. CASE t \in new
      <4>1. talks'[t].status = "pending" /\ filled'[t] = filled[t] BY <2>2, <2>3, <3>1
      <4> QED BY <2>3, <3>1, <4>1, Apart DEF Registered, Analysed, Unlisted
    <3>2. CASE t \notin new /\ t \in fill
      <4>1. /\ talks'[t] = Filled(talks[t], s)
            /\ filled'[t] = filled[t] \union ({s} \ talks[t].sources)
        BY <2>2, <3>2
      <4> QED BY <2>4, <4>1 DEF Registered
    <3>3. CASE t \notin new /\ t \notin fill
      <4>1. talks'[t] = talks[t] /\ filled'[t] = filled[t] BY <2>2, <3>3
      <4> QED BY <4>1 DEF Registered
    <3> QED BY <3>1, <3>2, <3>3
  <2> QED BY <2>5 DEF AllRegistered
<1>7. CASE UpdateTalkPublishing \/ RecordPptx
  <2>1. PICK t \in Listed(talks), s \in Sources :
          Install(t, Filled(talks[t], s), {s} \ talks[t].sources)
    BY <1>7 DEF UpdateTalkPublishing, RecordPptx
  <2>2. t \in Talks BY DEF Listed
  <2> DEFINE n == Filled(talks[t], s)
  <2>3. n.sources = talks[t].sources \union {s} /\ n.status = talks[t].status
    BY <1>0, <2>2, FilledSources
  <2> HIDE DEF n
  <2>4. Registered(talks[t], n, filled[t],
                   (filled[t] \intersect n.sources) \union ({s} \ talks[t].sources))
    BY <2>3 DEF Registered
  <2>5. Install(t, n, {s} \ talks[t].sources) BY <2>1 DEF n
  <2> QED BY <2>2, <2>4, <2>5, InstallRegistered
<1> QED BY <1>1, <1>2, <1>3, <1>4, <1>5, <1>6, <1>7 DEF OwnerWriter

\* A claim command changes no sources and lists no file.
LEMMA ClaimSources ==
  ASSUME TypeOK, ClaimCommand, NEW t \in Talks
  PROVE  /\ talks'[t].sources = talks[t].sources
         /\ talks'[t].status = Unlisted => talks[t].status = Unlisted
<1>0. talks \in [Talks -> Talk] BY DEF TypeOK
<1>1. PICK id \in Runs \X Batches, requested \in SUBSET Listed(talks) :
        \E now \in Times, limit \in 1 .. Cardinality(Talks), cap \in Probes(talks) :
          ClaimBatch(LegacyNormalized(talks, cap), cap, id, now, requested, limit)
  BY DEF ClaimCommand
<1>2. PICK now \in Times, limit \in 1 .. Cardinality(Talks), cap \in Probes(talks) :
        ClaimBatch(LegacyNormalized(talks, cap), cap, id, now, requested, limit)
  BY <1>1
<1> DEFINE db == LegacyNormalized(talks, cap)
           chosen == Selected(db, cap, id, requested, limit)
<1>3. talks' = [x \in Talks |-> IF x \in chosen THEN Leased(db[x], id, now, chosen) ELSE db[x]]
  BY <1>2 DEF ClaimBatch
<1>4. /\ db[t] \in Talk /\ db[t].sources = talks[t].sources
      /\ db[t].status = Unlisted => talks[t].status = Unlisted
  BY <1>0, LegacyNormalizedFacts, Apart
<1> HIDE DEF db, chosen
<1>5. /\ Leased(db[t], id, now, chosen).sources = db[t].sources
      /\ Leased(db[t], id, now, chosen).status = Inflight
  BY <1>4 DEF Leased, Talk
<1> QED BY <1>3, <1>4, <1>5 DEF Inflight, Unlisted

\* What a worker holds it saw whole, but for what was filled in since; a file not
\* yet in the database is not held.
SawWhole ==
  \A t \in Talks : /\ Open(talks[t]) => talks[t].sources \ saw[t] \subseteq filled[t]
                   /\ talks[t].status = Unlisted => ~HasClaim(talks[t])

LEMMA NextSawWhole ==
  ASSUME TypeOK, TypeOK', SawWhole, [Next]_vars PROVE SawWhole'
<1>0. talks \in [Talks -> Talk] /\ talks' \in [Talks -> Talk] BY DEF TypeOK
<1> SUFFICES ASSUME NEW t \in Talks
             PROVE  /\ Open(talks'[t]) => talks'[t].sources \ saw'[t] \subseteq filled'[t]
                    /\ talks'[t].status = Unlisted => ~HasClaim(talks'[t])
  BY DEF SawWhole
<1>1. CASE OwnerWriter
  <2>1. /\ Untouched(talks[t], talks'[t]) /\ saw' = saw
        /\ Registered(talks[t], talks'[t], filled[t], filled'[t])
    BY <1>1, OwnerEffect, OwnerSources DEF OwnerStep, AllRegistered
  <2>2. /\ Open(talks'[t]) <=> Open(talks[t])
        /\ HasClaim(talks'[t]) <=> HasClaim(talks[t])
    BY <1>0, <2>1, KeptFacts DEF Untouched
  <2> QED BY <2>1, <2>2 DEF SawWhole, Registered, Open
<1>2. CASE ClaimCommand
  <2>1. PICK id \in Runs \X Batches, now \in Times, chosen \in SUBSET Talks :
          /\ Issued(id, now, chosen)
          /\ saw' = [x \in Talks |-> IF x \in chosen THEN talks[x].sources ELSE saw[x]]
          /\ filled' = [x \in Talks |-> IF x \in chosen THEN {} ELSE filled[x]]
    BY <1>2, ClaimEffect
  <2>2. talks'[t].sources = talks[t].sources /\ (talks'[t].status = Unlisted => talks[t].status = Unlisted)
    BY <1>0, <1>2, ClaimSources
  <2>3. CASE t \in chosen
    <3>1. talks'[t].status = Inflight BY <2>1, <2>3 DEF Issued
    <3> QED BY <2>1, <2>2, <2>3, <3>1 DEF Unlisted, Inflight
  <2>4. CASE t \notin chosen
    <3>1. Untouched(talks[t], talks'[t]) BY <2>1, <2>4 DEF Issued
    <3>2. /\ Open(talks'[t]) <=> Open(talks[t])
          /\ HasClaim(talks'[t]) <=> HasClaim(talks[t])
      BY <1>0, <3>1, KeptFacts DEF Untouched
    <3> QED BY <2>1, <2>2, <2>4, <3>2 DEF SawWhole
  <2> QED BY <2>3, <2>4
<1>3. CASE Recover
  <2>1. PICK due : /\ Closing(due, "stale_recovered") /\ saw' = saw /\ filled' = filled
                   /\ \A x \in due : talks'[x].status \in Claimable
    BY <1>3, RecoverEffect
  <2>2. CASE t \in due
    BY <2>1, <2>2, Apart DEF Closing, Open, KnownStatuses
  <2>3. CASE t \notin due BY <2>1, <2>3 DEF Closing, SawWhole
  <2> QED BY <2>2, <2>3
<1>4. CASE Persist
  <2>1. PICK id \in Runs \X Batches :
          /\ Closing(Members(talks, id), "completed") /\ saw' = saw /\ filled' = filled
          /\ \A x \in Members(talks, id) : talks'[x].status \in TerminalResults
    BY <1>4, PersistEffect
  <2>2. CASE t \in Members(talks, id)
    BY <2>1, <2>2, Apart DEF Closing, Open, KnownStatuses
  <2>3. CASE t \notin Members(talks, id) BY <2>1, <2>3 DEF Closing, SawWhole
  <2> QED BY <2>2, <2>3
<1>5. CASE OutsideEdit
  <2>1. PICK u \in Talks :
          /\ \A v \in Talks \ {u} : talks'[v] = talks[v]
          /\ Open(talks[u]) /\ Kept(talks[u], talks'[u])
          /\ talks'[u].status \in Outside
          /\ talks'[u].sources = talks[u].sources
    BY <1>5, OutsideEffect
  <2>2. saw' = saw /\ filled' = filled BY <1>5, OutsideEffect
  <2>3. talks'[u].status # Unlisted BY <2>1, Apart, StatusAssumption
  <2>4. CASE t = u BY <2>1, <2>2, <2>3, <2>4 DEF SawWhole
  <2>5. CASE t # u BY <2>1, <2>2, <2>5 DEF SawWhole
  <2> QED BY <2>4, <2>5
<1>6. CASE UNCHANGED vars BY <1>6 DEF vars, SawWhole
<1> QED BY <1>1, <1>2, <1>3, <1>4, <1>5, <1>6 DEF Next, OwnerWriter

LEMMA InitSawWhole == ASSUME Init PROVE SawWhole
<1> QED BY DEF Init, SawWhole, Open, HasClaim

\* What an analysis that lands did not see was filled in under its claim:
\* whoever registers or replaces sources refuses a talk a worker holds, hand-edited
\* statuses included.  Every writer of the queue's database takes part.
THEOREM ReturnsMissOnlyFilled == Spec => ReturnMissesOnlyFilled
<1> DEFINE Inv == TypeOK /\ SawWhole
           Whole == \A t \in Talks :
                      (talks[t].status = Inflight /\ talks'[t].status \in Analysed)
                        => talks[t].sources \ saw[t] \subseteq filled[t]
<1>1. Init => Inv BY InitType, InitSawWhole
<1>2. Inv /\ [Next]_vars => Inv' BY NextType, NextSawWhole
<1>3. ASSUME Inv, [Next]_vars PROVE [Whole]_vars
  <2> SUFFICES ASSUME NEW t \in Talks, talks[t].status = Inflight,
                      talks'[t].status \in Analysed
               PROVE  talks[t].sources \ saw[t] \subseteq filled[t]
    OBVIOUS
  <2>0. Inflight \notin Analysed /\ Inflight \notin Claimable
    BY DEF Inflight, Analysed, Claimable
  <2>1. CASE OwnerWriter
    BY <1>3, <2>0, <2>1, OwnerEffect DEF OwnerStep, Untouched
  <2>2. CASE ClaimCommand BY <1>3, <2>0, <2>2, ClaimEffect DEF Issued, Untouched
  <2>3. CASE Recover
    <3>1. PICK due : Closing(due, "stale_recovered") BY <1>3, <2>3, RecoverEffect
    <3>2. t \in due BY <2>0, <3>1 DEF Closing
    <3> QED BY <1>3, <3>1, <3>2 DEF Closing, SawWhole
  <2>4. CASE Persist
    <3>1. PICK id \in Runs \X Batches : Closing(Members(talks, id), "completed")
      BY <1>3, <2>4, PersistEffect
    <3>2. t \in Members(talks, id) BY <2>0, <3>1 DEF Closing
    <3> QED BY <1>3, <3>1, <3>2 DEF Closing, SawWhole
  <2>5. CASE OutsideEdit
    <3>1. PICK u \in Talks :
            /\ \A v \in Talks \ {u} : talks'[v] = talks[v]
            /\ Open(talks[u])
      BY <1>3, <2>5, OutsideEffect
    <3>2. t = u BY <2>0, <3>1
    <3> QED BY <1>3, <3>1, <3>2 DEF SawWhole
  <2>6. CASE UNCHANGED vars BY <2>0, <2>6 DEF vars
  <2> QED BY <1>3, <2>1, <2>2, <2>3, <2>4, <2>5, <2>6 DEF Next, OwnerWriter
<1> HIDE DEF Inv
<1>4. Spec => [][Whole]_vars BY <1>1, <1>2, <1>3, PTL DEF Spec
<1> QED BY <1>4 DEF ReturnMissesOnlyFilled

\* A talk stays analysed beside a source its analysis did not have only when a
\* field was filled in: every other writer that registers one requeues the talk in
\* the same step.
THEOREM OnlyFillingKeepsAnalysis == Spec => OnlyFillersKeepAnalysis
<1> DEFINE Only == \A t \in Talks :
                     (talks[t].status \in Analysed /\ talks'[t].status \in Analysed)
                       => talks'[t].sources \ talks[t].sources \subseteq filled'[t]
<1>1. Init => TypeOK BY InitType
<1>2. TypeOK /\ [Next]_vars => TypeOK' BY NextType
<1>3. ASSUME TypeOK, [Next]_vars PROVE [Only]_vars
  <2> SUFFICES ASSUME NEW t \in Talks, talks[t].status \in Analysed,
                      talks'[t].status \in Analysed
               PROVE  talks'[t].sources \ talks[t].sources \subseteq filled'[t]
    OBVIOUS
  <2>1. CASE OwnerWriter BY <1>3, <2>1, OwnerSources DEF Registered, AllRegistered
  <2>2. CASE ClaimCommand BY <1>3, <2>2, ClaimSources
  <2>3. CASE Recover BY <1>3, <2>3, RecoverEffect DEF Closing
  <2>4. CASE Persist BY <1>3, <2>4, PersistEffect DEF Closing
  <2>5. CASE OutsideEdit BY <1>3, <2>5, OutsideEffect
  <2>6. CASE UNCHANGED vars BY <2>6 DEF vars
  <2> QED BY <1>3, <2>1, <2>2, <2>3, <2>4, <2>5, <2>6 DEF Next, OwnerWriter
<1>4. Spec => [][Only]_vars BY <1>1, <1>2, <1>3, PTL DEF Spec
<1> QED BY <1>4 DEF OnlyFillersKeepAnalysis

-----------------------------------------------------------------------------
(* Generations *)

\* The claims of one talk are numbered 1 .. gen, one claim a number.
Numbered(k) ==
  /\ IsFiniteSet(AllClaims(k))
  /\ \A c, d \in AllClaims(k) : c.gen = d.gen => c = d
  /\ {c.gen : c \in AllClaims(k)} = 1 .. k.gen
  /\ Cardinality(AllClaims(k)) = k.gen

LEMMA NumberedIssue ==
  ASSUME NEW k, NEW n, Numbered(k), k.gen \in Nat, n.gen = k.gen + 1,
         n.claim # NoClaim, n.history = AllClaims(k), n.claim.gen = k.gen + 1
  PROVE  Numbered(n)
<1> DEFINE C == AllClaims(k)
<1>1. AllClaims(n) = C \union {n.claim} BY DEF AllClaims, HasClaim
<1>2. /\ IsFiniteSet(C) /\ Cardinality(C) = k.gen
      /\ {c.gen : c \in C} = 1 .. k.gen
      /\ \A c, d \in C : c.gen = d.gen => c = d
  BY DEF Numbered
<1> HIDE DEF C
<1>3. \A c \in C : c.gen \in 1 .. k.gen BY <1>2
<1>4. \A c \in C : c.gen # k.gen + 1 BY <1>3
<1>5. n.claim \notin C BY <1>4
<1>6. IsFiniteSet(C \union {n.claim}) /\ Cardinality(C \union {n.claim}) = k.gen + 1
  BY <1>2, <1>5, FS_AddElement
<1>7. {c.gen : c \in C \union {n.claim}} = 1 .. (k.gen + 1)
  <2>1. {c.gen : c \in C \union {n.claim}} = {c.gen : c \in C} \union {n.claim.gen}
    OBVIOUS
  <2>2. 1 .. (k.gen + 1) = (1 .. k.gen) \union {k.gen + 1} OBVIOUS
  <2> QED BY <1>2, <2>1, <2>2
<1>8. \A c, d \in C \union {n.claim} : c.gen = d.gen => c = d BY <1>2, <1>4
<1> QED BY <1>1, <1>6, <1>7, <1>8 DEF Numbered

LEMMA NumberedClose ==
  ASSUME NEW k, NEW n, Numbered(k), HasClaim(k), n.claim # NoClaim,
         k.claim \notin k.history,
         n.history = k.history, n.gen = k.gen, n.claim.gen = k.claim.gen
  PROVE  Numbered(n)
<1> DEFINE H == k.history
<1>1. AllClaims(k) = H \union {k.claim} /\ AllClaims(n) = H \union {n.claim}
  BY DEF AllClaims, HasClaim
<1>2. /\ IsFiniteSet(H \union {k.claim}) /\ Cardinality(H \union {k.claim}) = k.gen
      /\ {c.gen : c \in H \union {k.claim}} = 1 .. k.gen
      /\ \A c, d \in H \union {k.claim} : c.gen = d.gen => c = d
  BY <1>1 DEF Numbered
<1>3. k.claim \notin H OBVIOUS
<1> HIDE DEF H
<1>4. \A c \in H : c.gen # k.claim.gen BY <1>2, <1>3
<1>5. n.claim \notin H BY <1>4
<1>6. IsFiniteSet(H) BY <1>2, FS_Subset
<1>7. /\ Cardinality(H \union {k.claim}) = Cardinality(H) + 1
      /\ Cardinality(H \union {n.claim}) = Cardinality(H) + 1
      /\ IsFiniteSet(H \union {n.claim})
  BY <1>3, <1>5, <1>6, FS_AddElement
<1>8. /\ {c.gen : c \in H \union {n.claim}} = {c.gen : c \in H} \union {n.claim.gen}
      /\ {c.gen : c \in H \union {k.claim}} = {c.gen : c \in H} \union {k.claim.gen}
  OBVIOUS
<1>9. {c.gen : c \in H \union {n.claim}} = 1 .. k.gen BY <1>2, <1>8
<1>10. \A c, d \in H \union {n.claim} : c.gen = d.gen => c = d BY <1>2, <1>4
<1> QED BY <1>1, <1>2, <1>7, <1>9, <1>10 DEF Numbered

LEMMA NumberedKept ==
  ASSUME NEW k \in Talk, NEW n \in Talk, Kept(k, n), Numbered(k) PROVE Numbered(n)
<1> QED BY KeptFacts DEF Numbered, Kept

LEMMA NextNumbered ==
  ASSUME TypeOK, \A t \in Talks : Numbered(talks[t]), [Next]_vars
  PROVE  \A t \in Talks : Numbered(talks'[t])
<1>0. talks \in [Talks -> Talk] /\ talks' \in [Talks -> Talk]
  BY NextType DEF TypeOK
<1> SUFFICES ASSUME NEW t \in Talks PROVE Numbered(talks'[t])
  OBVIOUS
<1>1. CASE OwnerWriter BY <1>0, <1>1, OwnerEffect, NumberedKept DEF OwnerStep, Untouched
<1>2. CASE ClaimCommand
  <2>1. PICK id \in Runs \X Batches, now \in Times, chosen \in SUBSET Talks :
          Issued(id, now, chosen)
    BY <1>2, ClaimEffect
  <2>2. CASE t \in chosen
    <3>1. talks[t].gen \in Nat BY <1>0, TalkFields
    <3>2. /\ talks'[t].gen = talks[t].gen + 1 /\ talks'[t].claim # NoClaim
          /\ talks'[t].history = AllClaims(talks[t])
          /\ talks'[t].claim.gen = talks[t].gen + 1
      BY <2>1, <2>2, ClaimAndNone DEF Issued
    <3> QED BY <3>1, <3>2, NumberedIssue
  <2>3. CASE t \notin chosen BY <1>0, <2>1, <2>3, NumberedKept DEF Issued, Untouched
  <2> QED BY <2>2, <2>3
<1>3. ASSUME NEW ended, NEW st, Closing(ended, st) PROVE Numbered(talks'[t])
  <2>1. CASE t \in ended
    <3>1. /\ HasClaim(talks[t]) /\ talks'[t].claim # NoClaim
          /\ talks'[t].history = talks[t].history /\ talks'[t].gen = talks[t].gen
          /\ talks'[t].claim.gen = talks[t].claim.gen
      BY <1>3, <2>1, ClaimAndNone DEF Closing, Open, Twins
    <3>2. talks[t].claim \notin talks[t].history
      BY <1>3, <3>1, AdmittedOnce DEF Closing, CurrentOnce
    <3> QED BY <3>1, <3>2, NumberedClose
  <2>2. CASE t \notin ended BY <1>3, <2>2 DEF Closing
  <2> QED BY <2>1, <2>2
<1>4. CASE Recover BY <1>3, <1>4, RecoverEffect
<1>5. CASE Persist BY <1>3, <1>5, PersistEffect
<1>6. CASE OutsideEdit
  <2>1. Kept(talks[t], talks'[t]) BY <1>6, OutsideEffect DEF Kept
  <2> QED BY <1>0, <2>1, NumberedKept
<1>7. CASE UNCHANGED vars BY <1>7 DEF vars
<1> QED BY <1>1, <1>2, <1>4, <1>5, <1>6, <1>7 DEF Next, OwnerWriter

LEMMA InitNumbered == ASSUME Init PROVE \A t \in Talks : Numbered(talks[t])
<1> SUFFICES ASSUME NEW t \in Talks PROVE Numbered(talks[t])
  OBVIOUS
<1>1. AllClaims(talks[t]) = {} /\ talks[t].gen = 0 BY DEF Init, AllClaims, HasClaim
<1>2. 1 .. 0 = {} OBVIOUS
<1> QED BY <1>1, <1>2, FS_EmptySet DEF Numbered

\* No command loses a claim or issues a generation twice: a talk that was
\* claimed n times holds n claims, numbered 1 to n.
THEOREM GenerationsCounted == Spec => []GenerationsGapFree
<1> DEFINE Inv == TypeOK /\ \A t \in Talks : Numbered(talks[t])
<1>1. Init => Inv BY InitType, InitNumbered
<1>2. Inv /\ [Next]_vars => Inv' BY NextType, NextNumbered
<1>3. Inv => GenerationsGapFree BY DEF Numbered, GenerationsGapFree
<1> HIDE DEF Inv
<1> QED BY <1>1, <1>2, <1>3, PTL DEF Spec

=============================================================================

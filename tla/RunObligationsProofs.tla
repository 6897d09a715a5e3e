----------------------- MODULE RunObligationsProofs -----------------------
(***************************************************************************)
(* Theorems about the obligations ledger for any number of runs, talks,    *)
(* hosts and claim tokens, and any bounds: every record the commands leave *)
(* is one they accept again, what the speaker is asked and told covers the *)
(* run, and each session is counted once, under the claim it runs under.   *)
(***************************************************************************)
EXTENDS RunObligations, FiniteSetTheorems, WellFoundedInduction, TLAPS

(***************************************************************************)
(* The inductive invariants.                                               *)
(***************************************************************************)
\* While count-session holds the ledger's lock the ledger stands still, so what
\* it checked when it took the lock still holds.
LockHeld ==
  lock # None =>
    /\ ledger # None /\ ledger.schema = 3
    /\ RunningUnder(ledger, lock.run, lock.token)
    /\ ledger.runs[lock.run].session.legacy # "unknown"
    /\ lock.run \notin lock.base.counted
    /\ lock.advances = (ledger.runs[lock.run].session.legacy # "counted")

\* Whether a run was counted, by what its record says of it.
Uncounted(r) == r \notin db.counted /\ heard[r].advanced = 0
CountKnown(r) ==
  /\ r \in db.counted => heard[r].advanced = 1
  /\ (ledger = None \/ ledger.runs[r] = None) => Uncounted(r)
  /\ r \in Recorded =>
       LET session == ledger.runs[r].session IN
       /\ session = None => Uncounted(r)
       /\ session # None /\ ledger.schema = 2 => session.state = "pending"
       /\ session # None /\ ledger.schema = 3 =>
            /\ session.legacy = "counted" => heard[r].advanced = 1
            /\ session.legacy \in {"none", "uncounted"} /\ r \notin db.counted =>
                 heard[r].advanced = 0
            /\ session.state = "completed" => r \in db.counted

CountInv ==
  /\ IsFiniteSet(db.facts)
  /\ earlier.db.counted \subseteq db.counted
  /\ db.sessions = Cardinality({r \in Runs : heard[r].advanced = 1})
  /\ \A r \in Runs : CountKnown(r)

Ind == TypeOK /\ LockHeld /\ CountInv /\ RunCovered

\* The part of the invariant that does not speak of the ledger's records.
Around ==
  /\ scope \in Scopes
  /\ db \in Database /\ IsFiniteSet(db.facts)
  /\ today \in 0 .. scope.days
  /\ earlier \in [db : Database, day : 0 .. scope.days]
  /\ earlier.db.counted \subseteq db.counted
  /\ held \in [Hosts -> [run : Runs, token : Tokens] \union {None}]
  /\ lock \in [host : Hosts, run : Runs, token : Tokens, base : Database,
               advances : BOOLEAN] \union {None}
  /\ verdict \in Tokens \union {None}
  /\ faults \in 0 .. scope.faults

HeardTyped ==
  heard \in [Runs -> [offer : SUBSET Fact, advanced : 0 .. 1,
                      report : [facts : SUBSET Fact, changed : BOOLEAN] \union {None}]]

(***************************************************************************)
(* What a command that rewrites one record does.                           *)
(***************************************************************************)
Writes(r, run) ==
  /\ r \in Runs /\ run \in Run /\ WellFormed(run)
  /\ Writable /\ ledger' = SetRun(ledger, r, run)

\* The new record says of the count what is true.
CountFollows(r, run) ==
  /\ run.session = None => Uncounted(r)
  /\ run.session # None =>
       /\ run.session.legacy = "counted" => heard[r].advanced = 1
       /\ run.session.legacy \in {"none", "uncounted"} /\ r \notin db.counted =>
            heard[r].advanced = 0
       /\ run.session.state = "completed" => r \in db.counted

\* The offer and the report on record cover the new record.
CoverFollows(r, run) ==
  /\ run.state \in Dispositions \union {"offered"} => heard'[r].offer = Links(run)
  /\ run.report = "delivered" =>
       heard'[r].report = [facts |-> Links(run), changed |-> ChangedProfile(run)]

Command(r) ==
  /\ UNCHANGED <<scope, db, lock>>
  /\ HeardTyped'
  /\ \A q \in Runs : heard'[q].advanced = heard[q].advanced
  /\ \A q \in Runs \ {r} : heard'[q] = heard[q]
  /\ \E run : Writes(r, run) /\ CountFollows(r, run) /\ CoverFollows(r, run)

-----------------------------------------------------------------------------
(***************************************************************************)
(* Claims and the talks of a run.                                          *)
(***************************************************************************)
LEMMA FactFields ==
  ASSUME NEW f \in Fact
  PROVE  f.run \in Runs /\ f.talk \in Talks /\ f.gen \in 1 .. MaxGen /\ f.gen \in Nat
BY VaultIsFinite DEF Fact

LEMMA MinimalExists ==
  ASSUME NEW Less, IsWellFoundedOn(Less, Nat),
         NEW T, T \subseteq Nat, T # {}
  PROVE  \E x \in T : \A y \in T : ~ (<<y, x>> \in Less)
BY WFMin

LEMMA MinimalIsLeast ==
  ASSUME NEW Less, IsWellFoundedOn(Less, Nat),
         \A a, b \in Nat : a < b => <<a, b>> \in Less,
         NEW T, T \subseteq Nat, T # {}
  PROVE  \E x \in T : \A y \in T : x <= y
<1>1. \E x \in T : \A y \in T : ~ (<<y, x>> \in Less)
  BY MinimalExists
<1>2. PICK x \in T : \A y \in T : ~ (<<y, x>> \in Less)
  BY <1>1
<1>3. ASSUME NEW y \in T PROVE x <= y
  <2>1. x \in Nat /\ y \in Nat
    OBVIOUS
  <2>2. ~(y < x)
    BY <1>2, <2>1
  <2> QED BY <2>1, <2>2
<1> QED BY <1>3

LEMMA LeastExists ==
  ASSUME NEW T, T \subseteq Nat, T # {}
  PROVE  \E x \in T : \A y \in T : x <= y
<1>1. \E Less : IsWellFoundedOn(Less, Nat) /\ \A a, b \in Nat : a < b => <<a, b>> \in Less
  <2>1. \A a, b \in Nat : a < b => <<a, b>> \in OpToRel(<, Nat)
    BY DEF OpToRel
  <2> QED BY <2>1, NatLessThanWellFounded
<1> QED BY <1>1, MinimalIsLeast

\* Generations are bounded, so among some claims one is the newest.
LEMMA NewestExists ==
  ASSUME NEW S, S \subseteq Fact, S # {}
  PROVE  /\ newest_claim(S) \in S
         /\ \A g \in S : g.gen <= newest_claim(S).gen
<1> DEFINE back(f) == MaxGen - f.gen
           T == {back(f) : f \in S}
<1>1. T \subseteq Nat /\ T # {}
  BY FactFields, VaultIsFinite
<1>2. PICK x \in T : \A y \in T : x <= y
  <2> HIDE DEF T
  <2> QED BY <1>1, LeastExists
<1>4. PICK f \in S : x = back(f)
  OBVIOUS
<1>5. \A g \in S : g.gen <= f.gen
  <2> SUFFICES ASSUME NEW g \in S PROVE g.gen <= f.gen
    OBVIOUS
  <2>1. MaxGen \in Nat /\ g.gen \in Nat /\ f.gen \in Nat
    BY FactFields, VaultIsFinite
  <2>2. MaxGen - f.gen <= MaxGen - g.gen
    BY <1>2, <1>4
  <2> QED BY <2>1, <2>2
<1> QED BY <1>5 DEF newest_claim

LEMMA DatabaseFields ==
  ASSUME NEW d \in Database
  PROVE  /\ d.facts \subseteq Fact /\ d.analyzed \subseteq Talks /\ d.counted \subseteq Runs
         /\ d.sessions \in 0 .. Cardinality(Runs)
BY DEF Database

LEMMA ClaimsAreFacts ==
  ASSUME NEW d \in Database, NEW t, NEW r
  PROVE  Claims(d, t) \subseteq Fact /\ ClaimsUnder(d, t, r) \subseteq Claims(d, t)
BY DatabaseFields DEF Claims, ClaimsUnder

LEMMA TableTyped ==
  ASSUME NEW S \in SUBSET Talks, NEW f \in [S -> Entry]
  PROVE  f \in TalkTables
BY DEF TalkTables

LEMMA TableFields ==
  ASSUME NEW f \in TalkTables
  PROVE  /\ DOMAIN f \subseteq Talks /\ f = [t \in DOMAIN f |-> f[t]]
         /\ \A t \in DOMAIN f : f[t] \in Entry /\ f[t].fact \in Fact
<1>1. PICK S \in SUBSET Talks : f \in [S -> Entry]
  BY DEF TalkTables
<1>2. \A e \in Entry : e.fact \in Fact
  BY DEF Entry
<1> QED BY <1>1, <1>2

Reading == [db : Database, day : Nat]

LEMMA TalkDescribed ==
  ASSUME NEW v \in Reading, NEW t, NEW link \in Fact
  PROVE  describe_talk(v, t, link) \in Entry /\ describe_talk(v, t, link).fact = link
<1>1. recency_bucket(t, v.day) \in {"same_week", "recent", "older", "unknown"}
  BY DEF recency_bucket
<1> QED BY <1>1 DEF describe_talk, Entry

LEMMA ModeTyped ==
  ASSUME NEW f \in TalkTables
  PROVE  offer_mode_for(f) \in Modes
<1> DEFINE modes == {ModeOf[f[t].bucket] : t \in {u \in DOMAIN f : f[u].analyzed}}
<1>1. \A t \in DOMAIN f : f[t].bucket \in {"same_week", "recent", "older", "unknown"}
  BY TableFields DEF Entry
<1>2. modes \subseteq {"inline", "recommend_full", "recommend_compressed"}
  BY <1>1 DEF ModeOf
<1>3. offer_mode_for(f) =
        CASE "inline" \in modes -> "inline"
          [] "inline" \notin modes /\ "recommend_full" \in modes -> "recommend_full"
          [] modes = {"recommend_compressed"} -> "recommend_compressed"
          [] modes = {} -> "none"
  BY DEF offer_mode_for
<1> HIDE DEF modes
<1>4. CASE "inline" \in modes
  BY <1>3, <1>4 DEF Modes
<1>5. CASE "inline" \notin modes /\ "recommend_full" \in modes
  BY <1>3, <1>5 DEF Modes
<1>6. CASE "inline" \notin modes /\ "recommend_full" \notin modes
  <2>1. modes = {"recommend_compressed"} \/ modes = {}
    BY <1>2, <1>6
  <2> QED BY <1>3, <1>6, <2>1 DEF Modes
<1> QED BY <1>4, <1>5, <1>6

\* A run with an analysed talk has something to offer.
LEMMA ModeOfSomeTalk ==
  ASSUME NEW f \in TalkTables, NEW t \in DOMAIN f, f[t].analyzed
  PROVE  offer_mode_for(f) # "none"
<1> DEFINE modes == {ModeOf[f[u].bucket] : u \in {u \in DOMAIN f : f[u].analyzed}}
<1>1. ModeOf[f[t].bucket] \in modes
  OBVIOUS
<1>2. \A u \in DOMAIN f : f[u].bucket \in {"same_week", "recent", "older", "unknown"}
  BY TableFields DEF Entry
<1>3. modes \subseteq {"inline", "recommend_full", "recommend_compressed"}
  BY <1>2 DEF ModeOf
<1>4. offer_mode_for(f) =
        CASE "inline" \in modes -> "inline"
          [] "inline" \notin modes /\ "recommend_full" \in modes -> "recommend_full"
          [] modes = {"recommend_compressed"} -> "recommend_compressed"
          [] modes = {} -> "none"
  BY DEF offer_mode_for
<1> HIDE DEF modes
<1>5. CASE "inline" \in modes \/ "recommend_full" \in modes
  BY <1>4, <1>5
<1>6. CASE "inline" \notin modes /\ "recommend_full" \notin modes
  <2>1. modes = {"recommend_compressed"}
    BY <1>1, <1>3, <1>6
  <2> QED BY <1>4, <1>6, <2>1
<1> QED BY <1>5, <1>6

-----------------------------------------------------------------------------
(***************************************************************************)
(* The records: their fields, and what an update leaves of them.           *)
(***************************************************************************)
LEMMA SessionFields ==
  ASSUME NEW s \in Session
  PROVE  /\ s # None
         /\ s.state \in {"pending", "running", "completed"} /\ s.token \in Tokens \union {None}
         /\ s.changed \in BOOLEAN /\ s.legacy \in {"none", "unknown", "counted", "uncounted"}
BY NoneIsNothing DEF Session

LEMMA SessionUpdated ==
  ASSUME NEW s \in Session, NEW state \in {"pending", "running", "completed"},
         NEW token \in Tokens \union {None}, NEW changed \in BOOLEAN,
         NEW legacy \in {"none", "unknown", "counted", "uncounted"}
  PROVE  /\ [s EXCEPT !.state = state, !.token = token] \in Session
         /\ [s EXCEPT !.state = state, !.changed = changed] \in Session
         /\ [s EXCEPT !.legacy = legacy] \in Session
BY DEF Session

LEMMA SessionUpdatedFields ==
  ASSUME NEW s \in Session, NEW state, NEW token, NEW changed, NEW legacy
  PROVE  LET claim == [s EXCEPT !.state = state, !.token = token]
             recorded == [s EXCEPT !.state = state, !.changed = changed]
             known == [s EXCEPT !.legacy = legacy]
         IN  /\ claim.state = state /\ claim.token = token
             /\ claim.changed = s.changed /\ claim.legacy = s.legacy
             /\ recorded.state = state /\ recorded.changed = changed
             /\ recorded.token = s.token /\ recorded.legacy = s.legacy
             /\ known.legacy = legacy /\ known.state = s.state
             /\ known.token = s.token /\ known.changed = s.changed
BY DEF Session

LEMMA NewSessionTyped ==
  /\ NewSession \in Session /\ NewSession # None
  /\ NewSession.state = "pending" /\ NewSession.token = None
  /\ NewSession.changed = FALSE /\ NewSession.legacy = "none"
<1>1. NewSession \in Session
  BY DEF NewSession, Session
<1> QED BY <1>1, SessionFields DEF NewSession

LEMMA RunFields ==
  ASSUME NEW run \in Run
  PROVE  /\ run # None /\ run.talks \in TalkTables /\ run.downstream \in {"owed", "completed"}
         /\ run.state \in States /\ run.mode \in Modes
         /\ run.session \in Session \union {None} /\ run.report \in {"owed", "delivered"}
BY NoneIsNothing DEF Run

LEMMA RunUpdated ==
  ASSUME NEW run \in Run, NEW talks \in TalkTables, NEW downstream \in {"owed", "completed"},
         NEW state \in States, NEW mode \in Modes, NEW session \in Session \union {None},
         NEW report \in {"owed", "delivered"}
  PROVE  /\ [run EXCEPT !.talks = talks] \in Run
         /\ [run EXCEPT !.downstream = downstream] \in Run
         /\ [run EXCEPT !.state = state] \in Run
         /\ [run EXCEPT !.report = report] \in Run
         /\ [run EXCEPT !.state = state, !.session = session] \in Run
         /\ [run EXCEPT !.session = session] \in Run
         /\ [run EXCEPT !.session = session, !.report = report] \in Run
         /\ [run EXCEPT !.talks = talks, !.mode = mode, !.state = state] \in Run
BY DEF Run

LEMMA LinksTyped ==
  ASSUME NEW run \in Run
  PROVE  Links(run) \subseteq Fact
BY RunFields, TableFields DEF Links

LEMMA NewRunTyped ==
  /\ new_run \in Run /\ DOMAIN new_run.talks = {}
  /\ new_run.session = None /\ new_run.report = "owed" /\ new_run.state = "owed"
<1>1. [t \in {} |-> None] \in TalkTables
  <2>1. [t \in {} |-> None] \in [{} -> Entry]
    OBVIOUS
  <2> QED BY <2>1, TableTyped
<1>2. new_run \in Run
  BY <1>1 DEF new_run, Run, States, Modes
<1> QED BY <1>2 DEF new_run

-----------------------------------------------------------------------------
(***************************************************************************)
(* What `open` leaves: a record that is well formed and open to an offer.  *)
(***************************************************************************)
LEMMA RecencyApplied ==
  ASSUME NEW run \in Run, NEW talks \in TalkTables
  PROVE  LET aged == ApplyRecency(run, talks) IN
         /\ aged \in Run
         /\ aged.talks = talks /\ aged.mode = offer_mode_for(talks)
         /\ aged.state = IF aged.mode = "none" THEN "not_applicable" ELSE "owed"
         /\ aged.downstream = run.downstream
         /\ aged.session = run.session /\ aged.report = run.report
<1> DEFINE mode == offer_mode_for(talks)
           state == IF mode = "none" THEN "not_applicable" ELSE "owed"
           aged == [run EXCEPT !.talks = talks, !.mode = mode, !.state = state]
<1>1. mode \in Modes /\ state \in States
  BY ModeTyped DEF States, Dispositions
<1>2. ApplyRecency(run, talks) = aged
  BY DEF ApplyRecency
<1> HIDE DEF mode, state
<1>3. aged \in Run
  BY <1>1, RunFields, RunUpdated
<1>4. /\ aged.talks = talks /\ aged.mode = mode /\ aged.state = state
      /\ aged.downstream = run.downstream
      /\ aged.session = run.session /\ aged.report = run.report
  BY DEF Run
<1> QED BY <1>2, <1>3, <1>4 DEF mode, state

\* A record that awaits an offer, as _validate_run accepts it.
Offerable(run) ==
  /\ run \in Run /\ WellFormed(run)
  /\ RecencyOpen(run) /\ run.session = None /\ run.report = "owed"

LEMMA ClaimLinked ==
  ASSUME NEW d \in Database, NEW t \in Talks, NEW r, NEW source, Linkable(d, t, source)
  PROVE  Link(d, t, r, source) \in Fact
<1>1. CASE source # None
  <2>1. ClaimsUnder(d, t, source) # {}
    BY <1>1 DEF Linkable
  <2> QED BY <1>1, <2>1, ClaimsAreFacts, NewestExists DEF Link
<1>2. CASE source = None /\ ClaimsUnder(d, t, r) # {}
  BY <1>2, ClaimsAreFacts, NewestExists DEF Link
<1>3. CASE source = None /\ ClaimsUnder(d, t, r) = {}
  <2>1. Claims(d, t) # {}
    BY <1>3 DEF Linkable
  <2>2. Link(d, t, r, source) = newest_claim(Claims(d, t))
    BY <1>3 DEF Link
  <2> QED BY <2>1, <2>2, ClaimsAreFacts, NewestExists
<1> QED BY <1>1, <1>2, <1>3

LEMMA JoinedTyped ==
  ASSUME NEW run \in Run, NEW d \in Database, NEW r, NEW names \in SUBSET Talks, NEW source,
         \A t \in names : Linkable(d, t, source)
  PROVE  LET joined == Joined(run, d, r, names, source) IN
         DOMAIN joined \subseteq Talks /\ \A t \in DOMAIN joined : joined[t] \in Fact
<1> DEFINE joined == Joined(run, d, r, names, source)
<1>1. DOMAIN joined \subseteq names
  BY DEF Joined
<1>2. ASSUME NEW t \in DOMAIN joined PROVE joined[t] \in Fact
  <2>1. t \in names /\ (t \in DOMAIN run.talks => Relinked(run, d, t))
    BY <1>2 DEF Joined
  <2>2. joined[t] = IF t \notin DOMAIN run.talks THEN Link(d, t, r, source)
                    ELSE newest_claim(ClaimsUnder(d, t, run.talks[t].fact.run))
    BY <1>2 DEF Joined
  <2>3. CASE t \notin DOMAIN run.talks
    BY <2>1, <2>2, <2>3, ClaimLinked
  <2>4. CASE t \in DOMAIN run.talks
    <3>1. ClaimsUnder(d, t, run.talks[t].fact.run) # {}
      BY <2>1, <2>4 DEF Relinked
    <3> QED BY <2>2, <2>4, <3>1, ClaimsAreFacts, NewestExists
  <2> QED BY <2>3, <2>4
<1> QED BY <1>1, <1>2

LEMMA OpenedTyped ==
  ASSUME NEW run \in Run, NEW v \in Reading, NEW joined,
         DOMAIN joined \subseteq Talks, \A t \in DOMAIN joined : joined[t] \in Fact
  PROVE  OpenedTalks(run, v, joined) \in TalkTables
<1> DEFINE talks == OpenedTalks(run, v, joined)
           S == DOMAIN run.talks \union DOMAIN joined
<1>1. S \subseteq Talks
  BY RunFields, TableFields
<1>2. talks = [t \in S |->
        IF t \in DOMAIN joined THEN describe_talk(v, t, joined[t])
        ELSE IF RecencyOpen(run) THEN describe_talk(v, t, run.talks[t].fact)
        ELSE run.talks[t]]
  BY DEF OpenedTalks
<1>3. ASSUME NEW t \in S PROVE talks[t] \in Entry
  <2>1. CASE t \in DOMAIN joined
    BY <1>2, <2>1, TalkDescribed
  <2>2. CASE t \notin DOMAIN joined
    <3>1. t \in DOMAIN run.talks
      BY <2>2
    <3>2. run.talks[t] \in Entry /\ run.talks[t].fact \in Fact
      BY <3>1, RunFields, TableFields
    <3>3. describe_talk(v, t, run.talks[t].fact) \in Entry
      BY <3>2, TalkDescribed
    <3> QED BY <1>2, <2>2, <3>2, <3>3
  <2> QED BY <2>1, <2>2
<1>4. talks \in [S -> Entry]
  BY <1>2, <1>3
<1> QED BY <1>1, <1>4, TableTyped

LEMMA OpenedOfferable ==
  ASSUME NEW run \in Run, NEW v \in Reading, NEW r, NEW names \in SUBSET Talks, NEW source,
         run.session # None <=> run.state = "accepted",
         MayOpen(run, v, r, names, source),
         Opened(run, v, r, names, source) # run \/ (run = new_run /\ names # {})
  PROVE  run.session = None /\ Offerable(Opened(run, v, r, names, source))
<1> DEFINE joined == Joined(run, v.db, r, names, source)
           ready == IF DOMAIN joined # {} THEN Withdrawn(run) ELSE run
           talks == OpenedTalks(ready, v, joined)
           aged == IF RecencyOpen(ready) THEN ApplyRecency(ready, talks)
                   ELSE [ready EXCEPT !.talks = talks]
           opened == Opened(run, v, r, names, source)
<1>1. opened = IF run.report = "delivered" THEN run
               ELSE IF DOMAIN joined # {} THEN [aged EXCEPT !.downstream = "owed"]
               ELSE aged
  BY DEF Opened
<1>2. v.db \in Database
  BY DEF Reading
<1>3. DOMAIN joined \subseteq Talks /\ \A t \in DOMAIN joined : joined[t] \in Fact
  BY <1>2, JoinedTyped DEF MayOpen
<1>4. DOMAIN joined # {} => run.report = "owed" /\ run.state \notin Dispositions
  BY DEF MayOpen
<1>5. run = new_run /\ names # {} => DOMAIN joined # {}
  BY NewRunTyped DEF Joined
<1> HIDE DEF joined
<1>6. /\ ready \in Run /\ ready.session = run.session /\ ready.report = run.report
      /\ ready.talks = run.talks
      /\ DOMAIN joined = {} => ready = run
      /\ DOMAIN joined # {} => RecencyOpen(ready)
      /\ RecencyOpen(ready) => ready.session = None
  <2>1. CASE DOMAIN joined = {}
    BY <2>1 DEF RecencyOpen
  <2>2. CASE DOMAIN joined # {} /\ run.state = "offered"
    <3>1. ready = [run EXCEPT !.state = "owed"]
      BY <2>2 DEF Withdrawn
    <3>2. "owed" \in States
      BY DEF States
    <3>3. ready \in Run
      BY <3>1, <3>2 DEF Run
    <3> QED BY <2>2, <3>1, <3>3 DEF RecencyOpen, Run
  <2>3. CASE DOMAIN joined # {} /\ run.state # "offered"
    <3>1. ready = run
      BY <2>3 DEF Withdrawn
    <3>2. run.state \in {"owed", "not_applicable"}
      BY <1>4, <2>3, RunFields DEF States
    <3> QED BY <2>3, <3>1, <3>2 DEF RecencyOpen
  <2> QED BY <2>1, <2>2, <2>3
<1>7. talks \in TalkTables
  BY <1>3, <1>6, OpenedTyped
<1>8. ASSUME ~RecencyOpen(ready)
      PROVE  opened = run
  <2>1. DOMAIN joined = {} /\ ready = run
    BY <1>6, <1>8
  <2>2. run.talks \in TalkTables
    BY RunFields
  <2>3. talks = run.talks
    <3>1. talks = [t \in DOMAIN run.talks |-> run.talks[t]]
      BY <1>8, <2>1 DEF OpenedTalks
    <3> QED BY <2>2, <3>1, TableFields
  <2>4. aged = run
    BY <1>8, <2>1, <2>3 DEF Run
  <2> QED BY <1>1, <2>1, <2>4
<1>9. RecencyOpen(ready) /\ run.report # "delivered"
  <2>1. run = new_run => RecencyOpen(ready) /\ run.report # "delivered"
    BY <1>6, NewRunTyped DEF RecencyOpen
  <2> QED BY <1>1, <1>5, <1>6, <1>8, <2>1
<1>10. aged = ApplyRecency(ready, talks)
  BY <1>9
<1> HIDE DEF talks, ready
<1>11. /\ aged \in Run /\ aged.talks = talks /\ aged.mode = offer_mode_for(talks)
       /\ aged.state = IF aged.mode = "none" THEN "not_applicable" ELSE "owed"
       /\ aged.session = None /\ aged.report = "owed"
  <2>1. ready.report = "owed"
    BY <1>6, <1>9, RunFields
  <2> QED BY <1>6, <1>7, <1>9, <1>10, <2>1, RecencyApplied
<1> HIDE DEF aged
<1>12. Offerable(aged)
  BY <1>11 DEF Offerable, WellFormed, RecencyOpen
<1>13. Offerable([aged EXCEPT !.downstream = "owed"])
  <2> DEFINE again == [aged EXCEPT !.downstream = "owed"]
  <2>1. again \in Run
    BY <1>11, RunUpdated, RunFields
  <2>2. /\ again.talks = aged.talks /\ again.mode = aged.mode /\ again.state = aged.state
        /\ again.session = aged.session /\ again.report = aged.report
    BY <1>11 DEF Run
  <2> HIDE DEF again
  <2>3. Offerable(again)
    BY <1>12, <2>1, <2>2 DEF Offerable, WellFormed, RecencyOpen
  <2> QED BY <2>3 DEF again
<1>14. run.session = None
  BY <1>6, <1>9
<1> QED BY <1>1, <1>9, <1>12, <1>13, <1>14

-----------------------------------------------------------------------------
(***************************************************************************)
(* The ledger and the history.                                             *)
(***************************************************************************)
LEMMA IndParts ==
  Ind <=> /\ Around /\ HeardTyped /\ LockHeld
          /\ ledger # None => ledger \in Ledger
          /\ db.sessions = Cardinality({r \in Runs : heard[r].advanced = 1})
          /\ \A r \in Recorded : WellFormed(ledger.runs[r])
          /\ \A r \in Runs : CountKnown(r)
          /\ OfferCoversRun /\ ReportCoversRun
BY DEF Ind, TypeOK, CountInv, RunCovered, Around, HeardTyped

LEMMA LedgerFields ==
  ASSUME NEW L \in Ledger
  PROVE  /\ L # None /\ L.schema \in {2, 3} /\ L.adopted \subseteq Fact
         /\ L.dismissed \in [Runs -> SUBSET Fact] /\ L.runs \in [Runs -> Run \union {None}]
         /\ \A r \in Runs : L.runs[r] # None => L.runs[r] \in Run
BY NoneIsNothing DEF Ledger

LEMMA LedgerWritten ==
  ASSUME NEW r, NEW run, Writes(r, run), ledger \in Ledger
  PROVE  /\ ledger' \in Ledger /\ ledger' # None
         /\ ledger'.schema = 3 /\ ledger.schema = 3 /\ lock = None
         /\ ledger'.adopted = ledger.adopted /\ ledger'.dismissed = ledger.dismissed
         /\ ledger'.runs[r] = run /\ run # None
         /\ \A q \in Runs \ {r} : ledger'.runs[q] = ledger.runs[q]
<1>1. ledger' = [ledger EXCEPT !.runs[r] = run] /\ r \in Runs /\ run \in Run
  BY DEF Writes, SetRun
<1>2. ledger' \in Ledger
  BY <1>1 DEF Ledger
<1> QED BY <1>1, <1>2, LedgerFields, RunFields DEF Writes, Writable, Ledger

LEMMA CommandKeeps ==
  ASSUME Ind, NEW r, Command(r), Around'
  PROVE  Ind'
<1>1. PICK run : Writes(r, run) /\ CountFollows(r, run) /\ CoverFollows(r, run)
  BY DEF Command
<1>2. /\ r \in Runs /\ run \in Run /\ WellFormed(run) /\ ledger # None /\ ledger \in Ledger
      /\ \A q \in Runs : heard'[q].advanced = heard[q].advanced
      /\ \A q \in Runs \ {r} : heard'[q] = heard[q]
      /\ db' = db /\ lock' = lock
  BY <1>1 DEF Writes, Writable, Command, Ind, TypeOK
<1>3. /\ ledger' \in Ledger /\ ledger' # None
      /\ ledger'.schema = 3 /\ ledger.schema = 3 /\ lock = None
      /\ ledger'.runs[r] = run /\ run # None
      /\ \A q \in Runs \ {r} : ledger'.runs[q] = ledger.runs[q]
  BY <1>1, <1>2, LedgerWritten
<1>4. \A q \in Recorded' : q = r \/ (q \in Recorded /\ q # r)
  BY <1>2, <1>3 DEF Recorded
<1>5. \A q \in Recorded' : WellFormed(ledger'.runs[q])
  BY <1>2, <1>3, <1>4, IndParts DEF Recorded
<1>6. {q \in Runs : heard[q].advanced = 1}' = {q \in Runs : heard[q].advanced = 1}
  BY <1>2
<1>7. (db.sessions = Cardinality({q \in Runs : heard[q].advanced = 1}))'
  BY <1>2, <1>6, IndParts
<1>8. ASSUME NEW q \in Runs PROVE CountKnown(q)'
  <2>1. CountKnown(q)
    BY IndParts
  <2>2. heard'[q].advanced = heard[q].advanced
    BY <1>2
  <2>3. CASE q = r
    <3>1. (r \in db.counted) => heard[r].advanced = 1
      BY <2>1, <2>3 DEF CountKnown
    <3> QED BY <1>1, <1>2, <1>3, <2>2, <2>3, <3>1 DEF CountKnown, CountFollows, Uncounted
  <2>4. CASE q # r
    <3>1. ledger'.runs[q] = ledger.runs[q] /\ (q \in Recorded' <=> q \in Recorded)
      BY <1>2, <1>3, <2>4 DEF Recorded
    <3> QED BY <1>2, <1>3, <2>1, <2>2, <3>1 DEF CountKnown, Uncounted
  <2> QED BY <2>3, <2>4
<1>9. ASSUME NEW q \in Recorded', q # r
      PROVE  /\ q \in Recorded /\ heard'[q] = heard[q]
             /\ ledger'.runs[q] = ledger.runs[q]
  BY <1>2, <1>3, <1>4, <1>9 DEF Recorded
<1>10. OfferCoversRun'
  <2> SUFFICES ASSUME NEW q \in Recorded',
                      ledger'.runs[q].state \in Dispositions \union {"offered"}
               PROVE  heard'[q].offer = Links(ledger'.runs[q])
    BY DEF OfferCoversRun
  <2>1. CASE q = r
    BY <1>1, <1>3, <2>1 DEF CoverFollows
  <2>2. CASE q # r
    <3>1. OfferCoversRun
      BY IndParts
    <3> QED BY <1>9, <2>2, <3>1 DEF OfferCoversRun
  <2> QED BY <2>1, <2>2
<1>11. ReportCoversRun'
  <2> SUFFICES ASSUME NEW q \in Recorded', ledger'.runs[q].report = "delivered"
               PROVE  heard'[q].report = [facts |-> Links(ledger'.runs[q]),
                                          changed |-> ChangedProfile(ledger'.runs[q])]
    BY DEF ReportCoversRun
  <2>1. CASE q = r
    BY <1>1, <1>3, <2>1 DEF CoverFollows
  <2>2. CASE q # r
    <3>1. ReportCoversRun
      BY IndParts
    <3> QED BY <1>9, <2>2, <3>1 DEF ReportCoversRun
  <2> QED BY <2>1, <2>2
<1>12. LockHeld'
  BY <1>2, <1>3 DEF LockHeld
<1>13. HeardTyped'
  BY DEF Command
<1> QED BY <1>3, <1>5, <1>7, <1>8, <1>10, <1>11, <1>12, <1>13
    DEF Ind, TypeOK, CountInv, RunCovered, Around, HeardTyped

\* A record as the invariant describes it, before a command works on it.
LEMMA RecordKnown ==
  ASSUME Ind, NEW r \in Recorded
  PROVE  /\ r \in Runs /\ ledger \in Ledger /\ ledger # None
         /\ ledger.runs[r] \in Run /\ WellFormed(ledger.runs[r])
         /\ CountKnown(r) /\ heard[r].advanced \in 0 .. 1
         /\ ledger.runs[r].state \in Dispositions \union {"offered"} =>
              heard[r].offer = Links(ledger.runs[r])
         /\ ledger.runs[r].report = "delivered" =>
              heard[r].report = [facts |-> Links(ledger.runs[r]),
                                 changed |-> ChangedProfile(ledger.runs[r])]
<1>1. r \in Runs /\ ledger # None /\ ledger.runs[r] # None
  BY DEF Recorded
<1>2. ledger \in Ledger
  BY <1>1, IndParts
<1>3. ledger.runs[r] \in Run
  BY <1>1, <1>2, LedgerFields
<1>4. heard[r].advanced \in 0 .. 1
  BY <1>1, IndParts DEF HeardTyped
<1> QED BY <1>1, <1>2, <1>3, <1>4, IndParts DEF OfferCoversRun, ReportCoversRun

LEMMA QuietCommand ==
  ASSUME Ind, NEW r, NEW run, Writes(r, run), CountFollows(r, run),
         UNCHANGED <<scope, db, lock, heard>>,
         run.state \in Dispositions \union {"offered"} => heard[r].offer = Links(run),
         run.report = "delivered" =>
           heard[r].report = [facts |-> Links(run), changed |-> ChangedProfile(run)]
  PROVE  Command(r)
<1>1. HeardTyped'
  BY IndParts DEF HeardTyped
<1>2. CoverFollows(r, run)
  BY DEF CoverFollows
<1> QED BY <1>1, <1>2 DEF Command

LEMMA SessionStays ==
  ASSUME Ind, NEW r \in Recorded, ledger.schema = 3, NEW run,
         run.session = ledger.runs[r].session
  PROVE  CountFollows(r, run)
BY RecordKnown DEF CountKnown, CountFollows

LEMMA DownstreamRecorded ==
  ASSUME Ind, NEW r \in Runs, RecordDownstream(r), UNCHANGED scope
  PROVE  Command(r)
<1> DEFINE old == ledger.runs[r]
           run == [old EXCEPT !.downstream = "completed"]
<1>1. /\ r \in Recorded /\ Writable /\ ledger.schema = 3 /\ old.downstream = "owed"
      /\ UNCHANGED <<scope, db, lock, heard>>
      /\ ledger' = [ledger EXCEPT !.runs[r].downstream = "completed"]
  BY DEF RecordDownstream, Writable, Install
<1>2. old \in Run /\ WellFormed(old) /\ ledger \in Ledger
  BY <1>1, RecordKnown
<1>3. ledger' = SetRun(ledger, r, run)
  BY <1>1, <1>2 DEF SetRun, Ledger
<1>4. /\ run \in Run /\ run.talks = old.talks /\ run.session = old.session
      /\ run.state = old.state /\ run.mode = old.mode /\ run.report = old.report
      /\ run.downstream = "completed"
  BY <1>2 DEF Run
<1> HIDE DEF run
<1>5. WellFormed(run) /\ run.report # "delivered"
  BY <1>1, <1>2, <1>4 DEF WellFormed
<1>6. Writes(r, run) /\ CountFollows(r, run)
  BY <1>1, <1>3, <1>4, <1>5, SessionStays DEF Writes
<1>7. Links(run) = Links(old)
  BY <1>4 DEF Links
<1>8. run.state \in Dispositions \union {"offered"} => heard[r].offer = Links(run)
  BY <1>1, <1>4, <1>7, RecordKnown
<1> QED BY <1>1, <1>5, <1>6, <1>8, QuietCommand

LEMMA DispositionRecorded ==
  ASSUME Ind, NEW r \in Runs, NEW answer \in Dispositions, RecordDisposition(r, answer),
         UNCHANGED scope
  PROVE  Command(r)
<1> DEFINE old == ledger.runs[r]
           session == IF answer = "accepted" THEN NewSession ELSE None
           run == [old EXCEPT !.state = answer, !.session = session]
<1>1. /\ r \in Recorded /\ Writable /\ ledger.schema = 3
      /\ old.state \in {"offered", "deferred"}
      /\ UNCHANGED <<scope, db, lock, heard>>
      /\ ledger' = SetRun(ledger, r, run)
  BY DEF RecordDisposition, Writable, Install
<1>2. old \in Run /\ WellFormed(old) /\ CountKnown(r)
  BY <1>1, RecordKnown
<1>3. answer \in {"accepted", "declined", "deferred"} /\ answer \in States
  BY DEF Dispositions, States
<1>4. session \in Session \union {None} /\ (session # None <=> answer = "accepted")
  BY NewSessionTyped
<1> HIDE DEF session
<1>5. /\ run \in Run /\ run.talks = old.talks /\ run.session = session
      /\ run.state = answer /\ run.mode = old.mode /\ run.report = old.report
      /\ run.downstream = old.downstream
  BY <1>2, <1>3, <1>4 DEF Run
<1> HIDE DEF run
<1>6. session # None => session.state = "pending" /\ session.token = None /\ session.legacy = "none"
  BY NewSessionTyped DEF session
<1>7. WellFormed(run)
  BY <1>1, <1>2, <1>3, <1>4, <1>5, <1>6 DEF WellFormed
<1>8. Uncounted(r)
  BY <1>1, <1>2 DEF WellFormed, CountKnown
<1>9. Writes(r, run) /\ CountFollows(r, run)
  BY <1>1, <1>5, <1>6, <1>7, <1>8 DEF Writes, CountFollows, Uncounted
<1>10. Links(run) = Links(old) /\ ChangedProfile(run) = ChangedProfile(old)
  BY <1>1, <1>3, <1>4, <1>5, <1>6 DEF Links, ChangedProfile
<1>11. /\ heard[r].offer = Links(run)
       /\ run.report = "delivered" =>
            heard[r].report = [facts |-> Links(run), changed |-> ChangedProfile(run)]
  BY <1>1, <1>5, <1>10, RecordKnown DEF Dispositions
<1> QED BY <1>1, <1>9, <1>11, QuietCommand

(***************************************************************************)
(* A command that only rewrites the session of an accepted run.            *)
(***************************************************************************)
LEMMA SessionRewritten ==
  ASSUME Ind, NEW r \in Recorded, Writable, AcceptedIn(ledger, r),
         ledger.runs[r].session.state # "completed",
         NEW session \in Session, session.state # "completed",
         session.state = "running" => session.token # None,
         session.state = "pending" => session.token = None,
         session.legacy = ledger.runs[r].session.legacy
           \/ session.legacy = (IF heard[r].advanced = 0 THEN "uncounted" ELSE "counted"),
         ledger' = [ledger EXCEPT !.runs[r].session = session],
         UNCHANGED <<scope, db, lock, heard>>
  PROVE  Command(r)
<1> DEFINE old == ledger.runs[r]
           run == [old EXCEPT !.session = session]
<1>1. /\ old \in Run /\ WellFormed(old) /\ ledger \in Ledger /\ CountKnown(r)
      /\ ledger.schema = 3 /\ r \in Runs /\ old.state = "accepted" /\ old.session # None
      /\ heard[r].advanced \in 0 .. 1
  BY RecordKnown DEF Writable, AcceptedIn, WellFormed
<1>2. ledger' = SetRun(ledger, r, run)
  BY <1>1 DEF SetRun, Ledger
<1>3. /\ run \in Run /\ run.talks = old.talks /\ run.session = session
      /\ run.state = old.state /\ run.mode = old.mode /\ run.report = old.report
      /\ run.downstream = old.downstream
  BY <1>1 DEF Run
<1> HIDE DEF run
<1>4. session # None
  BY SessionFields
<1>5. WellFormed(run)
  BY <1>1, <1>3, <1>4 DEF WellFormed
<1>6. CountFollows(r, run)
  BY <1>1, <1>3, <1>4 DEF CountFollows, CountKnown
<1>7. Links(run) = Links(old) /\ ChangedProfile(run) = ChangedProfile(old)
  BY <1>3 DEF Links, ChangedProfile
<1>8. Writes(r, run)
  BY <1>1, <1>2, <1>3, <1>5 DEF Writes
<1>9. /\ run.state \in Dispositions \union {"offered"} => heard[r].offer = Links(run)
      /\ run.report = "delivered" =>
           heard[r].report = [facts |-> Links(run), changed |-> ChangedProfile(run)]
  BY <1>3, <1>7, RecordKnown
<1> QED BY <1>6, <1>8, <1>9, QuietCommand

LEMMA RecordAccepted ==
  ASSUME Ind, Writable, NEW r \in Runs, AcceptedIn(ledger, r)
  PROVE  /\ r \in Recorded /\ ledger.runs[r].session \in Session
         /\ ledger.runs[r] \in Run /\ ledger \in Ledger
<1>1. r \in Recorded
  BY DEF Recorded, Writable, AcceptedIn
<1>2. ledger.runs[r] \in Run /\ ledger.runs[r].session # None
  BY <1>1, RecordKnown DEF AcceptedIn, WellFormed
<1> QED BY <1>1, <1>2, RecordKnown, RunFields

LEMMA TokenUnused ==
  ASSUME UnusedTokens # {}
  PROVE  LET token == CHOOSE k \in UnusedTokens : TRUE IN
         token \in UnusedTokens /\ token \in Tokens /\ token # None
BY NoneIsNothing DEF UnusedTokens

LEMMA SessionClaimed ==
  ASSUME Ind, NEW h \in Hosts, NEW r \in Runs, ClaimSession(h, r), UNCHANGED scope
  PROVE  Command(r)
<1> DEFINE token == CHOOSE k \in UnusedTokens : TRUE
           old == ledger.runs[r].session
           session == [old EXCEPT !.state = "running", !.token = token]
<1>1. /\ Writable /\ AcceptedIn(ledger, r) /\ old.state = "pending"
      /\ UNCHANGED <<scope, db, lock, heard>> /\ UnusedTokens # {}
      /\ ledger' = [ledger EXCEPT !.runs[r].session =
                      [@ EXCEPT !.state = "running", !.token = token]]
  BY DEF ClaimSession, Install
<1>2. token \in Tokens /\ token # None
  BY <1>1, TokenUnused
<1> HIDE DEF token
<1>3. r \in Recorded /\ old \in Session /\ ledger.runs[r] \in Run /\ ledger \in Ledger
  BY <1>1, RecordAccepted
<1>4. ledger' = [ledger EXCEPT !.runs[r].session = session]
  BY <1>1, <1>3 DEF Ledger
<1>5. /\ session \in Session /\ session.state = "running" /\ session.token = token
      /\ session.legacy = old.legacy
  BY <1>2, <1>3 DEF Session
<1> HIDE DEF session
<1> QED BY <1>1, <1>2, <1>3, <1>4, <1>5, SessionRewritten

LEMMA SessionReleased ==
  ASSUME Ind, NEW r \in Runs, ReleaseSession(r), UNCHANGED scope
  PROVE  Command(r)
<1> DEFINE old == ledger.runs[r].session
           session == [old EXCEPT !.state = "pending", !.token = None]
<1>1. /\ Writable /\ AcceptedIn(ledger, r) /\ old.state = "running"
      /\ UNCHANGED <<scope, db, lock, heard>>
      /\ ledger' = [ledger EXCEPT !.runs[r].session =
                      [@ EXCEPT !.state = "pending", !.token = None]]
  BY DEF ReleaseSession, RunningUnder, Install
<1>2. r \in Recorded /\ old \in Session /\ ledger.runs[r] \in Run /\ ledger \in Ledger
  BY <1>1, RecordAccepted
<1>3. ledger' = [ledger EXCEPT !.runs[r].session = session]
  BY <1>1, <1>2 DEF Ledger
<1>4. /\ session \in Session /\ session.state = "pending" /\ session.token = None
      /\ session.legacy = old.legacy
  BY <1>2 DEF Session
<1> HIDE DEF session
<1> QED BY <1>1, <1>2, <1>3, <1>4, SessionRewritten

LEMMA CountReconciled ==
  ASSUME Ind, NEW h \in Hosts, ReconcileCount(h), UNCHANGED scope
  PROVE  held[h].run \in Runs /\ Command(held[h].run)
<1> DEFINE r == held[h].run
           old == ledger.runs[r].session
           legacy == IF heard[r].advanced = 0 THEN "uncounted" ELSE "counted"
           session == [old EXCEPT !.legacy = legacy]
<1>1. /\ Writable /\ AcceptedIn(ledger, r) /\ old.state = "running" /\ held[h] # None
      /\ old.token = held[h].token
      /\ UNCHANGED <<scope, db, lock, heard>>
      /\ ledger' = [ledger EXCEPT !.runs[r].session.legacy = legacy]
  BY DEF ReconcileCount, RunningUnder, Install
<1>2. r \in Runs /\ held[h].token \in Tokens
  BY <1>1, IndParts DEF Around
<1> HIDE DEF r
<1>3. r \in Recorded /\ old \in Session /\ ledger.runs[r] \in Run /\ ledger \in Ledger
  BY <1>1, <1>2, RecordAccepted
<1>4. ledger' = [ledger EXCEPT !.runs[r].session = session]
  BY <1>1, <1>3 DEF Ledger
<1>5. legacy \in {"uncounted", "counted"}
  OBVIOUS
<1> HIDE DEF legacy
<1>6. /\ session \in Session /\ session.state = "running" /\ session.token = old.token
      /\ session.legacy = legacy
  BY <1>1, <1>3, <1>5 DEF Session
<1>7. session.token # None
  BY <1>1, <1>2, <1>6, NoneIsNothing
<1> HIDE DEF session
<1>8. Command(r)
  BY <1>1, <1>3, <1>4, <1>6, <1>7, SessionRewritten DEF legacy
<1> QED BY <1>2, <1>8 DEF r

\* A command works on the database as it is or as it was: no run leaves the
\* counted ones in between.
LEMMA ReadingKnown ==
  ASSUME Ind, NEW v \in Readings
  PROVE  v \in Reading /\ v.db \in Database /\ v.db.counted \subseteq db.counted
<1>1. /\ db \in Database /\ today \in 0 .. scope.days
      /\ earlier \in [db : Database, day : 0 .. scope.days]
      /\ earlier.db.counted \subseteq db.counted
  BY IndParts DEF Around
<1>2. scope.days \in Nat
  BY IndParts, ScopesAreBounds DEF Around
<1> QED BY <1>1, <1>2 DEF Readings, Now, Reading

LEMMA SessionRecordedOnce ==
  ASSUME Ind, NEW h \in Hosts, NEW v \in Readings, NEW changed \in BOOLEAN,
         RecordSession(h, v, changed), UNCHANGED scope
  PROVE  held[h].run \in Runs /\ Command(held[h].run)
<1> DEFINE r == held[h].run
           old == ledger.runs[r]
           session == [old.session EXCEPT !.state = "completed", !.changed = changed]
           report == IF changed THEN "owed" ELSE old.report
           run == [old EXCEPT !.session = session, !.report = report]
<1>1. /\ Writable /\ AcceptedIn(ledger, r) /\ old.session.state = "running" /\ held[h] # None
      /\ r \in v.db.counted /\ ledger.schema = 3
      /\ UNCHANGED <<scope, db, lock, heard>>
      /\ ledger' = SetRun(ledger, r, SessionRecorded(old, changed))
  BY DEF RecordSession, RunningUnder, Install, Writable
<1>2. r \in Runs
  BY <1>1, IndParts DEF Around
<1> HIDE DEF r
<1>3. /\ r \in Recorded /\ old.session \in Session /\ old \in Run /\ WellFormed(old)
      /\ CountKnown(r) /\ old.state = "accepted" /\ old.report \in {"owed", "delivered"}
  BY <1>1, <1>2, RecordAccepted, RecordKnown, RunFields DEF AcceptedIn
<1>4. SessionRecorded(old, changed) = run
  BY <1>3 DEF SessionRecorded, Run
<1>5. /\ session \in Session /\ session.state = "completed" /\ session.changed = changed
      /\ session.legacy = old.session.legacy /\ session # None
  <2>1. session \in Session
    BY <1>3 DEF Session
  <2>2. /\ session.state = "completed" /\ session.changed = changed
        /\ session.legacy = old.session.legacy
    BY <1>3 DEF Session
  <2> QED BY <2>1, <2>2, SessionFields
<1>6. /\ report \in {"owed", "delivered"}
      /\ report = "delivered" => old.report = "delivered" /\ ~changed
  BY <1>3
<1> HIDE DEF session, report
<1>7. /\ run \in Run /\ run.talks = old.talks /\ run.session = session
      /\ run.state = old.state /\ run.mode = old.mode /\ run.report = report
      /\ run.downstream = old.downstream
  BY <1>3, <1>5, <1>6 DEF Run
<1> HIDE DEF run
<1>8. WellFormed(run)
  BY <1>3, <1>5, <1>6, <1>7 DEF WellFormed
<1>9. r \in db.counted
  BY <1>1, ReadingKnown
<1>10. CountFollows(r, run)
  BY <1>1, <1>3, <1>5, <1>7, <1>9 DEF CountFollows, CountKnown
<1>11. Writes(r, run)
  BY <1>1, <1>2, <1>4, <1>7, <1>8 DEF Writes
<1>12. /\ Links(run) = Links(old) /\ ChangedProfile(old) = FALSE
       /\ ChangedProfile(run) = changed
  BY <1>1, <1>3, <1>5, <1>7 DEF Links, ChangedProfile
<1>13. /\ run.state \in Dispositions \union {"offered"} => heard[r].offer = Links(run)
       /\ run.report = "delivered" =>
            heard[r].report = [facts |-> Links(run), changed |-> ChangedProfile(run)]
  BY <1>3, <1>6, <1>7, <1>12, RecordKnown
<1>14. Command(r)
  BY <1>1, <1>10, <1>11, <1>13, QuietCommand
<1> QED BY <1>2, <1>14 DEF r

LEMMA ReportRecorded ==
  ASSUME Ind, NEW r \in Runs, RecordReport(r), UNCHANGED scope
  PROVE  Command(r)
<1> DEFINE old == ledger.runs[r]
           run == [old EXCEPT !.report = "delivered"]
           written == [facts |-> Links(old), changed |-> ChangedProfile(old)]
<1>1. /\ r \in Recorded /\ Writable /\ ledger.schema = 3 /\ old.downstream = "completed"
      /\ clarification_resolved(old)
      /\ UNCHANGED <<scope, db, lock>>
      /\ ledger' = [ledger EXCEPT !.runs[r].report = "delivered"]
      /\ heard' = [heard EXCEPT ![r].report = written]
  BY DEF RecordReport, Writable, Install
<1>2. old \in Run /\ WellFormed(old) /\ ledger \in Ledger /\ HeardTyped
  BY <1>1, RecordKnown, IndParts
<1>3. ledger' = SetRun(ledger, r, run)
  BY <1>1, <1>2 DEF SetRun, Ledger
<1>4. /\ run \in Run /\ run.talks = old.talks /\ run.session = old.session
      /\ run.state = old.state /\ run.mode = old.mode /\ run.report = "delivered"
      /\ run.downstream = old.downstream
  BY <1>2 DEF Run
<1> HIDE DEF run
<1>5. old.state \notin {"owed", "offered"}
  BY <1>1 DEF clarification_resolved
<1>6. Writes(r, run) /\ CountFollows(r, run)
  BY <1>1, <1>2, <1>3, <1>4, <1>5, SessionStays DEF Writes, WellFormed
<1>7. Links(run) = Links(old) /\ ChangedProfile(run) = ChangedProfile(old)
  BY <1>4 DEF Links, ChangedProfile
<1>8. written \in [facts : SUBSET Fact, changed : BOOLEAN]
  <2>1. Links(old) \subseteq Fact
    BY <1>2, LinksTyped
  <2>2. ChangedProfile(old) \in BOOLEAN
    <3>1. old.state = "accepted" => old.session \in Session
      BY <1>2, RunFields DEF WellFormed
    <3> QED BY <3>1, SessionFields DEF ChangedProfile
  <2> QED BY <2>1, <2>2
<1>9. written = [facts |-> Links(run), changed |-> ChangedProfile(run)]
  BY <1>7
<1> HIDE DEF written
<1>10. /\ HeardTyped'
       /\ \A q \in Runs : heard'[q].advanced = heard[q].advanced
       /\ \A q \in Runs \ {r} : heard'[q] = heard[q]
       /\ heard'[r].report = written /\ heard'[r].offer = heard[r].offer
  BY <1>1, <1>2, <1>8 DEF HeardTyped
<1>11. CoverFollows(r, run)
  <2>1. run.state \in Dispositions \union {"offered"} => heard[r].offer = Links(run)
    BY <1>1, <1>4, <1>7, RecordKnown
  <2> QED BY <1>9, <1>10, <2>1 DEF CoverFollows
<1> QED BY <1>1, <1>6, <1>10, <1>11 DEF Command

LEMMA OfferRecorded ==
  ASSUME Ind, NEW v \in Readings, NEW r \in Runs, RecordOffer(v, r), UNCHANGED scope
  PROVE  Command(r)
<1> DEFINE old == ledger.runs[r]
           talks == [t \in DOMAIN old.talks |-> describe_talk(v, t, old.talks[t].fact)]
           aged == ApplyRecency(old, talks)
           offered == [aged EXCEPT !.state = "offered"]
<1>1. /\ r \in Recorded /\ Writable /\ ledger.schema = 3 /\ old.state = "owed"
      /\ UNCHANGED <<scope, db, lock>>
      /\ IF aged.state = "not_applicable"
         THEN ledger' = SetRun(ledger, r, aged) /\ heard' = heard
         ELSE /\ ledger' = SetRun(ledger, r, offered)
              /\ heard' = [heard EXCEPT ![r].offer = Links(aged)]
  BY DEF RecordOffer, Writable, Install
<1>2. old \in Run /\ WellFormed(old) /\ ledger \in Ledger /\ HeardTyped
  BY <1>1, RecordKnown, IndParts
<1>3. talks \in TalkTables
  <2>1. /\ DOMAIN old.talks \subseteq Talks
        /\ \A t \in DOMAIN old.talks : old.talks[t].fact \in Fact
    BY <1>2, RunFields, TableFields
  <2>2. \A t \in DOMAIN old.talks : describe_talk(v, t, old.talks[t].fact) \in Entry
    BY <2>1, ReadingKnown, TalkDescribed
  <2>3. talks \in [DOMAIN old.talks -> Entry]
    BY <2>2
  <2> QED BY <2>1, <2>3, TableTyped
<1> HIDE DEF talks
<1>4. old.session = None /\ old.report = "owed"
  BY <1>1, <1>2, RunFields DEF WellFormed
<1>5. /\ aged \in Run /\ aged.talks = talks /\ aged.mode = offer_mode_for(talks)
      /\ aged.state = IF aged.mode = "none" THEN "not_applicable" ELSE "owed"
      /\ aged.session = None /\ aged.report = "owed"
  BY <1>2, <1>3, <1>4, RecencyApplied
<1> HIDE DEF aged
<1>6. /\ offered \in Run /\ offered.talks = talks /\ offered.mode = aged.mode
      /\ offered.state = "offered" /\ offered.session = None /\ offered.report = "owed"
  <2>1. "offered" \in States
    BY DEF States
  <2> QED BY <1>5, <2>1 DEF Run
<1> HIDE DEF offered
<1>7. CountFollows(r, aged) /\ CountFollows(r, offered)
  BY <1>1, <1>4, <1>5, <1>6, SessionStays
<1>8. CASE aged.state = "not_applicable"
  <2>1. WellFormed(aged)
    BY <1>5, <1>8 DEF WellFormed
  <2>2. Writes(r, aged)
    BY <1>1, <1>5, <1>8, <2>1 DEF Writes
  <2>3. aged.state \notin Dispositions \union {"offered"} /\ aged.report # "delivered"
    BY <1>5, <1>8 DEF Dispositions
  <2> QED BY <1>1, <1>7, <1>8, <2>2, <2>3, QuietCommand
<1>9. CASE aged.state # "not_applicable"
  <2>1. WellFormed(offered)
    BY <1>5, <1>6, <1>9 DEF WellFormed
  <2>2. Writes(r, offered)
    BY <1>1, <1>6, <1>9, <2>1 DEF Writes
  <2>3. Links(offered) = Links(aged) /\ Links(aged) \subseteq Fact
    BY <1>5, <1>6, LinksTyped DEF Links
  <2>4. /\ HeardTyped'
        /\ \A q \in Runs : heard'[q].advanced = heard[q].advanced
        /\ \A q \in Runs \ {r} : heard'[q] = heard[q]
        /\ heard'[r].offer = Links(aged)
    BY <1>1, <1>2, <1>9, <2>3 DEF HeardTyped
  <2>5. CoverFollows(r, offered)
    BY <1>6, <2>3, <2>4 DEF CoverFollows
  <2> QED BY <1>1, <1>7, <2>2, <2>4, <2>5 DEF Command
<1> QED BY <1>8, <1>9

LEMMA RunOpened ==
  ASSUME Ind, NEW v \in Readings, NEW r \in Runs, NEW names \in SUBSET Talks, names # {},
         NEW source, Open(v, r, names, source), UNCHANGED scope
  PROVE  Command(r)
<1> DEFINE old == RunOrNew(ledger, r)
           run == Opened(old, v, r, names, source)
<1>1. /\ Writable /\ ledger # None /\ ledger.schema = 3 /\ MayOpen(old, v, r, names, source)
      /\ run # ledger.runs[r] /\ ledger' = SetRun(ledger, r, run)
      /\ UNCHANGED <<scope, db, lock, heard>>
  BY DEF Open, Writable, Install
<1>2. CountKnown(r)
  BY IndParts
<1>3. ledger.runs[r] # None =>
        /\ old = ledger.runs[r] /\ r \in Recorded
        /\ old \in Run /\ (old.session # None <=> old.state = "accepted")
  BY <1>1, RecordKnown DEF RunOrNew, Recorded, WellFormed
<1>4. ledger.runs[r] = None => old = new_run
  BY DEF RunOrNew
<1>5. old \in Run /\ (old.session # None <=> old.state = "accepted")
  BY <1>3, <1>4, NewRunTyped
<1>6. run # old \/ (old = new_run /\ names # {})
  BY <1>1, <1>3, <1>4
<1>7. v \in Reading
  BY ReadingKnown
<1> HIDE DEF old
<1>8. old.session = None /\ Offerable(run)
  BY <1>1, <1>5, <1>6, <1>7, OpenedOfferable
<1>9. Uncounted(r)
  BY <1>2, <1>3, <1>8 DEF CountKnown
<1> HIDE DEF run
<1>10. CountFollows(r, run)
  BY <1>8, <1>9 DEF Offerable, CountFollows
<1>11. Writes(r, run)
  BY <1>1, <1>8 DEF Writes, Offerable
<1>12. run.state \notin Dispositions \union {"offered"} /\ run.report # "delivered"
  BY <1>8 DEF Offerable, RecencyOpen, Dispositions
<1> QED BY <1>1, <1>10, <1>11, <1>12, QuietCommand

-----------------------------------------------------------------------------
(***************************************************************************)
(* The rest of the state, step by step.                                    *)
(***************************************************************************)
\* A step that changes no record, and of the database at most what was closed.
Beside ==
  /\ UNCHANGED <<scope, ledger, heard>>
  /\ db'.counted = db.counted /\ db'.sessions = db.sessions

LEMMA BesideKeeps ==
  ASSUME Ind, Beside, Around', LockHeld'
  PROVE  Ind'
<1>1. Recorded' = Recorded
  BY DEF Beside, Recorded
<1>2. \A r \in Runs : CountKnown(r)'
  BY <1>1, IndParts DEF Beside, CountKnown, Uncounted
<1>3. HeardTyped' /\ (db.sessions = Cardinality({r \in Runs : heard[r].advanced = 1}))'
  BY IndParts DEF Beside, HeardTyped
<1>4. OfferCoversRun' /\ ReportCoversRun' /\ (\A r \in Recorded : WellFormed(ledger.runs[r]))'
  BY <1>1, IndParts DEF Beside, OfferCoversRun, ReportCoversRun
<1>5. (ledger # None => ledger \in Ledger)'
  BY IndParts DEF Beside
<1> QED BY <1>2, <1>3, <1>4, <1>5
      DEF Ind, TypeOK, CountInv, RunCovered, Around, HeardTyped

LEMMA PersistKeeps ==
  ASSUME Ind, NEW r \in Runs, NEW t \in Talks, Persist(r, t), UNCHANGED scope
  PROVE  Ind'
<1> DEFINE fact == [run |-> r, talk |-> t, gen |-> 1 + Cardinality(Claims(db, t))]
<1>1. PICK analyzed \in BOOLEAN :
        db' = [db EXCEPT !.facts = @ \union {fact},
                         !.analyzed = IF analyzed THEN @ \union {t} ELSE @]
  BY DEF Persist
<1>2. /\ Around /\ db \in Database /\ IsFiniteSet(db.facts) /\ db.facts \subseteq Fact
      /\ db.analyzed \subseteq Talks
  BY IndParts, DatabaseFields DEF Around
<1>3. fact \in Fact
  <2>1. Claims(db, t) \subseteq db.facts
    BY DEF Claims
  <2>2. Cardinality(Claims(db, t)) \in Nat
    BY <1>2, <2>1, FS_Subset, FS_CardinalityType
  <2>3. Cardinality(Claims(db, t)) < MaxGen
    BY DEF Persist
  <2> QED BY <2>2, <2>3, VaultIsFinite DEF Fact
<1> HIDE DEF fact
<1>4. db' \in Database /\ db'.counted = db.counted /\ db'.sessions = db.sessions
  BY <1>1, <1>2, <1>3 DEF Database
<1>5. IsFiniteSet(db'.facts)
  <2>1. db'.facts = db.facts \union {fact}
    BY <1>1, <1>2 DEF Database
  <2> QED BY <1>2, <2>1, FS_AddElement
<1>6. /\ UNCHANGED <<ledger, today, held, lock, verdict, faults, heard>>
      /\ earlier' = [db |-> db, day |-> today]
  BY DEF Persist, Now
<1>7. Around'
  BY <1>2, <1>4, <1>5, <1>6 DEF Around
<1>8. LockHeld'
  BY <1>6, IndParts DEF LockHeld, RunningUnder, AcceptedIn
<1> QED BY <1>4, <1>6, <1>7, <1>8, BesideKeeps DEF Beside

LEMMA RequeueKeeps ==
  ASSUME Ind, NEW t \in Talks, Requeue(t), UNCHANGED scope
  PROVE  Ind'
<1>1. /\ UNCHANGED <<ledger, today, held, lock, verdict, faults, heard>>
      /\ earlier' = [db |-> db, day |-> today]
      /\ db' = [db EXCEPT !.analyzed = @ \ {t}]
  BY DEF Requeue, Now
<1>2. Around /\ db \in Database
  BY IndParts DEF Around
<1>3. /\ db' \in Database /\ db'.counted = db.counted /\ db'.sessions = db.sessions
      /\ db'.facts = db.facts
  BY <1>1, <1>2 DEF Database
<1>4. Around'
  BY <1>1, <1>2, <1>3 DEF Around
<1>5. LockHeld'
  BY <1>1, IndParts DEF LockHeld, RunningUnder, AcceptedIn
<1> QED BY <1>1, <1>3, <1>4, <1>5, BesideKeeps DEF Beside

LEMMA NextDayKeeps ==
  ASSUME Ind, NextDay, UNCHANGED scope
  PROVE  Ind'
<1>1. /\ UNCHANGED <<db, ledger, held, lock, verdict, faults, heard>>
      /\ earlier' = [db |-> db, day |-> today]
      /\ today < scope.days /\ today' = today + 1
  BY DEF NextDay, Now
<1>2. Around /\ scope.days \in Nat
  BY IndParts, ScopesAreBounds DEF Around
<1>3. Around'
  BY <1>1, <1>2 DEF Around
<1>4. LockHeld'
  BY <1>1, IndParts DEF LockHeld, RunningUnder, AcceptedIn
<1> QED BY <1>1, <1>3, <1>4, BesideKeeps DEF Beside

LEMMA CrashKeeps ==
  ASSUME Ind, NEW h \in Hosts, Crash(h), UNCHANGED scope
  PROVE  Ind'
<1>1. /\ UNCHANGED <<db, ledger, today, earlier, verdict, heard>>
      /\ faults < scope.faults /\ faults' = faults + 1
      /\ held' = [held EXCEPT ![h] = None]
      /\ lock' = None \/ lock' = lock
  BY DEF Crash
<1>2. Around /\ scope.faults \in Nat
  BY IndParts, ScopesAreBounds DEF Around
<1>3. Around'
  BY <1>1, <1>2 DEF Around
<1>4. LockHeld'
  BY <1>1, IndParts DEF LockHeld, RunningUnder, AcceptedIn
<1> QED BY <1>1, <1>3, <1>4, BesideKeeps DEF Beside

LEMMA DecideKeeps ==
  ASSUME Ind, NEW r \in Runs, Decide(r), UNCHANGED scope
  PROVE  Ind'
<1>1. /\ UNCHANGED <<db, ledger, today, earlier, held, lock, heard>>
      /\ ledger # None /\ AcceptedIn(ledger, r)
      /\ ledger.runs[r].session.state = "running"
      /\ verdict' = ledger.runs[r].session.token
      /\ faults' = faults \/ (faults < scope.faults /\ faults' = faults + 1)
  BY DEF Decide
<1>2. Around /\ scope.faults \in Nat
  BY IndParts, ScopesAreBounds DEF Around
<1>3. verdict' \in Tokens \union {None}
  <2>1. r \in Recorded
    BY <1>1 DEF Recorded, AcceptedIn
  <2>2. ledger.runs[r] \in Run
    BY <2>1, RecordKnown
  <2>3. ledger.runs[r].session # None
    BY <1>1, <2>1, RecordKnown DEF AcceptedIn, WellFormed
  <2> QED BY <1>1, <2>2, <2>3, RunFields, SessionFields
<1>4. Around'
  BY <1>1, <1>2, <1>3 DEF Around
<1>5. LockHeld'
  BY <1>1, IndParts DEF LockHeld, RunningUnder, AcceptedIn
<1> QED BY <1>1, <1>4, <1>5, BesideKeeps DEF Beside

LEMMA RefusedKeeps ==
  ASSUME Ind, NEW h \in Hosts, Refused(h), UNCHANGED scope
  PROVE  Ind'
<1>1. /\ UNCHANGED <<db, ledger, today, earlier, lock, verdict, faults, heard>>
      /\ held' = [held EXCEPT ![h] = None]
  BY DEF Refused
<1>2. Around'
  BY <1>1, IndParts DEF Around
<1>3. LockHeld'
  BY <1>1, IndParts DEF LockHeld, RunningUnder, AcceptedIn
<1> QED BY <1>1, <1>2, <1>3, BesideKeeps DEF Beside

LEMMA CountCheckKeeps ==
  ASSUME Ind, NEW h \in Hosts, CountCheck(h), UNCHANGED scope
  PROVE  Ind'
<1> DEFINE r == held[h].run
           advances == ledger.runs[r].session.legacy # "counted"
<1>1. /\ UNCHANGED <<db, ledger, today, earlier, held, verdict, faults, heard>>
      /\ ledger # None /\ ledger.schema = 3 /\ held[h] # None
      /\ RunningUnder(ledger, r, held[h].token)
      /\ ledger.runs[r].session.legacy # "unknown" /\ r \notin db.counted
      /\ lock' = [host |-> h, run |-> r, token |-> held[h].token, base |-> db,
                  advances |-> advances]
  BY DEF CountCheck, Writable
<1>2. Around /\ r \in Runs /\ held[h].token \in Tokens /\ db \in Database
  BY <1>1, IndParts DEF Around
<1>3. Around'
  <2>1. advances \in BOOLEAN
    OBVIOUS
  <2> HIDE DEF r, advances
  <2> QED BY <1>1, <1>2, <2>1 DEF Around
<1>4. LockHeld'
  BY <1>1 DEF LockHeld, RunningUnder, AcceptedIn
<1> QED BY <1>1, <1>3, <1>4, BesideKeeps DEF Beside

\* The commit of count-session: the database is still the one it read, so the
\* run it counts is not counted, and the ledger has stood still.
LEMMA CountCommitKeeps ==
  ASSUME Ind, NEW h \in Hosts, CountCommit(h), UNCHANGED scope
  PROVE  Ind'
<1> DEFINE r == lock.run
<1>1. /\ UNCHANGED <<ledger, today, held, verdict, faults>>
      /\ lock # None /\ lock' = None
  BY DEF CountCommit
<1>2. Around /\ HeardTyped /\ r \in Runs /\ db \in Database /\ lock.advances \in BOOLEAN
  BY <1>1, IndParts DEF Around
<1>3. LockHeld' /\ Recorded' = Recorded
  BY <1>1 DEF LockHeld, Recorded
<1>4. CASE db # lock.base
  <2>1. UNCHANGED <<db, heard, earlier>>
    BY <1>4 DEF CountCommit
  <2>2. Around'
    BY <1>1, <1>2, <2>1 DEF Around
  <2> QED BY <1>1, <1>3, <2>1, <2>2, BesideKeeps DEF Beside
<1>5. CASE db = lock.base
  <2>1. /\ db' = [db EXCEPT !.counted = @ \union {r},
                            !.sessions = IF lock.advances THEN @ + 1 ELSE @]
        /\ heard' = [heard EXCEPT ![r].advanced = IF lock.advances THEN @ + 1 ELSE @]
        /\ earlier' = [db |-> db, day |-> today]
    BY <1>5 DEF CountCommit, Now
  <2>2. /\ r \in Recorded /\ ledger.schema = 3 /\ r \notin db.counted
        /\ ledger.runs[r].session # None
        /\ ledger.runs[r].session.legacy \in {"none", "counted", "uncounted"}
        /\ lock.advances = (ledger.runs[r].session.legacy # "counted")
    <3>1. /\ r \in Recorded /\ AcceptedIn(ledger, r) /\ ledger.schema = 3 /\ r \notin db.counted
          /\ ledger.runs[r].session.legacy # "unknown"
          /\ lock.advances = (ledger.runs[r].session.legacy # "counted")
      BY <1>1, <1>2, <1>5, IndParts DEF LockHeld, RunningUnder, AcceptedIn, Recorded
    <3>2. ledger.runs[r].session \in Session
      BY <3>1, RecordKnown, RunFields DEF AcceptedIn, WellFormed
    <3> QED BY <3>1, <3>2, SessionFields
  <2>3. heard[r].advanced = IF lock.advances THEN 0 ELSE 1
    BY <1>2, <2>2, IndParts DEF CountKnown
  <2>4. /\ heard'[r].advanced = 1 /\ HeardTyped'
        /\ heard'[r].offer = heard[r].offer /\ heard'[r].report = heard[r].report
        /\ \A q \in Runs \ {r} : heard'[q] = heard[q]
    <3> DEFINE value == IF lock.advances THEN heard[r].advanced + 1 ELSE heard[r].advanced
    <3>1. heard' = [heard EXCEPT ![r].advanced = value]
      BY <2>1
    <3>2. value = 1
      BY <1>2, <2>3
    <3> HIDE DEF value
    <3> QED BY <1>2, <3>1, <3>2 DEF HeardTyped
  <2>5. /\ db'.facts = db.facts /\ db'.analyzed = db.analyzed
        /\ db'.counted = db.counted \union {r}
        /\ db'.sessions = IF lock.advances THEN db.sessions + 1 ELSE db.sessions
    BY <1>2, <2>1 DEF Database
  <2> DEFINE past == {q \in Runs : heard[q].advanced = 1}
             now == {q \in Runs : heard'[q].advanced = 1}
  <2>6. IsFiniteSet(past) /\ db.sessions = Cardinality(past)
    BY VaultIsFinite, FS_Subset, IndParts
  <2>7. now = past \union {r} /\ (r \in past <=> ~lock.advances)
    BY <1>2, <2>3, <2>4
  <2>8. now \subseteq Runs
    OBVIOUS
  <2> HIDE DEF past, now
  <2>9. db'.sessions = Cardinality(now) /\ db'.sessions \in 0 .. Cardinality(Runs)
    <3>1. Cardinality(now) = IF lock.advances THEN Cardinality(past) + 1 ELSE Cardinality(past)
      BY <2>6, <2>7, FS_AddElement
    <3>2. /\ IsFiniteSet(now) /\ Cardinality(now) \in Nat
          /\ Cardinality(Runs) \in Nat /\ Cardinality(now) <= Cardinality(Runs)
      BY <2>8, VaultIsFinite, FS_Subset, FS_CardinalityType
    <3> QED BY <2>5, <2>6, <3>1, <3>2
  <2>10. db' \in Database
    <3>1. /\ db'.counted \subseteq Runs /\ db.facts \subseteq Fact /\ db.analyzed \subseteq Talks
      BY <1>2, <2>5, DatabaseFields
    <3>2. db' = [facts |-> db'.facts, analyzed |-> db'.analyzed,
                 counted |-> db'.counted, sessions |-> db'.sessions]
      BY <1>2, <2>1 DEF Database
    <3> QED BY <2>5, <2>9, <3>1, <3>2 DEF Database
  <2>11. Around'
    BY <1>1, <1>2, <2>1, <2>5, <2>10 DEF Around
  <2>12. ASSUME NEW q \in Runs PROVE CountKnown(q)'
    <3>1. CountKnown(q)
      BY IndParts
    <3>2. CASE q = r
      BY <1>1, <1>3, <2>2, <2>4, <2>5, <3>2 DEF CountKnown, Recorded
    <3>3. CASE q # r
      BY <1>1, <1>3, <2>4, <2>5, <3>1, <3>3 DEF CountKnown, Uncounted
    <3> QED BY <3>2, <3>3
  <2>13. OfferCoversRun' /\ ReportCoversRun'
    <3>1. \A q \in Recorded : heard'[q].offer = heard[q].offer /\ heard'[q].report = heard[q].report
      BY <2>4 DEF Recorded
    <3> QED BY <1>1, <1>3, <3>1, IndParts DEF OfferCoversRun, ReportCoversRun
  <2>14. (ledger # None => ledger \in Ledger)' /\ (\A q \in Recorded : WellFormed(ledger.runs[q]))'
    BY <1>1, <1>3, IndParts
  <2>15. (db.sessions = Cardinality({q \in Runs : heard[q].advanced = 1}))'
    BY <2>9 DEF now
  <2> QED BY <1>3, <2>4, <2>11, <2>12, <2>13, <2>14, <2>15
        DEF Ind, TypeOK, CountInv, RunCovered, Around, HeardTyped
<1> QED BY <1>4, <1>5

(***************************************************************************)
(* The commands that do not rewrite one record.                            *)
(***************************************************************************)
LEMMA DoneTyped ==
  ASSUME Ind, NEW v, Done(v)
  PROVE  /\ earlier' \in [db : Database, day : 0 .. scope.days]
         /\ earlier'.db.counted \subseteq db.counted
<1>1. /\ db \in Database /\ today \in 0 .. scope.days
      /\ earlier \in [db : Database, day : 0 .. scope.days]
      /\ earlier.db.counted \subseteq db.counted
  BY IndParts DEF Around
<1>2. earlier' = earlier \/ earlier' = [db |-> db, day |-> today]
  BY DEF Done, Now
<1> QED BY <1>1, <1>2

LEMMA AdoptKeeps ==
  ASSUME Ind, NEW v \in Readings, Adopt(v), UNCHANGED scope
  PROVE  Ind'
<1>1. /\ UNCHANGED <<db, today, held, lock, verdict, faults, heard>>
      /\ ledger = None /\ Done(v)
      /\ ledger' = [schema |-> 3, adopted |-> v.db.facts,
                    dismissed |-> [r \in Runs |-> {}], runs |-> [r \in Runs |-> None]]
  BY DEF Adopt, Install
<1>2. Around /\ HeardTyped /\ v.db.facts \subseteq Fact
  BY IndParts, ReadingKnown, DatabaseFields
<1>3. ledger' \in Ledger
  BY <1>1, <1>2 DEF Ledger
<1>4. Recorded' = {} /\ \A r \in Runs : ledger'.runs[r] = None
  BY <1>1 DEF Recorded
<1>5. Around'
  BY <1>1, <1>2, DoneTyped DEF Around
<1>6. HeardTyped' /\ (db.sessions = Cardinality({r \in Runs : heard[r].advanced = 1}))'
  BY <1>1, IndParts DEF HeardTyped
<1>7. \A r \in Runs : CountKnown(r)'
  BY <1>1, <1>4, IndParts DEF CountKnown, Uncounted
<1>8. LockHeld'
  BY <1>1, IndParts DEF LockHeld
<1> QED BY <1>3, <1>4, <1>5, <1>6, <1>7, <1>8
      DEF Ind, TypeOK, CountInv, RunCovered, Around, HeardTyped, OfferCoversRun, ReportCoversRun

LEMMA DismissKeeps ==
  ASSUME Ind, NEW v \in Readings, NEW r \in Runs, Dismiss(v, r), UNCHANGED scope
  PROVE  Ind'
<1> DEFINE covering == {f \in uncovered_facts(v.db, ledger) : f.run = r}
<1>1. /\ UNCHANGED <<db, today, held, lock, verdict, faults, heard>>
      /\ ledger # None /\ ledger.schema = 3 /\ lock = None /\ Done(v)
      /\ ledger' = [ledger EXCEPT !.dismissed[r] = @ \union covering]
  BY DEF Dismiss, Install, Writable
<1>2. Around /\ HeardTyped /\ ledger \in Ledger /\ v.db.facts \subseteq Fact
  BY <1>1, IndParts, ReadingKnown, DatabaseFields
<1>3. covering \subseteq Fact
  BY <1>2 DEF uncovered_facts
<1> HIDE DEF covering
<1>4. /\ ledger' \in Ledger /\ ledger'.runs = ledger.runs /\ ledger'.schema = ledger.schema
  BY <1>1, <1>2, <1>3 DEF Ledger
<1>5. Recorded' = Recorded /\ ledger' # None
  BY <1>1, <1>4, LedgerFields DEF Recorded
<1>6. Around'
  BY <1>1, <1>2, DoneTyped DEF Around
<1>7. HeardTyped' /\ (db.sessions = Cardinality({q \in Runs : heard[q].advanced = 1}))'
  BY <1>1, IndParts DEF HeardTyped
<1>8. \A q \in Runs : CountKnown(q)'
  BY <1>1, <1>4, <1>5, IndParts DEF CountKnown, Uncounted
<1>9. LockHeld'
  BY <1>1 DEF LockHeld
<1>10. OfferCoversRun' /\ ReportCoversRun' /\ (\A q \in Recorded : WellFormed(ledger.runs[q]))'
  BY <1>1, <1>4, <1>5, IndParts DEF OfferCoversRun, ReportCoversRun
<1> QED BY <1>4, <1>6, <1>7, <1>8, <1>9, <1>10
      DEF Ind, TypeOK, CountInv, RunCovered, Around, HeardTyped

\* A record the upgrade touches only learns that its count is in doubt.
LEMMA UpgradeKeeps ==
  ASSUME Ind, Upgrade, UNCHANGED scope
  PROVE  Ind'
<1> DEFINE doubted(run) == [run EXCEPT !.session.legacy = "unknown"]
           open(run) == run # None /\ run.session # None /\ run.session.state = "pending"
<1>1. /\ UNCHANGED <<db, today, earlier, held, lock, verdict, faults, heard>>
      /\ ledger # None /\ ledger.schema = 2 /\ lock = None
      /\ ledger' = [ledger EXCEPT !.schema = 3,
           !.runs = [r \in Runs |-> IF open(@[r]) THEN doubted(@[r]) ELSE @[r]]]
  BY DEF Upgrade, Install
<1>2. Around /\ HeardTyped /\ ledger \in Ledger
  BY <1>1, IndParts
<1>3. ASSUME NEW r \in Runs, open(ledger.runs[r])
      PROVE  LET old == ledger.runs[r]
                 run == doubted(ledger.runs[r])
             IN  /\ old \in Run /\ run \in Run /\ run # None /\ WellFormed(run)
                 /\ Links(run) = Links(old) /\ ChangedProfile(run) = ChangedProfile(old)
                 /\ run.state = old.state /\ run.report = old.report
                 /\ run.session # None /\ run.session.legacy = "unknown"
                 /\ run.session.state = "pending"
  <2> DEFINE old == ledger.runs[r]
             session == [old.session EXCEPT !.legacy = "unknown"]
             run == [old EXCEPT !.session = session]
  <2>1. old \in Run /\ WellFormed(old)
    BY <1>1, <1>2, <1>3, LedgerFields, IndParts DEF Recorded
  <2>2. old.session \in Session /\ old.session.state = "pending"
    BY <1>3, <2>1, RunFields
  <2>3. /\ session \in Session /\ session.legacy = "unknown" /\ session.state = "pending"
        /\ session.token = old.session.token /\ session.changed = old.session.changed
    BY <2>2 DEF Session
  <2>4. doubted(old) = run
    BY <2>1, <2>2 DEF Run
  <2> HIDE DEF session
  <2>5. /\ run \in Run /\ run.talks = old.talks /\ run.session = session
        /\ run.state = old.state /\ run.mode = old.mode /\ run.report = old.report
        /\ run.downstream = old.downstream
    BY <2>1, <2>3 DEF Run
  <2> HIDE DEF run
  <2>6. session # None /\ old.session # None
    BY <2>2, <2>3, SessionFields
  <2>7. WellFormed(run)
    BY <2>1, <2>2, <2>3, <2>5, <2>6 DEF WellFormed
  <2>8. Links(run) = Links(old) /\ ChangedProfile(run) = ChangedProfile(old)
    BY <2>2, <2>3, <2>5 DEF Links, ChangedProfile
  <2>9. run # None
    BY <2>5, RunFields
  <2> QED BY <2>1, <2>3, <2>4, <2>5, <2>6, <2>7, <2>8, <2>9
<1>4. \A r \in Runs : ledger'.runs[r] = IF open(ledger.runs[r]) THEN doubted(ledger.runs[r])
                                        ELSE ledger.runs[r]
  BY <1>1, <1>2 DEF Ledger
<1> HIDE DEF doubted
<1>5. ledger' \in Ledger /\ ledger'.schema = 3 /\ ledger' # None
  <2>1. \A r \in Runs : ledger'.runs[r] \in Run \union {None}
    BY <1>2, <1>3, <1>4, LedgerFields
  <2>2. /\ ledger'.runs = [r \in Runs |-> ledger'.runs[r]] /\ ledger'.schema = 3
        /\ ledger'.adopted = ledger.adopted /\ ledger'.dismissed = ledger.dismissed
        /\ ledger' = [schema |-> ledger'.schema, adopted |-> ledger'.adopted,
                      dismissed |-> ledger'.dismissed, runs |-> ledger'.runs]
    BY <1>1, <1>2 DEF Ledger
  <2>3. ledger' \in Ledger
    BY <1>2, <2>1, <2>2 DEF Ledger
  <2> QED BY <2>2, <2>3, LedgerFields
<1>6. Recorded' = Recorded
  <2>1. \A r \in Runs : ledger'.runs[r] # None <=> ledger.runs[r] # None
    BY <1>3, <1>4
  <2> QED BY <1>1, <1>5, <2>1 DEF Recorded
<1>7. Around' /\ LockHeld' /\ HeardTyped'
      /\ (db.sessions = Cardinality({q \in Runs : heard[q].advanced = 1}))'
  BY <1>1, IndParts DEF Around, LockHeld, HeardTyped
<1>8. \A q \in Recorded' : WellFormed(ledger'.runs[q])
  BY <1>3, <1>4, <1>6, IndParts DEF Recorded
<1>9. ASSUME NEW q \in Runs PROVE CountKnown(q)'
  <2>1. CountKnown(q)
    BY IndParts
  <2>2. CASE open(ledger.runs[q])
    <3>1. q \in Recorded
      BY <1>1, <2>2 DEF Recorded
    <3> QED BY <1>1, <1>3, <1>4, <1>5, <1>6, <2>1, <2>2, <3>1 DEF CountKnown, Uncounted
  <2>3. CASE ~open(ledger.runs[q])
    <3>1. ledger'.runs[q] = ledger.runs[q]
      BY <1>4, <2>3
    <3>2. q \in Recorded => ledger.runs[q].session = None
      BY <1>1, <2>1, <2>3 DEF CountKnown, Recorded
    <3> QED BY <1>1, <1>5, <1>6, <2>1, <3>1, <3>2 DEF CountKnown, Uncounted
  <2> QED BY <2>2, <2>3
<1>10. ASSUME NEW q \in Recorded
       PROVE  /\ Links(ledger'.runs[q]) = Links(ledger.runs[q])
              /\ ChangedProfile(ledger'.runs[q]) = ChangedProfile(ledger.runs[q])
              /\ ledger'.runs[q].state = ledger.runs[q].state
              /\ ledger'.runs[q].report = ledger.runs[q].report
  BY <1>3, <1>4 DEF Recorded
<1>11. OfferCoversRun' /\ ReportCoversRun'
  BY <1>1, <1>6, <1>10, IndParts DEF OfferCoversRun, ReportCoversRun
<1> QED BY <1>5, <1>7, <1>8, <1>9, <1>11
      DEF Ind, TypeOK, CountInv, RunCovered, Around, HeardTyped

-----------------------------------------------------------------------------
(***************************************************************************)
(* The invariant holds at first and is kept by every step.                 *)
(***************************************************************************)
LEMMA InitAround ==
  ASSUME Init, db \in Database, IsFiniteSet(db.facts)
  PROVE  Around
<1>1. scope \in Scopes /\ scope.days \in Nat /\ scope.faults \in Nat
  BY ScopesAreBounds DEF Init
<1>2. earlier = [db |-> db, day |-> 0] /\ today = 0
  BY DEF Init, Now
<1> QED BY <1>1, <1>2 DEF Init, Around

LEMMA InitInd == Init => Ind
<1> SUFFICES ASSUME Init PROVE Ind
  OBVIOUS
<1>1. LockHeld
  BY DEF Init, LockHeld
<1>2. Cardinality(Runs) \in Nat
  BY VaultIsFinite, FS_CardinalityType
<1>3. CASE NoLedger
  <2>1. /\ ledger = None /\ db = [facts |-> {}, analyzed |-> {}, counted |-> {}, sessions |-> 0]
        /\ heard = [r \in Runs |-> [offer |-> {}, report |-> None, advanced |-> 0]]
    BY <1>3 DEF NoLedger, EmptyDatabase, Silent
  <2>2. db \in Database /\ IsFiniteSet(db.facts)
    BY <1>2, <2>1, FS_EmptySet DEF Database
  <2>3. HeardTyped
    BY <2>1 DEF HeardTyped
  <2>4. Cardinality({r \in Runs : heard[r].advanced = 1}) = 0
    <3>1. {r \in Runs : heard[r].advanced = 1} = {}
      BY <2>1
    <3> QED BY <3>1, FS_EmptySet
  <2>5. Recorded = {} /\ \A r \in Runs : CountKnown(r)
    BY <2>1 DEF Recorded, CountKnown, Uncounted
  <2> QED BY <1>1, <2>1, <2>2, <2>3, <2>4, <2>5, IndParts, InitAround
          DEF OfferCoversRun, ReportCoversRun
<1>4. CASE OldLedger
  <2> DEFINE fact(r, t) == [run |-> r, talk |-> t, gen |-> 1]
  <2>1. PICK r \in Legacy, t \in Talks, counted \in {0, 1} :
          /\ ledger = [schema |-> 2, adopted |-> {}, dismissed |-> [q \in Runs |-> {}],
                       runs |-> [q \in Runs |-> IF q = r THEN OldRun(r, t) ELSE None]]
          /\ db = [facts |-> {fact(r, t)}, analyzed |-> {t}, counted |-> {}, sessions |-> counted]
          /\ heard = [q \in Runs |-> IF q = r
               THEN [offer |-> {fact(r, t)}, report |-> None, advanced |-> counted]
               ELSE [offer |-> {}, report |-> None, advanced |-> 0]]
    BY <1>4 DEF OldLedger, Silent
  <2>2. r \in Runs /\ fact(r, t) \in Fact
    BY VaultIsFinite DEF Fact
  <2> DEFINE link == fact(r, t)
  <2>3. link \in Fact
    BY <2>2
  <2> HIDE DEF fact
  <2> DEFINE past == {q \in Runs : heard[q].advanced = 1}
  <2>4. past = IF counted = 1 THEN {r} ELSE {}
    BY <2>1, <2>2
  <2>5. Cardinality(past) = counted /\ counted <= Cardinality(Runs)
    <3>1. past \subseteq Runs
      OBVIOUS
    <3>2. Cardinality(past) = counted
      BY <2>4, FS_EmptySet, FS_Singleton
    <3> HIDE DEF past
    <3> QED BY <3>1, <3>2, VaultIsFinite, FS_Subset
  <2>6. db \in Database /\ IsFiniteSet(db.facts) /\ db.sessions = Cardinality(past)
    <3>1. counted \in 0 .. Cardinality(Runs)
      BY <1>2, <2>5
    <3> HIDE DEF past
    <3> QED BY <2>1, <2>3, <2>5, <3>1, FS_Singleton DEF Database
  <2>7. HeardTyped
    BY <2>1, <2>3 DEF HeardTyped
  <2> DEFINE v == [db |-> [EmptyDatabase EXCEPT !.analyzed = {t}], day |-> 0]
             talks == [u \in {t} |-> describe_talk(v, u, link)]
             run == [talks |-> talks, downstream |-> "completed", state |-> "accepted",
                     mode |-> offer_mode_for(talks), session |-> NewSession, report |-> "owed"]
  <2>8. OldRun(r, t) = run
    BY DEF OldRun, fact
  <2>9. v \in Reading /\ t \in v.db.analyzed
    BY <1>2 DEF Reading, Database, EmptyDatabase
  <2> HIDE DEF v, link
  <2>10. /\ talks \in TalkTables /\ DOMAIN talks = {t} /\ talks[t].fact = link
         /\ talks[t].analyzed
    <3>1. \A u \in {t} : describe_talk(v, u, link) \in Entry
      BY <2>3, <2>9, TalkDescribed
    <3>2. talks \in [{t} -> Entry]
      BY <3>1
    <3>3. talks \in TalkTables
      BY <3>2, TableTyped
    <3>4. describe_talk(v, t, link).fact = link /\ describe_talk(v, t, link).analyzed
      BY <2>9 DEF describe_talk
    <3> QED BY <3>3, <3>4
  <2> HIDE DEF talks
  <2>11. offer_mode_for(talks) \in Modes /\ offer_mode_for(talks) # "none"
    BY <2>10, ModeTyped, ModeOfSomeTalk
  <2>12. run \in Run
    BY <2>10, <2>11, NewSessionTyped DEF Run, States, Dispositions
  <2>13. WellFormed(run) /\ Links(run) = {link} /\ run.session = NewSession
         /\ run.report = "owed" /\ run # None
    <3>1. WellFormed(run)
      BY <2>11, NewSessionTyped DEF WellFormed
    <3>2. Links(run) = {link}
      BY <2>10 DEF Links
    <3> QED BY <2>12, <3>1, <3>2, RunFields
  <2> HIDE DEF run
  <2>14. /\ ledger = [schema |-> 2, adopted |-> {}, dismissed |-> [q \in Runs |-> {}],
                      runs |-> [q \in Runs |-> IF q = r THEN run ELSE None]]
         /\ ledger \in Ledger /\ ledger # None
    <3>1. ledger = [schema |-> 2, adopted |-> {}, dismissed |-> [q \in Runs |-> {}],
                    runs |-> [q \in Runs |-> IF q = r THEN run ELSE None]]
      BY <2>1, <2>8
    <3>2. ledger \in Ledger
      BY <2>12, <3>1 DEF Ledger
    <3> QED BY <3>1, <3>2, LedgerFields
  <2>15. Recorded = {r} /\ ledger.runs[r] = run /\ ledger.schema = 2
         /\ \A q \in Runs \ {r} : ledger.runs[q] = None
    BY <2>2, <2>13, <2>14 DEF Recorded
  <2>16. ASSUME NEW q \in Runs PROVE CountKnown(q)
    <3>1. db.counted = {} /\ (q # r => heard[q].advanced = 0)
      BY <2>1
    <3>2. CASE q = r
      <4>1. q \in Recorded /\ ledger.runs[q] = run /\ ledger.schema = 2 /\ ledger # None
        BY <2>14, <2>15, <3>2
      <4>2. ledger.runs[q] # None /\ ledger.runs[q].session # None
            /\ ledger.runs[q].session.state = "pending"
        BY <2>13, <4>1, NewSessionTyped
      <4> QED BY <3>1, <4>1, <4>2 DEF CountKnown
    <3>3. CASE q # r
      BY <2>15, <3>1, <3>3 DEF CountKnown, Uncounted
    <3> QED BY <3>2, <3>3
  <2>17. OfferCoversRun /\ ReportCoversRun
    <3>1. heard[r].offer = {link}
      BY <2>1, <2>2 DEF link
    <3> QED BY <2>13, <2>15, <3>1 DEF OfferCoversRun, ReportCoversRun
  <2>18. \A q \in Recorded : WellFormed(ledger.runs[q])
    BY <2>13, <2>15
  <2>19. db.sessions = Cardinality({q \in Runs : heard[q].advanced = 1})
    BY <2>6
  <2> QED BY <1>1, <2>6, <2>7, <2>14, <2>16, <2>17, <2>18, <2>19, IndParts, InitAround
<1> QED BY <1>3, <1>4 DEF Init

\* Nothing a command leaves alone loses its type.
LEMMA SurroundingsKept ==
  ASSUME Ind, UNCHANGED <<scope, db, today, lock, verdict>>,
         held' = held \/ \E h \in Hosts : held' = [held EXCEPT ![h] = None],
         faults' = faults,
         earlier' = earlier \/ \E v : Done(v)
  PROVE  Around'
<1>1. Around
  BY IndParts
<1>2. held' \in [Hosts -> [run : Runs, token : Tokens] \union {None}]
  BY <1>1 DEF Around
<1>3. /\ earlier' \in [db : Database, day : 0 .. scope.days]
      /\ earlier'.db.counted \subseteq db.counted
  BY <1>1, DoneTyped DEF Around
<1> QED BY <1>1, <1>2, <1>3 DEF Around

LEMMA IndStep == Ind /\ [Next]_<<scope, vars>> => Ind'
<1> SUFFICES ASSUME Ind, [Next]_<<scope, vars>>
             PROVE  Ind'
  OBVIOUS
<1>1. CASE UNCHANGED <<scope, vars>>
  <2>1. UNCHANGED <<scope, db, ledger, today, earlier, held, lock, verdict, faults, heard>>
    BY <1>1 DEF vars
  <2>2. Around' /\ LockHeld'
    BY <2>1, IndParts DEF Around, LockHeld, RunningUnder, AcceptedIn
  <2> QED BY <2>1, <2>2, BesideKeeps DEF Beside
<1> SUFFICES ASSUME Environment \/ Commands, UNCHANGED scope
             PROVE  Ind'
  BY <1>1 DEF Next
<1>2. ASSUME NEW r \in Runs, NEW t \in Talks, Persist(r, t) PROVE Ind'
  BY <1>2, PersistKeeps
<1>3. ASSUME NEW t \in Talks, Requeue(t) PROVE Ind'
  BY <1>3, RequeueKeeps
<1>4. CASE NextDay
  BY <1>4, NextDayKeeps
<1>5. ASSUME NEW h \in Hosts, Crash(h) PROVE Ind'
  BY <1>5, CrashKeeps
<1>6. CASE Upgrade
  BY <1>6, UpgradeKeeps
<1>7. ASSUME NEW v \in Readings, Adopt(v) PROVE Ind'
  BY <1>7, AdoptKeeps
<1>8. ASSUME NEW v \in Readings, NEW r \in Runs, Dismiss(v, r) PROVE Ind'
  BY <1>8, DismissKeeps
<1>9. ASSUME NEW v \in Readings, NEW r \in Runs, RecordOffer(v, r) PROVE Ind'
  <2>1. Around'
    BY <1>9, SurroundingsKept DEF RecordOffer
  <2> QED BY <1>9, <2>1, OfferRecorded, CommandKeeps
<1>10. ASSUME NEW v \in Readings, NEW r \in Runs, NEW names \in (SUBSET Talks) \ {{}},
              NEW source \in Runs \union {None}, Open(v, r, names, source)
       PROVE  Ind'
  <2>1. Around'
    BY <1>10, SurroundingsKept DEF Open
  <2>2. names \in SUBSET Talks /\ names # {}
    OBVIOUS
  <2>3. Command(r)
    BY <1>10, <2>2, RunOpened
  <2> QED BY <2>1, <2>3, CommandKeeps
<1>11. ASSUME NEW v \in Readings, NEW h \in Hosts, NEW changed \in BOOLEAN,
              RecordSession(h, v, changed)
       PROVE  Ind'
  <2>1. Around'
    BY <1>11, SurroundingsKept DEF RecordSession
  <2> QED BY <1>11, <2>1, SessionRecordedOnce, CommandKeeps
<1>12. ASSUME NEW h \in Hosts, CountCheck(h) PROVE Ind'
  BY <1>12, CountCheckKeeps
<1>13. ASSUME NEW h \in Hosts, CountCommit(h) PROVE Ind'
  BY <1>13, CountCommitKeeps
<1>14. ASSUME NEW h \in Hosts, ReconcileCount(h) PROVE Ind'
  <2>1. Around'
    BY <1>14, SurroundingsKept DEF ReconcileCount
  <2> QED BY <1>14, <2>1, CountReconciled, CommandKeeps
<1>15. ASSUME NEW h \in Hosts, Refused(h) PROVE Ind'
  BY <1>15, RefusedKeeps
<1>16. ASSUME NEW h \in Hosts, NEW r \in Runs, ClaimSession(h, r) PROVE Ind'
  <2> DEFINE token == CHOOSE k \in UnusedTokens : TRUE
             claim == [run |-> r, token |-> token]
  <2>1. /\ UNCHANGED <<db, today, earlier, lock, verdict>> /\ UnusedTokens # {}
        /\ \/ held' = [held EXCEPT ![h] = claim] /\ faults' = faults
           \/ faults < scope.faults /\ faults' = faults + 1 /\ held' = held
    BY <1>16 DEF ClaimSession
  <2>2. claim \in [run : Runs, token : Tokens]
    BY <2>1, TokenUnused
  <2> HIDE DEF claim
  <2>3. Around /\ scope.faults \in Nat
    BY IndParts, ScopesAreBounds DEF Around
  <2>4. Around'
    BY <2>1, <2>2, <2>3 DEF Around
  <2> QED BY <1>16, <2>4, SessionClaimed, CommandKeeps
<1>17. ASSUME NEW r \in Runs, RecordDownstream(r) PROVE Ind'
  <2>1. Around'
    BY <1>17, SurroundingsKept DEF RecordDownstream
  <2> QED BY <1>17, <2>1, DownstreamRecorded, CommandKeeps
<1>18. ASSUME NEW r \in Runs, NEW answer \in Dispositions, RecordDisposition(r, answer)
       PROVE  Ind'
  <2>1. Around'
    BY <1>18, SurroundingsKept DEF RecordDisposition
  <2> QED BY <1>18, <2>1, DispositionRecorded, CommandKeeps
<1>19. ASSUME NEW r \in Runs, Decide(r) PROVE Ind'
  BY <1>19, DecideKeeps
<1>20. ASSUME NEW r \in Runs, ReleaseSession(r) PROVE Ind'
  <2>1. Around'
    BY <1>20, SurroundingsKept DEF ReleaseSession
  <2> QED BY <1>20, <2>1, SessionReleased, CommandKeeps
<1>21. ASSUME NEW r \in Runs, RecordReport(r) PROVE Ind'
  <2>1. Around'
    BY <1>21, SurroundingsKept DEF RecordReport
  <2> QED BY <1>21, <2>1, ReportRecorded, CommandKeeps
<1> QED BY <1>2, <1>3, <1>4, <1>5, <1>6, <1>7, <1>8, <1>9, <1>10, <1>11, <1>12, <1>13,
           <1>14, <1>15, <1>16, <1>17, <1>18, <1>19, <1>20, <1>21 DEF Environment, Commands

LEMMA IndAlways == Spec => []Ind
BY InitInd, IndStep, PTL DEF Spec

-----------------------------------------------------------------------------
(***************************************************************************)
(* How a step moves the records.                                           *)
(***************************************************************************)
\* Every record keeps its state and its claim.
Standing ==
  \A r \in Recorded :
    /\ ledger'.runs[r] # None
    /\ ledger'.runs[r].state = ledger.runs[r].state
    /\ ledger.runs[r].session # None =>
         /\ ledger'.runs[r].session.state = ledger.runs[r].session.state
         /\ ledger'.runs[r].session.token = ledger.runs[r].session.token

\* Record r is rewritten; nobody had claimed it, and nothing is offered.
Unclaimed(r) ==
  /\ r \in Recorded => ledger.runs[r].session = None
  /\ ledger'.runs[r].state # "offered"

SameElsewhere(r) == \A q \in Runs \ {r} : ledger'.runs[q] = ledger.runs[q]

LEMMA StandingIfSame ==
  ASSUME ledger' = ledger \/ ledger = None \/ ledger'.runs = ledger.runs
  PROVE  Standing
BY DEF Standing, Recorded

LEMMA SetRunElsewhere ==
  ASSUME ledger \in Ledger, NEW r \in Runs, NEW run, ledger' = SetRun(ledger, r, run)
  PROVE  ledger'.runs[r] = run /\ SameElsewhere(r)
BY DEF SetRun, Ledger, SameElsewhere

LEMMA StandingIfKept ==
  ASSUME Ind, NEW r \in Recorded, NEW run \in Run, ledger' = SetRun(ledger, r, run),
         run.state = ledger.runs[r].state,
         ledger.runs[r].session # None =>
           /\ run.session.state = ledger.runs[r].session.state
           /\ run.session.token = ledger.runs[r].session.token
  PROVE  Standing
<1>1. ledger'.runs[r] = run /\ SameElsewhere(r) /\ run # None
  BY RecordKnown, SetRunElsewhere, RunFields
<1> QED BY <1>1 DEF Standing, SameElsewhere, Recorded

LEMMA UpgradeStands ==
  ASSUME Ind, Upgrade
  PROVE  Standing
<1>1. /\ ledger # None
      /\ ledger' = [ledger EXCEPT !.schema = 3,
           !.runs = [r \in Runs |->
              IF @[r] # None /\ @[r].session # None /\ @[r].session.state = "pending"
              THEN [@[r] EXCEPT !.session.legacy = "unknown"] ELSE @[r]]]
  BY DEF Upgrade, Install
<1>2. SUFFICES ASSUME NEW r \in Recorded
               PROVE  /\ ledger'.runs[r] # None
                      /\ ledger'.runs[r].state = ledger.runs[r].state
                      /\ ledger.runs[r].session # None =>
                           /\ ledger'.runs[r].session.state = ledger.runs[r].session.state
                           /\ ledger'.runs[r].session.token = ledger.runs[r].session.token
  BY DEF Standing
<1> DEFINE old == ledger.runs[r]
           session == [old.session EXCEPT !.legacy = "unknown"]
           run == [old EXCEPT !.session = session]
<1>3. r \in Runs /\ old \in Run /\ old # None /\ ledger \in Ledger
  BY RecordKnown DEF Recorded
<1>4. ledger'.runs[r] = IF old.session # None /\ old.session.state = "pending"
                        THEN [old EXCEPT !.session.legacy = "unknown"] ELSE old
  BY <1>1, <1>3 DEF Ledger
<1>5. CASE old.session # None /\ old.session.state = "pending"
  <2>1. old.session \in Session
    BY <1>3, <1>5, RunFields
  <2>2. /\ session \in Session /\ session.state = old.session.state
        /\ session.token = old.session.token
    BY <2>1 DEF Session
  <2>3. ledger'.runs[r] = run
    BY <1>3, <1>4, <1>5, <2>1 DEF Run
  <2> HIDE DEF session
  <2>4. run \in Run /\ run.session = session /\ run.state = old.state
    BY <1>3, <2>2 DEF Run
  <2> QED BY <2>2, <2>3, <2>4, RunFields
<1>6. CASE ~(old.session # None /\ old.session.state = "pending")
  BY <1>3, <1>4, <1>6
<1> QED BY <1>5, <1>6

LEMMA ReconcileStands ==
  ASSUME Ind, NEW h \in Hosts, ReconcileCount(h)
  PROVE  Standing
<1> DEFINE r == held[h].run
           old == ledger.runs[r]
           legacy == IF heard[r].advanced = 0 THEN "uncounted" ELSE "counted"
           session == [old.session EXCEPT !.legacy = legacy]
           run == [old EXCEPT !.session = session]
<1>1. /\ Writable /\ AcceptedIn(ledger, r) /\ held[h] # None
      /\ ledger' = [ledger EXCEPT !.runs[r].session.legacy = legacy]
  BY DEF ReconcileCount, RunningUnder, Install
<1>2. r \in Runs
  BY <1>1, IndParts DEF Around
<1> HIDE DEF r
<1>3. r \in Recorded /\ old.session \in Session /\ old \in Run /\ ledger \in Ledger
  BY <1>1, <1>2, RecordAccepted
<1>4. legacy \in {"uncounted", "counted"}
  OBVIOUS
<1> HIDE DEF legacy
<1>5. ledger' = SetRun(ledger, r, run)
  BY <1>1, <1>2, <1>3 DEF Ledger, Run, SetRun
<1>6. session \in Session /\ session.state = old.session.state /\ session.token = old.session.token
  BY <1>3, <1>4 DEF Session
<1> HIDE DEF session
<1>7. run \in Run /\ run.session = session /\ run.state = old.state
  BY <1>3, <1>6 DEF Run
<1> HIDE DEF run
<1> QED BY <1>3, <1>5, <1>6, <1>7, StandingIfKept

LEMMA OpenLeavesUnclaimed ==
  ASSUME Ind, NEW v \in Readings, NEW r \in Runs, NEW names \in SUBSET Talks, names # {},
         NEW source, Open(v, r, names, source)
  PROVE  Unclaimed(r) /\ SameElsewhere(r)
<1> DEFINE old == RunOrNew(ledger, r)
           run == Opened(old, v, r, names, source)
<1>1. /\ ledger # None /\ MayOpen(old, v, r, names, source)
      /\ run # ledger.runs[r] /\ ledger' = SetRun(ledger, r, run)
  BY DEF Open, Writable, Install
<1>2. r \in Recorded => /\ old = ledger.runs[r] /\ old \in Run
                        /\ (old.session # None <=> old.state = "accepted")
  BY <1>1, RecordKnown DEF RunOrNew, Recorded, WellFormed
<1>3. r \notin Recorded => old = new_run
  BY <1>1 DEF RunOrNew, Recorded
<1>4. old \in Run /\ (old.session # None <=> old.state = "accepted")
  BY <1>2, <1>3, NewRunTyped
<1>5. run # old \/ (old = new_run /\ names # {})
  BY <1>1, <1>2, <1>3
<1>6. v \in Reading
  BY ReadingKnown
<1> HIDE DEF old
<1>7. old.session = None /\ Offerable(run)
  BY <1>1, <1>4, <1>5, <1>6, OpenedOfferable
<1>8. ledger'.runs[r] = run /\ SameElsewhere(r)
  BY <1>1, IndParts, SetRunElsewhere
<1> QED BY <1>2, <1>7, <1>8 DEF Unclaimed, Offerable, RecencyOpen

\* A step leaves every record its state and claim, or it is a command on one
\* record: an open or an answer, an offer, or a step of its session.
RecordMoves ==
  \/ Standing
  \/ \E r \in Runs :
       /\ SameElsewhere(r)
       /\ \/ Unclaimed(r)
          \/ \E v \in Readings : RecordOffer(v, r)
          \/ \E h \in Hosts : ClaimSession(h, r)
          \/ ReleaseSession(r)
          \/ \E h \in Hosts, v \in Readings, changed \in BOOLEAN :
               r = held[h].run /\ RecordSession(h, v, changed)

LEMMA StepMovesRecords ==
  ASSUME Ind, Next
  PROVE  RecordMoves
<1> USE DEF RecordMoves
<1>1. ledger # None => ledger \in Ledger
  BY IndParts
<1>2. CASE Environment
  BY <1>2, StandingIfSame DEF Environment, Persist, Requeue, NextDay, Crash
<1>3. CASE Upgrade
  BY <1>3, UpgradeStands
<1>4. ASSUME NEW v \in Readings, Adopt(v) PROVE RecordMoves
  BY <1>4, StandingIfSame DEF Adopt
<1>5. ASSUME NEW v \in Readings, NEW r \in Runs, Dismiss(v, r) PROVE RecordMoves
  <2>1. ledger'.runs = ledger.runs
    BY <1>1, <1>5 DEF Dismiss, Install, Writable, Ledger
  <2> QED BY <2>1, StandingIfSame
<1>6. ASSUME NEW v \in Readings, NEW r \in Runs, RecordOffer(v, r) PROVE RecordMoves
  <2>1. SameElsewhere(r)
    BY <1>1, <1>6, SetRunElsewhere DEF RecordOffer, Install, Writable
  <2> QED BY <1>6, <2>1
<1>7. ASSUME NEW v \in Readings, NEW r \in Runs, NEW names \in (SUBSET Talks) \ {{}},
             NEW source \in Runs \union {None}, Open(v, r, names, source)
      PROVE  RecordMoves
  <2>1. names \in SUBSET Talks /\ names # {}
    OBVIOUS
  <2> QED BY <1>7, <2>1, OpenLeavesUnclaimed
<1>8. ASSUME NEW v \in Readings, NEW h \in Hosts, NEW changed \in BOOLEAN,
             RecordSession(h, v, changed)
      PROVE  RecordMoves
  <2>1. held[h].run \in Runs
    BY <1>8, IndParts DEF RecordSession, Around
  <2>2. SameElsewhere(held[h].run)
    BY <1>1, <1>8, <2>1, SetRunElsewhere DEF RecordSession, Install, Writable
  <2> QED BY <1>8, <2>1, <2>2
<1>9. ASSUME NEW h \in Hosts, CountCheck(h) \/ CountCommit(h) \/ Refused(h) PROVE RecordMoves
  BY <1>9, StandingIfSame DEF CountCheck, CountCommit, Refused
<1>10. ASSUME NEW h \in Hosts, ReconcileCount(h) PROVE RecordMoves
  BY <1>10, ReconcileStands
<1>11. ASSUME NEW h \in Hosts, NEW r \in Runs, ClaimSession(h, r) PROVE RecordMoves
  <2>1. SameElsewhere(r)
    BY <1>1, <1>11 DEF ClaimSession, Install, Writable, Ledger, SameElsewhere
  <2> QED BY <1>11, <2>1
<1>12. ASSUME NEW r \in Runs, RecordDownstream(r) PROVE RecordMoves
  <2> DEFINE old == ledger.runs[r]
             run == [old EXCEPT !.downstream = "completed"]
  <2>1. r \in Recorded /\ ledger' = [ledger EXCEPT !.runs[r].downstream = "completed"]
    BY <1>12 DEF RecordDownstream, Install
  <2>2. old \in Run /\ ledger \in Ledger
    BY <2>1, RecordKnown
  <2>3. run \in Run /\ run.state = old.state /\ run.session = old.session
    BY <2>2 DEF Run
  <2>4. ledger' = SetRun(ledger, r, run)
    BY <2>1, <2>2 DEF SetRun, Ledger
  <2> HIDE DEF run
  <2> QED BY <2>1, <2>3, <2>4, StandingIfKept
<1>13. ASSUME NEW r \in Runs, NEW answer \in Dispositions, RecordDisposition(r, answer)
       PROVE  RecordMoves
  <2> DEFINE old == ledger.runs[r]
             session == IF answer = "accepted" THEN NewSession ELSE None
             run == [old EXCEPT !.state = answer, !.session = session]
  <2>1. /\ r \in Recorded /\ ledger' = SetRun(ledger, r, run)
        /\ old.state \in {"offered", "deferred"}
    BY <1>13 DEF RecordDisposition, Install
  <2>2. old \in Run /\ old.session = None /\ ledger \in Ledger
    BY <2>1, RecordKnown DEF WellFormed
  <2>3. run.state = answer /\ answer # "offered"
    BY <2>2 DEF Run, Dispositions
  <2> HIDE DEF run
  <2>4. SameElsewhere(r) /\ Unclaimed(r)
    BY <2>1, <2>2, <2>3, SetRunElsewhere DEF Unclaimed
  <2> QED BY <2>4
<1>14. ASSUME NEW r \in Runs, Decide(r) PROVE RecordMoves
  BY <1>14, StandingIfSame DEF Decide
<1>15. ASSUME NEW r \in Runs, ReleaseSession(r) PROVE RecordMoves
  <2>1. SameElsewhere(r)
    BY <1>1, <1>15 DEF ReleaseSession, Install, Writable, Ledger, SameElsewhere
  <2> QED BY <1>15, <2>1
<1>16. ASSUME NEW r \in Runs, RecordReport(r) PROVE RecordMoves
  <2> DEFINE old == ledger.runs[r]
             run == [old EXCEPT !.report = "delivered"]
  <2>1. r \in Recorded /\ ledger' = [ledger EXCEPT !.runs[r].report = "delivered"]
    BY <1>16 DEF RecordReport, Install
  <2>2. old \in Run /\ ledger \in Ledger
    BY <2>1, RecordKnown
  <2>3. run \in Run /\ run.state = old.state /\ run.session = old.session
    BY <2>2 DEF Run
  <2>4. ledger' = SetRun(ledger, r, run)
    BY <2>1, <2>2 DEF SetRun, Ledger
  <2> HIDE DEF run
  <2> QED BY <2>1, <2>3, <2>4, StandingIfKept
<1> HIDE DEF RecordMoves
<1> QED BY <1>2, <1>3, <1>4, <1>5, <1>6, <1>7, <1>8, <1>9, <1>10, <1>11, <1>12, <1>13,
           <1>14, <1>15, <1>16 DEF Next, Commands

-----------------------------------------------------------------------------
(***************************************************************************)
(* Theorems.                                                               *)
(***************************************************************************)
\* Whatever the commands of any number of hosts do, in any order, each record
\* they leave is one that _validate_run accepts: no run is bricked.
THEOREM RecordsStayWellFormed == Spec => []TypeOK
<1>1. Ind => TypeOK
  BY DEF Ind
<1> QED BY <1>1, IndAlways, PTL

\* What the speaker was asked, and what the speaker was told, always covers
\* exactly the results the run records (command_open withdraws a stale offer,
\* command_record_session reopens a stale report).
THEOREM RunsStayCovered == Spec => []RunCovered
<1>1. Ind => RunCovered
  BY DEF Ind
<1> QED BY <1>1, IndAlways, PTL

\* A record that owes nothing more has had its end report.
LEMMA NothingOwedIsReported ==
  ASSUME NEW run \in Run, WellFormed(run), next_action(run) = "none"
  PROVE  run.report = "delivered"
<1> SUFFICES ASSUME run.report # "delivered" PROVE FALSE
  OBVIOUS
<1>1. run.report = "owed" /\ run.state \in States
  BY RunFields
<1>2. CASE run.downstream = "owed"
  BY <1>2 DEF next_action
<1>3. CASE run.downstream # "owed" /\ run.state = "owed"
  BY <1>3 DEF next_action
<1>4. CASE run.downstream # "owed" /\ run.state = "offered"
  BY <1>4 DEF next_action
<1>5. CASE /\ run.downstream # "owed" /\ run.state = "accepted"
           /\ run.session.state # "completed"
  BY <1>5 DEF next_action
<1>6. CASE run.downstream # "owed" /\ clarification_resolved(run)
  <2>1. run.state \in {"declined", "deferred", "not_applicable"}
          \/ (run.state = "accepted" /\ run.session.state = "completed")
    BY <1>6 DEF clarification_resolved
  <2> QED BY <1>1, <1>6, <2>1 DEF next_action
<1> QED BY <1>1, <1>2, <1>3, <1>4, <1>5, <1>6
        DEF States, Dispositions, clarification_resolved

\* No persisted result is lost to the speaker: outside history and dismissal, a
\* closed claim is listed as uncovered, or a run that still owes something has
\* it, or a delivered report was written over it or a later result in its stead.
THEOREM EveryResultIsHeard == Spec => []EveryFactHeard
<1>1. Ind => EveryFactHeard
  <2> SUFFICES ASSUME Ind, ledger # None, NEW f \in db.facts, f \notin Excluded(ledger),
                      f \notin uncovered_facts(db, ledger)
               PROVE  \E r \in Recorded :
                        /\ \E g \in Links(ledger.runs[r]) : NewerOrSame(f, g)
                        /\ \/ next_action(ledger.runs[r]) # "none"
                           \/ \E g \in heard[r].report.facts : NewerOrSame(f, g)
    BY DEF EveryFactHeard
  <2>1. f \in Fact
    BY IndParts, DatabaseFields DEF Around
  <2>2. f \in AllLinks(ledger) \/ Superseded(ledger, f)
    BY DEF uncovered_facts
  <2>3. \E g \in AllLinks(ledger) : NewerOrSame(f, g)
    <3>1. CASE f \in AllLinks(ledger)
      <4>1. f.gen >= f.gen
        BY <2>1, FactFields
      <4> QED BY <3>1, <4>1 DEF NewerOrSame
    <3>2. CASE Superseded(ledger, f)
      <4>1. PICK g \in AllLinks(ledger) : g.run = f.run /\ g.talk = f.talk /\ g.gen > f.gen
        BY <3>2 DEF Superseded
      <4>2. g \in Fact
        <5>1. PICK q \in Runs : ledger.runs[q] # None /\ g \in Links(ledger.runs[q])
          BY <4>1 DEF AllLinks
        <5> QED BY <5>1, IndParts, LedgerFields, LinksTyped
      <4>3. f.gen \in Nat /\ g.gen \in Nat
        BY <2>1, <4>2, FactFields
      <4> QED BY <4>1, <4>3 DEF NewerOrSame
    <3> QED BY <2>2, <3>1, <3>2
  <2>4. PICK r \in Recorded : \E g \in Links(ledger.runs[r]) : NewerOrSame(f, g)
    BY <2>3 DEF AllLinks, Recorded
  <2>5. ASSUME next_action(ledger.runs[r]) = "none"
        PROVE  heard[r].report.facts = Links(ledger.runs[r])
    <3>1. ledger.runs[r].report = "delivered"
      BY <2>5, RecordKnown, NothingOwedIsReported
    <3>2. heard[r].report = [facts |-> Links(ledger.runs[r]),
                             changed |-> ChangedProfile(ledger.runs[r])]
      BY <3>1, RecordKnown
    <3> QED BY <3>2
  <2> QED BY <2>4, <2>5
<1> QED BY <1>1, IndAlways, PTL

\* clarification_sessions_completed is the number of sessions counted, each
\* once, whatever the hosts claimed, lost, retried or upgraded; and a session
\* recorded as completed was counted (command_count_session).
THEOREM SessionsAreCountedOnce == Spec => []SessionsCountedOnce
<1>1. Ind => SessionsCountedOnce
  <2> SUFFICES ASSUME Ind PROVE SessionsCountedOnce
    OBVIOUS
  <2>1. \A r \in Runs : heard[r].advanced <= 1
    BY IndParts DEF HeardTyped
  <2>2. ASSUME NEW r \in Recorded, AcceptedIn(ledger, r),
               ledger.runs[r].session.state = "completed"
        PROVE  r \in db.counted /\ heard[r].advanced = 1
    <3>1. /\ CountKnown(r) /\ ledger.runs[r].session # None /\ ledger.schema \in {2, 3}
      BY <2>2, RecordKnown, LedgerFields DEF AcceptedIn, WellFormed
    <3> QED BY <2>2, <3>1 DEF CountKnown
  <2> QED BY <2>1, <2>2, IndParts DEF SessionsCountedOnce
<1> QED BY <1>1, IndAlways, PTL

\* Of all the steps, only the commit of count-session adds a counted run.
LEMMA OnlyCommitCounts ==
  ASSUME Ind, Next, db'.counted # db.counted
  PROVE  \E h \in Hosts : CountCommit(h)
<1>1. db \in Database
  BY IndParts DEF Around
<1>2. ASSUME NEW r \in Runs, NEW t \in Talks, Persist(r, t) PROVE FALSE
  BY <1>1, <1>2 DEF Persist, Database
<1>3. ASSUME NEW t \in Talks, Requeue(t) PROVE FALSE
  BY <1>1, <1>3 DEF Requeue, Database
<1>4. db' # db
  OBVIOUS
<1>5. ~Upgrade /\ ~NextDay /\ \A h \in Hosts : ~Crash(h)
  BY <1>4 DEF Upgrade, NextDay, Crash
<1>6. \A v \in Readings :
        /\ ~Adopt(v) /\ \A r \in Runs : ~Dismiss(v, r) /\ ~RecordOffer(v, r)
        /\ \A h \in Hosts, changed \in BOOLEAN : ~RecordSession(h, v, changed)
  BY <1>4 DEF Adopt, Dismiss, RecordOffer, RecordSession
<1>7. \A v, r, names, source : ~Open(v, r, names, source)
  BY <1>4 DEF Open
<1>8. \A h \in Hosts :
        /\ ~CountCheck(h) /\ ~ReconcileCount(h) /\ ~Refused(h)
        /\ \A r \in Runs : ~ClaimSession(h, r)
  BY <1>4 DEF CountCheck, ReconcileCount, Refused, ClaimSession
<1>9. \A r \in Runs :
        /\ ~RecordDownstream(r) /\ ~Decide(r) /\ ~ReleaseSession(r) /\ ~RecordReport(r)
        /\ \A answer \in Dispositions : ~RecordDisposition(r, answer)
  BY <1>4 DEF RecordDownstream, Decide, ReleaseSession, RecordReport, RecordDisposition
<1> QED BY <1>2, <1>3, <1>5, <1>6, <1>7, <1>8, <1>9 DEF Next, Environment, Commands

\* A run is counted only by a host whose claim its session runs under at that
\* very step, and a running claim ends only by that host or by an operator who
\* named it: nothing another host, a lost response or a late retry does takes it
\* away (command_count_session, command_release_session, command_record_session).
THEOREM ClaimsAreHonoured == Spec => ClaimsHonoured
<1> DEFINE Counted == \A r \in Runs : r \in db'.counted \ db.counted =>
             \E h \in Hosts : lock # None /\ lock.host = h /\ RunningUnder(ledger, r, lock.token)
           Ended == \A r \in Runs : \A k \in Tokens :
             (ledger # None /\ RunningUnder(ledger, r, k) /\ ~RunningUnder(ledger', r, k)) =>
               \/ verdict = k
               \/ /\ ledger'.runs[r].session.state = "completed"
                  /\ \E h \in Hosts : held[h] = [run |-> r, token |-> k]
<1>1. Ind /\ [Next]_<<scope, vars>> => [Counted]_vars
  <2> SUFFICES ASSUME Ind, Next, NEW r \in Runs, r \in db'.counted \ db.counted
               PROVE  \E h \in Hosts :
                        lock # None /\ lock.host = h /\ RunningUnder(ledger, r, lock.token)
    OBVIOUS
  <2>1. db \in Database
    BY IndParts DEF Around
  <2>2. PICK h \in Hosts : CountCommit(h)
    BY OnlyCommitCounts
  <2>3. lock # None /\ lock.host = h /\ db'.counted \subseteq db.counted \union {lock.run}
    BY <2>1, <2>2 DEF CountCommit, Database
  <2>4. r = lock.run
    BY <2>3
  <2> QED BY <2>3, <2>4, IndParts DEF LockHeld
<1>2. Ind /\ [Next]_<<scope, vars>> => [Ended]_vars
  <2> SUFFICES ASSUME Ind, Next, NEW r \in Runs, NEW k \in Tokens, ledger # None,
                      RunningUnder(ledger, r, k), ~RunningUnder(ledger', r, k)
               PROVE  \/ verdict = k
                      \/ /\ ledger'.runs[r].session.state = "completed"
                         /\ \E h \in Hosts : held[h] = [run |-> r, token |-> k]
    OBVIOUS
  <2>1. /\ r \in Recorded /\ ledger.runs[r].state = "accepted" /\ ledger.runs[r].session # None
        /\ ledger.runs[r].session.state = "running" /\ ledger.runs[r].session.token = k
        /\ ledger.runs[r] \in Run /\ ledger \in Ledger /\ ledger.runs[r] # None
    <3>1. r \in Recorded
      BY DEF Recorded, RunningUnder, AcceptedIn
    <3> QED BY <3>1, RecordKnown, RunFields DEF RunningUnder, AcceptedIn, WellFormed
  <2>2. ~Standing
    BY <2>1 DEF Standing, RunningUnder, AcceptedIn
  <2>3. PICK q \in Runs :
          /\ SameElsewhere(q)
          /\ \/ Unclaimed(q)
             \/ \E v \in Readings : RecordOffer(v, q)
             \/ \E h \in Hosts : ClaimSession(h, q)
             \/ ReleaseSession(q)
             \/ \E h \in Hosts, v \in Readings, changed \in BOOLEAN :
                  q = held[h].run /\ RecordSession(h, v, changed)
    BY <2>2, StepMovesRecords DEF RecordMoves
  <2>4. q = r
    BY <2>3 DEF SameElsewhere, RunningUnder, AcceptedIn
  <2>5. ~Unclaimed(r)
    BY <2>1 DEF Unclaimed
  <2>6. ASSUME NEW v \in Readings, RecordOffer(v, r) PROVE FALSE
    BY <2>1, <2>6 DEF RecordOffer
  <2>7. ASSUME NEW h \in Hosts, ClaimSession(h, r) PROVE FALSE
    BY <2>1, <2>7 DEF ClaimSession
  <2>8. ReleaseSession(r) => verdict = k
    BY <2>1 DEF ReleaseSession, RunningUnder
  <2>9. ASSUME NEW h \in Hosts, NEW v \in Readings, NEW changed \in BOOLEAN,
               r = held[h].run, RecordSession(h, v, changed)
        PROVE  /\ ledger'.runs[r].session.state = "completed"
               /\ held[h] = [run |-> r, token |-> k]
    <3>1. held[h] \in [run : Runs, token : Tokens]
      BY <2>9, IndParts DEF RecordSession, Around
    <3>2. held[h].token = k
      BY <2>1, <2>9 DEF RecordSession, RunningUnder
    <3>3. held[h] = [run |-> r, token |-> k]
      BY <2>9, <3>1, <3>2
    <3>4. ledger' = SetRun(ledger, r, SessionRecorded(ledger.runs[r], changed))
      BY <2>9 DEF RecordSession, Install
    <3>5. ledger'.runs[r] = SessionRecorded(ledger.runs[r], changed)
      BY <2>1, <3>4, SetRunElsewhere
    <3>6. ledger.runs[r].session \in Session
      BY <2>1, RunFields
    <3>7. SessionRecorded(ledger.runs[r], changed).session.state = "completed"
      BY <2>1, <3>6 DEF SessionRecorded, Run, Session
    <3> QED BY <3>3, <3>5, <3>7
  <2> QED BY <2>3, <2>4, <2>5, <2>6, <2>7, <2>8, <2>9
<1> QED BY <1>1, <1>2, IndAlways, PTL
        DEF Spec, ClaimsHonoured, CountedUnderClaim, ClaimsEndByName

\* An offer has the strength its talks call for at the reading the command
\* works on, though the run may have been opened long before (record-offer).
THEOREM OffersAreOfToday == Spec => OfferedToday
<1> DEFINE Fresh == \A r \in Recorded :
             ledger.runs[r].state = "owed" /\ ledger'.runs[r].state = "offered" =>
               \E v \in Readings :
                 ledger'.runs[r].mode = offer_mode_for(
                   [t \in DOMAIN ledger.runs[r].talks |->
                      describe_talk(v, t, ledger.runs[r].talks[t].fact)])
<1>1. Ind /\ [Next]_<<scope, vars>> => [Fresh]_vars
  <2> SUFFICES ASSUME Ind, Next, NEW r \in Recorded,
                      ledger.runs[r].state = "owed", ledger'.runs[r].state = "offered"
               PROVE  \E v \in Readings :
                        ledger'.runs[r].mode = offer_mode_for(
                          [t \in DOMAIN ledger.runs[r].talks |->
                             describe_talk(v, t, ledger.runs[r].talks[t].fact)])
    OBVIOUS
  <2>1. r \in Runs /\ ledger.runs[r] \in Run /\ ledger \in Ledger
    BY RecordKnown
  <2>2. ~Standing
    BY DEF Standing
  <2>3. PICK q \in Runs :
          /\ SameElsewhere(q)
          /\ \/ Unclaimed(q)
             \/ \E v \in Readings : RecordOffer(v, q)
             \/ \E h \in Hosts : ClaimSession(h, q)
             \/ ReleaseSession(q)
             \/ \E h \in Hosts, v \in Readings, changed \in BOOLEAN :
                  q = held[h].run /\ RecordSession(h, v, changed)
    BY <2>2, StepMovesRecords DEF RecordMoves
  <2>4. q = r
    BY <2>1, <2>3 DEF SameElsewhere
  <2>5. ~Unclaimed(r) /\ ~AcceptedIn(ledger, r)
    BY DEF Unclaimed, AcceptedIn
  <2>6. PICK v \in Readings : RecordOffer(v, r)
    BY <2>3, <2>4, <2>5 DEF ClaimSession, ReleaseSession, RecordSession, RunningUnder
  <2> DEFINE talks == [t \in DOMAIN ledger.runs[r].talks |->
                         describe_talk(v, t, ledger.runs[r].talks[t].fact)]
             aged == ApplyRecency(ledger.runs[r], talks)
  <2>7. \/ ledger' = SetRun(ledger, r, aged)
        \/ ledger' = SetRun(ledger, r, [aged EXCEPT !.state = "offered"])
    BY <2>6 DEF RecordOffer, Install
  <2>8. ledger'.runs[r] = aged \/ ledger'.runs[r] = [aged EXCEPT !.state = "offered"]
    BY <2>1, <2>7, SetRunElsewhere
  <2>9. aged.mode = offer_mode_for(talks)
    BY <2>1 DEF ApplyRecency, Run
  <2>10. [aged EXCEPT !.state = "offered"].mode = aged.mode
    BY <2>1 DEF ApplyRecency, Run
  <2> QED BY <2>8, <2>9, <2>10
<1> QED BY <1>1, IndAlways, PTL DEF Spec, OfferedToday

=============================================================================

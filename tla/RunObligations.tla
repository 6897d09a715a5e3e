-------------------------- MODULE RunObligations --------------------------
(***************************************************************************)
(* The ledger ingress-obligations.json: what a vault-ingress run owes the  *)
(* speaker after its batches persisted (run-obligations.py).               *)
(*                                                                         *)
(* Two files are involved.  The ledger is written by the commands of this  *)
(* module only; the tracking database is written by persist-results.py,    *)
(* by requeues, and by count-session, which joins a run to the counted     *)
(* ones.  A command reads the database (Context.refresh), then reads the   *)
(* ledger, changes it and installs it over the generation it read.  A      *)
(* ledger write that lost the race changes nothing, so what follows the    *)
(* database read is one step.  The database may have moved on by then: a   *)
(* command works on the current database or on the one before its last     *)
(* change.  That one change overtakes one command is a bound.              *)
(*                                                                         *)
(* count-session is the exception: it holds the ledger's lock from its     *)
(* claim check to the end of its database commit, and is two steps here.   *)
(***************************************************************************)
EXTENDS Naturals, FiniteSets

CONSTANTS
  Runs,           \* run ids
  Talks,          \* talk filenames
  Hosts,          \* machines that conduct runs
  Tokens,         \* claim tokens; secrets.token_hex never repeats one in use
  MaxGen,         \* bound on the times one talk is persisted
  Scopes,         \* bounds, one of which a behaviour stays within: `facts` on
                  \* closed claims, `batches` on whose they are, `days` on the
                  \* calendar, `faults` on lost hosts, lost responses and wrong
                  \* verdicts, and `hosts`, the machines that conduct sessions
  SameWeekMax,    \* SAME_WEEK_MAX_DAYS
  RecentMax,      \* RECENT_MAX_DAYS
  DeliveredOn,    \* the day each talk was given, None when undated
  Legacy,         \* runs whose accepted session a schema-2 ledger recorded
  None

ASSUME BucketsOrdered == SameWeekMax \in Nat /\ RecentMax \in Nat /\ SameWeekMax < RecentMax
ASSUME ScopesAreBounds ==
  Scopes \subseteq [facts : Nat, batches : SUBSET Runs, days : Nat, faults : Nat,
                    hosts : SUBSET Hosts]
ASSUME VaultIsFinite == IsFiniteSet(Runs) /\ Legacy \subseteq Runs /\ MaxGen \in Nat \ {0}
ASSUME DatesKnown == DeliveredOn \in [Talks -> Nat \union {None}]

VARIABLES
  scope,    \* the bounds this behaviour stays within
  db,       \* the tracking database: closed claims, statuses, counted runs
  ledger,   \* the obligations ledger, None until adopted
  today,    \* what --now says when a command starts
  earlier,  \* the database and the day before their last change
  held,     \* the claim a host knows it holds
  lock,     \* the count-session that holds the ledger's lock
  verdict,  \* the claim the operator decided to free, by its token
  faults,
  heard     \* history: what the offer and the report of a run covered

vars == <<db, ledger, today, earlier, held, lock, verdict, faults, heard>>

(***************************************************************************)
(* A persisted fact is one closed claim.  Its batch id and release time    *)
(* are left out: each closed claim of a talk has a generation of its own   *)
(* (QueueState, GenerationsGapFree), which alone decides which is newer.   *)
(***************************************************************************)
Fact == [run : Runs, talk : Talks, gen : 1 .. MaxGen]

Claims(d, t) == {f \in d.facts : f.talk = t}
ClaimsUnder(d, t, r) == {f \in Claims(d, t) : f.run = r}

newest_claim(claims) == CHOOSE f \in claims : \A g \in claims : g.gen <= f.gen

(***************************************************************************)
(* Recency: how long ago a talk was given decides how strong the offer is. *)
(***************************************************************************)
recency_bucket(t, day) ==
  IF DeliveredOn[t] = None \/ DeliveredOn[t] > day THEN "unknown"
  ELSE LET days == day - DeliveredOn[t]
       IN  CASE days <= SameWeekMax -> "same_week"
             [] days > SameWeekMax /\ days <= RecentMax -> "recent"
             [] OTHER -> "older"

ModeOf == [same_week |-> "inline", recent |-> "recommend_full",
           unknown |-> "recommend_full", older |-> "recommend_compressed"]
Modes == {"inline", "recommend_full", "recommend_compressed", "none"}

\* The strongest offer among the analysed talks of a run.
offer_mode_for(talks) ==
  LET modes == {ModeOf[talks[t].bucket] : t \in {u \in DOMAIN talks : talks[u].analyzed}}
  IN  CASE "inline" \in modes -> "inline"
        [] "inline" \notin modes /\ "recommend_full" \in modes -> "recommend_full"
        [] modes = {"recommend_compressed"} -> "recommend_compressed"
        [] modes = {} -> "none"

\* A talk as a run records it: the claim it is linked to, its status and age.
describe_talk(v, t, link) ==
  [fact |-> link, analyzed |-> t \in v.db.analyzed, bucket |-> recency_bucket(t, v.day)]

Entry == [fact : Fact, analyzed : BOOLEAN,
          bucket : {"same_week", "recent", "older", "unknown"}]
TalkTables == UNION {[S -> Entry] : S \in SUBSET Talks}

(***************************************************************************)
(* The record of one run.  completed_at is set exactly when the report is  *)
(* delivered; stamps and free text are left out.                           *)
(***************************************************************************)
Dispositions == {"accepted", "declined", "deferred"}
States == Dispositions \union {"owed", "offered", "not_applicable"}

NewSession == [state |-> "pending", token |-> None, changed |-> FALSE, legacy |-> "none"]
Session ==
  [state : {"pending", "running", "completed"}, token : Tokens \union {None},
   changed : BOOLEAN, legacy : {"none", "unknown", "counted", "uncounted"}]

new_run ==
  [talks |-> [t \in {} |-> None], downstream |-> "owed", state |-> "owed", mode |-> "none",
   session |-> None, report |-> "owed"]

Links(run) == {run.talks[t].fact : t \in DOMAIN run.talks}
Recorded == {r \in Runs : ledger # None /\ ledger.runs[r] # None}

clarification_resolved(run) ==
  \/ run.state \in {"declined", "deferred", "not_applicable"}
  \/ run.state = "accepted" /\ run.session.state = "completed"

next_action(run) ==
  CASE run.downstream = "owed" -> "complete_downstream_steps"
    [] run.downstream # "owed" /\ run.state = "owed" -> "offer_clarification"
    [] run.downstream # "owed" /\ run.state = "offered" -> "await_disposition"
    [] /\ run.downstream # "owed" /\ run.state = "accepted"
       /\ run.session.state # "completed" -> "complete_clarification_session"
    [] /\ run.downstream # "owed" /\ clarification_resolved(run)
       /\ run.report = "owed" -> "deliver_end_report"
    [] OTHER -> "none"

(***************************************************************************)
(* What the ledger leaves uncovered, which `pending` lists.                *)
(***************************************************************************)
Excluded(L) == L.adopted \union UNION {L.dismissed[r] : r \in Runs}
AllLinks(L) == UNION {Links(L.runs[r]) : r \in {q \in Runs : L.runs[q] # None}}

\* mutant: a later claim of any run counts as newer.
Superseded_AnyRun(L, f) == \E g \in AllLinks(L) : g.talk = f.talk /\ g.gen > f.gen

\* A later claim of the same run for the same talk superseded this one.
Superseded(L, f) == \E g \in AllLinks(L) : g.run = f.run /\ g.talk = f.talk /\ g.gen > f.gen

uncovered_facts(d, L) ==
  {f \in d.facts : f \notin Excluded(L) /\ f \notin AllLinks(L) /\ ~Superseded(L, f)}

ListedTalks(d, L, r) == {f.talk : f \in {g \in uncovered_facts(d, L) : g.run = r}}

\* Why `pending` lists run r, or "none" when it does not.
ListedAs(d, L, r) ==
  CASE ListedTalks(d, L, r) = {} -> "none"
    [] ListedTalks(d, L, r) # {} /\ L.runs[r] = None -> "unrecorded_run"
    [] ListedTalks(d, L, r) # {} /\ L.runs[r] # None ->
         IF L.runs[r].report = "delivered" THEN "talks_persisted_after_completion"
         ELSE IF L.runs[r].state \in Dispositions THEN "talks_persisted_after_answer"
         ELSE "missing_talks"

(***************************************************************************)
(* Steps of the commands.  Each returns a ledger; a refusal or a replay is *)
(* no step at all.                                                         *)
(***************************************************************************)
\* mutant: a ledger write does not take the lock.
Writable_Unlocked == ledger # None /\ ledger.schema = 3

\* Every ledger write takes the ledger's lock, and first upgrades older records.
Writable == ledger # None /\ ledger.schema = 3 /\ lock = None

SetRun(L, r, run) == [L EXCEPT !.runs[r] = run]

Install(L) == ledger' = L

\* mutant: the mode of the previous computation is kept.
ApplyRecency_OldMode(run, talks) ==
  [run EXCEPT !.talks = talks,
              !.state = IF offer_mode_for(talks) = "none" THEN "not_applicable" ELSE "owed"]

\* The mode follows from the talks, and so does whether there is anything to offer.
ApplyRecency(run, talks) ==
  LET mode == offer_mode_for(talks)
  IN  [run EXCEPT !.talks = talks, !.mode = mode,
                  !.state = IF mode = "none" THEN "not_applicable" ELSE "owed"]

RecencyOpen(run) == run.state \in {"owed", "not_applicable"}

\* The claim `open` links a talk to: of the run --from-run names when given,
\* else the run's own newest, else the newest of any run.
Link(d, t, r, source) ==
  CASE source # None -> newest_claim(ClaimsUnder(d, t, source))
    [] source = None /\ ClaimsUnder(d, t, r) # {} -> newest_claim(ClaimsUnder(d, t, r))
    [] OTHER -> newest_claim(Claims(d, t))

Linkable(d, t, source) ==
  IF source = None THEN Claims(d, t) # {} ELSE ClaimsUnder(d, t, source) # {}

\* The newest claim of the run a recorded talk is linked to, as this command
\* read the database, is not the one on record.
Relinked(run, d, t) ==
  LET claims == ClaimsUnder(d, t, run.talks[t].fact.run)
  IN  claims # {} /\ newest_claim(claims) # run.talks[t].fact

\* The talks that join run r, each with the claim it joins under.
Joined(run, d, r, names, source) ==
  [t \in {u \in names : u \notin DOMAIN run.talks \/ Relinked(run, d, u)} |->
     IF t \notin DOMAIN run.talks THEN Link(d, t, r, source)
     ELSE newest_claim(ClaimsUnder(d, t, run.talks[t].fact.run))]

MayOpen(run, v, r, names, source) ==
  /\ \A t \in names : Linkable(v.db, t, source)
  /\ DOMAIN Joined(run, v.db, r, names, source) # {} =>
       run.report = "owed" /\ run.state \notin Dispositions

\* mutant: a talk joins under the offer that stands.
Withdrawn_Never(run) == run

\* A standing offer covers less than the run now does: it is withdrawn.
Withdrawn(run) ==
  IF run.state = "offered" THEN [run EXCEPT !.state = "owed"] ELSE run

\* The talks of a run after an open: what joined, and the rest, whose age and
\* status follow the database until the offer is made.
OpenedTalks(run, v, joined) ==
  [t \in DOMAIN run.talks \union DOMAIN joined |->
     IF t \in DOMAIN joined THEN describe_talk(v, t, joined[t])
     ELSE IF RecencyOpen(run) THEN describe_talk(v, t, run.talks[t].fact)
     ELSE run.talks[t]]

\* The record `open` leaves; a completed run, and one whose offer was answered,
\* only replays what it has.
Opened(run, v, r, names, source) ==
  LET joined == Joined(run, v.db, r, names, source)
      ready  == IF DOMAIN joined # {} THEN Withdrawn(run) ELSE run
      talks  == OpenedTalks(ready, v, joined)
      aged   == IF RecencyOpen(ready) THEN ApplyRecency(ready, talks)
                ELSE [ready EXCEPT !.talks = talks]
  IN  IF run.report = "delivered" THEN run
      ELSE IF DOMAIN joined # {} THEN [aged EXCEPT !.downstream = "owed"]
      ELSE aged

RunOrNew(L, r) == IF L.runs[r] = None THEN new_run ELSE L.runs[r]

(***************************************************************************)
(* What a command may have read: it takes its --now and reads the database *)
(* before it reads the ledger.                                             *)
(***************************************************************************)
Now == [db |-> db, day |-> today]
Readings == {Now, earlier}

\* The command that acts on a reading has ended.
Done(v) == earlier' = IF v = Now THEN earlier ELSE Now

(***************************************************************************)
(* The rest of the system: batches persist, talks are requeued, days pass. *)
(***************************************************************************)
Persist(r, t) ==
  /\ r \in scope.batches
  /\ t \notin db.analyzed
  /\ Cardinality(db.facts) < scope.facts
  /\ Cardinality(Claims(db, t)) < MaxGen
  /\ \E analyzed \in BOOLEAN :
       db' = [db EXCEPT
                !.facts = @ \union {[run |-> r, talk |-> t, gen |-> 1 + Cardinality(Claims(db, t))]},
                !.analyzed = IF analyzed THEN @ \union {t} ELSE @]
  /\ earlier' = Now
  /\ UNCHANGED <<ledger, today, held, lock, verdict, faults, heard>>

Requeue(t) ==
  /\ t \in db.analyzed
  /\ db' = [db EXCEPT !.analyzed = @ \ {t}]
  /\ earlier' = Now
  /\ UNCHANGED <<ledger, today, held, lock, verdict, faults, heard>>

NextDay ==
  /\ today < scope.days
  /\ today' = today + 1
  /\ earlier' = Now
  /\ UNCHANGED <<db, ledger, held, lock, verdict, faults, heard>>

(***************************************************************************)
(* Commands.                                                               *)
(***************************************************************************)
\* The read that finds an older record rewrites it.  Schema 2 counted before it
\* recorded, so whether a session it left pending was counted is unknown.
Upgrade ==
  /\ ledger # None /\ ledger.schema = 2 /\ lock = None
  /\ Install([ledger EXCEPT
       !.schema = 3,
       !.runs = [r \in Runs |->
          IF @[r] # None /\ @[r].session # None /\ @[r].session.state = "pending"
          THEN [@[r] EXCEPT !.session.legacy = "unknown"] ELSE @[r]]])
  /\ UNCHANGED <<db, today, earlier, held, lock, verdict, faults, heard>>

\* What was closed before adoption, as the command read it, is history.
Adopt(v) ==
  /\ ledger = None
  /\ Install([schema |-> 3, adopted |-> v.db.facts,
              dismissed |-> [r \in Runs |-> {}], runs |-> [r \in Runs |-> None]])
  /\ Done(v)
  /\ UNCHANGED <<db, today, held, lock, verdict, faults, heard>>

Open(v, r, names, source) ==
  /\ Writable
  /\ LET run == RunOrNew(ledger, r) IN
       /\ MayOpen(run, v, r, names, source)
       /\ Opened(run, v, r, names, source) # ledger.runs[r]
       /\ Install(SetRun(ledger, r, Opened(run, v, r, names, source)))
  /\ Done(v)
  /\ UNCHANGED <<db, today, held, lock, verdict, faults, heard>>

Dismiss(v, r) ==
  /\ Writable
  /\ ledger.runs[r] = None
  /\ LET covering == {f \in uncovered_facts(v.db, ledger) : f.run = r} IN
       /\ covering # {}
       /\ Install([ledger EXCEPT !.dismissed[r] = @ \union covering])
  /\ Done(v)
  /\ UNCHANGED <<db, today, held, lock, verdict, faults, heard>>

RecordDownstream(r) ==
  /\ Writable /\ r \in Recorded
  /\ ledger.runs[r].downstream = "owed"
  /\ Install([ledger EXCEPT !.runs[r].downstream = "completed"])
  /\ UNCHANGED <<db, today, earlier, held, lock, verdict, faults, heard>>

\* mutant: the offer uses the statuses and ages recorded when the run was opened.
RecordOffer_Unrefreshed(v, r) ==
  /\ Writable /\ r \in Recorded
  /\ ledger.runs[r].downstream = "completed"
  /\ ledger.runs[r].state = "owed"
  /\ Install([ledger EXCEPT !.runs[r].state = "offered"])
  /\ heard' = [heard EXCEPT ![r].offer = Links(ledger.runs[r])]
  /\ Done(v)
  /\ UNCHANGED <<db, today, held, lock, verdict, faults>>

\* The offer is made over the talks as the database has them now; when none of
\* them is analysed any more there is nothing to ask.
RecordOffer(v, r) ==
  /\ Writable /\ r \in Recorded
  /\ ledger.runs[r].downstream = "completed"
  /\ ledger.runs[r].state = "owed"
  /\ LET talks == [t \in DOMAIN ledger.runs[r].talks |->
                     describe_talk(v, t, ledger.runs[r].talks[t].fact)]
         aged  == ApplyRecency(ledger.runs[r], talks)
     IN  IF aged.state = "not_applicable"
         THEN Install(SetRun(ledger, r, aged)) /\ UNCHANGED heard
         ELSE /\ Install(SetRun(ledger, r, [aged EXCEPT !.state = "offered"]))
              /\ heard' = [heard EXCEPT ![r].offer = Links(aged)]
  /\ Done(v)
  /\ UNCHANGED <<db, today, held, lock, verdict, faults>>

\* The speaker's answer.  Only a deferral can be answered again.
RecordDisposition(r, answer) ==
  /\ Writable /\ r \in Recorded
  /\ ledger.runs[r].state \in {"offered", "deferred"}
  /\ ledger.runs[r].state # answer
  /\ Install(SetRun(ledger, r, [ledger.runs[r] EXCEPT
       !.state = answer, !.session = IF answer = "accepted" THEN NewSession ELSE None]))
  /\ UNCHANGED <<db, today, earlier, held, lock, verdict, faults, heard>>

(***************************************************************************)
(* The clarification session: one host claims it, counts it, records it.   *)
(***************************************************************************)
AcceptedIn(L, r) == L.runs[r] # None /\ L.runs[r].state = "accepted"
RunningUnder(L, r, token) ==
  /\ AcceptedIn(L, r)
  /\ L.runs[r].session.state = "running"
  /\ L.runs[r].session.token = token

LedgerTokens == {ledger.runs[r].session.token : r \in {q \in Recorded : AcceptedIn(ledger, q)}}
UnusedTokens == Tokens \ (LedgerTokens \union {verdict} \union {held[h].token : h \in {g \in Hosts : held[g] # None}})

\* mutant: a session whose count is in doubt cannot be claimed.
ClaimSession_NotInDoubt(h, r) ==
  /\ h \in scope.hosts
  /\ Writable /\ AcceptedIn(ledger, r)
  /\ held[h] = None
  /\ ledger.runs[r].session.state = "pending"
  /\ ledger.runs[r].session.legacy # "unknown"
  /\ UnusedTokens # {}
  /\ LET token == CHOOSE k \in UnusedTokens : TRUE IN
       /\ Install([ledger EXCEPT !.runs[r].session =
                     [@ EXCEPT !.state = "running", !.token = token]])
       /\ held' = [held EXCEPT ![h] = [run |-> r, token |-> token]]
  /\ UNCHANGED <<db, today, earlier, lock, verdict, faults, heard>>

\* The host learns its token, or the response is lost on its way.
ClaimSession(h, r) ==
  /\ h \in scope.hosts
  /\ Writable /\ AcceptedIn(ledger, r)
  /\ held[h] = None
  /\ ledger.runs[r].session.state = "pending"
  /\ UnusedTokens # {}
  /\ LET token == CHOOSE k \in UnusedTokens : TRUE IN
       /\ Install([ledger EXCEPT !.runs[r].session =
                     [@ EXCEPT !.state = "running", !.token = token]])
       /\ \/ held' = [held EXCEPT ![h] = [run |-> r, token |-> token]] /\ UNCHANGED faults
          \/ faults < scope.faults /\ faults' = faults + 1 /\ UNCHANGED held
  /\ UNCHANGED <<db, today, earlier, lock, verdict, heard>>

\* The operator reads a running claim off `status` and decides that its host
\* will not finish; a live host is given up by mistake only so often.
Decide(r) ==
  /\ ledger # None /\ AcceptedIn(ledger, r)
  /\ ledger.runs[r].session.state = "running"
  /\ verdict # ledger.runs[r].session.token
  /\ verdict' = ledger.runs[r].session.token
  /\ IF \E h \in Hosts : held[h] # None /\ held[h].token = verdict'
     THEN faults < scope.faults /\ faults' = faults + 1
     ELSE UNCHANGED faults
  /\ UNCHANGED <<db, ledger, today, earlier, held, lock, heard>>

\* mutant: a release frees whatever claim it finds.
ReleaseSession_AnyClaim(r) ==
  /\ Writable /\ AcceptedIn(ledger, r)
  /\ verdict # None /\ ledger.runs[r].session.state = "running"
  /\ Install([ledger EXCEPT !.runs[r].session =
                [@ EXCEPT !.state = "pending", !.token = None]])
  /\ UNCHANGED <<db, today, earlier, held, lock, verdict, faults, heard>>

\* release-session, which the operator may repeat long after it took effect.
ReleaseSession(r) ==
  /\ Writable /\ RunningUnder(ledger, r, verdict)
  /\ Install([ledger EXCEPT !.runs[r].session =
                [@ EXCEPT !.state = "pending", !.token = None]])
  /\ UNCHANGED <<db, today, earlier, held, lock, verdict, faults, heard>>

\* mutant: a session that may be counted already is counted.
CountCheck_InDoubt(h) ==
  /\ Writable /\ held[h] # None
  /\ LET r == held[h].run IN
       /\ RunningUnder(ledger, r, held[h].token)
       /\ r \notin db.counted
       /\ lock' = [host |-> h, run |-> r, token |-> held[h].token, base |-> db,
                   advances |-> ledger.runs[r].session.legacy # "counted"]
  /\ UNCHANGED <<db, ledger, today, earlier, held, verdict, faults, heard>>

\* count-session takes the ledger's lock, checks the claim and reads the database.
CountCheck(h) ==
  /\ Writable /\ held[h] # None
  /\ LET r == held[h].run IN
       /\ RunningUnder(ledger, r, held[h].token)
       /\ ledger.runs[r].session.legacy # "unknown"
       /\ r \notin db.counted
       /\ lock' = [host |-> h, run |-> r, token |-> held[h].token, base |-> db,
                   advances |-> ledger.runs[r].session.legacy # "counted"]
  /\ UNCHANGED <<db, ledger, today, earlier, held, verdict, faults, heard>>

\* It commits over the database it read, or fails, and lets the lock go.
CountCommit(h) ==
  /\ lock # None /\ lock.host = h
  /\ IF db = lock.base
     THEN /\ db' = [db EXCEPT !.counted = @ \union {lock.run},
                              !.sessions = IF lock.advances THEN @ + 1 ELSE @]
          /\ heard' = [heard EXCEPT ![lock.run].advanced = IF lock.advances THEN @ + 1 ELSE @]
          /\ earlier' = Now
     ELSE UNCHANGED <<db, heard, earlier>>
  /\ lock' = None
  /\ UNCHANGED <<ledger, today, held, verdict, faults>>

\* The operator says whether schema 2 counted the session, and says the truth.
ReconcileCount(h) ==
  /\ Writable /\ held[h] # None
  /\ LET r == held[h].run IN
       /\ RunningUnder(ledger, r, held[h].token)
       /\ ledger.runs[r].session.legacy = "unknown"
       /\ Install([ledger EXCEPT !.runs[r].session.legacy =
                     IF heard[r].advanced = 0 THEN "uncounted" ELSE "counted"])
  /\ UNCHANGED <<db, today, earlier, held, lock, verdict, faults, heard>>

\* mutant: the delivered report stands whatever the session changed.
SessionRecorded_Unreopened(run, changed) ==
  [run EXCEPT !.session = [@ EXCEPT !.state = "completed", !.changed = changed]]

\* A session that changed the profile's inputs after the report went out
\* reopens the report.
SessionRecorded(run, changed) ==
  [run EXCEPT !.session = [@ EXCEPT !.state = "completed", !.changed = changed],
              !.report  = IF changed THEN "owed" ELSE @]

RecordSession(h, v, changed) ==
  /\ Writable /\ held[h] # None
  /\ LET r == held[h].run IN
       /\ RunningUnder(ledger, r, held[h].token)
       /\ r \in v.db.counted
       /\ Install(SetRun(ledger, r, SessionRecorded(ledger.runs[r], changed)))
  /\ held' = [held EXCEPT ![h] = None]
  /\ Done(v)
  /\ UNCHANGED <<db, today, lock, verdict, faults, heard>>

\* The host's command is refused: its session runs under another claim, or none.
Refused(h) ==
  /\ held[h] # None /\ ~RunningUnder(ledger, held[h].run, held[h].token)
  /\ held' = [held EXCEPT ![h] = None]
  /\ UNCHANGED <<db, ledger, today, earlier, lock, verdict, faults, heard>>

(***************************************************************************)
(* The end report.  Its copy is content-addressed and installed before the *)
(* ledger binds it, so a retry finds it; the bytes are left out.           *)
(***************************************************************************)
ChangedProfile(run) ==
  run.state = "accepted" /\ run.session.state = "completed" /\ run.session.changed

RecordReport(r) ==
  /\ Writable /\ r \in Recorded
  /\ ledger.runs[r].downstream = "completed"
  /\ clarification_resolved(ledger.runs[r])
  /\ ledger.runs[r].report = "owed"
  /\ Install([ledger EXCEPT !.runs[r].report = "delivered"])
  /\ heard' = [heard EXCEPT ![r].report =
       [facts |-> Links(ledger.runs[r]), changed |-> ChangedProfile(ledger.runs[r])]]
  /\ UNCHANGED <<db, today, earlier, held, lock, verdict, faults>>

\* A host dies between any two steps: what it read and the claim it knew are gone.
Crash(h) ==
  /\ faults < scope.faults
  /\ held[h] # None \/ (lock # None /\ lock.host = h)
  /\ faults' = faults + 1
  /\ held' = [held EXCEPT ![h] = None]
  /\ lock' = IF lock # None /\ lock.host = h THEN None ELSE lock
  /\ UNCHANGED <<db, ledger, today, earlier, verdict, heard>>

(***************************************************************************)
(* A vault starts without a ledger, or with one that schema 2 wrote: its   *)
(* run's session was accepted and may have been counted.                   *)
(***************************************************************************)
Silent == [offer |-> {}, report |-> None, advanced |-> 0]
EmptyDatabase == [facts |-> {}, analyzed |-> {}, counted |-> {}, sessions |-> 0]

NoLedger ==
  /\ ledger = None
  /\ db = EmptyDatabase
  /\ heard = [r \in Runs |-> Silent]

OldRun(r, t) ==
  LET fact == [run |-> r, talk |-> t, gen |-> 1]
      talks == [u \in {t} |-> describe_talk([db |-> [EmptyDatabase EXCEPT !.analyzed = {t}], day |-> 0], u, fact)]
  IN  [talks |-> talks, downstream |-> "completed", state |-> "accepted",
       mode |-> offer_mode_for(talks), session |-> NewSession, report |-> "owed"]

OldLedger ==
  \E r \in Legacy, t \in Talks, counted \in {0, 1} :
    LET fact == [run |-> r, talk |-> t, gen |-> 1] IN
    /\ ledger = [schema |-> 2, adopted |-> {}, dismissed |-> [q \in Runs |-> {}],
                 runs |-> [q \in Runs |-> IF q = r THEN OldRun(r, t) ELSE None]]
    /\ db = [facts |-> {fact}, analyzed |-> {t}, counted |-> {}, sessions |-> counted]
    /\ heard = [q \in Runs |-> IF q = r
                  THEN [offer |-> {fact}, report |-> None, advanced |-> counted] ELSE Silent]

Init ==
  /\ scope \in Scopes
  /\ NoLedger \/ OldLedger
  /\ today = 0
  /\ earlier = Now
  /\ held = [h \in Hosts |-> None]
  /\ lock = None
  /\ verdict = None
  /\ faults = 0

Environment ==
  \/ \E r \in Runs, t \in Talks : Persist(r, t)
  \/ \E t \in Talks : Requeue(t)
  \/ NextDay
  \/ \E h \in Hosts : Crash(h)

Commands ==
  \/ Upgrade
  \/ \E v \in Readings :
       \/ Adopt(v)
       \/ \E r \in Runs :
            \/ Dismiss(v, r)
            \/ RecordOffer(v, r)
            \/ \E names \in (SUBSET Talks) \ {{}}, source \in Runs \union {None} :
                 Open(v, r, names, source)
       \/ \E h \in Hosts, changed \in BOOLEAN : RecordSession(h, v, changed)
  \/ \E h \in Hosts :
       \/ CountCheck(h)
       \/ CountCommit(h)
       \/ ReconcileCount(h)
       \/ Refused(h)
       \/ \E r \in Runs : ClaimSession(h, r)
  \/ \E r \in Runs :
       \/ RecordDownstream(r)
       \/ \E answer \in Dispositions : RecordDisposition(r, answer)
       \/ Decide(r)
       \/ ReleaseSession(r)
       \/ RecordReport(r)

Next == (Environment \/ Commands) /\ UNCHANGED scope
Spec == Init /\ [][Next]_<<scope, vars>>

\* What a host does next with the claim it knows it holds.
HostStep(h) ==
  \/ CountCheck(h) \/ CountCommit(h) \/ ReconcileCount(h) \/ Refused(h)
  \/ \E changed \in BOOLEAN : RecordSession(h, Now, changed)

\* What the operator does next for a run, apart from its session.
RunStep(r) ==
  \/ RecordDownstream(r) \/ RecordOffer(Now, r) \/ RecordReport(r)
  \/ \E answer \in Dispositions : RecordDisposition(r, answer)

\* A conscientious operator: every run is taken to its next step again and
\* again, the speaker answers, and a session nobody conducts is freed.
Diligence ==
  /\ WF_vars(Upgrade)
  /\ \A h \in Hosts : WF_vars(HostStep(h))
  /\ \A r \in Runs :
       /\ WF_vars(RunStep(r))
       /\ WF_vars(\E h \in Hosts : ClaimSession(h, r))
       /\ WF_vars(Decide(r))
       /\ WF_vars(ReleaseSession(r))

FairSpec == Spec /\ Diligence

(***************************************************************************)
(* Properties.                                                             *)
(***************************************************************************)
Database == [facts : SUBSET Fact, analyzed : SUBSET Talks,
             counted : SUBSET Runs, sessions : 0 .. Cardinality(Runs)]
Run == [talks : TalkTables, downstream : {"owed", "completed"}, state : States,
        mode : Modes, session : Session \union {None}, report : {"owed", "delivered"}]
Ledger == [schema : {2, 3}, adopted : SUBSET Fact,
           dismissed : [Runs -> SUBSET Fact], runs : [Runs -> Run \union {None}]]

ASSUME NoneIsNothing ==
  None \notin Tokens /\ None \notin Session /\ None \notin Run /\ None \notin Ledger

\* What _validate_run demands of a record before any command uses it.
WellFormed(run) ==
  /\ run.mode = offer_mode_for(run.talks)
  /\ run.state = "not_applicable" <=> run.mode = "none"
  /\ run.session # None <=> run.state = "accepted"
  /\ run.session # None =>
       /\ run.session.state = "running" => run.session.token # None
       /\ run.session.state = "pending" => run.session.token = None
  /\ run.report = "delivered" =>
       /\ run.downstream = "completed"
       /\ run.state \notin {"owed", "offered"}

\* Types, and the shape every read of the ledger insists on: no sequence of
\* commands leaves a record that the next command refuses as ledger_invalid.
TypeOK ==
  /\ scope \in Scopes
  /\ db \in Database
  /\ today \in 0 .. scope.days
  /\ earlier \in [db : Database, day : 0 .. scope.days]
  /\ held \in [Hosts -> [run : Runs, token : Tokens] \union {None}]
  /\ lock \in [host : Hosts, run : Runs, token : Tokens, base : Database,
               advances : BOOLEAN] \union {None}
  /\ verdict \in Tokens \union {None}
  /\ faults \in 0 .. scope.faults
  /\ ledger # None => ledger \in Ledger
  /\ \A r \in Recorded : WellFormed(ledger.runs[r])
  /\ heard \in [Runs -> [offer : SUBSET Fact, advanced : 0 .. 1,
                         report : [facts : SUBSET Fact, changed : BOOLEAN] \union {None}]]

\* The speaker is told of every persisted result: a closed claim is history or
\* was dismissed, or `pending` lists it, or a run that still owes something
\* records it, or a delivered report was written over it or over a later result
\* of the same run for the same talk (command_open, uncovered_facts).
NewerOrSame(f, g) == g.run = f.run /\ g.talk = f.talk /\ g.gen >= f.gen

EveryFactHeard ==
  ledger # None => \A f \in db.facts \ Excluded(ledger) :
    \/ f \in uncovered_facts(db, ledger)
    \/ \E r \in Recorded :
         /\ \E g \in Links(ledger.runs[r]) : NewerOrSame(f, g)
         /\ \/ next_action(ledger.runs[r]) # "none"
            \/ \E g \in heard[r].report.facts : NewerOrSame(f, g)

\* The offer that stands, or that the speaker answered, was made over exactly
\* the results the run records: a result that joins withdraws it, and none
\* joins once it was answered (command_open).
OfferCoversRun ==
  \A r \in Recorded :
    ledger.runs[r].state \in Dispositions \union {"offered"} =>
      heard[r].offer = Links(ledger.runs[r])

\* A delivered report was written over exactly the results the run records, and
\* after any session that changed the profile (command_record_session reopens it).
ReportCoversRun ==
  \A r \in Recorded :
    ledger.runs[r].report = "delivered" =>
      heard[r].report = [facts |-> Links(ledger.runs[r]),
                         changed |-> ChangedProfile(ledger.runs[r])]

\* What the speaker is asked and what the speaker is told cover the same run.
RunCovered == OfferCoversRun /\ ReportCoversRun

\* clarification_sessions_completed counts each session once, whoever claimed,
\* lost, retried or upgraded it, and a recorded session is counted.
SessionsCountedOnce ==
  /\ \A r \in Runs : heard[r].advanced <= 1
  /\ db.sessions = Cardinality({r \in Runs : heard[r].advanced = 1})
  /\ \A r \in Recorded :
       AcceptedIn(ledger, r) /\ ledger.runs[r].session.state = "completed" =>
         r \in db.counted /\ heard[r].advanced = 1

\* A session is counted while it runs under the claim that counts it, whatever
\* was released, claimed and recorded since the check (command_count_session).
CountedUnderClaim ==
  [][\A r \in Runs : r \in db'.counted \ db.counted =>
       \E h \in Hosts : lock # None /\ lock.host = h /\ RunningUnder(ledger, r, lock.token)]_vars

\* A claim ends by the host that holds it, or by an operator who named that very
\* claim: a late retry of a release frees no claim taken since.
ClaimsEndByName ==
  [][\A r \in Runs : \A k \in Tokens :
       (ledger # None /\ RunningUnder(ledger, r, k) /\ ~RunningUnder(ledger', r, k)) =>
         \/ verdict = k
         \/ /\ ledger'.runs[r].session.state = "completed"
            /\ \E h \in Hosts : held[h] = [run |-> r, token |-> k]]_vars

\* What a host does under its claim, it does while the claim is its own.
ClaimsHonoured == CountedUnderClaim /\ ClaimsEndByName

\* An offer carries the strength its talks call for on the day it is made and by
\* their present status, however long ago the run was opened (record-offer).
OfferedToday ==
  [][\A r \in Recorded :
       ledger.runs[r].state = "owed" /\ ledger'.runs[r].state = "offered" =>
         \E v \in Readings :
           ledger'.runs[r].mode = offer_mode_for(
             [t \in DOMAIN ledger.runs[r].talks |->
                describe_talk(v, t, ledger.runs[r].talks[t].fact)])]_vars

\* A run `pending` lists as missing_talks is covered by opening it with exactly
\* the talks listed, which is what the listing tells the reader to do.
ListingsCanBeOpened ==
  (ledger # None /\ ledger.schema = 3) => \A r \in Runs :
    ListedAs(db, ledger, r) = "missing_talks" =>
      LET after == SetRun(ledger, r, Opened(ledger.runs[r], Now, r, ListedTalks(db, ledger, r), None))
      IN  ListedAs(db, after, r) = "none"

\* A run that was opened comes to owe nothing, whatever hosts were lost on the
\* way; only a session that no host conducts stays owed.
RunsComplete ==
  \A r \in Runs : []<>(r \in Recorded =>
    next_action(ledger.runs[r]) \in
      {"none"} \union IF scope.hosts = {} THEN {"complete_clarification_session"} ELSE {})

=============================================================================

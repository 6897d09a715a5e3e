--------------------------- MODULE QrPublication ---------------------------
(***************************************************************************)
(* Publishing the QR code of one talk (generate-qr.py).  A run resolves a  *)
(* short link at a provider, writes PNGs, changes a deck and then commits  *)
(* one qr_codes record.  None of this can be rolled back, and every call   *)
(* can fail, before or after it took effect.                               *)
(*                                                                         *)
(* Runs for one talk hold a lock across all of it.  Writers of the         *)
(* tracking database that are not QR runs do not take that lock, and an    *)
(* agent may make or point a link itself and hand it over (--short-url).   *)
(*                                                                         *)
(* Modelled are real runs on a vault that exists; a dry run changes        *)
(* nothing.  The back-half of a link is the talk's slug or it is not, and  *)
(* a provider gives the slug to one link only.                             *)
(***************************************************************************)
EXTENDS Naturals, Sequences

CONSTANTS
  Publishers,  \* runs of generate-qr.py
  Targets,     \* shownotes URLs
  Services,    \* of {"bitly", "rebrandly"}: what the profile may configure
  AgentLinks,  \* whether agents make or point links themselves (--short-url)
  MaxLinks,    \* bound: links that exist at the providers
  MaxEdits,    \* bound: commits of other writers to the database
  None

Actions == {"created", "unheard", "retargeted", "preresolved"}
Outcomes == {"refused", "unfinalized", "aborted", "done"}

Records ==
  [service : Services \union {"none"}, slugged : BOOLEAN, link : 0 .. MaxLinks, target : Targets]

Assumptions ==
  /\ Services \subseteq {"bitly", "rebrandly"}
  /\ AgentLinks \in BOOLEAN /\ MaxLinks \in Nat \ {0} /\ MaxEdits \in Nat
  /\ Targets # {}
  /\ None \notin Publishers \union Actions \union Outcomes \union Records

VARIABLES
  world,   \* the providers' links, the talk's record, the database, the slug's lock
  pubs     \* what each run knows and has done

qr_vars == <<world, pubs>>

Links == 1 .. Len(world.links)

Taken(service) == \E l \in Links : world.links[l].service = service /\ world.links[l].slugged

NoReceipt == [link |-> 0, action |-> None, prior |-> None, pngs |-> FALSE, deck |-> FALSE]

Idle == [pc |-> "idle", target |-> None, service |-> None, prior |-> None, meta |-> None,
         receipt |-> NoReceipt, effects |-> NoReceipt, fresh |-> 0, outcome |-> None]

Upd(p, run) == pubs' = [pubs EXCEPT ![p] = run]
Goto(p, pc) == [pubs[p] EXCEPT !.pc = pc]
At(p, pc) == pubs[p].pc = pc

\* A run ends, with a report or without one, and its lock with it.  Of a run that
\* gave no account, only what it did to the link is remembered.
Remembered(p, outcome) ==
  IF outcome \in {"refused", "unfinalized"} THEN pubs[p].effects
  ELSE [NoReceipt EXCEPT !.link = pubs[p].effects.link, !.action = pubs[p].effects.action]
Ended(p, outcome) ==
  [Idle EXCEPT !.pc = "ended", !.outcome = outcome, !.effects = Remembered(p, outcome),
               !.receipt = IF outcome = "unfinalized" THEN pubs[p].receipt ELSE NoReceipt]
Unlocked(w, p) == IF w.lock = p THEN [w EXCEPT !.lock = None] ELSE w
End(p, outcome) == Upd(p, Ended(p, outcome)) /\ world' = Unlocked(world, p)

Record(service, slugged, link, target) ==
  [service |-> service, slugged |-> slugged, link |-> link, target |-> target]

----------------------------------------------------------------------------

\* Arguments and profile are read, and the database with them, before the lock.
Start(p) ==
  /\ At(p, "idle")
  /\ \E target \in Targets, service \in Services \union {"none"} :
       Upd(p, [Goto(p, "lock") EXCEPT !.target = target, !.service = service,
                                      !.prior = world.record])
  /\ UNCHANGED world

\* An agent made a link with the slug as its back-half, or pointed the one that
\* exists to the target, and hands it over.
StartPreresolved(p) ==
  /\ AgentLinks /\ At(p, "idle")
  /\ \E target \in Targets, service \in Services :
       LET link == IF Taken(service)
                     THEN CHOOSE l \in Links : world.links[l].service = service /\ world.links[l].slugged
                     ELSE Len(world.links) + 1
       IN /\ link <= MaxLinks
          /\ world' = [world EXCEPT !.links =
               IF link \in Links THEN [@ EXCEPT ![link].target = target]
               ELSE Append(@, [service |-> service, slugged |-> TRUE, target |-> target])]
          /\ Upd(p, [Goto(p, "lock") EXCEPT !.target = target, !.service = "preresolved",
                       !.prior = world.record, !.meta = Record(service, TRUE, link, target),
                       !.effects.link = link, !.effects.action = "preresolved"])

Lock(p) ==
  /\ At(p, "lock") /\ world.lock = None
  /\ world' = [world EXCEPT !.lock = p]
  /\ Upd(p, Goto(p, "reload"))

\* mutant: the run goes on with the database it read before it had the lock.
Reload_Stale(p) ==
  /\ At(p, "reload")
  /\ Upd(p, Goto(p, "resolve"))
  /\ UNCHANGED world

\* What was read before the lock is stale.  The record found now is the one that
\* the commit will compare with.
Reload(p) ==
  /\ At(p, "reload")
  /\ \/ Upd(p, [Goto(p, "resolve") EXCEPT !.prior = world.record]) /\ UNCHANGED world
     \/ End(p, "refused")

\* The tracked link, unless its back-half is not the slug or another shortener
\* than the configured one made it.
Existing(p) ==
  LET prior == pubs[p].prior IN
  IF \/ prior = None
     \/ prior # None /\ prior.link # 0 /\ ~prior.slugged
     \/ prior # None /\ prior.service # pubs[p].service
  THEN None ELSE prior

\* mutant: a tracked link is taken for the right one wherever it leads.
Cached_Any(p) == Existing(p) # None

Cached(p) == IF Existing(p) = None THEN FALSE ELSE Existing(p).target = pubs[p].target

Preresolved(p) ==
  /\ At(p, "resolve") /\ pubs[p].service = "preresolved"
  /\ Upd(p, [Goto(p, "png") EXCEPT !.receipt.link = pubs[p].meta.link,
                                   !.receipt.action = "preresolved"])
  /\ UNCHANGED world

\* The record says that its link leads where it should: nobody is asked.
ReuseCached(p) ==
  /\ At(p, "resolve") /\ pubs[p].service # "preresolved"
  /\ Cached(p)
  /\ Upd(p, [Goto(p, "png") EXCEPT !.meta = Existing(p)])
  /\ UNCHANGED world

NoShortener(p) ==
  /\ At(p, "resolve") /\ pubs[p].service = "none" /\ ~Cached(p)
  /\ Upd(p, [Goto(p, "png") EXCEPT !.meta = Record("none", FALSE, 0, pubs[p].target)])
  /\ UNCHANGED world

\* A key or the decision on a domain is missing: nothing was done yet.
Unconfigured(p) == At(p, "resolve") /\ pubs[p].service # "preresolved" /\ End(p, "refused")

Retargeted(p) == [Existing(p) EXCEPT !.target = pubs[p].target]

\* The link is pointed elsewhere, so what is printed stays valid.  The call may
\* fail, and may have taken effect all the same.
Retarget(p) ==
  /\ At(p, "resolve") /\ pubs[p].service \in Services
  /\ Existing(p) # None /\ ~Cached(p)
  /\ LET link == Existing(p).link
         pointed == [world EXCEPT !.links[link].target = pubs[p].target]
         acted(run) == [run EXCEPT !.effects.link = link, !.effects.action = "retargeted",
                                   !.effects.prior = Existing(p).target]
     IN \/ /\ world' = pointed
           /\ Upd(p, [acted(Goto(p, "png")) EXCEPT
                        !.meta = Retargeted(p), !.receipt.link = link,
                        !.receipt.action = "retargeted", !.receipt.prior = Existing(p).target])
        \/ world' = Unlocked(pointed, p) /\ Upd(p, acted(Ended(p, "refused")))
        \/ End(p, "refused")

MayCreate(p) ==
  /\ At(p, "resolve") /\ pubs[p].service \in Services
  /\ Existing(p) = None /\ Len(world.links) < MaxLinks

NewLink(p, slugged) ==
  Append(world.links, [service |-> pubs[p].service, slugged |-> slugged, target |-> pubs[p].target])

Created(p, run) ==
  [run EXCEPT !.meta = Record(pubs[p].service, TRUE, Len(world.links) + 1, pubs[p].target),
              !.effects.link = Len(world.links) + 1, !.effects.action = "created"]

\* The provider made the link and its answer was lost.
Unheard(run) == [run EXCEPT !.effects.link = Len(world.links) + 1, !.effects.action = "unheard"]

Told(run) == [run EXCEPT !.receipt.link = run.effects.link, !.receipt.action = "created"]

\* rebrand.ly makes the link and its slashtag in one call, if the tag is free.
CreateRebrandly(p) ==
  /\ MayCreate(p) /\ pubs[p].service = "rebrandly"
  /\ \/ /\ ~Taken("rebrandly")
        /\ \/ /\ world' = [world EXCEPT !.links = NewLink(p, TRUE)]
              /\ Upd(p, Told(Created(p, Goto(p, "png"))))
           \/ /\ world' = Unlocked([world EXCEPT !.links = NewLink(p, TRUE)], p)
              /\ Upd(p, Unheard(Ended(p, "refused")))
     \/ End(p, "refused")

\* bit.ly makes a link first and gives it its back-half in a second call.
CreateBitly(p) ==
  /\ MayCreate(p) /\ pubs[p].service = "bitly"
  /\ \/ /\ world' = [world EXCEPT !.links = NewLink(p, FALSE)]
        /\ Upd(p, Created(p, Goto(p, "back_half")))
     \/ /\ world' = Unlocked([world EXCEPT !.links = NewLink(p, FALSE)], p)
        /\ Upd(p, Unheard(Ended(p, "refused")))
     \/ End(p, "refused")

\* mutant: a back-half that failed is reported as if no link had been made.
BackHalfFails_Silent(p) == Ended(p, "refused")

\* The error carries the link that exists by now.
BackHalfFails(p) == Told(Ended(p, "unfinalized"))

BackHalf(p) ==
  /\ At(p, "back_half")
  /\ LET given == [world EXCEPT !.links[pubs[p].meta.link].slugged = TRUE] IN
       \/ ~Taken("bitly") /\ world' = given /\ Upd(p, Told(Goto(p, "png")))
       \/ ~Taken("bitly") /\ world' = Unlocked(given, p) /\ Upd(p, BackHalfFails(p))
       \/ world' = Unlocked(world, p) /\ Upd(p, BackHalfFails(p))

\* The receipt names the PNGs once all of them are written; an error before that,
\* or while PowerPoint inserts them, ends the run without a receipt.
WritePngs(p) ==
  /\ At(p, "png")
  /\ \/ /\ \E next \in {"deck", "commit"} :
             Upd(p, [Goto(p, next) EXCEPT !.receipt.pngs = TRUE, !.effects.pngs = TRUE])
        /\ UNCHANGED world
     \/ End(p, "aborted")

InsertIntoDeck(p) ==
  /\ At(p, "deck")
  /\ \/ /\ Upd(p, [Goto(p, "commit") EXCEPT !.receipt.deck = TRUE, !.effects.deck = TRUE])
        /\ UNCHANGED world
     \/ End(p, "aborted")

\* mutant: the upsert goes over whatever record it finds.
CommitRead_Blind(p) ==
  /\ At(p, "commit")
  /\ Upd(p, [Goto(p, "write") EXCEPT !.fresh = world.generation])
  /\ UNCHANGED world

\* The upsert is rebased onto the current database, but not over a record of
\* this talk that somebody else has changed.
CommitRead(p) ==
  /\ At(p, "commit")
  /\ \/ /\ world.record = pubs[p].prior
        /\ Upd(p, [Goto(p, "write") EXCEPT !.fresh = world.generation])
        /\ UNCHANGED world
     \/ End(p, "unfinalized")

\* The transaction refuses a database that moved since it was read.
CommitWrite(p) ==
  /\ At(p, "write")
  /\ \/ /\ world.generation = pubs[p].fresh
        /\ world' = [world EXCEPT !.record = [pubs[p].meta EXCEPT !.target = pubs[p].target]]
        /\ Upd(p, Goto(p, "committed"))
     \/ End(p, "unfinalized")

Finish(p) == At(p, "committed") /\ End(p, "done")

\* The process is killed, which gives no account either; effects stay, the lock does not.
Killed(p) == ~At(p, "idle") /\ ~At(p, "ended") /\ End(p, "aborted")

\* Another writer commits: something else, or a decision about this record.
OtherCommit ==
  /\ world.generation < MaxEdits
  /\ \E record \in {world.record, None} \union
          {[world.record EXCEPT !.target = t] : t \in IF world.record = None THEN {} ELSE Targets} :
       world' = [world EXCEPT !.generation = @ + 1, !.record = record,
                              !.edited = @ \/ record # world.record]
  /\ UNCHANGED pubs

Publish(p) ==
  \/ Start(p) \/ StartPreresolved(p) \/ Lock(p) \/ Reload(p)
  \/ Preresolved(p) \/ ReuseCached(p) \/ NoShortener(p) \/ Unconfigured(p)
  \/ Retarget(p) \/ CreateRebrandly(p) \/ CreateBitly(p) \/ BackHalf(p)
  \/ WritePngs(p) \/ InsertIntoDeck(p)
  \/ CommitRead(p) \/ CommitWrite(p) \/ Finish(p) \/ Killed(p)

\* Targets are interchangeable: the one a talk starts with may be any of them.
FirstTarget == CHOOSE target \in Targets : TRUE

\* At first there is nothing, or a record whose link has a random back-half, or
\* one with the slug.
Init ==
  /\ \E service \in Services, target \in {FirstTarget}, state \in {"none", "legacy", "slug"} :
       world = [links |-> IF state = "none" THEN <<>>
                          ELSE <<[service |-> service, slugged |-> state = "slug", target |-> target]>>,
                record |-> IF state = "none" THEN None
                           ELSE Record(service, state = "slug", 1, target),
                generation |-> 0, edited |-> FALSE, lock |-> None]
  /\ pubs = [p \in Publishers |-> Idle]

Next == OtherCommit \/ \E p \in Publishers : Publish(p)

Spec == Init /\ [][Next]_qr_vars

----------------------------------------------------------------------------

Receipts == [link : 0 .. MaxLinks, action : Actions \union {None},
             prior : Targets \union {None}, pngs : BOOLEAN, deck : BOOLEAN]

TypeOK ==
  /\ world.links \in Seq([service : Services, slugged : BOOLEAN, target : Targets])
  /\ world.record \in Records \union {None}
  /\ world.lock \in Publishers \union {None}
  /\ \A p \in Publishers :
       /\ pubs[p].meta \in Records \union {None} /\ pubs[p].prior \in Records \union {None}
       /\ pubs[p].receipt \in Receipts /\ pubs[p].effects \in Receipts
       /\ pubs[p].outcome \in Outcomes \union {None}

\* A rejected commit names every effect that landed, with how the link came to be
\* and where it led before, which is what the advice to delete or restore it rests
\* on; a run that says nothing was changed has written no file and made no link
\* that the provider told it of.
ReceiptTrue ==
  \A p \in Publishers :
    /\ pubs[p].outcome = "unfinalized" => pubs[p].receipt = pubs[p].effects
    /\ pubs[p].outcome = "refused" =>
         /\ ~pubs[p].effects.pngs /\ ~pubs[p].effects.deck
         /\ pubs[p].effects.action # "created"

\* A commit replaces the record its run found when it began, never what another
\* writer decided about the talk while links, PNGs and deck were being changed.
DecisionKept ==
  [][\A p \in Publishers : At(p, "write") /\ At(p, "committed")' =>
       world.record = pubs[p].prior]_qr_vars

\* No second link is made while the record names one the run could have pointed.
OneManagedLink ==
  [][\A p \in Publishers :
       /\ At(p, "resolve") /\ Len(world'.links) > Len(world.links)
       /\ ~At(p, "resolve")'
       => ~(/\ world.record # None /\ world.record.link # 0
            /\ world.record.slugged /\ world.record.service = pubs[p].service)]_qr_vars

\* A run pointed the link and did not come to its commit, or an agent pointed it,
\* who holds no lock.
Unsettled(link) ==
  \E p \in Publishers :
    /\ pubs[p].effects.link = link
    /\ \/ pubs[p].effects.action = "preresolved"
       \/ pubs[p].effects.action = "retargeted" /\ pubs[p].outcome # "done"

\* The record tells where its link leads, as long as no other writer changed the
\* record and every run that pointed the link came to its commit.
RecordTellsTarget ==
  /\ world.record # None /\ world.record.link # 0 /\ ~world.edited
  /\ ~Unsettled(world.record.link)
  => world.links[world.record.link].target = world.record.target

\* A run that has committed leaves the talk's short link leading to its target.
PublishedLeadsToTarget ==
  \A p \in Publishers :
    At(p, "committed") /\ pubs[p].meta.link # 0 =>
      world.links[pubs[p].meta.link].target = pubs[p].target

=============================================================================

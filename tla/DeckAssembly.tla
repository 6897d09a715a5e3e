---------------------------- MODULE DeckAssembly ----------------------------
(***************************************************************************)
(* A deck put together by passes that each know slides by number only.     *)
(*                                                                         *)
(* An outline is laid out as one slide per entry.  Then, in the order the  *)
(* documentation prescribes: apply-illustrations-to-deck.py draws on the   *)
(* slides and writes down the background of each; ExpandBuilds replaces    *)
(* every slide revealed in steps by its frames; the speaker notes, the     *)
(* backgrounds and the QR code go in by index.  Outline numbers may start  *)
(* at 0 and skip values, notes are keyed from 0, PowerPoint counts from 1, *)
(* and expansion moves every later slide.                                  *)
(*                                                                         *)
(* A pass saves a copy only when it succeeded, so a failing pass is no     *)
(* step.  Expansion goes record by record through an open copy, and a QR   *)
(* code, inserted once per colour, through intermediates.                  *)
(***************************************************************************)
EXTENDS Integers, FiniteSets, FiniteSetsExt, Sequences

CONSTANTS
  Numbers,     \* numbers an outline entry may carry
  Frames,      \* how many frames a slide may be revealed in, 0 for none
  None

Assumptions ==
  /\ IsFiniteSet(Numbers) /\ Numbers \subseteq Nat
  /\ Frames \subseteq Nat /\ 0 \in Frames
  /\ None \notin Numbers \union Seq(Nat)

VARIABLES
  outline,     \* what is to be shown
  assembly     \* how far the passes are, the deck and what they pass on

deck_vars == <<outline, assembly>>

Entries == DOMAIN outline.slides
Kind(n) == outline.slides[n].kind
FrameCount(n) == outline.slides[n].frames

Parents == {n \in Entries : FrameCount(n) > 0}
Drawn   == {n \in Entries : Kind(n) # "plain"}
\* parse_zones, parse_full_slides, parse_img_txt_slides
Full    == {n \in Entries : Kind(n) \in {"zone", "poster"}}
ImgTxt  == {n \in Entries : Kind(n) = "imgtxt"}

\* deck_positions: the rank of an entry, whatever its number.
Position(n) == Cardinality({m \in Entries : m <= n})

Ranked == [i \in 1..Cardinality(Entries) |-> CHOOSE n \in Entries : Position(n) = i]

\* What PowerPoint keeps of a slide.  A frame has no title: its background is all it shows.
Slide(n) ==
  [title |-> n, bg |-> None, picture |-> None, scrim |-> FALSE, note |-> None,
   codes |-> IF n = outline.stale THEN <<"stale">> ELSE <<>>]
Frame(image, note) ==
  [title |-> None, bg |-> image, picture |-> None, scrim |-> FALSE, note |-> note,
   codes |-> <<>>]

\* Images, by the entry or the entry and step they were drawn for.
Image(n) == <<n>>
FrameImage(n, step) == <<n, step>>

----------------------------------------------------------------------------
(* Laying the deck: slides are appended and the ones that were there go.   *)

Demo == Slide(None)

\* BuildDeck: the template's slides keep its layouts alive until the end.
Lay ==
  /\ assembly.pc = "outlined"
  /\ LET laid == <<Demo>> \o [i \in 1..Len(Ranked) |-> Slide(Ranked[i])]
     IN assembly' = [assembly EXCEPT !.pc = "laid", !.deck = SubSeq(laid, 2, Len(laid))]
  /\ UNCHANGED outline

\* RunDeckOps: slides of another deck, here in the opposite order, taken by an order string.
Adapt ==
  /\ assembly.pc = "outlined"
  /\ LET source == [i \in 1..Len(Ranked) |-> Slide(Ranked[Len(Ranked) + 1 - i])] \o <<Demo>>
         order  == [i \in 1..Len(Ranked) |->
                     CHOOSE k \in DOMAIN source : source[k].title = Ranked[i]]
         placed == source \o [i \in DOMAIN order |-> source[order[i]]]
     IN assembly' = [assembly EXCEPT !.pc = "laid",
                       !.deck = SubSeq(placed, Len(source) + 1, Len(placed))]
  /\ UNCHANGED outline

----------------------------------------------------------------------------
(* apply-illustrations-to-deck.py                                          *)

\* mutant: a slide behind an expanded one keeps its number.
DeckSlideNumber_Fixed(n) == Position(n)
\* The frames that a parent has more of than the one place it gives up.
Surplus(p) == {FrameImage(p, step) : step \in 1..(FrameCount(p) - 1)}
\* deck_slide_number: where an entry without frames is after ExpandBuilds.
DeckSlideNumber(n) ==
  Position(n)
    + Cardinality(UNION {Surplus(p) : p \in {q \in Parents : Position(q) < Position(n)}})

\* _unapplied: every illustrated slide, or nothing.
Applicable ==
  \A n \in Drawn : Position(n) <= Len(assembly.deck) /\ assembly.missing # Image(n)

Illustrated(i) ==
  LET slide == assembly.deck[i] IN
  [slide EXCEPT
     !.picture = IF \E n \in ImgTxt : Position(n) = i
                 THEN Image(CHOOSE n \in ImgTxt : Position(n) = i) ELSE @,
     !.scrim   = @ \/ \E n \in Full : Kind(n) = "zone" /\ Position(n) = i]

\* apply: a parent has no background of its own, its frames bring theirs.
Apply ==
  /\ assembly.pc = "laid"
  /\ Applicable
  /\ LET own == Full \ Parents IN
     assembly' = [assembly EXCEPT
       !.pc = "applied",
       !.deck = [i \in DOMAIN assembly.deck |-> Illustrated(i)],
       !.backgrounds = [k \in {DeckSlideNumber(n) : n \in own} |->
                          Image(CHOOSE n \in own : DeckSlideNumber(n) = k)]]
  /\ UNCHANGED outline

\* The missing slide image or frame is generated at last.
Generate ==
  /\ assembly.missing # None
  /\ assembly' = [assembly EXCEPT !.missing = None]
  /\ UNCHANGED outline

----------------------------------------------------------------------------
(* build-expansion-manifest.py, build-expansion-to-packed.py, ExpandBuilds *)

\* Notes as the agent writes them down for a deck: keyed from 0.
NotesMap(deck) ==
  [k \in {i - 1 : i \in {j \in DOMAIN deck : deck[j].title \notin {None, outline.silent}}} |->
     deck[k + 1].title]

\* build_manifest: the note of the slide at a 1-based place.
NoteFor(notes, place) ==
  IF place - 1 \in DOMAIN notes THEN notes[place - 1] ELSE None

\* build_manifest, for declared frames that are all on disk and decode.
BuildManifest(notes) ==
  {[parent |-> Position(n),
    frames |-> [i \in 1..FrameCount(n) |-> FrameImage(n, i - 1)],
    notes  |-> NoteFor(notes, Position(n))] : n \in Parents}

\* _require_usable_frames
FramesUsable == \A n \in Parents : assembly.missing # FrameImage(n, 0)

\* manifest_to_packed: the highest parent first, so that no other moves.
ManifestToPacked(builds) == CHOOSE b \in builds : \A c \in builds : c.parent <= b.parent

\* One record of ExpandBuilds: frames from the parent's place on, then the parent goes.
ExpandRecord(deck, record) ==
  LET last == Len(record.frames)
      put  == [m \in 1..last |->
                 Frame(record.frames[m], IF m = last THEN record.notes ELSE None)]
  IN [i \in 1..(Len(deck) + last - 1) |->
        IF i < record.parent THEN deck[i]
        ELSE IF i < record.parent + last THEN put[i - record.parent + 1]
        ELSE deck[i - last + 1]]

\* PowerPoint opens the deck, with the records of the manifest.
Expand ==
  /\ assembly.pc = "applied"
  /\ FramesUsable
  /\ assembly' = [assembly EXCEPT !.pc = "expanding", !.tmp = assembly.deck,
                    !.jobs = BuildManifest(NotesMap(assembly.deck))]
  /\ UNCHANGED outline

ExpandBuild ==
  /\ assembly.pc = "expanding" /\ assembly.jobs # {}
  /\ LET record == ManifestToPacked(assembly.jobs) IN
     /\ record.parent \in DOMAIN assembly.tmp
     /\ assembly' = [assembly EXCEPT !.tmp = ExpandRecord(@, record), !.jobs = @ \ {record}]
  /\ UNCHANGED outline

\* A record or the saving fails: PowerPoint closes the copy, the deck is the one it was.
ExpansionFails ==
  /\ assembly.pc = "expanding" /\ Parents # {}
  /\ assembly' = [assembly EXCEPT !.pc = "applied", !.tmp = <<>>, !.jobs = {}]
  /\ UNCHANGED outline

\* With nothing to expand the pass is skipped, and this is all there is.
SaveExpanded ==
  /\ assembly.pc = "expanding" /\ assembly.jobs = {}
  /\ assembly' = [assembly EXCEPT !.pc = "expanded", !.deck = assembly.tmp, !.tmp = <<>>]
  /\ UNCHANGED outline

----------------------------------------------------------------------------
(* notes-to-packed.py and inject-notes, ApplyBackgrounds                   *)

\* note_pairs and driver_args: item i is slide i, an empty one leaves its notes alone.
DriverArgs(notes, count) ==
  [i \in 1..count |-> NoteFor(notes, i)]

\* Frames are left out of the notes: the last of them has its note already.
InjectNotes ==
  /\ assembly.pc \in {"expanded", "noted"}
  /\ LET deck  == assembly.deck
         items == DriverArgs(NotesMap(deck), Len(deck))
     IN assembly' = [assembly EXCEPT !.pc = "noted",
          !.deck = [i \in DOMAIN deck |->
                      IF items[i] = None THEN deck[i] ELSE [deck[i] EXCEPT !.note = items[i]]]]
  /\ UNCHANGED outline

\* ApplyBackgrounds refuses a number past the deck's end.
ApplyBackgrounds ==
  /\ assembly.pc \in {"noted", "backed"}
  /\ LET deck == assembly.deck
         spec == assembly.backgrounds
     IN /\ DOMAIN spec \subseteq DOMAIN deck
        /\ assembly' = [assembly EXCEPT !.pc = "backed",
             !.deck = [i \in DOMAIN deck |->
                         IF i \in DOMAIN spec THEN [deck[i] EXCEPT !.bg = spec[i]] ELSE deck[i]]]
  /\ UNCHANGED outline

----------------------------------------------------------------------------
(* generate-qr.py on a deck, and InsertQR                                  *)

\* find_shownotes_slide, or the fourth slide; frames carry no text to find.
ShownotesSlide(deck) ==
  LET found == {i \in DOMAIN deck : deck[i].title = outline.shownotes}
  IN IF found # {} THEN Min(found) ELSE Min({4, Len(deck)})

\* resolve_target_slide_indices for "both": every code already there is replaced too.
CodeTargets(deck) ==
  {ShownotesSlide(deck), Len(deck)} \union {i \in DOMAIN deck : deck[i].codes # <<>>}

\* The slides of one colour scheme, which share a PNG and a pass.
ColourGroups(deck) ==
  {{i \in CodeTargets(deck) : deck[i].bg = None}, {i \in CodeTargets(deck) : deck[i].bg # None}} \ {{}}

StartInsertion ==
  /\ assembly.pc \in {"backed", "published"}
  /\ assembly' = [assembly EXCEPT !.pc = "inserting", !.tmp = assembly.deck,
                    !.jobs = ColourGroups(assembly.deck)]
  /\ UNCHANGED outline

\* InsertQR: every code Python found on the slide goes, one comes.
InsertQR(deck, group) ==
  [i \in DOMAIN deck |->
     IF i \in group THEN [deck[i] EXCEPT !.codes = <<"new">>] ELSE deck[i]]

InsertGroup ==
  /\ assembly.pc = "inserting"
  /\ \E group \in assembly.jobs :
       assembly' = [assembly EXCEPT !.tmp = InsertQR(@, group), !.jobs = @ \ {group}]
  /\ UNCHANGED outline

\* PowerPoint fails on a colour: the deck is still the one it was.
InsertionFails ==
  /\ assembly.pc = "inserting" /\ assembly.jobs # {}
  /\ assembly' = [assembly EXCEPT !.pc = "backed", !.tmp = <<>>, !.jobs = {}]
  /\ UNCHANGED outline

Deliver ==
  /\ assembly.pc = "inserting" /\ assembly.jobs = {}
  /\ assembly' = [assembly EXCEPT !.pc = "published", !.deck = assembly.tmp, !.tmp = <<>>]
  /\ UNCHANGED outline

----------------------------------------------------------------------------

\* Frames are drawn for illustrated slides; a poster deck has only full-bleed ones.
SlideKinds(style) == IF style = "poster" THEN {"poster"} ELSE {"zone", "imgtxt"}
SlideSpecs(style) ==
  [kind : {"plain"}, frames : {0}] \union [kind : SlideKinds(style), frames : Frames]

\* One slide may be without a note, or bring an old code along; not both is a bound.
Init ==
  /\ \E style \in {"overlay", "poster"}, entries \in (SUBSET Numbers) \ {{}} :
       \E slides \in [entries -> SlideSpecs(style)],
          silent \in entries \union {None}, stale \in entries \union {None} :
         /\ None \in {silent, stale}
         /\ outline = [slides |-> slides, silent |-> silent, stale |-> stale,
                       shownotes |-> Min(entries)]
  /\ \E missing \in {None} \union {Image(n) : n \in Drawn}
                    \union {FrameImage(n, 0) : n \in Parents} :
       assembly = [pc |-> "outlined", deck |-> <<>>, backgrounds |-> <<>>,
                   tmp |-> <<>>, jobs |-> {}, missing |-> missing]

Next ==
  \/ Lay \/ Adapt \/ Apply \/ Generate
  \/ Expand \/ ExpandBuild \/ ExpansionFails \/ SaveExpanded
  \/ InjectNotes \/ ApplyBackgrounds
  \/ StartInsertion \/ InsertGroup \/ InsertionFails \/ Deliver

----------------------------------------------------------------------------

\* Type invariant of the deck and of what one pass leaves for a later one.
TypeOK ==
  /\ \A i \in DOMAIN assembly.deck : assembly.deck[i].title \in Entries \union {None}
  /\ DOMAIN assembly.backgrounds \subseteq Nat
  /\ assembly.pc = "expanding" => \A b \in assembly.jobs : b.parent \in DOMAIN assembly.tmp
  /\ assembly.pc = "inserting" => \A g \in assembly.jobs : g \subseteq DOMAIN assembly.tmp

Past(stage) ==
  LET stages == <<"outlined", "laid", "applied", "expanding", "expanded", "noted", "backed",
                  "inserting", "published">>
  IN \E s, t \in DOMAIN stages :
       stages[s] = stage /\ stages[t] = assembly.pc /\ s <= t

\* What a slide shows: the entry it was laid for, or the frame it is.
View(i) ==
  IF assembly.deck[i].title # None THEN Image(assembly.deck[i].title) ELSE assembly.deck[i].bg
Declared ==
  {Image(n) : n \in Entries \ Parents}
    \union UNION {{FrameImage(n, step) : step \in 0..(FrameCount(n) - 1)} : n \in Parents}
Precedes(v, w) == v[1] < w[1] \/ (v[1] = w[1] /\ Len(v) = 2 /\ v[2] < w[2])

\* After expansion the deck is the outline: every entry or each of its frames once, in
\* order, whatever the numbering (deck_positions, build_manifest, ExpandBuilds).
DeckIsOutline ==
  Past("expanded") =>
    /\ {View(i) : i \in DOMAIN assembly.deck} = Declared
    /\ \A i, j \in DOMAIN assembly.deck : i < j => Precedes(View(i), View(j))

\* A note is on the slide it was written for, on the last frame if that has frames.
NotesInPlace ==
  Past("noted") =>
    \A i \in DOMAIN assembly.deck :
      LET v    == View(i)
          last == Len(v) = 2 => v[2] = FrameCount(v[1]) - 1
      IN assembly.deck[i].note = IF last /\ v[1] # outline.silent THEN v[1] ELSE None

\* Every illustrated slide shows its own image and no other slide shows one.
ArtInPlace ==
  Past("backed") =>
    \A i \in DOMAIN assembly.deck :
      LET slide == assembly.deck[i]
          n     == slide.title
      IN n # None =>
           /\ slide.bg = IF n \in Full THEN Image(n) ELSE None
           /\ slide.picture = IF n \in ImgTxt THEN Image(n) ELSE None
           /\ slide.scrim <=> Kind(n) = "zone"

\* The published deck has one code on its last slide and on the shownotes slide, and
\* none that it brought along.
OneCodePerSlide ==
  assembly.pc = "published" =>
    LET deck == assembly.deck IN
    /\ \A i \in DOMAIN deck : deck[i].codes \in {<<>>, <<"new">>}
    /\ deck[Len(deck)].codes # <<>>
    /\ \A i \in DOMAIN deck : deck[i].title = outline.shownotes => deck[i].codes # <<>>

\* What the passes make of an outline is what the outline asks for.
DeckAssembled == DeckIsOutline /\ NotesInPlace /\ ArtInPlace /\ OneCodePerSlide
=============================================================================

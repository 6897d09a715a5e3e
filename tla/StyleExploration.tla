-------------------------- MODULE StyleExploration --------------------------
(***************************************************************************)
(* generate-illustrations.py: which model may draw a deck, and what a run  *)
(* may overwrite.                                                          *)
(*                                                                         *)
(* --style-explore renders a grid for the speaker to pick from and, at the *)
(* end, lists the cells in rendered.json.  Generating a deck's images asks *)
(* that record first: the baked model must have been rendered for this     *)
(* talk through its API.  A native command line may render a cell too, but *)
(* it does not say which dated model drew it.  --edit, --fix and versioned *)
(* runs save under the next version number.  Runs take minutes, take no    *)
(* lock, and may be killed while they write.                               *)
(*                                                                         *)
(* One slide, one style and one format stand for the rest.  --compare and  *)
(* --build write files of their own and are left out.                      *)
(***************************************************************************)
EXTENDS Integers, FiniteSets, FiniteSetsExt, Sequences

CONSTANTS
  Artists,       \* invocations that may be under way at a time
  Models,        \* image models, by their resolved names
  Exts,          \* extensions an image may be served with
  MaxRenders,    \* bound on the files written
  MaxMoves,      \* bound on what the owner does to the files
  None

Assumptions ==
  /\ IsFiniteSet(Models) /\ None \notin Models
  /\ MaxRenders \in Nat /\ MaxMoves \in Nat

VARIABLES
  studio,        \* the talk's outline, grid, record and images
  artists        \* what each invocation is at

style_vars == <<studio, artists>>

\* Who drew a cell of the grid, and for which talk.  Of a deck's versions it only
\* matters that no two are the same: they are known by their serial number.
Drawing(model, lane) == [model |-> model, lane |-> lane, talk |-> "own"]
TornImage == [model |-> None, lane |-> "torn", talk |-> "own"]
Fresh == studio.made + 1

\* A file is written, over one of the same name, or removed.
With(files, f, image) ==
  [g \in DOMAIN files \union {f} |-> IF g = f THEN image ELSE files[g]]
Without(files, f) == [g \in DOMAIN files \ {f} |-> files[g]]

\* What generate_image and edit_image may return, failure aside.
Lanes == {"api", "cli"}

\* mutant: a native render goes under the name of the model.
CellFile_OneName(model, lane, ext) == [model |-> model, native |-> FALSE, ext |-> ext]
\* explore_dest: an unpinned render has a name of its own.
CellFile(model, lane, ext) == [model |-> model, native |-> lane = "cli", ext |-> ext]

\* mutant: versions are counted.
NextVersion_Count == Cardinality(DOMAIN studio.versions) + 2
\* next_version: above every version there is, whatever its extension.
NextVersion == Max({f.number : f \in DOMAIN studio.versions} \union {1}) + 1

----------------------------------------------------------------------------
(* The gate.                                                               *)

\* check_style_explore on one cell of the record.  Before there were native renders
\* (schema 1) a cell did not say how it was drawn.
Evidence(manifest, cell, model) ==
  /\ cell.status = "OK" /\ cell.file \in DOMAIN studio.grid
  /\ cell.model = model
  /\ manifest.schema = 2 => cell.lane = "api"

\* check_style_explore: fails closed on a record it cannot read or of another talk.
GatePasses(model) ==
  /\ model # None
  /\ studio.manifest # None
  /\ studio.manifest.talk = "own"
  /\ \E cell \in studio.manifest.cells : Evidence(studio.manifest, cell, model)

----------------------------------------------------------------------------
(* --style-explore                                                         *)

Idle == [pc |-> "idle"]
End(a) == artists' = [artists EXCEPT ![a] = Idle]

\* That one grid is rendered at a time is a bound.
StartExplore(a) ==
  /\ \A b \in Artists : artists[b].pc \notin {"exploring", "recording"}
  /\ artists[a].pc = "idle"
  /\ artists' = [artists EXCEPT ![a] = [pc |-> "exploring", left |-> Models, cells |-> {}]]
  /\ UNCHANGED studio

\* The plan has an order, which candidates.json gives.
NextCell(a) == CHOOSE model \in artists[a].left : TRUE

\* The file is written as soon as its cell is rendered.
RenderCell(a) ==
  /\ artists[a].pc = "exploring" /\ artists[a].left # {} /\ studio.made < MaxRenders
  /\ \E lane \in Lanes, ext \in Exts :
       LET model == NextCell(a)
           file  == CellFile(model, lane, ext) IN
       /\ studio' = [studio EXCEPT !.made = @ + 1,
                       !.grid = With(@, file, Drawing(model, lane))]
       /\ artists' = [artists EXCEPT
            ![a].left = @ \ {model},
            ![a].cells = @ \union {[model |-> model, status |-> "OK", lane |-> lane, file |-> file]}]

CellFails(a) ==
  /\ artists[a].pc = "exploring" /\ artists[a].left # {}
  /\ LET model == NextCell(a) IN
       artists' = [artists EXCEPT
            ![a].left = @ \ {model},
            ![a].cells = @ \union {[model |-> model, status |-> "FAIL", lane |-> None, file |-> None]}]
  /\ UNCHANGED studio

TornManifest == [schema |-> 2, talk |-> None, cells |-> {}]

\* write_rendered_manifest: the record is truncated, then written.
OpenManifest(a) ==
  /\ artists[a].pc = "exploring" /\ artists[a].left = {}
  /\ studio' = [studio EXCEPT !.manifest = TornManifest]
  /\ artists' = [artists EXCEPT ![a].pc = "recording"]

WriteManifest(a) ==
  /\ artists[a].pc = "recording"
  /\ studio' = [studio EXCEPT
       !.manifest = [schema |-> 2, talk |-> "own", cells |-> artists[a].cells]]
  /\ End(a)

----------------------------------------------------------------------------
(* The deck's images.                                                      *)

Rendering(number, known) == [pc |-> "rendering", number |-> number, known |-> known]

Base == 1      \* the base image counts as the first version

\* run_generate: the model of the outline, once the gate let it pass.  A versioned run
\* looks for its number when it has the image.
StartGenerate(a) ==
  /\ artists[a].pc = "idle"
  /\ GatePasses(studio.baked)
  /\ \E number \in {Base, None} :
       artists' = [artists EXCEPT ![a] = Rendering(number, {})]
  /\ UNCHANGED studio

\* run_edit and run_fix look for the number first, and need an image to start from:
\* the base image, or the latest of all.
StartEdit(a) ==
  /\ artists[a].pc = "idle" /\ studio.baked # None
  /\ studio.base # {} \/ studio.versions # <<>>
  /\ artists' = [artists EXCEPT
       ![a] = Rendering(NextVersion, DOMAIN studio.versions)]
  /\ UNCHANGED studio

\* Under which number the image in hand is saved.
Number(a) == IF artists[a].number = None THEN NextVersion ELSE artists[a].number

Saved(a, ext) ==
  IF artists[a].number = Base
  THEN [studio EXCEPT !.made = @ + 1, !.base = @ \union {ext}]
  ELSE [studio EXCEPT !.made = @ + 1,
          !.versions = With(@, [number |-> Number(a), ext |-> ext], Fresh)]

Save(a) ==
  /\ artists[a].pc = "rendering" /\ studio.made < MaxRenders
  /\ \E ext \in Exts : studio' = Saved(a, ext)
  /\ End(a)

RenderFails(a) ==
  /\ artists[a].pc = "rendering"
  /\ End(a)
  /\ UNCHANGED studio

----------------------------------------------------------------------------
(* Kills, and what the owner does between runs.                            *)

\* A run that is killed while it writes leaves the file truncated.
Killed(a) ==
  /\ artists[a].pc # "idle"
  /\ \/ UNCHANGED studio
     \/ /\ artists[a].pc = "rendering" /\ studio.made < MaxRenders
        /\ \E ext \in Exts : studio' = Saved(a, ext)
     \/ /\ artists[a].pc = "exploring" /\ artists[a].left # {} /\ studio.made < MaxRenders
        /\ \E lane \in Lanes, ext \in Exts :
             studio' = [studio EXCEPT !.made = @ + 1,
                          !.grid = With(@, CellFile(NextCell(a), lane, ext), TornImage)]
  /\ End(a)

Moves == studio.moves < MaxMoves

\* style_anchor.model of the outline is edited.
Bake ==
  /\ Moves
  /\ \E model \in Models \ {studio.baked} :
       studio' = [studio EXCEPT !.baked = model, !.moves = @ + 1]
  /\ UNCHANGED artists

\* Images that were not chosen are thrown away.
Discard ==
  /\ Moves
  /\ \/ \E f \in DOMAIN studio.grid :
          studio' = [studio EXCEPT !.grid = Without(@, f), !.moves = @ + 1]
     \/ \E f \in DOMAIN studio.versions :
          studio' = [studio EXCEPT !.versions = Without(@, f), !.moves = @ + 1]
  /\ UNCHANGED artists

\* The grid of another talk is copied over, while none is being rendered.
Copy ==
  /\ Moves /\ \A a \in Artists : artists[a].pc \notin {"exploring", "recording"}
  /\ \E model \in Models, ext \in Exts :
       LET file == CellFile(model, "api", ext) IN
       studio' = [studio EXCEPT
         !.moves = @ + 1,
         !.grid = With(@, file, [model |-> model, lane |-> "api", talk |-> "other"]),
         !.manifest = [schema |-> 2, talk |-> "other",
                       cells |-> {[model |-> model, status |-> "OK", lane |-> "api", file |-> file]}]]
  /\ UNCHANGED artists

----------------------------------------------------------------------------

\* A talk without a grid, or with the whole one an earlier release rendered through the
\* API and an image that was edited once.
Init ==
  /\ \E explored \in {{}, Models}, baked \in Models \union {None}, ext \in Exts :
       LET files == {CellFile(model, "api", ext) : model \in explored} IN
       studio =
         [baked |-> baked, made |-> 0, moves |-> 0, base |-> {},
          versions |-> IF explored = {} THEN <<>>
                       ELSE With(<<>>, [number |-> 2, ext |-> ext], 0),
          grid |-> [f \in files |->
                      [model |-> f.model, lane |-> "api", talk |-> "own"]],
          manifest |-> IF explored = {} THEN None
                       ELSE [schema |-> 1, talk |-> "own",
                             cells |-> {[model |-> f.model, status |-> "OK", lane |-> None,
                                         file |-> f] : f \in files}]]
  /\ artists = [a \in Artists |-> Idle]

Next ==
  \/ \E a \in Artists :
       \/ StartExplore(a) \/ RenderCell(a) \/ CellFails(a) \/ OpenManifest(a) \/ WriteManifest(a)
       \/ StartGenerate(a) \/ StartEdit(a) \/ Save(a) \/ RenderFails(a) \/ Killed(a)
  \/ Bake \/ Discard \/ Copy

----------------------------------------------------------------------------

\* Type invariant.
TypeOK ==
  /\ studio.baked \in Models \union {None}
  /\ studio.base \subseteq Exts
  /\ DOMAIN studio.versions \subseteq [number : Nat \ {0, 1}, ext : Exts]
  /\ DOMAIN studio.grid \subseteq [model : Models, native : BOOLEAN, ext : Exts]
  /\ \A a \in Artists : artists[a].pc \in {"idle", "exploring", "recording", "rendering"}

\* What lets a model pass the gate is a render of that model through its API, for this
\* talk, however often the grid was rendered, cut short or copied since.  A render
\* that was cut short shows no model at all.
EvidenceIsOfModel ==
  \A model \in Models :
    GatePasses(model) =>
      \E cell \in studio.manifest.cells :
        /\ Evidence(studio.manifest, cell, model)
        /\ studio.grid[cell.file].lane # "torn" =>
             /\ studio.grid[cell.file].model = model
             /\ studio.grid[cell.file].lane = "api"
             /\ studio.grid[cell.file].talk = "own"

\* "Never overwrites" (run_edit, run_generate): a version is written over only by a run
\* that chose its number before that version was there.
VersionsKept ==
  [][\A f \in DOMAIN studio.versions \intersect DOMAIN studio'.versions :
       studio'.versions[f] # studio.versions[f] =>
         \E a \in Artists :
           /\ artists[a].pc = "rendering" /\ artists[a].number = f.number
           /\ f \notin artists[a].known]_style_vars
=============================================================================

----------------------------- MODULE ToolProofs -----------------------------
(***************************************************************************)
(* What a command reports, and what it may rely on, for any number of      *)
(* runs, renders and processes: of the commands that MCVaultTools puts     *)
(* side by side, StyleExploration and SupervisedWorker; and, with the      *)
(* invariants of RecordProofs and MediaProofs, what holds of them all.     *)
(***************************************************************************)
EXTENDS RecordProofs, MediaProofs, DeckProofs, WellFoundedInduction

-----------------------------------------------------------------------------
(* generate-illustrations.py                                               *)

(* The greatest of a bounded set. *)
LEMMA Greatest ==
  ASSUME NEW S \in SUBSET Nat, S # {}, NEW k \in Nat, \A n \in S : n <= k
  PROVE  \E m \in S : \A n \in S : n <= m
<1>1. PICK T : T = {u \in Nat : \A n \in S : n <= u}
    OBVIOUS
<1>2. T \in SUBSET Nat /\ T # {}
    BY <1>1
<1>3. PICK m \in T : \A j \in T : m <= j
    <2>1. PICK m \in T : \A j \in T : ~(<<j, m>> \in OpToRel(<, Nat))
        BY <1>2, WFMin, NatLessThanWellFounded, Zenon
    <2>2. \A j \in T : ~(j < m)
        BY <1>2, <2>1, Zenon DEF OpToRel
    <2>3. m \in Nat /\ \A j \in T : j \in Nat
        BY <1>2, <2>1
    <2>4. ASSUME NEW j \in T PROVE m <= j
        BY <2>2, <2>3
    <2>5. QED
        BY <2>1, <2>4
<1>4. m \in Nat /\ \A n \in S : n <= m
    BY <1>1, <1>3
<1>5. CASE m \in S
    BY <1>4, <1>5
<1>6. CASE m \notin S
    <2>1. \A n \in S : n < m
        BY <1>4, <1>6
    <2>2. 0 < m
        <3>1. PICK n \in S : n < m
            BY <2>1
        <3>2. n \in Nat
            BY <3>1
        <3>3. QED
            BY <1>4, <3>1, <3>2
    <2>3. m - 1 \in Nat /\ \A n \in S : n <= m - 1
        BY <1>4, <2>1, <2>2
    <2>4. m - 1 \in T
        BY <1>1, <2>3
    <2>5. QED
        BY <1>3, <1>4, <2>4
<1>7. QED
    BY <1>5, <1>6

LEMMA NextAbove ==
  ASSUME NEW k \in Nat, \A f \in DOMAIN studio.versions : f.number \in Nat /\ f.number <= k
  PROVE  /\ Style!NextVersion \in Nat
         /\ 2 <= Style!NextVersion
         /\ \A f \in DOMAIN studio.versions : f.number < Style!NextVersion
<1>1. PICK S : S = {f.number : f \in DOMAIN studio.versions} \union {1}
    OBVIOUS
<1>2. S \in SUBSET Nat /\ S # {} /\ 1 \in S
    BY <1>1
<1>3. PICK m \in S : \A n \in S : n <= m
    <2>1. \A n \in S : n <= k + 1
        BY <1>1
    <2>2. k + 1 \in Nat
        OBVIOUS
    <2>3. QED
        BY <1>2, <2>1, <2>2, Greatest
<1>4. PICK x : x = Style!Max(S)
    OBVIOUS
<1>5. x \in S /\ \A n \in S : x >= n
    <2>1. m \in S /\ \A n \in S : m >= n
        BY <1>2, <1>3
    <2>2. QED
        BY <1>4, <2>1 DEF Style!Max
<1>6. Style!NextVersion = x + 1
    BY <1>1, <1>4 DEF Style!NextVersion
<1>7. QED
    BY <1>1, <1>2, <1>5, <1>6
(* Files by their names: a function on some of the names. *)
Files(D, R) == UNION {[S -> R] : S \in SUBSET D}

LEMMA FilesAre ==
  ASSUME NEW D, NEW R, NEW g
  PROVE  g \in Files(D, R) <=>
           /\ DOMAIN g \subseteq D /\ g = [k \in DOMAIN g |-> g[k]]
           /\ \A k \in DOMAIN g : g[k] \in R
<1>1. ASSUME g \in Files(D, R)
      PROVE  /\ DOMAIN g \subseteq D /\ g = [k \in DOMAIN g |-> g[k]]
             /\ \A k \in DOMAIN g : g[k] \in R
    <2>1. PICK S \in SUBSET D : g \in [S -> R]
        BY <1>1 DEF Files
    <2>2. QED
        BY <2>1
<1>2. ASSUME DOMAIN g \subseteq D, g = [k \in DOMAIN g |-> g[k]],
             \A k \in DOMAIN g : g[k] \in R
      PROVE  g \in Files(D, R)
    <2>1. g \in [DOMAIN g -> R]
        BY <1>2
    <2>2. QED
        BY <1>2, <2>1 DEF Files
<1>3. QED
    BY <1>1, <1>2

LEMMA FileWritten ==
  ASSUME NEW D, NEW R, NEW g \in Files(D, R), NEW f \in D, NEW v \in R,
         NEW h, h = Style!With(g, f, v)
  PROVE  /\ h \in Files(D, R) /\ DOMAIN h = DOMAIN g \union {f} /\ h[f] = v
         /\ \A k \in DOMAIN h : k # f => k \in DOMAIN g /\ h[k] = g[k]
<1>1. /\ DOMAIN h = DOMAIN g \union {f} /\ h[f] = v
      /\ h = [k \in DOMAIN h |-> h[k]]
      /\ \A k \in DOMAIN h : k # f => k \in DOMAIN g /\ h[k] = g[k]
    BY DEF Style!With
<1>2. DOMAIN g \subseteq D /\ \A k \in DOMAIN g : g[k] \in R
    BY FilesAre
<1>3. DOMAIN h \subseteq D /\ \A k \in DOMAIN h : h[k] \in R
    BY <1>1, <1>2
<1>4. QED
    BY <1>1, <1>3, FilesAre

LEMMA FileRemoved ==
  ASSUME NEW D, NEW R, NEW g \in Files(D, R), NEW f, NEW h, h = Style!Without(g, f)
  PROVE  /\ h \in Files(D, R)
         /\ \A k \in DOMAIN h : k \in DOMAIN g /\ h[k] = g[k]
<1>1. /\ DOMAIN h = DOMAIN g \ {f} /\ h = [k \in DOMAIN h |-> h[k]]
      /\ \A k \in DOMAIN h : k \in DOMAIN g /\ h[k] = g[k]
    BY DEF Style!Without
<1>2. DOMAIN g \subseteq D /\ \A k \in DOMAIN g : g[k] \in R
    BY FilesAre
<1>3. DOMAIN h \subseteq D /\ \A k \in DOMAIN h : h[k] \in R
    BY <1>1, <1>2
<1>4. QED
    BY <1>1, <1>3, FilesAre

CellFiles == [model : Models, native : BOOLEAN, ext : Exts]
Versions == [number : Nat \ {0, 1}, ext : Exts]
Drawings == [model : Models \union {None}, lane : {"api", "cli", "torn"}, talk : {"own", "other"}]
Cells ==
  [model : Models, status : {"OK", "FAIL"}, lane : {"api", "cli", None},
   file : CellFiles \union {None}]
Manifests == [schema : {1, 2}, talk : {"own", "other", None}, cells : SUBSET Cells]

Studios ==
  [baked : Models \union {None}, made : Nat, moves : Nat, base : SUBSET Exts,
   versions : Files(Versions, Nat), grid : Files(CellFiles, Drawings),
   manifest : Manifests \union {None}]

Explorers == [pc : {"exploring", "recording"}, left : SUBSET Models, cells : SUBSET Cells]
Painters ==
  [pc : {"rendering"}, number : (Nat \ {0}) \union {None}, known : SUBSET Versions]
Invoked == [pc : {"idle"}] \union Explorers \union Painters

(* Whole images of the grid are what their names say. *)
GridTrue(grid) ==
  \A f \in DOMAIN grid :
    grid[f].lane # "torn" =>
      grid[f].model = f.model /\ grid[f].lane = IF f.native THEN "cli" ELSE "api"

(* So are the cells of a record, and their images are this talk's. *)
CellsTrue(cells, grid, schema) ==
  \A c \in cells :
    c.status = "OK" =>
      /\ c.file \in CellFiles /\ c.file.model = c.model
      /\ IF schema = 2 THEN c.file.native = (c.lane = "cli") ELSE ~c.file.native
      /\ c.file \in DOMAIN grid => grid[c.file].talk = "own"

StudioTrue(s) ==
  /\ GridTrue(s.grid)
  /\ s.manifest # None /\ s.manifest.talk = "own" =>
       CellsTrue(s.manifest.cells, s.grid, s.manifest.schema)
  /\ \E k \in Nat : \A f \in DOMAIN s.versions : f.number <= k

(* An exploration's cells are true, and a number that was chosen is above every version
   that was there. *)
Busied(x, s) ==
  /\ x.pc \in {"exploring", "recording"} => CellsTrue(x.cells, s.grid, 2)
  /\ x.pc = "rendering" /\ x.number \notin {1, None} =>
       \A f \in x.known : f.number < x.number

StyleInv ==
  /\ studio \in Studios /\ StudioTrue(studio)
  /\ artists \in [Artists -> Invoked]
  /\ \A a \in Artists : Busied(artists[a], studio)

LEMMA StyleAt ==
  ASSUME StyleInv, NEW a \in Artists
  PROVE  /\ studio \in Studios /\ StudioTrue(studio)
         /\ artists[a] \in Invoked /\ Busied(artists[a], studio)
BY DEF StyleInv

LEMMA InvokedAre ==
  ASSUME NEW x \in Invoked
  PROVE  /\ x.pc \in {"exploring", "recording"} => x \in Explorers
         /\ x.pc = "rendering" => x \in Painters
BY DEF Invoked, Explorers, Painters

(* A step of one invocation. *)
LEMMA ArtistMoves ==
  ASSUME StyleInv, NEW a \in Artists, NEW x \in Invoked, NEW s \in Studios,
         artists' = [artists EXCEPT ![a] = x], studio' = s,
         StudioTrue(s), Busied(x, s), \A b \in Artists : Busied(artists[b], s)
  PROVE  StyleInv'
<1>1. PICK y : y = artists'
    OBVIOUS
<1>2. PICK z : z = s /\ z = studio'
    OBVIOUS
<1>3. y \in [Artists -> Invoked]
    BY <1>1 DEF StyleInv
<1>4. ASSUME NEW b \in Artists PROVE Busied(y[b], z)
    <2>1. CASE b = a
        BY <1>1, <1>2, <2>1 DEF StyleInv
    <2>2. CASE b # a
        BY <1>1, <1>2, <2>2 DEF StyleInv
    <2>3. QED
        BY <2>1, <2>2
<1>5. z \in Studios /\ StudioTrue(z)
    BY <1>2
<1>6. QED
    BY <1>1, <1>2, <1>3, <1>4, <1>5 DEF StyleInv

LEMMA ArtistIdle == Style!Idle \in Invoked /\ Style!Idle.pc = "idle"
BY DEF Style!Idle, Invoked

LEMMA ArtistQuiet ==
  ASSUME StyleInv, NEW a \in Artists, NEW x \in Invoked,
         artists' = [artists EXCEPT ![a] = x], UNCHANGED studio, Busied(x, studio)
  PROVE  StyleInv'
<1>1. PICK s : s = studio /\ s = studio'
    OBVIOUS
<1>2. s \in Studios /\ StudioTrue(s) /\ Busied(x, s) /\ \A b \in Artists : Busied(artists[b], s)
    BY <1>1 DEF StyleInv
<1>3. QED
    BY <1>1, <1>2, ArtistMoves

(* What is known of cells survives a render of this talk and a removal. *)
LEMMA CellsSurvive ==
  ASSUME NEW g \in Files(CellFiles, Drawings), NEW h, NEW f,
         \A k \in DOMAIN h : \/ k \in DOMAIN g /\ h[k] = g[k]
                             \/ h[k].talk = "own",
         NEW cells, NEW schema, CellsTrue(cells, g, schema)
  PROVE  CellsTrue(cells, h, schema)
BY DEF CellsTrue

LEMMA StudioGrid ==
  ASSUME StyleInv, NEW h \in Files(CellFiles, Drawings), GridTrue(h),
         \A k \in DOMAIN h : \/ k \in DOMAIN studio.grid /\ h[k] = studio.grid[k]
                             \/ h[k].talk = "own",
         NEW s \in Studios, s.grid = h, s.manifest = studio.manifest,
         s.versions = studio.versions
  PROVE  StudioTrue(s) /\ \A b \in Artists : Busied(artists[b], s)
<1>1. studio \in Studios /\ StudioTrue(studio) /\ studio.grid \in Files(CellFiles, Drawings)
    BY DEF StyleInv, Studios
<1>2. StudioTrue(s)
    BY <1>1, CellsSurvive DEF StudioTrue
<1>3. ASSUME NEW b \in Artists PROVE Busied(artists[b], s)
    BY <1>1, StyleAt, CellsSurvive DEF Busied
<1>4. QED
    BY <1>2, <1>3

LEMMA CellNamed ==
  ASSUME NEW model \in Models, NEW lane \in {"api", "cli"}, NEW ext \in Exts,
         NEW f, f = Style!CellFile(model, lane, ext)
  PROVE  f \in CellFiles /\ f.model = model /\ f.native = (lane = "cli")
<1>1. PICK native : native = (lane = "cli")
    OBVIOUS
<1>2. native \in BOOLEAN
    BY <1>1
<1>3. f = [model |-> model, native |-> native, ext |-> ext]
    BY <1>1 DEF Style!CellFile
<1>4. f \in CellFiles /\ f.model = model /\ f.native = native
    BY <1>2, <1>3 DEF CellFiles
<1>5. QED
    BY <1>1, <1>4

LEMMA NextCellIs ==
  ASSUME NEW a \in Artists, artists[a] \in Explorers, artists[a].left # {}
  PROVE  Style!NextCell(a) \in Models
<1>1. PICK left : left = artists[a].left
    OBVIOUS
<1>2. left \in SUBSET Models /\ left # {}
    BY <1>1 DEF Explorers
<1>3. (CHOOSE model \in left : TRUE) \in left
    BY <1>2
<1>4. QED
    BY <1>1, <1>2, <1>3 DEF Style!NextCell

LEMMA ExplorationStarts ==
  ASSUME StyleInv, NEW a \in Artists, Style!StartExplore(a) PROVE StyleInv'
<1>1. PICK x : x = [pc |-> "exploring", left |-> Models, cells |-> {}]
    OBVIOUS
<1>2. x \in Invoked /\ x.pc = "exploring" /\ x.cells = {}
    BY <1>1 DEF Invoked, Explorers
<1>3. Busied(x, studio)
    BY <1>2 DEF Busied, CellsTrue
<1>4. artists' = [artists EXCEPT ![a] = x] /\ UNCHANGED studio
    BY <1>1 DEF Style!StartExplore
<1>5. QED
    BY <1>2, <1>3, <1>4, ArtistQuiet

(* A whole image of the grid, or a torn one, is written. *)
LEMMA GridPainted ==
  ASSUME StyleInv, NEW f \in CellFiles, NEW v \in Drawings, v.talk = "own",
         v.lane # "torn" =>
           v.model = f.model /\ v.lane = IF f.native THEN "cli" ELSE "api",
         NEW h, h = Style!With(studio.grid, f, v), NEW made \in Nat,
         NEW s, s = [studio EXCEPT !.made = made, !.grid = h]
  PROVE  /\ s \in Studios /\ StudioTrue(s) /\ f \in DOMAIN s.grid /\ s.grid[f].talk = "own"
         /\ \A b \in Artists : Busied(artists[b], s)
<1>1. studio \in Studios /\ StudioTrue(studio)
    BY DEF StyleInv
<1>2. PICK g \in Files(CellFiles, Drawings) : g = studio.grid
    BY <1>1 DEF Studios
<1>3. h = Style!With(g, f, v)
    BY <1>2
<1>4. /\ h \in Files(CellFiles, Drawings) /\ DOMAIN h = DOMAIN g \union {f} /\ h[f] = v
      /\ \A k \in DOMAIN h : k # f => k \in DOMAIN g /\ h[k] = g[k]
    BY <1>3, FileWritten
<1>5. GridTrue(h)
    <2>1. GridTrue(g)
        BY <1>1, <1>2 DEF StudioTrue
    <2>2. QED
        BY <1>4, <2>1 DEF GridTrue
<1>6. /\ s \in Studios /\ s.grid = h /\ s.manifest = studio.manifest
      /\ s.versions = studio.versions
    BY <1>1, <1>4 DEF Studios
<1>7. \A k \in DOMAIN h : \/ k \in DOMAIN studio.grid /\ h[k] = studio.grid[k]
                          \/ h[k].talk = "own"
    BY <1>2, <1>4
<1>8. StudioTrue(s) /\ \A b \in Artists : Busied(artists[b], s)
    BY <1>4, <1>5, <1>6, <1>7, StudioGrid
<1>9. QED
    BY <1>4, <1>6, <1>8

LEMMA CellRenders ==
  ASSUME StyleInv, NEW a \in Artists, Style!RenderCell(a) PROVE StyleInv'
<1>1. PICK x : x = artists[a]
    OBVIOUS
<1>2. /\ x \in Explorers /\ x.left # {} /\ x.pc = "exploring" /\ Busied(x, studio)
    BY <1>1, StyleAt, InvokedAre DEF Style!RenderCell
<1>3. PICK model : model = Style!NextCell(a)
    OBVIOUS
<1>4. model \in Models
    BY <1>1, <1>2, <1>3, NextCellIs
<1>a. PICK lane \in {"api", "cli"}, ext \in Exts :
        LET f == Style!CellFile(model, lane, ext) IN
        /\ studio' = [studio EXCEPT !.made = @ + 1,
                        !.grid = Style!With(@, f, Style!Drawing(model, lane))]
        /\ artists' = [artists EXCEPT
             ![a].left = @ \ {model},
             ![a].cells = @ \union {[model |-> model, status |-> "OK", lane |-> lane,
                                     file |-> f]}]
    BY <1>3 DEF Style!RenderCell, Style!Lanes
<1>b. PICK f : f = Style!CellFile(model, lane, ext)
    OBVIOUS
<1>5. /\ studio' = [studio EXCEPT !.made = @ + 1,
                       !.grid = Style!With(@, f, Style!Drawing(model, lane))]
      /\ artists' = [artists EXCEPT
             ![a].left = @ \ {model},
             ![a].cells = @ \union {[model |-> model, status |-> "OK", lane |-> lane,
                                     file |-> f]}]
    BY <1>a, <1>b
<1>6. PICK c : c = [model |-> model, status |-> "OK", lane |-> lane, file |-> f]
    OBVIOUS
<1>7. f \in CellFiles /\ f.model = model /\ f.native = (lane = "cli")
    BY <1>4, <1>a, <1>b, CellNamed
<1>8. /\ c \in Cells /\ c.file = f /\ c.model = model /\ c.lane = lane
    BY <1>4, <1>a, <1>6, <1>7 DEF Cells
<1>9. PICK left : left = x.left \ {model}
    OBVIOUS
<1>10. PICK cells : cells = x.cells \union {c}
    OBVIOUS
<1>11. PICK y : y = [x EXCEPT !.left = left, !.cells = cells]
    OBVIOUS
<1>12. y \in Explorers /\ y.pc = "exploring" /\ y.cells = cells
    <2>1. left \in SUBSET Models /\ cells \in SUBSET Cells
        BY <1>2, <1>8, <1>9, <1>10 DEF Explorers
    <2>2. QED
        BY <1>2, <1>11, <2>1 DEF Explorers
<1>13. artists' = [artists EXCEPT ![a] = y]
    <2>1. artists \in [Artists -> Invoked]
        BY DEF StyleInv
    <2>2. artists' = [artists EXCEPT ![a].left = @ \ {model}, ![a].cells = @ \union {c}]
        BY <1>5, <1>6
    <2>3. QED
        BY <1>1, <1>2, <1>9, <1>10, <1>11, <2>1, <2>2 DEF Explorers
<1>14. PICK s : s = [studio EXCEPT !.made = @ + 1,
                       !.grid = Style!With(@, f, Style!Drawing(model, lane))]
    OBVIOUS
<1>15. /\ s \in Studios /\ StudioTrue(s) /\ f \in DOMAIN s.grid /\ s.grid[f].talk = "own"
       /\ \A b \in Artists : Busied(artists[b], s)
    <2>1. PICK v \in Drawings : v = Style!Drawing(model, lane)
        BY <1>4, <1>a DEF Style!Drawing, Drawings
    <2>2. /\ v.talk = "own"
          /\ v.model = f.model /\ v.lane = IF f.native THEN "cli" ELSE "api"
        BY <1>7, <1>a, <2>1 DEF Style!Drawing
    <2>3. PICK h : h = Style!With(studio.grid, f, v)
        OBVIOUS
    <2>4. PICK made \in Nat : made = studio.made + 1
        BY StyleAt DEF Studios
    <2>5. s = [studio EXCEPT !.made = made, !.grid = h]
        <3>1. studio \in Studios
            BY StyleAt
        <3>2. QED
            BY <1>14, <2>1, <2>3, <2>4, <3>1 DEF Studios
    <2>6. f \in CellFiles
        BY <1>7
    <2>7. QED
        BY <2>2, <2>3, <2>4, <2>5, <2>6, GridPainted
<1>16. Busied(y, s)
    <2>1. CellsTrue(x.cells, s.grid, 2)
        BY <1>1, <1>2, <1>15 DEF Busied
    <2>2. CellsTrue(cells, s.grid, 2)
        BY <1>7, <1>8, <1>10, <1>15, <2>1 DEF CellsTrue
    <2>3. QED
        BY <1>12, <2>2 DEF Busied
<1>17. y \in Invoked
    BY <1>12 DEF Invoked
<1>18. QED
    BY <1>5, <1>13, <1>14, <1>15, <1>16, <1>17, ArtistMoves

LEMMA CellsFail ==
  ASSUME StyleInv, NEW a \in Artists, Style!CellFails(a) PROVE StyleInv'
<1>1. PICK x : x = artists[a]
    OBVIOUS
<1>2. /\ x \in Explorers /\ x.left # {} /\ x.pc = "exploring" /\ Busied(x, studio)
    BY <1>1, StyleAt, InvokedAre DEF Style!CellFails
<1>3. PICK model : model = Style!NextCell(a)
    OBVIOUS
<1>4. model \in Models
    BY <1>1, <1>2, <1>3, NextCellIs
<1>5. PICK c : c = [model |-> model, status |-> "FAIL", lane |-> None, file |-> None]
    OBVIOUS
<1>6. c \in Cells /\ c.status = "FAIL"
    BY <1>4, <1>5 DEF Cells
<1>7. PICK left : left = x.left \ {model}
    OBVIOUS
<1>8. PICK cells : cells = x.cells \union {c}
    OBVIOUS
<1>9. PICK y : y = [x EXCEPT !.left = left, !.cells = cells]
    OBVIOUS
<1>10. y \in Explorers /\ y.pc = "exploring" /\ y.cells = cells
    <2>1. left \in SUBSET Models /\ cells \in SUBSET Cells
        BY <1>2, <1>6, <1>7, <1>8 DEF Explorers
    <2>2. QED
        BY <1>2, <1>9, <2>1 DEF Explorers
<1>11. artists' = [artists EXCEPT ![a] = y]
    <2>1. artists \in [Artists -> Invoked]
        BY DEF StyleInv
    <2>2. artists' = [artists EXCEPT ![a].left = @ \ {model}, ![a].cells = @ \union {c}]
        BY <1>3, <1>5 DEF Style!CellFails
    <2>3. QED
        BY <1>1, <1>2, <1>7, <1>8, <1>9, <2>1, <2>2 DEF Explorers
<1>12. Busied(y, studio)
    <2>1. CellsTrue(x.cells, studio.grid, 2)
        BY <1>2 DEF Busied
    <2>2. CellsTrue(cells, studio.grid, 2)
        BY <1>6, <1>8, <2>1 DEF CellsTrue
    <2>3. QED
        BY <1>10, <2>2 DEF Busied
<1>13. y \in Invoked
    BY <1>10 DEF Invoked
<1>14. QED
    BY <1>11, <1>12, <1>13, ArtistQuiet DEF Style!CellFails

(* The record changes. *)
LEMMA StudioRecord ==
  ASSUME StyleInv, NEW m \in Manifests, NEW s, s = [studio EXCEPT !.manifest = m],
         m.talk = "own" => CellsTrue(m.cells, studio.grid, m.schema)
  PROVE  s \in Studios /\ StudioTrue(s) /\ s.grid = studio.grid
         /\ \A b \in Artists : Busied(artists[b], s)
<1>1. studio \in Studios /\ StudioTrue(studio)
    BY DEF StyleInv
<1>2. /\ s \in Studios /\ s.grid = studio.grid /\ s.manifest = m
      /\ s.versions = studio.versions
    BY <1>1 DEF Studios
<1>3. StudioTrue(s)
    BY <1>1, <1>2 DEF StudioTrue
<1>4. QED
    BY <1>2, <1>3, StyleAt DEF Busied

LEMMA ManifestOpens ==
  ASSUME StyleInv, NEW a \in Artists, Style!OpenManifest(a) PROVE StyleInv'
<1>1. PICK x : x = artists[a]
    OBVIOUS
<1>2. x \in Explorers /\ x.pc = "exploring" /\ Busied(x, studio)
    BY <1>1, StyleAt, InvokedAre DEF Style!OpenManifest
<1>3. PICK m : m = Style!TornManifest
    OBVIOUS
<1>4. m \in Manifests /\ m.cells = {}
    BY <1>3 DEF Style!TornManifest, Manifests
<1>5. PICK s : s = [studio EXCEPT !.manifest = m]
    OBVIOUS
<1>6. s \in Studios /\ StudioTrue(s) /\ s.grid = studio.grid
      /\ \A b \in Artists : Busied(artists[b], s)
    BY <1>4, <1>5, StudioRecord DEF CellsTrue
<1>7. PICK y : y = [x EXCEPT !.pc = "recording"]
    OBVIOUS
<1>8. y \in Explorers /\ y.pc = "recording" /\ y.cells = x.cells
    BY <1>2, <1>7 DEF Explorers
<1>9. y \in Invoked /\ Busied(y, s)
    BY <1>2, <1>6, <1>8 DEF Busied, Invoked
<1>10. artists' = [artists EXCEPT ![a] = y] /\ studio' = s
    <2>1. artists \in [Artists -> Invoked]
        BY DEF StyleInv
    <2>2. QED
        BY <1>1, <1>3, <1>5, <1>7, <2>1 DEF Style!OpenManifest
<1>11. QED
    BY <1>6, <1>9, <1>10, ArtistMoves

LEMMA ManifestWritten ==
  ASSUME StyleInv, NEW a \in Artists, Style!WriteManifest(a) PROVE StyleInv'
<1>1. PICK x : x = artists[a]
    OBVIOUS
<1>2. x \in Explorers /\ x.pc = "recording" /\ Busied(x, studio)
    BY <1>1, StyleAt, InvokedAre DEF Style!WriteManifest
<1>3. PICK m : m = [schema |-> 2, talk |-> "own", cells |-> x.cells]
    OBVIOUS
<1>4. m \in Manifests /\ m.cells = x.cells /\ m.schema = 2
    BY <1>2, <1>3 DEF Manifests, Explorers
<1>5. PICK s : s = [studio EXCEPT !.manifest = m]
    OBVIOUS
<1>6. s \in Studios /\ StudioTrue(s) /\ \A b \in Artists : Busied(artists[b], s)
    BY <1>2, <1>4, <1>5, StudioRecord DEF Busied
<1>7. PICK i : i = Style!Idle
    OBVIOUS
<1>8. i \in Invoked /\ Busied(i, s)
    BY <1>7, ArtistIdle DEF Busied
<1>9. artists' = [artists EXCEPT ![a] = i] /\ studio' = s
    BY <1>1, <1>3, <1>5, <1>7 DEF Style!WriteManifest, Style!End
<1>10. QED
    BY <1>6, <1>8, <1>9, ArtistMoves

LEMMA VersionNumbers ==
  ASSUME StyleInv
  PROVE  /\ Style!NextVersion \in Nat /\ 2 <= Style!NextVersion
         /\ \A f \in DOMAIN studio.versions :
              f \in Versions /\ f.number < Style!NextVersion
<1>1. studio.versions \in Files(Versions, Nat)
    BY DEF StyleInv, Studios
<1>2. \A f \in DOMAIN studio.versions : f \in Versions
    BY <1>1, FilesAre
<1>3. \A f \in DOMAIN studio.versions : f.number \in Nat
    BY <1>2 DEF Versions
<1>4. PICK k \in Nat : \A f \in DOMAIN studio.versions : f.number <= k
    BY DEF StyleInv, StudioTrue
<1>5. \A f \in DOMAIN studio.versions : f.number \in Nat /\ f.number <= k
    BY <1>3, <1>4
<1>6. /\ Style!NextVersion \in Nat /\ 2 <= Style!NextVersion
      /\ \A f \in DOMAIN studio.versions : f.number < Style!NextVersion
    BY <1>5, NextAbove
<1>7. QED
    BY <1>2, <1>6

LEMMA GenerationStarts ==
  ASSUME StyleInv, NEW a \in Artists, Style!StartGenerate(a) PROVE StyleInv'
<1>1. PICK number \in {1, None} :
        artists' = [artists EXCEPT ![a] = [pc |-> "rendering", number |-> number, known |-> {}]]
    BY DEF Style!StartGenerate, Style!Base, Style!Rendering
<1>2. PICK x : x = [pc |-> "rendering", number |-> number, known |-> {}]
    OBVIOUS
<1>3. number \in (Nat \ {0}) \union {None}
    BY <1>1
<1>4. x \in Painters /\ x.pc = "rendering" /\ x.known = {}
    BY <1>2, <1>3 DEF Painters
<1>5. x \in Invoked /\ Busied(x, studio)
    BY <1>4 DEF Invoked, Busied
<1>6. QED
    BY <1>1, <1>2, <1>5, ArtistQuiet DEF Style!StartGenerate

LEMMA EditStarts ==
  ASSUME StyleInv, NEW a \in Artists, Style!StartEdit(a) PROVE StyleInv'
<1>1. PICK number : number = Style!NextVersion
    OBVIOUS
<1>2. PICK known : known = DOMAIN studio.versions
    OBVIOUS
<1>3. PICK x : x = [pc |-> "rendering", number |-> number, known |-> known]
    OBVIOUS
<1>4. /\ number \in Nat /\ 2 <= number
      /\ \A f \in known : f \in Versions /\ f.number < number
    BY <1>1, <1>2, VersionNumbers
<1>5. number \in (Nat \ {0}) \union {None} /\ known \in SUBSET Versions
    BY <1>4
<1>6. /\ x \in Painters /\ x.pc = "rendering" /\ x.known = known /\ x.number = number
    BY <1>3, <1>5 DEF Painters
<1>7. x \in Invoked /\ Busied(x, studio)
    BY <1>4, <1>6 DEF Invoked, Busied
<1>8. artists' = [artists EXCEPT ![a] = x] /\ UNCHANGED studio
    BY <1>1, <1>2, <1>3 DEF Style!StartEdit, Style!Rendering
<1>9. QED
    BY <1>7, <1>8, ArtistQuiet

(* A change that leaves grid and record alone. *)
LEMMA StudioAside ==
  ASSUME StyleInv, NEW s \in Studios, s.grid = studio.grid, s.manifest = studio.manifest,
         NEW k \in Nat, \A f \in DOMAIN s.versions : f.number <= k
  PROVE  StudioTrue(s) /\ \A b \in Artists : Busied(artists[b], s)
<1>1. StudioTrue(studio)
    BY DEF StyleInv
<1>2. StudioTrue(s)
    BY <1>1 DEF StudioTrue
<1>3. QED
    BY <1>2, StyleAt DEF Busied

LEMMA VersionWritten ==
  ASSUME NEW g \in Files(Versions, Nat), NEW f \in Versions, NEW v \in Nat,
         NEW h, h = Style!With(g, f, v)
  PROVE  /\ h \in Files(Versions, Nat) /\ DOMAIN h = DOMAIN g \union {f}
         /\ \A k \in DOMAIN h : k # f => k \in DOMAIN g /\ h[k] = g[k]
<1>1. /\ DOMAIN h = DOMAIN g \union {f} /\ h[f] = v
      /\ h = [k \in DOMAIN h |-> h[k]]
      /\ \A k \in DOMAIN h : k # f => k \in DOMAIN g /\ h[k] = g[k]
    BY DEF Style!With
<1>2. DOMAIN g \subseteq Versions /\ \A k \in DOMAIN g : g[k] \in Nat
    BY FilesAre
<1>3. DOMAIN h \subseteq Versions /\ \A k \in DOMAIN h : h[k] \in Nat
    BY <1>1, <1>2
<1>4. QED
    BY <1>1, <1>3, FilesAre

(* An image is saved: over an earlier version only by who could not know of it. *)
LEMMA ImageSaved ==
  ASSUME StyleInv, NEW a \in Artists, artists[a].pc = "rendering", NEW ext \in Exts,
         NEW s, s = Style!Saved(a, ext)
  PROVE  /\ s \in Studios /\ StudioTrue(s) /\ \A b \in Artists : Busied(artists[b], s)
         /\ \A f \in DOMAIN studio.versions \intersect DOMAIN s.versions :
              s.versions[f] # studio.versions[f] =>
                artists[a].number = f.number /\ f \notin artists[a].known
<1>1. PICK x : x = artists[a]
    OBVIOUS
<1>2. /\ studio \in Studios /\ StudioTrue(studio) /\ x \in Painters /\ Busied(x, studio)
      /\ x.pc = "rendering"
    BY <1>1, StyleAt, InvokedAre
<1>3. PICK made \in Nat : made = studio.made + 1
    BY <1>2 DEF Studios
<1>4. PICK k \in Nat : \A f \in DOMAIN studio.versions : f.number <= k
    BY <1>2 DEF StudioTrue
<1>5. CASE x.number = 1
    <2>1. PICK base : base = studio.base \union {ext}
        OBVIOUS
    <2>2. base \in SUBSET Exts
        BY <1>2, <2>1 DEF Studios
    <2>3. s = [studio EXCEPT !.made = made, !.base = base]
        BY <1>1, <1>2, <1>3, <1>5, <2>1 DEF Style!Saved, Style!Base, Studios
    <2>4. /\ s \in Studios /\ s.grid = studio.grid /\ s.manifest = studio.manifest
          /\ s.versions = studio.versions
        BY <1>2, <1>3, <2>2, <2>3 DEF Studios
    <2>5. StudioTrue(s) /\ \A b \in Artists : Busied(artists[b], s)
        BY <1>4, <2>4, StudioAside
    <2>6. QED
        BY <2>4, <2>5
<1>6. CASE x.number # 1
    <2>1. PICK n : n = Style!Number(a)
        OBVIOUS
    <2>2. n = IF x.number = None THEN Style!NextVersion ELSE x.number
        BY <1>1, <2>1 DEF Style!Number
    <2>3. n \in Nat \ {0, 1}
        <3>1. x.number \in (Nat \ {0}) \union {None}
            BY <1>2 DEF Painters
        <3>2. CASE x.number = None
            BY <2>2, <3>2, VersionNumbers
        <3>3. CASE x.number # None
            BY <1>6, <2>2, <3>1, <3>3
        <3>4. QED
            BY <3>2, <3>3
    <2>4. PICK f \in Versions : f = [number |-> n, ext |-> ext]
        BY <2>3 DEF Versions
    <2>5. f.number = n
        BY <2>4
    <2>6. PICK g \in Files(Versions, Nat) : g = studio.versions
        BY <1>2 DEF Studios
    <2>a. f \in Versions /\ g \in Files(Versions, Nat) /\ made \in Nat
        BY <1>3, <2>4, <2>6
    <2>7. PICK h : h = Style!With(g, f, made)
        OBVIOUS
    <2>8. /\ h \in Files(Versions, Nat) /\ DOMAIN h = DOMAIN g \union {f}
          /\ \A v \in DOMAIN h : v # f => v \in DOMAIN g /\ h[v] = g[v]
        BY <2>7, <2>a, VersionWritten
    <2>9. s = [studio EXCEPT !.made = made, !.versions = h]
        BY <1>1, <1>2, <1>3, <1>6, <2>1, <2>4, <2>6, <2>7
           DEF Style!Saved, Style!Base, Style!Fresh, Studios
    <2>10. /\ s \in Studios /\ s.grid = studio.grid /\ s.manifest = studio.manifest
           /\ s.versions = h
        BY <1>2, <1>3, <2>8, <2>9 DEF Studios
    <2>11. PICK j \in Nat : j = k + n
        BY <1>4, <2>3
    <2>12. \A v \in DOMAIN s.versions : v.number <= j
        <3>1. \A v \in DOMAIN g : v.number \in Nat /\ v.number <= k
            BY <1>4, <2>6, VersionNumbers DEF Versions
        <3>2. QED
            BY <1>4, <2>3, <2>5, <2>8, <2>10, <2>11, <3>1
    <2>13. StudioTrue(s) /\ \A b \in Artists : Busied(artists[b], s)
        BY <2>10, <2>11, <2>12, StudioAside
    <2>14. ASSUME NEW v \in DOMAIN studio.versions, v \in DOMAIN s.versions,
                  s.versions[v] # studio.versions[v]
           PROVE  x.number = v.number /\ v \notin x.known
        <3>1. v = f /\ f \in DOMAIN studio.versions
            BY <2>6, <2>8, <2>10, <2>14
        <3>2. n # Style!NextVersion
            BY <2>3, <2>5, <3>1, VersionNumbers
        <3>3. x.number = n /\ x.number # None
            BY <2>2, <3>2
        <3>4. \A w \in x.known : w.number < x.number
            BY <1>2, <1>6, <3>3 DEF Busied
        <3>5. QED
            BY <2>3, <2>5, <3>1, <3>3, <3>4
    <2>15. QED
        BY <1>1, <2>10, <2>13, <2>14
<1>7. QED
    BY <1>5, <1>6

LEMMA ArtistEnds ==
  ASSUME StyleInv, NEW a \in Artists, Style!End(a), NEW s \in Studios, studio' = s,
         StudioTrue(s), \A b \in Artists : Busied(artists[b], s)
  PROVE  StyleInv'
<1>1. PICK i : i = Style!Idle
    OBVIOUS
<1>2. i \in Invoked /\ Busied(i, s)
    BY <1>1, ArtistIdle DEF Busied
<1>3. artists' = [artists EXCEPT ![a] = i]
    BY <1>1 DEF Style!End
<1>4. QED
    BY <1>2, <1>3, ArtistMoves

LEMMA ArtistFails ==
  ASSUME StyleInv, NEW a \in Artists, Style!End(a), UNCHANGED studio PROVE StyleInv'
<1>1. PICK s : s = studio /\ s = studio'
    OBVIOUS
<1>2. s \in Studios /\ StudioTrue(s) /\ \A b \in Artists : Busied(artists[b], s)
    BY <1>1 DEF StyleInv
<1>3. QED
    BY <1>1, <1>2, ArtistEnds

LEMMA ImageSaves ==
  ASSUME StyleInv, NEW a \in Artists, artists[a].pc = "rendering", NEW ext \in Exts,
         studio' = Style!Saved(a, ext), Style!End(a)
  PROVE  StyleInv'
<1>1. PICK s : s = Style!Saved(a, ext)
    OBVIOUS
<1>2. s \in Studios /\ StudioTrue(s) /\ \A b \in Artists : Busied(artists[b], s)
    BY <1>1, ImageSaved
<1>3. QED
    BY <1>1, <1>2, ArtistEnds

LEMMA GridTorn ==
  ASSUME StyleInv, NEW a \in Artists, artists[a].pc = "exploring", artists[a].left # {},
         NEW lane \in {"api", "cli"}, NEW ext \in Exts,
         studio' = [studio EXCEPT !.made = @ + 1,
                      !.grid = Style!With(@, Style!CellFile(Style!NextCell(a), lane, ext),
                                          Style!TornImage)],
         Style!End(a)
  PROVE  StyleInv'
<1>1. artists[a] \in Explorers
    BY StyleAt, InvokedAre
<1>2. PICK model \in Models : model = Style!NextCell(a)
    BY <1>1, NextCellIs
<1>3. PICK f \in CellFiles : f = Style!CellFile(model, lane, ext)
    BY CellNamed
<1>4. PICK v \in Drawings : v = Style!TornImage
    BY DEF Style!TornImage, Drawings
<1>5. v.talk = "own" /\ v.lane = "torn"
    BY <1>4 DEF Style!TornImage
<1>6. PICK h : h = Style!With(studio.grid, f, v)
    OBVIOUS
<1>7. studio \in Studios
    BY StyleAt
<1>8. PICK made \in Nat : made = studio.made + 1
    BY <1>7 DEF Studios
<1>9. PICK s : s = [studio EXCEPT !.made = made, !.grid = h]
    OBVIOUS
<1>10. studio' = s
    BY <1>2, <1>3, <1>4, <1>6, <1>7, <1>8, <1>9 DEF Studios
<1>11. /\ s \in Studios /\ StudioTrue(s) /\ \A b \in Artists : Busied(artists[b], s)
    BY <1>5, <1>6, <1>8, <1>9, GridPainted
<1>12. QED
    BY <1>10, <1>11, ArtistEnds

LEMMA ArtistKilled ==
  ASSUME StyleInv, NEW a \in Artists, Style!Killed(a) PROVE StyleInv'
<1>1. CASE UNCHANGED studio
    BY <1>1, ArtistFails DEF Style!Killed
<1>2. CASE artists[a].pc = "rendering" /\ \E ext \in Exts : studio' = Style!Saved(a, ext)
    BY <1>2, ImageSaves DEF Style!Killed
<1>3. CASE /\ artists[a].pc = "exploring" /\ artists[a].left # {}
           /\ \E lane \in Style!Lanes, ext \in Exts :
                studio' = [studio EXCEPT !.made = @ + 1,
                             !.grid = Style!With(@, Style!CellFile(Style!NextCell(a), lane, ext),
                                                 Style!TornImage)]
    BY <1>3, GridTorn DEF Style!Killed, Style!Lanes
<1>4. QED
    BY <1>1, <1>2, <1>3 DEF Style!Killed

LEMMA OwnerActs ==
  ASSUME StyleInv, NEW s \in Studios, studio' = s, UNCHANGED artists,
         StudioTrue(s), \A b \in Artists : Busied(artists[b], s)
  PROVE  StyleInv'
<1>1. PICK z : z = s /\ z = studio'
    OBVIOUS
<1>2. PICK y : y = artists /\ y = artists'
    OBVIOUS
<1>3. /\ z \in Studios /\ StudioTrue(z) /\ y \in [Artists -> Invoked]
      /\ \A b \in Artists : Busied(y[b], z)
    BY <1>1, <1>2 DEF StyleInv
<1>4. QED
    BY <1>1, <1>2, <1>3 DEF StyleInv

LEMMA OwnerBakes == ASSUME StyleInv, Style!Bake PROVE StyleInv'
<1>1. studio \in Studios /\ StudioTrue(studio)
    BY DEF StyleInv
<1>2. PICK model \in Models : studio' = [studio EXCEPT !.baked = model, !.moves = @ + 1]
    BY DEF Style!Bake
<1>3. PICK moves \in Nat : moves = studio.moves + 1
    BY <1>1 DEF Studios
<1>4. PICK s : s = [studio EXCEPT !.baked = model, !.moves = moves]
    OBVIOUS
<1>5. /\ s \in Studios /\ s.grid = studio.grid /\ s.manifest = studio.manifest
      /\ s.versions = studio.versions
    BY <1>1, <1>2, <1>3, <1>4 DEF Studios
<1>6. PICK k \in Nat : \A f \in DOMAIN studio.versions : f.number <= k
    BY <1>1 DEF StudioTrue
<1>7. StudioTrue(s) /\ \A b \in Artists : Busied(artists[b], s)
    BY <1>5, <1>6, StudioAside
<1>8. studio' = s /\ UNCHANGED artists
    BY <1>2, <1>3, <1>4 DEF Style!Bake
<1>9. QED
    BY <1>5, <1>7, <1>8, OwnerActs

LEMMA VersionGone ==
  ASSUME NEW g \in Files(Versions, Nat), NEW f, NEW h, h = Style!Without(g, f)
  PROVE  /\ h \in Files(Versions, Nat)
         /\ \A k \in DOMAIN h : k \in DOMAIN g /\ h[k] = g[k]
<1>1. /\ DOMAIN h = DOMAIN g \ {f} /\ h = [k \in DOMAIN h |-> h[k]]
      /\ \A k \in DOMAIN h : k \in DOMAIN g /\ h[k] = g[k]
    BY DEF Style!Without
<1>2. DOMAIN g \subseteq Versions /\ \A k \in DOMAIN g : g[k] \in Nat
    BY FilesAre
<1>3. DOMAIN h \subseteq Versions /\ \A k \in DOMAIN h : h[k] \in Nat
    BY <1>1, <1>2
<1>4. QED
    BY <1>1, <1>3, FilesAre

LEMMA OwnerDiscards ==
  ASSUME StyleInv, Style!Discard
  PROVE  /\ StyleInv'
         /\ \A f \in DOMAIN studio.versions \intersect DOMAIN studio'.versions :
              studio'.versions[f] = studio.versions[f]
<1>1. studio \in Studios /\ StudioTrue(studio)
    BY DEF StyleInv
<1>2. PICK moves \in Nat : moves = studio.moves + 1
    BY <1>1 DEF Studios
<1>3. PICK k \in Nat : \A f \in DOMAIN studio.versions : f.number <= k
    BY <1>1 DEF StudioTrue
<1>4. PICK g \in Files(CellFiles, Drawings) : g = studio.grid
    BY <1>1 DEF Studios
<1>5. PICK v \in Files(Versions, Nat) : v = studio.versions
    BY <1>1 DEF Studios
<1>6. ASSUME NEW f \in DOMAIN studio.grid,
             studio' = [studio EXCEPT !.grid = Style!Without(@, f), !.moves = @ + 1]
      PROVE  /\ StyleInv'
             /\ \A n \in DOMAIN studio.versions \intersect DOMAIN studio'.versions :
                  studio'.versions[n] = studio.versions[n]
    <2>1. PICK h : h = Style!Without(g, f)
        OBVIOUS
    <2>2. /\ h \in Files(CellFiles, Drawings)
          /\ \A c \in DOMAIN h : c \in DOMAIN g /\ h[c] = g[c]
        BY <2>1, FileRemoved
    <2>3. PICK s : s = [studio EXCEPT !.grid = h, !.moves = moves]
        OBVIOUS
    <2>4. studio' = s
        BY <1>1, <1>2, <1>4, <1>6, <2>1, <2>3 DEF Studios
    <2>5. /\ s \in Studios /\ s.grid = h /\ s.manifest = studio.manifest
          /\ s.versions = studio.versions
        BY <1>1, <1>2, <2>2, <2>3 DEF Studios
    <2>6. GridTrue(h)
        BY <1>1, <1>4, <2>2 DEF StudioTrue, GridTrue
    <2>7. \A c \in DOMAIN h : c \in DOMAIN studio.grid /\ h[c] = studio.grid[c]
        BY <1>4, <2>2
    <2>8. StudioTrue(s) /\ \A b \in Artists : Busied(artists[b], s)
        BY <2>2, <2>5, <2>6, <2>7, StudioGrid
    <2>9. QED
        BY <2>4, <2>5, <2>8, OwnerActs DEF Style!Discard
<1>7. ASSUME NEW f \in DOMAIN studio.versions,
             studio' = [studio EXCEPT !.versions = Style!Without(@, f), !.moves = @ + 1]
      PROVE  /\ StyleInv'
             /\ \A n \in DOMAIN studio.versions \intersect DOMAIN studio'.versions :
                  studio'.versions[n] = studio.versions[n]
    <2>1. PICK h : h = Style!Without(v, f)
        OBVIOUS
    <2>2. /\ h \in Files(Versions, Nat)
          /\ \A c \in DOMAIN h : c \in DOMAIN v /\ h[c] = v[c]
        BY <2>1, VersionGone
    <2>3. PICK s : s = [studio EXCEPT !.versions = h, !.moves = moves]
        OBVIOUS
    <2>4. studio' = s
        BY <1>1, <1>2, <1>5, <1>7, <2>1, <2>3 DEF Studios
    <2>5. /\ s \in Studios /\ s.grid = studio.grid /\ s.manifest = studio.manifest
          /\ s.versions = h
        BY <1>1, <1>2, <2>2, <2>3 DEF Studios
    <2>6. \A c \in DOMAIN s.versions : c.number <= k
        BY <1>3, <1>5, <2>2, <2>5
    <2>7. StudioTrue(s) /\ \A b \in Artists : Busied(artists[b], s)
        BY <2>5, <2>6, StudioAside
    <2>8. QED
        BY <1>5, <2>2, <2>4, <2>5, <2>7, OwnerActs DEF Style!Discard
<1>8. QED
    BY <1>6, <1>7 DEF Style!Discard

(* Another talk's grid comes with its record: one cell more, drawn through the API. *)
LEMMA GridCopied ==
  ASSUME NEW g \in Files(CellFiles, Drawings), GridTrue(g),
         NEW f \in CellFiles, ~f.native, NEW v \in Drawings,
         v.model = f.model, v.lane = "api", NEW h, h = Style!With(g, f, v)
  PROVE  h \in Files(CellFiles, Drawings) /\ GridTrue(h)
<1>1. /\ h \in Files(CellFiles, Drawings) /\ DOMAIN h = DOMAIN g \union {f} /\ h[f] = v
      /\ \A k \in DOMAIN h : k # f => k \in DOMAIN g /\ h[k] = g[k]
    BY FileWritten
<1>2. QED
    BY <1>1 DEF GridTrue

LEMMA CopyDrawn ==
  ASSUME NEW model \in Models, NEW ext \in Exts, NEW f, f = Style!CellFile(model, "api", ext)
  PROVE  f \in CellFiles /\ f.model = model /\ f.native = FALSE
<1>1. PICK lane \in {"api", "cli"} : lane = "api"
    OBVIOUS
<1>2. f = Style!CellFile(model, lane, ext)
    BY <1>1
<1>3. f \in CellFiles /\ f.model = model /\ f.native = (lane = "cli")
    BY <1>2, CellNamed
<1>4. QED
    BY <1>1, <1>3

LEMMA OwnerCopies == ASSUME StyleInv, Style!Copy PROVE StyleInv'
<1>1. studio \in Studios /\ StudioTrue(studio)
    BY DEF StyleInv
<1>2. \A a \in Artists : artists[a].pc \notin {"exploring", "recording"}
    BY DEF Style!Copy
<1>3. PICK model \in Models, ext \in Exts :
        LET file == Style!CellFile(model, "api", ext) IN
        studio' = [studio EXCEPT
          !.moves = @ + 1,
          !.grid = Style!With(@, file, [model |-> model, lane |-> "api", talk |-> "other"]),
          !.manifest = [schema |-> 2, talk |-> "other",
                        cells |-> {[model |-> model, status |-> "OK", lane |-> "api",
                                    file |-> file]}]]
    BY DEF Style!Copy
<1>4. PICK f : f = Style!CellFile(model, "api", ext)
    OBVIOUS
<1>5. f \in CellFiles /\ f.model = model /\ f.native = FALSE
    <2>1. model \in Models /\ ext \in Exts
        OBVIOUS
    <2>2. QED
        BY <1>4, <2>1, CopyDrawn
<1>6. PICK v \in Drawings : v = [model |-> model, lane |-> "api", talk |-> "other"]
    BY <1>3 DEF Drawings
<1>7. PICK c : c = [model |-> model, status |-> "OK", lane |-> "api", file |-> f]
    OBVIOUS
<1>8. c \in Cells
    BY <1>3, <1>5, <1>7 DEF Cells
<1>9. PICK m : m = [schema |-> 2, talk |-> "other", cells |-> {c}]
    OBVIOUS
<1>10. m \in Manifests /\ m.talk # "own"
    BY <1>8, <1>9 DEF Manifests
<1>11. PICK moves \in Nat : moves = studio.moves + 1
    BY <1>1 DEF Studios
<1>12. PICK g \in Files(CellFiles, Drawings) : g = studio.grid
    BY <1>1 DEF Studios
<1>13. PICK h : h = Style!With(g, f, v)
    OBVIOUS
<1>14. h \in Files(CellFiles, Drawings) /\ GridTrue(h)
    <2>1. GridTrue(g)
        BY <1>1, <1>12 DEF StudioTrue
    <2>2. f \in CellFiles /\ ~f.native /\ v.model = f.model /\ v.lane = "api"
        BY <1>5, <1>6
    <2>3. QED
        BY <1>13, <2>1, <2>2, GridCopied
<1>15. PICK s : s = [studio EXCEPT !.moves = moves, !.grid = h, !.manifest = m]
    OBVIOUS
<1>16. studio' = s
    BY <1>1, <1>3, <1>4, <1>6, <1>7, <1>9, <1>11, <1>12, <1>13, <1>15 DEF Studios
<1>17. s \in Studios /\ s.grid = h /\ s.manifest = m /\ s.versions = studio.versions
    BY <1>1, <1>10, <1>11, <1>14, <1>15 DEF Studios
<1>18. StudioTrue(s)
    BY <1>1, <1>10, <1>14, <1>17 DEF StudioTrue
<1>19. \A b \in Artists : Busied(artists[b], s)
    BY <1>2, StyleAt DEF Busied
<1>20. QED
    BY <1>16, <1>17, <1>18, <1>19, OwnerActs DEF Style!Copy

LEMMA StyleStarts == Style!Init => StyleInv
<1>1. SUFFICES ASSUME Style!Init PROVE StyleInv
    OBVIOUS
<1>2. PICK explored \in {{}, Models}, baked \in Models \union {None}, ext \in Exts :
        LET files == {Style!CellFile(model, "api", ext) : model \in explored} IN
        studio =
          [baked |-> baked, made |-> 0, moves |-> 0, base |-> {},
           versions |-> IF explored = {} THEN <<>>
                        ELSE Style!With(<<>>, [number |-> 2, ext |-> ext], 0),
           grid |-> [f \in files |-> [model |-> f.model, lane |-> "api", talk |-> "own"]],
           manifest |-> IF explored = {} THEN None
                        ELSE [schema |-> 1, talk |-> "own",
                              cells |-> {[model |-> f.model, status |-> "OK", lane |-> None,
                                          file |-> f] : f \in files}]]
    BY <1>1 DEF Style!Init
<1>3. PICK files : files = {Style!CellFile(model, "api", ext) : model \in explored}
    OBVIOUS
<1>4. \A f \in files : f \in CellFiles /\ f.model \in Models /\ ~f.native
    <2>1. SUFFICES ASSUME NEW f \in files PROVE f \in CellFiles /\ f.model \in Models /\ ~f.native
        OBVIOUS
    <2>2. PICK model \in explored : f = Style!CellFile(model, "api", ext)
        BY <1>3
    <2>3. model \in Models
        BY <1>2, <2>2
    <2>4. f \in CellFiles /\ f.model = model /\ f.native = ("api" = "cli")
        BY <1>2, <2>2, <2>3, CellNamed
    <2>5. QED
        BY <2>3, <2>4
<1>5. PICK g : g = [f \in files |-> [model |-> f.model, lane |-> "api", talk |-> "own"]]
    OBVIOUS
<1>6. /\ DOMAIN g = files /\ g = [k \in DOMAIN g |-> g[k]]
      /\ \A f \in files : /\ g[f] \in Drawings /\ g[f].model = f.model
                          /\ g[f].lane = "api" /\ g[f].talk = "own"
    BY <1>4, <1>5 DEF Drawings
<1>7. g \in Files(CellFiles, Drawings)
    BY <1>4, <1>6, FilesAre
<1>8. PICK v : v = IF explored = {} THEN <<>>
                   ELSE Style!With(<<>>, [number |-> 2, ext |-> ext], 0)
    OBVIOUS
<1>9. v \in Files(Versions, Nat) /\ \A f \in DOMAIN v : f.number <= 2
    <2>1. PICK e : e = <<>>
        OBVIOUS
    <2>2. DOMAIN e = {} /\ e = [k \in DOMAIN e |-> e[k]]
        BY <2>1
    <2>3. e \in Files(Versions, Nat)
        <3>1. DOMAIN e \subseteq Versions /\ \A k \in DOMAIN e : e[k] \in Nat
            BY <2>2
        <3>2. e \in [DOMAIN e -> Nat]
            BY <2>2
        <3>3. QED
            BY <3>1, <3>2 DEF Files
    <2>4. PICK f : f = [number |-> 2, ext |-> ext]
        OBVIOUS
    <2>5. f \in Versions /\ f.number = 2
        BY <1>2, <2>4 DEF Versions
    <2>6. CASE explored = {}
        BY <1>8, <2>1, <2>2, <2>3, <2>6
    <2>7. CASE explored # {}
        <3>1. PICK z \in Nat : z = 0
            OBVIOUS
        <3>2. v = Style!With(e, f, z)
            BY <1>8, <2>1, <2>4, <2>7, <3>1
        <3>3. v \in Files(Versions, Nat) /\ DOMAIN v = DOMAIN e \union {f}
            BY <2>3, <2>5, <3>2, VersionWritten
        <3>4. QED
            BY <2>2, <2>5, <3>3
    <2>8. QED
        BY <2>6, <2>7
<1>10. PICK cells : cells = {[model |-> f.model, status |-> "OK", lane |-> None, file |-> f] :
                               f \in files}
    OBVIOUS
<1>11. \A c \in cells : /\ c \in Cells /\ c.file \in files /\ c.file.model = c.model
    BY <1>4, <1>10 DEF Cells
<1>12. PICK m : m = IF explored = {} THEN None
                    ELSE [schema |-> 1, talk |-> "own", cells |-> cells]
    OBVIOUS
<1>13. /\ m \in Manifests \union {None}
       /\ m # None => m.cells = cells /\ m.schema = 1
    BY <1>11, <1>12 DEF Manifests
<1>14. PICK s : s = [baked |-> baked, made |-> 0, moves |-> 0, base |-> {},
                     versions |-> v, grid |-> g, manifest |-> m]
    OBVIOUS
<1>15. studio = s
    BY <1>2, <1>3, <1>5, <1>8, <1>10, <1>12, <1>14
<1>16. /\ s \in Studios /\ s.grid = g /\ s.manifest = m /\ s.versions = v
    BY <1>2, <1>7, <1>9, <1>13, <1>14 DEF Studios
<1>17. GridTrue(g)
    BY <1>4, <1>6 DEF GridTrue
<1>18. CellsTrue(cells, g, 1)
    BY <1>4, <1>6, <1>11 DEF CellsTrue
<1>19. StudioTrue(s)
    BY <1>9, <1>13, <1>16, <1>17, <1>18 DEF StudioTrue
<1>20. PICK i : i = Style!Idle
    OBVIOUS
<1>21. i \in Invoked /\ Busied(i, s)
    BY <1>20, ArtistIdle DEF Busied
<1>22. artists = [a \in Artists |-> i]
    BY <1>1, <1>20 DEF Style!Init
<1>23. QED
    BY <1>15, <1>16, <1>19, <1>21, <1>22 DEF StyleInv

LEMMA StyleMoves ==
  ASSUME StyleInv, Style!Next PROVE StyleInv'
<1>1. ASSUME NEW a \in Artists, Style!StartExplore(a) \/ Style!RenderCell(a) \/ Style!CellFails(a)
                                \/ Style!OpenManifest(a) \/ Style!WriteManifest(a)
      PROVE  StyleInv'
    BY <1>1, ExplorationStarts, CellRenders, CellsFail, ManifestOpens, ManifestWritten
<1>2. ASSUME NEW a \in Artists, Style!StartGenerate(a) \/ Style!StartEdit(a) \/ Style!Save(a)
                                \/ Style!RenderFails(a) \/ Style!Killed(a)
      PROVE  StyleInv'
    BY <1>2, GenerationStarts, EditStarts, ImageSaves, ArtistFails, ArtistKilled
       DEF Style!Save, Style!RenderFails
<1>3. QED
    BY <1>1, <1>2, OwnerBakes, OwnerDiscards, OwnerCopies DEF Style!Next

LEMMA StyleTypes ==
  ASSUME StyleInv PROVE Style!TypeOK
<1>1. studio \in Studios
    BY DEF StyleInv
<1>2. DOMAIN studio.versions \subseteq Versions /\ DOMAIN studio.grid \subseteq CellFiles
    BY <1>1, FilesAre DEF Studios
<1>3. \A a \in Artists : artists[a].pc \in {"idle", "exploring", "recording", "rendering"}
    BY StyleAt DEF Invoked, Explorers, Painters
<1>4. QED
    BY <1>1, <1>2, <1>3 DEF Style!TypeOK, Studios, Versions, CellFiles

LEMMA EvidenceTrue ==
  ASSUME StyleInv PROVE Style!EvidenceIsOfModel
<1>1. SUFFICES ASSUME NEW model \in Models, Style!GatePasses(model)
      PROVE  \E cell \in studio.manifest.cells :
               /\ Style!Evidence(studio.manifest, cell, model)
               /\ studio.grid[cell.file].lane # "torn" =>
                    /\ studio.grid[cell.file].model = model
                    /\ studio.grid[cell.file].lane = "api"
                    /\ studio.grid[cell.file].talk = "own"
    BY DEF Style!EvidenceIsOfModel
<1>2. studio \in Studios /\ StudioTrue(studio)
    BY DEF StyleInv
<1>3. PICK m \in Manifests : m = studio.manifest /\ m # None /\ m.talk = "own"
    BY <1>1, <1>2 DEF Style!GatePasses, Studios
<1>4. PICK cell \in m.cells : Style!Evidence(m, cell, model)
    BY <1>1, <1>3 DEF Style!GatePasses
<1>5. /\ cell.status = "OK" /\ cell.file \in DOMAIN studio.grid /\ cell.model = model
      /\ m.schema = 2 => cell.lane = "api"
    BY <1>4 DEF Style!Evidence
<1>6. CellsTrue(m.cells, studio.grid, m.schema) /\ GridTrue(studio.grid)
    BY <1>2, <1>3 DEF StudioTrue
<1>7. /\ cell.file.model = model /\ ~cell.file.native
      /\ studio.grid[cell.file].talk = "own"
    BY <1>4, <1>5, <1>6 DEF CellsTrue
<1>8. studio.grid[cell.file].lane # "torn" =>
        studio.grid[cell.file].model = model /\ studio.grid[cell.file].lane = "api"
    BY <1>5, <1>6, <1>7 DEF GridTrue
<1>9. QED
    BY <1>3, <1>4, <1>7, <1>8

(* A version is written over only by a run that chose its number before it was there. *)
LEMMA VersionSurvives ==
  ASSUME StyleInv, Style!Next,
         NEW f \in DOMAIN studio.versions \intersect DOMAIN studio'.versions,
         studio'.versions[f] # studio.versions[f]
  PROVE  \E a \in Artists :
           /\ artists[a].pc = "rendering" /\ artists[a].number = f.number
           /\ f \notin artists[a].known
<1>1. ASSUME NEW a \in Artists, artists[a].pc = "rendering", NEW ext \in Exts,
             studio' = Style!Saved(a, ext)
      PROVE  artists[a].number = f.number /\ f \notin artists[a].known
    <2>1. PICK s : s = Style!Saved(a, ext)
        OBVIOUS
    <2>2. s = studio' /\ f \in DOMAIN studio.versions \intersect DOMAIN s.versions
          /\ s.versions[f] # studio.versions[f]
        BY <1>1, <2>1
    <2>3. QED
        BY <1>1, <2>1, <2>2, ImageSaved
<1>2. studio \in Studios
    BY DEF StyleInv
<1>3. ~Style!Discard
    BY OwnerDiscards
<1>4. studio'.versions # studio.versions
    OBVIOUS
<1>5. PICK a \in Artists : Style!Save(a) \/ (Style!Killed(a) /\ artists[a].pc = "rendering")
    <2>1. ~Style!Bake /\ ~Style!Copy
        BY <1>2, <1>4 DEF Style!Bake, Style!Copy, Studios
    <2>2. ASSUME NEW a \in Artists
          PROVE  ~Style!StartExplore(a) /\ ~Style!RenderCell(a) /\ ~Style!CellFails(a)
                 /\ ~Style!OpenManifest(a) /\ ~Style!WriteManifest(a)
                 /\ ~Style!StartGenerate(a) /\ ~Style!StartEdit(a) /\ ~Style!RenderFails(a)
        BY <1>2, <1>4
           DEF Studios, Style!StartExplore, Style!RenderCell, Style!CellFails,
               Style!OpenManifest, Style!WriteManifest, Style!StartGenerate, Style!StartEdit,
               Style!RenderFails
    <2>3. ASSUME NEW a \in Artists, Style!Killed(a) PROVE artists[a].pc = "rendering"
        BY <1>2, <1>4, <2>3 DEF Style!Killed, Studios
    <2>4. QED
        BY <1>3, <2>1, <2>2, <2>3 DEF Style!Next
<1>6. artists[a].pc = "rendering"
    BY <1>5 DEF Style!Save
<1>7. PICK ext \in Exts : studio' = Style!Saved(a, ext)
    <2>1. studio' # studio
        BY <1>4
    <2>2. QED
        BY <1>5, <1>6, <2>1 DEF Style!Save, Style!Killed
<1>8. QED
    BY <1>1, <1>6, <1>7

-----------------------------------------------------------------------------
(* One call of a supervised worker                                           *)

CallRecords ==
  [pc : {"spawn", "contain", "attach", "launch", "poll", "sample", "settle",
         "sleep", "join", "unwind", "returned"},
   primary : Worker!Reasons \union {None}, outcome : Worker!Reasons \union {None, "ok"},
   started : BOOLEAN, clock : Nat,
   cleaner : {"none", "terminate", "wait", "kill_seen", "close", "join", "check", "done"},
   cleanBy : Nat, failed : BOOLEAN, killed : BOOLEAN]
Procs ==
  [platform : Platforms, child : {"none", "running", "vanished", "zombie", "reaped"},
   code : {0, 1}, heir : {"none", "grouped", "detached", "dead"}, seen : BOOLEAN]
Pipes ==
  [writer : {"idle", "running", "done", "failed"},
   drainer : {"idle", "running", "ended", "failed"},
   sent : Worker!Answers, got : Worker!Answers,
   flood : BOOLEAN, flooded : BOOLEAN, closed : BOOLEAN]

(* Nothing of the call runs any more that it knew of. *)
Clean(p, q) ==
  /\ p.child \in {"none", "reaped"}
  /\ ~(p.seen /\ p.heir \in {"grouped", "detached"})
  /\ q.writer # "running" /\ q.drainer # "running"

Watched == {"poll", "sample", "settle", "sleep", "join"}

(* What the caller's thread may rely on where it stands: only a child that was launched
   is watched, one that is joined has been reaped, and the body ends without a reason
   only when the exit code was zero. *)
Calling(c, p, q) ==
  /\ c.pc # "returned" => c.outcome = None
  /\ c.cleaner # "none" => c.pc \in {"unwind", "returned"}
  /\ c.pc = "spawn" => q.drainer = "idle"
  /\ c.pc \in Watched => c.started
  /\ c.started => q.drainer # "idle"
  /\ c.pc = "join" => p.child = "reaped"
  /\ c.pc = "unwind" /\ c.primary = None => c.started /\ p.child = "reaped" /\ p.code = 0

(* A drainer that came to the end has read all that will ever be written, and a cleanup
   that went through left nothing. *)
Cleaning(c, p, q) ==
  /\ q.drainer = "ended" => p.child # "running" /\ q.got = q.sent
  /\ c.cleaner = "check" => q.writer # "running" /\ q.drainer # "running"
  /\ c.cleaner = "done" /\ ~c.failed => Clean(p, q)

(* Time passes up to the deadline that is looked at next. *)
Timed(c) ==
  /\ c.pc \notin {"unwind", "returned"} => c.clock <= Wall
  /\ c.pc = "unwind" => c.clock <= c.cleanBy
  /\ c.clock <= Wall + Cleanup /\ c.cleanBy <= Wall + Cleanup

Truthful(c, p, q) ==
  /\ c.outcome = "ok" =>
       p.child = "reaped" /\ p.code = 0 /\ q.got = q.sent /\ ~q.flooded
  /\ c.outcome \notin {None, "worker_cleanup_failed"} => Clean(p, q)

WorkerInv ==
  /\ call \in CallRecords /\ procs \in Procs /\ pipes \in Pipes
  /\ Calling(call, procs, pipes) /\ Cleaning(call, procs, pipes)
  /\ Timed(call) /\ Truthful(call, procs, pipes)

LEMMA WorkerAssumed ==
  /\ None \notin Worker!Reasons /\ None # "ok" /\ "ok" \notin Worker!Reasons
  /\ Wall \in Nat /\ Cleanup \in Nat
BY ToolAssumptions DEF Worker!Assumptions, Worker!Reasons

LEMMA WorkerStarts == Worker!Init => WorkerInv
<1>1. SUFFICES ASSUME Worker!Init PROVE WorkerInv
    OBVIOUS
<1>2. call \in CallRecords /\ procs \in Procs /\ pipes \in Pipes
    BY <1>1 DEF Worker!Init, CallRecords, Procs, Pipes, Worker!Answers
<1>3. Calling(call, procs, pipes) /\ Cleaning(call, procs, pipes)
    BY <1>1, WorkerAssumed DEF Worker!Init, Calling, Cleaning, Watched
<1>4. Timed(call) /\ Truthful(call, procs, pipes)
    BY <1>1, WorkerAssumed DEF Worker!Init, Timed, Truthful
<1>5. QED
    BY <1>2, <1>3, <1>4 DEF WorkerInv

(* The body ends: cleanup gets a deadline of its own. *)
LEMMA Unwound ==
  ASSUME WorkerInv, NEW reason \in Worker!Reasons \union {None},
         call.pc \notin {"unwind", "returned"},
         NEW c, c = Worker!Unwind(reason)
  PROVE  /\ c \in CallRecords /\ Timed(c) /\ c.outcome = None
         /\ c.pc = "unwind" /\ c.primary = reason /\ c.started = call.started
         /\ c.cleaner = "terminate"
<1>1. PICK by \in Nat : by = call.clock + Cleanup
    BY WorkerAssumed DEF WorkerInv, CallRecords
<1>2. c = [call EXCEPT !.pc = "unwind", !.primary = reason, !.cleaner = "terminate",
                       !.cleanBy = by]
    BY <1>1 DEF Worker!Unwind
<1>3. /\ c \in CallRecords /\ c.outcome = call.outcome /\ c.clock = call.clock /\ c.cleanBy = by
      /\ c.pc = "unwind" /\ c.primary = reason /\ c.started = call.started
      /\ c.cleaner = "terminate"
    BY <1>2 DEF WorkerInv, CallRecords
<1>4. call.clock <= Wall /\ call.outcome = None /\ call.clock \in Nat
    BY DEF WorkerInv, Timed, Calling, CallRecords
<1>5. QED
    BY <1>1, <1>3, <1>4, WorkerAssumed DEF Timed

(* The body goes on. *)
LEMMA WentOn ==
  ASSUME WorkerInv, call.pc \notin {"unwind", "returned"},
         NEW pc \in {"contain", "attach", "launch"} \union Watched,
         NEW c, c = Worker!Later(pc)
  PROVE  /\ c \in CallRecords /\ Timed(c) /\ c.outcome = None
         /\ c.pc = pc /\ c.primary = call.primary /\ c.started = call.started
         /\ c.cleaner = "none"
<1>1. c = [call EXCEPT !.pc = pc]
    BY DEF Worker!Later
<1>2. /\ c \in CallRecords /\ c.outcome = call.outcome /\ c.clock = call.clock
      /\ c.cleanBy = call.cleanBy /\ c.pc = pc /\ c.primary = call.primary
      /\ c.started = call.started /\ c.cleaner = call.cleaner
    BY <1>1 DEF WorkerInv, CallRecords, Watched
<1>3. call.outcome = None /\ call.cleaner = "none"
    BY DEF WorkerInv, Calling, CallRecords
<1>4. QED
    BY <1>2, <1>3 DEF WorkerInv, Timed, Watched

(* A step that hands over no outcome has only its own rules to keep. *)
LEMMA BodyMoves ==
  ASSUME NEW c \in CallRecords, NEW p \in Procs, NEW q \in Pipes, call' = c, procs' = p, pipes' = q,
         Timed(c), c.outcome = None, Calling(c, p, q), Cleaning(c, p, q)
  PROVE  WorkerInv'
<1>1. Truthful(c, p, q)
    BY WorkerAssumed DEF Truthful
<1>2. QED
    BY <1>1 DEF WorkerInv

(* What polling makes of the child. *)
LEMMA PolledChild ==
  ASSUME WorkerInv, NEW p, p = [procs EXCEPT !.child = Worker!Polled]
  PROVE  /\ p \in Procs /\ p.child = Worker!Polled
         /\ p.code = procs.code /\ p.heir = procs.heir /\ p.seen = procs.seen
         /\ p.child \in {procs.child, "reaped"}
         /\ p.child = "running" <=> procs.child = "running"
         /\ procs.child \in {"none", "reaped"} => p.child = procs.child
<1>1. procs \in Procs
    BY DEF WorkerInv
<1>2. PICK child : child = Worker!Polled
    OBVIOUS
<1>3. child = IF procs.child = "zombie" THEN "reaped" ELSE procs.child
    BY <1>2 DEF Worker!Polled
<1>4. p = [procs EXCEPT !.child = child]
    BY <1>2
<1>5. /\ p \in Procs /\ p.child = child /\ p.code = procs.code /\ p.heir = procs.heir
      /\ p.seen = procs.seen
    BY <1>1, <1>3, <1>4 DEF Procs
<1>6. QED
    BY <1>2, <1>3, <1>5

LEMMA BodyEnds ==
  ASSUME WorkerInv, call.pc \notin {"unwind", "returned"},
         NEW reason \in Worker!Reasons \union {None}, call' = Worker!Unwind(reason),
         NEW p \in Procs, procs' = p, UNCHANGED pipes,
         p.child = "running" => procs.child = "running",
         reason = None => call.started /\ p.child = "reaped" /\ p.code = 0
  PROVE  WorkerInv'
<1>1. PICK c : c = Worker!Unwind(reason)
    OBVIOUS
<1>2. /\ c \in CallRecords /\ Timed(c) /\ c.outcome = None /\ c.pc = "unwind"
      /\ c.primary = reason /\ c.started = call.started /\ c.cleaner = "terminate"
    BY <1>1, Unwound
<1>3. PICK q \in Pipes : q = pipes
    BY DEF WorkerInv
<1>4. Calling(c, p, q)
    BY <1>2, <1>3 DEF Calling, WorkerInv, Watched
<1>5. Cleaning(c, p, q)
    BY <1>2, <1>3 DEF Cleaning, WorkerInv
<1>6. call' = c /\ procs' = p /\ pipes' = q
    BY <1>1, <1>3
<1>7. QED
    BY <1>2, <1>4, <1>5, <1>6, BodyMoves

LEMMA BodyGoesOn ==
  ASSUME WorkerInv, call.pc \notin {"unwind", "returned"},
         NEW pc \in {"contain", "attach", "launch"} \union Watched, call' = Worker!Later(pc),
         NEW p \in Procs, procs' = p, UNCHANGED pipes,
         p.child = "running" => procs.child = "running" \/ call.pc = "spawn",
         pc \in Watched => call.started,
         pc = "join" => p.child = "reaped"
  PROVE  WorkerInv'
<1>1. PICK c : c = Worker!Later(pc)
    OBVIOUS
<1>2. /\ c \in CallRecords /\ Timed(c) /\ c.outcome = None /\ c.pc = pc
      /\ c.primary = call.primary /\ c.started = call.started /\ c.cleaner = "none"
    BY <1>1, WentOn
<1>3. PICK q \in Pipes : q = pipes
    BY DEF WorkerInv
<1>4. pc \notin {"spawn", "unwind", "returned"}
    BY DEF Watched
<1>5. Calling(c, p, q)
    BY <1>2, <1>3, <1>4 DEF Calling, WorkerInv, Watched
<1>6. Cleaning(c, p, q)
    BY <1>2, <1>3 DEF Cleaning, Calling, WorkerInv
<1>7. call' = c /\ procs' = p /\ pipes' = q
    BY <1>1, <1>3
<1>8. QED
    BY <1>2, <1>5, <1>6, <1>7, BodyMoves

LEMMA WorkerSpawns == ASSUME WorkerInv, Worker!Spawn PROVE WorkerInv'
<1>1. procs \in Procs /\ call.pc = "spawn" /\ UNCHANGED pipes
    BY DEF WorkerInv, Worker!Spawn
<1>2. CASE procs' = [procs EXCEPT !.child = "running"] /\ call' = Worker!Later("contain")
    <2>1. PICK p \in Procs : p = [procs EXCEPT !.child = "running"]
        BY <1>1 DEF Procs
    <2>2. PICK pc \in {"contain", "attach", "launch"} \union Watched : pc = "contain"
        OBVIOUS
    <2>3. pc \notin Watched /\ call' = Worker!Later(pc) /\ procs' = p
        BY <1>2, <2>1, <2>2 DEF Watched
    <2>4. pc # "join"
        BY <2>2
    <2>5. QED
        BY <1>1, <2>3, <2>4, BodyGoesOn
<1>3. CASE call' = Worker!Unwind("worker_start_failed") /\ UNCHANGED procs
    <2>1. PICK reason \in Worker!Reasons : reason = "worker_start_failed"
        BY DEF Worker!Reasons
    <2>2. reason \in Worker!Reasons \union {None} /\ reason # None
        BY <2>1, WorkerAssumed
    <2>3. PICK p \in Procs : p = procs
        BY <1>1
    <2>4. call' = Worker!Unwind(reason) /\ procs' = p
        BY <1>3, <2>1, <2>3
    <2>5. p.child = "running" => procs.child = "running"
        BY <2>3
    <2>6. QED
        BY <1>1, <2>2, <2>4, <2>5, BodyEnds
<1>4. QED
    BY <1>2, <1>3 DEF Worker!Spawn

(* A body that ends for a reason may do so whatever became of the child. *)
LEMMA BodyFails ==
  ASSUME WorkerInv, call.pc \notin {"unwind", "returned"},
         NEW reason \in Worker!Reasons, call' = Worker!Unwind(reason), UNCHANGED pipes,
         procs' = procs \/ procs' = [procs EXCEPT !.child = Worker!Polled]
           \/ (procs' \in Procs /\ procs'.child = procs.child)
  PROVE  WorkerInv'
<1>1. reason \in Worker!Reasons \union {None} /\ reason # None
    BY WorkerAssumed
<1>2. PICK p : p = procs'
    OBVIOUS
<1>3. p \in Procs /\ (p.child = "running" => procs.child = "running")
    <2>1. CASE procs' = procs
        BY <1>2, <2>1 DEF WorkerInv
    <2>2. CASE procs' = [procs EXCEPT !.child = Worker!Polled]
        BY <1>2, <2>2, PolledChild
    <2>3. CASE procs' \in Procs /\ procs'.child = procs.child
        BY <1>2, <2>3
    <2>4. QED
        BY <2>1, <2>2, <2>3
<1>4. procs' = p
    BY <1>2
<1>5. QED
    BY <1>1, <1>3, <1>4, BodyEnds

LEMMA WorkerContains == ASSUME WorkerInv, Worker!Contain PROVE WorkerInv'
<1>1. procs \in Procs /\ call.pc = "contain" /\ UNCHANGED <<procs, pipes>>
    BY DEF WorkerInv, Worker!Contain
<1>2. CASE call' = Worker!Later("attach")
    <2>1. PICK p \in Procs : p = procs
        BY <1>1
    <2>2. PICK pc \in {"contain", "attach", "launch"} \union Watched : pc = "attach"
        OBVIOUS
    <2>3. /\ pc \notin Watched /\ pc # "join" /\ call' = Worker!Later(pc) /\ procs' = p
          /\ p.child = "running" => procs.child = "running"
        BY <1>1, <1>2, <2>1, <2>2 DEF Watched
    <2>4. QED
        BY <1>1, <2>3, BodyGoesOn
<1>3. CASE call' = Worker!Unwind("worker_containment_unavailable")
    <2>1. PICK reason \in Worker!Reasons : reason = "worker_containment_unavailable"
        BY DEF Worker!Reasons
    <2>2. call' = Worker!Unwind(reason)
        BY <1>3, <2>1
    <2>3. QED
        BY <1>1, <2>2, BodyFails
<1>4. QED
    BY <1>2, <1>3 DEF Worker!Contain

LEMMA WorkerAttaches == ASSUME WorkerInv, Worker!Attach PROVE WorkerInv'
<1>1. procs \in Procs /\ call.pc = "attach" /\ UNCHANGED pipes
    BY DEF WorkerInv, Worker!Attach
<1>2. ASSUME call' = Worker!Later("launch"),
             procs' = [procs EXCEPT !.seen = @ \/ procs.heir # "none"]
      PROVE  WorkerInv'
    <2>1. PICK seen \in BOOLEAN : seen = (procs.seen \/ procs.heir # "none")
        BY <1>1 DEF Procs
    <2>2. procs' = [procs EXCEPT !.seen = seen]
        BY <1>2, <2>1
    <2>3. PICK p \in Procs : p = procs' /\ p.child = procs.child
        BY <1>1, <2>2 DEF Procs
    <2>4. PICK pc \in {"contain", "attach", "launch"} \union Watched : pc = "launch"
        OBVIOUS
    <2>5. /\ pc \notin Watched /\ pc # "join" /\ call' = Worker!Later(pc) /\ procs' = p
          /\ p.child = "running" => procs.child = "running"
        BY <1>2, <2>3, <2>4 DEF Watched
    <2>6. QED
        BY <1>1, <2>5, BodyGoesOn
<1>3. ASSUME procs' = [procs EXCEPT !.child = Worker!Polled],
             call' = Worker!Unwind(IF Worker!Polled = "reaped" THEN "worker_exit_before_barrier"
                                   ELSE "worker_monitor_unavailable")
      PROVE  WorkerInv'
    <2>1. PICK reason \in Worker!Reasons :
            reason = IF Worker!Polled = "reaped" THEN "worker_exit_before_barrier"
                     ELSE "worker_monitor_unavailable"
        BY DEF Worker!Reasons
    <2>2. call' = Worker!Unwind(reason)
        BY <1>3, <2>1
    <2>3. QED
        BY <1>1, <1>3, <2>2, BodyFails
<1>4. QED
    BY <1>2, <1>3 DEF Worker!Attach

LEMMA WorkerLaunches == ASSUME WorkerInv, Worker!Launch PROVE WorkerInv'
<1>1. /\ call \in CallRecords /\ procs \in Procs /\ pipes \in Pipes
      /\ call.pc = "launch" /\ UNCHANGED procs
    BY DEF WorkerInv, Worker!Launch
<1>2. ASSUME call' = Worker!Unwind("worker_timeout"), UNCHANGED pipes PROVE WorkerInv'
    <2>1. PICK reason \in Worker!Reasons : reason = "worker_timeout"
        BY DEF Worker!Reasons
    <2>2. call' = Worker!Unwind(reason)
        BY <1>2, <2>1
    <2>3. QED
        BY <1>1, <1>2, <2>2, BodyFails
<1>3. ASSUME call' = [Worker!Later("poll") EXCEPT !.started = TRUE],
             pipes' = [pipes EXCEPT !.writer = "running", !.drainer = "running"]
      PROVE  WorkerInv'
    <2>1. PICK d : d = Worker!Later("poll")
        OBVIOUS
    <2>2. PICK pc \in {"contain", "attach", "launch"} \union Watched : pc = "poll"
        BY DEF Watched
    <2>3. d = Worker!Later(pc)
        BY <2>1, <2>2
    <2>4. d \in CallRecords /\ Timed(d) /\ d.outcome = None /\ d.pc = pc /\ d.cleaner = "none"
        BY <1>1, <2>3, WentOn
    <2>5. PICK c : c = [d EXCEPT !.started = TRUE]
        OBVIOUS
    <2>6. /\ c \in CallRecords /\ c.outcome = None /\ c.pc = "poll" /\ c.cleaner = "none" /\ c.started
          /\ c.clock = d.clock /\ c.cleanBy = d.cleanBy
        BY <2>2, <2>4, <2>5 DEF CallRecords
    <2>7. PICK q : q = [pipes EXCEPT !.writer = "running", !.drainer = "running"]
        OBVIOUS
    <2>8. q \in Pipes /\ q.drainer = "running"
        BY <1>1, <2>7 DEF Pipes
    <2>9. Timed(c)
        BY <2>2, <2>4, <2>6 DEF Timed
    <2>10. Calling(c, procs, q) /\ Cleaning(c, procs, q)
        BY <2>6, <2>8 DEF Calling, Cleaning
    <2>11. call' = c /\ pipes' = q /\ procs' = procs
        BY <1>1, <1>3, <2>1, <2>5, <2>7
    <2>12. QED
        BY <1>1, <2>6, <2>8, <2>9, <2>10, <2>11, BodyMoves
<1>4. QED
    BY <1>2, <1>3 DEF Worker!Launch

(* A child that polling found reaped is joined, one that it did not is looked at again. *)
LEMMA WorkerJudges ==
  ASSUME WorkerInv, call.pc \in Watched, UNCHANGED pipes,
         procs' = [procs EXCEPT !.child = Worker!Polled],
         \/ Worker!Polled = "reaped" /\ call' = Worker!Later("join")
         \/ \E pc \in Watched \ {"join"} : call' = Worker!Later(pc)
         \/ \E reason \in Worker!Reasons : call' = Worker!Unwind(reason)
  PROVE  WorkerInv'
<1>1. call.pc \notin {"unwind", "returned"} /\ call.started
    BY DEF WorkerInv, Calling, Watched
<1>2. PICK p : p = [procs EXCEPT !.child = Worker!Polled]
    OBVIOUS
<1>3. /\ p \in Procs /\ procs' = p /\ p.child = Worker!Polled
      /\ p.child = "running" => procs.child = "running"
    BY <1>2, PolledChild
<1>4. ASSUME Worker!Polled = "reaped", call' = Worker!Later("join") PROVE WorkerInv'
    <2>1. PICK pc \in {"contain", "attach", "launch"} \union Watched : pc = "join"
        BY DEF Watched
    <2>2. call' = Worker!Later(pc) /\ (pc = "join" => p.child = "reaped")
        BY <1>3, <1>4, <2>1
    <2>3. QED
        BY <1>1, <1>3, <2>2, BodyGoesOn
<1>5. ASSUME NEW to \in Watched \ {"join"}, call' = Worker!Later(to) PROVE WorkerInv'
    <2>1. PICK pc \in {"contain", "attach", "launch"} \union Watched : pc = to
        OBVIOUS
    <2>2. call' = Worker!Later(pc) /\ pc # "join"
        BY <1>5, <2>1
    <2>3. QED
        BY <1>1, <1>3, <2>2, BodyGoesOn
<1>6. ASSUME NEW reason \in Worker!Reasons, call' = Worker!Unwind(reason) PROVE WorkerInv'
    BY <1>1, <1>6, BodyFails
<1>7. QED
    BY <1>4, <1>5, <1>6

LEMMA WorkerPolls == ASSUME WorkerInv, Worker!Poll PROVE WorkerInv'
<1>1. /\ call.pc \in Watched /\ UNCHANGED pipes
      /\ procs' = [procs EXCEPT !.child = Worker!Polled]
    BY DEF Worker!Poll, Watched
<1>2. \/ Worker!Polled = "reaped" /\ call' = Worker!Later("join")
      \/ call' = Worker!Later("sample")
      \/ call' = Worker!Unwind("worker_output_limit_exceeded")
      \/ call' = Worker!Unwind("worker_request_write_failed")
      \/ call' = Worker!Unwind("worker_timeout")
    BY DEF Worker!Poll
<1>3. "sample" \in Watched \ {"join"}
    BY DEF Watched
<1>4. {"worker_output_limit_exceeded", "worker_request_write_failed", "worker_timeout"}
        \subseteq Worker!Reasons
    BY DEF Worker!Reasons
<1>5. QED
    BY <1>1, <1>2, <1>3, <1>4, WorkerJudges

LEMMA WorkerSettles == ASSUME WorkerInv, Worker!Settle PROVE WorkerInv'
<1>1. /\ call.pc \in Watched /\ UNCHANGED pipes
      /\ procs' = [procs EXCEPT !.child = Worker!Polled]
    BY DEF Worker!Settle, Watched
<1>2. \/ Worker!Polled = "reaped" /\ call' = Worker!Later("join")
      \/ call' = Worker!Unwind("root_disappeared")
    BY DEF Worker!Settle
<1>3. "root_disappeared" \in Worker!Reasons
    BY DEF Worker!Reasons
<1>4. QED
    BY <1>1, <1>2, <1>3, WorkerJudges

LEMMA WorkerSamples == ASSUME WorkerInv, Worker!Sample PROVE WorkerInv'
<1>1. /\ procs \in Procs /\ call.pc \in Watched /\ UNCHANGED pipes
      /\ call.pc \notin {"unwind", "returned"} /\ call.started
    BY DEF WorkerInv, Worker!Sample, Watched, Calling
<1>2. ASSUME procs' = [procs EXCEPT !.seen = @ \/ procs.heir \in {"grouped", "detached"}],
             call' \in {Worker!Later("sleep"), Worker!Unwind("worker_memory_limit_exceeded"),
                        Worker!Unwind("worker_monitor_unavailable")}
      PROVE  WorkerInv'
    <2>1. PICK seen \in BOOLEAN : seen = (procs.seen \/ procs.heir \in {"grouped", "detached"})
        BY <1>1 DEF Procs
    <2>2. procs' = [procs EXCEPT !.seen = seen]
        BY <1>2, <2>1
    <2>3. PICK p \in Procs : p = procs' /\ p.child = procs.child
        BY <1>1, <2>2 DEF Procs
    <2>4. ASSUME call' = Worker!Later("sleep") PROVE WorkerInv'
        <3>1. PICK pc \in {"contain", "attach", "launch"} \union Watched : pc = "sleep"
            BY DEF Watched
        <3>2. /\ call' = Worker!Later(pc) /\ pc # "join" /\ procs' = p
              /\ p.child = "running" => procs.child = "running"
            BY <2>3, <2>4, <3>1
        <3>3. QED
            BY <1>1, <3>2, BodyGoesOn
    <2>5. ASSUME NEW reason \in Worker!Reasons, call' = Worker!Unwind(reason) PROVE WorkerInv'
        BY <1>1, <2>3, <2>5, BodyFails
    <2>6. {"worker_memory_limit_exceeded", "worker_monitor_unavailable"}
            \subseteq Worker!Reasons
        BY DEF Worker!Reasons
    <2>7. QED
        BY <1>2, <2>4, <2>5, <2>6
<1>3. ASSUME procs' = [procs EXCEPT !.child = Worker!Polled],
             call' = IF Worker!Polled = "reaped" THEN Worker!Later("join")
                     ELSE Worker!Later("settle")
      PROVE  WorkerInv'
    <2>1. \/ Worker!Polled = "reaped" /\ call' = Worker!Later("join")
          \/ call' = Worker!Later("settle")
        BY <1>3
    <2>2. "settle" \in Watched \ {"join"}
        BY DEF Watched
    <2>3. QED
        BY <1>1, <1>3, <2>1, <2>2, WorkerJudges
<1>4. QED
    BY <1>2, <1>3 DEF Worker!Sample

LEMMA WorkerSleeps == ASSUME WorkerInv, Worker!Sleep PROVE WorkerInv'
<1>1. /\ procs \in Procs /\ call.pc \notin {"unwind", "returned"} /\ call.started
      /\ call' = Worker!Later("poll") /\ UNCHANGED <<procs, pipes>>
    BY DEF WorkerInv, Worker!Sleep, Calling, Watched
<1>2. PICK pc \in {"contain", "attach", "launch"} \union Watched : pc = "poll"
    BY DEF Watched
<1>3. PICK p \in Procs : p = procs
    BY <1>1
<1>4. /\ call' = Worker!Later(pc) /\ pc # "join" /\ procs' = p
      /\ p.child = "running" => procs.child = "running"
    BY <1>1, <1>2, <1>3
<1>5. QED
    BY <1>1, <1>4, BodyGoesOn

LEMMA WorkerJoins == ASSUME WorkerInv, Worker!Join PROVE WorkerInv'
<1>1. /\ procs \in Procs /\ call.pc \notin {"unwind", "returned"} /\ call.started
      /\ procs.child = "reaped" /\ UNCHANGED <<procs, pipes>>
    BY DEF WorkerInv, Worker!Join, Calling, Watched
<1>2. \/ call' = Worker!Unwind("worker_request_write_failed")
      \/ call' = Worker!Unwind("worker_output_read_failed")
      \/ call' = Worker!Unwind("worker_output_limit_exceeded")
      \/ call' = Worker!Unwind("worker_exit")
      \/ call' = Worker!Unwind("worker_process_tree_leak")
      \/ procs.code = 0 /\ call' = Worker!Unwind(None)
    BY DEF Worker!Join
<1>3. {"worker_request_write_failed", "worker_output_read_failed",
       "worker_output_limit_exceeded", "worker_exit", "worker_process_tree_leak"}
        \subseteq Worker!Reasons
    BY DEF Worker!Reasons
<1>4. ASSUME NEW reason \in Worker!Reasons, call' = Worker!Unwind(reason) PROVE WorkerInv'
    BY <1>1, <1>4, BodyFails
<1>5. ASSUME procs.code = 0, call' = Worker!Unwind(None) PROVE WorkerInv'
    <2>1. PICK reason \in Worker!Reasons \union {None} : reason = None
        OBVIOUS
    <2>2. PICK p \in Procs : p = procs
        BY <1>1
    <2>3. /\ call' = Worker!Unwind(reason) /\ procs' = p
          /\ p.child = "running" => procs.child = "running"
          /\ p.child = "reaped" /\ p.code = 0
        BY <1>1, <1>5, <2>1, <2>2
    <2>4. QED
        BY <1>1, <2>3, BodyEnds
<1>6. QED
    BY <1>2, <1>3, <1>4, <1>5

(* The cleanup thread goes from step to step; what it may not do is call itself done,
   unfailed, while something is left. *)
LEMMA CleanerGoes ==
  ASSUME WorkerInv, call.pc # "returned", call.cleaner \notin {"none", "done"},
         NEW step \in {"wait", "kill_seen", "close", "join", "check", "done"},
         NEW failed \in BOOLEAN, NEW killed \in BOOLEAN,
         call' = [call EXCEPT !.cleaner = step, !.failed = failed, !.killed = killed],
         NEW p \in Procs, procs' = p, NEW q \in Pipes, pipes' = q,
         p.child = "running" => procs.child = "running",
         procs.child = "reaped" => p.child = "reaped" /\ p.code = procs.code,
         q.writer = pipes.writer, q.drainer = pipes.drainer,
         q.got = pipes.got, q.sent = pipes.sent,
         step = "check" => q.writer # "running" /\ q.drainer # "running",
         step = "done" /\ ~failed => Clean(p, q)
  PROVE  WorkerInv'
<1>1. PICK c : c = [call EXCEPT !.cleaner = step, !.failed = failed, !.killed = killed]
    OBVIOUS
<1>2. call \in CallRecords /\ call.pc = "unwind" /\ call.outcome = None
    BY DEF WorkerInv, Calling, CallRecords
<1>3. /\ c \in CallRecords /\ c.cleaner = step /\ c.failed = failed /\ c.pc = "unwind"
      /\ c.outcome = None /\ c.clock = call.clock /\ c.cleanBy = call.cleanBy
      /\ c.primary = call.primary /\ c.started = call.started
    BY <1>1, <1>2 DEF CallRecords
<1>4. Timed(c)
    BY <1>2, <1>3 DEF WorkerInv, Timed
<1>5. Calling(c, p, q)
    BY <1>2, <1>3 DEF WorkerInv, Calling, Watched
<1>6. Cleaning(c, p, q)
    BY <1>3 DEF WorkerInv, Cleaning
<1>7. QED
    BY <1>1, <1>3, <1>4, <1>5, <1>6, BodyMoves

(* The same, of a step that goes on or fails. *)
LEMMA CleanerAt ==
  ASSUME WorkerInv, call.pc # "returned", call.cleaner \notin {"none", "done"},
         NEW step \in {"wait", "kill_seen", "close", "join", "check", "done"},
         \/ call' = Worker!Onward(step) /\ (step # "done" \/ Clean(procs', pipes'))
         \/ call' = Worker!Failing(step)
         \/ call' = [Worker!Onward(step) EXCEPT !.killed = TRUE] /\ step # "done"
         \/ call' = [Worker!Failing(step) EXCEPT !.killed = TRUE],
         NEW p \in Procs, procs' = p, NEW q \in Pipes, pipes' = q,
         p.child = "running" => procs.child = "running",
         procs.child = "reaped" => p.child = "reaped" /\ p.code = procs.code,
         q.writer = pipes.writer, q.drainer = pipes.drainer,
         q.got = pipes.got, q.sent = pipes.sent,
         step = "check" => q.writer # "running" /\ q.drainer # "running"
  PROVE  WorkerInv'
<1>1. call \in CallRecords
    BY DEF WorkerInv
<1>2. PICK failed \in BOOLEAN, killed \in BOOLEAN :
        /\ call' = [call EXCEPT !.cleaner = step, !.failed = failed, !.killed = killed]
        /\ step = "done" /\ ~failed => Clean(procs', pipes')
    <2>1. CASE call' = Worker!Onward(step) /\ (step # "done" \/ Clean(procs', pipes'))
        <3>1. PICK failed \in BOOLEAN, killed \in BOOLEAN :
                failed = call.failed /\ killed = call.killed
            BY <1>1 DEF CallRecords
        <3>2. call' = [call EXCEPT !.cleaner = step, !.failed = failed, !.killed = killed]
            BY <1>1, <2>1, <3>1 DEF CallRecords, Worker!Onward
        <3>3. QED
            BY <2>1, <3>2
    <2>2. CASE call' = Worker!Failing(step)
        <3>1. PICK killed \in BOOLEAN : killed = call.killed
            BY <1>1 DEF CallRecords
        <3>2. call' = [call EXCEPT !.cleaner = step, !.failed = TRUE, !.killed = killed]
            BY <1>1, <2>2, <3>1 DEF CallRecords, Worker!Failing
        <3>3. QED
            BY <3>2
    <2>3. CASE call' = [Worker!Onward(step) EXCEPT !.killed = TRUE] /\ step # "done"
        <3>1. PICK failed \in BOOLEAN : failed = call.failed
            BY <1>1 DEF CallRecords
        <3>2. call' = [call EXCEPT !.cleaner = step, !.failed = failed, !.killed = TRUE]
            BY <1>1, <2>3, <3>1 DEF CallRecords, Worker!Onward
        <3>3. QED
            BY <2>3, <3>2
    <2>4. CASE call' = [Worker!Failing(step) EXCEPT !.killed = TRUE]
        <3>1. call' = [call EXCEPT !.cleaner = step, !.failed = TRUE, !.killed = TRUE]
            BY <1>1, <2>4 DEF CallRecords, Worker!Failing
        <3>2. QED
            BY <3>1
    <2>5. QED
        BY <2>1, <2>2, <2>3, <2>4
<1>3. step = "done" /\ ~failed => Clean(p, q)
    BY <1>2
<1>4. call' = [call EXCEPT !.cleaner = step, !.failed = failed, !.killed = killed]
    BY <1>2
<1>5. QED
    BY <1>3, <1>4, CleanerGoes

(* What a signal makes of the processes. *)
LEMMA ProcsKilled ==
  ASSUME WorkerInv, NEW p, p \in {Worker!ChildKilled, Worker!Killed}
  PROVE  /\ p \in Procs /\ p.child # "running"
         /\ procs.child = "reaped" => p.child = "reaped" /\ p.code = procs.code
<1>1. procs \in Procs
    BY DEF WorkerInv
<1>2. PICK k : k = Worker!ChildKilled
    OBVIOUS
<1>3. PICK child : child = IF procs.child = "running" THEN "zombie" ELSE procs.child
    OBVIOUS
<1>4. PICK code : code = IF procs.child = "running" THEN 1 ELSE procs.code
    OBVIOUS
<1>5. k = [procs EXCEPT !.child = child, !.code = code]
    BY <1>1, <1>2, <1>3, <1>4 DEF Worker!ChildKilled, Procs
<1>6. /\ k \in Procs /\ k.child # "running"
      /\ procs.child = "reaped" => k.child = "reaped" /\ k.code = procs.code
    BY <1>1, <1>3, <1>4, <1>5 DEF Procs
<1>7. ASSUME p = Worker!Killed
      PROVE  /\ p \in Procs /\ p.child = k.child /\ p.code = k.code
    <2>1. PICK heir \in {"none", "grouped", "detached", "dead"} :
            heir = IF Worker!InJob \/ (k.heir = "grouped" /\ procs.platform # "windows")
                   THEN "dead" ELSE k.heir
        BY <1>6 DEF Procs
    <2>2. p = [k EXCEPT !.heir = heir]
        BY <1>2, <1>7, <2>1 DEF Worker!Killed
    <2>3. QED
        BY <1>6, <2>2 DEF Procs
<1>8. QED
    BY <1>2, <1>6, <1>7

LEMMA CleanerTerminates ==
  ASSUME WorkerInv, call.pc # "returned", Worker!Terminate PROVE WorkerInv'
<1>1. procs \in Procs /\ pipes \in Pipes /\ call.cleaner \notin {"none", "done"} /\ UNCHANGED pipes
    BY DEF WorkerInv, Worker!Terminate
<1>2. PICK q \in Pipes : q = pipes
    BY <1>1
<1>3. PICK p : p = procs'
    OBVIOUS
<1>4. /\ p \in Procs
      /\ p.child = "running" => procs.child = "running"
      /\ procs.child = "reaped" => p.child = "reaped" /\ p.code = procs.code
    <2>1. CASE procs' = [procs EXCEPT !.child = Worker!Polled]
        BY <1>3, <2>1, PolledChild
    <2>2. CASE procs' \in {Worker!ChildKilled, Worker!Killed}
        BY <1>3, <2>2, ProcsKilled
    <2>3. CASE UNCHANGED procs
        BY <1>1, <1>3, <2>3
    <2>4. QED
        BY <2>1, <2>2, <2>3 DEF Worker!Terminate
<1>5. PICK step \in {"wait", "kill_seen", "close", "join", "check", "done"} : step = "wait"
    OBVIOUS
<1>6. /\ \/ call' = Worker!Onward(step)
         \/ call' = Worker!Failing(step)
         \/ call' = [Worker!Onward(step) EXCEPT !.killed = TRUE]
         \/ call' = [Worker!Failing(step) EXCEPT !.killed = TRUE]
      /\ step # "check" /\ step # "done"
    BY <1>5 DEF Worker!Terminate
<1>7. /\ procs' = p /\ pipes' = q /\ q.writer = pipes.writer /\ q.drainer = pipes.drainer
      /\ q.got = pipes.got /\ q.sent = pipes.sent
    BY <1>1, <1>2, <1>3
<1>8. QED
    BY <1>1, <1>4, <1>6, <1>7, CleanerAt

LEMMA CleanerWaits ==
  ASSUME WorkerInv, call.pc # "returned", Worker!Wait PROVE WorkerInv'
<1>1. procs \in Procs /\ pipes \in Pipes /\ call.cleaner \notin {"none", "done"} /\ UNCHANGED pipes
    BY DEF WorkerInv, Worker!Wait
<1>2. PICK q \in Pipes : q = pipes
    BY <1>1
<1>3. PICK p : p = [procs EXCEPT !.child = Worker!Polled]
    OBVIOUS
<1>4. /\ p \in Procs
      /\ p.child = "running" => procs.child = "running"
      /\ procs.child = "reaped" => p.child = "reaped" /\ p.code = procs.code
    BY <1>3, PolledChild
<1>5. PICK step \in {"wait", "kill_seen", "close", "join", "check", "done"} : step = "kill_seen"
    OBVIOUS
<1>6. /\ call' = Worker!Onward(step) /\ step # "check" /\ step # "done"
      /\ procs' = p /\ pipes' = q /\ q.writer = pipes.writer /\ q.drainer = pipes.drainer
      /\ q.got = pipes.got /\ q.sent = pipes.sent
    BY <1>1, <1>2, <1>3, <1>5 DEF Worker!Wait
<1>7. QED
    BY <1>1, <1>4, <1>6, CleanerAt

LEMMA CleanerKills ==
  ASSUME WorkerInv, call.pc # "returned", Worker!KillSeen PROVE WorkerInv'
<1>1. procs \in Procs /\ pipes \in Pipes /\ call.cleaner \notin {"none", "done"} /\ UNCHANGED pipes
    BY DEF WorkerInv, Worker!KillSeen
<1>2. PICK q \in Pipes : q = pipes
    BY <1>1
<1>3. PICK p : p = procs'
    OBVIOUS
<1>4. /\ p \in Procs
      /\ p.child = "running" => procs.child = "running"
      /\ procs.child = "reaped" => p.child = "reaped" /\ p.code = procs.code
    <2>1. procs' \in {procs, [procs EXCEPT !.heir = "dead"]}
        BY DEF Worker!KillSeen
    <2>2. QED
        BY <1>1, <1>3, <2>1 DEF Procs
<1>5. PICK step \in {"wait", "kill_seen", "close", "join", "check", "done"} : step = "close"
    OBVIOUS
<1>6. /\ \/ call' = Worker!Onward(step)
         \/ call' = Worker!Failing(step)
         \/ call' = [Worker!Onward(step) EXCEPT !.killed = TRUE]
      /\ step # "check" /\ step # "done"
    BY <1>5 DEF Worker!KillSeen
<1>7. /\ procs' = p /\ pipes' = q /\ q.writer = pipes.writer /\ q.drainer = pipes.drainer
      /\ q.got = pipes.got /\ q.sent = pipes.sent
    BY <1>1, <1>2, <1>3
<1>8. QED
    BY <1>1, <1>4, <1>6, <1>7, CleanerAt

LEMMA CleanerCloses ==
  ASSUME WorkerInv, call.pc # "returned", Worker!Close PROVE WorkerInv'
<1>1. procs \in Procs /\ pipes \in Pipes /\ call.cleaner \notin {"none", "done"} /\ UNCHANGED procs
    BY DEF WorkerInv, Worker!Close
<1>2. PICK q : q = [pipes EXCEPT !.closed = TRUE]
    OBVIOUS
<1>3. /\ q \in Pipes /\ q.writer = pipes.writer /\ q.drainer = pipes.drainer
      /\ q.got = pipes.got /\ q.sent = pipes.sent
    BY <1>1, <1>2 DEF Pipes
<1>4. PICK p \in Procs : p = procs
    BY <1>1
<1>5. PICK step \in {"wait", "kill_seen", "close", "join", "check", "done"} : step = "join"
    OBVIOUS
<1>6. /\ call' = Worker!Onward(step) /\ step # "check" /\ step # "done"
      /\ procs' = p /\ pipes' = q
      /\ p.child = "running" => procs.child = "running"
      /\ procs.child = "reaped" => p.child = "reaped" /\ p.code = procs.code
    BY <1>1, <1>2, <1>4, <1>5 DEF Worker!Close
<1>7. QED
    BY <1>1, <1>3, <1>6, CleanerAt

LEMMA CleanerJoins ==
  ASSUME WorkerInv, call.pc # "returned", Worker!JoinThreads PROVE WorkerInv'
<1>1. /\ procs \in Procs /\ pipes \in Pipes /\ call.cleaner \notin {"none", "done"}
      /\ UNCHANGED <<procs, pipes>>
    BY DEF WorkerInv, Worker!JoinThreads
<1>2. PICK q \in Pipes : q = pipes
    BY <1>1
<1>3. PICK p \in Procs : p = procs
    BY <1>1
<1>4. PICK step \in {"wait", "kill_seen", "close", "join", "check", "done"} : step = "check"
    OBVIOUS
<1>5. /\ call' = Worker!Onward(step) /\ step # "done" /\ procs' = p /\ pipes' = q
      /\ q.writer # "running" /\ q.drainer # "running"
      /\ q.writer = pipes.writer /\ q.drainer = pipes.drainer
      /\ q.got = pipes.got /\ q.sent = pipes.sent
      /\ p.child = "running" => procs.child = "running"
      /\ procs.child = "reaped" => p.child = "reaped" /\ p.code = procs.code
    BY <1>1, <1>2, <1>3, <1>4 DEF Worker!JoinThreads, Worker!ThreadsRun
<1>6. QED
    BY <1>1, <1>5, CleanerAt

LEMMA CleanerChecks ==
  ASSUME WorkerInv, call.pc # "returned", Worker!Check PROVE WorkerInv'
<1>1. /\ procs \in Procs /\ pipes \in Pipes /\ call.cleaner = "check" /\ UNCHANGED pipes
      /\ call.cleaner \notin {"none", "done"}
    BY DEF WorkerInv, Worker!Check
<1>2. PICK q \in Pipes : q = pipes
    BY <1>1
<1>3. PICK p : p = [procs EXCEPT !.child = Worker!Polled]
    OBVIOUS
<1>4. /\ p \in Procs /\ p.child = Worker!Polled /\ p.seen = procs.seen /\ p.heir = procs.heir
      /\ p.child = "running" => procs.child = "running"
      /\ procs.child = "reaped" => p.child = "reaped" /\ p.code = procs.code
    BY <1>3, PolledChild
<1>5. PICK step \in {"wait", "kill_seen", "close", "join", "check", "done"} : step = "done"
    OBVIOUS
<1>6. /\ procs' = p /\ pipes' = q /\ q.writer = pipes.writer /\ q.drainer = pipes.drainer
      /\ q.got = pipes.got /\ q.sent = pipes.sent /\ step # "check"
    BY <1>1, <1>2, <1>3, <1>5 DEF Worker!Check
<1>7. q.writer # "running" /\ q.drainer # "running"
    BY <1>1, <1>2 DEF WorkerInv, Cleaning
<1>8. CASE Worker!Polled \in Worker!Unreaped \/ Worker!HeirSeenAlive(procs)
    <2>1. call' = Worker!Failing(step)
        BY <1>5, <1>8 DEF Worker!Check
    <2>2. QED
        BY <1>1, <1>4, <1>6, <2>1, CleanerAt
<1>9. CASE ~(Worker!Polled \in Worker!Unreaped \/ Worker!HeirSeenAlive(procs))
    <2>1. call' = Worker!Onward(step)
        BY <1>5, <1>9 DEF Worker!Check
    <2>2. Clean(p, q)
        BY <1>4, <1>7, <1>9 DEF Clean, Procs, Worker!Unreaped, Worker!HeirSeenAlive
    <2>3. Clean(procs', pipes')
        BY <1>6, <2>2
    <2>4. QED
        BY <1>1, <1>4, <1>6, <2>1, <2>3, CleanerAt
<1>10. QED
    BY <1>8, <1>9

LEMMA CleanerGivesUp ==
  ASSUME WorkerInv, call.pc # "returned", Worker!GiveUp PROVE WorkerInv'
<1>1. /\ procs \in Procs /\ pipes \in Pipes /\ UNCHANGED <<procs, pipes>>
      /\ call.cleaner \notin {"none", "done"}
    BY DEF WorkerInv, Worker!GiveUp
<1>2. PICK q \in Pipes : q = pipes
    BY <1>1
<1>3. PICK p \in Procs : p = procs
    BY <1>1
<1>4. PICK step \in {"wait", "kill_seen", "close", "join", "check", "done"} : step = "done"
    OBVIOUS
<1>5. /\ call' = Worker!Failing(step) /\ procs' = p /\ pipes' = q
      /\ q.writer = pipes.writer /\ q.drainer = pipes.drainer /\ step # "check"
      /\ q.got = pipes.got /\ q.sent = pipes.sent
      /\ p.child = "running" => procs.child = "running"
      /\ procs.child = "reaped" => p.child = "reaped" /\ p.code = procs.code
    BY <1>1, <1>2, <1>3, <1>4 DEF Worker!GiveUp
<1>6. QED
    BY <1>1, <1>5, CleanerAt

(* What goes on outside the call's two threads. *)
LEMMA OthersMove ==
  ASSUME WorkerInv, call.pc # "returned", UNCHANGED call,
         NEW p \in Procs, procs' = p, NEW q \in Pipes, pipes' = q,
         Calling(call, p, q), Cleaning(call, p, q)
  PROVE  WorkerInv'
<1>1. PICK c \in CallRecords : c = call
    BY DEF WorkerInv
<1>2. call' = c /\ Timed(c) /\ c.outcome = None /\ Calling(c, p, q) /\ Cleaning(c, p, q)
    BY <1>1 DEF WorkerInv, Calling
<1>3. QED
    BY <1>2, BodyMoves

LEMMA RequestWritten ==
  ASSUME WorkerInv, call.pc # "returned", Worker!WriterThread PROVE WorkerInv'
<1>1. PICK p \in Procs : p = procs
    BY DEF WorkerInv
<1>2. PICK writer \in {"done", "failed"} : pipes' = [pipes EXCEPT !.writer = writer]
    BY DEF Worker!WriterThread
<1>3. PICK q : q = [pipes EXCEPT !.writer = writer]
    OBVIOUS
<1>4. /\ q \in Pipes /\ q.writer = writer /\ q.drainer = pipes.drainer
      /\ q.got = pipes.got /\ q.sent = pipes.sent
    BY <1>3 DEF WorkerInv, Pipes
<1>5. Calling(call, p, q)
    BY <1>1, <1>4 DEF WorkerInv, Calling
<1>6. Cleaning(call, p, q)
    BY <1>1, <1>4 DEF WorkerInv, Cleaning, Clean
<1>7. UNCHANGED call /\ procs' = p /\ pipes' = q
    BY <1>1, <1>2, <1>3 DEF Worker!WriterThread
<1>8. QED
    BY <1>4, <1>5, <1>6, <1>7, OthersMove

LEMMA AnswerDrained ==
  ASSUME WorkerInv, call.pc # "returned", Worker!DrainerThread PROVE WorkerInv'
<1>1. PICK p \in Procs : p = procs
    BY DEF WorkerInv
<1>2. pipes \in Pipes /\ pipes.drainer = "running" /\ UNCHANGED <<call, procs>>
    BY DEF WorkerInv, Worker!DrainerThread
<1>3. PICK q : q = pipes'
    OBVIOUS
<1>4. /\ q \in Pipes /\ q.writer = pipes.writer /\ q.drainer # "idle"
      /\ q.drainer = "ended" => p.child # "running" /\ q.got = q.sent
    <2>1. CASE pipes' = [pipes EXCEPT !.got = pipes.sent, !.flooded = @ \/ pipes.flood]
        <3>1. PICK flooded \in BOOLEAN : flooded = (pipes.flooded \/ pipes.flood)
            BY <1>2 DEF Pipes
        <3>2. PICK got \in Worker!Answers : got = pipes.sent
            BY <1>2 DEF Pipes
        <3>3. q = [pipes EXCEPT !.got = got, !.flooded = flooded]
            BY <1>3, <2>1, <3>1, <3>2
        <3>4. q \in Pipes /\ q.writer = pipes.writer /\ q.drainer = "running"
            BY <1>2, <3>3 DEF Pipes
        <3>5. QED
            BY <3>4
    <2>2. CASE /\ pipes.got = pipes.sent /\ ~Worker!PipeHeld
               /\ pipes' = [pipes EXCEPT !.drainer = "ended"]
        <3>1. q \in Pipes /\ q.writer = pipes.writer /\ q.got = q.sent /\ q.drainer = "ended"
            BY <1>2, <1>3, <2>2 DEF Pipes
        <3>2. p.child # "running"
            BY <1>1, <2>2 DEF Worker!PipeHeld, Worker!Alive
        <3>3. QED
            BY <3>1, <3>2
    <2>3. CASE pipes' = [pipes EXCEPT !.drainer = "failed"]
        BY <1>2, <1>3, <2>3 DEF Pipes
    <2>4. QED
        BY <2>1, <2>2, <2>3 DEF Worker!DrainerThread
<1>5. Calling(call, p, q)
    BY <1>1, <1>2, <1>4 DEF WorkerInv, Calling
<1>6. Cleaning(call, p, q)
    BY <1>1, <1>2, <1>4 DEF WorkerInv, Cleaning, Clean
<1>7. UNCHANGED call /\ procs' = p /\ pipes' = q
    BY <1>1, <1>2, <1>3
<1>8. QED
    BY <1>4, <1>5, <1>6, <1>7, OthersMove

LEMMA ChildWrites ==
  ASSUME WorkerInv, call.pc # "returned", Worker!ChildAnswers PROVE WorkerInv'
<1>1. PICK p \in Procs : p = procs
    BY DEF WorkerInv
<1>2. p.child = "running" /\ UNCHANGED <<call, procs>>
    BY <1>1 DEF Worker!ChildAnswers
<1>3. PICK q : q = pipes'
    OBVIOUS
<1>4. q \in Pipes /\ q.writer = pipes.writer /\ q.drainer = pipes.drainer
    BY <1>3 DEF WorkerInv, Worker!ChildAnswers, Pipes, Worker!Answers
<1>5. Calling(call, p, q)
    BY <1>1, <1>4 DEF WorkerInv, Calling
<1>6. Cleaning(call, p, q)
    BY <1>1, <1>2, <1>4 DEF WorkerInv, Cleaning, Clean
<1>7. UNCHANGED call /\ procs' = p /\ pipes' = q
    BY <1>1, <1>2, <1>3
<1>8. QED
    BY <1>4, <1>5, <1>6, <1>7, OthersMove

(* The child and its heir: neither comes back to life. *)
LEMMA ProcessesMove ==
  ASSUME WorkerInv, call.pc # "returned",
         Worker!ChildForks \/ Worker!ChildExits \/ Worker!HeirExits
  PROVE  WorkerInv'
<1>1. PICK q \in Pipes : q = pipes
    BY DEF WorkerInv
<1>2. procs \in Procs
    BY DEF WorkerInv
<1>3. PICK p : p = procs'
    OBVIOUS
<1>4. /\ p \in Procs /\ p.seen = procs.seen
      /\ p.child = "running" => procs.child = "running"
      /\ procs.child \in {"none", "reaped"} =>
           /\ p.child = procs.child /\ p.code = procs.code
           /\ p.heir \in {procs.heir, "dead"}
    <2>1. CASE Worker!ChildForks
        <3>1. PICK heir \in {"grouped", "detached"} : p = [procs EXCEPT !.heir = heir]
            BY <1>3, <2>1 DEF Worker!ChildForks
        <3>2. procs.child = "running"
            BY <2>1 DEF Worker!ChildForks
        <3>3. QED
            BY <1>2, <3>1, <3>2 DEF Procs
    <2>2. CASE Worker!ChildExits
        <3>1. CASE procs.child = "running"
            <4>1. PICK code \in {0, 1}, child \in {"vanished", "zombie"} :
                    p = [procs EXCEPT !.code = code, !.child = child]
                BY <1>2, <1>3, <2>2, <3>1 DEF Worker!ChildExits
            <4>2. QED
                BY <1>2, <3>1, <4>1 DEF Procs
        <3>2. CASE procs.child # "running"
            <4>1. procs.child = "vanished" /\ p = [procs EXCEPT !.child = "zombie"]
                BY <1>3, <2>2, <3>2 DEF Worker!ChildExits
            <4>2. QED
                BY <1>2, <4>1 DEF Procs
        <3>3. QED
            BY <3>1, <3>2
    <2>3. CASE Worker!HeirExits
        <3>1. p = [procs EXCEPT !.heir = "dead"]
            BY <1>3, <2>3 DEF Worker!HeirExits
        <3>2. QED
            BY <1>2, <3>1 DEF Procs
    <2>4. QED
        BY <2>1, <2>2, <2>3
<1>5. Calling(call, p, q)
    BY <1>1, <1>4 DEF WorkerInv, Calling
<1>6. Cleaning(call, p, q)
    BY <1>1, <1>4 DEF WorkerInv, Cleaning, Clean
<1>7. UNCHANGED call /\ procs' = p /\ pipes' = q
    BY <1>1, <1>3 DEF Worker!ChildForks, Worker!ChildExits, Worker!HeirExits
<1>8. QED
    BY <1>1, <1>4, <1>5, <1>6, <1>7, OthersMove

LEMMA TimePasses ==
  ASSUME WorkerInv, call.pc # "returned", Worker!Tick PROVE WorkerInv'
<1>1. call \in CallRecords /\ Timed(call) /\ UNCHANGED <<procs, pipes>> /\ call.outcome = None
    BY DEF WorkerInv, Worker!Tick, Calling
<1>2. PICK clock \in Nat : clock = call.clock + 1
    BY <1>1 DEF CallRecords
<1>3. PICK c : c = [call EXCEPT !.clock = clock]
    OBVIOUS
<1>4. /\ c \in CallRecords /\ c.clock = clock /\ c.pc = call.pc /\ c.outcome = call.outcome
      /\ c.cleaner = call.cleaner /\ c.started = call.started /\ c.primary = call.primary
      /\ c.failed = call.failed /\ c.cleanBy = call.cleanBy
    BY <1>1, <1>3 DEF CallRecords
<1>5. Timed(c)
    <2>1. call.clock < IF call.pc = "unwind" THEN call.cleanBy ELSE Wall
        BY DEF Worker!Tick
    <2>2. call.clock \in Nat /\ call.cleanBy \in Nat
        BY <1>1 DEF CallRecords
    <2>3. QED
        BY <1>1, <1>2, <1>4, <2>1, <2>2, WorkerAssumed DEF Timed
<1>6. PICK p \in Procs : p = procs
    BY DEF WorkerInv
<1>7. PICK q \in Pipes : q = pipes
    BY DEF WorkerInv
<1>8. Calling(c, p, q) /\ Cleaning(c, p, q)
    BY <1>4, <1>6, <1>7 DEF WorkerInv, Calling, Cleaning
<1>9. call' = c /\ procs' = p /\ pipes' = q
    BY <1>1, <1>2, <1>3, <1>6, <1>7 DEF Worker!Tick
<1>10. QED
    BY <1>1, <1>4, <1>5, <1>8, <1>9, BodyMoves

(* What the caller makes of a call whose cleanup went through. *)
LEMMA OutcomeIs ==
  ASSUME WorkerInv, call.pc = "unwind", call.cleaner = "done"
  PROVE  /\ Worker!Outcome \in Worker!Reasons \union {"ok"}
         /\ Worker!Outcome # "worker_cleanup_failed" => Clean(procs, pipes)
         /\ Worker!Outcome = "ok" =>
              procs.child = "reaped" /\ procs.code = 0 /\ pipes.got = pipes.sent /\ ~pipes.flooded
<1>1. call \in CallRecords /\ procs \in Procs /\ pipes \in Pipes
    BY DEF WorkerInv
<1>2. Worker!Verified \in Worker!Reasons \union {"ok"}
    <2>1. Worker!Verified \in {"ok", "worker_reason", "worker_generation_changed",
                               "invalid_worker_response"}
        BY DEF Worker!Verified
    <2>2. QED
        BY <2>1 DEF Worker!Reasons
<1>3. /\ Worker!LatePipeError \in Worker!Reasons \union {None}
      /\ Worker!LatePipeError = None =>
           pipes.writer # "failed" /\ pipes.drainer # "failed" /\ ~pipes.flooded
    <2>1. \/ /\ Worker!LatePipeError \in {"worker_request_write_failed",
                                          "worker_output_read_failed",
                                          "worker_output_limit_exceeded"}
          \/ /\ Worker!LatePipeError = None
             /\ pipes.writer # "failed" /\ pipes.drainer # "failed" /\ ~pipes.flooded
        BY DEF Worker!LatePipeError
    <2>2. {"worker_request_write_failed", "worker_output_read_failed",
           "worker_output_limit_exceeded"} \subseteq Worker!Reasons
        BY DEF Worker!Reasons
    <2>3. QED
        BY <2>1, <2>2, WorkerAssumed
<1>4. PICK primary : primary = IF Worker!Reconciled THEN None ELSE call.primary
    OBVIOUS
<1>5. primary \in Worker!Reasons \union {None}
    BY <1>1, <1>4 DEF CallRecords
<1>6. \/ call.failed /\ Worker!Outcome = "worker_cleanup_failed"
      \/ ~call.failed /\ primary # None /\ Worker!Outcome = primary
      \/ ~call.failed /\ primary = None /\ Worker!LatePipeError # None
           /\ Worker!Outcome = Worker!LatePipeError
      \/ ~call.failed /\ primary = None /\ Worker!LatePipeError = None
           /\ Worker!Outcome = Worker!Verified
    BY <1>1, <1>4 DEF Worker!Outcome, CallRecords
<1>7. "worker_cleanup_failed" \in Worker!Reasons
    BY DEF Worker!Reasons
<1>8. ~call.failed => Clean(procs, pipes)
    BY DEF WorkerInv, Cleaning
<1>9. ASSUME Worker!Outcome = "ok"
      PROVE  procs.child = "reaped" /\ procs.code = 0 /\ pipes.got = pipes.sent /\ ~pipes.flooded
    <2>1. ~call.failed /\ primary = None /\ Worker!LatePipeError = None
        BY <1>3, <1>5, <1>6, <1>7, <1>9, WorkerAssumed
    <2>2. procs.child = "reaped" /\ procs.code = 0 /\ call.started
        <3>1. CASE Worker!Reconciled
            BY <3>1 DEF Worker!Reconciled
        <3>2. CASE ~Worker!Reconciled
            BY <1>4, <2>1, <3>2 DEF WorkerInv, Calling
        <3>3. QED
            BY <3>1, <3>2
    <2>3. pipes.drainer = "ended"
        BY <1>1, <1>3, <1>8, <2>1, <2>2 DEF WorkerInv, Calling, Clean, Pipes
    <2>4. QED
        BY <1>3, <2>1, <2>2, <2>3 DEF WorkerInv, Cleaning
<1>10. QED
    BY <1>2, <1>3, <1>5, <1>6, <1>7, <1>8, <1>9

(* The call returns, its cleanup thread done or given up. *)
LEMMA CallEnds ==
  ASSUME WorkerInv, call.pc = "unwind",
         NEW outcome \in Worker!Reasons \union {None, "ok"},
         NEW cleaner \in {"none", "terminate", "wait", "kill_seen", "close", "join", "check",
                          "done"},
         NEW failed \in BOOLEAN,
         call' = [call EXCEPT !.pc = "returned", !.outcome = outcome, !.cleaner = cleaner,
                              !.failed = failed],
         NEW p \in Procs, procs' = p, NEW q \in Pipes, pipes' = q,
         q.drainer = pipes.drainer, Cleaning([cleaner |-> cleaner, failed |-> failed], p, q),
         Truthful([outcome |-> outcome], p, q)
  PROVE  WorkerInv'
<1>1. PICK c : c = [call EXCEPT !.pc = "returned", !.outcome = outcome, !.cleaner = cleaner,
                                !.failed = failed]
    OBVIOUS
<1>2. call \in CallRecords
    BY DEF WorkerInv
<1>3. /\ c \in CallRecords /\ c.pc = "returned" /\ c.outcome = outcome /\ c.cleaner = cleaner
      /\ c.failed = failed /\ c.clock = call.clock /\ c.cleanBy = call.cleanBy
      /\ c.started = call.started
    BY <1>1, <1>2 DEF CallRecords
<1>4. Timed(c)
    BY <1>3 DEF WorkerInv, Timed
<1>5. Calling(c, p, q)
    BY <1>3 DEF WorkerInv, Calling, Watched
<1>6. Cleaning(c, p, q)
    BY <1>3 DEF Cleaning
<1>7. Truthful(c, p, q)
    BY <1>3 DEF Truthful
<1>8. call' = c
    BY <1>1
<1>9. QED
    BY <1>3, <1>4, <1>5, <1>6, <1>7, <1>8 DEF WorkerInv

LEMMA CallReturned ==
  ASSUME WorkerInv, Worker!Return PROVE WorkerInv'
<1>1. /\ call \in CallRecords /\ procs \in Procs /\ pipes \in Pipes /\ call.pc = "unwind"
    BY DEF WorkerInv, Worker!Return
<1>2. PICK cleaner \in {"none", "terminate", "wait", "kill_seen", "close", "join", "check",
                        "done"} : cleaner = call.cleaner
    BY <1>1 DEF CallRecords
<1>3. PICK failed \in BOOLEAN : failed = call.failed
    BY <1>1 DEF CallRecords
<1>4. Cleaning([cleaner |-> cleaner, failed |-> failed], procs, pipes)
    BY <1>2, <1>3 DEF WorkerInv, Cleaning
<1>5. ASSUME NEW outcome \in Worker!Reasons \union {None, "ok"},
             call' = [Worker!Later("returned") EXCEPT !.outcome = outcome],
             UNCHANGED <<procs, pipes>>, Truthful([outcome |-> outcome], procs, pipes)
      PROVE  WorkerInv'
    <2>1. call' = [call EXCEPT !.pc = "returned", !.outcome = outcome, !.cleaner = cleaner,
                               !.failed = failed]
        BY <1>1, <1>2, <1>3, <1>5 DEF CallRecords, Worker!Later
    <2>2. PICK p \in Procs : p = procs
        BY <1>1
    <2>3. PICK q \in Pipes : q = pipes
        BY <1>1
    <2>4. /\ procs' = p /\ pipes' = q /\ q.drainer = pipes.drainer
          /\ Cleaning([cleaner |-> cleaner, failed |-> failed], p, q)
          /\ Truthful([outcome |-> outcome], p, q)
        BY <1>4, <1>5, <2>2, <2>3
    <2>5. QED
        BY <1>1, <2>1, <2>4, CallEnds
<1>6. PICK lost \in Worker!Reasons \union {None, "ok"} : lost = "worker_cleanup_failed"
    BY DEF Worker!Reasons
<1>7. \A p, q : Truthful([outcome |-> lost], p, q)
    BY <1>6 DEF Truthful
<1>8. CASE /\ call.cleaner = "done"
           /\ call' = [Worker!Later("returned") EXCEPT !.outcome = Worker!Outcome]
           /\ UNCHANGED <<procs, pipes>>
    <2>1. PICK outcome \in Worker!Reasons \union {None, "ok"} : outcome = Worker!Outcome
        BY <1>1, <1>8, OutcomeIs
    <2>2. Truthful([outcome |-> outcome], procs, pipes)
        BY <1>1, <1>8, <2>1, OutcomeIs DEF Truthful
    <2>3. call' = [Worker!Later("returned") EXCEPT !.outcome = outcome]
        BY <1>8, <2>1
    <2>4. QED
        BY <1>5, <1>8, <2>2, <2>3
<1>9. CASE /\ call' = [Worker!Later("returned") EXCEPT !.outcome = "worker_cleanup_failed"]
           /\ UNCHANGED <<procs, pipes>>
    BY <1>5, <1>6, <1>7, <1>9
<1>10. CASE /\ call' = [Worker!Later("returned") EXCEPT !.cleaner = "done", !.failed = TRUE,
                                                        !.outcome = "worker_cleanup_failed"]
            /\ procs' \in {procs, Worker!ChildKilled, Worker!Killed}
            /\ pipes' = [pipes EXCEPT !.closed = TRUE]
    <2>1. PICK done \in {"none", "terminate", "wait", "kill_seen", "close", "join", "check",
                         "done"} : done = "done"
        OBVIOUS
    <2>2. PICK yes \in BOOLEAN : yes
        OBVIOUS
    <2>3. call' = [call EXCEPT !.pc = "returned", !.outcome = lost, !.cleaner = done,
                               !.failed = yes]
        BY <1>1, <1>6, <1>10, <2>1, <2>2 DEF CallRecords, Worker!Later
    <2>4. PICK p : p = procs'
        OBVIOUS
    <2>5. p \in Procs /\ (p.child = "running" => procs.child = "running")
        BY <1>1, <1>10, <2>4, ProcsKilled
    <2>6. PICK q : q = pipes'
        OBVIOUS
    <2>7. /\ q \in Pipes /\ q.drainer = pipes.drainer /\ q.writer = pipes.writer
          /\ q.got = pipes.got /\ q.sent = pipes.sent
        BY <1>1, <1>10, <2>6 DEF Pipes
    <2>8. Cleaning([cleaner |-> done, failed |-> yes], p, q)
        BY <2>1, <2>2, <2>5, <2>7 DEF WorkerInv, Cleaning
    <2>9. Truthful([outcome |-> lost], p, q)
        BY <1>7
    <2>10. procs' = p /\ pipes' = q
        BY <2>4, <2>6
    <2>11. QED
        BY <1>1, <2>3, <2>5, <2>7, <2>8, <2>9, <2>10, CallEnds
<1>11. QED
    BY <1>8, <1>9, <1>10 DEF Worker!Return

LEMMA WorkerMoves == ASSUME WorkerInv, Worker!Next PROVE WorkerInv'
<1>1. call.pc # "returned"
    BY DEF Worker!Next
<1>2. ASSUME Worker!CallerThread PROVE WorkerInv'
    BY <1>2, WorkerSpawns, WorkerContains, WorkerAttaches, WorkerLaunches, WorkerPolls,
       WorkerSamples, WorkerSettles, WorkerSleeps, WorkerJoins, CallReturned
       DEF Worker!CallerThread
<1>3. ASSUME Worker!CleanupThread PROVE WorkerInv'
    BY <1>1, <1>3, CleanerGivesUp, CleanerTerminates, CleanerWaits, CleanerKills, CleanerCloses,
       CleanerJoins, CleanerChecks DEF Worker!CleanupThread
<1>4. QED
    BY <1>1, <1>2, <1>3, RequestWritten, AnswerDrained, ChildWrites, ProcessesMove, TimePasses
       DEF Worker!Next

LEMMA WorkerTold == ASSUME WorkerInv PROVE Worker!OutcomeTruthful
BY DEF WorkerInv, Truthful, Clean, Worker!OutcomeTruthful, Worker!Unreaped,
       Worker!HeirSeenAlive, Worker!ThreadsRun

LEMMA WorkerTypes == ASSUME WorkerInv PROVE Worker!TypeOK
<1>1. call.clock \in 0 .. Wall + Cleanup /\ call.cleanBy \in 0 .. Wall + 2 * Cleanup
    BY WorkerAssumed DEF WorkerInv, CallRecords, Timed
<1>2. QED
    BY <1>1 DEF WorkerInv, Worker!TypeOK, CallRecords, Procs, Pipes

-----------------------------------------------------------------------------
(* The summary's types, bounds included                                      *)

BoundedRun ==
  [pc : {"idle", "planned", "rendered"} \union Busy, expected : Summary!Files \union {None},
   read : Summary!Files \union {None}, block : -1 .. MaxGeneration, edits : 0 .. MaxSaves]
BoundedSummary ==
  [file : Summary!Files, lock : SummaryRuns \union {None}, generation : 0 .. MaxGeneration]
Holding(x) == x.pc \in {"staged", "checked"} => x.read \in Summary!Files
SummaryBounded ==
  /\ summary \in BoundedSummary /\ renderers \in [SummaryRuns -> BoundedRun]
  /\ \A run \in SummaryRuns : Holding(renderers[run])

LEMMA SummaryNumbers == MaxGeneration \in Nat /\ MaxSaves \in Nat
BY ToolAssumptions DEF Summary!Assumptions

LEMMA BoundedIdle == Summary!Idle \in BoundedRun /\ Holding(Summary!Idle)
BY SummaryNumbers DEF Summary!Idle, BoundedRun, Summary!Absent, Holding

LEMMA BoundedStart == Summary!Init => SummaryBounded
<1>1. SUFFICES ASSUME Summary!Init PROVE SummaryBounded
    OBVIOUS
<1>2. summary \in BoundedSummary
    BY <1>1, SummaryNumbers DEF Summary!Init, BoundedSummary, Summary!Files, Summary!Absent, Summary!Torn
<1>3. QED
    BY <1>1, <1>2, BoundedIdle, SummaryAssumed DEF Summary!Init, SummaryBounded

LEMMA BoundedMove ==
  ASSUME SummaryBounded, NEW run \in SummaryRuns, NEW x \in BoundedRun,
         Holding(x), renderers' = [renderers EXCEPT ![run] = x], summary' \in BoundedSummary
  PROVE  SummaryBounded'
BY DEF SummaryBounded

LEMMA BoundedEnd ==
  ASSUME SummaryBounded, NEW run \in SummaryRuns, Summary!Ended(run),
         summary' \in BoundedSummary
  PROVE  SummaryBounded'
<1>1. PICK x \in BoundedRun : x = Summary!Idle /\ Holding(x)
    BY BoundedIdle
<1>2. renderers' = [renderers EXCEPT ![run] = x]
    BY <1>1 DEF Summary!Ended
<1>3. QED
    BY <1>1, <1>2, BoundedMove

LEMMA BoundedFree == SummaryBounded => Summary!Free \in BoundedSummary
BY DEF SummaryBounded, BoundedSummary, Summary!Free

LEMMA BoundedStep ==
  ASSUME SummaryInv, SummaryBounded, NEW run \in SummaryRuns, Summary!RunStep(run)
  PROVE  SummaryBounded'
<1>1. /\ summary \in BoundedSummary /\ renderers \in [SummaryRuns -> BoundedRun]
      /\ renderers[run] \in BoundedRun /\ Holding(renderers[run])
    BY DEF SummaryBounded
<1>2. CASE Summary!DryRun(run)
    <2>1. PICK file \in Summary!Files : file = summary.file
        BY <1>1 DEF BoundedSummary
    <2>2. PICK x : x = [renderers[run] EXCEPT !.pc = "planned", !.expected = file]
        OBVIOUS
    <2>3. x \in BoundedRun /\ Holding(x)
        BY <1>1, <2>2 DEF BoundedRun, Busy, Holding
    <2>4. renderers' = [renderers EXCEPT ![run] = x] /\ summary' = summary
        BY <1>1, <1>2, <2>1, <2>2 DEF Summary!DryRun
    <2>5. QED
        BY <1>1, <2>3, <2>4, BoundedMove
<1>3. CASE Summary!Render(run)
    <2>1. PICK block \in -1 .. MaxGeneration : block = summary.generation
        BY <1>1, SummaryNumbers DEF BoundedSummary
    <2>2. PICK x : x = [renderers[run] EXCEPT !.pc = "rendered", !.block = block]
        OBVIOUS
    <2>3. x \in BoundedRun /\ Holding(x)
        BY <1>1, <2>2 DEF BoundedRun, Busy, Holding
    <2>4. renderers' = [renderers EXCEPT ![run] = x] /\ summary' = summary
        BY <1>1, <1>3, <2>1, <2>2 DEF Summary!Render
    <2>5. QED
        BY <1>1, <2>3, <2>4, BoundedMove
<1>4. CASE Summary!Acquire(run)
    <2>1. PICK x : x = [renderers[run] EXCEPT !.pc = "locked"]
        OBVIOUS
    <2>2. x \in BoundedRun /\ Holding(x)
        BY <1>1, <2>1 DEF BoundedRun, Busy, Holding
    <2>3. renderers' = [renderers EXCEPT ![run] = x]
        BY <1>1, <1>4, <2>1 DEF Summary!Acquire, Summary!Goto
    <2>4. summary' \in BoundedSummary
        BY <1>1, <1>4 DEF Summary!Acquire, BoundedSummary
    <2>5. QED
        BY <2>2, <2>3, <2>4, BoundedMove
<1>5. CASE Summary!Read(run)
    <2>1. CASE Summary!Ended(run) /\ summary' = Summary!Free
        BY <2>1, BoundedFree, BoundedEnd
    <2>2. CASE /\ renderers' = [renderers EXCEPT ![run].pc = "staged", ![run].read = summary.file]
               /\ UNCHANGED summary
        <3>1. PICK file \in Summary!Files : file = summary.file
            BY <1>1 DEF BoundedSummary
        <3>2. PICK x : x = [renderers[run] EXCEPT !.pc = "staged", !.read = file]
            OBVIOUS
        <3>3. x \in BoundedRun /\ Holding(x)
            BY <1>1, <3>2 DEF BoundedRun, Busy, Holding
        <3>4. renderers' = [renderers EXCEPT ![run] = x] /\ summary' = summary
            BY <1>1, <2>2, <3>1, <3>2
        <3>5. QED
            BY <1>1, <3>3, <3>4, BoundedMove
    <2>3. QED
        BY <1>5, <2>1, <2>2 DEF Summary!Read
<1>6. CASE Summary!Recheck(run)
    <2>1. CASE Summary!Ended(run) /\ summary' = Summary!Free
        BY <2>1, BoundedFree, BoundedEnd
    <2>2. CASE /\ renderers' = [renderers EXCEPT ![run].pc = "checked",
                                                 ![run].edits = summary.file.prose]
               /\ UNCHANGED summary
        <3>1. PICK edits \in 0 .. MaxSaves : edits = summary.file.prose
            BY <1>1 DEF BoundedSummary, Summary!Files
        <3>2. PICK x : x = [renderers[run] EXCEPT !.pc = "checked", !.edits = edits]
            OBVIOUS
        <3>3. x \in BoundedRun /\ Holding(x)
            BY <1>1, <1>6, <3>2 DEF BoundedRun, Busy, Holding, Summary!Recheck, Summary!At
        <3>4. renderers' = [renderers EXCEPT ![run] = x] /\ summary' = summary
            BY <1>1, <2>2, <3>1, <3>2
        <3>5. QED
            BY <1>1, <3>3, <3>4, BoundedMove
    <2>3. QED
        BY <1>6, <2>1, <2>2 DEF Summary!Recheck
<1>7. CASE Summary!Install(run)
    <2>1. PICK file \in Summary!Files : file = renderers[run].read
        BY <1>1, <1>7 DEF Summary!Install, Summary!At, Holding
    <2>2. PICK block \in -1 .. MaxGeneration : block = renderers[run].block
        BY <1>1 DEF BoundedRun
    <2>3. PICK new : new = Summary!Spliced(run, file)
        OBVIOUS
    <2>4. PICK part \in {"status", "pattern"} : part = Summary!Part(run)
        BY DEF Summary!Part
    <2>5. new = [file EXCEPT ![part] = block]
        BY <2>2, <2>3, <2>4 DEF Summary!Spliced
    <2>6. block \in Summary!Torn .. MaxGeneration
        BY SummaryNumbers DEF Summary!Torn
    <2>7. new \in Summary!Files
        BY <2>5, <2>6 DEF Summary!Files
    <2>8. PICK free \in BoundedSummary : free = Summary!Free
        BY BoundedFree
    <2>9. summary' = [free EXCEPT !.file = new]
        BY <1>7, <2>1, <2>3, <2>8 DEF Summary!Install
    <2>10. summary' \in BoundedSummary
        BY <2>7, <2>9 DEF BoundedSummary
    <2>11. QED
        BY <1>7, <2>10, BoundedEnd DEF Summary!Install
<1>8. CASE Summary!Fail(run)
    BY <1>1, <1>8, BoundedFree, BoundedEnd DEF Summary!Fail
<1>9. QED
    BY <1>2, <1>3, <1>4, <1>5, <1>6, <1>7, <1>8 DEF Summary!RunStep

LEMMA BoundedNext == SummaryInv /\ SummaryBounded /\ [Summary!Next]_summary_vars => SummaryBounded'
<1>1. SUFFICES ASSUME SummaryInv, SummaryBounded, [Summary!Next]_summary_vars
               PROVE  SummaryBounded'
    OBVIOUS
<1>2. /\ summary \in BoundedSummary /\ renderers \in [SummaryRuns -> BoundedRun]
      /\ \A run \in SummaryRuns : Holding(renderers[run])
    BY <1>1 DEF SummaryBounded
<1>3. CASE Summary!Edit
    <2>1. PICK status \in {summary.file.status, Summary!Absent, Summary!Torn},
               pattern \in {summary.file.pattern, Summary!Absent, Summary!Torn} :
            summary' = [summary EXCEPT !.file = [prose |-> @.prose + 1, status |-> status,
                                                 pattern |-> pattern]]
        BY <1>3 DEF Summary!Edit
    <2>2. status \in Summary!Torn .. MaxGeneration /\ pattern \in Summary!Torn .. MaxGeneration
        BY <1>2, <2>1, SummaryNumbers DEF BoundedSummary, Summary!Files, Summary!Absent, Summary!Torn
    <2>3. PICK prose \in 0 .. MaxSaves : prose = summary.file.prose + 1
        BY <1>2, <1>3, SummaryNumbers DEF BoundedSummary, Summary!Files, Summary!Edit
    <2>4. PICK file : file = [prose |-> prose, status |-> status, pattern |-> pattern]
        OBVIOUS
    <2>5. file \in Summary!Files
        BY <2>2, <2>3, <2>4 DEF Summary!Files
    <2>6. summary' = [summary EXCEPT !.file = file]
        BY <2>1, <2>3, <2>4
    <2>7. summary' \in BoundedSummary /\ renderers' = renderers
        BY <1>2, <1>3, <2>5, <2>6 DEF BoundedSummary, Summary!Edit
    <2>8. QED
        BY <1>2, <2>7 DEF SummaryBounded
<1>4. CASE Summary!DatabaseCommit
    <2>1. PICK generation \in 0 .. MaxGeneration : generation = summary.generation + 1
        BY <1>2, <1>4, SummaryNumbers DEF BoundedSummary, Summary!DatabaseCommit
    <2>2. summary' = [summary EXCEPT !.generation = generation]
        BY <1>4, <2>1 DEF Summary!DatabaseCommit
    <2>3. summary' \in BoundedSummary /\ renderers' = renderers
        BY <1>2, <1>4, <2>2 DEF BoundedSummary, Summary!DatabaseCommit
    <2>4. QED
        BY <1>2, <2>3 DEF SummaryBounded
<1>5. CASE UNCHANGED summary_vars
    <2>1. summary' = summary /\ renderers' = renderers
        BY <1>5 DEF summary_vars
    <2>2. QED
        BY <1>2, <2>1 DEF SummaryBounded
<1>6. QED
    BY <1>1, <1>3, <1>4, <1>5, BoundedStep, SummaryAssumed DEF Summary!Next

LEMMA SummaryTypes == SummaryBounded => Summary!TypeOK
BY SummaryAssumed
   DEF SummaryBounded, BoundedSummary, BoundedRun, Busy, Summary!TypeOK, Summary!Absent

-----------------------------------------------------------------------------
(* The commands side by side                                                 *)

ToolInv ==
  /\ RecordInv
  /\ tool = "style" => StyleInv
  /\ tool = "worker" => WorkerInv

LEMMA OneToolMoves ==
  ASSUME [Next]_vars
  PROVE  /\ tool' = tool
         /\ UNCHANGED style_vars \/ (tool = "style" /\ Style!Next)
         /\ UNCHANGED worker_vars \/ (tool = "worker" /\ Worker!Next)
BY DEF Next, vars

LEMMA ToolsStart == Init => ToolInv
BY RecordStarts, StyleStarts, WorkerStarts DEF Init, ToolInv

LEMMA ToolsMove ==
  ASSUME ToolInv, [Next]_vars PROVE ToolInv'
<1>1. RecordInv'
    BY RecordMoves DEF ToolInv
<1>2. ASSUME tool = "style" PROVE StyleInv'
    <2>1. StyleInv
        BY <1>2 DEF ToolInv
    <2>2. CASE UNCHANGED style_vars
        BY <2>1, <2>2 DEF style_vars, StyleInv
    <2>3. CASE Style!Next
        BY <2>1, <2>3, StyleMoves
    <2>4. QED
        BY <2>2, <2>3, OneToolMoves
<1>3. ASSUME tool = "worker" PROVE WorkerInv'
    <2>1. WorkerInv
        BY <1>3 DEF ToolInv
    <2>2. CASE UNCHANGED worker_vars
        BY <2>1, <2>2 DEF worker_vars, WorkerInv
    <2>3. CASE Worker!Next
        BY <2>1, <2>3, WorkerMoves
    <2>4. QED
        BY <2>2, <2>3, OneToolMoves
<1>4. QED
    BY <1>1, <1>2, <1>3, OneToolMoves DEF ToolInv

(* What a call or a command reports is what happened.  A worker's result is handed over
   only after a clean exit whose every byte was read, and no reported failure but that of
   the cleanup leaves a process or a thread behind; a QR receipt names the link and the
   code that were made; a fetch claims no evidence it did not leave. *)
THEOREM ReportsAreTrue == Spec => []ReportsTrue
<1>1. Init => ToolInv
    BY ToolsStart
<1>2. ToolInv /\ [Next]_vars => ToolInv'
    BY ToolsMove
<1>3. ToolInv => ReportsTrue
    BY WorkerTold, QrReports, BundleTells DEF ToolInv, RecordInv, ReportsTrue
<1>4. Spec => [][Next]_vars
    BY PTL DEF Spec
<1>5. QED
    BY <1>1, <1>2, <1>3, <1>4, PTL DEF Spec

(* A record beside an artifact tells the truth about it: the QR record about where its
   code leads, the receipts about the text and the recording they name, and the record
   of rendered styles about the model that drew the cell a gate goes by. *)
THEOREM RecordsAreHonest == Spec => []RecordsHonest
<1>1. Init => ToolInv
    BY ToolsStart
<1>2. ToolInv /\ [Next]_vars => ToolInv'
    BY ToolsMove
<1>3. ToolInv => RecordsHonest
    BY QrReports, BundleHonest, EvidenceTrue DEF ToolInv, RecordInv, RecordsHonest
<1>4. Spec => [][Next]_vars
    BY PTL DEF Spec
<1>5. QED
    BY <1>1, <1>2, <1>3, <1>4, PTL DEF Spec

LEMMA MediaTypes ==
  /\ VideoInv => Video!TypeOK
  /\ AudioInv => Audio!TypeOK
<1>1. ASSUME VideoInv PROVE Video!TypeOK
    BY <1>1 DEF VideoInv, VideoTyped, Fetching, Calls, States, Video!TypeOK
<1>2. ASSUME AudioInv PROVE Audio!TypeOK
    BY <1>2 DEF AudioInv, Volumes, Extractions, Audio!TypeOK
<1>3. QED
    BY <1>1, <1>2

(* The types of all commands side by side: what is opened is closed, what is passed on to
   a later pass or a later run is a number, a name or a record that it can read. *)
THEOREM ToolTypesHold == Spec => []TypesOK
<1>1. Init => ToolInv /\ MediaInv /\ SummaryBounded /\ DecksInv
    BY ToolsStart, VideoStart, AudioStart, BoundedStart, DecksStart DEF Init, MediaInv
<1>2. ToolInv /\ MediaInv /\ SummaryBounded /\ DecksInv /\ [Next]_vars =>
        ToolInv' /\ MediaInv' /\ SummaryBounded' /\ DecksInv'
    <2>1. ToolInv /\ SummaryBounded /\ [Next]_vars => SummaryBounded'
        BY OneCommandMoves, BoundedNext DEF ToolInv, RecordInv
    <2>2. QED
        BY <2>1, ToolsMove, MediaMoves, DecksMove
<1>3. ToolInv /\ MediaInv /\ SummaryBounded /\ DecksInv => TypesOK
    BY SummaryTypes, QrTypes, BundleTypes, MediaTypes, StyleTypes, WorkerTypes, DeckTypes
       DEF ToolInv, RecordInv, MediaInv, DecksInv, TypesOK
<1>4. Spec => [][Next]_vars
    BY PTL DEF Spec
<1>5. QED
    BY <1>1, <1>2, <1>3, <1>4, PTL DEF Spec

Numbering ==
  \A f \in DOMAIN studio.versions \intersect DOMAIN studio'.versions :
    studio'.versions[f] # studio.versions[f] =>
      \E a \in Artists :
        /\ artists[a].pc = "rendering" /\ artists[a].number = f.number
        /\ f \notin artists[a].known

(* "Never overwrites": a numbered version of an image is written over only by a run that
   chose its number before that version was there, however many runs, edits and kills
   interleave and whatever is thrown away in between. *)
THEOREM VersionsAreKept == Spec => VersionsKept
<1>1. Init => ToolInv
    BY ToolsStart
<1>2. ToolInv /\ [Next]_vars => ToolInv'
    BY ToolsMove
<1>3. ToolInv /\ [Next]_vars => [Numbering]_<<studio, artists>>
    <2>1. SUFFICES ASSUME ToolInv, [Next]_vars, ~UNCHANGED <<studio, artists>>
                   PROVE  Numbering
        OBVIOUS
    <2>2. Style!Next /\ StyleInv
        BY <2>1, OneToolMoves DEF ToolInv, style_vars
    <2>3. QED
        BY <2>2, VersionSurvives DEF Numbering
<1>4. Spec => [][Next]_vars
    BY PTL DEF Spec
<1>5. Spec => [][Numbering]_<<studio, artists>>
    BY <1>1, <1>2, <1>3, <1>4, PTL DEF Spec
<1>6. QED
    BY <1>5 DEF VersionsKept, Style!VersionsKept, Numbering, Style!style_vars
=============================================================================

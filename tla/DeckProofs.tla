----------------------------- MODULE DeckProofs -----------------------------
(***************************************************************************)
(* The passes of DeckAssembly make of an outline what the outline asks for *)
(* (DeckAssembled), whatever the numbers of its entries, however many of   *)
(* them are revealed in frames, and however often a pass fails, is run     *)
(* again or is held up by a missing image.                                 *)
(*                                                                         *)
(* Outlined is what is known of the outline, DeckInv of the deck between   *)
(* two passes.  At its heart is Listing: a deck shows each view that is    *)
(* due once, in order.  RecordExpands keeps that through every record of   *)
(* ExpandBuilds, and SlideNumberIsPlace draws from it that the numbers     *)
(* written down before the expansion are right after it.                   *)
(***************************************************************************)
EXTENDS MCVaultTools, FiniteSetTheorems, FunctionTheorems, WellFoundedInduction, TLAPS

(* Counting in DeckAssembly is counting. *)
LEMMA SameCount ==
  /\ \A S : Deck!IsFiniteSet(S) <=> IsFiniteSet(S)
  /\ \A S : Deck!Cardinality(S) = Cardinality(S)
<1>1. \A S : Deck!IsFiniteSet(S) <=> IsFiniteSet(S)
    BY DEF Deck!IsFiniteSet, IsFiniteSet
<1>2. \A S : Deck!Cardinality(S) = Cardinality(S)
    BY DEF Deck!Cardinality, Cardinality
<1> QED
    BY <1>1, <1>2

LEMMA DeckAssumed ==
  /\ IsFiniteSet(Numbers) /\ Numbers \subseteq Nat /\ Frames \subseteq Nat
  /\ None \notin Numbers /\ None \notin Seq(Nat)
BY ToolAssumptions, SameCount DEF Deck!Assumptions

(* What an outline may ask for. *)
Outlined ==
  /\ outline = [slides |-> outline.slides, silent |-> outline.silent,
                stale |-> outline.stale, shownotes |-> outline.shownotes]
  /\ Deck!Entries \subseteq Numbers /\ Deck!Entries # {}
  /\ \A n \in Deck!Entries :
       /\ Deck!Kind(n) \in {"plain", "zone", "poster", "imgtxt"}
       /\ Deck!FrameCount(n) \in Nat
  /\ outline.silent \in Deck!Entries \union {None}
  /\ outline.shownotes \in Deck!Entries

LEMMA EntriesAre ==
  ASSUME Outlined
  PROVE  /\ IsFiniteSet(Deck!Entries) /\ Cardinality(Deck!Entries) \in Nat
         /\ Deck!Entries \subseteq Nat /\ None \notin Deck!Entries
         /\ Deck!Parents \subseteq Deck!Entries
<1>1. Deck!Entries \subseteq Numbers
    BY DEF Outlined
<1>2. IsFiniteSet(Deck!Entries)
    BY <1>1, DeckAssumed, FS_Subset
<1>3. Cardinality(Deck!Entries) \in Nat
    BY <1>2, FS_CardinalityType
<1> QED
    BY <1>1, <1>2, <1>3, DeckAssumed DEF Deck!Parents

(* The position of an entry is its rank: positions and entries correspond. *)
LEMMA PositionsRank ==
  ASSUME Outlined
  PROVE  /\ \A n \in Deck!Entries : Deck!Position(n) \in 1 .. Cardinality(Deck!Entries)
         /\ \A n, m \in Deck!Entries : n < m <=> Deck!Position(n) < Deck!Position(m)
         /\ \A i \in 1 .. Cardinality(Deck!Entries) :
              \E n \in Deck!Entries : Deck!Position(n) = i
<1> DEFINE E == Deck!Entries
           Upto(n) == {m \in E : m <= n}
           rank == [n \in E |-> Deck!Position(n)]
<1>1. IsFiniteSet(E) /\ Cardinality(E) \in Nat /\ E \subseteq Nat
    BY EntriesAre
<1>2. \A n \in E : Deck!Position(n) = Cardinality(Upto(n))
    BY SameCount DEF Deck!Position
<1>3. ASSUME NEW n \in E
      PROVE  IsFiniteSet(Upto(n)) /\ Cardinality(Upto(n)) \in 1 .. Cardinality(E)
    <2>1. Upto(n) \in SUBSET E /\ n \in Upto(n)
        BY <1>1
    <2>2. IsFiniteSet(Upto(n)) /\ Cardinality(Upto(n)) <= Cardinality(E)
        BY <1>1, <2>1, FS_Subset
    <2>3. Cardinality(Upto(n)) \in Nat /\ Cardinality(Upto(n)) # 0
        BY <2>1, <2>2, FS_CardinalityType, FS_EmptySet
    <2> QED
        BY <1>1, <2>2, <2>3
<1>4. ASSUME NEW n \in E, NEW m \in E, n < m
      PROVE  Cardinality(Upto(n)) < Cardinality(Upto(m))
    <2>1. n \in Nat /\ m \in Nat /\ \A k \in E : k \in Nat
        BY <1>1
    <2>2. \A k \in Upto(n) : k \in Upto(m)
        BY <2>1, <1>4
    <2>3. Upto(n) \in SUBSET Upto(m)
        BY <2>2, Zenon
    <2>6. m \in Upto(m) /\ m \notin Upto(n)
        BY <2>1, <1>4
    <2>4. /\ Cardinality(Upto(n)) <= Cardinality(Upto(m))
          /\ Cardinality(Upto(n)) # Cardinality(Upto(m))
        BY <2>3, <2>6, <1>3, FS_Subset
    <2>5. Cardinality(Upto(n)) \in Nat /\ Cardinality(Upto(m)) \in Nat
        BY <1>3, <1>1
    <2> QED
        BY <2>4, <2>5
<1>9. \A n \in E : Deck!Position(n) \in Nat /\ Deck!Position(n) \in 1 .. Cardinality(E)
    <2> SUFFICES ASSUME NEW n \in E
                 PROVE  Deck!Position(n) \in Nat /\ Deck!Position(n) \in 1 .. Cardinality(E)
        OBVIOUS
    <2>1. Cardinality(Upto(n)) \in 1 .. Cardinality(E)
        BY <1>3
    <2>2. Deck!Position(n) = Cardinality(Upto(n))
        BY <1>2
    <2> QED
        BY <2>1, <2>2, <1>1
<1> HIDE DEF Upto
<1>5. \A n, m \in E : n < m <=> Deck!Position(n) < Deck!Position(m)
    <2> SUFFICES ASSUME NEW n \in E, NEW m \in E
                 PROVE  n < m <=> Deck!Position(n) < Deck!Position(m)
        OBVIOUS
    <2>1. Deck!Position(n) \in Nat /\ Deck!Position(m) \in Nat /\ n \in Nat /\ m \in Nat
        BY <1>1, <1>9
    <2>2. n < m => Deck!Position(n) < Deck!Position(m)
        BY <1>2, <1>4
    <2>3. m < n => Deck!Position(m) < Deck!Position(n)
        BY <1>2, <1>4
    <2> QED
        BY <2>1, <2>2, <2>3
<1>6. rank \in Injection(E, 1 .. Cardinality(E))
    <2>1. rank \in [E -> 1 .. Cardinality(E)]
        BY <1>9
    <2>2. ASSUME NEW n \in E, NEW m \in E, rank[n] = rank[m]
          PROVE  n = m
        <3>1. Deck!Position(n) = Deck!Position(m) /\ Deck!Position(n) \in Nat
            BY <2>2, <1>9
        <3> QED
            BY <3>1, <1>5, <1>1
    <2> QED
        BY <2>1, <2>2, Fun_IsInj
<1>7. rank \in Surjection(E, 1 .. Cardinality(E))
    <2>1. IsFiniteSet(1 .. Cardinality(E)) /\ Cardinality(1 .. Cardinality(E)) = Cardinality(E)
        BY <1>1, FS_Interval
    <2> QED
        BY <1>6, <2>1, FS_Injection
<1>8. \A i \in 1 .. Cardinality(E) : \E n \in E : Deck!Position(n) = i
    BY <1>7 DEF Surjection
<1> QED
    BY <1>9, <1>5, <1>8

LEMMA RankedEntries ==
  ASSUME Outlined
  PROVE  /\ DOMAIN Deck!Ranked = 1 .. Cardinality(Deck!Entries)
         /\ Len(Deck!Ranked) = Cardinality(Deck!Entries)
         /\ \A i \in 1 .. Cardinality(Deck!Entries) :
              Deck!Ranked[i] \in Deck!Entries /\ Deck!Position(Deck!Ranked[i]) = i
         /\ \A n \in Deck!Entries : Deck!Ranked[Deck!Position(n)] = n
<1>1. \A i \in 1 .. Cardinality(Deck!Entries) :
        Deck!Ranked[i] \in Deck!Entries /\ Deck!Position(Deck!Ranked[i]) = i
    <2> SUFFICES ASSUME NEW i \in 1 .. Cardinality(Deck!Entries)
                 PROVE  Deck!Ranked[i] \in Deck!Entries /\ Deck!Position(Deck!Ranked[i]) = i
        OBVIOUS
    <2>1. Deck!Ranked[i] = CHOOSE n \in Deck!Entries : Deck!Position(n) = i
        BY SameCount DEF Deck!Ranked
    <2>2. \E n \in Deck!Entries : Deck!Position(n) = i
        BY PositionsRank
    <2> QED
        BY <2>1, <2>2
<1>2. /\ DOMAIN Deck!Ranked = 1 .. Cardinality(Deck!Entries)
      /\ Len(Deck!Ranked) = Cardinality(Deck!Entries)
    <2>1. Cardinality(Deck!Entries) \in Nat
        BY EntriesAre
    <2> QED
        BY <2>1, SameCount DEF Deck!Ranked
<1>3. \A n \in Deck!Entries : Deck!Ranked[Deck!Position(n)] = n
    <2> SUFFICES ASSUME NEW n \in Deck!Entries
                 PROVE  Deck!Ranked[Deck!Position(n)] = n
        OBVIOUS
    <2>1. Deck!Position(n) \in 1 .. Cardinality(Deck!Entries)
        BY PositionsRank
    <2> DEFINE m == Deck!Ranked[Deck!Position(n)]
    <2>2. m \in Deck!Entries /\ Deck!Position(m) = Deck!Position(n)
        BY <1>1, <2>1
    <2>3. m \in Nat /\ n \in Nat /\ Deck!Position(n) \in Nat
        BY <2>1, <2>2, EntriesAre
    <2> HIDE DEF m
    <2>4. (m < n <=> Deck!Position(m) < Deck!Position(n)) /\ (n < m <=> Deck!Position(n) < Deck!Position(m))
        BY <2>2, PositionsRank
    <2>5. m = n
        BY <2>2, <2>3, <2>4
    <2> QED
        BY <2>5 DEF m
<1> QED
    BY <1>1, <1>2, <1>3

(* What a slide shows, as Deck!View says it of a place. *)
Shown(slide) == IF slide.title # None THEN Deck!Image(slide.title) ELSE slide.bg

(* What is to be seen while the parents in R wait for their expansion. *)
Current(R) ==
  {Deck!Image(n) : n \in (Deck!Entries \ Deck!Parents) \union R}
    \union UNION {{Deck!FrameImage(n, step) : step \in 0 .. (Deck!FrameCount(n) - 1)} :
                    n \in Deck!Parents \ R}

(* A deck lists views: each once, in order. *)
Listing(d, views) ==
  /\ Len(d) \in Nat /\ DOMAIN d = 1 .. Len(d)
  /\ \A i \in DOMAIN d : Shown(d[i]) \in views
  /\ \A v \in views : \E i \in DOMAIN d : Shown(d[i]) = v
  /\ \A i, j \in DOMAIN d : i < j => Deck!Precedes(Shown(d[i]), Shown(d[j]))

LEMMA NothingWaits == Current({}) = Deck!Declared
BY DEF Current, Deck!Declared

IsCurrent(v, R) ==
  \/ \E n \in (Deck!Entries \ Deck!Parents) \union R : v = <<n>>
  \/ \E n \in Deck!Parents \ R :
       \E step \in 0 .. (Deck!FrameCount(n) - 1) : v = <<n, step>>

LEMMA CurrentViews == \A R, v : v \in Current(R) <=> IsCurrent(v, R)
BY DEF Current, IsCurrent, Deck!Image, Deck!FrameImage

(* The order of images and frames. *)
LEMMA OrderOfViews ==
  /\ \A n, m : Deck!Precedes(<<n>>, <<m>>) <=> n < m
  /\ \A n, m, t : Deck!Precedes(<<n>>, <<m, t>>) <=> n < m
  /\ \A n, s, m : n # m => (Deck!Precedes(<<n, s>>, <<m>>) <=> n < m)
  /\ \A n, s, m, t : Deck!Precedes(<<n, s>>, <<m, t>>) <=> n < m \/ (n = m /\ s < t)
BY DEF Deck!Precedes

(* A view is of an entry, and the order of views goes by the entry first. *)
LEMMA ViewsOfEntries ==
  ASSUME Outlined, NEW R \in SUBSET Deck!Parents, NEW v \in Current(R)
  PROVE  /\ v[1] \in Deck!Entries /\ v[1] \in Nat
         /\ \/ v = <<v[1]>> /\ v[1] \in (Deck!Entries \ Deck!Parents) \union R
            \/ /\ v = <<v[1], v[2]>> /\ v[1] \in Deck!Parents \ R
               /\ v[2] \in 0 .. (Deck!FrameCount(v[1]) - 1) /\ v[2] \in Nat
         /\ v # None
<1> USE EntriesAre, DeckAssumed
<1>1. CASE \E n \in (Deck!Entries \ Deck!Parents) \union R : v = <<n>>
    <2>1. PICK n \in (Deck!Entries \ Deck!Parents) \union R : v = <<n>>
        BY <1>1
    <2>2. n \in Deck!Entries /\ n \in Nat /\ <<n>> \in Seq(Nat)
        OBVIOUS
    <2> QED
        BY <2>1, <2>2
<1>2. CASE \E n \in Deck!Parents \ R :
             \E step \in 0 .. (Deck!FrameCount(n) - 1) : v = <<n, step>>
    <2>4. PICK n \in Deck!Parents \ R :
             \E step \in 0 .. (Deck!FrameCount(n) - 1) : v = <<n, step>>
        BY <1>2
    <2>1. PICK step \in 0 .. (Deck!FrameCount(n) - 1) : v = <<n, step>>
        BY <2>4
    <2>2. n \in Deck!Entries /\ n \in Nat /\ step \in Nat
        BY DEF Outlined
    <2>3. <<n, step>> \in Seq(Nat)
        BY <2>2
    <2> QED
        BY <2>1, <2>2, <2>3
<1> QED
    BY <1>1, <1>2, CurrentViews DEF IsCurrent

LEMMA OrderByEntry ==
  ASSUME Outlined, NEW R \in SUBSET Deck!Parents, NEW v \in Current(R), NEW w \in Current(R)
  PROVE  /\ v[1] < w[1] => Deck!Precedes(v, w)
         /\ Deck!Precedes(v, w) => v[1] <= w[1] /\ v # w
         /\ Deck!Precedes(v, w) /\ v[1] = w[1] => Len(v) = 2 /\ v = <<v[1], v[2]>>
<1>1. v[1] \in Nat /\ w[1] \in Nat
    BY ViewsOfEntries
<1>2. v[1] < w[1] => Deck!Precedes(v, w)
    BY DEF Deck!Precedes
<1>3. ASSUME Deck!Precedes(v, w), v[1] = w[1]
      PROVE  Len(v) = 2 /\ v = <<v[1], v[2]>> /\ v # w
    <2>1. Len(v) = 2 /\ v[2] < w[2]
        BY <1>1, <1>3 DEF Deck!Precedes
    <2>2. v = <<v[1], v[2]>> /\ v[2] \in Nat
        BY <2>1, ViewsOfEntries
    <2> QED
        BY <2>1, <2>2
<1> QED
    BY <1>1, <1>2, <1>3 DEF Deck!Precedes

LEMMA Beside ==
  ASSUME NEW i \in Nat, NEW at \in Nat, NEW k \in Nat, NEW last \in Nat, i <= last,
         i \notin at .. (at + k - 1)
  PROVE  i < at \/ i \in (at + k) .. last
OBVIOUS

LEMMA MovedTo ==
  ASSUME NEW j \in Nat, NEW at \in Nat, NEW k \in Nat, NEW n \in Nat, NEW last \in Nat,
         k > 0, last = n + k - 1, j <= n, at < j
  PROVE  /\ j + k - 1 \in (at + k) .. last /\ j + k - 1 \in 1 .. last
         /\ (j + k - 1) - k + 1 = j
OBVIOUS

LEMMA Moved ==
  ASSUME NEW i \in Nat, NEW at \in Nat, NEW k \in Nat, NEW n \in Nat, NEW last \in Nat,
         at > 0, k > 0, last = n + k - 1, i <= last, ~ (i < at + k)
  PROVE  i - k + 1 \in 1 .. n /\ at < i - k + 1
OBVIOUS

(* The frames of a parent, and a deck with them in its place. *)
FramesOf(p, k, put) == \A m \in 1 .. k : Shown(put[m]) = <<p, m - 1>>
Replaces(e, d, at, k, put) ==
  /\ Len(e) = Len(d) + k - 1 /\ DOMAIN e = 1 .. Len(e)
  /\ \A i \in DOMAIN e :
       e[i] = IF i < at THEN d[i]
              ELSE IF i < at + k THEN put[i - at + 1] ELSE d[i - k + 1]

(* One record of ExpandBuilds: a parent's place is taken by its frames, in order. *)
LEMMA RecordExpands ==
  ASSUME Outlined, NEW R \in SUBSET Deck!Parents, NEW p \in R,
         NEW d, Listing(d, Current(R)),
         NEW at \in DOMAIN d, Shown(d[at]) = <<p>>,
         NEW k, k = Deck!FrameCount(p),
         NEW put, FramesOf(p, k, put), NEW e, Replaces(e, d, at, k, put)
  PROVE  Listing(e, Current(R \ {p}))
<1> DEFINE Q == R \ {p}
<1>1. /\ p \in Deck!Parents /\ p \in Deck!Entries /\ p \in Nat
      /\ k \in Nat /\ k > 0 /\ Q \in SUBSET Deck!Parents
    BY EntriesAre DEF Deck!Parents, Outlined
<1>2. Len(d) \in Nat /\ DOMAIN d = 1 .. Len(d) /\ at \in 1 .. Len(d)
    BY DEF Listing
<1>3. Len(e) \in Nat /\ DOMAIN e = 1 .. Len(e) /\ Len(e) = Len(d) + k - 1
    BY <1>1, <1>2 DEF Replaces
<1>4. /\ \A i \in 1 .. (at - 1) : e[i] = d[i] /\ i \in DOMAIN d /\ i # at
      /\ \A i \in at .. (at + k - 1) : Shown(e[i]) = <<p, i - at>>
      /\ \A i \in (at + k) .. Len(e) :
           e[i] = d[i - k + 1] /\ i - k + 1 \in DOMAIN d /\ at < i - k + 1
    <2>1. at \in Nat /\ k \in Nat /\ at > 0
        BY <1>1, <1>2
    <2>2. ASSUME NEW i \in 1 .. (at - 1)
          PROVE  e[i] = d[i] /\ i \in DOMAIN d /\ i # at
        <3>1. i \in Nat /\ i < at /\ i \in 1 .. Len(d) /\ i \in DOMAIN e
            BY <2>1, <1>1, <1>2, <1>3
        <3> QED
            BY <3>1, <1>2, <2>1 DEF Replaces
    <2>3. ASSUME NEW i \in at .. (at + k - 1)
          PROVE  Shown(e[i]) = <<p, i - at>>
        <3>6. i \in Nat /\ i >= at /\ i <= at + k - 1
            BY <2>1
        <3>3. i \in Nat /\ ~ (i < at) /\ i < at + k /\ i - at + 1 \in 1 .. k
            BY <2>1, <3>6
        <3>4. (i - at + 1) - 1 = i - at
            BY <2>1, <3>6
        <3>5. i \in 1 .. (Len(d) + k - 1)
            BY <2>1, <3>3, <1>2
        <3>1. /\ i \in Nat /\ ~ (i < at) /\ i < at + k /\ i \in DOMAIN e
              /\ i - at + 1 \in 1 .. k /\ (i - at + 1) - 1 = i - at
            BY <3>3, <3>4, <3>5, <1>3
        <3>2. e[i] = put[i - at + 1]
            BY <3>1 DEF Replaces
        <3> QED
            BY <3>1, <3>2 DEF FramesOf
    <2>4. ASSUME NEW i \in (at + k) .. Len(e)
          PROVE  e[i] = d[i - k + 1] /\ i - k + 1 \in DOMAIN d /\ at < i - k + 1
        <3>1. i \in Nat /\ ~ (i < at) /\ ~ (i < at + k) /\ i \in DOMAIN e /\ i <= Len(e)
            BY <2>1, <1>2, <1>3
        <3>2. i - k + 1 \in DOMAIN d /\ at < i - k + 1
            BY <2>1, <3>1, <1>2, <1>3, Moved
        <3> QED
            BY <3>1, <3>2 DEF Replaces
    <2> QED
        BY <2>2, <2>3, <2>4
<1>12. /\ at \in Nat /\ at > 0 /\ Len(e) = Len(d) + k - 1 /\ k \in Nat /\ k > 0
       /\ Len(d) \in Nat /\ Len(e) \in Nat
    BY <1>1, <1>2, <1>3
<1>5. \A i \in DOMAIN e :
        \/ i \in 1 .. (at - 1) \/ i \in at .. (at + k - 1) \/ i \in (at + k) .. Len(e)
    BY <1>1, <1>2, <1>3
<1>6. \A v : v \in Current(Q) <=>
               \/ v \in Current(R) /\ v # <<p>>
               \/ \E step \in 0 .. (k - 1) : v = <<p, step>>
    <2> SUFFICES ASSUME NEW v
                 PROVE  v \in Current(Q) <=>
                          \/ v \in Current(R) /\ v # <<p>>
                          \/ \E step \in 0 .. (k - 1) : v = <<p, step>>
        OBVIOUS
    <2>1. v \in Current(Q) <=> IsCurrent(v, Q)
        BY CurrentViews
    <2>2. v \in Current(R) <=> IsCurrent(v, R)
        BY CurrentViews
    <2>3. \A n : n \in (Deck!Entries \ Deck!Parents) \union Q <=>
                   n \in (Deck!Entries \ Deck!Parents) \union R /\ n # p
        BY <1>1
    <2>4. \A n : n \in Deck!Parents \ Q <=> n \in Deck!Parents \ R \/ n = p
        BY <1>1
    <2>5. \A n, step : <<n, step>> # <<p>>
        OBVIOUS
    <2>6. \A n : <<n>> = <<p>> <=> n = p
        OBVIOUS
    <2> QED
        BY <2>1, <2>2, <2>3, <2>4, <2>5, <2>6 DEF IsCurrent
<1>7. \A i \in DOMAIN d : i # at => Shown(d[i]) \in Current(R) /\ Shown(d[i]) # <<p>>
    <2> SUFFICES ASSUME NEW i \in DOMAIN d, i # at
                 PROVE  Shown(d[i]) \in Current(R) /\ Shown(d[i]) # <<p>>
        OBVIOUS
    <2>1. Shown(d[i]) \in Current(R) /\ Shown(d[at]) \in Current(R)
        BY DEF Listing
    <2>2. i < at \/ at < i
        BY <1>2
    <2>3. Deck!Precedes(Shown(d[i]), Shown(d[at])) \/ Deck!Precedes(Shown(d[at]), Shown(d[i]))
        BY <2>2 DEF Listing
    <2> QED
        BY <2>1, <2>3, OrderByEntry
<1>8. /\ \A i \in DOMAIN d : i < at => Shown(d[i])[1] < p
      /\ \A i \in DOMAIN d : at < i => p < Shown(d[i])[1]
    <2>1. ASSUME NEW i \in DOMAIN d, i < at
          PROVE  Shown(d[i])[1] < p
        <3>1. Shown(d[i]) \in Current(R) /\ Shown(d[at]) \in Current(R) /\ Shown(d[i]) # <<p>>
            BY <2>1, <1>2, <1>7 DEF Listing
        <3>2. Deck!Precedes(Shown(d[i]), Shown(d[at]))
            BY <2>1 DEF Listing
        <3>3. Shown(d[i])[1] <= p /\ Shown(d[i])[1] \in Nat
            BY <3>1, <3>2, OrderByEntry, ViewsOfEntries
        <3>4. Shown(d[i])[1] # p
            BY <3>1, ViewsOfEntries
        <3> QED
            BY <3>3, <3>4, <1>1
    <2>2. ASSUME NEW i \in DOMAIN d, at < i
          PROVE  p < Shown(d[i])[1]
        <3>1. Shown(d[i]) \in Current(R) /\ Shown(d[at]) \in Current(R)
            BY DEF Listing
        <3>2. Deck!Precedes(<<p>>, Shown(d[i]))
            BY <2>2 DEF Listing
        <3>3. p <= Shown(d[i])[1] /\ Shown(d[i])[1] \in Nat
            BY <3>1, <3>2, OrderByEntry, ViewsOfEntries
        <3>4. Shown(d[i])[1] # p
            BY <3>1, <3>2, OrderByEntry
        <3> QED
            BY <3>3, <3>4, <1>1
    <2> QED
        BY <2>1, <2>2
<1>9. \A i \in DOMAIN e : Shown(e[i]) \in Current(Q)
    <2> SUFFICES ASSUME NEW i \in DOMAIN e
                 PROVE  Shown(e[i]) \in Current(Q)
        OBVIOUS
    <2>1. CASE i \in 1 .. (at - 1)
        BY <2>1, <1>4, <1>6, <1>7
    <2>2. CASE i \in at .. (at + k - 1)
        <3>2. i - at \in 0 .. (k - 1)
            BY <2>2, <1>12
        <3>3. Shown(e[i]) = <<p, i - at>>
            BY <2>2, <1>4
        <3>1. Shown(e[i]) = <<p, i - at>> /\ i - at \in 0 .. (k - 1)
            BY <3>2, <3>3
        <3> QED
            BY <3>1, <1>6
    <2>3. CASE i \in (at + k) .. Len(e)
        <3>1. e[i] = d[i - k + 1] /\ i - k + 1 \in DOMAIN d /\ i - k + 1 # at
            BY <2>3, <1>4, <1>12
        <3> QED
            BY <3>1, <1>6, <1>7
    <2> QED
        BY <1>5, <2>1, <2>2, <2>3
<1>10. \A v \in Current(Q) : \E i \in DOMAIN e : Shown(e[i]) = v
    <2> SUFFICES ASSUME NEW v \in Current(Q)
                 PROVE  \E i \in DOMAIN e : Shown(e[i]) = v
        OBVIOUS
    <2>1. CASE v \in Current(R) /\ v # <<p>>
        <3>1. PICK j \in DOMAIN d : Shown(d[j]) = v
            BY <2>1 DEF Listing
        <3>2. j # at /\ j \in 1 .. Len(d)
            BY <3>1, <2>1, <1>2
        <3>3. CASE j < at
            <4>1. j \in 1 .. (at - 1) /\ j \in DOMAIN e
                BY <3>2, <3>3, <1>1, <1>2, <1>3
            <4> QED
                BY <4>1, <3>1, <1>4
        <3>4. CASE at < j
            <4>3. j \in Nat /\ j <= Len(d)
                BY <3>2, <1>2
            <4>4. /\ j + k - 1 \in (at + k) .. Len(e) /\ j + k - 1 \in 1 .. Len(e)
                  /\ (j + k - 1) - k + 1 = j
                BY <4>3, <3>4, <1>12, MovedTo
            <4>1. /\ j + k - 1 \in (at + k) .. Len(e) /\ j + k - 1 \in DOMAIN e
                  /\ (j + k - 1) - k + 1 = j
                BY <4>4, <1>3
            <4>2. e[j + k - 1] = d[j]
                BY <4>1, <1>4
            <4> QED
                BY <4>1, <4>2, <3>1
        <3> QED
            BY <3>2, <3>3, <3>4, <1>2
    <2>2. CASE \E step \in 0 .. (k - 1) : v = <<p, step>>
        <3>1. PICK step \in 0 .. (k - 1) : v = <<p, step>>
            BY <2>2
        <3>2. /\ at + step \in at .. (at + k - 1) /\ at + step \in DOMAIN e
              /\ (at + step) - at = step
            BY <1>1, <1>2, <1>3
        <3>3. Shown(e[at + step]) = <<p, step>>
            BY <3>2, <1>4
        <3> QED
            BY <3>1, <3>2, <3>3
    <2> QED
        BY <1>6, <2>1, <2>2
<1>11. ASSUME NEW i \in DOMAIN e, NEW j \in DOMAIN e, i < j
       PROVE  Deck!Precedes(Shown(e[i]), Shown(e[j]))
    <2> DEFINE a == IF i < at THEN i ELSE i - k + 1
               b == IF j < at THEN j ELSE j - k + 1
    <2>1. i \in 1 .. Len(e) /\ j \in 1 .. Len(e)
        BY <1>3
    <2>2. CASE i \notin at .. (at + k - 1) /\ j \notin at .. (at + k - 1)
        <3>2. i \in Nat /\ j \in Nat /\ i > 0 /\ j > 0 /\ i <= Len(e) /\ j <= Len(e)
            BY <2>1, <1>12
        <3>3. /\ i < at \/ i \in (at + k) .. Len(e)
              /\ j < at \/ j \in (at + k) .. Len(e)
            BY <3>2, <2>2, <1>12, Beside
        <3>4. a < b
            BY <3>2, <3>3, <1>12, <1>11
        <3>7. /\ i < at => i \in 1 .. (at - 1)
              /\ j < at => j \in 1 .. (at - 1)
            BY <3>2, <1>12
        <3>8. /\ i \in (at + k) .. Len(e) => ~ (i < at)
              /\ j \in (at + k) .. Len(e) => ~ (j < at)
            BY <3>2, <1>12
        <3>5. a \in DOMAIN d /\ e[i] = d[a]
            BY <3>3, <3>7, <3>8, <1>4
        <3>6. b \in DOMAIN d /\ e[j] = d[b]
            BY <3>3, <3>7, <3>8, <1>4
        <3>1. a \in DOMAIN d /\ b \in DOMAIN d /\ a < b /\ e[i] = d[a] /\ e[j] = d[b]
            BY <3>4, <3>5, <3>6
        <3> HIDE DEF a, b
        <3> QED
            BY <3>1 DEF Listing
    <2>3. CASE i \in at .. (at + k - 1) /\ j \in at .. (at + k - 1)
        <3>1. Shown(e[i]) = <<p, i - at>> /\ Shown(e[j]) = <<p, j - at>>
            BY <2>3, <1>4
        <3>2. i - at < j - at
            BY <2>3, <1>11, <1>12
        <3> QED
            BY <3>1, <3>2, OrderOfViews
    <2>4. CASE i \notin at .. (at + k - 1) /\ j \in at .. (at + k - 1)
        <3>4. i \in Nat /\ 1 <= i /\ j \in Nat /\ j <= at + k - 1 /\ i < at + k - 1
            BY <2>1, <2>4, <1>11, <1>12
        <3>5. i < at
            BY <3>4, <2>4, <1>12
        <3>6. i \in 1 .. (at - 1)
            BY <3>4, <3>5, <1>12
        <3>1. e[i] = d[i] /\ i \in DOMAIN d /\ i < at
            BY <3>5, <3>6, <1>4
        <3>2. Shown(e[i])[1] < p
            BY <3>1, <1>8
        <3>3. Shown(e[j]) = <<p, j - at>>
            BY <2>4, <1>4
        <3> QED
            BY <3>2, <3>3 DEF Deck!Precedes
    <2>5. CASE i \in at .. (at + k - 1) /\ j \notin at .. (at + k - 1)
        <3>5. j \in Nat /\ i \in Nat /\ j <= Len(e) /\ ~ (j < at)
            BY <2>1, <2>5, <1>11, <1>12
        <3>6. j < at \/ j \in (at + k) .. Len(e)
            BY <3>5, <2>5, <1>12, Beside
        <3>1. j \in (at + k) .. Len(e)
            BY <3>5, <3>6
        <3>2. e[j] = d[j - k + 1] /\ j - k + 1 \in DOMAIN d /\ at < j - k + 1
            BY <3>1, <1>4
        <3>3. p < Shown(e[j])[1]
            BY <3>2, <1>8
        <3>4. Shown(e[i]) = <<p, i - at>>
            BY <2>5, <1>4
        <3> QED
            BY <3>3, <3>4 DEF Deck!Precedes
    <2> QED
        BY <2>2, <2>3, <2>4, <2>5
<1> QED
    BY <1>3, <1>9, <1>10, <1>11 DEF Listing

(* What is seen up to a place of a deck is as many views as the place says. *)
LEMMA PlaceOfView ==
  ASSUME NEW views, NEW d, Listing(d, views), NEW at \in DOMAIN d,
         \A i, j \in DOMAIN d : Shown(d[i]) = Shown(d[j]) => i = j,
         NEW S, \A w : w \in S <=> w \in views /\ (w = Shown(d[at]) \/ Deck!Precedes(w, Shown(d[at]))),
         \A i \in DOMAIN d : at < i => ~ Deck!Precedes(Shown(d[i]), Shown(d[at]))
  PROVE  IsFiniteSet(S) /\ Cardinality(S) = at
<1> DEFINE f == [i \in 1 .. at |-> Shown(d[i])]
<1>1. DOMAIN d = 1 .. Len(d) /\ Len(d) \in Nat /\ at \in Nat /\ 1 .. at \subseteq DOMAIN d
    BY DEF Listing
<1>2. \A i \in 1 .. at : f[i] \in S
    <2> SUFFICES ASSUME NEW i \in 1 .. at
                 PROVE  f[i] \in S
        OBVIOUS
    <2>1. i \in DOMAIN d /\ f[i] = Shown(d[i]) /\ Shown(d[i]) \in views /\ (i = at \/ i < at)
        BY <1>1 DEF Listing
    <2>2. i < at => Deck!Precedes(Shown(d[i]), Shown(d[at]))
        BY <2>1 DEF Listing
    <2> QED
        BY <2>1, <2>2
<1>3. f \in Injection(1 .. at, S)
    <2>1. f \in [1 .. at -> S]
        BY <1>2
    <2>2. ASSUME NEW i \in 1 .. at, NEW j \in 1 .. at, f[i] = f[j]
          PROVE  i = j
        BY <2>2, <1>1
    <2> QED
        BY <2>1, <2>2, Fun_IsInj
<1>4. \A w \in S : \E i \in 1 .. at : f[i] = w
    <2> SUFFICES ASSUME NEW w \in S
                 PROVE  \E i \in 1 .. at : f[i] = w
        OBVIOUS
    <2>1. w \in views
        OBVIOUS
    <2>2. PICK i \in DOMAIN d : Shown(d[i]) = w
        BY <2>1 DEF Listing
    <2>3. ~ (at < i)
        BY <2>2, <1>1
    <2>4. i \in 1 .. at
        BY <2>2, <2>3, <1>1
    <2> QED
        BY <2>2, <2>4
<1>5. f \in Surjection(1 .. at, S)
    BY <1>3, <1>4 DEF Injection, Surjection
<1>6. f \in Bijection(1 .. at, S)
    BY <1>3, <1>5 DEF Bijection
<1>7. IsFiniteSet(1 .. at) /\ Cardinality(1 .. at) = at
    BY <1>1, FS_Interval
<1>8. ExistsBijection(1 .. at, S)
    BY <1>6 DEF ExistsBijection
<1> QED
    BY <1>7, <1>8, FS_Bijection

(* In a listing of current views no two places show the same. *)
LEMMA PlacesDiffer ==
  ASSUME Outlined, NEW R \in SUBSET Deck!Parents, NEW d, Listing(d, Current(R))
  PROVE  /\ \A i, j \in DOMAIN d : Shown(d[i]) = Shown(d[j]) => i = j
         /\ \A i, j \in DOMAIN d : i < j => ~ Deck!Precedes(Shown(d[j]), Shown(d[i]))
<1>1. Len(d) \in Nat /\ DOMAIN d = 1 .. Len(d)
    BY DEF Listing
<1>2. ASSUME NEW i \in DOMAIN d, NEW j \in DOMAIN d, i < j
      PROVE  Shown(d[i]) # Shown(d[j]) /\ ~ Deck!Precedes(Shown(d[j]), Shown(d[i]))
    <2> DEFINE v == Shown(d[i])
               w == Shown(d[j])
    <2>1. v \in Current(R) /\ w \in Current(R) /\ Deck!Precedes(v, w)
        BY <1>2 DEF Listing
    <2>2. v # w /\ v[1] \in Nat /\ w[1] \in Nat /\ v[1] <= w[1]
        BY <2>1, OrderByEntry, ViewsOfEntries
    <2>3. ASSUME Deck!Precedes(w, v)
          PROVE  FALSE
        <3>1. w[1] = v[1]
            BY <2>1, <2>2, <2>3, OrderByEntry
        <3>2. Len(v) = 2 /\ v = <<v[1], v[2]>> /\ Len(w) = 2 /\ w = <<w[1], w[2]>>
            BY <2>1, <2>3, <3>1, OrderByEntry
        <3>3. v[2] \in Nat /\ w[2] \in Nat
            BY <2>1, <3>2, ViewsOfEntries
        <3>4. v[2] < w[2] /\ w[2] < v[2]
            BY <2>1, <2>2, <2>3, <3>1 DEF Deck!Precedes
        <3> QED
            BY <3>3, <3>4
    <2> QED
        BY <2>2, <2>3
<1> QED
    BY <1>1, <1>2

LEMMA SurplusFinite ==
  ASSUME Outlined, NEW Q \in SUBSET Deck!Parents
  PROVE  IsFiniteSet(UNION {Deck!Surplus(p) : p \in Q})
<1> DEFINE f == [p \in Q |-> Deck!Surplus(p)]
           T == {Deck!Surplus(p) : p \in Q}
<1>1. IsFiniteSet(Q)
    <2>1. Q \in SUBSET Deck!Entries
        BY EntriesAre
    <2> QED
        BY <2>1, EntriesAre, FS_Subset
<1>2. f \in Surjection(Q, T)
    BY DEF Surjection
<1>3. IsFiniteSet(T)
    BY <1>1, <1>2, FS_Surjection
<1>4. ASSUME NEW s \in T
      PROVE  IsFiniteSet(s)
    <2>1. PICK p \in Q : s = Deck!Surplus(p)
        OBVIOUS
    <2> DEFINE k == Deck!FrameCount(p) - 1
               g == [step \in 1 .. k |-> <<p, step>>]
    <2>2. k \in Int
        BY EntriesAre DEF Outlined
    <2> HIDE DEF k
    <2>3. g \in Surjection(1 .. k, {<<p, step>> : step \in 1 .. k})
        BY DEF Surjection
    <2>4. IsFiniteSet(1 .. k)
        BY <2>2, FS_Interval
    <2>5. s = {<<p, step>> : step \in 1 .. k}
        BY <2>1 DEF Deck!Surplus, Deck!FrameImage, k
    <2> QED
        BY <2>3, <2>4, <2>5, FS_Surjection
<1> HIDE DEF T
<1>5. IsFiniteSet(UNION T)
    BY <1>3, <1>4, FS_UNION
<1> QED
    BY <1>5 DEF T

(* deck_slide_number tells where an entry without frames is in the expanded deck. *)
LEMMA SlideNumberIsPlace ==
  ASSUME Outlined, NEW d, Listing(d, Deck!Declared), NEW at \in DOMAIN d,
         NEW n \in Deck!Entries \ Deck!Parents, Shown(d[at]) = <<n>>
  PROVE  at = Deck!DeckSlideNumber(n)
<1> DEFINE S == {w \in Current({}) : w[1] <= n}
           Up == {m \in Deck!Entries : m <= n}
           first(m) == IF m \in Deck!Parents THEN <<m, 0>> ELSE <<m>>
           A == {first(m) : m \in Up}
           Q == {q \in Deck!Parents : Deck!Position(q) < Deck!Position(n)}
           X == UNION {Deck!Surplus(p) : p \in Q}
<1>1. {} \in SUBSET Deck!Parents /\ Listing(d, Current({}))
    BY NothingWaits
<1>2. /\ n \in Deck!Entries /\ n \in Nat
      /\ \A m \in Deck!Entries : m \in Nat
      /\ Deck!Parents \subseteq Deck!Entries
      /\ \A p \in Deck!Parents : Deck!FrameCount(p) \in Nat /\ Deck!FrameCount(p) > 0
    BY EntriesAre DEF Outlined, Deck!Parents
<1>3. <<n>> \in Current({})
    BY <1>1, CurrentViews DEF IsCurrent
<1>4. \A w : w \in S <=> w \in Current({}) /\ (w = Shown(d[at]) \/ Deck!Precedes(w, Shown(d[at])))
    <2> SUFFICES ASSUME NEW w \in Current({})
                 PROVE  w[1] <= n <=> w = <<n>> \/ Deck!Precedes(w, <<n>>)
        OBVIOUS
    <2>1. w[1] \in Nat
        BY <1>1, ViewsOfEntries
    <2>2. w = <<n>> => w[1] <= n
        BY <1>2
    <2>3. Deck!Precedes(w, <<n>>) => w[1] <= n
        BY <1>1, <1>3, OrderByEntry
    <2>4. w[1] < n => Deck!Precedes(w, <<n>>)
        BY <1>1, <1>3, OrderByEntry
    <2>5. w[1] = n => w = <<n>>
        BY <1>1, ViewsOfEntries
    <2> QED
        BY <2>1, <2>2, <2>3, <2>4, <2>5, <1>2
<1>5. IsFiniteSet(S) /\ Cardinality(S) = at
    <2>1. /\ \A i, j \in DOMAIN d : Shown(d[i]) = Shown(d[j]) => i = j
          /\ \A i \in DOMAIN d : at < i => ~ Deck!Precedes(Shown(d[i]), Shown(d[at]))
        BY <1>1, PlacesDiffer
    <2> HIDE DEF S
    <2> QED
        BY <1>1, <1>4, <2>1, PlaceOfView
<1>6. \A q \in Deck!Parents : q \in Q <=> q <= n
    <2> SUFFICES ASSUME NEW q \in Deck!Parents
                 PROVE  Deck!Position(q) < Deck!Position(n) <=> q <= n
        OBVIOUS
    <2>1. q \in Deck!Entries /\ q # n
        BY <1>2
    <2>2. q < n <=> Deck!Position(q) < Deck!Position(n)
        BY <2>1, <1>2, PositionsRank
    <2>3. q \in Nat
        BY <2>1, <1>2
    <2> QED
        BY <2>1, <2>2, <2>3, <1>2
<1>7. \A w : w \in X <=> \E p \in Q : \E step \in 1 .. (Deck!FrameCount(p) - 1) : w = <<p, step>>
    BY DEF Deck!Surplus, Deck!FrameImage
<1>8. \A w \in S : w \in A \/ w \in X
    <2> SUFFICES ASSUME NEW w \in S
                 PROVE  w \in A \/ w \in X
        OBVIOUS
    <2>1. w \in Current({}) /\ w[1] <= n
        OBVIOUS
    <2>2. CASE w = <<w[1]>> /\ w[1] \in Deck!Entries \ Deck!Parents
        <3>1. w[1] \in Up /\ first(w[1]) = w
            BY <2>1, <2>2
        <3> QED
            BY <3>1
    <2>3. CASE /\ w = <<w[1], w[2]>> /\ w[1] \in Deck!Parents
               /\ w[2] \in 0 .. (Deck!FrameCount(w[1]) - 1) /\ w[2] = 0
        <3>1. w[1] \in Up /\ first(w[1]) = w
            BY <2>1, <2>3, <1>2
        <3> QED
            BY <3>1
    <2>4. CASE /\ w = <<w[1], w[2]>> /\ w[1] \in Deck!Parents
               /\ w[2] \in 0 .. (Deck!FrameCount(w[1]) - 1) /\ w[2] # 0
        <3>1. w[1] \in Q /\ w[2] \in 1 .. (Deck!FrameCount(w[1]) - 1)
            BY <2>1, <2>4, <1>2, <1>6
        <3> QED
            BY <3>1, <2>4, <1>7
    <2> QED
        BY <2>1, <1>1, <2>2, <2>3, <2>4, ViewsOfEntries
<1>9. \A w \in A : w \in S /\ w \notin X
    <2> SUFFICES ASSUME NEW m \in Up
                 PROVE  first(m) \in S /\ first(m) \notin X
        OBVIOUS
    <2>1. m \in Deck!Entries /\ m \in Nat /\ m <= n
        BY <1>2
    <2>2. CASE m \in Deck!Parents
        <3>1. first(m) = <<m, 0>> /\ 0 \in 0 .. (Deck!FrameCount(m) - 1)
            BY <2>2, <1>2
        <3>2. <<m, 0>> \in Current({})
            BY <3>1, <2>2, CurrentViews DEF IsCurrent
        <3>3. \A p, step : step \in 1 .. (Deck!FrameCount(p) - 1) => <<m, 0>> # <<p, step>>
            OBVIOUS
        <3> QED
            BY <3>1, <3>2, <3>3, <2>1, <1>7
    <2>3. CASE m \notin Deck!Parents
        <3>1. first(m) = <<m>>
            BY <2>3
        <3>2. <<m>> \in Current({})
            BY <2>1, <2>3, CurrentViews DEF IsCurrent
        <3>3. \A p, step : <<m>> # <<p, step>>
            OBVIOUS
        <3> QED
            BY <3>1, <3>2, <3>3, <2>1, <1>7
    <2> QED
        BY <2>2, <2>3
<1>10. \A w \in X : w \in S
    <2> SUFFICES ASSUME NEW w \in X
                 PROVE  w \in S
        OBVIOUS
    <2>1. PICK p \in Q : \E step \in 1 .. (Deck!FrameCount(p) - 1) : w = <<p, step>>
        BY <1>7
    <2>2. PICK step \in 1 .. (Deck!FrameCount(p) - 1) : w = <<p, step>>
        BY <2>1
    <2>3. p \in Deck!Parents /\ p <= n /\ step \in 0 .. (Deck!FrameCount(p) - 1)
        BY <2>1, <2>2, <1>2, <1>6
    <2>4. w \in Current({})
        BY <2>2, <2>3, CurrentViews DEF IsCurrent
    <2> QED
        BY <2>2, <2>3, <2>4
<1>11. Cardinality(A) = Deck!Position(n) /\ IsFiniteSet(A)
    <2> DEFINE f == [m \in Up |-> first(m)]
    <2>1. IsFiniteSet(Up) /\ Cardinality(Up) = Deck!Position(n)
        <3>1. Up \in SUBSET Deck!Entries
            OBVIOUS
        <3>2. IsFiniteSet(Up)
            BY <3>1, EntriesAre, FS_Subset
        <3>3. Cardinality(Up) = Deck!Position(n)
            BY SameCount DEF Deck!Position
        <3> QED
            BY <3>2, <3>3
    <2>2. f \in Surjection(Up, A)
        BY DEF Surjection
    <2>3. ASSUME NEW m \in Up, NEW k \in Up, f[m] = f[k]
          PROVE  m = k
        <3>1. first(m) = first(k) /\ first(m)[1] = m /\ first(k)[1] = k
            BY <2>3
        <3> QED
            BY <3>1
    <2>4. f \in [Up -> A]
        OBVIOUS
    <2>5. f \in Injection(Up, A)
        BY <2>3, <2>4, Fun_IsInj
    <2>6. ExistsBijection(Up, A)
        BY <2>2, <2>5 DEF ExistsBijection, Bijection
    <2> HIDE DEF Up, A, f
    <2> QED
        BY <2>1, <2>6, FS_Bijection
<1>12. IsFiniteSet(X)
    <2>1. Q \in SUBSET Deck!Parents
        OBVIOUS
    <2> HIDE DEF Q
    <2> QED
        BY <2>1, SurplusFinite
<1>13. Deck!DeckSlideNumber(n) = Deck!Position(n) + Cardinality(X)
    BY SameCount DEF Deck!DeckSlideNumber
<1> HIDE DEF S, A, X, Q, Up, first
<1>14. S = A \union X /\ A \intersect X = {}
    BY <1>8, <1>9, <1>10
<1>15. Cardinality(S) = Cardinality(A) + Cardinality(X) - Cardinality(A \intersect X)
    BY <1>11, <1>12, <1>14, FS_Union
<1>16. Cardinality(A \intersect X) = 0 /\ Cardinality(A) \in Nat /\ Cardinality(X) \in Nat
    BY <1>14, <1>11, <1>12, FS_EmptySet, FS_CardinalityType
<1> QED
    BY <1>5, <1>11, <1>13, <1>15, <1>16

(* The deck between the passes. *)
Slidelike(slide) ==
  slide = [title |-> slide.title, bg |-> slide.bg, picture |-> slide.picture,
           scrim |-> slide.scrim, note |-> slide.note, codes |-> slide.codes]

Dressed(slide) ==
  /\ Slidelike(slide)
  /\ slide.title \in Deck!Entries \union {None}
  /\ slide.title # None =>
       /\ slide.picture = IF slide.title \in Deck!ImgTxt THEN Deck!Image(slide.title) ELSE None
       /\ slide.scrim <=> Deck!Kind(slide.title) = "zone"

NoteOf(v) ==
  IF (Len(v) = 2 => v[2] = Deck!FrameCount(v[1]) - 1) /\ v[1] # outline.silent
  THEN v[1] ELSE None

Unnoted(slide) == slide.note = IF slide.title # None THEN None ELSE NoteOf(Shown(slide))
Noted(slide)   == slide.note = NoteOf(Shown(slide))
Bare(slide)    == slide.title # None => slide.bg = None
Grounded(slide)  ==
  slide.title # None =>
    slide.bg = IF slide.title \in Deck!Full THEN Deck!Image(slide.title) ELSE None

(* What is laid, what is applied to it, and the record of a parent's frames. *)
Art(n) ==
  [title |-> n, bg |-> None,
   picture |-> IF n \in Deck!ImgTxt THEN Deck!Image(n) ELSE None,
   scrim |-> Deck!Kind(n) = "zone", note |-> None,
   codes |-> IF n = outline.stale THEN <<"stale">> ELSE <<>>]

Laid    == [i \in 1 .. Cardinality(Deck!Entries) |-> Deck!Slide(Deck!Ranked[i])]
Applied == [i \in 1 .. Cardinality(Deck!Entries) |-> Art(Deck!Ranked[i])]

Record(n) ==
  [parent |-> Deck!Position(n),
   frames |-> [i \in 1 .. Deck!FrameCount(n) |-> Deck!FrameImage(n, i - 1)],
   notes  |-> IF n = outline.silent THEN None ELSE n]

Own == Deck!Full \ Deck!Parents
Backgrounds ==
  [k \in {Deck!DeckSlideNumber(n) : n \in Own} |->
     Deck!Image(CHOOSE n \in Own : Deck!DeckSlideNumber(n) = k)]

(* Parents behind the last expanded one are where they were. *)
Expanding(R) ==
  /\ assembly.jobs = {Record(n) : n \in R}
  /\ \A p \in R, q \in Deck!Parents \ R : p < q
  /\ Listing(assembly.tmp, Current(R))
  /\ \A n \in Deck!Entries :
       (\A q \in Deck!Parents \ R : n < q) =>
         /\ Deck!Position(n) \in DOMAIN assembly.tmp
         /\ Shown(assembly.tmp[Deck!Position(n)]) = <<n>>
  /\ \A i \in DOMAIN assembly.tmp :
       Dressed(assembly.tmp[i]) /\ Unnoted(assembly.tmp[i]) /\ Bare(assembly.tmp[i])

(* The slides of the colours that are done have the new code, the others are as before. *)
Inserting ==
  /\ assembly.jobs \subseteq Deck!ColourGroups(assembly.deck)
  /\ Len(assembly.tmp) = Len(assembly.deck) /\ DOMAIN assembly.tmp = DOMAIN assembly.deck
  /\ \A i \in DOMAIN assembly.deck :
       assembly.tmp[i] =
         IF i \in Deck!CodeTargets(assembly.deck) /\ i \notin UNION assembly.jobs
         THEN [assembly.deck[i] EXCEPT !.codes = <<"new">>]
         ELSE assembly.deck[i]

Built == {"expanded", "noted", "backed", "inserting", "published"}

AssemblyLike ==
  assembly = [pc |-> assembly.pc, deck |-> assembly.deck, backgrounds |-> assembly.backgrounds,
              tmp |-> assembly.tmp, jobs |-> assembly.jobs, missing |-> assembly.missing]

DeckStage ==
  /\ assembly.pc \in {"outlined", "laid", "applied", "expanding"} \union Built
  /\ assembly.pc = "outlined" => assembly.deck = <<>>
  /\ assembly.pc \in {"outlined", "laid"} => assembly.backgrounds = <<>>
  /\ assembly.pc \notin {"outlined", "laid"} => assembly.backgrounds = Backgrounds
  /\ assembly.pc = "laid" => assembly.deck = Laid
  /\ assembly.pc \in {"applied", "expanding"} => assembly.deck = Applied
  /\ assembly.pc = "expanding" => \E R \in SUBSET Deck!Parents : Expanding(R)

DeckBuilt ==
  assembly.pc \in Built =>
    /\ Listing(assembly.deck, Deck!Declared)
    /\ \A i \in DOMAIN assembly.deck :
         LET slide == assembly.deck[i] IN
         /\ Dressed(slide)
         /\ IF assembly.pc = "expanded" THEN Unnoted(slide) ELSE Noted(slide)
         /\ IF assembly.pc \in {"expanded", "noted"} THEN Bare(slide) ELSE Grounded(slide)

DeckInv ==
  /\ Outlined /\ AssemblyLike /\ DeckStage /\ DeckBuilt
  /\ assembly.pc = "inserting" => Inserting
  /\ Deck!OneCodePerSlide

LEMMA DeckStarts == Deck!Init => DeckInv
<1>1. SUFFICES ASSUME Deck!Init PROVE DeckInv
    OBVIOUS
<1>2. PICK style \in {"overlay", "poster"}, entries \in (SUBSET Numbers) \ {{}} :
        \E slides \in [entries -> Deck!SlideSpecs(style)],
           silent \in entries \union {None}, stale \in entries \union {None} :
          outline = [slides |-> slides, silent |-> silent, stale |-> stale,
                     shownotes |-> Deck!Min(entries)]
    BY <1>1 DEF Deck!Init
<1>3. PICK slides \in [entries -> Deck!SlideSpecs(style)],
           silent \in entries \union {None}, stale \in entries \union {None} :
        outline = [slides |-> slides, silent |-> silent, stale |-> stale,
                   shownotes |-> Deck!Min(entries)]
    BY <1>2
<1>4. Deck!Min(entries) \in entries
    <2>1. \E m \in entries : \A k \in entries : ~ (<<k, m>> \in OpToRel(<, Nat))
        <3>1. entries \subseteq Nat /\ entries # {}
            BY DeckAssumed
        <3> QED
            BY <3>1, WFMin, NatLessThanWellFounded, Zenon
    <2>2. PICK m \in entries : \A k \in entries : ~ (<<k, m>> \in OpToRel(<, Nat))
        BY <2>1
    <2>3. ASSUME NEW k \in entries
          PROVE  m <= k
        <3>1. m \in Nat /\ k \in Nat
            BY DeckAssumed
        <3>2. ~ (k < m)
            BY <2>2, <3>1 DEF OpToRel
        <3> QED
            BY <3>1, <3>2
    <2> QED
        BY <2>3 DEF Deck!Min
<1>5. Deck!Entries = entries
    BY <1>3 DEF Deck!Entries
<1>6. \A n \in entries :
        /\ Deck!Kind(n) \in {"plain", "zone", "poster", "imgtxt"}
        /\ Deck!FrameCount(n) \in Nat
    <2> SUFFICES ASSUME NEW n \in entries
                 PROVE  /\ slides[n].kind \in {"plain", "zone", "poster", "imgtxt"}
                        /\ slides[n].frames \in Nat
        BY <1>3 DEF Deck!Kind, Deck!FrameCount
    <2>1. slides[n] \in Deck!SlideSpecs(style)
        OBVIOUS
    <2>2. \/ slides[n] \in [kind : {"plain"}, frames : {0}]
          \/ slides[n] \in [kind : Deck!SlideKinds(style), frames : Frames]
        BY <2>1 DEF Deck!SlideSpecs
    <2>3. CASE slides[n] \in [kind : {"plain"}, frames : {0}]
        <3>1. slides[n].kind = "plain" /\ slides[n].frames = 0
            BY <2>3
        <3> QED
            BY <3>1
    <2>4. CASE slides[n] \in [kind : Deck!SlideKinds(style), frames : Frames]
        <3>1. slides[n].kind \in Deck!SlideKinds(style) /\ slides[n].frames \in Frames
            BY <2>4
        <3> QED
            BY <3>1, DeckAssumed DEF Deck!SlideKinds
    <2> QED
        BY <2>2, <2>3, <2>4
<1>7. Outlined
    BY <1>3, <1>4, <1>5, <1>6 DEF Outlined
<1>8. PICK missing : assembly = [pc |-> "outlined", deck |-> <<>>, backgrounds |-> <<>>,
                                 tmp |-> <<>>, jobs |-> {}, missing |-> missing]
    BY <1>1 DEF Deck!Init
<1> QED
    BY <1>7, <1>8 DEF DeckInv, AssemblyLike, DeckStage, DeckBuilt, Built, Deck!OneCodePerSlide

-----------------------------------------------------------------------------

(* What is behind the slides that were there first is what was put there. *)
LEMMA BehindTheFirst ==
  ASSUME NEW T, NEW s \in Seq(T), NEW t \in Seq(T)
  PROVE  SubSeq(s \o t, Len(s) + 1, Len(s \o t)) = t
<1>1. Len(s \o t) = Len(s) + Len(t) /\ Len(s) \in Nat /\ Len(t) \in Nat /\ s \o t \in Seq(T)
    OBVIOUS
<1>2. /\ SubSeq(s \o t, Len(s) + 1, Len(s \o t)) \in Seq(T)
      /\ Len(SubSeq(s \o t, Len(s) + 1, Len(s \o t))) = Len(t)
    BY <1>1
<1>3. \A i \in 1 .. Len(t) : SubSeq(s \o t, Len(s) + 1, Len(s \o t))[i] = t[i]
    BY <1>1
<1> QED
    BY <1>2, <1>3

LEMMA LaidSlides ==
  ASSUME Outlined
  PROVE  LET T == {Deck!Slide(n) : n \in Deck!Entries \union {None}}
         IN /\ Laid \in Seq(T) /\ <<Deck!Demo>> \in Seq(T)
            /\ Len(Laid) = Cardinality(Deck!Entries)
            /\ \A n \in Deck!Entries \union {None} : Deck!Slide(n).title = n
<1>1. Cardinality(Deck!Entries) \in Nat
    BY EntriesAre
<1>2. \A i \in 1 .. Cardinality(Deck!Entries) : Deck!Ranked[i] \in Deck!Entries
    BY RankedEntries
<1> DEFINE T == {Deck!Slide(n) : n \in Deck!Entries \union {None}}
<1>3. \A n \in Deck!Entries \union {None} : Deck!Slide(n) \in T
    OBVIOUS
<1>4. Deck!Demo \in T
    BY <1>3 DEF Deck!Demo
<1>5. \A i \in 1 .. Cardinality(Deck!Entries) : Deck!Slide(Deck!Ranked[i]) \in T
    BY <1>2, <1>3
<1>6. \A n : Deck!Slide(n).title = n
    BY DEF Deck!Slide
<1> HIDE DEF T
<1>7. Laid \in Seq(T) /\ Len(Laid) = Cardinality(Deck!Entries)
    BY <1>1, <1>5 DEF Laid
<1>8. <<Deck!Demo>> \in Seq(T)
    BY <1>4
<1> QED
    BY <1>6, <1>7, <1>8 DEF T

LEMMA DeckLays == ASSUME DeckInv, Deck!Lay PROVE DeckInv'
<1>1. Outlined /\ AssemblyLike /\ assembly.backgrounds = <<>>
    BY DEF DeckInv, DeckStage, Deck!Lay
<1>2. assembly'.deck = Laid
    <2> DEFINE T == {Deck!Slide(n) : n \in Deck!Entries \union {None}}
               laid == <<Deck!Demo>> \o Laid
    <2>1. Laid = [i \in 1 .. Len(Deck!Ranked) |-> Deck!Slide(Deck!Ranked[i])]
        BY <1>1, RankedEntries DEF Laid
    <2>2. assembly'.deck = SubSeq(laid, 2, Len(laid))
        BY <1>1, <2>1 DEF Deck!Lay, AssemblyLike
    <2>3. <<Deck!Demo>> \in Seq(T) /\ Laid \in Seq(T) /\ Len(<<Deck!Demo>>) + 1 = 2
        BY <1>1, LaidSlides
    <2> HIDE DEF T
    <2> QED
        BY <2>2, <2>3, BehindTheFirst
<1>3. outline' = outline
    BY DEF Deck!Lay
<1>4. Outlined' /\ Laid' = Laid
    BY <1>1, <1>3 DEF Outlined, Laid, Deck!Entries, Deck!Kind, Deck!FrameCount, Deck!Slide,
                      Deck!Ranked, Deck!Position
<1>5. assembly'.pc = "laid" /\ assembly'.backgrounds = <<>> /\ AssemblyLike'
    BY <1>1 DEF Deck!Lay, AssemblyLike
<1> QED
    BY <1>2, <1>4, <1>5 DEF DeckInv, DeckStage, DeckBuilt, Built, Deck!OneCodePerSlide

LEMMA DeckAdapts == ASSUME DeckInv, Deck!Adapt PROVE DeckInv'
<1>1. Outlined /\ AssemblyLike /\ assembly.backgrounds = <<>>
    BY DEF DeckInv, DeckStage, Deck!Adapt
<1>2. assembly'.deck = Laid
    <2> DEFINE T == {Deck!Slide(n) : n \in Deck!Entries \union {None}}
               c == Len(Deck!Ranked)
               back == [i \in 1 .. c |-> Deck!Slide(Deck!Ranked[c + 1 - i])]
               source == back \o <<Deck!Demo>>
               order == [i \in 1 .. c |->
                           CHOOSE k \in DOMAIN source : source[k].title = Deck!Ranked[i]]
               taken == [i \in DOMAIN order |-> source[order[i]]]
               placed == source \o taken
    <2>2. assembly'.deck = SubSeq(placed, Len(source) + 1, Len(placed))
        BY <1>1 DEF Deck!Adapt, AssemblyLike
    <2>1. c \in Nat /\ c = Cardinality(Deck!Entries)
        BY <1>1, EntriesAre, RankedEntries
    <2> HIDE DEF c
    <2>3. \A i \in 1 .. c : Deck!Ranked[i] \in Deck!Entries /\ Deck!Ranked[i] # None
        BY <1>1, <2>1, RankedEntries, EntriesAre
    <2>4. back \in Seq(T) /\ Len(back) = c
        BY <2>1, <2>3
    <2>5. <<Deck!Demo>> \in Seq(T) /\ Len(<<Deck!Demo>>) = 1 /\ <<Deck!Demo>>[1] = Deck!Slide(None)
        BY DEF Deck!Demo
    <2>6. /\ source \in Seq(T) /\ Len(source) = c + 1 /\ DOMAIN source = 1 .. (c + 1)
          /\ \A k \in 1 .. c : source[k] = Deck!Slide(Deck!Ranked[c + 1 - k])
          /\ source[c + 1] = Deck!Slide(None)
        <3> HIDE DEF T, back
        <3>1. source \in Seq(T) /\ Len(source) = c + 1 /\ DOMAIN source = 1 .. (c + 1)
            BY <2>1, <2>4, <2>5
        <3>2. \A k \in 1 .. c : source[k] = back[k]
            BY <2>1, <2>4, <2>5
        <3>3. source[c + 1] = <<Deck!Demo>>[1]
            BY <2>1, <2>4, <2>5
        <3> QED
            BY <2>5, <3>1, <3>2, <3>3 DEF back
    <2> HIDE DEF source, T
    <2>7. \A i \in 1 .. c : source[order[i]] = Deck!Slide(Deck!Ranked[i])
        <3> SUFFICES ASSUME NEW i \in 1 .. c
                     PROVE  source[order[i]] = Deck!Slide(Deck!Ranked[i])
            OBVIOUS
        <3>1. \A n : Deck!Slide(n).title = n
            BY DEF Deck!Slide
        <3>2. c + 1 - i \in 1 .. c /\ c + 1 - (c + 1 - i) = i
            BY <2>1
        <3>9. source[c + 1 - i] = Deck!Slide(Deck!Ranked[i])
            BY <2>6, <3>2
        <3>10. source[c + 1 - i].title = Deck!Ranked[i]
            BY <3>1, <3>9
        <3>11. c + 1 - i \in DOMAIN source
            BY <2>1, <2>6, <3>2
        <3>3. source[c + 1 - i].title = Deck!Ranked[i] /\ c + 1 - i \in DOMAIN source
            BY <3>10, <3>11
        <3>4. order[i] \in DOMAIN source /\ source[order[i]].title = Deck!Ranked[i]
            BY <3>3
        <3> HIDE DEF order
        <3>5. order[i] \in 1 .. c \/ order[i] = c + 1
            BY <3>4, <2>6, <2>1
        <3>6. order[i] # c + 1
            BY <3>4, <2>6, <3>1, <2>3
        <3>7. source[order[i]] = Deck!Slide(Deck!Ranked[c + 1 - order[i]]) /\ c + 1 - order[i] \in 1 .. c
            BY <3>5, <3>6, <2>6, <2>1
        <3>8. Deck!Ranked[c + 1 - order[i]] = Deck!Ranked[i]
            BY <3>4, <3>7, <3>1, <2>3
        <3> QED
            BY <3>7, <3>8
    <2>8. taken = Laid
        BY <2>1, <2>7 DEF Laid
    <2>9. Laid \in Seq(T)
        BY <1>1, LaidSlides DEF T
    <2> HIDE DEF taken
    <2> QED
        BY <2>2, <2>6, <2>8, <2>9, BehindTheFirst
<1>3. outline' = outline
    BY DEF Deck!Adapt
<1>4. Outlined' /\ Laid' = Laid
    BY <1>1, <1>3 DEF Outlined, Laid, Deck!Entries, Deck!Kind, Deck!FrameCount, Deck!Slide,
                      Deck!Ranked, Deck!Position
<1>5. assembly'.pc = "laid" /\ assembly'.backgrounds = <<>> /\ AssemblyLike'
    BY <1>1 DEF Deck!Adapt, AssemblyLike
<1> QED
    BY <1>2, <1>4, <1>5 DEF DeckInv, DeckStage, DeckBuilt, Built, Deck!OneCodePerSlide

-----------------------------------------------------------------------------

(* What is derived from the outline stays as the outline does. *)
LEMMA OutlineKept ==
  ASSUME outline' = outline
  PROVE  /\ Outlined' <=> Outlined
         /\ Deck!Entries' = Deck!Entries /\ Deck!Parents' = Deck!Parents
         /\ Laid' = Laid /\ Applied' = Applied /\ Backgrounds' = Backgrounds
         /\ Deck!Declared' = Deck!Declared
         /\ \A n : Record(n)' = Record(n) /\ Deck!Position(n)' = Deck!Position(n)
         /\ \A R : Current(R)' = Current(R)
         /\ \A slide : /\ Dressed(slide)' <=> Dressed(slide)
                       /\ Unnoted(slide)' <=> Unnoted(slide)
                       /\ Noted(slide)' <=> Noted(slide)
                       /\ Grounded(slide)' <=> Grounded(slide)
<1>1. Deck!Entries' = Deck!Entries
    BY DEF Deck!Entries
<1>2. \A n : Deck!Kind(n)' = Deck!Kind(n) /\ Deck!FrameCount(n)' = Deck!FrameCount(n)
    BY DEF Deck!Kind, Deck!FrameCount
<1>3. \A n : Deck!Position(n)' = Deck!Position(n)
    BY <1>1 DEF Deck!Position
<1>4. Deck!Parents' = Deck!Parents /\ Deck!Full' = Deck!Full /\ Deck!ImgTxt' = Deck!ImgTxt
    BY <1>1, <1>2 DEF Deck!Parents, Deck!Full, Deck!ImgTxt
<1>5. Deck!Ranked' = Deck!Ranked
    BY <1>1, <1>3 DEF Deck!Ranked
<1>6. Outlined' <=> Outlined
    BY <1>1, <1>2 DEF Outlined
<1>7. \A n : Deck!Slide(n)' = Deck!Slide(n) /\ Art(n)' = Art(n)
    BY <1>2, <1>4 DEF Deck!Slide, Art
<1>8. Laid' = Laid /\ Applied' = Applied
    BY <1>1, <1>5, <1>7 DEF Laid, Applied
<1>9. \A p : Deck!Surplus(p)' = Deck!Surplus(p)
    BY <1>2 DEF Deck!Surplus
<1>10. \A n : Deck!DeckSlideNumber(n)' = Deck!DeckSlideNumber(n)
    BY <1>3, <1>4, <1>9 DEF Deck!DeckSlideNumber
<1>11. Backgrounds' = Backgrounds
    <2> DEFINE of(k) == CHOOSE n \in Own : Deck!DeckSlideNumber(n) = k
    <2>1. Own' = Own
        BY <1>4 DEF Own
    <2>2. ASSUME NEW k
          PROVE  of(k)' = of(k)
        <3>1. \A n : (n \in Own /\ Deck!DeckSlideNumber(n) = k)'
                       <=> n \in Own /\ Deck!DeckSlideNumber(n) = k
            BY <2>1, <1>10
        <3> QED
            BY <3>1, Zenon
    <2> DEFINE D == {Deck!DeckSlideNumber(n) : n \in Own}
    <2>3. Backgrounds = [k \in D |-> Deck!Image(of(k))]
        BY DEF Backgrounds
    <2>4. Backgrounds' = [k \in D' |-> Deck!Image(of(k)')]
        BY DEF Backgrounds, Deck!Image
    <2>5. D' = D
        BY <2>1, <1>10
    <2> HIDE DEF of, D
    <2> QED
        BY <2>2, <2>3, <2>4, <2>5
<1>12. \A R : Current(R)' = Current(R)
    BY <1>1, <1>2, <1>4 DEF Current
<1>13. Deck!Declared' = Deck!Declared
    BY <1>1, <1>2, <1>4 DEF Deck!Declared
<1>14. \A n : Record(n)' = Record(n)
    BY <1>2, <1>3 DEF Record
<1>15. \A slide : Dressed(slide)' <=> Dressed(slide)
    BY <1>1, <1>2, <1>4 DEF Dressed
<1>16. \A v : NoteOf(v)' = NoteOf(v)
    BY <1>2 DEF NoteOf
<1>17. \A slide : /\ Unnoted(slide)' <=> Unnoted(slide)
                  /\ Noted(slide)' <=> Noted(slide)
                  /\ Grounded(slide)' <=> Grounded(slide)
    BY <1>4, <1>16 DEF Unnoted, Noted, Grounded
<1> QED
    BY <1>1, <1>3, <1>4, <1>6, <1>8, <1>11, <1>12, <1>13, <1>14, <1>15, <1>17

(* A deck whose slides, and what is passed on, stay as they are. *)
LEMMA DeckKept ==
  ASSUME DeckInv, outline' = outline, AssemblyLike',
         assembly'.pc = assembly.pc, assembly'.deck = assembly.deck,
         assembly'.backgrounds = assembly.backgrounds, assembly'.tmp = assembly.tmp,
         assembly'.jobs = assembly.jobs
  PROVE  DeckInv'
<1>1. Outlined'
    BY OutlineKept DEF DeckInv
<1>2. \A R : Expanding(R)' <=> Expanding(R)
    BY OutlineKept DEF Expanding
<1>3. DeckStage'
    <2>1. DeckStage
        BY DEF DeckInv
    <2> QED
        BY <1>2, <2>1, OutlineKept DEF DeckStage
<1>4. DeckBuilt'
    <2>1. DeckBuilt
        BY DEF DeckInv
    <2> QED
        BY <2>1, OutlineKept DEF DeckBuilt, Built
<1>5. (assembly.pc = "inserting" => Inserting)'
    <2>1. assembly.pc = "inserting" => Inserting
        BY DEF DeckInv
    <2>2. Deck!CodeTargets(assembly.deck)' = Deck!CodeTargets(assembly.deck)
        BY DEF Deck!CodeTargets, Deck!ShownotesSlide
    <2>3. Deck!ColourGroups(assembly.deck)' = Deck!ColourGroups(assembly.deck)
        BY <2>2 DEF Deck!ColourGroups
    <2> QED
        BY <2>1, <2>2, <2>3 DEF Inserting
<1>6. Deck!OneCodePerSlide'
    BY DEF DeckInv, Deck!OneCodePerSlide
<1> QED
    BY <1>1, <1>3, <1>4, <1>5, <1>6 DEF DeckInv

LEMMA DeckGenerates == ASSUME DeckInv, Deck!Generate PROVE DeckInv'
<1>1. AssemblyLike
    BY DEF DeckInv
<1>2. /\ outline' = outline /\ AssemblyLike' /\ assembly'.pc = assembly.pc
      /\ assembly'.deck = assembly.deck /\ assembly'.backgrounds = assembly.backgrounds
      /\ assembly'.tmp = assembly.tmp /\ assembly'.jobs = assembly.jobs
    BY <1>1 DEF Deck!Generate, AssemblyLike
<1> QED
    BY <1>2, DeckKept

LEMMA DeckApplies == ASSUME DeckInv, Deck!Apply PROVE DeckInv'
<1> DEFINE c == Cardinality(Deck!Entries)
<1>1. Outlined /\ AssemblyLike /\ assembly.deck = Laid
    BY DEF DeckInv, DeckStage, Deck!Apply
<1>2. \A i \in 1 .. c : Deck!Illustrated(i) = Art(Deck!Ranked[i])
    <2> SUFFICES ASSUME NEW i \in 1 .. c
                 PROVE  Deck!Illustrated(i) = Art(Deck!Ranked[i])
        OBVIOUS
    <2> DEFINE n == Deck!Ranked[i]
    <2>1. n \in Deck!Entries /\ \A m \in Deck!Entries : Deck!Position(m) = i <=> m = n
        BY <1>1, RankedEntries
    <2>2. assembly.deck[i] = Deck!Slide(n)
        BY <1>1 DEF Laid
    <2> HIDE DEF n
    <2>3. Deck!ImgTxt \subseteq Deck!Entries /\ Deck!Full \subseteq Deck!Entries
        BY DEF Deck!ImgTxt, Deck!Full
    <2>4. (\E m \in Deck!ImgTxt : Deck!Position(m) = i) <=> n \in Deck!ImgTxt
        BY <2>1, <2>3
    <2>5. n \in Deck!ImgTxt => (CHOOSE m \in Deck!ImgTxt : Deck!Position(m) = i) = n
        <3> HAVE n \in Deck!ImgTxt
        <3>1. \A m \in Deck!ImgTxt : Deck!Position(m) = i <=> m = n
            BY <2>1, <2>3
        <3> QED
            BY <3>1
    <2>6. (\E m \in Deck!Full : Deck!Kind(m) = "zone" /\ Deck!Position(m) = i)
             <=> Deck!Kind(n) = "zone"
        BY <2>1, <2>3 DEF Deck!Full
    <2>7. Deck!Illustrated(i) =
            [Deck!Slide(n) EXCEPT
               !.picture = IF n \in Deck!ImgTxt THEN Deck!Image(n) ELSE @,
               !.scrim = @ \/ Deck!Kind(n) = "zone"]
        BY <2>2, <2>4, <2>5, <2>6 DEF Deck!Illustrated
    <2>8. Deck!Illustrated(i) = Art(n)
        BY <2>7 DEF Deck!Slide, Art
    <2> QED
        BY <2>8 DEF n
<1>3. DOMAIN Laid = 1 .. c
    BY DEF Laid
<1>4. assembly'.deck = Applied
    <2>1. assembly'.deck = [i \in DOMAIN assembly.deck |-> Deck!Illustrated(i)]
        BY <1>1 DEF Deck!Apply, AssemblyLike
    <2> QED
        BY <2>1, <1>1, <1>2, <1>3 DEF Applied
<1>5. assembly'.backgrounds = Backgrounds
    BY <1>1 DEF Deck!Apply, AssemblyLike, Backgrounds, Own
<1>6. assembly'.pc = "applied" /\ AssemblyLike' /\ outline' = outline
    BY <1>1 DEF Deck!Apply, AssemblyLike
<1> QED
    BY <1>1, <1>4, <1>5, <1>6, OutlineKept
       DEF DeckInv, DeckStage, DeckBuilt, Built, Deck!OneCodePerSlide

(* Notes are keyed from 0 and found again from 1. *)
LEMMA NoteForTitle ==
  ASSUME NEW d, DOMAIN d \subseteq Nat, NEW i \in DOMAIN d
  PROVE  Deck!NoteFor(Deck!NotesMap(d), i) =
           IF d[i].title \notin {None, outline.silent} THEN d[i].title ELSE None
<1> DEFINE S == {j \in DOMAIN d : d[j].title \notin {None, outline.silent}}
           notes == Deck!NotesMap(d)
<1>1. notes = [k \in {j - 1 : j \in S} |-> d[k + 1].title]
    BY DEF Deck!NotesMap
<1>2. i - 1 \in {j - 1 : j \in S} <=> i \in S
    OBVIOUS
<1>3. (i - 1) + 1 = i
    OBVIOUS
<1>4. i \in S => notes[i - 1] = d[i].title
    BY <1>1, <1>2, <1>3
<1>5. i - 1 \in DOMAIN notes <=> i \in S
    BY <1>1, <1>2
<1> QED
    BY <1>4, <1>5 DEF Deck!NoteFor

(* What is applied is seen in the order of the entries, with all parents waiting. *)
LEMMA AppliedDeck ==
  ASSUME Outlined
  PROVE  /\ Listing(Applied, Current(Deck!Parents))
         /\ \A n \in Deck!Entries :
              /\ Deck!Position(n) \in DOMAIN Applied /\ Deck!Position(n) \in Nat
              /\ Applied[Deck!Position(n)] = Art(n)
              /\ Applied[Deck!Position(n)].title = n
              /\ Shown(Applied[Deck!Position(n)]) = <<n>>
         /\ \A i \in DOMAIN Applied :
              Dressed(Applied[i]) /\ Unnoted(Applied[i]) /\ Bare(Applied[i])
<1> DEFINE c == Cardinality(Deck!Entries)
<1>1. c \in Nat /\ DOMAIN Applied = 1 .. c /\ Len(Applied) = c
    BY EntriesAre DEF Applied
<1>2. \A i \in 1 .. c : /\ Deck!Ranked[i] \in Deck!Entries /\ Applied[i] = Art(Deck!Ranked[i])
                        /\ Deck!Position(Deck!Ranked[i]) = i
    BY RankedEntries DEF Applied
<1>3. \A n \in Deck!Entries : Art(n).title = n /\ Shown(Art(n)) = <<n>>
    BY EntriesAre DEF Art, Shown, Deck!Image
<1>4. \A n \in Deck!Entries :
        Deck!Position(n) \in 1 .. c /\ Deck!Ranked[Deck!Position(n)] = n
    BY PositionsRank, RankedEntries
<1>5. \A v : v \in Current(Deck!Parents) <=> \E n \in Deck!Entries : v = <<n>>
    BY CurrentViews, EntriesAre DEF IsCurrent
<1>6. \A i \in 1 .. c : Shown(Applied[i]) = <<Deck!Ranked[i]>>
    BY <1>2, <1>3
<1>7. Listing(Applied, Current(Deck!Parents))
    <2>1. \A i \in DOMAIN Applied : Shown(Applied[i]) \in Current(Deck!Parents)
        BY <1>1, <1>2, <1>5, <1>6
    <2>2. \A v \in Current(Deck!Parents) : \E i \in DOMAIN Applied : Shown(Applied[i]) = v
        <3> SUFFICES ASSUME NEW v \in Current(Deck!Parents)
                     PROVE  \E i \in DOMAIN Applied : Shown(Applied[i]) = v
            OBVIOUS
        <3>1. PICK n \in Deck!Entries : v = <<n>>
            BY <1>5
        <3>2. Deck!Position(n) \in DOMAIN Applied /\ Shown(Applied[Deck!Position(n)]) = <<n>>
            BY <1>1, <1>4, <1>6
        <3> QED
            BY <3>1, <3>2
    <2>3. ASSUME NEW i \in DOMAIN Applied, NEW j \in DOMAIN Applied, i < j
          PROVE  Deck!Precedes(Shown(Applied[i]), Shown(Applied[j]))
        <3>1. Deck!Ranked[i] < Deck!Ranked[j]
            BY <1>1, <1>2, <2>3, PositionsRank
        <3> QED
            BY <3>1, <1>1, <1>6, OrderOfViews
    <2> QED
        BY <1>1, <2>1, <2>2, <2>3 DEF Listing
<1>8. \A n \in Deck!Entries :
        /\ Deck!Position(n) \in DOMAIN Applied /\ Deck!Position(n) \in Nat
        /\ Applied[Deck!Position(n)] = Art(n)
        /\ Applied[Deck!Position(n)].title = n
        /\ Shown(Applied[Deck!Position(n)]) = <<n>>
    BY <1>1, <1>2, <1>3, <1>4
<1>9. ASSUME NEW n \in Deck!Entries
      PROVE  Dressed(Art(n)) /\ Unnoted(Art(n)) /\ Bare(Art(n))
    <2>1. n # None
        BY EntriesAre
    <2>2. Dressed(Art(n))
        BY DEF Dressed, Slidelike, Art
    <2>3. Unnoted(Art(n)) /\ Bare(Art(n))
        BY <2>1 DEF Unnoted, Bare, Art
    <2> QED
        BY <2>2, <2>3
<1> QED
    BY <1>1, <1>2, <1>7, <1>8, <1>9

LEMMA DeckExpands == ASSUME DeckInv, Deck!Expand PROVE DeckInv'
<1>1. Outlined /\ AssemblyLike /\ assembly.deck = Applied /\ assembly.backgrounds = Backgrounds
    BY DEF DeckInv, DeckStage, Deck!Expand
<1>2. /\ assembly'.pc = "expanding" /\ AssemblyLike' /\ outline' = outline
      /\ assembly'.deck = Applied /\ assembly'.backgrounds = Backgrounds
      /\ assembly'.tmp = Applied
      /\ assembly'.jobs = Deck!BuildManifest(Deck!NotesMap(Applied))
    BY <1>1 DEF Deck!Expand, AssemblyLike
<1>3. \A n \in Deck!Parents :
        Record(n) = [parent |-> Deck!Position(n),
                     frames |-> [i \in 1 .. Deck!FrameCount(n) |-> Deck!FrameImage(n, i - 1)],
                     notes  |-> Deck!NoteFor(Deck!NotesMap(Applied), Deck!Position(n))]
    <2> SUFFICES ASSUME NEW n \in Deck!Parents
                 PROVE  Deck!NoteFor(Deck!NotesMap(Applied), Deck!Position(n))
                          = IF n = outline.silent THEN None ELSE n
        BY DEF Record
    <2>1. n \in Deck!Entries /\ n # None
        BY <1>1, EntriesAre
    <2>2. DOMAIN Applied \subseteq Nat
        BY <1>1, AppliedDeck DEF Listing
    <2>3. Deck!Position(n) \in DOMAIN Applied /\ Applied[Deck!Position(n)].title = n
        BY <1>1, <2>1, AppliedDeck
    <2>4. Deck!NoteFor(Deck!NotesMap(Applied), Deck!Position(n)) =
            IF n \notin {None, outline.silent} THEN n ELSE None
        BY <2>2, <2>3, NoteForTitle
    <2> QED
        BY <2>1, <2>4
<1>4. assembly'.jobs = {Record(n) : n \in Deck!Parents}
    BY <1>2, <1>3 DEF Deck!BuildManifest
<1>5. Expanding(Deck!Parents)'
    <2>1. Deck!Parents' = Deck!Parents /\ Deck!Entries' = Deck!Entries
        BY <1>2, OutlineKept
    <2>2. (assembly.jobs = {Record(n) : n \in Deck!Parents})'
        BY <1>2, <1>4, <2>1, OutlineKept
    <2>3. Listing(assembly.tmp, Current(Deck!Parents))'
        BY <1>1, <1>2, <2>1, AppliedDeck, OutlineKept
    <2>4. (\A n \in Deck!Entries :
             /\ Deck!Position(n) \in DOMAIN assembly.tmp
             /\ Shown(assembly.tmp[Deck!Position(n)]) = <<n>>)'
        BY <1>1, <1>2, <2>1, AppliedDeck, OutlineKept
    <2>5. (\A i \in DOMAIN assembly.tmp :
             Dressed(assembly.tmp[i]) /\ Unnoted(assembly.tmp[i]) /\ Bare(assembly.tmp[i]))'
        BY <1>1, <1>2, AppliedDeck, OutlineKept
    <2> QED
        BY <2>1, <2>2, <2>3, <2>4, <2>5 DEF Expanding
<1>6. DeckStage'
    <2>1. Deck!Parents' \in SUBSET Deck!Parents'
        OBVIOUS
    <2> QED
        BY <1>2, <1>5, <2>1, OutlineKept DEF DeckStage, Built
<1> QED
    BY <1>1, <1>2, <1>6, OutlineKept DEF DeckInv, DeckBuilt, Built, Deck!OneCodePerSlide

(* Some waiting parent is behind all others. *)
LEMMA LastParent ==
  ASSUME Outlined, NEW R \in SUBSET Deck!Parents, R # {}
  PROVE  \E p \in R : \A q \in R : q <= p
<1> DEFINE c == Cardinality(Deck!Entries)
           T == {c - Deck!Position(n) : n \in R}
<1>1. /\ c \in Nat
      /\ \A n \in R : /\ n \in Nat /\ n \in Deck!Entries
                      /\ Deck!Position(n) \in Nat /\ Deck!Position(n) <= c
    BY EntriesAre, PositionsRank
<1>2. T \subseteq Nat /\ T # {}
    BY <1>1
<1>3. PICK t \in T : \A u \in T : ~ (<<u, t>> \in OpToRel(<, Nat))
    BY <1>2, WFMin, NatLessThanWellFounded, Zenon
<1>4. PICK p \in R : t = c - Deck!Position(p)
    OBVIOUS
<1>5. ASSUME NEW q \in R
      PROVE  q <= p
    <2>1. c - Deck!Position(q) \in T /\ c - Deck!Position(q) \in Nat /\ t \in Nat
        BY <1>2
    <2>2. ~ (c - Deck!Position(q) < t)
        BY <1>3, <2>1 DEF OpToRel
    <2>3. ~ (Deck!Position(p) < Deck!Position(q))
        BY <1>1, <1>4, <2>2
    <2>4. p < q <=> Deck!Position(p) < Deck!Position(q)
        BY <1>1, PositionsRank
    <2> QED
        BY <1>1, <2>3, <2>4
<1> QED
    BY <1>5

LEMMA RecordsDiffer ==
  ASSUME Outlined, NEW n \in Deck!Parents, NEW m \in Deck!Parents, Record(n) = Record(m)
  PROVE  n = m
<1>1. Deck!Position(n) = Deck!Position(m)
    BY DEF Record
<1> QED
    BY <1>1, EntriesAre, RankedEntries

(* manifest_to_packed takes the record of the parent behind all others. *)
LEMMA HighestFirst ==
  ASSUME Outlined, NEW R \in SUBSET Deck!Parents, NEW p \in R, \A q \in R : q <= p
  PROVE  Deck!ManifestToPacked({Record(n) : n \in R}) = Record(p)
<1> DEFINE J == {Record(n) : n \in R}
<1>1. \A n \in R : /\ n \in Deck!Entries /\ n \in Nat /\ Record(n).parent = Deck!Position(n)
                   /\ Deck!Position(n) \in Nat
    BY EntriesAre, PositionsRank DEF Record
<1>2. ASSUME NEW q \in R
      PROVE  Deck!Position(q) <= Deck!Position(p) /\ (Deck!Position(p) <= Deck!Position(q) => q = p)
    <2>1. p < q <=> Deck!Position(p) < Deck!Position(q)
        BY <1>1, PositionsRank
    <2>2. q < p <=> Deck!Position(q) < Deck!Position(p)
        BY <1>1, PositionsRank
    <2> QED
        BY <1>1, <2>1, <2>2
<1>3. Record(p) \in J /\ \A b \in J : b.parent <= Record(p).parent
    BY <1>1, <1>2
<1>4. \A b \in J : (\A d \in J : d.parent <= b.parent) => b = Record(p)
    <2> SUFFICES ASSUME NEW q \in R, \A d \in J : d.parent <= Record(q).parent
                 PROVE  Record(q) = Record(p)
        OBVIOUS
    <2>1. Deck!Position(p) <= Deck!Position(q)
        BY <1>1, <1>3
    <2> QED
        BY <2>1, <1>2
<1> HIDE DEF J
<1>5. Deck!ManifestToPacked(J) \in J /\ \A d \in J : d.parent <= Deck!ManifestToPacked(J).parent
    BY <1>3 DEF Deck!ManifestToPacked
<1>6. Deck!ManifestToPacked(J) = Record(p)
    BY <1>4, <1>5
<1> QED
    BY <1>6 DEF J

(* The frames of a parent, as they are put in its place. *)
Put(p) ==
  [m \in 1 .. Deck!FrameCount(p) |->
     Deck!Frame(Deck!FrameImage(p, m - 1),
                IF m = Deck!FrameCount(p) THEN IF p = outline.silent THEN None ELSE p ELSE None)]

LEMMA FramesPut ==
  ASSUME Outlined, NEW p \in Deck!Parents, NEW m \in 1 .. Deck!FrameCount(p)
  PROVE  /\ Shown(Put(p)[m]) = <<p, m - 1>>
         /\ Dressed(Put(p)[m]) /\ Unnoted(Put(p)[m]) /\ Bare(Put(p)[m])
<1> DEFINE s == Put(p)[m]
           note == IF m = Deck!FrameCount(p) THEN IF p = outline.silent THEN None ELSE p ELSE None
<1>1. s = Deck!Frame(Deck!FrameImage(p, m - 1), note)
    BY DEF Put
<1>2. s.title = None /\ s.bg = <<p, m - 1>> /\ s.note = note /\ Slidelike(s)
    BY <1>1 DEF Deck!Frame, Deck!FrameImage, Slidelike
<1> HIDE DEF s
<1>3. Shown(s) = <<p, m - 1>>
    BY <1>2 DEF Shown
<1>4. Dressed(s) /\ Bare(s)
    BY <1>2 DEF Dressed, Bare
<1>5. Deck!FrameCount(p) \in Nat /\ p \in Deck!Entries
    BY EntriesAre DEF Outlined
<1>6. m - 1 = Deck!FrameCount(p) - 1 <=> m = Deck!FrameCount(p)
    BY <1>5
<1>7. NoteOf(<<p, m - 1>>) = note
    BY <1>6 DEF NoteOf
<1>8. Unnoted(s)
    BY <1>2, <1>3, <1>7 DEF Unnoted
<1> QED
    BY <1>3, <1>4, <1>8 DEF s

LEMMA RecordIsPut ==
  ASSUME Outlined, NEW p \in Deck!Parents, NEW d
  PROVE  Deck!ExpandRecord(d, Record(p)) =
           [i \in 1 .. (Len(d) + Deck!FrameCount(p) - 1) |->
              IF i < Deck!Position(p) THEN d[i]
              ELSE IF i < Deck!Position(p) + Deck!FrameCount(p)
                   THEN Put(p)[i - Deck!Position(p) + 1]
                   ELSE d[i - Deck!FrameCount(p) + 1]]
<1> DEFINE k == Deck!FrameCount(p)
           r == Record(p)
<1>1. k \in Nat
    BY EntriesAre DEF Outlined
<1>2. /\ r.parent = Deck!Position(p) /\ Len(r.frames) = k
      /\ r.frames = [i \in 1 .. k |-> Deck!FrameImage(p, i - 1)]
      /\ r.notes = IF p = outline.silent THEN None ELSE p
    BY <1>1 DEF Record
<1> HIDE DEF k, r
<1> DEFINE put == [m \in 1 .. Len(r.frames) |->
                     Deck!Frame(r.frames[m], IF m = Len(r.frames) THEN r.notes ELSE None)]
<1>3. put = Put(p)
    BY <1>2 DEF Put, k
<1>4. Deck!ExpandRecord(d, r) =
        [i \in 1 .. (Len(d) + Len(r.frames) - 1) |->
           IF i < r.parent THEN d[i]
           ELSE IF i < r.parent + Len(r.frames) THEN put[i - r.parent + 1]
           ELSE d[i - Len(r.frames) + 1]]
    BY DEF Deck!ExpandRecord
<1> HIDE DEF put
<1> QED
    BY <1>2, <1>3, <1>4 DEF k, r

LEMMA DeckExpandsBuild == ASSUME DeckInv, Deck!ExpandBuild PROVE DeckInv'
<1>1. /\ Outlined /\ AssemblyLike /\ assembly.pc = "expanding" /\ assembly.deck = Applied
      /\ assembly.backgrounds = Backgrounds
    BY DEF DeckInv, DeckStage, Deck!ExpandBuild
<1>2. PICK R \in SUBSET Deck!Parents : Expanding(R)
    BY <1>1 DEF DeckInv, DeckStage
<1>3. R # {}
    <2>1. assembly.jobs # {} /\ assembly.jobs = {Record(n) : n \in R}
        BY <1>2 DEF Deck!ExpandBuild, Expanding
    <2> QED
        BY <2>1
<1>4. PICK p \in R : \A q \in R : q <= p
    BY <1>1, <1>3, LastParent
<1> DEFINE d == assembly.tmp
           Q == R \ {p}
           at == Deck!Position(p)
           k == Deck!FrameCount(p)
           e == [i \in 1 .. (Len(d) + k - 1) |->
                   IF i < at THEN d[i]
                   ELSE IF i < at + k THEN Put(p)[i - at + 1]
                   ELSE d[i - k + 1]]
<1>5. Deck!ManifestToPacked(assembly.jobs) = Record(p)
    BY <1>1, <1>2, <1>4, HighestFirst DEF Expanding
<1>6. p \in Deck!Parents /\ Deck!ExpandRecord(d, Record(p)) = e
    <2>1. p \in Deck!Parents
        OBVIOUS
    <2> QED
        BY <1>1, <2>1, RecordIsPut
<1>7. /\ assembly'.pc = "expanding" /\ AssemblyLike' /\ outline' = outline
      /\ assembly'.deck = Applied /\ assembly'.backgrounds = Backgrounds
      /\ assembly'.tmp = e
      /\ assembly'.jobs = {Record(n) : n \in R} \ {Record(p)}
    <2>1. assembly' = [assembly EXCEPT !.tmp = Deck!ExpandRecord(@, Record(p)),
                                       !.jobs = @ \ {Record(p)}]
        BY <1>5 DEF Deck!ExpandBuild
    <2>2. outline' = outline /\ assembly.jobs = {Record(n) : n \in R}
        BY <1>2 DEF Deck!ExpandBuild, Expanding
    <2> HIDE DEF e
    <2> QED
        BY <1>1, <1>6, <2>1, <2>2 DEF AssemblyLike
<1>8. /\ p \in Deck!Entries /\ p \in Nat /\ at \in Nat /\ k \in Nat /\ k > 0
      /\ \A n \in Deck!Entries : n \in Nat /\ Deck!Position(n) \in Nat
      /\ R \subseteq Deck!Entries
    <2>1. \A n \in Deck!Entries : n \in Nat /\ Deck!Position(n) \in Nat
        BY <1>1, EntriesAre, PositionsRank
    <2>2. p \in Deck!Entries /\ R \subseteq Deck!Entries
        BY <1>1, EntriesAre
    <2>3. k \in Nat /\ k > 0
        BY <1>1, <1>6, <2>2 DEF Outlined, Deck!Parents
    <2> QED
        BY <2>1, <2>2, <2>3
<1>9. Listing(d, Current(R)) /\ Len(d) \in Nat /\ DOMAIN d = 1 .. Len(d)
    BY <1>2 DEF Expanding, Listing
<1>10. at \in DOMAIN d /\ Shown(d[at]) = <<p>>
    <2>1. \A q \in Deck!Parents \ R : p < q
        BY <1>2 DEF Expanding
    <2> QED
        BY <1>2, <1>8, <2>1 DEF Expanding
<1>11. Listing(e, Current(Q))
    <2>1. \A m \in 1 .. k : Shown(Put(p)[m]) = <<p, m - 1>>
        BY <1>1, <1>6, FramesPut
    <2>3. k = Deck!FrameCount(p) /\ p \in R /\ R \in SUBSET Deck!Parents
        OBVIOUS
    <2> HIDE DEF d, at, k
    <2>4. Len(d) + k - 1 \in Nat
        BY <1>8, <1>9
    <2>2. Replaces(e, d, at, k, Put(p))
        BY <2>4 DEF Replaces
    <2>5. FramesOf(p, k, Put(p))
        BY <2>1 DEF FramesOf
    <2> HIDE DEF e
    <2> QED
        BY <1>1, <1>9, <1>10, <2>2, <2>3, <2>5, RecordExpands
<1>12. {Record(n) : n \in R} \ {Record(p)} = {Record(n) : n \in Q}
    <2>1. \A n \in R : Record(n) = Record(p) => n = p
        BY <1>1, <1>6, RecordsDiffer
    <2> QED
        BY <2>1
<1>13. \A n \in Q, q \in Deck!Parents \ Q : n < q
    <2> SUFFICES ASSUME NEW n \in Q, NEW q \in Deck!Parents \ Q
                 PROVE  n < q
        OBVIOUS
    <2>1. CASE q = p
        BY <2>1, <1>4, <1>8
    <2>2. CASE q # p
        BY <2>2, <1>2 DEF Expanding
    <2> QED
        BY <2>1, <2>2
<1>14. ASSUME NEW n \in Deck!Entries, \A q \in Deck!Parents \ Q : n < q
       PROVE  Deck!Position(n) \in DOMAIN e /\ Shown(e[Deck!Position(n)]) = <<n>>
    <2>1. n < p /\ \A q \in Deck!Parents \ R : n < q
        BY <1>6, <1>14
    <2>2. Deck!Position(n) \in DOMAIN d /\ Shown(d[Deck!Position(n)]) = <<n>>
        BY <1>2, <2>1 DEF Expanding
    <2>3. Deck!Position(n) < at
        BY <1>1, <1>8, <2>1, PositionsRank
    <2>4. Deck!Position(n) \in 1 .. (Len(d) + k - 1)
        BY <1>8, <1>9, <2>2
    <2>5. e[Deck!Position(n)] = d[Deck!Position(n)]
        BY <2>3, <2>4
    <2> QED
        BY <2>2, <2>4, <2>5
<1>15. ASSUME NEW i \in DOMAIN e
       PROVE  Dressed(e[i]) /\ Unnoted(e[i]) /\ Bare(e[i])
    <2>1. i \in 1 .. (Len(d) + k - 1) /\ at \in 1 .. Len(d)
        BY <1>9, <1>10
    <2>2. e[i] = IF i < at THEN d[i]
                 ELSE IF i < at + k THEN Put(p)[i - at + 1] ELSE d[i - k + 1]
        BY <2>1
    <2>3. \A j \in 1 .. Len(d) : Dressed(d[j]) /\ Unnoted(d[j]) /\ Bare(d[j])
        BY <1>2, <1>9 DEF Expanding
    <2>4. \A m \in 1 .. k : Dressed(Put(p)[m]) /\ Unnoted(Put(p)[m]) /\ Bare(Put(p)[m])
        BY <1>1, <1>6, FramesPut
    <2> HIDE DEF e, d, at, k
    <2>5. CASE i < at
        <3>1. i \in 1 .. Len(d) /\ e[i] = d[i]
            BY <1>8, <1>9, <2>1, <2>2, <2>5
        <3> QED
            BY <2>3, <3>1
    <2>6. CASE ~ (i < at) /\ i < at + k
        <3>1. i - at + 1 \in 1 .. k /\ e[i] = Put(p)[i - at + 1]
            BY <1>8, <1>9, <2>1, <2>2, <2>6
        <3> QED
            BY <2>4, <3>1
    <2>7. CASE ~ (i < at) /\ ~ (i < at + k)
        <3>1. i - k + 1 \in 1 .. Len(d) /\ e[i] = d[i - k + 1]
            BY <1>8, <1>9, <2>1, <2>2, <2>7
        <3> QED
            BY <2>3, <3>1
    <2> QED
        BY <2>5, <2>6, <2>7
<1>16. Expanding(Q)'
    <2> HIDE DEF e, Q
    <2>1. Deck!Parents' = Deck!Parents /\ Deck!Entries' = Deck!Entries
        BY <1>7, OutlineKept
    <2>2. (assembly.jobs = {Record(n) : n \in Q})'
        BY <1>7, <1>12, <2>1, OutlineKept DEF Q
    <2>3. Listing(assembly.tmp, Current(Q))'
        BY <1>7, <1>11, OutlineKept DEF Q
    <2>4. (\A n \in Deck!Entries :
             (\A q \in Deck!Parents \ Q : n < q) =>
               /\ Deck!Position(n) \in DOMAIN assembly.tmp
               /\ Shown(assembly.tmp[Deck!Position(n)]) = <<n>>)'
        BY <1>7, <1>14, <2>1, OutlineKept DEF Q
    <2>5. (\A i \in DOMAIN assembly.tmp :
             Dressed(assembly.tmp[i]) /\ Unnoted(assembly.tmp[i]) /\ Bare(assembly.tmp[i]))'
        BY <1>7, <1>15, OutlineKept
    <2>6. (\A n \in Q, q \in Deck!Parents \ Q : n < q)'
        BY <1>13, <2>1 DEF Q
    <2> QED
        BY <2>2, <2>3, <2>4, <2>5, <2>6 DEF Expanding
<1>17. DeckStage'
    <2>1. (Q \in SUBSET Deck!Parents)'
        BY <1>7, OutlineKept
    <2> HIDE DEF Q
    <2>2. (\E S \in SUBSET Deck!Parents : Expanding(S))'
        BY <1>16, <2>1
    <2> QED
        BY <1>7, <2>2, OutlineKept DEF DeckStage, Built
<1> QED
    BY <1>1, <1>7, <1>17, OutlineKept DEF DeckInv, DeckBuilt, Built, Deck!OneCodePerSlide

LEMMA DeckFailsToExpand == ASSUME DeckInv, Deck!ExpansionFails PROVE DeckInv'
<1>1. /\ Outlined /\ AssemblyLike /\ assembly.deck = Applied
      /\ assembly.backgrounds = Backgrounds
    BY DEF DeckInv, DeckStage, Deck!ExpansionFails
<1>2. /\ assembly'.pc = "applied" /\ AssemblyLike' /\ outline' = outline
      /\ assembly'.deck = Applied /\ assembly'.backgrounds = Backgrounds
    BY <1>1 DEF Deck!ExpansionFails, AssemblyLike
<1> QED
    BY <1>1, <1>2, OutlineKept
       DEF DeckInv, DeckStage, DeckBuilt, Built, Deck!OneCodePerSlide

LEMMA DeckSaves == ASSUME DeckInv, Deck!SaveExpanded PROVE DeckInv'
<1>1. Outlined /\ AssemblyLike /\ assembly.pc = "expanding" /\ assembly.backgrounds = Backgrounds
    BY DEF DeckInv, DeckStage, Deck!SaveExpanded
<1>2. PICK R \in SUBSET Deck!Parents : Expanding(R)
    BY <1>1 DEF DeckInv, DeckStage
<1>3. R = {}
    <2>1. assembly.jobs = {} /\ assembly.jobs = {Record(n) : n \in R}
        BY <1>2 DEF Deck!SaveExpanded, Expanding
    <2> QED
        BY <2>1
<1>4. /\ assembly'.pc = "expanded" /\ AssemblyLike' /\ outline' = outline
      /\ assembly'.deck = assembly.tmp /\ assembly'.backgrounds = Backgrounds
    BY <1>1 DEF Deck!SaveExpanded, AssemblyLike
<1>5. Listing(assembly.tmp, Deck!Declared)
    BY <1>2, <1>3, NothingWaits DEF Expanding
<1>6. \A i \in DOMAIN assembly.tmp :
        Dressed(assembly.tmp[i]) /\ Unnoted(assembly.tmp[i]) /\ Bare(assembly.tmp[i])
    BY <1>2 DEF Expanding
<1>7. DeckBuilt'
    <2>1. Listing(assembly.deck, Deck!Declared)'
        BY <1>4, <1>5, OutlineKept
    <2>2. (\A i \in DOMAIN assembly.deck :
             Dressed(assembly.deck[i]) /\ Unnoted(assembly.deck[i]) /\ Bare(assembly.deck[i]))'
        BY <1>4, <1>6, OutlineKept
    <2> QED
        BY <1>4, <2>1, <2>2 DEF DeckBuilt
<1> QED
    BY <1>1, <1>4, <1>7, OutlineKept DEF DeckInv, DeckStage, Built, Deck!OneCodePerSlide

-----------------------------------------------------------------------------

(* A deck whose slides show what they showed lists what it listed. *)
LEMMA SameListing ==
  ASSUME NEW views, NEW d, Listing(d, views), NEW e, Len(e) = Len(d), DOMAIN e = DOMAIN d,
         \A i \in DOMAIN d : Shown(e[i]) = Shown(d[i])
  PROVE  Listing(e, views)
<1>1. Len(e) \in Nat /\ DOMAIN e = 1 .. Len(e)
    BY DEF Listing
<1>2. \A i \in DOMAIN e : Shown(e[i]) \in views
    BY DEF Listing
<1>3. \A v \in views : \E i \in DOMAIN e : Shown(e[i]) = v
    BY DEF Listing
<1>4. \A i, j \in DOMAIN e : i < j => Deck!Precedes(Shown(e[i]), Shown(e[j]))
    BY DEF Listing
<1> QED
    BY <1>1, <1>2, <1>3, <1>4 DEF Listing

(* A slide with a title is the one of an entry without frames. *)
LEMMA TitledSlides ==
  ASSUME Outlined, NEW d, Listing(d, Deck!Declared), NEW i \in DOMAIN d, d[i].title # None
  PROVE  d[i].title \in Deck!Entries \ Deck!Parents /\ Shown(d[i]) = <<d[i].title>>
<1>1. Shown(d[i]) = <<d[i].title>>
    BY DEF Shown, Deck!Image
<1>2. Shown(d[i]) \in Current({}) /\ {} \in SUBSET Deck!Parents
    BY NothingWaits DEF Listing
<1>3. IsCurrent(<<d[i].title>>, {})
    BY <1>1, <1>2, CurrentViews
<1>4. \A n, step : <<n, step>> # <<d[i].title>>
    OBVIOUS
<1>5. PICK n \in (Deck!Entries \ Deck!Parents) \union {} : <<d[i].title>> = <<n>>
    BY <1>3, <1>4 DEF IsCurrent
<1> QED
    BY <1>1, <1>5

LEMMA NoteGoesIn ==
  ASSUME Outlined, NEW s, Dressed(s), Unnoted(s) \/ Noted(s),
         NEW t, t = IF s.title \notin {None, outline.silent}
                    THEN [s EXCEPT !.note = s.title] ELSE s
  PROVE  Dressed(t) /\ Noted(t) /\ Shown(t) = Shown(s) /\ (Bare(s) => Bare(t))
<1>1. Slidelike(s)
    BY DEF Dressed
<1>2. /\ t.title = s.title /\ t.bg = s.bg /\ t.picture = s.picture /\ t.scrim = s.scrim
      /\ Slidelike(t)
      /\ t.note = IF s.title \notin {None, outline.silent} THEN s.title ELSE s.note
    <2>1. CASE s.title \notin {None, outline.silent}
        <3>1. t = [s EXCEPT !.note = s.title]
            BY <2>1
        <3> QED
            BY <1>1, <2>1, <3>1 DEF Slidelike
    <2>2. CASE ~ (s.title \notin {None, outline.silent})
        BY <1>1, <2>2
    <2> QED
        BY <2>1, <2>2
<1>3. Shown(t) = Shown(s)
    BY <1>2 DEF Shown
<1>4. Dressed(t) /\ (Bare(s) => Bare(t))
    BY <1>2 DEF Dressed, Bare
<1>5. Noted(t)
    <2>1. CASE s.title = None
        <3>1. s.note = NoteOf(Shown(s))
            BY <2>1 DEF Unnoted, Noted
        <3> QED
            BY <1>2, <1>3, <2>1, <3>1 DEF Noted
    <2>2. CASE s.title # None
        <3>1. Shown(s) = <<s.title>>
            BY <2>2 DEF Shown, Deck!Image
        <3>2. NoteOf(<<s.title>>) = IF s.title # outline.silent THEN s.title ELSE None
            BY DEF NoteOf
        <3>3. s.title = outline.silent => s.note = None
            BY <2>2, <3>1, <3>2 DEF Unnoted, Noted
        <3> QED
            BY <1>2, <1>3, <2>2, <3>1, <3>2, <3>3 DEF Noted
    <2> QED
        BY <2>1, <2>2
<1> QED
    BY <1>3, <1>4, <1>5

LEMMA DeckInjects == ASSUME DeckInv, Deck!InjectNotes PROVE DeckInv'
<1> DEFINE d == assembly.deck
           items == Deck!DriverArgs(Deck!NotesMap(d), Len(d))
           e == [i \in DOMAIN d |-> IF items[i] = None THEN d[i] ELSE [d[i] EXCEPT !.note = items[i]]]
<1>1. /\ Outlined /\ AssemblyLike /\ assembly.pc \in {"expanded", "noted"} /\ assembly.backgrounds = Backgrounds
      /\ Listing(d, Deck!Declared)
      /\ \A i \in DOMAIN d : Dressed(d[i]) /\ (Unnoted(d[i]) \/ Noted(d[i])) /\ Bare(d[i])
    <2>1. assembly.pc \in {"expanded", "noted"} /\ Outlined /\ AssemblyLike
        BY DEF DeckInv, Deck!InjectNotes
    <2>2. assembly.backgrounds = Backgrounds
        BY <2>1 DEF DeckInv, DeckStage
    <2>3. /\ Listing(d, Deck!Declared)
          /\ \A i \in DOMAIN d : Dressed(d[i]) /\ (Unnoted(d[i]) \/ Noted(d[i])) /\ Bare(d[i])
        BY <2>1 DEF DeckInv, DeckBuilt, Built
    <2> QED
        BY <2>1, <2>2, <2>3
<1>2. /\ assembly'.pc = "noted" /\ AssemblyLike' /\ outline' = outline
      /\ assembly'.deck = e /\ assembly'.backgrounds = Backgrounds
    BY <1>1 DEF Deck!InjectNotes, AssemblyLike
<1>3. DOMAIN e = DOMAIN d /\ Len(e) = Len(d) /\ DOMAIN d = 1 .. Len(d) /\ Len(d) \in Nat
    BY <1>1 DEF Listing
<1>4. ASSUME NEW i \in DOMAIN d
      PROVE  /\ Dressed(e[i]) /\ Noted(e[i]) /\ Shown(e[i]) = Shown(d[i]) /\ Bare(e[i])
    <2>1. DOMAIN d \subseteq Nat /\ i \in 1 .. Len(d)
        BY <1>3
    <2>2. items[i] = Deck!NoteFor(Deck!NotesMap(d), i)
        BY <2>1 DEF Deck!DriverArgs
    <2>3. items[i] = IF d[i].title \notin {None, outline.silent} THEN d[i].title ELSE None
        BY <2>1, <2>2, NoteForTitle
    <2>4. e[i] = IF items[i] = None THEN d[i] ELSE [d[i] EXCEPT !.note = items[i]]
        OBVIOUS
    <2> HIDE DEF e, items, d
    <2>5. e[i] = IF d[i].title \notin {None, outline.silent}
                 THEN [d[i] EXCEPT !.note = d[i].title] ELSE d[i]
        BY <2>3, <2>4
    <2>6. Dressed(d[i]) /\ (Unnoted(d[i]) \/ Noted(d[i])) /\ Bare(d[i])
        BY <1>1
    <2> DEFINE s == d[i]
               t == e[i]
    <2>7. /\ Dressed(s) /\ (Unnoted(s) \/ Noted(s)) /\ Bare(s)
          /\ t = IF s.title \notin {None, outline.silent} THEN [s EXCEPT !.note = s.title] ELSE s
        BY <2>5, <2>6
    <2> HIDE DEF s, t
    <2>8. Dressed(t) /\ Noted(t) /\ Shown(t) = Shown(s) /\ Bare(t)
        BY <1>1, <2>7, NoteGoesIn
    <2> QED
        BY <2>8 DEF s, t
<1> HIDE DEF e, d
<1>5. Listing(e, Deck!Declared)
    BY <1>1, <1>3, <1>4, SameListing
<1>6. DeckBuilt'
    <2>1. Listing(assembly.deck, Deck!Declared)'
        BY <1>2, <1>5, OutlineKept
    <2>2. (\A i \in DOMAIN assembly.deck :
             Dressed(assembly.deck[i]) /\ Noted(assembly.deck[i]) /\ Bare(assembly.deck[i]))'
        BY <1>2, <1>3, <1>4, OutlineKept
    <2> QED
        BY <1>2, <2>1, <2>2 DEF DeckBuilt
<1> QED
    BY <1>1, <1>2, <1>6, OutlineKept DEF DeckInv, DeckStage, Built, Deck!OneCodePerSlide

(* The backgrounds are those of the slides they are numbered for. *)
LEMMA BackgroundsFit ==
  ASSUME Outlined, NEW d, Listing(d, Deck!Declared), NEW i \in DOMAIN d
  PROVE  /\ i \in DOMAIN Backgrounds => Shown(d[i]) = Backgrounds[i]
         /\ \A n : Shown(d[i]) = <<n>> => (i \in DOMAIN Backgrounds <=> n \in Deck!Full)
<1>1. {} \in SUBSET Deck!Parents /\ Listing(d, Current({}))
    BY NothingWaits
<1>2. ASSUME NEW n \in Own
      PROVE  \E j \in DOMAIN d : Shown(d[j]) = <<n>> /\ j = Deck!DeckSlideNumber(n)
    <2>1. n \in Deck!Entries \ Deck!Parents
        BY DEF Own, Deck!Full
    <2>2. <<n>> \in Current({})
        BY <2>1, CurrentViews DEF IsCurrent
    <2>3. PICK j \in DOMAIN d : Shown(d[j]) = <<n>>
        BY <1>1, <2>2 DEF Listing
    <2> QED
        BY <2>1, <2>3, SlideNumberIsPlace
<1>3. DOMAIN Backgrounds = {Deck!DeckSlideNumber(n) : n \in Own}
    BY DEF Backgrounds
<1>4. ASSUME i \in DOMAIN Backgrounds
      PROVE  Shown(d[i]) = Backgrounds[i] /\ \E n \in Own : Shown(d[i]) = <<n>>
    <2> DEFINE n == CHOOSE m \in Own : Deck!DeckSlideNumber(m) = i
    <2>1. n \in Own /\ Deck!DeckSlideNumber(n) = i
        BY <1>3, <1>4
    <2>2. Backgrounds[i] = Deck!Image(n)
        BY <1>3, <1>4 DEF Backgrounds
    <2> HIDE DEF n
    <2>3. Shown(d[i]) = <<n>>
        BY <1>2, <2>1
    <2> QED
        BY <2>1, <2>2, <2>3 DEF Deck!Image
<1>5. ASSUME NEW n, Shown(d[i]) = <<n>>
      PROVE  i \in DOMAIN Backgrounds <=> n \in Deck!Full
    <2>1. i \in DOMAIN Backgrounds => n \in Deck!Full
        <3> HAVE i \in DOMAIN Backgrounds
        <3>1. PICK m \in Own : Shown(d[i]) = <<m>>
            BY <1>4
        <3>2. m = n
            BY <3>1, <1>5
        <3> QED
            BY <3>1, <3>2 DEF Own
    <2>2. n \in Deck!Full => i \in DOMAIN Backgrounds
        <3> HAVE n \in Deck!Full
        <3>1. IsCurrent(<<n>>, {})
            BY <1>1, <1>5, CurrentViews DEF Listing
        <3>2. n \notin Deck!Parents
            <4>1. \A m, step : <<m, step>> # <<n>>
                OBVIOUS
            <4>2. PICK m \in (Deck!Entries \ Deck!Parents) \union {} : <<n>> = <<m>>
                BY <3>1, <4>1 DEF IsCurrent
            <4> QED
                BY <4>2
        <3>3. n \in Own
            BY <3>2 DEF Own
        <3>4. PICK j \in DOMAIN d : Shown(d[j]) = <<n>> /\ j = Deck!DeckSlideNumber(n)
            BY <1>2, <3>3
        <3>5. j = i
            BY <1>1, <1>5, <3>4, PlacesDiffer
        <3> QED
            BY <1>3, <3>3, <3>4, <3>5
    <2> QED
        BY <2>1, <2>2
<1> QED
    BY <1>4, <1>5

LEMMA BackgroundGoesIn ==
  ASSUME Outlined, NEW d, Listing(d, Deck!Declared), NEW i \in DOMAIN d,
         Dressed(d[i]), Noted(d[i]), Bare(d[i]) \/ Grounded(d[i]),
         NEW t, t = IF i \in DOMAIN Backgrounds THEN [d[i] EXCEPT !.bg = Backgrounds[i]] ELSE d[i]
  PROVE  Dressed(t) /\ Noted(t) /\ Shown(t) = Shown(d[i]) /\ Grounded(t)
<1> DEFINE s == d[i]
<1>1. Slidelike(s)
    BY DEF Dressed
<1>2. /\ i \in DOMAIN Backgrounds => Shown(s) = Backgrounds[i]
      /\ s.title # None =>
           Shown(s) = <<s.title>> /\ (i \in DOMAIN Backgrounds <=> s.title \in Deck!Full)
    BY BackgroundsFit, TitledSlides
<1>3. Dressed(s) /\ Noted(s) /\ (Bare(s) \/ Grounded(s))
    OBVIOUS
<1>4. t = IF i \in DOMAIN Backgrounds THEN [s EXCEPT !.bg = Backgrounds[i]] ELSE s
    OBVIOUS
<1> HIDE DEF s
<1>5. /\ t.title = s.title /\ t.note = s.note /\ t.picture = s.picture /\ t.scrim = s.scrim
      /\ Slidelike(t) /\ t.bg = IF i \in DOMAIN Backgrounds THEN Backgrounds[i] ELSE s.bg
    <2>1. CASE i \in DOMAIN Backgrounds
        <3>1. t = [s EXCEPT !.bg = Backgrounds[i]]
            BY <1>4, <2>1
        <3> QED
            BY <1>1, <2>1, <3>1 DEF Slidelike
    <2>2. CASE i \notin DOMAIN Backgrounds
        BY <1>1, <1>4, <2>2
    <2> QED
        BY <2>1, <2>2
<1>6. Shown(t) = Shown(s)
    BY <1>2, <1>5 DEF Shown
<1>7. Dressed(t) /\ Noted(t)
    BY <1>3, <1>5, <1>6 DEF Dressed, Noted
<1>8. Grounded(t)
    <2> SUFFICES ASSUME s.title # None
                 PROVE  t.bg = IF s.title \in Deck!Full THEN Deck!Image(s.title) ELSE None
        BY <1>5 DEF Grounded
    <2>1. CASE s.title \in Deck!Full
        BY <1>2, <1>5, <2>1 DEF Deck!Image
    <2>2. CASE s.title \notin Deck!Full
        BY <1>2, <1>3, <1>5, <2>2 DEF Bare, Grounded
    <2> QED
        BY <2>1, <2>2
<1> QED
    BY <1>6, <1>7, <1>8 DEF s

LEMMA DeckBacks == ASSUME DeckInv, Deck!ApplyBackgrounds PROVE DeckInv'
<1> DEFINE d == assembly.deck
           e == [i \in DOMAIN d |->
                   IF i \in DOMAIN Backgrounds THEN [d[i] EXCEPT !.bg = Backgrounds[i]] ELSE d[i]]
<1>1. /\ Outlined /\ AssemblyLike /\ assembly.pc \in {"noted", "backed"}
      /\ assembly.backgrounds = Backgrounds /\ Listing(d, Deck!Declared)
      /\ \A i \in DOMAIN d : Dressed(d[i]) /\ Noted(d[i]) /\ (Bare(d[i]) \/ Grounded(d[i]))
    <2>1. assembly.pc \in {"noted", "backed"} /\ Outlined /\ AssemblyLike
        BY DEF DeckInv, Deck!ApplyBackgrounds
    <2>2. assembly.backgrounds = Backgrounds
        BY <2>1 DEF DeckInv, DeckStage
    <2>3. /\ Listing(d, Deck!Declared)
          /\ \A i \in DOMAIN d : Dressed(d[i]) /\ Noted(d[i]) /\ (Bare(d[i]) \/ Grounded(d[i]))
        BY <2>1 DEF DeckInv, DeckBuilt, Built
    <2> QED
        BY <2>1, <2>2, <2>3
<1>2. /\ assembly'.pc = "backed" /\ AssemblyLike' /\ outline' = outline
      /\ assembly'.deck = e /\ assembly'.backgrounds = Backgrounds
    BY <1>1 DEF Deck!ApplyBackgrounds, AssemblyLike
<1>3. DOMAIN e = DOMAIN d /\ Len(e) = Len(d)
    BY <1>1 DEF Listing
<1>4. ASSUME NEW i \in DOMAIN d
      PROVE  Dressed(e[i]) /\ Noted(e[i]) /\ Shown(e[i]) = Shown(d[i]) /\ Grounded(e[i])
    <2>1. e[i] = IF i \in DOMAIN Backgrounds THEN [d[i] EXCEPT !.bg = Backgrounds[i]] ELSE d[i]
        OBVIOUS
    <2> HIDE DEF e, d
    <2>2. Dressed(d[i]) /\ Noted(d[i]) /\ (Bare(d[i]) \/ Grounded(d[i]))
        BY <1>1
    <2> QED
        BY <1>1, <2>1, <2>2, BackgroundGoesIn
<1> HIDE DEF e, d
<1>5. Listing(e, Deck!Declared)
    BY <1>1, <1>3, <1>4, SameListing
<1>6. DeckBuilt'
    <2>1. Listing(assembly.deck, Deck!Declared)'
        BY <1>2, <1>5, OutlineKept
    <2>2. (\A i \in DOMAIN assembly.deck :
             Dressed(assembly.deck[i]) /\ Noted(assembly.deck[i]) /\ Grounded(assembly.deck[i]))'
        BY <1>2, <1>3, <1>4, OutlineKept
    <2> QED
        BY <1>2, <2>1, <2>2 DEF DeckBuilt
<1> QED
    BY <1>1, <1>2, <1>6, OutlineKept DEF DeckInv, DeckStage, Built, Deck!OneCodePerSlide

(* The slides that get a code are slides of the deck, the shownotes slide is one. *)
LEMMA TargetsInDeck ==
  ASSUME Outlined, NEW d, Listing(d, Deck!Declared)
  PROVE  /\ Len(d) \in DOMAIN d /\ Len(d) \in Deck!CodeTargets(d)
         /\ Deck!CodeTargets(d) \subseteq DOMAIN d
         /\ \A i \in DOMAIN d : d[i].title = outline.shownotes => i \in Deck!CodeTargets(d)
<1>1. {} \in SUBSET Deck!Parents /\ Listing(d, Current({}))
    BY NothingWaits
<1>2. Len(d) \in Nat /\ DOMAIN d = 1 .. Len(d)
    BY DEF Listing
<1>3. Len(d) \in DOMAIN d /\ Len(d) > 0
    <2>1. PICK n \in Deck!Entries : TRUE
        BY DEF Outlined
    <2>2. \E v : v \in Current({})
        <3>1. CASE n \in Deck!Parents
            <4>1. Deck!FrameCount(n) \in Nat /\ Deck!FrameCount(n) > 0
                BY <3>1 DEF Outlined, Deck!Parents
            <4>2. 0 \in 0 .. (Deck!FrameCount(n) - 1)
                BY <4>1
            <4>3. IsCurrent(<<n, 0>>, {})
                BY <3>1, <4>2 DEF IsCurrent
            <4> QED
                BY <4>3, CurrentViews
        <3>2. CASE n \notin Deck!Parents
            <4>1. IsCurrent(<<n>>, {})
                BY <3>2 DEF IsCurrent
            <4> QED
                BY <4>1, CurrentViews
        <3> QED
            BY <3>1, <3>2
    <2>3. PICK i \in DOMAIN d : TRUE
        BY <1>1, <2>2 DEF Listing
    <2> QED
        BY <1>2, <2>3
<1> DEFINE found == {i \in DOMAIN d : d[i].title = outline.shownotes}
<1>4. \A i \in found, j \in found : i = j
    <2> SUFFICES ASSUME NEW i \in found, NEW j \in found
                 PROVE  i = j
        OBVIOUS
    <2>1. d[i].title = outline.shownotes /\ d[j].title = outline.shownotes /\ outline.shownotes # None
        BY EntriesAre DEF Outlined
    <2>2. Shown(d[i]) = Shown(d[j])
        BY <2>1 DEF Shown
    <2> QED
        BY <1>1, <2>2, PlacesDiffer
<1>5. ASSUME NEW i \in found
      PROVE  Deck!ShownotesSlide(d) = i
    <2>1. found = {i}
        BY <1>4
    <2>2. i \in Nat
        BY <1>2
    <2>3. Deck!Min({i}) = i
        BY <2>2 DEF Deck!Min
    <2> QED
        BY <2>1, <2>3 DEF Deck!ShownotesSlide
<1>6. ASSUME found = {}
      PROVE  Deck!ShownotesSlide(d) \in DOMAIN d
    <2>1. Deck!ShownotesSlide(d) = Deck!Min({4, Len(d)})
        BY <1>6 DEF Deck!ShownotesSlide
    <2>2. \E x \in {4, Len(d)} : \A y \in {4, Len(d)} : x <= y
        BY <1>2
    <2>3. /\ Deck!Min({4, Len(d)}) \in {4, Len(d)}
          /\ \A y \in {4, Len(d)} : Deck!Min({4, Len(d)}) <= y
        BY <2>2 DEF Deck!Min
    <2> QED
        BY <1>2, <1>3, <2>1, <2>3
<1>7. Deck!ShownotesSlide(d) \in DOMAIN d
    BY <1>5, <1>6
<1> QED
    BY <1>3, <1>5, <1>7 DEF Deck!CodeTargets

LEMMA DeckStartsInsertion == ASSUME DeckInv, Deck!StartInsertion PROVE DeckInv'
<1> DEFINE d == assembly.deck
<1>1. /\ Outlined /\ AssemblyLike /\ assembly.pc \in {"backed", "published"}
      /\ assembly.backgrounds = Backgrounds /\ Listing(d, Deck!Declared)
      /\ \A i \in DOMAIN d : Dressed(d[i]) /\ Noted(d[i]) /\ Grounded(d[i])
    <2>1. assembly.pc \in {"backed", "published"} /\ Outlined /\ AssemblyLike
        BY DEF DeckInv, Deck!StartInsertion
    <2>2. assembly.backgrounds = Backgrounds
        BY <2>1 DEF DeckInv, DeckStage
    <2>3. /\ Listing(d, Deck!Declared)
          /\ \A i \in DOMAIN d : Dressed(d[i]) /\ Noted(d[i]) /\ Grounded(d[i])
        BY <2>1 DEF DeckInv, DeckBuilt, Built
    <2> QED
        BY <2>1, <2>2, <2>3
<1>2. /\ assembly'.pc = "inserting" /\ AssemblyLike' /\ outline' = outline
      /\ assembly'.deck = d /\ assembly'.backgrounds = Backgrounds
      /\ assembly'.tmp = d /\ assembly'.jobs = Deck!ColourGroups(d)
    BY <1>1 DEF Deck!StartInsertion, AssemblyLike
<1>3. \A i : i \in Deck!CodeTargets(d) => i \in UNION Deck!ColourGroups(d)
    BY DEF Deck!ColourGroups
<1>4. \A x : Deck!CodeTargets(x)' = Deck!CodeTargets(x) /\ Deck!ColourGroups(x)' = Deck!ColourGroups(x)
    <2>1. \A x : Deck!CodeTargets(x)' = Deck!CodeTargets(x)
        BY <1>2 DEF Deck!CodeTargets, Deck!ShownotesSlide
    <2> QED
        BY <2>1 DEF Deck!ColourGroups
<1> HIDE DEF d
<1>5. Inserting'
    BY <1>2, <1>3, <1>4 DEF Inserting
<1>6. DeckBuilt'
    BY <1>1, <1>2, OutlineKept DEF DeckBuilt
<1> QED
    BY <1>1, <1>2, <1>5, <1>6, OutlineKept DEF DeckInv, DeckStage, Built, Deck!OneCodePerSlide

(* The colours share no slide. *)
LEMMA ColoursApart ==
  ASSUME NEW d, NEW g \in Deck!ColourGroups(d), NEW h \in Deck!ColourGroups(d), NEW i \in g, i \in h
  PROVE  g = h /\ i \in Deck!CodeTargets(d)
BY DEF Deck!ColourGroups

LEMMA DeckInsertsGroup == ASSUME DeckInv, Deck!InsertGroup PROVE DeckInv'
<1> DEFINE d == assembly.deck
<1>1. /\ Outlined /\ AssemblyLike /\ assembly.pc = "inserting" /\ Inserting
      /\ assembly.backgrounds = Backgrounds /\ DeckBuilt
    BY DEF DeckInv, DeckStage, Deck!InsertGroup
<1>2. PICK g \in assembly.jobs :
        assembly' = [assembly EXCEPT !.tmp = Deck!InsertQR(@, g), !.jobs = @ \ {g}]
    BY DEF Deck!InsertGroup
<1>3. /\ assembly'.pc = "inserting" /\ AssemblyLike' /\ outline' = outline
      /\ assembly'.deck = d /\ assembly'.backgrounds = Backgrounds
      /\ assembly'.tmp = Deck!InsertQR(assembly.tmp, g) /\ assembly'.jobs = assembly.jobs \ {g}
    BY <1>1, <1>2 DEF Deck!InsertGroup, AssemblyLike
<1>4. \A x : Deck!CodeTargets(x)' = Deck!CodeTargets(x) /\ Deck!ColourGroups(x)' = Deck!ColourGroups(x)
    <2>1. \A x : Deck!CodeTargets(x)' = Deck!CodeTargets(x)
        BY <1>3 DEF Deck!CodeTargets, Deck!ShownotesSlide
    <2> QED
        BY <2>1 DEF Deck!ColourGroups
<1>5. Listing(d, Deck!Declared)
    BY <1>1 DEF DeckBuilt, Built
<1>6. DOMAIN assembly.tmp = DOMAIN d /\ Len(assembly.tmp) = Len(d) /\ Len(d) \in Nat /\ DOMAIN d = 1 .. Len(d)
    BY <1>1, <1>5 DEF Inserting, Listing
<1>7. \A i : i \in UNION (assembly.jobs \ {g}) <=> i \in UNION assembly.jobs /\ i \notin g
    <2> SUFFICES ASSUME NEW i
                 PROVE  i \in UNION (assembly.jobs \ {g}) <=> i \in UNION assembly.jobs /\ i \notin g
        OBVIOUS
    <2>1. assembly.jobs \subseteq Deck!ColourGroups(d)
        BY <1>1 DEF Inserting
    <2>2. \A h \in assembly.jobs : i \in h /\ i \in g => h = g
        BY <2>1, ColoursApart
    <2> QED
        BY <2>2
<1>8. ASSUME NEW i \in DOMAIN d
      PROVE  Deck!InsertQR(assembly.tmp, g)[i] =
               IF i \in Deck!CodeTargets(d) /\ i \notin UNION (assembly.jobs \ {g})
               THEN [d[i] EXCEPT !.codes = <<"new">>] ELSE d[i]
    <2>1. Deck!InsertQR(assembly.tmp, g)[i] =
            IF i \in g THEN [assembly.tmp[i] EXCEPT !.codes = <<"new">>] ELSE assembly.tmp[i]
        BY <1>6 DEF Deck!InsertQR
    <2>2. assembly.tmp[i] = IF i \in Deck!CodeTargets(d) /\ i \notin UNION assembly.jobs
                            THEN [d[i] EXCEPT !.codes = <<"new">>] ELSE d[i]
        BY <1>1 DEF Inserting
    <2>3. CASE i \in g
        <3>1. i \in UNION assembly.jobs /\ i \notin UNION (assembly.jobs \ {g})
            BY <1>7, <2>3
        <3>2. i \in Deck!CodeTargets(d)
            BY <1>1, <2>3, ColoursApart DEF Inserting
        <3> QED
            BY <2>1, <2>2, <2>3, <3>1, <3>2
    <2>4. CASE i \notin g
        BY <1>7, <2>1, <2>2, <2>4
    <2> QED
        BY <2>3, <2>4
<1>9. /\ Len(Deck!InsertQR(assembly.tmp, g)) = Len(d)
      /\ DOMAIN Deck!InsertQR(assembly.tmp, g) = DOMAIN d
    BY <1>6 DEF Deck!InsertQR
<1> HIDE DEF d
<1>10. Inserting'
    <2>1. (assembly.jobs \subseteq Deck!ColourGroups(assembly.deck))'
        BY <1>1, <1>3, <1>4 DEF Inserting, d
    <2>2. (Len(assembly.tmp) = Len(assembly.deck) /\ DOMAIN assembly.tmp = DOMAIN assembly.deck)'
        BY <1>3, <1>9
    <2>3. (\A i \in DOMAIN assembly.deck :
             assembly.tmp[i] =
               IF i \in Deck!CodeTargets(assembly.deck) /\ i \notin UNION assembly.jobs
               THEN [assembly.deck[i] EXCEPT !.codes = <<"new">>]
               ELSE assembly.deck[i])'
        BY <1>3, <1>4, <1>8
    <2> QED
        BY <2>1, <2>2, <2>3 DEF Inserting
<1>11. DeckBuilt'
    BY <1>1, <1>3, OutlineKept DEF DeckBuilt, Built, d
<1> QED
    BY <1>1, <1>3, <1>10, <1>11, OutlineKept DEF DeckInv, DeckStage, Built, Deck!OneCodePerSlide

LEMMA DeckFailsToInsert == ASSUME DeckInv, Deck!InsertionFails PROVE DeckInv'
<1>1. /\ Outlined /\ AssemblyLike /\ assembly.pc = "inserting"
      /\ assembly.backgrounds = Backgrounds /\ DeckBuilt
    BY DEF DeckInv, DeckStage, Deck!InsertionFails
<1>2. /\ assembly'.pc = "backed" /\ AssemblyLike' /\ outline' = outline
      /\ assembly'.deck = assembly.deck /\ assembly'.backgrounds = Backgrounds
    BY <1>1 DEF Deck!InsertionFails, AssemblyLike
<1>3. DeckBuilt'
    BY <1>1, <1>2, OutlineKept DEF DeckBuilt, Built
<1> QED
    BY <1>1, <1>2, <1>3, OutlineKept DEF DeckInv, DeckStage, Built, Deck!OneCodePerSlide

LEMMA DeckDelivers == ASSUME DeckInv, Deck!Deliver PROVE DeckInv'
<1> DEFINE d == assembly.deck
           e == assembly.tmp
<1>1. /\ Outlined /\ AssemblyLike /\ assembly.pc = "inserting" /\ Inserting
      /\ assembly.backgrounds = Backgrounds /\ DeckBuilt /\ assembly.jobs = {}
    BY DEF DeckInv, DeckStage, Deck!Deliver
<1>2. /\ assembly'.pc = "published" /\ AssemblyLike' /\ outline' = outline
      /\ assembly'.deck = e /\ assembly'.backgrounds = Backgrounds
    BY <1>1 DEF Deck!Deliver, AssemblyLike
<1>3. /\ Listing(d, Deck!Declared)
      /\ \A i \in DOMAIN d : Dressed(d[i]) /\ Noted(d[i]) /\ Grounded(d[i])
    BY <1>1 DEF DeckBuilt, Built
<1>4. /\ DOMAIN e = DOMAIN d /\ Len(e) = Len(d)
      /\ \A i \in DOMAIN d : e[i] = IF i \in Deck!CodeTargets(d)
                                    THEN [d[i] EXCEPT !.codes = <<"new">>] ELSE d[i]
    BY <1>1 DEF Inserting
<1> HIDE DEF d, e
<1>5. ASSUME NEW i \in DOMAIN d
      PROVE  /\ Dressed(e[i]) /\ Noted(e[i]) /\ Grounded(e[i]) /\ Shown(e[i]) = Shown(d[i])
             /\ e[i].title = d[i].title
             /\ e[i].codes = IF i \in Deck!CodeTargets(d) THEN <<"new">> ELSE d[i].codes
    <2> DEFINE s == d[i]
               t == e[i]
    <2>1. Dressed(s) /\ Noted(s) /\ Grounded(s) /\ Slidelike(s)
        BY <1>3 DEF Dressed
    <2>2. t = IF i \in Deck!CodeTargets(d) THEN [s EXCEPT !.codes = <<"new">>] ELSE s
        BY <1>4
    <2> HIDE DEF s, t
    <2>3. /\ t.title = s.title /\ t.bg = s.bg /\ t.picture = s.picture /\ t.scrim = s.scrim
          /\ t.note = s.note /\ Slidelike(t)
          /\ t.codes = IF i \in Deck!CodeTargets(d) THEN <<"new">> ELSE s.codes
        <3>1. CASE i \in Deck!CodeTargets(d)
            <4>1. t = [s EXCEPT !.codes = <<"new">>]
                BY <2>2, <3>1
            <4> QED
                BY <2>1, <3>1, <4>1 DEF Slidelike
        <3>2. CASE i \notin Deck!CodeTargets(d)
            BY <2>1, <2>2, <3>2
        <3> QED
            BY <3>1, <3>2
    <2>4. Shown(t) = Shown(s)
        BY <2>3 DEF Shown
    <2>5. Dressed(t) /\ Noted(t) /\ Grounded(t)
        BY <2>1, <2>3, <2>4 DEF Dressed, Noted, Grounded
    <2> QED
        BY <2>3, <2>4, <2>5 DEF s, t
<1>6. Listing(e, Deck!Declared)
    BY <1>3, <1>4, <1>5, SameListing
<1>7. DeckBuilt'
    <2>1. Listing(assembly.deck, Deck!Declared)'
        BY <1>2, <1>6, OutlineKept
    <2>2. (\A i \in DOMAIN assembly.deck :
             Dressed(assembly.deck[i]) /\ Noted(assembly.deck[i]) /\ Grounded(assembly.deck[i]))'
        BY <1>2, <1>4, <1>5, OutlineKept
    <2> QED
        BY <1>2, <2>1, <2>2 DEF DeckBuilt
<1>8. Deck!OneCodePerSlide'
    <2>1. Len(d) \in DOMAIN d /\ Len(d) \in Deck!CodeTargets(d)
        BY <1>1, <1>3, TargetsInDeck
    <2>2. \A i \in DOMAIN d : e[i].codes \in {<<>>, <<"new">>}
        <3>1. \A i \in DOMAIN d : d[i].codes # <<>> => i \in Deck!CodeTargets(d)
            BY DEF Deck!CodeTargets
        <3> QED
            BY <1>5, <3>1
    <2>3. e[Len(e)].codes # <<>>
        BY <1>4, <1>5, <2>1
    <2>4. \A i \in DOMAIN d : e[i].title = outline.shownotes => e[i].codes # <<>>
        <3> SUFFICES ASSUME NEW i \in DOMAIN d, e[i].title = outline.shownotes
                     PROVE  e[i].codes # <<>>
            OBVIOUS
        <3>1. i \in Deck!CodeTargets(d)
            BY <1>1, <1>3, <1>5, TargetsInDeck
        <3>2. e[i].codes = <<"new">>
            BY <1>5, <3>1
        <3> QED
            BY <3>2
    <2> QED
        BY <1>2, <1>4, <2>2, <2>3, <2>4 DEF Deck!OneCodePerSlide
<1> QED
    BY <1>1, <1>2, <1>7, <1>8, OutlineKept DEF DeckInv, DeckStage, Built

(* Every pass leaves a deck as the passes before it leave theirs. *)
LEMMA DeckMoves ==
  ASSUME DeckInv, [Deck!Next]_deck_vars
  PROVE  DeckInv'
<1>1. CASE UNCHANGED deck_vars
    <2>1. outline' = outline /\ assembly' = assembly
        BY <1>1 DEF deck_vars
    <2>2. AssemblyLike'
        BY <2>1 DEF DeckInv, AssemblyLike
    <2> QED
        BY <2>1, <2>2, DeckKept
<1>2. CASE Deck!Next
    BY <1>2, DeckLays, DeckAdapts, DeckApplies, DeckGenerates, DeckExpands, DeckExpandsBuild,
       DeckFailsToExpand, DeckSaves, DeckInjects, DeckBacks, DeckStartsInsertion,
       DeckInsertsGroup, DeckFailsToInsert, DeckDelivers DEF Deck!Next
<1> QED
    BY <1>1, <1>2

LEMMA DeckTypes == DeckInv => Deck!TypeOK
<1> SUFFICES ASSUME DeckInv
             PROVE  Deck!TypeOK
    OBVIOUS
<1>1. Outlined /\ DeckStage /\ DeckBuilt /\ (assembly.pc = "inserting" => Inserting)
    BY DEF DeckInv
<1>2. \A i \in DOMAIN assembly.deck : assembly.deck[i].title \in Deck!Entries \union {None}
    <2>1. CASE assembly.pc = "outlined"
        BY <1>1, <2>1 DEF DeckStage
    <2>2. CASE assembly.pc = "laid"
        <3>1. assembly.deck = Laid /\ \A i \in DOMAIN Laid : Laid[i] = Deck!Slide(Deck!Ranked[i])
            BY <1>1, <2>2 DEF DeckStage, Laid
        <3>2. \A i \in DOMAIN Laid : Deck!Ranked[i] \in Deck!Entries
            BY <1>1, RankedEntries DEF Laid
        <3> QED
            BY <3>1, <3>2 DEF Deck!Slide
    <2>3. CASE assembly.pc \in {"applied", "expanding"}
        <3>1. assembly.deck = Applied
            BY <1>1, <2>3 DEF DeckStage
        <3> QED
            BY <1>1, <3>1, AppliedDeck DEF Dressed
    <2>4. CASE assembly.pc \in Built
        BY <1>1, <2>4 DEF DeckBuilt, Dressed
    <2> QED
        BY <1>1, <2>1, <2>2, <2>3, <2>4 DEF DeckStage
<1>3. DOMAIN assembly.backgrounds \subseteq Nat
    <2>1. CASE assembly.backgrounds = <<>>
        BY <2>1
    <2>2. CASE assembly.backgrounds = Backgrounds
        <3>1. ASSUME NEW n \in Own
              PROVE  Deck!DeckSlideNumber(n) \in Nat
            <4> DEFINE Q == {q \in Deck!Parents : Deck!Position(q) < Deck!Position(n)}
                       X == UNION {Deck!Surplus(p) : p \in Q}
            <4>1. Deck!DeckSlideNumber(n) = Deck!Position(n) + Cardinality(X)
                BY SameCount DEF Deck!DeckSlideNumber
            <4>2. Q \in SUBSET Deck!Parents
                OBVIOUS
            <4> HIDE DEF Q
            <4>3. Cardinality(X) \in Nat
                BY <1>1, <4>2, SurplusFinite, FS_CardinalityType
            <4>4. n \in Deck!Entries
                BY DEF Own, Deck!Full
            <4>5. Deck!Position(n) \in Nat
                BY <1>1, <4>4, PositionsRank, EntriesAre
            <4> QED
                BY <4>1, <4>3, <4>5
        <3> QED
            BY <2>2, <3>1 DEF Backgrounds
    <2> QED
        BY <1>1, <2>1, <2>2 DEF DeckStage
<1>4. assembly.pc = "expanding" => \A b \in assembly.jobs : b.parent \in DOMAIN assembly.tmp
    <2> HAVE assembly.pc = "expanding"
    <2>1. PICK R \in SUBSET Deck!Parents : Expanding(R)
        BY <1>1 DEF DeckStage
    <2>2. ASSUME NEW n \in R
          PROVE  Record(n).parent \in DOMAIN assembly.tmp
        <3>1. n \in Deck!Entries /\ \A q \in Deck!Parents \ R : n < q
            BY <1>1, <2>1, EntriesAre DEF Expanding
        <3>2. Deck!Position(n) \in DOMAIN assembly.tmp
            BY <2>1, <3>1 DEF Expanding
        <3> QED
            BY <3>2 DEF Record
    <2> QED
        BY <2>1, <2>2 DEF Expanding
<1>5. assembly.pc = "inserting" => \A g \in assembly.jobs : g \subseteq DOMAIN assembly.tmp
    <2> HAVE assembly.pc = "inserting"
    <2>1. Listing(assembly.deck, Deck!Declared)
        BY <1>1 DEF DeckBuilt, Built
    <2>2. Deck!CodeTargets(assembly.deck) \subseteq DOMAIN assembly.deck
        BY <1>1, <2>1, TargetsInDeck
    <2>3. \A g \in Deck!ColourGroups(assembly.deck) : g \subseteq Deck!CodeTargets(assembly.deck)
        BY DEF Deck!ColourGroups
    <2> QED
        BY <1>1, <2>2, <2>3 DEF Inserting
<1> QED
    BY <1>2, <1>3, <1>4, <1>5 DEF Deck!TypeOK

(* Which stages a stage comes after. *)
LEMMA StagesPast ==
  ASSUME assembly.pc \in {"outlined", "laid", "applied", "expanding"} \union Built
  PROVE  /\ Deck!Past("expanded") => assembly.pc \in Built
         /\ Deck!Past("noted") => assembly.pc \in Built \ {"expanded"}
         /\ Deck!Past("backed") => assembly.pc \in {"backed", "inserting", "published"}
<1> DEFINE stages == <<"outlined", "laid", "applied", "expanding", "expanded", "noted", "backed",
                       "inserting", "published">>
<1>1. DOMAIN stages = 1 .. 9
    OBVIOUS
<1>2. /\ \A s \in 1 .. 9 : stages[s] = "expanded" => s = 5
      /\ \A s \in 1 .. 9 : stages[s] = "noted" => s = 6
      /\ \A s \in 1 .. 9 : stages[s] = "backed" => s = 7
    OBVIOUS
<1>3. /\ \A t \in 1 .. 9 : 5 <= t => stages[t] \in Built
      /\ \A t \in 1 .. 9 : 6 <= t => stages[t] \in Built \ {"expanded"}
      /\ \A t \in 1 .. 9 : 7 <= t => stages[t] \in {"backed", "inserting", "published"}
    BY DEF Built
<1>4. \A stage : Deck!Past(stage) =>
        \E s \in 1 .. 9, t \in 1 .. 9 : stages[s] = stage /\ stages[t] = assembly.pc /\ s <= t
    BY <1>1 DEF Deck!Past
<1> HIDE DEF stages
<1> QED
    BY <1>2, <1>3, <1>4

LEMMA DeckDone == DeckInv => Deck!DeckAssembled
<1> SUFFICES ASSUME DeckInv
             PROVE  Deck!DeckAssembled
    OBVIOUS
<1> DEFINE d == assembly.deck
<1>1. Outlined /\ DeckStage /\ DeckBuilt
    BY DEF DeckInv
<1>2. /\ Deck!Past("expanded") => assembly.pc \in Built
      /\ Deck!Past("noted") => assembly.pc \in Built \ {"expanded"}
      /\ Deck!Past("backed") => assembly.pc \in {"backed", "inserting", "published"}
    BY <1>1, StagesPast DEF DeckStage
<1>3. \A i : Deck!View(i) = Shown(d[i])
    BY DEF Deck!View, Shown
<1>4. Deck!DeckIsOutline
    <2> SUFFICES ASSUME assembly.pc \in Built
                 PROVE  /\ {Deck!View(i) : i \in DOMAIN d} = Deck!Declared
                        /\ \A i, j \in DOMAIN d : i < j => Deck!Precedes(Deck!View(i), Deck!View(j))
        BY <1>2 DEF Deck!DeckIsOutline
    <2>1. Listing(d, Deck!Declared)
        BY <1>1 DEF DeckBuilt
    <2> HIDE DEF d
    <2> QED
        BY <1>3, <2>1 DEF Listing
<1>5. Deck!NotesInPlace
    <2> SUFFICES ASSUME assembly.pc \in Built \ {"expanded"}, NEW i \in DOMAIN d
                 PROVE  d[i].note = NoteOf(Deck!View(i))
        BY <1>2 DEF Deck!NotesInPlace, NoteOf
    <2>1. Noted(d[i])
        BY <1>1 DEF DeckBuilt
    <2> QED
        BY <1>3, <2>1 DEF Noted
<1>6. Deck!ArtInPlace
    <2> SUFFICES ASSUME assembly.pc \in {"backed", "inserting", "published"}, NEW i \in DOMAIN d,
                        d[i].title # None
                 PROVE  /\ d[i].bg = IF d[i].title \in Deck!Full THEN Deck!Image(d[i].title) ELSE None
                        /\ d[i].picture = IF d[i].title \in Deck!ImgTxt
                                          THEN Deck!Image(d[i].title) ELSE None
                        /\ d[i].scrim <=> Deck!Kind(d[i].title) = "zone"
        BY <1>2 DEF Deck!ArtInPlace
    <2>1. Dressed(d[i]) /\ Grounded(d[i])
        BY <1>1 DEF DeckBuilt, Built
    <2> QED
        BY <2>1 DEF Dressed, Grounded
<1> QED
    BY <1>4, <1>5, <1>6 DEF DeckInv, Deck!DeckAssembled

-----------------------------------------------------------------------------

DecksInv == tool = "deck" => DeckInv

LEMMA DecksStart == Init => DecksInv
BY DeckStarts DEF Init, DecksInv

LEMMA DecksMove == ASSUME DecksInv, [Next]_vars PROVE DecksInv'
<1>1. CASE UNCHANGED vars
    <2>1. tool' = tool /\ UNCHANGED deck_vars
        BY <1>1 DEF vars
    <2> QED
        BY <2>1, DeckMoves DEF DecksInv
<1>2. CASE Next
    <2>1. tool' = tool /\ (tool = "deck" => Deck!Next)
        BY <1>2 DEF Next
    <2> QED
        BY <2>1, DeckMoves DEF DecksInv
<1> QED
    BY <1>1, <1>2

(* The published deck is its outline: every entry or each of its frames once and in
   order, every note, image and background on the slide it was made for although the
   passes address slides by number, and one new code on the last slide and on the
   shownotes slide.  This is about BuildDeck, apply-illustrations-to-deck.py,
   build-expansion-manifest.py, ExpandBuilds, inject-notes, ApplyBackgrounds and
   generate-qr.py, for any finite set of numbers and any numbers of frames. *)
THEOREM DecksAreAssembled == Spec => []DeckAssembled
<1>1. Init => DecksInv
    BY DecksStart
<1>2. DecksInv /\ [Next]_vars => DecksInv'
    BY DecksMove
<1>3. DecksInv => DeckAssembled
    BY DeckDone DEF DecksInv, DeckAssembled
<1>4. Spec => [][Next]_vars
    BY PTL DEF Spec
<1>5. QED
    BY <1>1, <1>2, <1>3, <1>4, PTL DEF Spec
=============================================================================

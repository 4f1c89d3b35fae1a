--------------------------- MODULE PageTableProofs ---------------------------
(***************************************************************************)
(* The page tables answer what was asked for, for all depths, memories,    *)
(* page numbers and sequences of calls: the frames handed out form trees   *)
(* that share nothing, and a write changes one walk.                       *)
(***************************************************************************)
EXTENDS PageTable, DataInduction, TLAPS

-----------------------------------------------------------------------------
(* Walks through any contents of the memory. *)

\* Walk, through pages that hold pg.
Path(pg, t, v, i) ==
  LET at[j \in 0 .. i] ==
        IF j = 0 THEN t
        ELSE IF at[j - 1] = NO_MAPPING \/ ~pg[at[j - 1]][v[j]].valid
        THEN NO_MAPPING
        ELSE pg[at[j - 1]][v[j]].ppn
  IN  at[i]

\* One step of a walk.
Follow(pg, f, s) ==
  IF f = NO_MAPPING \/ ~pg[f][s].valid THEN NO_MAPPING ELSE pg[f][s].ppn

\* A function that walks i steps.
Walks(pg, t, v, i, g) ==
  g = [j \in 0 .. i |->
         IF j = 0 THEN t
         ELSE IF g[j - 1] = NO_MAPPING \/ ~pg[g[j - 1]][v[j]].valid
         THEN NO_MAPPING
         ELSE pg[g[j - 1]][v[j]].ppn]

LEMMA WalksStart ==
  ASSUME NEW pg, NEW t, NEW v, NEW i \in Nat, NEW g, Walks(pg, t, v, i, g)
  PROVE  g[0] = t
BY DEF Walks

LEMMA WalksStep ==
  ASSUME NEW pg, NEW t, NEW v, NEW i \in Nat, NEW g, Walks(pg, t, v, i, g),
         NEW j \in 1 .. i
  PROVE  g[j] = Follow(pg, g[j - 1], v[j])
<1>1. j \in 0 .. i /\ j # 0
  OBVIOUS
<1>2. g[j] = IF j = 0 THEN t
             ELSE IF g[j - 1] = NO_MAPPING \/ ~pg[g[j - 1]][v[j]].valid
             THEN NO_MAPPING
             ELSE pg[g[j - 1]][v[j]].ppn
  BY <1>1 DEF Walks
<1> QED
  BY <1>1, <1>2 DEF Follow

LEMMA WalksFold ==
  ASSUME NEW pg, NEW t, NEW v, NEW i \in Nat, NEW g,
         g = [j \in 0 .. i |-> g[j]],
         g[0] = t,
         \A j \in 1 .. i : g[j] = Follow(pg, g[j - 1], v[j])
  PROVE  Walks(pg, t, v, i, g)
<1> DEFINE h == [j \in 0 .. i |->
                   IF j = 0 THEN t
                   ELSE IF g[j - 1] = NO_MAPPING \/ ~pg[g[j - 1]][v[j]].valid
                   THEN NO_MAPPING
                   ELSE pg[g[j - 1]][v[j]].ppn]
<1>1. ASSUME NEW j \in 0 .. i PROVE h[j] = g[j]
  <2>1. CASE j = 0
    BY <2>1
  <2>2. CASE j \in 1 .. i
    BY <2>2 DEF Follow
  <2> QED
    BY <2>1, <2>2
<1>2. h = [j \in 0 .. i |-> h[j]]
  OBVIOUS
<1>3. Walks(pg, t, v, i, g) <=> g = h
  BY DEF Walks
<1> HIDE DEF h
<1> QED
  BY <1>1, <1>2, <1>3

LEMMA WalksExist ==
  ASSUME NEW pg, NEW t, NEW v, NEW i \in Nat
  PROVE  \E g : Walks(pg, t, v, i, g)
<1> DEFINE N == {n \in Nat : \E g : Walks(pg, t, v, n, g)}
<1>1. 0 \in N
  <2>1. Walks(pg, t, v, 0, [j \in 0 .. 0 |-> t])
    BY DEF Walks
  <2> QED
    BY <2>1
<1>2. ASSUME NEW n \in N PROVE n + 1 \in N
  <2>1. PICK g : Walks(pg, t, v, n, g)
    OBVIOUS
  <2> DEFINE h == [j \in 0 .. n + 1 |->
                     IF j \in 0 .. n THEN g[j] ELSE Follow(pg, g[n], v[j])]
  <2>2. g[0] = t /\ \A j \in 1 .. n : g[j] = Follow(pg, g[j - 1], v[j])
    BY <2>1, WalksStart, WalksStep
  <2>3. h = [j \in 0 .. n + 1 |-> h[j]] /\ h[0] = t
    BY <2>2
  <2>4. \A j \in 0 .. n : h[j] = g[j]
    OBVIOUS
  <2>5. h[n + 1] = Follow(pg, g[n], v[n + 1])
    OBVIOUS
  <2> HIDE DEF h
  <2>6. \A j \in 1 .. n + 1 : h[j] = Follow(pg, h[j - 1], v[j])
    BY <2>2, <2>4, <2>5
  <2>7. Walks(pg, t, v, n + 1, h)
    <3>1. n + 1 \in Nat
      OBVIOUS
    <3> QED
      BY <2>3, <2>6, <3>1, WalksFold
  <2> QED
    BY <2>7
<1>3. N = Nat
  <2> HIDE DEF N
  <2>1. N \subseteq Nat
    BY DEF N
  <2> QED
    BY <1>1, <1>2, <2>1, NatSetInduction
<1> QED
  BY <1>3

\* The value of a walk does not depend on how far it goes on.
LEMMA WalksAgree ==
  ASSUME NEW pg, NEW t, NEW v, NEW i \in Nat, NEW k \in Nat, k <= i,
         NEW g, Walks(pg, t, v, i, g), NEW h, Walks(pg, t, v, k, h)
  PROVE  g[k] = h[k]
<1> DEFINE N == {n \in Nat : n <= k => g[n] = h[n]}
<1>1. g[0] = t /\ \A j \in 1 .. i : g[j] = Follow(pg, g[j - 1], v[j])
  BY WalksStart, WalksStep
<1>2. h[0] = t /\ \A j \in 1 .. k : h[j] = Follow(pg, h[j - 1], v[j])
  BY WalksStart, WalksStep
<1>3. N = Nat
  <2>1. 0 \in N
    BY <1>1, <1>2
  <2>2. ASSUME NEW n \in N PROVE n + 1 \in N
    <3> SUFFICES ASSUME n + 1 <= k PROVE g[n + 1] = h[n + 1]
      OBVIOUS
    <3>1. n + 1 \in 1 .. k /\ n + 1 \in 1 .. i /\ (n + 1) - 1 = n /\ g[n] = h[n]
      OBVIOUS
    <3> QED
      BY <1>1, <1>2, <3>1
  <2>3. N \subseteq Nat
    OBVIOUS
  <2> HIDE DEF N
  <2> QED
    BY <2>1, <2>2, <2>3, NatSetInduction
<1> QED
  BY <1>3

\* A walk starts at the root, and follows one entry after the other.
LEMMA PathStart ==
  ASSUME NEW pg, NEW t, NEW v
  PROVE  Path(pg, t, v, 0) = t
<1> DEFINE at == CHOOSE g : Walks(pg, t, v, 0, g)
<1>1. Walks(pg, t, v, 0, at)
  BY WalksExist
<1>2. Path(pg, t, v, 0) = at[0]
  BY DEF Walks, Path
<1> HIDE DEF at
<1> QED
  BY <1>1, <1>2, WalksStart, WalksStep

LEMMA PathStep ==
  ASSUME NEW pg, NEW t, NEW v, NEW i \in Nat
  PROVE  Path(pg, t, v, i + 1) = Follow(pg, Path(pg, t, v, i), v[i + 1])
<1> DEFINE at(n) == CHOOSE g : Walks(pg, t, v, n, g)
<1>1. PICK k \in Nat : k = i + 1
  OBVIOUS
<1>2. Walks(pg, t, v, i, at(i)) /\ Walks(pg, t, v, k, at(k))
  BY WalksExist
<1>3. Path(pg, t, v, i) = at(i)[i] /\ Path(pg, t, v, k) = at(k)[k]
  BY DEF Walks, Path
<1> HIDE DEF at
<1>4. \A j \in 1 .. k : at(k)[j] = Follow(pg, at(k)[j - 1], v[j])
  BY <1>2, WalksStart, WalksStep
<1>5. at(k)[k] = Follow(pg, at(k)[i], v[k])
  BY <1>1, <1>4
<1>6. at(k)[i] = at(i)[i]
  <2>1. i <= k
    BY <1>1
  <2> QED
    BY <1>2, <2>1, WalksAgree
<1> QED
  BY <1>1, <1>3, <1>5, <1>6

\* The walks of the specification are those through the pages it has.
LEMMA WalkIsPath ==
  ASSUME NEW t, NEW v, NEW i
  PROVE  Walk(t, v, i) = Path(pages, t, v, i) /\ Walk(t, v, i)' = Path(pages', t, v, i)
BY DEF Walk, Path

\* A walk that has ended somewhere stays ended.
LEMMA PathEnds ==
  ASSUME NEW pg, NEW t, NEW v, NEW l \in Nat, Path(pg, t, v, l) = NO_MAPPING,
         NEW k \in Nat, l <= k
  PROVE  Path(pg, t, v, k) = NO_MAPPING
<1> DEFINE N == {n \in Nat : l <= n => Path(pg, t, v, n) = NO_MAPPING}
<1>1. 0 \in N
  OBVIOUS
<1>2. ASSUME NEW n \in N PROVE n + 1 \in N
  <2>1. Path(pg, t, v, n + 1) = Follow(pg, Path(pg, t, v, n), v[n + 1])
    BY PathStep
  <2> QED
    BY <2>1 DEF Follow
<1>3. N = Nat
  <2>1. N \subseteq Nat
    OBVIOUS
  <2> HIDE DEF N
  <2> QED
    BY <1>1, <1>2, <2>1, NatSetInduction
<1> QED
  BY <1>3

\* Page numbers with the same first symbols lead to the same node.
Agree(v, w, l) == \A i \in 1 .. l : v[i] = w[i]

LEMMA PathOfPrefix ==
  ASSUME NEW pg, NEW t, NEW v, NEW w, NEW l \in Nat, Agree(v, w, l)
  PROVE  Path(pg, t, v, l) = Path(pg, t, w, l)
<1> DEFINE N == {n \in Nat : n <= l => Path(pg, t, v, n) = Path(pg, t, w, n)}
<1>1. 0 \in N
  BY PathStart
<1>2. ASSUME NEW n \in N PROVE n + 1 \in N
  <2>1. /\ Path(pg, t, v, n + 1) = Follow(pg, Path(pg, t, v, n), v[n + 1])
        /\ Path(pg, t, w, n + 1) = Follow(pg, Path(pg, t, w, n), w[n + 1])
    BY PathStep
  <2>2. n + 1 <= l => v[n + 1] = w[n + 1]
    BY DEF Agree
  <2> QED
    BY <2>1, <2>2
<1>3. N = Nat
  <2>1. N \subseteq Nat
    OBVIOUS
  <2> HIDE DEF N
  <2> QED
    BY <1>1, <1>2, <2>1, NatSetInduction
<1> QED
  BY <1>3

\* A walk stays the same when the entries it passes do.
LEMMA PathKept ==
  ASSUME NEW pg, NEW qg, NEW t, NEW v, NEW l \in Nat,
         \A j \in 0 .. l - 1 :
           \/ Path(pg, t, v, j) = NO_MAPPING
           \/ qg[Path(pg, t, v, j)][v[j + 1]] = pg[Path(pg, t, v, j)][v[j + 1]]
  PROVE  Path(qg, t, v, l) = Path(pg, t, v, l)
<1> DEFINE N == {n \in Nat : n <= l => Path(qg, t, v, n) = Path(pg, t, v, n)}
<1>1. 0 \in N
  BY PathStart
<1>2. ASSUME NEW n \in N PROVE n + 1 \in N
  <2> SUFFICES ASSUME n + 1 <= l
               PROVE  Path(qg, t, v, n + 1) = Path(pg, t, v, n + 1)
    OBVIOUS
  <2>1. Path(qg, t, v, n) = Path(pg, t, v, n) /\ n \in 0 .. l - 1
    OBVIOUS
  <2>2. /\ Path(pg, t, v, n + 1) = Follow(pg, Path(pg, t, v, n), v[n + 1])
        /\ Path(qg, t, v, n + 1) = Follow(qg, Path(qg, t, v, n), v[n + 1])
    BY PathStep
  <2> QED
    BY <2>1, <2>2 DEF Follow
<1>3. N = Nat
  <2>1. N \subseteq Nat
    OBVIOUS
  <2> HIDE DEF N
  <2> QED
    BY <1>1, <1>2, <2>1, NatSetInduction
<1> QED
  BY <1>3

-----------------------------------------------------------------------------
(* The inductive invariant. *)

Inner == 0 .. Depth - 1

\* Where the first l symbols of v lead in the table t.
Spot(t, v, l) == Path(pages, t, v, l)

\* A walk leads to frames that have been handed out.
WithinMemory ==
  \A t \in tables, v \in Vpns, l \in Inner :
    Spot(t, v, l) \in (0 .. nalloc - 1) \cup {NO_MAPPING}

\* Two walks meet only when they belong to the same table and prefix.
Unshared ==
  \A t \in tables, u \in tables, v \in Vpns, w \in Vpns, l \in Inner, k \in Inner :
    Spot(t, v, l) = Spot(u, w, k) /\ Spot(t, v, l) # NO_MAPPING =>
      t = u /\ l = k /\ Agree(v, w, l)

\* Every frame that has been handed out is reached.
Reached ==
  \A f \in 0 .. nalloc - 1 : \E t \in tables, v \in Vpns, l \in Inner : Spot(t, v, l) = f

\* An entry above the last layer is valid or has never been written.
InnerEntries ==
  \A t \in tables, v \in Vpns, l \in Inner :
    LET e == pages[Spot(t, v, l)][v[l + 1]]
    IN  l < Depth - 1 /\ Spot(t, v, l) # NO_MAPPING => e.valid \/ e = Absent

\* A frame not handed out is blank, and nothing has been asked of it.
Blank ==
  \A f \in Frames : f >= nalloc =>
    /\ pages[f] = [s \in Symbols |-> Absent]
    /\ mapping[f] = [v \in Vpns |-> NO_MAPPING]

\* The running update stands where its page number leads.
UpdateOnPath ==
  layer > 0 => pt \in tables /\ node = Spot(pt, vpn, layer - 1)

\* What an entry keeps of a page number.
Kept(p) == IF p = NO_MAPPING THEN NO_MAPPING ELSE p % PpnSpan

\* Walks to the end find what an entry keeps of what was asked for.
Answers == \A t \in tables, v \in Vpns : Spot(t, v, Depth) = Kept(mapping[t][v])

Shape == WithinMemory /\ Unshared /\ Reached /\ InnerEntries /\ Blank /\ Answers

TreeInv == TypeOK /\ Shape /\ UpdateOnPath

\* What the assumptions and the types give.
LEMMA Basics ==
  ASSUME TypeOK
  PROVE  /\ Depth \in Nat \ {0} /\ NPAGES \in Nat /\ NO_MAPPING \notin Nat
         /\ nalloc \in 0 .. NPAGES /\ 0 .. nalloc - 1 \subseteq Frames
         /\ tables \subseteq 0 .. nalloc - 1
         /\ \A v \in Vpns : v \in [1 .. Depth -> Symbols]
         /\ vpn \in Vpns /\ layer \in -1 .. Depth
         /\ layer > 0 => node \in 0 .. nalloc - 1
         /\ \A l \in Inner : l \in Nat /\ l + 1 \in 1 .. Depth
<1>1. /\ nalloc \in 0 .. NPAGES /\ tables \subseteq 0 .. nalloc - 1
      /\ vpn \in Vpns /\ layer \in -1 .. Depth /\ (layer > 0 => node \in 0 .. nalloc - 1)
  BY DEF TypeOK
<1>2. Depth \in Nat \ {0} /\ NPAGES \in Nat /\ NO_MAPPING \notin Nat
  BY PageTableAssumption
<1>3. \A v \in Vpns : v \in [1 .. Depth -> Symbols]
  BY PageTableAssumption
<1>4. 0 .. nalloc - 1 \subseteq Frames
  BY <1>1, <1>2 DEF Frames
<1>5. \A l \in Inner : l \in Nat /\ l + 1 \in 1 .. Depth
  BY <1>2 DEF Inner
<1> QED
  BY <1>1, <1>2, <1>3, <1>4, <1>5

-----------------------------------------------------------------------------
(* What one write changes. *)

\* Where the first l symbols of v lead in the table t after the step.
NewSpot(t, v, l) == Path(pages', t, v, l)

\* The entry under the running update is the only one that changes.
OneEntry ==
  \A f \in Frames, s \in Symbols :
    ~(f = node /\ s = vpn[layer]) => pages'[f][s] = pages[f][s]

\* Walks that do not pass the entry stay.
LEMMA WriteKeeps ==
  ASSUME TreeInv, layer \in 1 .. Depth, OneEntry,
         NEW t \in tables, NEW v \in Vpns, NEW l \in 0 .. Depth,
         ~(t = pt /\ layer <= l /\ Agree(v, vpn, layer))
  PROVE  NewSpot(t, v, l) = Spot(t, v, l)
<1>1. TypeOK
  BY DEF TreeInv
<1>2. ASSUME NEW j \in 0 .. l - 1, Spot(t, v, j) # NO_MAPPING
      PROVE  pages'[Spot(t, v, j)][v[j + 1]] = pages[Spot(t, v, j)][v[j + 1]]
  <2>1. j \in Inner /\ layer - 1 \in Inner /\ layer > 0
    BY <1>1, Basics DEF Inner
  <2>2. Spot(t, v, j) \in Frames /\ v[j + 1] \in Symbols
    BY <1>1, <1>2, <2>1, Basics DEF TreeInv, Shape, WithinMemory
  <2>3. pt \in tables /\ node = Spot(pt, vpn, layer - 1) /\ vpn \in Vpns
    BY <1>1, <2>1, Basics DEF TreeInv, UpdateOnPath
  <2>4. ASSUME Spot(t, v, j) = node, v[j + 1] = vpn[layer] PROVE FALSE
    <3>1. t = pt /\ j = layer - 1 /\ Agree(v, vpn, j)
      BY <1>2, <2>1, <2>3, <2>4 DEF TreeInv, Shape, Unshared
    <3>2. Agree(v, vpn, layer) /\ layer <= l
      BY <2>4, <3>1 DEF Agree
    <3> QED
      BY <3>1, <3>2
  <2> QED
    BY <2>2, <2>4 DEF OneEntry
<1>3. l \in Nat
  OBVIOUS
<1> QED
  BY <1>2, <1>3, PathKept DEF Spot, NewSpot

\* Walks that pass it lead where it says.
LEMMA WriteLeads ==
  ASSUME TreeInv, layer \in 1 .. Depth, OneEntry,
         NEW v \in Vpns, Agree(v, vpn, layer)
  PROVE  NewSpot(pt, v, layer) = Follow(pages', node, vpn[layer])
<1>1. PICK i \in Nat : i = layer - 1
  OBVIOUS
<1>2. layer > 0 /\ i \in 0 .. Depth /\ ~(layer <= i) /\ layer = i + 1
  BY <1>1, PageTableAssumption
<1>3. pt \in tables /\ node = Spot(pt, vpn, i)
  BY <1>1, <1>2 DEF TreeInv, UpdateOnPath
<1>4. NewSpot(pt, v, i) = Spot(pt, v, i)
  BY <1>2, <1>3, WriteKeeps
<1>5. Agree(v, vpn, i) /\ v[layer] = vpn[layer]
  BY <1>2 DEF Agree
<1>6. Spot(pt, v, i) = node
  BY <1>3, <1>5, PathOfPrefix DEF Spot
<1>7. Path(pages', pt, v, i + 1) = Follow(pages', Path(pages', pt, v, i), v[i + 1])
  BY PathStep
<1> QED
  BY <1>2, <1>4, <1>5, <1>6, <1>7 DEF NewSpot

-----------------------------------------------------------------------------
(* What the steps do to the trees. *)

\* The parts that a step keeps when it writes and allocates nothing.
LEMMA ShapeKept ==
  ASSUME Shape, UNCHANGED <<nalloc, pages, tables, mapping>>
  PROVE  Shape'
<1>1. \A t, v, l : Spot(t, v, l)' = Spot(t, v, l)
  BY DEF Spot
<1>2. WithinMemory' /\ Unshared'
  BY <1>1 DEF Shape, WithinMemory, Unshared
<1>3. Reached' /\ InnerEntries'
  BY <1>1 DEF Shape, Reached, InnerEntries
<1>4. Blank' /\ Answers'
  BY <1>1 DEF Shape, Blank, Answers
<1> QED
  BY <1>2, <1>3, <1>4 DEF Shape

\* A blank frame leads nowhere.
LEMMA BlankLeadsNowhere ==
  ASSUME NEW pg, NEW t, NEW v, NEW l \in Nat, NEW f,
         Path(pg, t, v, l) = f, v[l + 1] \in Symbols,
         pg[f] = [s \in Symbols |-> Absent],
         NEW k \in Nat, l < k
  PROVE  Path(pg, t, v, k) = NO_MAPPING
<1>1. PICK i \in Nat : i = l + 1
  OBVIOUS
<1>2. Path(pg, t, v, i) = NO_MAPPING
  BY <1>1, PathStep DEF Follow, Absent
<1> QED
  BY <1>1, <1>2, PathEnds

LEMMA NewTableShape ==
  ASSUME TreeInv, NewTable
  PROVE  Shape'
<1>1. TypeOK /\ Shape
  BY DEF TreeInv
<1>2. /\ tables' = tables \cup {nalloc} /\ nalloc' = nalloc + 1 /\ nalloc # NPAGES
      /\ UNCHANGED <<pages, mapping>>
  BY DEF NewTable, FrameLeft
<1>3. nalloc \in Frames /\ nalloc \in Nat /\ Depth \in Nat \ {0} /\ nalloc # NO_MAPPING
  BY <1>1, <1>2, Basics DEF Frames
<1>4. \A t, v, l : Spot(t, v, l)' = Spot(t, v, l)
  BY <1>2 DEF Spot
<1>5. \A v \in Vpns : Spot(nalloc, v, 0) = nalloc
  BY PathStart DEF Spot
<1>6. /\ pages[nalloc] = [s \in Symbols |-> Absent]
      /\ mapping[nalloc] = [v \in Vpns |-> NO_MAPPING]
  BY <1>1, <1>3 DEF Shape, Blank
<1>7. ASSUME NEW v \in Vpns, NEW l \in 1 .. Depth PROVE Spot(nalloc, v, l) = NO_MAPPING
  <2>1. v[1] \in Symbols
    BY <1>1, <1>3, Basics
  <2>2. Path(pages, nalloc, v, 0) = nalloc
    BY PathStart
  <2>3. l \in Nat /\ 0 < l /\ 0 + 1 = 1
    BY <1>3
  <2> QED
    BY <1>6, <2>1, <2>2, <2>3, BlankLeadsNowhere DEF Spot
<1>8. Inner \ {0} \subseteq 1 .. Depth /\ 0 \in Inner /\ Depth \in 1 .. Depth
  BY <1>3 DEF Inner
<1>9. \A t \in tables, v \in Vpns, l \in Inner : Spot(t, v, l) # nalloc /\ t # nalloc
  BY <1>1, <1>3, Basics DEF Shape, WithinMemory
<1>10. WithinMemory'
  BY <1>1, <1>2, <1>3, <1>4, <1>5, <1>7, <1>8 DEF Shape, WithinMemory
<1>11. Unshared'
  <2> SUFFICES ASSUME NEW t \in tables', NEW u \in tables', NEW v \in Vpns, NEW w \in Vpns,
                      NEW l \in Inner, NEW k \in Inner,
                      Spot(t, v, l) = Spot(u, w, k), Spot(t, v, l) # NO_MAPPING
               PROVE  t = u /\ l = k /\ Agree(v, w, l)
    BY <1>4 DEF Unshared
  <2>1. CASE t \in tables /\ u \in tables
    BY <1>1, <2>1 DEF Shape, Unshared
  <2>2. CASE t = nalloc \/ u = nalloc
    <3>1. t = nalloc /\ u = nalloc
      BY <1>2, <1>5, <1>7, <1>8, <1>9, <2>2
    <3>2. l = 0 /\ k = 0
      BY <1>7, <1>8, <3>1
    <3> QED
      BY <3>1, <3>2 DEF Agree
  <2> QED
    BY <1>2, <2>1, <2>2
<1>12. Reached'
  <2> SUFFICES ASSUME NEW f \in 0 .. nalloc
               PROVE  \E t \in tables', v \in Vpns, l \in Inner : Spot(t, v, l) = f
    BY <1>2, <1>3, <1>4 DEF Reached
  <2>1. CASE f = nalloc
    BY <1>1, <1>2, <1>5, <1>8, <2>1, Basics
  <2>2. CASE f \in 0 .. nalloc - 1
    BY <1>1, <1>2, <2>2 DEF Shape, Reached
  <2> QED
    BY <1>3, <2>1, <2>2
<1>13. InnerEntries'
  <2> SUFFICES ASSUME NEW t \in tables', NEW v \in Vpns, NEW l \in Inner,
                      l < Depth - 1, Spot(t, v, l) # NO_MAPPING
               PROVE  \/ pages[Spot(t, v, l)][v[l + 1]].valid
                      \/ pages[Spot(t, v, l)][v[l + 1]] = Absent
    BY <1>2, <1>4 DEF InnerEntries
  <2>1. CASE t \in tables
    BY <1>1, <2>1 DEF Shape, InnerEntries
  <2>2. CASE t = nalloc
    <3>1. l = 0 /\ Spot(t, v, l) = nalloc
      BY <1>5, <1>7, <1>8, <2>2
    <3>2. v[l + 1] \in Symbols
      BY <1>1, Basics
    <3> QED
      BY <1>6, <3>1, <3>2
  <2> QED
    BY <1>2, <2>1, <2>2
<1>14. Blank'
  BY <1>1, <1>2, <1>3 DEF Shape, Blank, Frames
<1>15. Answers'
  BY <1>1, <1>2, <1>4, <1>6, <1>7, <1>8 DEF Shape, Answers, Kept
<1> QED
  BY <1>10, <1>11, <1>12, <1>13, <1>14, <1>15 DEF Shape

\* Allocating a node changes one walk for each page number with the prefix: it now
\* ends in the new frame.
LEMMA AllocateMoves ==
  ASSUME TreeInv, AllocateNode, NEW t \in tables, NEW v \in Vpns, NEW l \in 0 .. Depth
  PROVE  /\ t = pt /\ l = layer /\ Agree(v, vpn, layer) =>
              NewSpot(t, v, l) = nalloc /\ Spot(t, v, l) = NO_MAPPING
         /\ ~(t = pt /\ l = layer /\ Agree(v, vpn, layer)) =>
              NewSpot(t, v, l) = Spot(t, v, l)
<1>1. TypeOK /\ Shape
  BY DEF TreeInv
<1>2. /\ Depth \in Nat /\ layer \in 1 .. Depth /\ layer \in 1 .. Depth - 1 /\ Pte = Absent /\ nalloc # NPAGES
      /\ pages' = [pages EXCEPT ![node][vpn[layer]] = [ppn |-> nalloc, valid |-> TRUE]]
  BY <1>1, Basics DEF AllocateNode, NodeMissing, FrameLeft
<1>3. /\ node \in Frames /\ vpn[layer] \in Symbols /\ nalloc \in Frames
      /\ nalloc # NO_MAPPING /\ nalloc # node
  BY <1>1, <1>2, Basics DEF Frames
<1>4. pages \in [Frames -> [Symbols -> [ppn : 0 .. PpnSpan - 1, valid : BOOLEAN]]]
  BY <1>1 DEF TypeOK
<1>5. /\ OneEntry
      /\ pages'[node][vpn[layer]] = [ppn |-> nalloc, valid |-> TRUE]
      /\ pages'[nalloc] = pages[nalloc]
  BY <1>2, <1>3, <1>4 DEF OneEntry
<1>6. CASE ~(t = pt /\ layer <= l /\ Agree(v, vpn, layer))
  BY <1>2, <1>5, <1>6, WriteKeeps
<1>7. CASE t = pt /\ layer <= l /\ Agree(v, vpn, layer)
  <2>1. NewSpot(t, v, layer) = nalloc
    <3>1. NewSpot(t, v, layer) = Follow(pages', node, vpn[layer])
      BY <1>2, <1>5, <1>7, WriteLeads
    <3>2. node # NO_MAPPING
      BY <1>3, Basics, <1>1 DEF Frames
    <3> QED
      BY <1>5, <3>1, <3>2 DEF Follow
  <2>2. Spot(t, v, layer) = NO_MAPPING
    <3>1. PICK i \in Nat : layer = i + 1
      <4>1. layer - 1 \in Nat /\ layer = (layer - 1) + 1
        BY <1>2
      <4> QED
        BY <4>1
    <3>2. node = Path(pages, t, vpn, i)
      BY <1>2, <1>7, <3>1 DEF TreeInv, UpdateOnPath, Spot
    <3>3. Path(pages, t, vpn, layer) = NO_MAPPING
      BY <1>2, <3>1, <3>2, PathStep DEF Follow, Pte, Absent
    <3> QED
      BY <1>2, <1>7, <3>3, PathOfPrefix DEF Spot
  <2>3. ASSUME layer < l PROVE NewSpot(t, v, l) = Spot(t, v, l)
    <3>1. layer \in Nat /\ l \in Nat /\ layer + 1 \in 1 .. Depth
      BY <1>2
    <3>2. Spot(t, v, l) = NO_MAPPING
      BY <2>2, <2>3, <3>1, PathEnds DEF Spot
    <3>3. pages'[nalloc] = [s \in Symbols |-> Absent]
      BY <1>1, <1>3, <1>5 DEF Shape, Blank, Frames
    <3>4. v[layer + 1] \in Symbols
      BY <1>1, <3>1, Basics
    <3>5. NewSpot(t, v, l) = NO_MAPPING
      BY <2>1, <2>3, <3>1, <3>3, <3>4, BlankLeadsNowhere DEF NewSpot
    <3> QED
      BY <3>2, <3>5
  <2> QED
    BY <1>2, <1>7, <2>1, <2>2, <2>3
<1> QED
  BY <1>2, <1>6, <1>7

LEMMA AllocateShape ==
  ASSUME TreeInv, AllocateNode
  PROVE  Shape'
<1>1. TypeOK /\ Shape
  BY DEF TreeInv
<1>2. /\ layer \in 1 .. Depth - 1 /\ nalloc # NPAGES
      /\ pages' = [pages EXCEPT ![node][vpn[layer]] = [ppn |-> nalloc, valid |-> TRUE]]
      /\ nalloc' = nalloc + 1 /\ UNCHANGED <<tables, mapping>>
  BY DEF AllocateNode, FrameLeft
<1>3. /\ node \in Frames /\ vpn \in Vpns /\ vpn[layer] \in Symbols /\ nalloc \in Frames
      /\ nalloc # NO_MAPPING /\ node < nalloc /\ layer \in Inner /\ Depth \in Nat \ {0}
      /\ Inner \subseteq 0 .. Depth /\ nalloc \in Nat /\ node \in Nat
  BY <1>1, <1>2, Basics DEF Frames, Inner
<1>4. pages \in [Frames -> [Symbols -> [ppn : 0 .. PpnSpan - 1, valid : BOOLEAN]]]
  BY <1>1 DEF TypeOK
<1>5. /\ OneEntry
      /\ pages'[node][vpn[layer]] = [ppn |-> nalloc, valid |-> TRUE]
      /\ \A f \in Frames : f >= nalloc => pages'[f] = pages[f]
  BY <1>2, <1>3, <1>4 DEF OneEntry
<1>6. \A t, v, l : Spot(t, v, l)' = NewSpot(t, v, l)
  BY DEF Spot, NewSpot
<1>7. pt \in tables
  BY <1>2 DEF TreeInv, UpdateOnPath
<1> DEFINE Moved(t, v, l) == t = pt /\ l = layer /\ Agree(v, vpn, layer)
<1>8. \A t \in tables, v \in Vpns, l \in 0 .. Depth :
        /\ Moved(t, v, l) => NewSpot(t, v, l) = nalloc /\ Spot(t, v, l) = NO_MAPPING
        /\ ~Moved(t, v, l) => NewSpot(t, v, l) = Spot(t, v, l)
  BY AllocateMoves
<1>9. \A t \in tables, v \in Vpns, l \in Inner :
        Spot(t, v, l) \in (0 .. nalloc - 1) \cup {NO_MAPPING} /\ Spot(t, v, l) # nalloc
  BY <1>1, <1>3 DEF Shape, WithinMemory
<1>10. WithinMemory'
  <2> HIDE DEF Moved
  <2> QED
    BY <1>2, <1>3, <1>6, <1>8, <1>9 DEF WithinMemory
<1>11. Unshared'
  <2> SUFFICES ASSUME NEW t \in tables, NEW u \in tables, NEW v \in Vpns, NEW w \in Vpns,
                      NEW l \in Inner, NEW k \in Inner,
                      NewSpot(t, v, l) = NewSpot(u, w, k), NewSpot(t, v, l) # NO_MAPPING
               PROVE  t = u /\ l = k /\ Agree(v, w, l)
    BY <1>2, <1>6 DEF Unshared
  <2>1. l \in 0 .. Depth /\ k \in 0 .. Depth
    BY <1>3
  <2>2. CASE Moved(t, v, l) /\ Moved(u, w, k)
    BY <2>2 DEF Agree
  <2>3. CASE ~Moved(t, v, l) /\ ~Moved(u, w, k)
    <3> HIDE DEF Moved
    <3> QED
      BY <1>1, <1>8, <2>1, <2>3 DEF Shape, Unshared
  <2>4. CASE ~(Moved(t, v, l) <=> Moved(u, w, k))
    <3> HIDE DEF Moved
    <3> QED
      BY <1>8, <1>9, <2>1, <2>4
  <2> QED
    BY <2>2, <2>3, <2>4
<1>12. Reached'
  <2> SUFFICES ASSUME NEW f \in 0 .. nalloc
               PROVE  \E t \in tables, v \in Vpns, l \in Inner : NewSpot(t, v, l) = f
    BY <1>2, <1>3, <1>6 DEF Reached
  <2>1. CASE f = nalloc
    <3>1. Moved(pt, vpn, layer)
      BY DEF Agree
    <3> HIDE DEF Moved
    <3> QED
      BY <1>3, <1>7, <1>8, <2>1, <3>1
  <2>2. CASE f \in 0 .. nalloc - 1
    <3>1. PICK t \in tables, v \in Vpns, l \in Inner : Spot(t, v, l) = f
      BY <1>1, <2>2 DEF Shape, Reached
    <3>2. f # NO_MAPPING /\ l \in 0 .. Depth
      BY <1>1, <1>3, Basics
    <3> HIDE DEF Moved
    <3> QED
      BY <1>8, <3>1, <3>2
  <2> QED
    BY <1>3, <2>1, <2>2
<1>13. InnerEntries'
  <2> SUFFICES ASSUME NEW t \in tables, NEW v \in Vpns, NEW l \in Inner,
                      l < Depth - 1, NewSpot(t, v, l) # NO_MAPPING
               PROVE  \/ pages'[NewSpot(t, v, l)][v[l + 1]].valid
                      \/ pages'[NewSpot(t, v, l)][v[l + 1]] = Absent
    BY <1>2, <1>6 DEF InnerEntries
  <2>1. l \in 0 .. Depth /\ v[l + 1] \in Symbols
    BY <1>1, <1>3, Basics
  <2>2. CASE Moved(t, v, l)
    <3>1. NewSpot(t, v, l) = nalloc
      BY <1>8, <2>1, <2>2
    <3>2. pages'[nalloc] = [s \in Symbols |-> Absent]
      BY <1>1, <1>3, <1>5 DEF Shape, Blank
    <3> QED
      BY <2>1, <3>1, <3>2
  <2>3. CASE ~Moved(t, v, l)
    <3> HIDE DEF Moved
    <3>1. NewSpot(t, v, l) = Spot(t, v, l) /\ Spot(t, v, l) \in Frames
      BY <1>1, <1>8, <1>9, <2>1, <2>3, Basics
    <3>2. \/ pages[Spot(t, v, l)][v[l + 1]].valid
          \/ pages[Spot(t, v, l)][v[l + 1]] = Absent
      BY <1>1, <3>1 DEF Shape, InnerEntries
    <3>3. CASE Spot(t, v, l) = node /\ v[l + 1] = vpn[layer]
      BY <1>5, <3>1, <3>3
    <3>4. CASE ~(Spot(t, v, l) = node /\ v[l + 1] = vpn[layer])
      BY <1>5, <2>1, <3>1, <3>2, <3>4 DEF OneEntry
    <3> QED
      BY <3>3, <3>4
  <2> QED
    BY <2>2, <2>3
<1>14. Blank'
  BY <1>1, <1>2, <1>3, <1>5 DEF Shape, Blank, Frames
<1>15. Answers'
  <2>1. Depth \in 0 .. Depth /\ \A t, v : ~Moved(t, v, Depth)
    BY <1>2, <1>3
  <2> HIDE DEF Moved
  <2> QED
    BY <1>1, <1>2, <1>6, <1>8, <2>1 DEF Shape, Answers
<1> QED
  BY <1>10, <1>11, <1>12, <1>13, <1>14, <1>15 DEF Shape

\* Installing a mapping changes the end of one walk.
LEMMA InstallMoves ==
  ASSUME TreeInv, Install
  PROVE  /\ OneEntry
         /\ \A t \in tables, v \in Vpns, l \in Inner : NewSpot(t, v, l) = Spot(t, v, l)
         /\ \A t \in tables, v \in Vpns :
              NewSpot(t, v, Depth) = IF t = pt /\ v = vpn
                                     THEN IF ppn = NO_MAPPING THEN NO_MAPPING
                                                              ELSE ppn % PpnSpan
                                     ELSE Spot(t, v, Depth)
<1>1. TypeOK
  BY DEF TreeInv
<1>2. /\ layer = Depth /\ Depth \in Nat \ {0} /\ layer \in 1 .. Depth
      /\ node \in Frames /\ node # NO_MAPPING /\ vpn \in Vpns /\ vpn[layer] \in Symbols
  BY <1>1, Basics DEF Install, Frames
<1>3. /\ pages \in [Frames -> [Symbols -> [ppn : 0 .. PpnSpan - 1, valid : BOOLEAN]]]
      /\ pages' = [pages EXCEPT ![node][vpn[layer]] =
           IF ppn = NO_MAPPING THEN Invalid(@)
                               ELSE [ppn |-> ppn % PpnSpan, valid |-> TRUE]]
  BY <1>1 DEF TypeOK, Install
<1>4. OneEntry
  BY <1>2, <1>3 DEF OneEntry
<1>5. pages'[node][vpn[layer]] = IF ppn = NO_MAPPING THEN Invalid(pages[node][vpn[layer]])
                                 ELSE [ppn |-> ppn % PpnSpan, valid |-> TRUE]
  BY <1>2, <1>3
<1>6. Follow(pages', node, vpn[layer])
        = IF ppn = NO_MAPPING THEN NO_MAPPING ELSE ppn % PpnSpan
  <2>1. pages[node][vpn[layer]] \in [ppn : 0 .. PpnSpan - 1, valid : BOOLEAN]
    BY <1>2, <1>3
  <2> QED
    BY <1>2, <1>5, <2>1 DEF Follow, Invalid
<1>7. ASSUME NEW t \in tables, NEW v \in Vpns, NEW l \in Inner
      PROVE  NewSpot(t, v, l) = Spot(t, v, l)
  <2>1. l \in 0 .. Depth /\ ~(layer <= l)
    BY <1>2 DEF Inner
  <2> QED
    BY <1>2, <1>4, <2>1, WriteKeeps
<1>8. ASSUME NEW t \in tables, NEW v \in Vpns
      PROVE  NewSpot(t, v, Depth) = IF t = pt /\ v = vpn
                                    THEN IF ppn = NO_MAPPING THEN NO_MAPPING
                                                             ELSE ppn % PpnSpan
                                    ELSE Spot(t, v, Depth)
  <2>1. Agree(v, vpn, layer) <=> v = vpn
    <3>1. v \in [1 .. Depth -> Symbols] /\ vpn \in [1 .. Depth -> Symbols]
      BY <1>1, Basics
    <3> QED
      BY <1>2, <3>1 DEF Agree
  <2>2. CASE t = pt /\ v = vpn
    BY <1>2, <1>4, <1>6, <2>1, <2>2, WriteLeads
  <2>3. CASE ~(t = pt /\ v = vpn)
    <3>1. Depth \in 0 .. Depth
      BY <1>2
    <3> QED
      BY <1>2, <1>4, <2>1, <2>3, <3>1, WriteKeeps
  <2> QED
    BY <2>2, <2>3
<1> QED
  BY <1>4, <1>7, <1>8

LEMMA InstallShape ==
  ASSUME TreeInv, Install
  PROVE  Shape'
<1>1. TypeOK /\ Shape
  BY DEF TreeInv
<1>2. /\ layer = Depth /\ Depth \in Nat \ {0} /\ node < nalloc /\ node \in Nat
      /\ vpn \in Vpns /\ Depth - 1 \in Inner /\ nalloc \in Nat
      /\ UNCHANGED <<nalloc, tables>>
  BY <1>1, Basics DEF Install, Inner
<1>3. /\ pt \in tables /\ node = Spot(pt, vpn, Depth - 1) /\ node # NO_MAPPING
      /\ tables \subseteq Frames
  BY <1>1, <1>2, Basics DEF TreeInv, UpdateOnPath
<1>4. \A t, v, l : Spot(t, v, l)' = NewSpot(t, v, l)
  BY DEF Spot, NewSpot
<1>5. /\ OneEntry
      /\ \A t \in tables, v \in Vpns, l \in Inner : NewSpot(t, v, l) = Spot(t, v, l)
  BY InstallMoves
<1>6. WithinMemory' /\ Unshared'
  BY <1>1, <1>2, <1>4, <1>5 DEF Shape, WithinMemory, Unshared
<1>7. Reached'
  BY <1>1, <1>2, <1>4, <1>5 DEF Shape, Reached
<1>8. InnerEntries'
  <2> SUFFICES ASSUME NEW t \in tables, NEW v \in Vpns, NEW l \in Inner,
                      l < Depth - 1, Spot(t, v, l) # NO_MAPPING
               PROVE  \/ pages'[Spot(t, v, l)][v[l + 1]].valid
                      \/ pages'[Spot(t, v, l)][v[l + 1]] = Absent
    BY <1>2, <1>4, <1>5 DEF InnerEntries
  <2>1. Spot(t, v, l) \in Frames /\ v[l + 1] \in Symbols
    BY <1>1, Basics DEF Shape, WithinMemory
  <2>2. Spot(t, v, l) # node
    <3>1. l # Depth - 1
      BY <1>2, Basics, <1>1
    <3> QED
      BY <1>1, <1>2, <1>3, <3>1 DEF Shape, Unshared
  <2>3. pages'[Spot(t, v, l)][v[l + 1]] = pages[Spot(t, v, l)][v[l + 1]]
    BY <1>5, <2>1, <2>2 DEF OneEntry
  <2> QED
    BY <1>1, <2>3 DEF Shape, InnerEntries
<1>9. \A f \in Frames : f >= nalloc => pages'[f] = pages[f] /\ mapping'[f] = mapping[f]
  <2>1. pages \in [Frames -> [Symbols -> [ppn : 0 .. PpnSpan - 1, valid : BOOLEAN]]]
    BY <1>1 DEF TypeOK
  <2>2. mapping \in [Frames -> [Vpns -> Ppns \cup {NO_MAPPING}]]
    BY <1>1 DEF TypeOK
  <2>3. pt < nalloc
    BY <1>1, <1>2, <1>3, Basics
  <2>4. \A f \in Frames : f >= nalloc => f # node /\ f # pt
    BY <1>2, <2>3, Basics, <1>1 DEF Frames
  <2> QED
    BY <2>1, <2>2, <2>4 DEF Install
<1>10. Blank'
  BY <1>1, <1>2, <1>9 DEF Shape, Blank
<1>11. Answers'
  <2> SUFFICES ASSUME NEW t \in tables, NEW v \in Vpns
               PROVE  NewSpot(t, v, Depth) = Kept(mapping'[t][v])
    BY <1>2, <1>4 DEF Answers
  <2>1. mapping'[t][v] = IF t = pt /\ v = vpn THEN ppn ELSE mapping[t][v]
    <3>1. mapping \in [Frames -> [Vpns -> Ppns \cup {NO_MAPPING}]]
      BY <1>1 DEF TypeOK
    <3> QED
      BY <1>2, <1>3, <3>1 DEF Install
  <2> QED
    BY <1>1, <2>1, InstallMoves DEF Shape, Answers, Kept
<1> QED
  BY <1>6, <1>7, <1>8, <1>10, <1>11 DEF Shape

-----------------------------------------------------------------------------
(* The invariant is inductive. *)

LEMMA TypeNext == TreeInv /\ [Next]_vars => TypeOK'
<1> SUFFICES ASSUME TreeInv, [Next]_vars PROVE TypeOK'
  OBVIOUS
<1>1. TypeOK /\ Shape
  BY DEF TreeInv
<1>2. /\ pages \in [Frames -> [Symbols -> [ppn : 0 .. PpnSpan - 1, valid : BOOLEAN]]]
      /\ mapping \in [Frames -> [Vpns -> Ppns \cup {NO_MAPPING}]]
      /\ nalloc \in 0 .. NPAGES /\ tables \subseteq 0 .. nalloc - 1
      /\ layer \in -1 .. Depth /\ (layer > 0 => node \in 0 .. nalloc - 1)
      /\ pt \in Nat /\ vpn \in Vpns /\ ppn \in Ppns \cup {NO_MAPPING}
  BY <1>1 DEF TypeOK
<1>3. /\ Depth \in Nat \ {0} /\ NPAGES \in Nat /\ PpnSpan \in Nat /\ PpnSpan > NPAGES
      /\ Ppns \subseteq Nat
  BY PageTableAssumption
<1>4. CASE NewTable
  <2>1. nalloc' \in 0 .. NPAGES /\ tables' \subseteq 0 .. nalloc' - 1
    BY <1>2, <1>3, <1>4 DEF NewTable, FrameLeft
  <2>2. /\ layer' \in -1 .. Depth /\ ~(layer' > 0)
        /\ UNCHANGED <<pages, pt, vpn, ppn, mapping>>
    BY <1>2, <1>4 DEF NewTable, call
  <2> QED
    BY <1>2, <2>1, <2>2 DEF TypeOK
<1>5. ASSUME NEW t \in tables, NEW v \in Vpns, NEW p \in Ppns \cup {NO_MAPPING},
             Update(t, v, p)
      PROVE  TypeOK'
  <2>1. /\ layer' = 1 /\ node' = t /\ pt' = t /\ vpn' = v /\ ppn' = p
        /\ UNCHANGED <<nalloc, pages, tables, mapping>>
    BY <1>5 DEF Update
  <2>2. 1 \in -1 .. Depth /\ t \in 0 .. nalloc - 1 /\ t \in Nat
    BY <1>2, <1>3
  <2> QED
    BY <1>2, <2>1, <2>2 DEF TypeOK
<1>6. CASE FollowEntry
  <2>1. /\ layer \in 1 .. Depth - 1 /\ layer' = layer + 1 /\ node' = Pte.ppn
        /\ Pte # Absent
        /\ UNCHANGED <<nalloc, pages, tables, pt, vpn, ppn, mapping>>
    BY <1>6 DEF FollowEntry, NodeMissing, call
  <2>2. layer' \in -1 .. Depth
    BY <1>3, <2>1
  <2>3. PICK i \in Nat : layer = i + 1
    <3>1. layer - 1 \in Nat /\ layer = (layer - 1) + 1
      BY <1>3, <2>1
    <3> QED
      BY <3>1
  <2>4. /\ i \in Inner /\ layer \in Inner /\ i < Depth - 1 /\ layer > 0
        /\ node \in Nat /\ node # NO_MAPPING /\ pt \in tables /\ node = Spot(pt, vpn, i)
    BY <1>1, <1>2, <1>3, <2>1, <2>3, Basics DEF Inner, TreeInv, UpdateOnPath
  <2>5. Pte.valid
    BY <1>1, <1>2, <2>1, <2>3, <2>4 DEF Shape, InnerEntries, Pte
  <2>6. Spot(pt, vpn, layer) = Pte.ppn
    BY <2>3, <2>4, <2>5, PathStep DEF Spot, Follow, Pte
  <2>7. Pte.ppn \in Nat
    <3>1. node \in Frames /\ vpn[layer] \in Symbols
      BY <1>1, <2>1, <2>4, <1>3, Basics
    <3> QED
      BY <1>2, <1>3, <3>1 DEF Pte
  <2>8. node' \in 0 .. nalloc - 1
    BY <1>1, <1>2, <2>1, <2>4, <2>6, <2>7, Basics DEF Shape, WithinMemory
  <2> QED
    BY <1>2, <2>1, <2>2, <2>8 DEF TypeOK
<1>7. CASE AllocateNode
  <2>1. /\ layer \in 1 .. Depth - 1 /\ nalloc # NPAGES
        /\ pages' = [pages EXCEPT ![node][vpn[layer]] = [ppn |-> nalloc, valid |-> TRUE]]
        /\ node' = nalloc /\ nalloc' = nalloc + 1 /\ layer' = layer + 1
        /\ UNCHANGED <<tables, pt, vpn, ppn, mapping>>
    BY <1>7 DEF AllocateNode, FrameLeft, call
  <2>2. /\ layer' \in -1 .. Depth /\ nalloc' \in 0 .. NPAGES
        /\ tables' \subseteq 0 .. nalloc' - 1 /\ node' \in 0 .. nalloc' - 1
        /\ nalloc \in 0 .. PpnSpan - 1
    BY <1>2, <1>3, <2>1
  <2>3. pages' \in [Frames -> [Symbols -> [ppn : 0 .. PpnSpan - 1, valid : BOOLEAN]]]
    <3>1. [ppn |-> nalloc, valid |-> TRUE] \in [ppn : 0 .. PpnSpan - 1, valid : BOOLEAN]
      BY <2>2
    <3> QED
      BY <1>2, <2>1, <3>1
  <2> QED
    BY <1>2, <2>1, <2>2, <2>3 DEF TypeOK
<1>8. CASE OutOfMemory
  <2>1. layer' = -1 /\ UNCHANGED <<nalloc, pages, tables, node, pt, vpn, ppn, mapping>>
    BY <1>8 DEF OutOfMemory, call
  <2>2. -1 \in -1 .. Depth /\ ~(-1 > 0)
    BY <1>3
  <2> QED
    BY <1>2, <2>1, <2>2 DEF TypeOK
<1>9. CASE Install
  <2>1. /\ layer = Depth /\ layer' = 0
        /\ pages' = [pages EXCEPT ![node][vpn[layer]] =
             IF ppn = NO_MAPPING THEN Invalid(@)
                                 ELSE [ppn |-> ppn % PpnSpan, valid |-> TRUE]]
        /\ mapping' = [mapping EXCEPT ![pt][vpn] = ppn]
        /\ UNCHANGED <<nalloc, tables, node, pt, vpn, ppn>>
    BY <1>9 DEF Install, call
  <2>2. 0 \in -1 .. Depth /\ node \in Frames /\ vpn[layer] \in Symbols
    BY <1>1, <1>3, <2>1, Basics
  <2>3. ppn # NO_MAPPING => ppn % PpnSpan \in 0 .. PpnSpan - 1
    BY <1>2, <1>3
  <2>4. pages[node][vpn[layer]] \in [ppn : 0 .. PpnSpan - 1, valid : BOOLEAN]
    BY <1>2, <2>2
  <2>5. Invalid(pages[node][vpn[layer]]) \in [ppn : 0 .. PpnSpan - 1, valid : BOOLEAN]
    BY <2>4 DEF Invalid
  <2>6. pages' \in [Frames -> [Symbols -> [ppn : 0 .. PpnSpan - 1, valid : BOOLEAN]]]
    <3>1. CASE ppn = NO_MAPPING
      BY <1>2, <2>1, <2>2, <2>5, <3>1
    <3>2. CASE ppn # NO_MAPPING
      <4>1. [ppn |-> ppn % PpnSpan, valid |-> TRUE]
              \in [ppn : 0 .. PpnSpan - 1, valid : BOOLEAN]
        BY <2>3, <3>2
      <4>2. pages' = [pages EXCEPT ![node][vpn[layer]] =
                        [ppn |-> ppn % PpnSpan, valid |-> TRUE]]
        BY <2>1, <3>2
      <4> QED
        BY <1>2, <4>1, <4>2
    <3> QED
      BY <3>1, <3>2
  <2>7. mapping' \in [Frames -> [Vpns -> Ppns \cup {NO_MAPPING}]]
    BY <1>2, <2>1
  <2> QED
    BY <1>2, <2>1, <2>2, <2>6, <2>7 DEF TypeOK
<1>10. CASE UNCHANGED vars
  BY <1>1, <1>10 DEF vars, call, TypeOK
<1> QED
  BY <1>4, <1>5, <1>6, <1>7, <1>8, <1>9, <1>10 DEF Next

LEMMA ShapeNext == TreeInv /\ [Next]_vars => Shape'
<1> SUFFICES ASSUME TreeInv, [Next]_vars PROVE Shape'
  OBVIOUS
<1>1. ASSUME UNCHANGED <<nalloc, pages, tables, mapping>> PROVE Shape'
  BY <1>1, ShapeKept DEF TreeInv
<1>2. CASE NewTable
  BY <1>2, NewTableShape
<1>3. CASE AllocateNode
  BY <1>3, AllocateShape
<1>4. CASE Install
  BY <1>4, InstallShape
<1>5. CASE FollowEntry \/ OutOfMemory \/ UNCHANGED vars
  BY <1>1, <1>5 DEF FollowEntry, OutOfMemory, vars
<1>6. ASSUME NEW t \in tables, NEW v \in Vpns, NEW p \in Ppns \cup {NO_MAPPING},
             Update(t, v, p)
      PROVE  Shape'
  BY <1>1, <1>6 DEF Update
<1> QED
  BY <1>2, <1>3, <1>4, <1>5, <1>6 DEF Next

LEMMA UpdateOnPathNext == TreeInv /\ [Next]_vars => UpdateOnPath'
<1> SUFFICES ASSUME TreeInv, [Next]_vars, layer' > 0
             PROVE  pt' \in tables' /\ node' = Spot(pt, vpn, layer - 1)'
  BY DEF UpdateOnPath
<1>1. TypeOK /\ Shape /\ UpdateOnPath
  BY DEF TreeInv
<1>2. Spot(pt, vpn, layer - 1)' = Path(pages', pt', vpn', layer' - 1)
  BY DEF Spot
<1>3. CASE NewTable \/ OutOfMemory \/ Install
  BY <1>3 DEF NewTable, OutOfMemory, Install
<1>4. ASSUME NEW t \in tables, NEW v \in Vpns, NEW p \in Ppns \cup {NO_MAPPING},
             Update(t, v, p)
      PROVE  pt' \in tables' /\ node' = Spot(pt, vpn, layer - 1)'
  BY <1>2, <1>4, PathStart DEF Update
<1>5. CASE FollowEntry \/ AllocateNode
  <2>1. /\ Depth \in Nat /\ layer \in 1 .. Depth - 1 /\ layer' = layer + 1
        /\ UNCHANGED <<pt, vpn, tables>>
    BY <1>1, <1>5, Basics DEF FollowEntry, AllocateNode, call
  <2>2. layer > 0 /\ layer' - 1 = layer
    BY <2>1
  <2>3. /\ pt \in tables /\ node = Spot(pt, vpn, layer - 1) /\ vpn \in Vpns
        /\ node \in Nat /\ node # NO_MAPPING
    BY <1>1, <2>2, Basics DEF UpdateOnPath
  <2>4. CASE AllocateNode
    <3>1. layer \in 0 .. Depth /\ Agree(vpn, vpn, layer)
      BY <2>1 DEF Agree
    <3>2. NewSpot(pt, vpn, layer) = nalloc
      BY <2>3, <2>4, <3>1, AllocateMoves
    <3>3. node' = nalloc
      BY <2>4 DEF AllocateNode
    <3> QED
      BY <1>2, <2>1, <2>2, <2>3, <3>2, <3>3 DEF NewSpot
  <2>5. CASE FollowEntry
    <3>1. PICK i \in Nat : layer = i + 1
      <4>1. layer - 1 \in Nat /\ layer = (layer - 1) + 1
        BY <2>1
      <4> QED
        BY <4>1
    <3>2. i \in Inner /\ i < Depth - 1 /\ node = Spot(pt, vpn, i)
      BY <2>1, <2>3, <3>1 DEF Inner
    <3>3. Pte # Absent /\ node' = Pte.ppn /\ pages' = pages
      BY <2>5 DEF FollowEntry, NodeMissing
    <3>4. Pte.valid
      BY <1>1, <2>3, <3>1, <3>2, <3>3 DEF Shape, InnerEntries, Pte
    <3>5. Path(pages, pt, vpn, layer) = Pte.ppn
      BY <2>3, <3>1, <3>2, <3>4, PathStep DEF Spot, Follow, Pte
    <3> QED
      BY <1>2, <2>1, <2>2, <2>3, <3>3, <3>5
  <2> QED
    BY <1>5, <2>4, <2>5
<1>6. CASE UNCHANGED vars
  BY <1>1, <1>6 DEF vars, call, UpdateOnPath, Spot
<1> QED
  BY <1>3, <1>4, <1>5, <1>6 DEF Next

LEMMA TreeNext == TreeInv /\ [Next]_vars => TreeInv'
BY TypeNext, ShapeNext, UpdateOnPathNext DEF TreeInv

LEMMA TreeInit == Init => TreeInv
<1> SUFFICES ASSUME Init PROVE TreeInv
  OBVIOUS
<1>1. /\ Depth \in Nat \ {0} /\ NPAGES \in Nat /\ PpnSpan \in Nat /\ PpnSpan > NPAGES
  BY PageTableAssumption
<1>2. TypeOK
  <2>1. Absent \in [ppn : 0 .. PpnSpan - 1, valid : BOOLEAN]
    BY <1>1 DEF Absent
  <2>2. pages \in [Frames -> [Symbols -> [ppn : 0 .. PpnSpan - 1, valid : BOOLEAN]]]
    BY <2>1 DEF Init
  <2>3. mapping \in [Frames -> [Vpns -> Ppns \cup {NO_MAPPING}]]
    BY DEF Init
  <2> QED
    BY <1>1, <2>2, <2>3 DEF Init, TypeOK
<1>3. Shape
  BY DEF Init, Shape, WithinMemory, Unshared, Reached, InnerEntries, Blank, Answers
<1>4. UpdateOnPath
  BY DEF Init, UpdateOnPath
<1> QED
  BY <1>2, <1>3, <1>4 DEF TreeInv

-----------------------------------------------------------------------------

\* The frames handed out stay within the memory, entries within 52 bits, and an
\* update within the frames handed out (os.c:27-28, pt.c:35-58).
THEOREM TypesAreOK == Spec => []TypeOK
<1>1. TreeInv => TypeOK
  BY DEF TreeInv
<1> QED
  BY <1>1, TreeInit, TreeNext, PTL DEF Spec

\* What a query answers, for page numbers of any length.
AnswersKept ==
  \A t \in tables, v \in Vpns : page_table_query(t, v) = Kept(mapping[t][v])

\* Every query answers the lower 52 bits of what the last update of its page asked
\* for, whatever page numbers the updates are given (pt.c:34-97).
THEOREM QueriesKeepLowerBits == Spec => []AnswersKept
<1>1. TreeInv => AnswersKept
  BY WalkIsPath DEF TreeInv, Shape, Answers, AnswersKept, page_table_query, Spot
<1> QED
  BY <1>1, TreeInit, TreeNext, PTL DEF Spec

\* If the updates are given page numbers of 52 bits, every query answers what the
\* last update of its page asked for, whatever happens to other pages and tables in
\* between (pt.c:9-28).
THEOREM QueriesAreCorrect ==
  ASSUME Ppns \subseteq 0 .. PpnSpan - 1
  PROVE  Spec => []QueryCorrect
<1>1. TypeOK /\ AnswersKept => QueryCorrect
  <2> SUFFICES ASSUME TypeOK, AnswersKept, NEW t \in tables, NEW v \in Vpns
               PROVE  page_table_query(t, v) = mapping[t][v]
    BY DEF QueryCorrect
  <2>1. mapping[t][v] \in Ppns \cup {NO_MAPPING}
    <3>1. t \in Frames
      BY PageTableAssumption DEF TypeOK, Frames
    <3> QED
      BY <3>1 DEF TypeOK
  <2>2. \A p \in Ppns : p % PpnSpan = p
    BY PageTableAssumption
  <2> QED
    BY <2>1, <2>2 DEF AnswersKept, Kept
<1> QED
  BY <1>1, TypesAreOK, QueriesKeepLowerBits, PTL

\* Every frame handed out is the node of one prefix of one table (os.c:27-28,
\* pt.c:44-47).
THEOREM FramesHaveOnePath == Spec => []OnePath
<1>1. TreeInv => OnePath
  <2> SUFFICES ASSUME TreeInv, NEW f \in 0 .. nalloc - 1
               PROVE  \E t \in tables, v \in Vpns, l \in 0 .. Depth - 1 :
                        /\ Walk(t, v, l) = f
                        /\ \A u \in tables, w \in Vpns, k \in 0 .. Depth - 1 :
                             Walk(u, w, k) = f =>
                               u = t /\ SubSeq(w, 1, k) = SubSeq(v, 1, l)
    BY DEF OnePath
  <2>1. TypeOK /\ Shape
    BY DEF TreeInv
  <2>2. PICK t \in tables, v \in Vpns, l \in Inner : Spot(t, v, l) = f
    BY <2>1 DEF Shape, Reached
  <2>3. f # NO_MAPPING
    BY <2>1, Basics
  <2>4. ASSUME NEW u \in tables, NEW w \in Vpns, NEW k \in Inner, Spot(u, w, k) = f
        PROVE  u = t /\ SubSeq(w, 1, k) = SubSeq(v, 1, l)
    <3>1. u = t /\ k = l /\ Agree(w, v, l)
      BY <2>1, <2>2, <2>3, <2>4 DEF Shape, Unshared
    <3>2. SubSeq(w, 1, l) = SubSeq(v, 1, l)
      BY <3>1, <2>1, Basics DEF Agree
    <3> QED
      BY <3>1, <3>2
  <2> QED
    BY <2>2, <2>4, WalkIsPath DEF Spot, Inner
<1> QED
  BY <1>1, TreeInit, TreeNext, PTL DEF Spec
==============================================================================

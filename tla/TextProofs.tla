----------------------------- MODULE TextProofs -----------------------------
(***************************************************************************)
(* Theorems about what happens to the text of a book, for any book and any *)
(* sizes: where its shards are cut, which pages its citations name, how     *)
(* long its chunks get, how its rows fit together, and that every chunk is  *)
(* a slice of the text and no words are in none.                            *)
(***************************************************************************)
EXTENDS Bounds, Stitch, ChunkBook, RetrievalProofs
-----------------------------------------------------------------------------
(***************************************************************************)
(* Shard bounds: no page is lost between two shards.                        *)
(***************************************************************************)

\* The pages before q are in some shard.
CoveredTo(q) == \A p \in 1..(q-1) : \E k \in DOMAIN bounds : Holds(k, p)

\* The loop invariant: what is behind the loop is covered, and a chapter that
\* is being cut ends right before the next one starts.
LoopInv ==
  /\ pc = "chapter" => CoveredTo(prevStart)
  /\ pc = "window" => CoveredTo(start) /\ lim = prevStart - 1 /\ start <= lim + 1
  /\ pc = "lastwindow" => CoveredTo(start) /\ lim = pageCount
  /\ pc = "done" => CoveredTo(pageCount + 1)

BInv == TypeOK /\ LoopInv
-----------------------------------------------------------------------------
\* A window lies between its start and the end of the chapter, and the next
\* one starts beyond this start and not beyond the page after this window.
LEMMA WindowStep ==
  ASSUME TypeOK, start <= lim
  PROVE  /\ WindowEnd \in start..lim
         /\ NextStart \in (start+1)..(WindowEnd+1)
  <1>1. /\ start \in Nat \ {0} /\ lim \in Nat /\ shardPages \in Nat \ {0}
        /\ Overlap \in {0, 1}
    BY DEF TypeOK, Overlap
  <1>2. WindowEnd \in start..lim
    BY <1>1 DEF WindowEnd
  <1>3. NextStart \in (start+1)..(WindowEnd+1)
    BY <1>1, <1>2 DEF NextStart
  <1> QED BY <1>2, <1>3

\* The invariant holds before the first chapter is cut.
LEMMA InitInv == Init => BInv
  <1> SUFFICES ASSUME Init PROVE BInv
    OBVIOUS
  <1>1. pageCount \in Nat \ {0} /\ shardPages \in Nat \ {0} /\ outline \subseteq Int
    BY BoundsAssumption DEF Init
  <1>2. marks \subseteq 1..pageCount
    BY <1>1 DEF Init, Clean, Clamp
  <1>3. CoveredTo(prevStart)
    BY DEF Init, CoveredTo
  <1> QED BY <1>1, <1>2, <1>3 DEF Init, BInv, TypeOK, LoopInv

\* Closing a chapter at an outline mark keeps the invariant.
LEMMA ChapterInv == ASSUME BInv, Chapter \/ LastChapter PROVE BInv'
  <1> USE DEF BInv, TypeOK, LoopInv
  <1>1. ASSUME NEW q PROVE CoveredTo(q) /\ bounds' = bounds => CoveredTo(q)'
    BY DEF CoveredTo, Holds
  <1>2. CASE Chapter
    <2>1. PICK page \in marks :
            /\ marks' = marks \ {page} /\ prevStart' = page
            /\ IF page > prevStart
               THEN lim' = ChapterEnd(page) /\ start' = prevStart /\ pc' = "window"
               ELSE UNCHANGED <<lim, start, pc>>
      BY <1>2 DEF Chapter
    <2>2. pc = "chapter" /\ UNCHANGED <<pageCount, shardPages, outline, bounds>>
      BY <1>2 DEF Chapter
    <2>3. TypeOK'
      BY <2>1, <2>2 DEF ChapterEnd
    <2>4. CoveredTo(prevStart)
      BY <2>2
    <2>5. CASE page > prevStart
      <3>1. CoveredTo(start)'
        BY <2>1, <2>2, <2>4, <2>5 DEF CoveredTo, Holds
      <3> QED BY <2>1, <2>2, <2>3, <2>5, <3>1 DEF ChapterEnd
    <2>6. CASE ~(page > prevStart)
      <3>1. CoveredTo(prevStart)'
        <4>1. page \in Nat /\ prevStart \in Nat /\ page <= prevStart
          BY <2>6
        <4>2. bounds' = bounds /\ prevStart' = page
          BY <2>1, <2>2
        <4> HIDE DEF BInv, TypeOK, LoopInv
        <4>3. ASSUME NEW r \in 1..(page-1) PROVE \E k \in DOMAIN bounds : Holds(k, r)
          <5>1. r \in 1..(prevStart-1)
            BY <4>1
          <5> QED BY <5>1, <2>4 DEF CoveredTo
        <4> QED BY <4>2, <4>3 DEF CoveredTo, Holds
      <3> QED BY <2>1, <2>2, <2>3, <2>6, <3>1
    <2> QED BY <2>5, <2>6
  <1>3. CASE LastChapter
    <2>1. /\ pc = "chapter" /\ lim' = pageCount /\ start' = prevStart /\ pc' = "lastwindow"
          /\ UNCHANGED <<pageCount, shardPages, outline, marks, prevStart, bounds>>
      BY <1>3 DEF LastChapter
    <2>2. CoveredTo(start)'
      BY <2>1 DEF CoveredTo, Holds
    <2> QED BY <2>1, <2>2
  <1> QED BY <1>2, <1>3

\* Cutting a window keeps the invariant.
LEMMA WindowInv == ASSUME BInv, Window PROVE BInv'
  <1> USE DEF BInv, TypeOK, LoopInv
  <1>1. /\ pc \in {"window", "lastwindow"} /\ start <= lim
        /\ bounds' = Append(bounds, [lo |-> start, hi |-> WindowEnd]) /\ start' = NextStart
        /\ UNCHANGED <<pageCount, shardPages, outline, marks, prevStart, lim, pc>>
    BY DEF Window
  <1>2. WindowEnd \in start..lim /\ NextStart \in (start+1)..(WindowEnd+1)
    BY <1>1, WindowStep
  <1>3. TypeOK'
    BY <1>1, <1>2
  <1>4. CoveredTo(start)'
    <2> SUFFICES ASSUME NEW p \in 1..(start'-1)
                 PROVE  \E k \in DOMAIN bounds' : bounds'[k].lo <= p /\ p <= bounds'[k].hi
      BY DEF CoveredTo, Holds
    <2>1. CASE p < start
      <3>1. PICK k \in DOMAIN bounds : bounds[k].lo <= p /\ p <= bounds[k].hi
        BY <1>1, <2>1 DEF CoveredTo, Holds
      <3>2. k \in DOMAIN bounds' /\ bounds'[k] = bounds[k]
        BY <1>1, <1>2
      <3> QED BY <3>1, <3>2
    <2>2. CASE ~(p < start)
      <3>1. p <= WindowEnd
        BY <1>1, <1>2
      <3>2. bounds'[Len(bounds) + 1] = [lo |-> start, hi |-> WindowEnd]
        BY <1>1, <1>2
      <3> QED BY <1>1, <2>2, <3>1, <3>2, SMTT(40)
    <2> QED BY <2>1, <2>2
  <1>5. pc' = "window" => lim' = prevStart' - 1 /\ start' <= lim' + 1
    BY <1>1, <1>2
  <1> QED BY <1>1, <1>3, <1>4, <1>5

\* Leaving the window loop of a chapter keeps the invariant.
LEMMA DoneInv == ASSUME BInv, WindowsDone PROVE BInv'
  <1> USE DEF BInv, TypeOK, LoopInv
  <1>1. /\ pc \in {"window", "lastwindow"} /\ start > lim
        /\ pc' = IF pc = "window" THEN "chapter" ELSE "done"
        /\ UNCHANGED <<pageCount, shardPages, outline, marks, prevStart, lim, start, bounds>>
    BY DEF WindowsDone
  <1>2. CASE pc = "window"
    <2>1. CoveredTo(prevStart)'
      <3>1. start \in Nat /\ lim \in Nat /\ prevStart \in Nat /\ CoveredTo(start)
        BY <1>2
      <3>2. start = prevStart
        BY <1>1, <1>2, <3>1
      <3>3. CoveredTo(prevStart) /\ UNCHANGED <<bounds, prevStart>>
        BY <1>1, <3>1, <3>2
      <3> HIDE DEF BInv, TypeOK, LoopInv
      <3> QED BY <3>3 DEF CoveredTo, Holds
    <2> QED BY <1>1, <1>2, <2>1
  <1>3. CASE pc = "lastwindow"
    <2>1. CoveredTo(pageCount + 1)'
      <3>1. start = pageCount + 1
        BY <1>1, <1>3
      <3>2. CoveredTo(start)
        BY <1>3
      <3> HIDE DEF BInv, TypeOK, LoopInv
      <3> QED BY <1>1, <3>1, <3>2 DEF CoveredTo, Holds
    <2> QED BY <1>1, <1>3, <2>1
  <1> QED BY <1>1, <1>2, <1>3

\* Every step of the loops keeps the invariant.
LEMMA Inductive == BInv /\ [Next]_vars => BInv'
  <1> SUFFICES ASSUME BInv, [Next]_vars PROVE BInv'
    OBVIOUS
  <1>1. CASE Next
    BY <1>1, ChapterInv, WindowInv, DoneInv DEF Next
  <1>2. CASE UNCHANGED vars
    BY <1>2 DEF vars, BInv, TypeOK, LoopInv, CoveredTo, Holds
  <1> QED BY <1>1, <1>2

\* The invariant holds in every reachable state.
LEMMA Invariant == Spec => []BInv
  BY InitInv, Inductive, PTL DEF Spec

\* No window leaves the book and no counter of the loops leaves its range.
THEOREM TypeCorrect == Spec => []TypeOK
  <1>1. BInv => TypeOK
    BY DEF BInv
  <1> QED BY Invariant, <1>1, PTL

\* Every page of the book is in some shard, whatever the page count, the window
\* and the outline.
THEOREM EveryPageCovered == Spec => []Covered
  <1>1. BInv => Covered
    BY DEF BInv, TypeOK, LoopInv, CoveredTo, Covered
  <1> QED BY Invariant, <1>1, PTL
-----------------------------------------------------------------------------
\* Alignment.  What was cut is in order and snaps to the bookmarks; what is still
\* ahead starts no chapter before the loop gets there.
Snapped(q) == \A m \in Clean : m < q => \E k \in DOMAIN bounds : bounds[k].lo = m
LastBound == bounds[Len(bounds)]

Sized == \A k \in DOMAIN bounds : /\ bounds[k].lo <= bounds[k].hi
                                  /\ bounds[k].hi - bounds[k].lo < shardPages
BoundsOrdered == \A k \in 1..(Len(bounds)-1) : /\ bounds[k].lo < bounds[k+1].lo
                                               /\ bounds[k].hi < bounds[k+1].hi
                                               /\ bounds[k].hi <= bounds[k+1].lo
Within == \A m \in Clean : \A k \in DOMAIN bounds : Holds(k, m) => bounds[k].lo = m
Ahead == /\ \A m \in marks : m \in Clean /\ prevStart <= m
         /\ \A m \in Clean : m <= prevStart \/ m \in marks

\* The last window shares the next start only where another page follows it.
Behind ==
  /\ bounds # <<>> /\ pc = "chapter" => LastBound.hi < prevStart
  /\ bounds # <<>> /\ pc \in {"window", "lastwindow"} =>
       /\ LastBound.lo < start /\ LastBound.hi <= lim
       /\ LastBound.hi < start \/ (LastBound.hi = start /\ start < lim /\ shardPages >= 2)

Snap ==
  /\ pc = "chapter" => Snapped(prevStart)
  /\ pc \in {"window", "lastwindow"} => Snapped(start) /\ \A m \in Clean : m <= start \/ m > lim
  /\ pc = "done" => Snapped(pageCount + 1)

AlignInv == Sized /\ BoundsOrdered /\ Within /\ Ahead /\ Behind /\ Snap

\* The bookmarks are pages of the book.
LEMMA CleanPages == ASSUME TypeOK PROVE Clean \subseteq 1..pageCount
  <1>1. pageCount \in Nat \ {0} /\ outline \subseteq Int
    BY DEF TypeOK
  <1>2. ASSUME NEW p \in Int PROVE Clamp(p) \in 1..pageCount
    BY <1>1 DEF Clamp
  <1> QED BY <1>1, <1>2 DEF Clean

\* Before the first chapter nothing is cut, and page 1 needs no snapping.
LEMMA AlignInit == Init => AlignInv
  <1> SUFFICES ASSUME Init PROVE AlignInv
    OBVIOUS
  <1>1. TypeOK
    BY InitInv DEF BInv
  <1>2. bounds = <<>> /\ marks = Clean /\ prevStart = 1 /\ pc = "chapter"
    BY DEF Init
  <1>3. Clean \subseteq 1..pageCount /\ pageCount \in Nat
    BY <1>1, CleanPages DEF TypeOK
  <1>4. Sized /\ BoundsOrdered /\ Within /\ Behind
    BY <1>2 DEF Sized, BoundsOrdered, Within, Behind
  <1>5. Ahead /\ Snap
    BY <1>2, <1>3 DEF Ahead, Snap, Snapped
  <1> QED BY <1>4, <1>5 DEF AlignInv

\* A step that cuts nothing keeps what is said of the windows.
LEMMA AlignFrame ==
  ASSUME UNCHANGED <<bounds, shardPages, pageCount, outline>>
  PROVE  /\ Clean' = Clean
         /\ (Sized => Sized') /\ (BoundsOrdered => BoundsOrdered') /\ (Within => Within')
         /\ \A q : Snapped(q) => Snapped(q)'
  <1>1. Clean' = Clean
    BY DEF Clean, Clamp
  <1> QED BY <1>1 DEF Sized, BoundsOrdered, Within, Snapped, Holds

\* The last element of a sequence is one of its elements.
LEMMA LastElement ==
  ASSUME NEW S, NEW s \in Seq(S), s # <<>>
  PROVE  Len(s) \in DOMAIN s /\ s[Len(s)] \in S
  OBVIOUS

\* What the types and the window sizes say of the last window cut.
LEMMA LastShape ==
  ASSUME TypeOK, Sized, bounds # <<>>
  PROVE  /\ Len(bounds) \in DOMAIN bounds /\ Len(bounds) \in Nat \ {0}
         /\ LastBound.lo \in Nat /\ LastBound.hi \in Nat /\ LastBound.lo <= LastBound.hi
  <1>1. bounds \in Seq([lo : 1..pageCount, hi : 1..pageCount]) /\ pageCount \in Nat
    BY DEF TypeOK
  <1>2. Len(bounds) \in DOMAIN bounds /\ Len(bounds) \in Nat \ {0}
    BY <1>1
  <1>3. bounds[Len(bounds)] \in [lo : 1..pageCount, hi : 1..pageCount]
    <2> DEFINE R == [lo : 1..pageCount, hi : 1..pageCount]
    <2>1. bounds \in Seq(R)
      BY <1>1
    <2> HIDE DEF R
    <2>2. bounds[Len(bounds)] \in R
      BY <2>1, LastElement
    <2> QED BY <2>2 DEF R
  <1>4. bounds[Len(bounds)].lo <= bounds[Len(bounds)].hi
    BY <1>2 DEF Sized
  <1>5. LastBound.lo \in 1..pageCount /\ LastBound.hi \in 1..pageCount /\ LastBound.lo <= LastBound.hi
    BY <1>3, <1>4 DEF LastBound
  <1> QED BY <1>1, <1>2, <1>5

\* The next bookmark, or the end of the book, opens a stretch of pages that holds no other bookmark.
LEMMA AlignChapter == ASSUME BInv, AlignInv, Chapter \/ LastChapter PROVE AlignInv'
  <1>1. /\ pageCount \in Nat /\ marks \subseteq 1..pageCount /\ prevStart \in 1..pageCount
        /\ bounds \in Seq([lo : 1..pageCount, hi : 1..pageCount]) /\ Clean \subseteq 1..pageCount
    BY CleanPages DEF BInv, TypeOK
  <1>2. UNCHANGED <<bounds, shardPages, pageCount, outline>> /\ pc = "chapter"
    BY DEF Chapter, LastChapter
  <1>3. /\ Clean' = Clean /\ Sized' /\ BoundsOrdered' /\ Within'
        /\ \A q : Snapped(q) => Snapped(q)'
    BY <1>2, AlignFrame DEF AlignInv
  <1>4. PICK p \in 1..pageCount : p = prevStart
    BY <1>1
  <1>5. /\ Snapped(p)' /\ (bounds # <<>> => LastBound.hi < p)
        /\ \A m \in marks : m \in Clean /\ p <= m
        /\ \A m \in Clean : m <= p \/ m \in marks
    BY <1>2, <1>3, <1>4 DEF AlignInv, Snap, Ahead, Behind
  <1>6. bounds # <<>> => LastBound' = LastBound /\ LastBound.hi \in Nat /\ LastBound.lo \in Nat /\ LastBound.lo <= LastBound.hi
    <2>1. LastBound' = LastBound
      BY <1>2 DEF LastBound
    <2> QED BY <2>1, LastShape DEF AlignInv, BInv
  <1>7. CASE Chapter
    <2>1. PICK page \in marks :
            /\ \A m \in marks : page <= m
            /\ marks' = marks \ {page} /\ prevStart' = page
            /\ IF page > p
               THEN lim' = page - 1 /\ start' = p /\ pc' = "window"
               ELSE UNCHANGED <<lim, start, pc>>
      BY <1>4, <1>7 DEF Chapter, ChapterEnd
    <2>2. page \in 1..pageCount /\ p <= page
      BY <1>1, <1>5
    <2>3. Ahead'
      BY <1>1, <1>3, <1>5, <2>1, <2>2 DEF Ahead
    <2>4. CASE page > p
      <3>1. Behind'
        BY <1>2, <1>5, <1>6, <2>1, <2>2, <2>4 DEF Behind
      <3>2. \A m \in Clean : m <= p \/ m > page - 1
        BY <1>1, <1>5, <2>1, <2>2
      <3>3. Snapped(start)'
        BY <1>5, <2>1, <2>4 DEF Snapped
      <3>4. Snap'
        BY <1>3, <2>1, <2>4, <3>2, <3>3 DEF Snap
      <3> QED BY <1>3, <2>3, <3>1, <3>4 DEF AlignInv
    <2>5. CASE ~(page > p)
      <3>1. page = p /\ pc' = "chapter" /\ prevStart' = p
        BY <1>2, <2>1, <2>2, <2>5
      <3>2. Behind'
        BY <1>2, <1>5, <1>6, <3>1 DEF Behind
      <3>3. Snapped(prevStart)'
        BY <1>5, <3>1 DEF Snapped
      <3>4. Snap'
        BY <3>1, <3>3 DEF Snap
      <3> QED BY <1>3, <2>3, <3>2, <3>4 DEF AlignInv
    <2> QED BY <2>4, <2>5
  <1>8. CASE LastChapter
    <2>1. /\ marks = {} /\ lim' = pageCount /\ start' = p /\ pc' = "lastwindow"
          /\ UNCHANGED <<marks, prevStart>>
      BY <1>1, <1>4, <1>8 DEF LastChapter
    <2>2. Ahead'
      BY <1>3, <1>4, <1>5, <2>1 DEF Ahead
    <2>3. Behind'
      BY <1>1, <1>2, <1>5, <1>6, <2>1 DEF Behind
    <2>4. \A m \in Clean : m <= p
      BY <1>5, <2>1
    <2>5. Snapped(start)'
      BY <1>5, <2>1 DEF Snapped
    <2>6. Snap'
      BY <1>3, <2>1, <2>4, <2>5 DEF Snap
    <2> QED BY <1>3, <2>2, <2>3, <2>6 DEF AlignInv
  <1> QED BY <1>7, <1>8

\* A window starts after the one before it, ends after it, and meets no bookmark but the one
\* it may start at.
LEMMA AlignWindow == ASSUME BInv, AlignInv, Window PROVE AlignInv'
  <1> DEFINE n == Len(bounds)
             w == [lo |-> start, hi |-> WindowEnd]
  <1>1. /\ pageCount \in Nat /\ shardPages \in Nat \ {0} /\ lim \in Nat /\ start \in Nat \ {0}
        /\ bounds \in Seq([lo : 1..pageCount, hi : 1..pageCount]) /\ Clean \subseteq 1..pageCount
        /\ TypeOK /\ n \in Nat /\ DOMAIN bounds = 1..n
    BY CleanPages DEF BInv, TypeOK
  <1>2. /\ pc \in {"window", "lastwindow"} /\ start <= lim
        /\ bounds' = Append(bounds, w) /\ start' = NextStart
        /\ UNCHANGED <<pageCount, shardPages, outline, marks, prevStart, lim, pc>>
    BY DEF Window
  <1>3. WindowEnd \in start..lim /\ NextStart \in (start+1)..(WindowEnd+1)
    BY <1>1, <1>2, WindowStep
  <1>4. WindowEnd - start < shardPages /\ (WindowEnd = lim \/ WindowEnd = start + shardPages - 1)
    BY <1>1, <1>2 DEF WindowEnd
  <1>5. NextStart <= WindowEnd => NextStart = WindowEnd /\ WindowEnd < lim
    <2>1. Overlap \in {0, 1}
      BY DEF Overlap
    <2> QED BY <1>1, <1>2, <1>3, <2>1 DEF NextStart
  <1>6. Clean' = Clean
    BY <1>2 DEF Clean, Clamp
  <1> HIDE DEF w
  <1>7. /\ DOMAIN bounds' = 1..(n + 1) /\ Len(bounds') = n + 1 /\ bounds'[n + 1] = w
        /\ \A k \in 1..n : bounds'[k] = bounds[k]
    BY <1>1, <1>2
  <1>8. w.lo = start /\ w.hi = WindowEnd
    BY DEF w
  <1>9. n # 0 => /\ LastBound = bounds[n] /\ LastBound.lo \in Nat /\ LastBound.hi \in Nat
                 /\ LastBound.lo < start /\ LastBound.hi <= lim
                 /\ LastBound.hi < start \/ (LastBound.hi = start /\ start < lim /\ shardPages >= 2)
    <2>1. n # 0 => bounds # <<>>
      OBVIOUS
    <2> QED BY <1>1, <1>2, <2>1, LastShape DEF AlignInv, Behind, LastBound
  <1>10. Sized'
    <2> SUFFICES ASSUME NEW k \in 1..(n + 1)
                 PROVE  bounds'[k].lo <= bounds'[k].hi /\ bounds'[k].hi - bounds'[k].lo < shardPages
      BY <1>2, <1>7 DEF Sized
    <2>1. CASE k = n + 1
      BY <1>1, <1>3, <1>4, <1>7, <1>8, <2>1
    <2>2. CASE k # n + 1
      <3>1. k \in 1..n
        BY <1>1, <2>2
      <3> QED BY <1>1, <1>7, <3>1 DEF AlignInv, Sized
    <2> QED BY <2>1, <2>2
  <1>11. BoundsOrdered'
    <2> SUFFICES ASSUME NEW k \in 1..n
                 PROVE  /\ bounds'[k].lo < bounds'[k+1].lo
                        /\ bounds'[k].hi < bounds'[k+1].hi
                        /\ bounds'[k].hi <= bounds'[k+1].lo
      BY <1>1, <1>7 DEF BoundsOrdered
    <2>1. CASE k = n
      <3>1. bounds'[k] = LastBound /\ bounds'[k + 1] = w /\ n # 0
        BY <1>1, <1>7, <1>9, <2>1
      <3>2. LastBound.hi < WindowEnd
        <4>1. CASE LastBound.hi < start
          BY <1>1, <1>3, <1>9, <3>1, <4>1, SMTT(40)
        <4>2. CASE LastBound.hi = start /\ start < lim /\ shardPages >= 2
          BY <1>1, <1>3, <1>4, <4>2
        <4> QED BY <1>9, <3>1, <4>1, <4>2
      <3>3. LastBound.lo < start /\ LastBound.hi <= start
        BY <1>1, <1>9, <3>1, SMTT(30)
      <3> QED BY <1>8, <3>1, <3>2, <3>3
    <2>2. CASE k # n
      <3> HIDE DEF n
      <3>1. k \in 1..(n - 1) /\ k + 1 \in 1..n
        BY <1>1, <2>2
      <3>2. /\ bounds[k].lo < bounds[k+1].lo /\ bounds[k].hi < bounds[k+1].hi
            /\ bounds[k].hi <= bounds[k+1].lo
        BY <3>1 DEF AlignInv, BoundsOrdered, n
      <3>3. bounds'[k] = bounds[k] /\ bounds'[k + 1] = bounds[k + 1]
        BY <1>7, <3>1
      <3> QED BY <3>2, <3>3
    <2> QED BY <2>1, <2>2
  <1>12. /\ Snapped(start)
         /\ \A m \in Clean : m <= start \/ m > lim
    BY <1>2 DEF AlignInv, Snap
  <1>13. Within'
    <2> SUFFICES ASSUME NEW m \in Clean, NEW k \in 1..(n + 1), bounds'[k].lo <= m, m <= bounds'[k].hi
                 PROVE  bounds'[k].lo = m
      BY <1>6, <1>7 DEF Within, Holds
    <2>1. CASE k = n + 1
      <3>1. start <= m /\ m <= WindowEnd
        BY <1>7, <1>8, <2>1
      <3> QED BY <1>1, <1>3, <1>7, <1>8, <1>12, <2>1, <3>1
    <2>2. CASE k # n + 1
      <3>1. k \in 1..n
        BY <1>1, <2>2
      <3> QED BY <1>1, <1>7, <3>1 DEF AlignInv, Within, Holds
    <2> QED BY <2>1, <2>2
  <1>14. Ahead'
    BY <1>2, <1>6 DEF AlignInv, Ahead
  <1>15. Behind'
    <2>1. LastBound' = w
      BY <1>7 DEF LastBound
    <2>2. w.lo < NextStart /\ w.hi <= lim
      BY <1>1, <1>3, <1>8
    <2>3. w.hi < NextStart \/ (w.hi = NextStart /\ NextStart < lim /\ shardPages >= 2)
      BY <1>1, <1>3, <1>4, <1>5, <1>8
    <2> QED BY <1>2, <2>1, <2>2, <2>3 DEF Behind
  <1>16. Snapped(start)'
    <2> SUFFICES ASSUME NEW m \in Clean, m < NextStart
                 PROVE  \E k \in 1..(n + 1) : bounds'[k].lo = m
      BY <1>2, <1>6, <1>7 DEF Snapped
    <2>1. m <= start
      BY <1>1, <1>3, <1>12
    <2>2. CASE m = start
      BY <1>1, <1>7, <1>8, <2>2
    <2>3. CASE m < start
      <3>1. PICK k \in 1..n : bounds[k].lo = m
        BY <1>1, <1>12, <2>3 DEF Snapped
      <3>2. k \in 1..(n + 1) /\ bounds'[k] = bounds[k]
        BY <1>1, <1>7
      <3> QED BY <3>1, <3>2
    <2> QED BY <1>1, <2>1, <2>2, <2>3
  <1>17. \A m \in Clean : m <= NextStart \/ m > lim
    BY <1>1, <1>3, <1>12
  <1>18. Snap'
    BY <1>2, <1>6, <1>16, <1>17 DEF Snap
  <1> QED BY <1>10, <1>11, <1>13, <1>14, <1>15, <1>18 DEF AlignInv

\* At the end of a stretch the next chapter begins behind its last window.
LEMMA AlignDone == ASSUME BInv, AlignInv, WindowsDone PROVE AlignInv'
  <1>1. /\ pc \in {"window", "lastwindow"} /\ start > lim
        /\ pc' = IF pc = "window" THEN "chapter" ELSE "done"
        /\ UNCHANGED <<pageCount, shardPages, outline, marks, prevStart, lim, start, bounds>>
    BY DEF WindowsDone
  <1>2. /\ lim \in Nat /\ start \in Nat /\ prevStart \in Nat /\ pageCount \in Nat
        /\ Clean \subseteq 1..pageCount /\ TypeOK
        /\ (pc = "window" => lim = prevStart - 1) /\ (pc = "lastwindow" => lim = pageCount)
    BY CleanPages DEF BInv, LoopInv, TypeOK
  <1>3. Clean' = Clean /\ Sized' /\ BoundsOrdered' /\ Within'
    BY <1>1, AlignFrame DEF AlignInv
  <1>4. Ahead'
    BY <1>1, <1>3 DEF AlignInv, Ahead
  <1>5. Behind'
    <2>1. LastBound' = LastBound
      BY <1>1 DEF LastBound
    <2>2. bounds # <<>> => LastBound.hi \in Nat /\ LastBound.hi <= lim
      BY <1>1, <1>2, LastShape DEF AlignInv, Behind
    <2>3. bounds # <<>> /\ pc = "window" => LastBound.hi < prevStart
      BY <1>2, <2>2
    <2> QED BY <1>1, <2>1, <2>3 DEF Behind
  <1>6. \A m \in Clean : m <= lim => \E k \in DOMAIN bounds : bounds[k].lo = m
    <2>1. Snapped(start)
      BY <1>1 DEF AlignInv, Snap
    <2> QED BY <1>1, <1>2, <2>1 DEF Snapped
  <1>7. Snap'
    <2>1. CASE pc = "window"
      <3>1. \A m \in Clean : m < prevStart => m <= lim
        BY <1>2, <2>1
      <3>2. Snapped(prevStart)'
        BY <1>1, <1>3, <1>6, <3>1 DEF Snapped
      <3> QED BY <1>1, <2>1, <3>2 DEF Snap
    <2>2. CASE pc = "lastwindow"
      <3>1. Snapped(pageCount + 1)'
        BY <1>1, <1>2, <1>3, <1>6, <2>2 DEF Snapped
      <3> QED BY <1>1, <2>2, <3>1 DEF Snap
    <2> QED BY <1>1, <2>1, <2>2
  <1> QED BY <1>3, <1>4, <1>5, <1>7 DEF AlignInv

\* Shards go forward, keep to SHARD_PAGES, share at most one page, and snap to the bookmarks,
\* for a book of any length and any outline.
THEOREM ShardsAligned == Spec => []Aligned
  <1>1. BInv /\ AlignInv /\ [Next]_vars => AlignInv'
    <2> SUFFICES ASSUME BInv, AlignInv, [Next]_vars PROVE AlignInv'
      OBVIOUS
    <2>1. CASE Next
      BY <2>1, AlignChapter, AlignWindow, AlignDone DEF Next
    <2>2. CASE UNCHANGED vars
      BY <2>2 DEF vars, AlignInv, Sized, BoundsOrdered, Within, Ahead, Behind, Snap, Snapped, LastBound, Clean,
                  Clamp, Holds
    <2> QED BY <2>1, <2>2
  <1>2. BInv /\ AlignInv => Aligned
    <2> SUFFICES ASSUME BInv, AlignInv PROVE Aligned
      OBVIOUS
    <2>1. Sized /\ BoundsOrdered /\ Within /\ (pc = "done" => Snapped(pageCount + 1))
      BY DEF AlignInv, Snap
    <2>2. Clean \subseteq 1..pageCount /\ pageCount \in Nat
      BY CleanPages DEF BInv, TypeOK
    <2>3. pc = "done" => \A m \in Clean : \E k \in DOMAIN bounds : bounds[k].lo = m
      <3> SUFFICES ASSUME pc = "done", NEW m \in Clean
                   PROVE  \E k \in DOMAIN bounds : bounds[k].lo = m
        OBVIOUS
      <3>1. m < pageCount + 1
        BY <2>2
      <3> QED BY <2>1, <3>1 DEF Snapped
    <2> QED BY <2>1, <2>3 DEF Aligned, Sized, BoundsOrdered, Within
  <1> QED BY <1>1, <1>2, AlignInit, Invariant, PTL DEF Spec
-----------------------------------------------------------------------------
(***************************************************************************)
(* Citations                                                                *)
(*                                                                          *)
(* StInv says that lines and pages go together at every turn of the loop    *)
(* and after the cut at the end.  What is left is that an offset leads back *)
(* to its line: LineStart is a sum that grows with every line.              *)
(***************************************************************************)
\* What a quotient is bounded by
LEMMA Quotient ==
  ASSUME NEW a \in Nat, NEW n \in Nat \ {0}
  PROVE  a \div n \in Nat /\ n * (a \div n) <= a /\ a < n * (a \div n) + n
  <1> DEFINE q == a \div n
             m == a % n
  <1>1. q \in Int /\ m \in 0..(n-1) /\ a = n * q + m
    OBVIOUS
  <1>2. q >= 0
    OBVIOUS
  <1> HIDE DEF q, m
  <1>3. n * q \in Int
    BY <1>1
  <1> QED BY <1>1, <1>2, <1>3 DEF q

\* The quotient of a share of w is below w, and it grows with the share.
LEMMA Shares ==
  ASSUME NEW n \in Nat \ {0}, NEW w \in Nat, NEW x \in 0..(n-1), NEW y \in 0..(n-1), x <= y, w >= 1
  PROVE  /\ (x * w) \div n \in 0..(w-1)
         /\ (x * w) \div n <= (y * w) \div n
  <1>1. x * w \in Nat /\ y * w \in Nat
    OBVIOUS
  <1>2. x * w <= y * w /\ (x * w) + w <= n * w
    OBVIOUS
  <1>3. PICK a \in Nat, b \in Nat : a = x * w /\ b = y * w
    BY <1>1
  <1>4. PICK p \in Nat, q \in Nat : p = a \div n /\ q = b \div n
    BY Quotient
  <1>5. n * p <= a /\ a < n * p + n /\ n * q <= b /\ b < n * q + n
    BY <1>4, Quotient
  <1>6. p < w
    <2> SUFFICES ASSUME p >= w PROVE FALSE
      OBVIOUS
    <2>1. n * p >= n * w
      OBVIOUS
    <2>2. n * p \in Nat /\ n * w \in Nat
      OBVIOUS
    <2> QED BY <1>2, <1>3, <1>5, <2>1, <2>2
  <1>7. p <= q
    <2> SUFFICES ASSUME p >= q + 1 PROVE FALSE
      OBVIOUS
    <2>1. n * p >= n * (q + 1) /\ n * (q + 1) = n * q + n
      OBVIOUS
    <2>2. n * p \in Nat /\ n * q \in Nat
      OBVIOUS
    <2> QED BY <1>2, <1>3, <1>5, <2>1, <2>2
  <1> QED BY <1>3, <1>4, <1>6, <1>7

\* A line's page is one of its shard, and pages grow within it.
LEMMA PageInShard ==
  ASSUME NEW s, s.lo \in Nat, s.hi \in Nat, s.lo <= s.hi, NEW n \in Nat \ {0},
         NEW x \in 0..(n-1), NEW y \in 0..(n-1), x <= y
  PROVE  Page(s, x, n) \in s.lo..s.hi /\ Page(s, x, n) <= Page(s, y, n)
  <1>1. PICK w \in Nat : w = s.hi - s.lo + 1 /\ w >= 1
    OBVIOUS
  <1>2. (x * w) \div n \in 0..(w-1) /\ (x * w) \div n <= (y * w) \div n /\ (y * w) \div n \in 0..(w-1)
    BY <1>1, Shares
  <1>3. PICK p \in 0..(w-1), q \in 0..(w-1) : p = (x * w) \div n /\ q = (y * w) \div n /\ p <= q
    BY <1>2
  <1>4. Page(s, x, n) = s.lo + p /\ Page(s, y, n) = s.lo + q
    BY <1>1, <1>3 DEF Page
  <1> QED BY <1>1, <1>3, <1>4

\* A set of places in a sequence has a first and a last one.
LEMMA FirstAndLast ==
  ASSUME NEW n \in Nat, NEW I \in SUBSET (1..n), I # {}
  PROVE  Min(I) \in I /\ Max(I) \in I
  <1>1. \E x \in I : \A y \in I : x <= y
    <2>1. I \in SUBSET Nat
      OBVIOUS
    <2> QED BY <2>1, LeastNumber
  <1>2. \E x \in I : \A y \in I : x >= y
    <2> DEFINE J == {n - i : i \in I}
    <2>1. J \in SUBSET Nat /\ J # {}
      <3>1. \A i \in I : n - i \in Nat
        OBVIOUS
      <3>2. PICK i \in I : TRUE
        OBVIOUS
      <3>3. n - i \in J
        OBVIOUS
      <3> QED BY <3>1, <3>3
    <2>2. PICK j \in J : \A k \in J : j <= k
      <3> HIDE DEF J
      <3> QED BY <2>1, LeastNumber
    <2>3. PICK x \in I : j = n - x
      OBVIOUS
    <2>4. ASSUME NEW y \in I PROVE x >= y
      <3>1. n - y \in J
        OBVIOUS
      <3>2. n - x <= n - y
        BY <2>2, <2>3, <3>1
      <3> QED BY <3>2
    <2> QED BY <2>4
  <1> QED BY <1>1, <1>2 DEF Min, Max

\* The first line with text, and the last
LEMMA TextPlaces ==
  ASSUME NEW ls, NEW n \in Nat, n = Len(ls)
  PROVE  FirstText(ls) \in 0..n /\ LastText(ls) \in 0..n
  <1> DEFINE I == {i \in 1..n : ~IsBlank(ls[i])}
  <1>1. FirstText(ls) = IF I # {} THEN Min(I) ELSE 0
    BY DEF SelectInSeq, FirstText
  <1>2. LastText(ls) = IF I # {} THEN Max(I) ELSE 0
    BY DEF SelectLastInSeq, LastText
  <1>3. I \in SUBSET (1..n)
    OBVIOUS
  <1> HIDE DEF I
  <1>4. I = {} \/ (Min(I) \in 1..n /\ Max(I) \in 1..n)
    BY <1>3, FirstAndLast
  <1> QED BY <1>1, <1>2, <1>4

\* Dropping blank lines, before or after, takes no more than there is.
LEMMA DropsLead ==
  ASSUME NEW S, NEW ls \in Seq(S)
  PROVE  /\ DropBlank(ls) \in Seq(S)
         /\ Lead(ls) \in 0..Len(ls) /\ Trail(ls) \in 0..Len(ls)
  <1>1. PICK n \in Nat : n = Len(ls)
    BY LenProperties
  <1>2. PICK k \in 0..n, m \in 0..n : k = FirstText(ls) /\ m = LastText(ls)
    BY <1>1, TextPlaces
  <1>4. Trail(ls) \in 0..n
    BY <1>1, <1>2 DEF Trail
  <1>5. CASE k = 0
    <2>1. DropBlank(ls) = <<>>
      BY <1>2, <1>5 DEF DropBlank
    <2>2. Lead(ls) = n
      BY <1>1, <2>1 DEF Lead
    <2> QED BY <1>1, <1>4, <2>1, <2>2
  <1>6. CASE k # 0
    <2>1. DropBlank(ls) = SubSeq(ls, k, n)
      BY <1>1, <1>2, <1>6 DEF DropBlank
    <2>2. SubSeq(ls, k, n) \in Seq(S) /\ Len(SubSeq(ls, k, n)) = n - k + 1
      <3>1. k \in 1..(Len(ls)+1) /\ n \in (k-1)..Len(ls)
        BY <1>1, <1>6
      <3>2. Len(SubSeq(ls, k, n)) = IF k <= n THEN n - k + 1 ELSE 0
        BY <3>1, SubSeqProperties
      <3>3. SubSeq(ls, k, n) \in Seq(S)
        BY <3>1, SubSeqProperties
      <3> QED BY <1>6, <3>2, <3>3
    <2>3. Lead(ls) = k - 1
      BY <1>1, <2>1, <2>2 DEF Lead
    <2> QED BY <1>1, <1>4, <1>6, <2>1, <2>2, <2>3
  <1> QED BY <1>5, <1>6

\* Lines of the text
Lines == [mark : Marks, shard : Nat]

\* The lines have a page each: of their own shard, none of them after the k-th, and
\* the pages do not go back.
Mapped(ls, map, shards, k) ==
  /\ ls \in Seq(Lines) /\ map \in Seq(Nat) /\ Len(map) = Len(ls)
  /\ \A i \in 1..Len(ls) : /\ ls[i].shard \in 1..k /\ map[i] <= shards[k].hi
                           /\ map[i] \in shards[ls[i].shard].lo..shards[ls[i].shard].hi
  /\ \A i, j \in 1..Len(ls) : i <= j => map[i] <= map[j]

\* The books
ShelfKept == /\ shelf \in Seq([lines : Seq(Marks), lo : Nat, hi : Nat])
             /\ \A i \in 1..Len(shelf) : shelf[i].lo <= shelf[i].hi
             /\ \A i \in 2..Len(shelf) : shelf[i-1].hi <= shelf[i].lo

StInv == /\ ShelfKept
         /\ next \in 1..(Len(shelf) + 1)
         /\ Mapped(lines, pageOf, shelf, next - 1)
         /\ stPc = "stitched" => Mapped(markdown, pages, shelf, Len(shelf))

\* At the start nothing is mapped.
LEMMA StInitial == StInit => StInv
  <1> SUFFICES ASSUME StInit PROVE StInv
    OBVIOUS
  <1>1. PICK s \in Shelves : Shelved(s)
    BY DEF StInit
  <1>2. shelf \in Shelves /\ next = 1 /\ lines = <<>> /\ pageOf = <<>> /\ stPc = "shards"
    BY <1>1 DEF Shelved
  <1>3. ShelfKept
    <2>1. shelf \in Seq([lines : Seq(Marks), lo : Nat, hi : Nat])
      BY <1>2, StitchAssumption
    <2>2. \A i \in DOMAIN shelf : shelf[i].lo <= shelf[i].hi /\ (i > 1 => shelf[i-1].hi <= shelf[i].lo)
      BY <1>2, StitchAssumption
    <2>3. DOMAIN shelf = 1..Len(shelf) /\ Len(shelf) \in Nat
      BY <2>1, LenProperties
    <2>4. \A i \in 2..Len(shelf) : i \in 1..Len(shelf) /\ i > 1
      BY <2>3
    <2> QED BY <2>1, <2>2, <2>3, <2>4 DEF ShelfKept
  <1>4. Len(shelf) \in Nat
    BY <1>3, LenProperties DEF ShelfKept
  <1>5. Mapped(lines, pageOf, shelf, next - 1)
    <2>1. lines \in Seq(Lines) /\ pageOf \in Seq(Nat) /\ Len(lines) = 0 /\ Len(pageOf) = 0
      BY <1>2
    <2>2. 1..Len(lines) = {}
      BY <2>1
    <2> QED BY <2>1, <2>2 DEF Mapped
  <1> QED BY <1>2, <1>3, <1>4, <1>5 DEF StInv

\* What is left of a shard's lines once a heading is dropped is lines of that shard.
LEMMA ReconciledLines ==
  ASSUME NEW S, NEW ls \in Seq(S)
  PROVE  Reconciled(ls) \in Seq(S)
  <1>1. CASE Reconciled(ls) = ls
    BY <1>1
  <1>2. CASE Reconciled(ls) = DropBlank(Tail(ls)) /\ ls # <<>>
    <2>1. Tail(ls) \in Seq(S)
      BY <1>2
    <2> QED BY <1>2, <2>1, DropsLead
  <1>3. Reconciled(ls) = ls \/ (Reconciled(ls) = DropBlank(Tail(ls)) /\ ls # <<>>)
    <2>1. SelectInSeq(<<>>, IsHeading) = 0
      BY DEF SelectInSeq
    <2> QED BY <2>1 DEF Reconciled
  <1> QED BY <1>1, <1>2, <1>3

\* The pages of the lines of one shard
PagesOf(s, ls) == [i \in DOMAIN ls |-> Page(s, i - 1, Len(ls))]

\* They are pages of it, and do not go back.
LEMMA PagesOfShard ==
  ASSUME NEW S, NEW ls \in Seq(S), NEW s, s.lo \in Nat, s.hi \in Nat, s.lo <= s.hi
  PROVE  /\ PagesOf(s, ls) \in Seq(Nat) /\ Len(PagesOf(s, ls)) = Len(ls)
         /\ \A i \in 1..Len(ls) : PagesOf(s, ls)[i] \in s.lo..s.hi
         /\ \A i, j \in 1..Len(ls) : i <= j => PagesOf(s, ls)[i] <= PagesOf(s, ls)[j]
  <1>1. PICK n \in Nat : n = Len(ls) /\ DOMAIN ls = 1..n
    BY LenProperties
  <1>2. PICK e : e = PagesOf(s, ls)
    OBVIOUS
  <1>3. e = [i \in 1..n |-> Page(s, i - 1, n)]
    BY <1>1, <1>2 DEF PagesOf
  <1>4. ASSUME NEW i \in 1..n, NEW j \in 1..n, i <= j
        PROVE  e[i] \in s.lo..s.hi /\ e[i] <= e[j]
    <2>1. PICK x \in 0..(n-1), y \in 0..(n-1) : x = i - 1 /\ y = j - 1 /\ x <= y
      BY <1>4
    <2>2. n \in Nat \ {0}
      OBVIOUS
    <2>3. Page(s, x, n) \in s.lo..s.hi /\ Page(s, x, n) <= Page(s, y, n)
      BY <2>1, <2>2, PageInShard
    <2> QED BY <1>3, <2>1, <2>3
  <1>5. \A i \in 1..n : e[i] \in s.lo..s.hi /\ e[i] \in Nat
    <2> SUFFICES ASSUME NEW i \in 1..n PROVE e[i] \in s.lo..s.hi
      OBVIOUS
    <2> QED BY <1>4
  <1>6. e \in Seq(Nat) /\ Len(e) = n
    <2>1. e = [i \in 1..n |-> e[i]]
      BY <1>3
    <2>2. e \in Seq(Nat)
      BY <1>5, <2>1, Listed
    <2>3. DOMAIN e = 1..n
      BY <2>1
    <2> QED BY <2>2, <2>3, LenProperties
  <1> QED BY <1>1, <1>2, <1>4, <1>5, <1>6

\* One more shard
LEMMA MappedMore ==
  ASSUME NEW k \in Nat, NEW shards, NEW ls, NEW map, Mapped(ls, map, shards, k),
         shards[k+1].lo \in Nat, shards[k+1].hi \in Nat, shards[k+1].lo <= shards[k+1].hi,
         k > 0 => shards[k].hi \in Nat /\ shards[k].hi <= shards[k+1].lo,
         NEW add \in Seq(Lines), \A i \in 1..Len(add) : add[i].shard = k + 1
  PROVE  Mapped(ls \o add, map \o PagesOf(shards[k+1], add), shards, k + 1)
  <1>1. PICK s : s = shards[k+1]
    OBVIOUS
  <1>2. PICK e : e = PagesOf(s, add)
    OBVIOUS
  <1>3. PICK m \in Nat, n \in Nat : m = Len(ls) /\ n = Len(add)
    BY LenProperties DEF Mapped
  <1>4. /\ e \in Seq(Nat) /\ Len(e) = n
        /\ \A i \in 1..n : e[i] \in s.lo..s.hi
        /\ \A i, j \in 1..n : i <= j => e[i] <= e[j]
    BY <1>1, <1>2, <1>3, PagesOfShard
  <1>5. /\ ls \in Seq(Lines) /\ map \in Seq(Nat) /\ Len(map) = m
        /\ \A i \in 1..m : /\ ls[i].shard \in 1..k /\ map[i] <= shards[k].hi
                           /\ map[i] \in shards[ls[i].shard].lo..shards[ls[i].shard].hi
        /\ \A i, j \in 1..m : i <= j => map[i] <= map[j]
    BY <1>3 DEF Mapped
  <1>6. PICK L, M : L = ls \o add /\ M = map \o e
    OBVIOUS
  <1>7. /\ L \in Seq(Lines) /\ Len(L) = m + n
        /\ \A i \in 1..(m+n) : L[i] = IF i <= m THEN ls[i] ELSE add[i-m]
    BY <1>3, <1>5, <1>6, ConcatProperties
  <1>8. /\ M \in Seq(Nat) /\ Len(M) = m + n
        /\ \A i \in 1..(m+n) : M[i] = IF i <= m THEN map[i] ELSE e[i-m]
    <2> DEFINE T == Nat
    <2>1. map \in Seq(T) /\ e \in Seq(T) /\ Len(map) = m /\ Len(e) = n
      BY <1>4, <1>5
    <2> HIDE DEF T
    <2>2. /\ M \in Seq(T) /\ Len(M) = m + n
          /\ \A i \in 1..(m+n) : M[i] = IF i <= m THEN map[i] ELSE e[i-m]
      BY <1>6, <2>1, ConcatProperties
    <2> QED BY <2>2 DEF T
  <1>9. \A i \in 1..m : L[i] = ls[i] /\ M[i] = map[i] /\ map[i] \in Nat
    <2> SUFFICES ASSUME NEW i \in 1..m PROVE L[i] = ls[i] /\ M[i] = map[i] /\ map[i] \in Nat
      OBVIOUS
    <2>1. i \in 1..(m+n) /\ i <= m /\ i \in 1..Len(map)
      BY <1>5
    <2>2. map[i] \in Nat
      BY <1>5, <2>1, ElementOfSeq
    <2> QED BY <1>7, <1>8, <2>1, <2>2
  <1>10. \A i \in 1..(m+n) : i > m => i - m \in 1..n /\ L[i] = add[i-m] /\ M[i] = e[i-m]
    BY <1>7, <1>8
  <1>11. ASSUME NEW i \in 1..(m+n)
         PROVE  /\ L[i].shard \in 1..(k+1) /\ M[i] <= s.hi
                /\ M[i] \in shards[L[i].shard].lo..shards[L[i].shard].hi
    <2>1. CASE i <= m
      <3>1. i \in 1..m
        BY <2>1
      <3>2. /\ ls[i].shard \in 1..k /\ map[i] <= shards[k].hi /\ k > 0
            /\ map[i] \in shards[ls[i].shard].lo..shards[ls[i].shard].hi
        BY <1>5, <3>1, SMTT(40)
      <3>3. map[i] \in Nat /\ map[i] <= s.hi
        BY <1>1, <1>9, <3>1, <3>2, SMTT(40)
      <3>4. ls[i].shard \in 1..(k+1)
        BY <3>2
      <3> QED BY <1>9, <3>1, <3>2, <3>3, <3>4
    <2>2. CASE i > m
      <3>1. PICK j \in 1..n : j = i - m /\ L[i] = add[j] /\ M[i] = e[j]
        BY <1>10, <2>2
      <3>2. add[j].shard = k + 1 /\ e[j] \in s.lo..s.hi
        BY <1>3, <1>4, <3>1
      <3> QED BY <1>1, <3>1, <3>2
    <2> QED BY <2>1, <2>2
  <1>12. ASSUME NEW i \in 1..(m+n), NEW j \in 1..(m+n), i <= j PROVE M[i] <= M[j]
    <2>1. CASE j <= m
      <3>1. i \in 1..m /\ j \in 1..m
        BY <1>12, <2>1
      <3> QED BY <1>5, <1>9, <1>12, <3>1
    <2>2. CASE i <= m /\ j > m
      <3>1. i \in 1..m
        BY <2>2
      <3>2. M[i] \in Nat /\ M[i] <= shards[k].hi /\ k > 0
        <4>1. M[i] = map[i] /\ map[i] \in Nat
          BY <1>9, <3>1
        <4>2. map[i] <= shards[k].hi /\ ls[i].shard \in 1..k
          BY <1>5, <3>1
        <4> QED BY <4>1, <4>2
      <3>3. M[j] \in s.lo..s.hi
        <4>1. PICK q \in 1..n : q = j - m /\ M[j] = e[q]
          BY <1>10, <2>2
        <4> QED BY <1>4, <4>1
      <3> QED BY <1>1, <3>2, <3>3, SMTT(40)
    <2>3. CASE i > m
      <3>1. PICK p \in 1..n, q \in 1..n : p = i - m /\ q = j - m /\ M[i] = e[p] /\ M[j] = e[q]
        BY <1>10, <1>12, <2>3
      <3>2. p <= q
        BY <1>12, <3>1
      <3> QED BY <1>4, <3>1, <3>2
    <2> QED BY <2>1, <2>2, <2>3
  <1>13. Mapped(L, M, shards, k + 1)
    <2>1. Len(M) = Len(L) /\ Len(L) = m + n
      BY <1>7, <1>8
    <2> QED BY <1>1, <1>7, <1>8, <1>11, <1>12, <2>1 DEF Mapped
  <1> QED BY <1>1, <1>2, <1>6, <1>13

\* Taking lines and pages off both ends keeps the rest mapped.
LEMMA MappedPart ==
  ASSUME NEW k \in Nat, NEW shards, NEW ls, NEW map, Mapped(ls, map, shards, k),
         NEW a \in 0..Len(ls), NEW b \in 0..Len(ls)
  PROVE  Mapped(SubSeq(ls, 1 + a, Len(ls) - b), SubSeq(map, 1 + a, Len(map) - b), shards, k)
  <1>1. PICK n \in Nat : n = Len(ls)
    BY LenProperties DEF Mapped
  <1>2. /\ ls \in Seq(Lines) /\ map \in Seq(Nat) /\ Len(map) = n
        /\ \A i \in 1..n : /\ ls[i].shard \in 1..k /\ map[i] <= shards[k].hi
                           /\ map[i] \in shards[ls[i].shard].lo..shards[ls[i].shard].hi
        /\ \A i, j \in 1..n : i <= j => map[i] <= map[j]
    BY <1>1 DEF Mapped
  <1>3. PICK c \in Int, d \in Int : c = 1 + a /\ d = n - b
    <2>1. a \in 0..n /\ b \in 0..n
      BY <1>1
    <2>2. 1 + a \in Int /\ n - b \in Int
      BY <2>1
    <2> QED BY <2>2
  <1>4. \A i \in c..d : i \in 1..n
    BY <1>1, <1>3
  <1>5. PICK L, M : L = SubSeq(ls, c, d) /\ M = SubSeq(map, c, d)
    OBVIOUS
  <1>6. PICK w \in Nat : w = IF c <= d THEN d - c + 1 ELSE 0
    <2>1. (IF c <= d THEN d - c + 1 ELSE 0) \in Nat
      OBVIOUS
    <2> QED BY <2>1
  <1>7. /\ L \in Seq(Lines) /\ Len(L) = w
        /\ \A i \in 1..w : L[i] = ls[c+i-1]
    <2>1. \A i \in c..d : ls[i] \in Lines
      BY <1>1, <1>2, <1>4, ElementOfSeq
    <2>2. /\ L \in Seq(Lines) /\ Len(L) = IF c <= d THEN d - c + 1 ELSE 0
          /\ \A i \in 1..(d - c + 1) : L[i] = ls[c+i-1]
      BY <1>5, <2>1, SubSeqProperties
    <2> QED BY <1>6, <2>2
  <1>8. /\ M \in Seq(Nat) /\ Len(M) = w
        /\ \A i \in 1..w : M[i] = map[c+i-1]
    <2>1. \A i \in c..d : map[i] \in Nat
      BY <1>2, <1>4, ElementOfSeq
    <2>2. /\ M \in Seq(Nat) /\ Len(M) = IF c <= d THEN d - c + 1 ELSE 0
          /\ \A i \in 1..(d - c + 1) : M[i] = map[c+i-1]
      BY <1>5, <2>1, SubSeqProperties
    <2> QED BY <1>6, <2>2
  <1>9. ASSUME NEW i \in 1..w
        PROVE  \E x \in 1..n : x = c + i - 1 /\ L[i] = ls[x] /\ M[i] = map[x]
    <2>1. c + i - 1 \in c..d
      BY <1>6
    <2> QED BY <1>4, <1>7, <1>8, <2>1
  <1>10. ASSUME NEW i \in 1..w
         PROVE  /\ L[i].shard \in 1..k /\ M[i] <= shards[k].hi
                /\ M[i] \in shards[L[i].shard].lo..shards[L[i].shard].hi
    BY <1>2, <1>9
  <1>11. ASSUME NEW i \in 1..w, NEW j \in 1..w, i <= j PROVE M[i] <= M[j]
    <2>1. PICK x \in 1..n, y \in 1..n : x = c + i - 1 /\ y = c + j - 1 /\ M[i] = map[x] /\ M[j] = map[y]
      BY <1>9
    <2>2. x <= y
      BY <1>11, <2>1
    <2> QED BY <1>2, <2>1, <2>2
  <1>12. Mapped(L, M, shards, k)
    BY <1>7, <1>8, <1>10, <1>11 DEF Mapped
  <1> QED BY <1>1, <1>2, <1>3, <1>5, <1>12

\* A turn of the loop
LEMMA StitchShardKeeps ==
  ASSUME StInv, StitchShard
  PROVE  StInv'
  <1> DEFINE raw == [i \in DOMAIN shelf[next].lines |-> [mark |-> shelf[next].lines[i], shard |-> next]]
  <1>1. PICK k \in Nat, n \in Nat : next = k + 1 /\ n = Len(shelf) /\ k + 1 <= n
    <2>1. Len(shelf) \in Nat /\ next \in 1..(Len(shelf) + 1) /\ next <= Len(shelf)
      BY LenProperties DEF StInv, ShelfKept, StitchShard
    <2>2. next - 1 \in Nat /\ next = (next - 1) + 1
      BY <2>1
    <2> QED BY <2>1, <2>2
  <1>2. /\ shelf \in Seq([lines : Seq(Marks), lo : Nat, hi : Nat])
        /\ \A i \in 1..n : shelf[i].lo <= shelf[i].hi
        /\ \A i \in 2..n : shelf[i-1].hi <= shelf[i].lo
    BY <1>1 DEF StInv, ShelfKept
  <1>3. \A i \in 1..n : shelf[i] \in [lines : Seq(Marks), lo : Nat, hi : Nat]
    BY <1>1, <1>2, ElementOfSeq
  <1>4. PICK s : s = shelf[k+1] /\ s.lines \in Seq(Marks) /\ s.lo \in Nat /\ s.hi \in Nat /\ s.lo <= s.hi
    <2>1. k + 1 \in 1..n
      BY <1>1
    <2> QED BY <1>2, <1>3, <2>1
  <1>5. k > 0 => shelf[k].hi \in Nat /\ shelf[k].hi <= s.lo
    <2> SUFFICES ASSUME k > 0 PROVE shelf[k].hi \in Nat /\ shelf[k].hi <= s.lo
      OBVIOUS
    <2>1. k \in 1..n /\ k + 1 \in 2..n /\ (k + 1) - 1 = k
      BY <1>1
    <2> QED BY <1>2, <1>3, <1>4, <2>1
  <1>6. raw \in Seq([mark : Marks, shard : {k + 1}])
    <2>1. PICK m \in Nat : m = Len(s.lines) /\ DOMAIN s.lines = 1..m
      BY <1>4, LenProperties
    <2>2. \A i \in 1..m : s.lines[i] \in Marks
      BY <1>4, <2>1, ElementOfSeq
    <2>3. raw = [i \in 1..m |-> [mark |-> s.lines[i], shard |-> k + 1]]
      BY <1>1, <1>4, <2>1
    <2>4. \A i \in 1..m : raw[i] \in [mark : Marks, shard : {k + 1}]
      BY <2>2, <2>3
    <2>5. raw = [i \in 1..m |-> raw[i]]
      BY <2>3
    <2> HIDE DEF raw
    <2> QED BY <2>4, <2>5, Listed
  <1>7. PICK add : add = Reconciled(raw) /\ add \in Seq([mark : Marks, shard : {k + 1}])
    <2> HIDE DEF raw
    <2> QED BY <1>6, ReconciledLines
  <1>8. \A i \in 1..Len(add) : add[i] \in Lines /\ add[i].shard = k + 1
    <2>1. \A i \in 1..Len(add) : add[i] \in [mark : Marks, shard : {k + 1}]
      BY <1>7, ElementOfSeq
    <2> QED BY <2>1 DEF Lines
  <1>9. add \in Seq(Lines)
    <2>1. Len(add) \in Nat /\ add = [i \in 1..Len(add) |-> add[i]]
      BY <1>7, LenProperties, SMTT(30)
    <2> QED BY <1>8, <2>1, Listed
  <1>10. /\ lines' = lines \o add /\ pageOf' = pageOf \o PagesOf(s, add)
         /\ shelf' = shelf /\ next' = next + 1 /\ stPc' = "shards"
    BY <1>1, <1>4, <1>7 DEF StitchShard, PagesOf
  <1>11. Mapped(lines, pageOf, shelf, k)
    BY <1>1 DEF StInv
  <1>12. Mapped(lines \o add, pageOf \o PagesOf(s, add), shelf, k + 1)
    BY <1>4, <1>5, <1>8, <1>9, <1>11, MappedMore
  <1>13. next' \in 1..(n + 1) /\ next' - 1 = k + 1
    BY <1>1, <1>10
  <1>14. ShelfKept'
    BY <1>10 DEF StInv, ShelfKept
  <1> QED BY <1>1, <1>10, <1>12, <1>13, <1>14 DEF StInv

\* The end: what is cut from the text is cut from the map.
LEMMA StitchEndKeeps ==
  ASSUME StInv, StitchEnd
  PROVE  StInv'
  <1>1. PICK n \in Nat : n = Len(shelf) /\ next = n + 1
    <2>1. Len(shelf) \in Nat /\ next \in 1..(Len(shelf) + 1) /\ next > Len(shelf)
      BY LenProperties DEF StInv, ShelfKept, StitchEnd
    <2> QED BY <2>1
  <1>2. Mapped(lines, pageOf, shelf, n)
    BY <1>1 DEF StInv
  <1>3. PICK a \in 0..Len(lines), b \in 0..Len(lines) : a = Lead(lines) /\ b = Trail(lines)
    <2>1. lines \in Seq(Lines)
      BY <1>2 DEF Mapped
    <2> QED BY <2>1, DropsLead
  <1>4. PICK md, map : /\ md = SubSeq(lines, 1 + a, Len(lines) - b)
                       /\ map = SubSeq(pageOf, 1 + a, Len(pageOf) - b)
    OBVIOUS
  <1>5. Mapped(md, map, shelf, n)
    BY <1>2, <1>3, <1>4, MappedPart
  <1>6. Len(map) = Len(md)
    BY <1>5 DEF Mapped
  <1>7. markdown' = md /\ pages' = map
    BY <1>3, <1>4, <1>6 DEF StitchEnd, Align
  <1>8. UNCHANGED <<shelf, next, lines, pageOf>>
    BY DEF StitchEnd
  <1>9. ShelfKept'
    BY <1>8 DEF StInv, ShelfKept
  <1> QED BY <1>1, <1>2, <1>5, <1>7, <1>8, <1>9 DEF StInv

\* Every step keeps the invariant.
LEMMA StStep == StInv /\ [StNext]_stvars => StInv'
  <1> SUFFICES ASSUME StInv, [StNext]_stvars PROVE StInv'
    OBVIOUS
  <1>1. CASE StitchShard
    BY <1>1, StitchShardKeeps
  <1>2. CASE StitchEnd
    BY <1>2, StitchEndKeeps
  <1>3. CASE UNCHANGED stvars
    BY <1>3 DEF StInv, ShelfKept, stvars
  <1> QED BY <1>1, <1>2, <1>3 DEF StNext

\* Where the lines of the text start: the sums of what is before them.
Starts(f, n) == /\ f \in [0..n -> Nat] /\ f[0] = 0
                /\ \A k \in 1..n : f[k] = f[k-1] + Runes(markdown[k])

\* There are such sums, ...
LEMMA StartsExist ==
  ASSUME NEW n \in Nat
  PROVE  \E f : Starts(f, n)
  <1> DEFINE G == [k \in 1..n |-> [x \in Nat |-> x + Runes(markdown[k])]]
  <1>1. ASSUME NEW k \in 1..n PROVE G[k] \in [Nat -> Nat]
    <2>1. Runes(markdown[k]) \in Nat
      BY DEF Runes
    <2>2. \A x \in Nat : x + Runes(markdown[k]) \in Nat
      BY <2>1
    <2> QED BY <2>2
  <1>2. G \in [1..n -> [Nat -> Nat]]
    BY <1>1
  <1>3. \A k \in 1..n : \A x \in Nat : G[k][x] = x + Runes(markdown[k])
    OBVIOUS
  <1> HIDE DEF G
  <1>4. PICK f \in [0..n -> Nat] : f[0] = 0 /\ \A k \in 1..n : f[k] = G[k][f[k-1]]
    <2> DEFINE S == Nat a == 0
    <2>1. a \in S /\ G \in [1..n -> [S -> S]]
      BY <1>2
    <2> HIDE DEF S, a
    <2>2. \E f \in [0..n -> S] : Recurses(f, a, G, n)
      BY <2>1, RecursionExists
    <2> QED BY <2>2 DEF S, a, Recurses
  <1>5. ASSUME NEW k \in 1..n PROVE f[k] = f[k-1] + Runes(markdown[k])
    <2>1. k - 1 \in 0..n
      OBVIOUS
    <2>2. f[k-1] \in Nat
      BY <2>1
    <2> QED BY <1>3, <1>4, <2>2
  <1> QED BY <1>4, <1>5 DEF Starts

\* ... and LineStart is one of them.
LEMMA LineStartIs ==
  ASSUME NEW n \in Nat, NEW f, Starts(f, n), NEW k \in 1..(n+1)
  PROVE  LineStart(k) = f[k-1]
  <1>1. PICK m \in Nat : m = k - 1 /\ m <= n
    <2>1. k - 1 \in Nat /\ k - 1 <= n
      OBVIOUS
    <2> QED BY <2>1
  <1> DEFINE Val(h, i) == IF i = 0 THEN 0 ELSE h[i-1] + Runes(markdown[i])
             Is(h) == h = [i \in 0..m |-> Val(h, i)]
             F == [i \in 0..m |-> f[i]]
             H == CHOOSE h : Is(h)
  <1>2. LineStart(k) = H[m]
    BY <1>1 DEF LineStart
  <1>3. f[0] = 0 /\ \A i \in 1..m : f[i] = f[i-1] + Runes(markdown[i])
    BY <1>1 DEF Starts
  <1>4. F = [i \in 0..m |-> F[i]] /\ \A i \in 0..m : F[i] = f[i]
    OBVIOUS
  <1> HIDE DEF F
  <1>5. ASSUME NEW i \in 0..m PROVE F[i] = Val(F, i)
    <2>1. CASE i = 0
      BY <1>3, <1>4, <2>1
    <2>2. CASE i # 0
      <3>1. i \in 1..m /\ i - 1 \in 0..m
        BY <2>2
      <3>2. F[i] = f[i] /\ F[i-1] = f[i-1] /\ f[i] = f[i-1] + Runes(markdown[i])
        BY <1>3, <1>4, <3>1
      <3> QED BY <2>2, <3>2
    <2> QED BY <2>1, <2>2
  <1>6. Is(F)
    <2> HIDE DEF Val
    <2> QED BY <1>4, <1>5
  <1>7. Is(H)
    <2> HIDE DEF Is
    <2> QED BY <1>6
  <1>8. \A i \in 0..m : H[i] = Val(H, i)
    <2> HIDE DEF Val, H
    <2> QED BY <1>7
  <1> HIDE DEF H, Is
  <1>9. f[0] = H[0]
    BY <1>3, <1>8
  <1>10. ASSUME NEW i \in 1..m, f[i-1] = H[i-1] PROVE f[i] = H[i]
    <2>1. i \in 0..m /\ i # 0
      OBVIOUS
    <2>2. H[i] = H[i-1] + Runes(markdown[i])
      BY <1>8, <2>1
    <2> QED BY <1>3, <1>10, <2>2
  <1>11. \A i \in 0..m : f[i] = H[i]
    <2> HIDE DEF Val
    <2> QED BY <1>9, <1>10, RecursionUnique DEF Agree
  <1>12. m \in 0..m
    OBVIOUS
  <1> QED BY <1>1, <1>2, <1>11, <1>12

\* The starts grow.
LEMMA StartsGrow ==
  ASSUME NEW n \in Nat, NEW f, Starts(f, n), NEW i \in 0..n, NEW j \in i..n
  PROVE  f[i] <= f[j]
  <1> DEFINE P == {c \in i..n : f[i] <= f[c]}
  <1>1. i \in P
    BY DEF Starts
  <1>2. ASSUME NEW c \in i..(n-1), c \in P PROVE c + 1 \in P
    <2>1. c + 1 \in 1..n /\ (c + 1) - 1 = c /\ c \in 0..n /\ c + 1 \in 0..n /\ c + 1 \in i..n
      OBVIOUS
    <2>2. f[c] \in Nat /\ f[i] \in Nat /\ f[c+1] = f[c] + Runes(markdown[c+1])
      BY <2>1 DEF Starts
    <2>3. Runes(markdown[c+1]) \in {1, 2}
      BY DEF Runes
    <2>4. f[i] <= f[c+1]
      BY <1>2, <2>2, <2>3
    <2> QED BY <2>1, <2>4
  <1>3. i \in Int /\ n \in Int
    OBVIOUS
  <1>4. \A c \in i..n : c \in P
    <2> HIDE DEF P
    <2> QED BY <1>1, <1>2, <1>3, IntervalInduction
  <1> QED BY <1>4

\* LineFor finds the line an offset is in.
LEMMA LineForIs ==
  ASSUME NEW n \in Nat, NEW f, Starts(f, n), markdown \in Seq(Lines), n = Len(markdown),
         NEW i \in 1..n, NEW off \in Nat, f[i-1] <= off, off < f[i]
  PROVE  LineFor(off) = i
  <1> DEFINE Hit(k) == LineStart(k) <= off /\ (k = n \/ off < LineStart(k + 1))
  <1>1. DOMAIN markdown = 1..n
    BY LenProperties
  <1>2. LineFor(off) = CHOOSE k \in 1..n : Hit(k)
    BY <1>1 DEF LineFor
  <1>3. \A k \in 1..n : LineStart(k) = f[k-1] /\ LineStart(k+1) = f[k] /\ f[k-1] \in Nat /\ f[k] \in Nat
    <2> SUFFICES ASSUME NEW k \in 1..n
                 PROVE  LineStart(k) = f[k-1] /\ LineStart(k+1) = f[k] /\ f[k-1] \in Nat /\ f[k] \in Nat
      OBVIOUS
    <2>1. k \in 1..(n+1) /\ k + 1 \in 1..(n+1) /\ (k + 1) - 1 = k /\ k - 1 \in 0..n /\ k \in 0..n
      OBVIOUS
    <2>2. PICK l \in 1..(n+1) : l = k + 1
      BY <2>1
    <2>3. LineStart(k) = f[k-1] /\ LineStart(l) = f[l-1]
      BY <2>1, LineStartIs
    <2> QED BY <2>1, <2>2, <2>3 DEF Starts
  <1>4. Hit(i)
    BY <1>3
  <1>5. ASSUME NEW k \in 1..n, Hit(k) PROVE k = i
    <2>1. f[k-1] <= off /\ (k = n \/ off < f[k])
      BY <1>3, <1>5
    <2>2. CASE k < i
      <3>1. k \in 0..n /\ i - 1 \in k..n
        BY <2>2
      <3>2. f[k] <= f[i-1]
        BY <3>1, StartsGrow
      <3> QED BY <1>3, <2>1, <2>2, <3>2
    <2>3. CASE i < k
      <3>1. i \in 0..n /\ k - 1 \in i..n
        BY <2>3
      <3>2. f[i] <= f[k-1]
        BY <3>1, StartsGrow
      <3> QED BY <1>3, <2>1, <3>2
    <2> QED BY <2>2, <2>3
  <1> HIDE DEF Hit
  <1> QED BY <1>2, <1>4, <1>5

\* The page range of a chunk, from its first line and its last
LEMMA RangeIs ==
  ASSUME markdown \in Seq(Lines), NEW n \in Nat, n = Len(markdown), NEW i \in 1..n, NEW j \in 1..n
  PROVE  RangeFor(LineStart(i), LineStart(j + 1)) = <<pages[i], pages[j]>>
  <1>1. PICK f : Starts(f, n)
    BY StartsExist
  <1>2. i \in 1..(n+1) /\ j + 1 \in 1..(n+1) /\ (j + 1) - 1 = j /\ i - 1 \in 0..n /\ j - 1 \in 0..n
        /\ i \in 0..n /\ j \in 0..n
    OBVIOUS
  <1>3. LineStart(i) = f[i-1] /\ LineStart(j + 1) = f[j]
    <2>1. PICK l \in 1..(n+1) : l = j + 1
      BY <1>2
    <2>2. LineStart(i) = f[i-1] /\ LineStart(l) = f[l-1]
      BY <1>1, <1>2, LineStartIs
    <2> QED BY <1>2, <2>1, <2>2
  <1>4. /\ f[i-1] \in Nat /\ f[j-1] \in Nat /\ f[i] \in Nat /\ f[j] \in Nat
        /\ f[i] = f[i-1] + Runes(markdown[i]) /\ f[j] = f[j-1] + Runes(markdown[j])
    BY <1>1, <1>2 DEF Starts
  <1>5. Runes(markdown[i]) \in {1, 2} /\ Runes(markdown[j]) \in {1, 2}
    BY DEF Runes
  <1>6. LineFor(f[i-1]) = i
    <2>1. PICK off \in Nat : off = f[i-1] /\ f[i-1] <= off /\ off < f[i]
      BY <1>4, <1>5, SMTT(30)
    <2>2. LineFor(off) = i
      BY <1>1, <2>1, LineForIs
    <2> QED BY <2>1, <2>2
  <1>7. LineFor(f[j] - 1) = j
    <2>1. PICK off \in Nat : off = f[j] - 1 /\ f[j-1] <= off /\ off < f[j]
      <3>1. f[j] - 1 \in Nat /\ f[j-1] <= f[j] - 1 /\ f[j] - 1 < f[j]
        BY <1>4, <1>5, SMTT(30)
      <3> QED BY <3>1
    <2>2. LineFor(off) = j
      BY <1>1, <2>1, LineForIs
    <2> QED BY <2>1, <2>2
  <1> QED BY <1>3, <1>6, <1>7 DEF RangeFor

\* For any shards in page order, and any headings dropped between them: the page map
\* has one page for every line of the text, the first page of a chunk is one of the
\* shard of its first line and the last one of the shard of its last line, whatever
\* blank lines TrimSpace and alignPages took off, and the range is never inverted
\* (stitchShards, alignPages, pageMapper.rangeFor).
THEOREM CitationsHold == StSpec => []CitationHolds
  <1>1. StInv => CitationHolds
    <2> SUFFICES ASSUME StInv, stPc = "stitched" PROVE CitationHolds
      BY DEF CitationHolds
    <2>1. Mapped(markdown, pages, shelf, Len(shelf))
      BY DEF StInv
    <2>2. markdown \in Seq(Lines) /\ Len(pages) = Len(markdown)
      BY <2>1 DEF Mapped
    <2>3. PICK n \in Nat : n = Len(markdown) /\ DOMAIN markdown = 1..n
      BY <2>2, LenProperties
    <2>4. ASSUME NEW i \in 1..n, NEW j \in 1..n, i <= j
          PROVE  LET r == RangeFor(LineStart(i), LineStart(j + 1))
                 IN  OnShard(r[1], markdown[i]) /\ OnShard(r[2], markdown[j]) /\ r[1] <= r[2]
      <3>1. RangeFor(LineStart(i), LineStart(j + 1)) = <<pages[i], pages[j]>>
        BY <2>2, <2>3, RangeIs
      <3>2. OnShard(pages[i], markdown[i]) /\ OnShard(pages[j], markdown[j]) /\ pages[i] <= pages[j]
        BY <2>1, <2>3, <2>4 DEF Mapped, OnShard
      <3> QED BY <3>1, <3>2
    <2> QED BY <2>2, <2>3, <2>4 DEF CitationHolds
  <1> QED BY StInitial, StStep, <1>1, PTL DEF StSpec

-----------------------------------------------------------------------------
(***************************************************************************)
(* Units                                                                    *)
(*                                                                          *)
(* What the chunker keeps of a sequence, and the units a text is made of:   *)
(* joined again they are the text, and their sizes add up.                  *)
(***************************************************************************)

\* Kept, one place after the other
Keeping(K, seq, P, n) ==
  K[0] = <<>> /\ \A i \in 1..n : K[i] = IF i \in P THEN Append(K[i-1], seq[i]) ELSE K[i-1]

KeptBy(K, seq, P, n) == Keeping(K, seq, P, n) /\ Kept(seq, P) = K[n]

\* There are such steps, and Kept is the last.
LEMMA KeptSteps ==
  ASSUME NEW S, NEW seq \in Seq(S), NEW P, NEW n \in Nat, n = Len(seq)
  PROVE  \E K \in [0..n -> Seq(S)] : KeptBy(K, seq, P, n)
  <1> DEFINE G == [k \in 1..n |-> [s \in Seq(S) |-> IF k \in P THEN Append(s, seq[k]) ELSE s]]
  <1>1. ASSUME NEW k \in 1..n PROVE G[k] \in [Seq(S) -> Seq(S)]
    <2>1. seq[k] \in S
      BY ElementOfSeq
    <2>2. \A s \in Seq(S) : (IF k \in P THEN Append(s, seq[k]) ELSE s) \in Seq(S)
      BY <2>1, AppendProperties
    <2> QED BY <2>2
  <1>2. G \in [1..n -> [Seq(S) -> Seq(S)]]
    BY <1>1
  <1>3. \A k \in 1..n : \A s \in Seq(S) : G[k][s] = IF k \in P THEN Append(s, seq[k]) ELSE s
    OBVIOUS
  <1> HIDE DEF G
  <1>4. PICK f \in [0..n -> Seq(S)] : f[0] = <<>> /\ \A k \in 1..n : f[k] = G[k][f[k-1]]
    <2> DEFINE T == Seq(S) a == <<>>
    <2>1. a \in T /\ G \in [1..n -> [T -> T]]
      BY <1>2
    <2> HIDE DEF T, a
    <2>2. \E f \in [0..n -> T] : Recurses(f, a, G, n)
      BY <2>1, RecursionExists
    <2> QED BY <2>2 DEF T, a, Recurses
  <1>5. ASSUME NEW k \in 1..n PROVE f[k] = IF k \in P THEN Append(f[k-1], seq[k]) ELSE f[k-1]
    <2>1. k - 1 \in 0..n
      OBVIOUS
    <2>2. f[k-1] \in Seq(S)
      BY <2>1
    <2> QED BY <1>3, <1>4, <2>2
  <1> DEFINE Val(h, i) == IF i = 0 THEN <<>> ELSE IF i \in P THEN Append(h[i-1], seq[i]) ELSE h[i-1]
             Is(h) == h = [i \in 0..n |-> Val(h, i)]
             H == CHOOSE h : Is(h)
  <1>6. Kept(seq, P) = H[n]
    BY DEF Kept
  <1>7. f = [i \in 0..n |-> f[i]]
    OBVIOUS
  <1>8. ASSUME NEW i \in 0..n PROVE f[i] = Val(f, i)
    <2>1. CASE i = 0
      BY <1>4, <2>1
    <2>2. CASE i # 0
      <3>1. i \in 1..n
        BY <2>2
      <3> QED BY <1>5, <2>2, <3>1
    <2> QED BY <2>1, <2>2
  <1>9. Is(f)
    <2> HIDE DEF Val
    <2> QED BY <1>7, <1>8
  <1>10. Is(H)
    <2> HIDE DEF Is
    <2> QED BY <1>9
  <1>11. \A i \in 0..n : H[i] = Val(H, i)
    <2> HIDE DEF Val, H
    <2> QED BY <1>10
  <1> HIDE DEF H, Is
  <1>12. f[0] = H[0]
    BY <1>4, <1>11
  <1>13. ASSUME NEW i \in 1..n, f[i-1] = H[i-1] PROVE f[i] = H[i]
    <2>1. i \in 0..n /\ i # 0
      OBVIOUS
    <2>2. H[i] = IF i \in P THEN Append(H[i-1], seq[i]) ELSE H[i-1]
      BY <1>11, <2>1
    <2> QED BY <1>5, <1>13, <2>2
  <1>14. \A i \in 0..n : f[i] = H[i]
    <2>1. PICK F : F = f
      OBVIOUS
    <2>2. F[0] = H[0] /\ \A i \in 1..n : F[i-1] = H[i-1] => F[i] = H[i]
      <3> HIDE DEF Val
      <3> QED BY <1>12, <1>13, <2>1
    <2>3. Agree(F, H, n)
      BY <2>2, RecursionUnique
    <2> QED BY <2>1, <2>3 DEF Agree
  <1>15. n \in 0..n
    OBVIOUS
  <1>16. KeptBy(f, seq, P, n)
    BY <1>4, <1>5, <1>6, <1>14, <1>15 DEF Keeping, KeptBy
  <1> QED BY <1>16

\* s is the elements of seq at the places of P among the first k, in order.
Picks(s, seq, P, k) ==
  \E m \in 0..k : \E g \in [1..m -> 1..k] :
    /\ s = [j \in 1..m |-> seq[g[j]]]
    /\ \A j \in 1..m : g[j] \in P
    /\ \A i \in 1..k : i \in P => \E j \in 1..m : g[j] = i
    /\ \A a, b \in 1..m : a < b => g[a] < g[b]

\* One place more, that is not in P
LEMMA PicksPass ==
  ASSUME NEW s, NEW seq, NEW P, NEW k \in Nat, Picks(s, seq, P, k), k + 1 \notin P
  PROVE  Picks(s, seq, P, k + 1)
  <1>1. PICK m \in 0..k : \E g \in [1..m -> 1..k] :
          /\ s = [j \in 1..m |-> seq[g[j]]]
          /\ \A j \in 1..m : g[j] \in P
          /\ \A i \in 1..k : i \in P => \E j \in 1..m : g[j] = i
          /\ \A a, b \in 1..m : a < b => g[a] < g[b]
    BY DEF Picks
  <1>2. PICK g \in [1..m -> 1..k] :
          /\ s = [j \in 1..m |-> seq[g[j]]]
          /\ \A j \in 1..m : g[j] \in P
          /\ \A i \in 1..k : i \in P => \E j \in 1..m : g[j] = i
          /\ \A a, b \in 1..m : a < b => g[a] < g[b]
    BY <1>1
  <1>3. m \in 0..(k+1) /\ g \in [1..m -> 1..(k+1)]
    OBVIOUS
  <1>4. \A i \in 1..(k+1) : i \in P => \E j \in 1..m : g[j] = i
    BY <1>2
  <1> QED BY <1>2, <1>3, <1>4 DEF Picks

\* One place more, that is in P
LEMMA PicksTake ==
  ASSUME NEW S, NEW s \in Seq(S), NEW seq, NEW P, NEW k \in Nat, Picks(s, seq, P, k),
         k + 1 \in P, seq[k+1] \in S
  PROVE  Picks(Append(s, seq[k+1]), seq, P, k + 1)
  <1>1. PICK m \in 0..k : \E g \in [1..m -> 1..k] :
          /\ s = [j \in 1..m |-> seq[g[j]]]
          /\ \A j \in 1..m : g[j] \in P
          /\ \A i \in 1..k : i \in P => \E j \in 1..m : g[j] = i
          /\ \A a, b \in 1..m : a < b => g[a] < g[b]
    BY DEF Picks
  <1>2. PICK g \in [1..m -> 1..k] :
          /\ s = [j \in 1..m |-> seq[g[j]]]
          /\ \A j \in 1..m : g[j] \in P
          /\ \A i \in 1..k : i \in P => \E j \in 1..m : g[j] = i
          /\ \A a, b \in 1..m : a < b => g[a] < g[b]
    BY <1>1
  <1> DEFINE h == [j \in 1..(m+1) |-> IF j = m + 1 THEN k + 1 ELSE g[j]]
  <1>3. m + 1 \in 0..(k+1) /\ m + 1 \in Nat /\ m \in Nat
    OBVIOUS
  <1>4. h \in [1..(m+1) -> 1..(k+1)] /\ h[m+1] = k + 1 /\ \A j \in 1..m : h[j] = g[j] /\ h[j] \in 1..k
    BY <1>3
  <1>5. Append(s, seq[k+1]) = [j \in 1..(m+1) |-> seq[h[j]]]
    <2>1. PICK x \in S : x = seq[k+1]
      OBVIOUS
    <2>2. Len(s) = m /\ \A j \in 1..m : s[j] = seq[g[j]]
      <3>1. DOMAIN s = 1..m
        BY <1>2
      <3> QED BY <1>2, <1>3, <3>1, LenProperties
    <2>3. PICK t : t = Append(s, x)
      OBVIOUS
    <2>4. t \in Seq(S) /\ Len(t) = m + 1 /\ t[m+1] = x /\ \A j \in 1..m : t[j] = s[j]
      BY <2>2, <2>3, AppendProperties
    <2>5. t = [j \in 1..(m+1) |-> t[j]]
      BY <2>4, LenProperties
    <2>6. ASSUME NEW j \in 1..(m+1) PROVE t[j] = seq[h[j]]
      <3>1. CASE j = m + 1
        BY <1>4, <2>1, <2>4, <3>1
      <3>2. CASE j # m + 1
        <4>1. j \in 1..m
          BY <3>2
        <4> QED BY <1>4, <2>2, <2>4, <4>1
      <3> QED BY <3>1, <3>2
    <2> HIDE DEF h
    <2> QED BY <2>1, <2>3, <2>5, <2>6
  <1> HIDE DEF h
  <1>6. \A j \in 1..(m+1) : h[j] \in P
    <2> SUFFICES ASSUME NEW j \in 1..(m+1) PROVE h[j] \in P
      OBVIOUS
    <2>1. j = m + 1 \/ j \in 1..m
      OBVIOUS
    <2> QED BY <1>2, <1>4, <2>1
  <1>7. ASSUME NEW i \in 1..(k+1), i \in P PROVE \E j \in 1..(m+1) : h[j] = i
    <2>1. CASE i = k + 1
      <3>1. m + 1 \in 1..(m+1)
        OBVIOUS
      <3> QED BY <1>4, <2>1, <3>1
    <2>2. CASE i # k + 1
      <3>1. i \in 1..k
        BY <2>2
      <3>2. PICK j \in 1..m : g[j] = i
        BY <1>2, <1>7, <3>1
      <3>3. j \in 1..(m+1) /\ h[j] = i
        BY <1>4, <3>2
      <3> QED BY <3>3
    <2> QED BY <2>1, <2>2
  <1>8. ASSUME NEW a \in 1..(m+1), NEW b \in 1..(m+1), a < b PROVE h[a] < h[b]
    <2>1. a \in 1..m
      BY <1>8
    <2>2. CASE b = m + 1
      BY <1>4, <2>1, <2>2
    <2>3. CASE b # m + 1
      <3>1. b \in 1..m
        BY <2>3
      <3> QED BY <1>2, <1>4, <1>8, <2>1, <3>1
    <2> QED BY <2>2, <2>3
  <1> QED BY <1>3, <1>4, <1>5, <1>6, <1>7, <1>8 DEF Picks

\* What Kept returns: the elements at those places, in order.
LEMMA KeptPicks ==
  ASSUME NEW S, NEW seq \in Seq(S), NEW P
  PROVE  Kept(seq, P) \in Seq(S) /\ Picks(Kept(seq, P), seq, P, Len(seq))
  <1>1. PICK n \in Nat : n = Len(seq)
    BY LenProperties
  <1>2. PICK K \in [0..n -> Seq(S)] : KeptBy(K, seq, P, n)
    BY <1>1, KeptSteps
  <1> DEFINE Q == {c \in 0..n : Picks(K[c], seq, P, c)}
  <1>3. 0 \in Q
    <2>1. PICK g : g = [j \in 1..0 |-> 1]
      OBVIOUS
    <2>2. g \in [1..0 -> 1..0] /\ 0 \in 0..0 /\ K[0] = [j \in 1..0 |-> seq[g[j]]] /\ 1..0 = {}
      BY <1>2, <2>1 DEF Keeping, KeptBy
    <2>3. Picks(K[0], seq, P, 0)
      BY <2>2 DEF Picks
    <2> QED BY <2>3
  <1>4. ASSUME NEW c \in 0..(n-1), c \in Q PROVE c + 1 \in Q
    <2>1. c + 1 \in 1..n /\ (c + 1) - 1 = c /\ c \in Nat /\ c \in 0..n /\ c + 1 \in 0..n
      OBVIOUS
    <2>2. K[c+1] = IF c + 1 \in P THEN Append(K[c], seq[c+1]) ELSE K[c]
      BY <1>2, <2>1 DEF Keeping, KeptBy
    <2>3. seq[c+1] \in S /\ K[c] \in Seq(S)
      BY <1>1, <2>1, ElementOfSeq
    <2>4. Picks(K[c], seq, P, c)
      BY <1>4
    <2>5. Picks(K[c+1], seq, P, c + 1)
      <3>1. CASE c + 1 \in P
        BY <2>1, <2>2, <2>3, <2>4, <3>1, PicksTake
      <3>2. CASE c + 1 \notin P
        BY <2>1, <2>2, <2>4, <3>2, PicksPass
      <3> QED BY <3>1, <3>2
    <2> QED BY <2>1, <2>5
  <1>5. n \in Q
    <2>1. 0 \in Int /\ n \in Int /\ n \in 0..n
      OBVIOUS
    <2>2. \A c \in 0..n : c \in Q
      <3> HIDE DEF Q
      <3> QED BY <1>3, <1>4, <2>1, IntervalInduction
    <2> QED BY <2>1, <2>2
  <1>6. K[n] \in Seq(S)
    OBVIOUS
  <1> QED BY <1>1, <1>2, <1>5, <1>6 DEF KeptBy

\* Sequences of one length with the same elements are one.
LEMMA SameSeq ==
  ASSUME NEW S, NEW s \in Seq(S), NEW t \in Seq(S), Len(s) = Len(t), \A i \in 1..Len(s) : s[i] = t[i]
  PROVE  s = t
  <1>1. PICK n \in Nat : n = Len(s)
    BY LenProperties
  <1>2. s = [i \in 1..n |-> s[i]] /\ t = [i \in 1..n |-> t[i]]
    BY <1>1, LenProperties
  <1> QED BY <1>1, <1>2

\* Concatenation
Glue(x, y) == x \o y

\* Its length and elements
LEMMA GlueIs ==
  ASSUME NEW S, NEW x \in Seq(S), NEW y \in Seq(S)
  PROVE  /\ Glue(x, y) \in Seq(S) /\ Len(Glue(x, y)) = Len(x) + Len(y)
         /\ \A i \in 1..(Len(x) + Len(y)) : Glue(x, y)[i] = IF i <= Len(x) THEN x[i] ELSE y[i - Len(x)]
  BY ConcatProperties DEF Glue

\* It is associative.
LEMMA ThreeJoined ==
  ASSUME NEW S, NEW x \in Seq(S), NEW y \in Seq(S), NEW z \in Seq(S)
  PROVE  Glue(Glue(x, y), z) = Glue(x, Glue(y, z))
  <1>0. PICK xy, yz : xy = Glue(x, y) /\ yz = Glue(y, z)
    OBVIOUS
  <1>2. PICK l, r : l = Glue(xy, z) /\ r = Glue(x, yz)
    OBVIOUS
  <1>1. PICK a \in Nat, b \in Nat, c \in Nat : a = Len(x) /\ b = Len(y) /\ c = Len(z)
    BY LenProperties
  <1>3. /\ xy \in Seq(S) /\ Len(xy) = a + b
        /\ \A i \in 1..(a+b) : xy[i] = IF i <= a THEN x[i] ELSE y[i-a]
    BY <1>0, <1>1, GlueIs
  <1>4. /\ yz \in Seq(S) /\ Len(yz) = b + c
        /\ \A i \in 1..(b+c) : yz[i] = IF i <= b THEN y[i] ELSE z[i-b]
    BY <1>0, <1>1, GlueIs
  <1>6. /\ l \in Seq(S) /\ Len(l) = (a + b) + c
        /\ \A i \in 1..((a+b)+c) : l[i] = IF i <= a + b THEN xy[i] ELSE z[i-(a+b)]
    <2>1. PICK w \in Nat : w = a + b /\ w = Len(xy)
      BY <1>3
    <2>2. /\ l \in Seq(S) /\ Len(l) = w + c
          /\ \A i \in 1..(w+c) : l[i] = IF i <= w THEN xy[i] ELSE z[i-w]
      <3>1. xy \in Seq(S) /\ Len(z) = c /\ Len(xy) = w
        BY <1>1, <1>3, <2>1
      <3> QED BY <1>2, <3>1, GlueIs
    <2> QED BY <2>1, <2>2
  <1>7. /\ r \in Seq(S) /\ Len(r) = a + (b + c)
        /\ \A i \in 1..(a+(b+c)) : r[i] = IF i <= a THEN x[i] ELSE yz[i-a]
    <2>1. PICK w \in Nat : w = b + c /\ w = Len(yz)
      BY <1>4
    <2>2. /\ r \in Seq(S) /\ Len(r) = a + w
          /\ \A i \in 1..(a+w) : r[i] = IF i <= a THEN x[i] ELSE yz[i-a]
      <3>1. yz \in Seq(S) /\ Len(x) = a /\ Len(yz) = w
        BY <1>1, <1>4, <2>1
      <3> QED BY <1>2, <3>1, GlueIs
    <2> QED BY <2>1, <2>2
  <1>8. ASSUME NEW i \in 1..((a+b)+c) PROVE l[i] = r[i]
    <2>1. CASE i <= a
      <3>1. i \in 1..(a+b) /\ i \in 1..(a+(b+c)) /\ i <= a + b
        BY <2>1
      <3> QED BY <1>3, <1>6, <1>7, <2>1, <3>1
    <2>2. CASE i > a /\ i <= a + b
      <3>1. i \in 1..(a+b) /\ i \in 1..(a+(b+c)) /\ i - a \in 1..(b+c) /\ i - a <= b /\ ~(i <= a)
        BY <2>2
      <3>2. l[i] = y[i-a] /\ r[i] = yz[i-a] /\ yz[i-a] = y[i-a]
        BY <1>3, <1>4, <1>6, <1>7, <2>2, <3>1
      <3> QED BY <3>2
    <2>3. CASE i > a + b
      <3>1. /\ i \in 1..(a+(b+c)) /\ i - a \in 1..(b+c) /\ ~(i - a <= b) /\ ~(i <= a) /\ ~(i <= a + b)
            /\ (i - a) - b = i - (a + b)
        BY <2>3
      <3>2. l[i] = z[i-(a+b)] /\ r[i] = yz[i-a] /\ yz[i-a] = z[(i-a)-b]
        BY <1>4, <1>6, <1>7, <3>1
      <3> QED BY <3>1, <3>2
    <2> QED BY <2>1, <2>2, <2>3
  <1>9. l = r
    <2>1. Len(l) = Len(r) /\ \A i \in 1..Len(l) : l[i] = r[i]
      BY <1>6, <1>7, <1>8
    <2> QED BY <1>6, <1>7, <2>1, SameSeq
  <1> QED BY <1>0, <1>2, <1>9

\* Units: a text and its source range
UnitSet == [text : Seq(TextMarks), start : Nat, end : Nat]

\* The text of the first k units
Joining(f, units, n) == f[0] = <<>> /\ \A k \in 1..n : f[k] = f[k-1] \o units[k].text

\* A unit has a text and a range.
LEMMA UnitHas ==
  ASSUME NEW units \in Seq(UnitSet), NEW k \in 1..Len(units)
  PROVE  units[k] \in UnitSet /\ units[k].text \in Seq(TextMarks)
         /\ units[k].start \in Nat /\ units[k].end \in Nat
  <1>1. units[k] \in UnitSet
    BY ElementOfSeq
  <1> QED BY <1>1 DEF UnitSet

\* There are those texts, and TextOf is the last.
LEMMA TextJoins ==
  ASSUME NEW units \in Seq(UnitSet), NEW n \in Nat, n = Len(units)
  PROVE  \E f \in [0..n -> Seq(TextMarks)] : Joining(f, units, n) /\ TextOf(units) = f[n]
  <1> DEFINE T == TextMarks
             seqs == [k \in DOMAIN units |-> units[k].text]
  <1>1. DOMAIN units = 1..n
    BY LenProperties
  <1>2. \A k \in 1..n : seqs[k] = units[k].text /\ seqs[k] \in Seq(T)
    BY <1>1, UnitHas
  <1>3. seqs = [k \in 1..n |-> seqs[k]]
    BY <1>1
  <1>4. TextOf(units) = FlattenSeq(seqs)
    BY DEF TextOf
  <1> HIDE DEF seqs, T
  <1>5. seqs \in Seq(Seq(T)) /\ Len(seqs) = n
    <2> DEFINE S == Seq(T)
    <2>1. \A k \in 1..n : seqs[k] \in S
      BY <1>2
    <2> HIDE DEF S
    <2>2. seqs \in Seq(S)
      BY <1>3, <2>1, Listed
    <2>3. DOMAIN seqs = 1..n
      BY <1>3
    <2> QED BY <2>2, <2>3, LenProperties DEF S
  <1>6. PICK f \in [0..n -> Seq(T)] : Flattens(f, seqs, n) /\ FlattenSeq(seqs) = f[n]
    <2>1. PICK f \in [0..n -> Seq(T)] : Flattens(f, seqs, n)
      BY <1>2, FlattensExist
    <2>2. FlattenSeq(seqs) = f[n]
      <3>1. Flattens(f, seqs, Len(seqs))
        BY <1>5, <2>1
      <3>2. FlattenSeq(seqs) = f[Len(seqs)]
        BY <1>5, <3>1, FlattenIsLast
      <3> QED BY <1>5, <3>2
    <2> QED BY <2>1, <2>2
  <1>7. Joining(f, units, n)
    BY <1>2, <1>6 DEF Flattens, Joining
  <1> QED BY <1>4, <1>6, <1>7 DEF T

\* Texts of units are texts.
LEMMA TextIsText ==
  ASSUME NEW units \in Seq(UnitSet)
  PROVE  TextOf(units) \in Seq(TextMarks) /\ RunesOf(units) \in Nat
  <1>1. PICK n \in Nat : n = Len(units)
    BY LenProperties
  <1>2. PICK f \in [0..n -> Seq(TextMarks)] : Joining(f, units, n) /\ TextOf(units) = f[n]
    BY <1>1, TextJoins
  <1>3. TextOf(units) \in Seq(TextMarks)
    BY <1>2
  <1> QED BY <1>3, LenProperties DEF RunesOf

\* No units, no text
LEMMA NoText == TextOf(<<>>) = <<>> /\ RunesOf(<<>>) = 0
  <1>1. PICK e : e = <<>>
    OBVIOUS
  <1>2. PICK w \in Nat : w = 0
    OBVIOUS
  <1>3. TextOf(e) = <<>>
    <2>1. e \in Seq(UnitSet) /\ Len(e) = w
      BY <1>1, <1>2
    <2>2. PICK f \in [0..w -> Seq(TextMarks)] : Joining(f, e, w) /\ TextOf(e) = f[w]
      BY <2>1, TextJoins
    <2> QED BY <1>2, <2>2 DEF Joining
  <1> QED BY <1>1, <1>3 DEF RunesOf

\* The text of two runs of units, one after the other
LEMMA TextConcat ==
  ASSUME NEW s \in Seq(UnitSet), NEW t \in Seq(UnitSet)
  PROVE  /\ TextOf(s \o t) = TextOf(s) \o TextOf(t)
         /\ RunesOf(s \o t) = RunesOf(s) + RunesOf(t)
  <1>1. PICK m \in Nat, n \in Nat : m = Len(s) /\ n = Len(t)
    BY LenProperties
  <1>2. PICK st : st = s \o t
    OBVIOUS
  <1>20. /\ st \in Seq(UnitSet) /\ Len(st) = m + n
         /\ \A i \in 1..(m+n) : st[i] = IF i <= m THEN s[i] ELSE t[i-m]
    BY <1>1, <1>2, ConcatProperties
  <1>3. PICK f \in [0..m -> Seq(TextMarks)] : Joining(f, s, m) /\ TextOf(s) = f[m]
    BY <1>1, TextJoins
  <1>4. PICK g \in [0..n -> Seq(TextMarks)] : Joining(g, t, n) /\ TextOf(t) = g[n]
    BY <1>1, TextJoins
  <1>5. PICK l \in Nat : l = m + n
    OBVIOUS
  <1>6. PICK h \in [0..l -> Seq(TextMarks)] : Joining(h, st, l) /\ TextOf(st) = h[l]
    BY <1>20, <1>5, TextJoins
  <1>7. \A i \in 1..m : st[i] = s[i]
    BY <1>20
  <1>8. \A i \in 1..n : st[m+i] = t[i]
    <2> SUFFICES ASSUME NEW i \in 1..n PROVE st[m+i] = t[i]
      OBVIOUS
    <2>1. m + i \in 1..(m+n) /\ ~(m + i <= m) /\ (m + i) - m = i
      OBVIOUS
    <2> QED BY <1>20, <2>1
  <1>9. h[m] = f[m]
    <2>1. h[0] = f[0]
      BY <1>3, <1>6 DEF Joining
    <2>2. ASSUME NEW i \in 1..m, h[i-1] = f[i-1] PROVE h[i] = f[i]
      <3>1. i \in 1..l
        BY <1>5
      <3> QED BY <1>3, <1>6, <1>7, <2>2, <3>1 DEF Joining
    <2>3. Agree(h, f, m)
      BY <2>1, <2>2, RecursionUnique
    <2>4. m \in 0..m
      OBVIOUS
    <2> QED BY <2>3, <2>4 DEF Agree
  <1> DEFINE Q == {j \in 0..n : h[m+j] = f[m] \o g[j]}
  <1>10. 0 \in Q
    <2>1. f[m] \in Seq(TextMarks) /\ g[0] = <<>>
      BY <1>3, <1>4 DEF Joining
    <2>2. f[m] \o <<>> = f[m]
      BY <2>1
    <2>3. m + 0 = m /\ 0 \in 0..n
      OBVIOUS
    <2> QED BY <1>9, <2>1, <2>2, <2>3
  <1>11. ASSUME NEW j \in 0..(n-1), j \in Q PROVE j + 1 \in Q
    <2>1. /\ j + 1 \in 1..n /\ (j + 1) - 1 = j /\ m + (j + 1) \in 1..l /\ (m + (j + 1)) - 1 = m + j
          /\ j + 1 \in 0..n /\ j \in 0..n /\ m \in 0..m
      BY <1>5
    <2>2. g[j+1] = g[j] \o t[j+1].text
      BY <1>4, <2>1 DEF Joining
    <2>3. PICK w \in Nat : w = m + (j + 1)
      OBVIOUS
    <2>4. h[w] = h[w-1] \o st[w].text
      BY <1>6, <2>1, <2>3 DEF Joining
    <2>5. h[w] = h[m+j] \o t[j+1].text
      BY <1>8, <2>1, <2>3, <2>4
    <2>6. f[m] \in Seq(TextMarks) /\ g[j] \in Seq(TextMarks) /\ t[j+1].text \in Seq(TextMarks)
      BY <1>1, <2>1, UnitHas
    <2>7. (f[m] \o g[j]) \o t[j+1].text = f[m] \o (g[j] \o t[j+1].text)
      <3>1. PICK x \in Seq(TextMarks), y \in Seq(TextMarks), z \in Seq(TextMarks) :
              x = f[m] /\ y = g[j] /\ z = t[j+1].text
        BY <2>6
      <3>2. Glue(Glue(x, y), z) = Glue(x, Glue(y, z))
        BY ThreeJoined
      <3> QED BY <3>1, <3>2 DEF Glue
    <2> QED BY <1>11, <2>1, <2>2, <2>3, <2>5, <2>7
  <1>12. n \in Q
    <2>1. 0 \in Int /\ n \in Int /\ n \in 0..n
      OBVIOUS
    <2>2. \A j \in 0..n : j \in Q
      <3> HIDE DEF Q
      <3> QED BY <1>10, <1>11, <2>1, IntervalInduction
    <2> QED BY <2>1, <2>2
  <1>13. TextOf(s \o t) = TextOf(s) \o TextOf(t)
    BY <1>2, <1>3, <1>4, <1>5, <1>6, <1>12
  <1>14. Len(TextOf(s) \o TextOf(t)) = Len(TextOf(s)) + Len(TextOf(t))
    BY TextIsText, ConcatProperties
  <1> QED BY <1>13, <1>14 DEF RunesOf

\* The text of one unit
LEMMA TextOfOne ==
  ASSUME NEW u \in UnitSet
  PROVE  <<u>> \in Seq(UnitSet) /\ TextOf(<<u>>) = u.text /\ RunesOf(<<u>>) = Len(u.text)
  <1>0. PICK e : e = <<u>>
    OBVIOUS
  <1>1. e = <<u>> /\ e \in Seq(UnitSet) /\ Len(e) = 1 /\ e[1] = u
    BY <1>0
  <1>2. PICK w \in Nat : w = 1
    OBVIOUS
  <1>3. PICK f \in [0..w -> Seq(TextMarks)] : Joining(f, e, w) /\ TextOf(e) = f[w]
    BY <1>1, <1>2, TextJoins
  <1>4. f[1] = f[0] \o u.text /\ f[0] = <<>>
    <2>1. w \in 1..w /\ w - 1 = 0
      BY <1>2
    <2> QED BY <1>1, <1>2, <1>3, <2>1 DEF Joining
  <1>5. u.text \in Seq(TextMarks)
    BY DEF UnitSet
  <1>6. TextOf(e) = u.text
    BY <1>2, <1>3, <1>4, <1>5
  <1> QED BY <1>1, <1>6 DEF RunesOf

\* The text of units and one more
LEMMA TextAppend ==
  ASSUME NEW s \in Seq(UnitSet), NEW u \in UnitSet
  PROVE  /\ Append(s, u) \in Seq(UnitSet)
         /\ TextOf(Append(s, u)) = TextOf(s) \o u.text
         /\ RunesOf(Append(s, u)) = RunesOf(s) + Len(u.text)
  <1>1. Append(s, u) = s \o <<u>>
    OBVIOUS
  <1>5. PICK e : e = <<u>>
    OBVIOUS
  <1>2. e = <<u>> /\ e \in Seq(UnitSet) /\ TextOf(e) = u.text /\ RunesOf(e) = Len(u.text)
    BY <1>5, TextOfOne
  <1>3. TextOf(s \o e) = TextOf(s) \o TextOf(e) /\ RunesOf(s \o e) = RunesOf(s) + RunesOf(e)
    BY <1>2, TextConcat
  <1> QED BY <1>1, <1>2, <1>3, AppendProperties

-----------------------------------------------------------------------------
(***************************************************************************)
(* The ceiling                                                              *)
(*                                                                          *)
(* Every tier makes chunks of at most cap marks, for any cap that is not    *)
(* under AbsoluteMax and twice the size asked for: an injected header and a *)
(* carried overlap each get what the size leaves them, and a section without*)
(* a place to cut is cut at the ceiling.                                    *)
(***************************************************************************)

\* Crumbs and chunks; a chunk that is short enough for the backend
CrumbMarks == TextMarks \cup {"none"}
ChunkSet == [content : Seq(TextMarks), bc : Seq(CrumbMarks), syn : Int, start : Nat, end : Nat]
ShortSet(cap) == {c \in ChunkSet : Len(c.content) <= cap}

\* The chunks of the legacy tier have no breadcrumb.
LegacySet(cap) == {c \in ShortSet(cap) : c.bc = <<>>}

\* InScope, of any text, and the chunks whose breadcrumb is
ScopeIn(txt, x, at) ==
  \E p \in 1..Least(at + 1, Len(txt)) : txt[p] = x
    /\ \A q \in (p+1)..Least(at + 1, Len(txt)) : txt[q] \in HeadingMarks => Level(txt[q]) > Level(x)
Crumbed(txt, bc, at) == \A j \in DOMAIN bc : ScopeIn(txt, bc[j], at)
BookSet(txt)         == {c \in ChunkSet : Crumbed(txt, c.bc, c.start)}
BookShort(txt, cap)  == {c \in ShortSet(cap) : Crumbed(txt, c.bc, c.start)}

\* The caps that hold for the splitters: the absolute maximum, or more
Caps == {c \in Nat : AbsoluteMax <= c}

\* The constants of the splitter
LEMMA Limits ==
  /\ AbsoluteMax \in Nat \ {0} /\ ChopWindow \in Nat \ {0} /\ DefaultOverlap \in Nat \ {0}
  /\ TinyChunk \in Nat \ {0} /\ MinTarget \in Nat \ {0} /\ MinHeuristic \in Nat \ {0}
  BY ChunkerAssumption

\* A cap is a number, at least the absolute maximum.
LEMMA CapIs ==
  ASSUME NEW cap \in Caps
  PROVE  cap \in Nat /\ AbsoluteMax \in Nat \ {0} /\ AbsoluteMax <= cap
  BY Limits DEF Caps

\* A slice
LEMMA SliceIs ==
  ASSUME NEW S, NEW txt \in Seq(S), NEW from \in Nat, NEW to \in Int, to <= Len(txt)
  PROVE  /\ Slice(txt, from, to) \in Seq(S)
         /\ Len(Slice(txt, from, to)) = IF from < to THEN to - from ELSE 0
         /\ \A i \in 1..(to - from) : Slice(txt, from, to)[i] = txt[from+i]
  <1>1. PICK n \in Nat : n = Len(txt)
    BY LenProperties
  <1>2. PICK a \in Int : a = from + 1
    OBVIOUS
  <1>3. \A i \in a..to : txt[i] \in S
    <2> SUFFICES ASSUME NEW i \in a..to PROVE txt[i] \in S
      OBVIOUS
    <2>1. i \in 1..Len(txt)
      BY <1>1, <1>2
    <2> QED BY <2>1, ElementOfSeq
  <1>4. PICK t : t = SubSeq(txt, a, to)
    OBVIOUS
  <1>5. /\ t \in Seq(S) /\ Len(t) = IF a <= to THEN to - a + 1 ELSE 0
        /\ \A i \in 1..(to - a + 1) : t[i] = txt[a+i-1]
    BY <1>3, <1>4, SubSeqProperties
  <1>6. Slice(txt, from, to) = t
    BY <1>2, <1>4 DEF Slice
  <1>7. Len(t) = IF from < to THEN to - from ELSE 0
    BY <1>2, <1>5
  <1>8. \A i \in 1..(to - from) : t[i] = txt[from+i]
    <2> SUFFICES ASSUME NEW i \in 1..(to - from) PROVE t[i] = txt[from+i]
      OBVIOUS
    <2>1. i \in 1..(to - a + 1) /\ a + i - 1 = from + i
      BY <1>2
    <2> QED BY <1>5, <2>1
  <1> QED BY <1>5, <1>6, <1>7, <1>8

\* Offsets in order are offsets.
LEMMA InOrderIs ==
  ASSUME NEW S, NEW txt, NEW n \in Nat, n = Len(txt)
  PROVE  InOrder(S, txt) \in Seq(0..n)
  <1>1. PICK e : e = [i \in 1..(n+1) |-> i - 1]
    OBVIOUS
  <1>2. e \in Seq(0..n)
    <2>1. n + 1 \in Nat /\ e = [i \in 1..(n+1) |-> e[i]] /\ \A i \in 1..(n+1) : e[i] \in 0..n
      BY <1>1
    <2> QED BY <2>1, Listed
  <1>3. InOrder(S, txt) = Kept(e, {b + 1 : b \in S})
    BY <1>1 DEF InOrder
  <1> QED BY <1>2, <1>3, KeptPicks

\* Units are units.
LEMMA UnitsAre ==
  ASSUME NEW txt \in Seq(TextMarks), NEW size
  PROVE  Units(txt, size) \in Seq(UnitSet)
  <1>1. PICK n \in Nat : n = Len(txt)
    BY LenProperties
  <1>2. PICK ends : ends = InOrder({i \in DOMAIN txt : UnitEnds(txt, i, size)}, txt)
    OBVIOUS
  <1>3. ends \in Seq(0..n)
    BY <1>1, <1>2, InOrderIs
  <1>4. PICK m \in Nat : m = Len(ends) /\ DOMAIN ends = 1..m
    BY <1>3, LenProperties
  <1>5. ASSUME NEW k \in 1..m
        PROVE  UnitOf(txt, IF k = 1 THEN 0 ELSE ends[k-1], ends[k]) \in UnitSet
    <2>1. PICK b \in 0..n : b = ends[k]
      BY <1>3, <1>4, ElementOfSeq
    <2>2. PICK a \in 0..n : a = IF k = 1 THEN 0 ELSE ends[k-1]
      <3>1. CASE k = 1
        <4>1. 0 \in 0..n
          OBVIOUS
        <4> QED BY <3>1, <4>1
      <3>2. CASE k # 1
        <4>1. k - 1 \in 1..Len(ends)
          BY <1>4, <3>2
        <4>2. ends[k-1] \in 0..n
          BY <1>3, <4>1, ElementOfSeq
        <4> QED BY <3>2, <4>2
      <3> QED BY <3>1, <3>2
    <2>3. Slice(txt, a, b) \in Seq(TextMarks)
      <3>1. a \in Nat /\ b \in Int /\ b <= Len(txt)
        BY <1>1
      <3> QED BY <3>1, SliceIs
    <2>4. UnitOf(txt, a, b) \in UnitSet
      BY <2>3 DEF UnitOf, UnitSet
    <2> QED BY <2>1, <2>2, <2>4
  <1>6. PICK us : us = Units(txt, size)
    OBVIOUS
  <1>7. us = [k \in 1..m |-> UnitOf(txt, IF k = 1 THEN 0 ELSE ends[k-1], ends[k])]
    BY <1>2, <1>4, <1>6 DEF Units
  <1>8. us = [k \in 1..m |-> us[k]] /\ \A k \in 1..m : us[k] \in UnitSet
    BY <1>5, <1>7
  <1>9. us \in Seq(UnitSet)
    BY <1>8, Listed
  <1> QED BY <1>6, <1>9

\* What is kept of units is units.
LEMMA KeptUnits ==
  ASSUME NEW units \in Seq(UnitSet), NEW P
  PROVE  Kept(units, P) \in Seq(UnitSet) /\ RunesOf(Kept(units, P)) \in Nat
  <1>1. Kept(units, P) \in Seq(UnitSet)
    BY KeptPicks
  <1> QED BY <1>1, TextIsText

\* A chunk built from units is as long as they are.
LEMMA BuildIs ==
  ASSUME NEW units \in Seq(UnitSet)
  PROVE  /\ Build(units) \in ChunkSet /\ Build(units).bc = <<>> /\ Len(Build(units).content) = RunesOf(units)
  <1>1. PICK source : source = Kept(units, {k \in DOMAIN units : ~Synthetic(units[k])})
    OBVIOUS
  <1>2. PICK syn : syn = RunesOf(Kept(units, {k \in DOMAIN units : Synthetic(units[k])}))
    OBVIOUS
  <1>3. source \in Seq(UnitSet) /\ syn \in Nat
    BY <1>1, <1>2, KeptUnits
  <1>4. PICK from \in Nat, to \in Nat :
          /\ from = IF source = <<>> THEN 0 ELSE source[1].start
          /\ to = IF source = <<>> THEN 0 ELSE source[Len(source)].end
    <2>1. CASE source = <<>>
      BY <2>1
    <2>2. CASE source # <<>>
      <3>1. PICK n \in Nat : n = Len(source) /\ n # 0
        BY <1>3, <2>2, EmptySeq, LenProperties
      <3>2. 1 \in 1..Len(source) /\ n \in 1..Len(source)
        BY <3>1
      <3>3. source[1].start \in Nat /\ source[n].end \in Nat
        BY <1>3, <3>2, UnitHas
      <3> QED BY <2>2, <3>1, <3>3
    <2> QED BY <2>1, <2>2
  <1>5. PICK t \in Seq(TextMarks) : t = TextOf(units)
    BY TextIsText
  <1>6. Build(units) = [content |-> t, bc |-> <<>>, syn |-> syn, start |-> from, end |-> to]
    BY <1>1, <1>2, <1>4, <1>5 DEF Build
  <1>7. <<>> \in Seq(CrumbMarks)
    OBVIOUS
  <1> QED BY <1>3, <1>5, <1>6, <1>7 DEF ChunkSet, RunesOf

\* Offsets have a greatest.
LEMMA Greatest ==
  ASSUME NEW n \in Nat, NEW I \in SUBSET (0..n), I # {}
  PROVE  \E x \in I : \A y \in I : y <= x
  <1> DEFINE D == {n - y : y \in I}
  <1>1. D \in SUBSET Nat /\ D # {}
    <2>1. PICK y \in I : TRUE
      OBVIOUS
    <2>2. n - y \in D
      OBVIOUS
    <2>3. \A d \in D : d \in Nat
      OBVIOUS
    <2> HIDE DEF D
    <2> QED BY <2>2, <2>3
  <1>2. PICK d \in D : \A e \in D : d <= e
    BY <1>1, LeastNumber
  <1>3. PICK x \in I : d = n - x
    OBVIOUS
  <1>4. ASSUME NEW y \in I PROVE y <= x
    <2>1. d <= n - y
      BY <1>2
    <2>2. x \in 0..n /\ y \in 0..n
      OBVIOUS
    <2> HIDE DEF D
    <2> QED BY <1>3, <2>1, <2>2
  <1> QED BY <1>4

\* A slice that starts before the end of a text is not empty, and not too long.
LEMMA ChopEndIs ==
  ASSUME NEW txt, NEW n \in Nat, n = Len(txt), NEW from \in 0..n
  PROVE  /\ ChopEnd(txt, from) \in 0..n /\ ChopEnd(txt, from) <= from + AbsoluteMax
         /\ (from < n => from < ChopEnd(txt, from)) /\ (from = n => ChopEnd(txt, from) = n)
  <1>1. PICK A \in Nat \ {0}, W \in Nat \ {0} : A = AbsoluteMax /\ W = ChopWindow
    BY Limits
  <1>2. PICK end \in Nat : end = from + A
    <2>1. from + A \in Nat
      OBVIOUS
    <2> QED BY <2>1
  <1>3. PICK near : near = {i \in (from+2)..end : i > end - W + 1 /\ txt[i] \in Breaks}
    OBVIOUS
  <1>4. PICK e : e = ChopEnd(txt, from)
    OBVIOUS
  <1>5. e = IF end > n THEN n ELSE IF near = {} THEN end ELSE Max(near)
    BY <1>1, <1>2, <1>3, <1>4 DEF ChopEnd
  <1>6. near # {} => Max(near) \in near
    <2> SUFFICES ASSUME near # {} PROVE Max(near) \in near
      OBVIOUS
    <2>1. near \in SUBSET (0..end)
      BY <1>3
    <2>2. PICK x \in near : \A y \in near : y <= x
      BY <2>1, Greatest
    <2>3. \A y \in near : x >= y
      BY <2>1, <2>2
    <2> QED BY <2>3 DEF Max
  <1>7. near # {} => Max(near) \in (from+2)..end
    BY <1>3, <1>6
  <1>8. e \in 0..n /\ e <= from + A /\ (from < n => from < e) /\ (from = n => e = n)
    <2>1. CASE end > n
      BY <1>2, <1>5, <2>1
    <2>2. CASE ~(end > n) /\ near = {}
      BY <1>2, <1>5, <2>2
    <2>3. CASE ~(end > n) /\ near # {}
      <3>1. PICK x \in (from+2)..end : x = Max(near)
        BY <1>7, <2>3
      <3>2. e = x
        BY <1>5, <2>3, <3>1
      <3> QED BY <1>2, <2>3, <3>1, <3>2
    <2> QED BY <2>1, <2>2, <2>3
  <1> QED BY <1>1, <1>4, <1>8

\* The cuts of a text: they start at 0 and each is a slice further on, to the end.
Cuts(at, last, n, A) ==
  /\ at \in [0..last -> 0..n] /\ at[0] = 0 /\ at[last] = n
  /\ \A k \in 1..last : at[k-1] < at[k] /\ at[k] <= at[k-1] + A

\* What chopOversize cuts between two offsets
Piece(u, from, to) == [content |-> Slice(u.text, from, to), bc |-> <<>>, syn |-> 0,
                       start |-> u.start + from, end |-> u.start + to]

\* chopOversize ends at the end of the unit.
LEMMA ChopCuts ==
  ASSUME NEW u, NEW n \in Nat, n = Len(u.text)
  PROVE  \E last \in Nat : \E at : Cuts(at, last, n, AbsoluteMax)
           /\ Chop(u) = [k \in 1..last |-> Piece(u, at[k-1], at[k])]
  <1> DEFINE Val(h, k) == IF k = 0 THEN 0 ELSE ChopEnd(u.text, h[k-1])
             Is(h) == h = [k \in 0..n |-> Val(h, k)]
             H == CHOOSE h : Is(h)
             Finds(k) == H[k] = n /\ \A j \in 0..(k-1) : H[j] < n
             last == CHOOSE k \in 0..n : Finds(k)
  <1>1. Chop(u) = [k \in 1..last |-> Piece(u, H[k-1], H[k])]
    BY DEF Chop, Piece
  <1> HIDE DEF last
  <1>2. \E h : Is(h)
    <2> DEFINE G == [k \in 1..n |-> [m \in 0..n |-> ChopEnd(u.text, m)]]
    <2>1. G \in [1..n -> [0..n -> 0..n]]
      BY ChopEndIs
    <2>2. \A k \in 1..n : \A m \in 0..n : G[k][m] = ChopEnd(u.text, m)
      OBVIOUS
    <2> HIDE DEF G
    <2>3. PICK f \in [0..n -> 0..n] : Recurses(f, 0, G, n)
      <3>1. 0 \in 0..n
        OBVIOUS
      <3> QED BY <2>1, <3>1, RecursionExists
    <2>4. f = [k \in 0..n |-> f[k]]
      OBVIOUS
    <2>5. ASSUME NEW k \in 0..n PROVE f[k] = Val(f, k)
      <3>1. CASE k = 0
        BY <2>3, <3>1 DEF Recurses
      <3>2. CASE k # 0
        <4>1. k \in 1..n /\ k - 1 \in 0..n
          BY <3>2
        <4>2. f[k] = G[k][f[k-1]] /\ f[k-1] \in 0..n
          BY <2>3, <4>1 DEF Recurses
        <4> QED BY <2>2, <3>2, <4>1, <4>2
      <3> QED BY <3>1, <3>2
    <2>6. Is(f)
      <3> HIDE DEF Val
      <3> QED BY <2>4, <2>5
    <2> HIDE DEF Is
    <2> QED BY <2>6
  <1>3. Is(H)
    <2> HIDE DEF Is
    <2> QED BY <1>2
  <1>4. \A k \in 0..n : H[k] = Val(H, k)
    <2> HIDE DEF Val, H
    <2> QED BY <1>3
  <1> HIDE DEF H, Is
  <1>5. \A k \in 0..n : H[k] \in 0..n /\ k <= H[k]
    <2> DEFINE Q == {k \in 0..n : H[k] \in 0..n /\ k <= H[k]}
    <2>1. 0 \in Q
      <3>1. H[0] = 0 /\ 0 \in 0..n
        BY <1>4
      <3> QED BY <3>1
    <2>2. ASSUME NEW k \in 0..(n-1), k \in Q PROVE k + 1 \in Q
      <3>1. k + 1 \in 0..n /\ k + 1 # 0 /\ (k + 1) - 1 = k
        OBVIOUS
      <3>2. H[k+1] = ChopEnd(u.text, H[k])
        BY <1>4, <3>1
      <3>3. PICK p \in 0..n : p = H[k] /\ k <= p
        BY <2>2
      <3>4. PICK q : q = ChopEnd(u.text, p)
        OBVIOUS
      <3>5. q \in 0..n /\ (p < n => p < q) /\ (p = n => q = n)
        BY <3>4, ChopEndIs
      <3>6. k + 1 <= q
        BY <3>3, <3>5
      <3> QED BY <3>1, <3>2, <3>3, <3>4, <3>5, <3>6
    <2>3. 0 \in Int /\ n \in Int
      OBVIOUS
    <2>4. \A k \in 0..n : k \in Q
      <3> HIDE DEF Q
      <3> QED BY <2>1, <2>2, <2>3, IntervalInduction
    <2> QED BY <2>4
  <1>6. \E k \in 0..n : Finds(k)
    <2>1. H[n] = n
      <3>1. n \in 0..n
        OBVIOUS
      <3>2. H[n] \in 0..n /\ n <= H[n]
        BY <1>5, <3>1
      <3> QED BY <3>2
    <2> DEFINE P == {k \in 0..n : H[k] = n}
    <2>2. P \in SUBSET Nat /\ P # {}
      <3>1. n \in P
        BY <2>1
      <3> QED BY <3>1
    <2>3. PICK k \in P : \A j \in P : k <= j
      BY <2>2, LeastNumber
    <2>4. ASSUME NEW j \in 0..(k-1) PROVE H[j] < n
      <3>1. j \in 0..n /\ j < k
        OBVIOUS
      <3>2. j \notin P
        <4> HIDE DEF P
        <4> QED BY <2>2, <2>3, <3>1
      <3>3. H[j] # n /\ H[j] \in 0..n
        BY <1>5, <3>1, <3>2
      <3> QED BY <3>3
    <2> QED BY <2>3, <2>4
  <1>7. last \in 0..n /\ Finds(last)
    <2> HIDE DEF Finds
    <2> QED BY <1>6 DEF last
  <1>8. PICK m \in 0..n : m = last
    BY <1>7
  <1>9. PICK at : at = [k \in 0..m |-> H[k]]
    OBVIOUS
  <1>10. \A k \in 0..m : at[k] = H[k] /\ H[k] \in 0..n /\ k \in 0..n
    BY <1>5, <1>9
  <1>11. Cuts(at, m, n, AbsoluteMax)
    <2>1. at \in [0..m -> 0..n]
      BY <1>9, <1>10
    <2>2. at[0] = 0
      <3>1. 0 \in 0..m /\ H[0] = 0
        BY <1>4
      <3> QED BY <1>10, <3>1
    <2>3. at[m] = n
      BY <1>7, <1>8, <1>10
    <2>4. ASSUME NEW k \in 1..m PROVE at[k-1] < at[k] /\ at[k] <= at[k-1] + AbsoluteMax
      <3>1. k \in 0..m /\ k - 1 \in 0..m /\ k # 0 /\ k - 1 \in 0..(m-1) /\ k \in 0..n
        OBVIOUS
      <3>2. PICK p \in 0..n : p = H[k-1] /\ p < n
        BY <1>7, <1>8, <1>10, <3>1
      <3>3. H[k] = ChopEnd(u.text, p)
        BY <1>4, <3>1, <3>2
      <3>4. p < ChopEnd(u.text, p) /\ ChopEnd(u.text, p) <= p + AbsoluteMax
        BY <3>2, ChopEndIs
      <3> QED BY <1>10, <3>1, <3>2, <3>3, <3>4
    <2> QED BY <2>1, <2>2, <2>3, <2>4 DEF Cuts
  <1>12. Chop(u) = [k \in 1..m |-> Piece(u, at[k-1], at[k])]
    <2>1. \A k \in 1..m : k - 1 \in 0..m /\ k \in 0..m
      OBVIOUS
    <2> QED BY <1>1, <1>8, <1>10, <2>1
  <1> QED BY <1>11, <1>12

\* The slices of a unit that is too long are short.
LEMMA ChopIs ==
  ASSUME NEW cap \in Caps, NEW u \in UnitSet
  PROVE  Chop(u) \in Seq(LegacySet(cap))
  <1>1. PICK A \in Nat \ {0} : A = AbsoluteMax /\ A <= cap
    BY CapIs
  <1>2. PICK n \in Nat, v \in Seq(TextMarks) : n = Len(v) /\ v = u.text /\ u.start \in Nat
    BY LenProperties DEF UnitSet
  <1>30. PICK m \in Nat : \E at : Cuts(at, m, n, A) /\ Chop(u) = [k \in 1..m |-> Piece(u, at[k-1], at[k])]
    BY <1>1, <1>2, ChopCuts
  <1>3. PICK at : Cuts(at, m, n, A) /\ Chop(u) = [k \in 1..m |-> Piece(u, at[k-1], at[k])]
    BY <1>30
  <1>4. ASSUME NEW p \in 0..n, NEW q \in 0..n, q <= p + A PROVE Piece(u, p, q) \in LegacySet(cap)
    <2>1. PICK t : t = Slice(v, p, q)
      OBVIOUS
    <2>2. t \in Seq(TextMarks) /\ Len(t) = IF p < q THEN q - p ELSE 0
      <3>1. p \in Nat /\ q \in Int /\ q <= Len(v)
        BY <1>2
      <3> QED BY <2>1, <3>1, SliceIs
    <2>3. Len(t) <= cap
      <3>1. Len(t) <= A /\ Len(t) \in Nat
        BY <1>4, <2>2
      <3> QED BY <1>1, <3>1, CapIs
    <2>4. u.start + p \in Nat /\ u.start + q \in Nat /\ <<>> \in Seq(CrumbMarks)
      BY <1>2
    <2> QED BY <1>2, <2>1, <2>2, <2>3, <2>4 DEF Piece, LegacySet, ShortSet, ChunkSet
  <1>5. PICK ch : ch = Chop(u)
    OBVIOUS
  <1>6. ASSUME NEW k \in 1..m PROVE ch[k] \in LegacySet(cap)
    <2>1. k \in 0..m /\ k - 1 \in 0..m
      OBVIOUS
    <2>2. at[k-1] \in 0..n /\ at[k] \in 0..n /\ at[k] <= at[k-1] + A
      BY <1>3, <2>1 DEF Cuts
    <2>3. ch[k] = Piece(u, at[k-1], at[k])
      BY <1>3, <1>5
    <2> QED BY <1>4, <2>2, <2>3
  <1>7. ch = [k \in 1..m |-> ch[k]]
    BY <1>3, <1>5
  <1>8. ch \in Seq(LegacySet(cap))
    BY <1>6, <1>7, Listed
  <1> QED BY <1>5, <1>8

\* The first units, and their text
LEMMA FirstUnits ==
  ASSUME NEW units \in Seq(UnitSet), NEW n \in Nat, n <= Len(units)
  PROVE  /\ SubSeq(units, 1, n) \in Seq(UnitSet) /\ Len(SubSeq(units, 1, n)) = n
         /\ RunesOf(SubSeq(units, 1, n)) \in Nat
         /\ \A i \in 1..n : SubSeq(units, 1, n)[i] = units[i]
  <1>1. PICK t : t = SubSeq(units, 1, n)
    OBVIOUS
  <1>2. PICK w \in Nat : w = 1
    OBVIOUS
  <1>3. \A i \in w..n : units[i] \in UnitSet
    <2>1. Len(units) \in Nat
      BY LenProperties
    <2> SUFFICES ASSUME NEW i \in w..n PROVE units[i] \in UnitSet
      OBVIOUS
    <2>2. i \in 1..Len(units)
      BY <1>2, <2>1
    <2> QED BY <2>2, ElementOfSeq
  <1>4. /\ t \in Seq(UnitSet) /\ Len(t) = IF w <= n THEN n - w + 1 ELSE 0
        /\ \A i \in 1..(n - w + 1) : t[i] = units[w+i-1]
    BY <1>1, <1>2, <1>3, SubSeqProperties
  <1>5. Len(t) = n /\ \A i \in 1..n : t[i] = units[i]
    <2>1. n - w + 1 = n /\ \A i \in 1..n : w + i - 1 = i
      BY <1>2
    <2>2. Len(t) = n
      BY <1>2, <1>4, <2>1
    <2> SUFFICES ASSUME NEW i \in 1..n PROVE t[i] = units[i]
      BY <2>2
    <2>3. i \in 1..(n - w + 1) /\ w + i - 1 = i
      BY <2>1
    <2> QED BY <1>4, <2>3
  <1>6. RunesOf(t) \in Nat
    BY <1>4, TextIsText
  <1> QED BY <1>1, <1>4, <1>5, <1>6

\* A tail of units is no longer than they are.
LEMMA TailOfUnits ==
  ASSUME NEW units \in Seq(UnitSet), NEW a \in Nat \ {0}
  PROVE  /\ SubSeq(units, a, Len(units)) \in Seq(UnitSet)
         /\ RunesOf(SubSeq(units, a, Len(units))) <= RunesOf(units)
         /\ a > Len(units) => RunesOf(SubSeq(units, a, Len(units))) = 0
  <1>1. PICK n \in Nat : n = Len(units)
    BY LenProperties
  <1>2. PICK t : t = SubSeq(units, a, n)
    OBVIOUS
  <1>3. \A i \in a..n : units[i] \in UnitSet
    <2> SUFFICES ASSUME NEW i \in a..n PROVE units[i] \in UnitSet
      OBVIOUS
    <2>1. i \in 1..Len(units)
      BY <1>1
    <2> QED BY <2>1, ElementOfSeq
  <1>4. /\ t \in Seq(UnitSet) /\ Len(t) = IF a <= n THEN n - a + 1 ELSE 0
        /\ \A i \in 1..(n - a + 1) : t[i] = units[a+i-1]
    BY <1>2, <1>3, SubSeqProperties
  <1>5. RunesOf(units) \in Nat
    BY TextIsText
  <1>6. CASE a > n
    <2>1. t = <<>>
      BY <1>4, <1>6, EmptySeq
    <2> QED BY <1>1, <1>2, <1>4, <1>5, <2>1, NoText
  <1>7. CASE a <= n
    <2>1. PICK k \in Nat : k = a - 1
      OBVIOUS
    <2>2. PICK s : s = SubSeq(units, 1, k)
      OBVIOUS
    <2>3. s \in Seq(UnitSet) /\ Len(s) = k /\ RunesOf(s) \in Nat /\ \A i \in 1..k : s[i] = units[i]
      <3>1. k <= Len(units)
        BY <1>1, <1>7, <2>1
      <3> QED BY <2>2, <3>1, FirstUnits
    <2>4. PICK w \in Nat : w = Len(t) /\ w = n - k
      BY <1>4, <1>7, <2>1
    <2>5. PICK g : g = Glue(s, t)
      OBVIOUS
    <2>6. /\ g \in Seq(UnitSet) /\ Len(g) = k + w
          /\ \A i \in 1..(k + w) : g[i] = IF i <= k THEN s[i] ELSE t[i-k]
      <3>1. PICK x \in Seq(UnitSet), y \in Seq(UnitSet) : x = s /\ y = t
        BY <1>4, <2>3
      <3>2. Len(x) = k /\ Len(y) = w
        BY <2>3, <2>4, <3>1
      <3>3. PICK h : h = Glue(x, y)
        OBVIOUS
      <3>4. /\ h \in Seq(UnitSet) /\ Len(h) = k + w
            /\ \A i \in 1..(k + w) : h[i] = IF i <= k THEN x[i] ELSE y[i-k]
        BY <3>2, <3>3, GlueIs
      <3> QED BY <2>5, <3>1, <3>3, <3>4
    <2>7. ASSUME NEW i \in 1..n PROVE g[i] = units[i]
      <3>1. i \in 1..(k+w)
        BY <2>1, <2>4
      <3>2. CASE i <= k
        BY <2>3, <2>6, <3>1, <3>2
      <3>3. CASE i > k
        <4>1. g[i] = t[i-k]
          BY <2>6, <3>1, <3>3
        <4>2. i - k \in 1..(n - a + 1) /\ a + (i - k) - 1 = i
          BY <2>1, <3>3
        <4>3. t[i-k] = units[a+(i-k)-1]
          BY <1>4, <4>2
        <4> QED BY <4>1, <4>2, <4>3
      <3> QED BY <3>2, <3>3
    <2>8. g = units
      <3>1. Len(g) = Len(units) /\ \A i \in 1..Len(g) : g[i] = units[i]
        BY <1>1, <2>4, <2>6, <2>7
      <3> QED BY <2>6, <3>1, SameSeq
    <2>9. RunesOf(s \o t) = RunesOf(s) + RunesOf(t)
      BY <1>4, <2>3, TextConcat
    <2>10. RunesOf(t) \in Nat
      BY <1>4, TextIsText
    <2> QED BY <1>1, <1>2, <1>4, <1>5, <1>7, <2>3, <2>5, <2>8, <2>9, <2>10 DEF Glue
  <1> QED BY <1>1, <1>6, <1>7

\* parts are units, each no longer than its counterpart.
NoLonger(parts, units) ==
  /\ parts \in Seq(UnitSet) /\ Len(parts) = Len(units)
  /\ \A k \in 1..Len(units) : Len(parts[k].text) <= Len(units[k].text)

\* What is kept of them is no longer either.
LEMMA KeptShorter ==
  ASSUME NEW units \in Seq(UnitSet), NEW parts, NoLonger(parts, units), NEW P
  PROVE  Kept(parts, P) \in Seq(UnitSet) /\ RunesOf(Kept(parts, P)) <= RunesOf(units)
  <1>1. PICK n \in Nat : n = Len(units)
    BY LenProperties
  <1>2. parts \in Seq(UnitSet) /\ n = Len(parts) /\ \A k \in 1..n : Len(parts[k].text) <= Len(units[k].text)
    BY <1>1 DEF NoLonger
  <1>3. PICK f \in [0..n -> Seq(TextMarks)] : Joining(f, units, n) /\ TextOf(units) = f[n]
    BY <1>1, TextJoins
  <1>4. PICK K \in [0..n -> Seq(UnitSet)] : KeptBy(K, parts, P, n)
    BY <1>2, KeptSteps
  <1> DEFINE Q == {c \in 0..n : RunesOf(K[c]) <= Len(f[c])}
  <1>5. 0 \in Q
    <2>1. K[0] = <<>> /\ f[0] = <<>> /\ 0 \in 0..n
      BY <1>3, <1>4 DEF Joining, KeptBy, Keeping
    <2>2. Len(f[0]) = 0
      BY <2>1
    <2>3. RunesOf(K[0]) = 0
      BY <2>1, NoText
    <2> QED BY <2>1, <2>2, <2>3
  <1>6. ASSUME NEW c \in 0..(n-1), c \in Q PROVE c + 1 \in Q
    <2>1. c + 1 \in 1..n /\ (c + 1) - 1 = c /\ c \in 0..n /\ c + 1 \in 0..n
      OBVIOUS
    <2>2. PICK d \in 1..n : d = c + 1
      BY <2>1
    <2>3. K[d] = IF d \in P THEN Append(K[c], parts[d]) ELSE K[c]
      BY <1>4, <2>1, <2>2 DEF KeptBy, Keeping
    <2>4. f[d] = f[c] \o units[d].text
      BY <1>3, <2>1, <2>2 DEF Joining
    <2>5. PICK u \in UnitSet, p \in UnitSet : u = units[d] /\ p = parts[d]
      <3>1. d \in 1..Len(units) /\ d \in 1..Len(parts)
        BY <1>1, <1>2
      <3> QED BY <1>2, <3>1, UnitHas
    <2>6. u.text \in Seq(TextMarks) /\ p.text \in Seq(TextMarks)
      BY DEF UnitSet
    <2>7. PICK a \in Nat, b \in Nat : a = Len(u.text) /\ b = Len(p.text) /\ b <= a
      <3>1. Len(p.text) <= Len(u.text)
        BY <1>2, <2>5
      <3> QED BY <2>6, <3>1, LenProperties
    <2>8. PICK x \in Seq(UnitSet), y \in Seq(TextMarks) : x = K[c] /\ y = f[c]
      BY <2>1
    <2>9. PICK r \in Nat, l \in Nat : r = RunesOf(x) /\ l = Len(y) /\ r <= l
      <3>1. RunesOf(K[c]) <= Len(f[c])
        BY <1>6
      <3> QED BY <2>8, <3>1, TextIsText, LenProperties
    <2>10. Len(f[d]) = l + a
      BY <2>4, <2>5, <2>6, <2>7, <2>8, <2>9, ConcatProperties
    <2>11. RunesOf(Append(x, p)) = r + b
      BY <2>7, <2>9, TextAppend
    <2>12. RunesOf(K[d]) <= Len(f[d])
      <3>1. CASE d \in P
        <4>1. PICK z : z = Append(x, p)
          OBVIOUS
        <4>2. K[d] = z
          BY <2>3, <2>5, <2>8, <3>1, <4>1
        <4>3. RunesOf(K[d]) = r + b
          BY <2>11, <4>1, <4>2
        <4>4. r + b <= l + a
          BY <2>7, <2>9, SMTT(40)
        <4> QED BY <2>10, <4>3, <4>4
      <3>2. CASE d \notin P
        <4>1. K[d] = x
          BY <2>3, <2>8, <3>2
        <4>2. RunesOf(K[d]) = r
          BY <2>9, <4>1
        <4>3. r <= l + a
          BY <2>7, <2>9
        <4> QED BY <2>10, <4>2, <4>3
      <3> QED BY <3>1, <3>2
    <2> QED BY <2>1, <2>2, <2>12
  <1>7. n \in Q
    <2>1. 0 \in Int /\ n \in Int /\ n \in 0..n
      OBVIOUS
    <2>2. \A c \in 0..n : c \in Q
      <3> HIDE DEF Q
      <3> QED BY <1>5, <1>6, <2>1, IntervalInduction
    <2> QED BY <2>1, <2>2
  <1>8. K[n] \in Seq(UnitSet) /\ Kept(parts, P) = K[n] /\ RunesOf(K[n]) <= Len(f[n])
    BY <1>4, <1>7 DEF KeptBy
  <1> QED BY <1>3, <1>8 DEF RunesOf

\* Units without their first runes are units, and no longer.
LEMMA TrimIs ==
  ASSUME NEW units \in Seq(UnitSet), NEW r \in Int
  PROVE  TrimPrefix(units, r) \in Seq(UnitSet) /\ RunesOf(TrimPrefix(units, r)) <= RunesOf(units)
  <1> DEFINE part(u, c) == [text |-> Slice(u.text, c, Len(u.text)), start |-> u.start + c, end |-> u.end]
             skip(k)    == Most(0, r - RunesOf(SubSeq(units, 1, k-1)))
             parts      == [k \in DOMAIN units |-> part(units[k], skip(k))]
  <1>1. TrimPrefix(units, r) = Kept(parts, {k \in DOMAIN parts : parts[k].text # <<>>})
    BY DEF TrimPrefix
  <1>2. PICK n \in Nat : n = Len(units) /\ DOMAIN units = 1..n
    BY LenProperties
  <1>3. ASSUME NEW k \in 1..n
        PROVE  part(units[k], skip(k)) \in UnitSet
               /\ Len(part(units[k], skip(k)).text) <= Len(units[k].text)
    <2>1. PICK u \in UnitSet : u = units[k]
      BY <1>2, UnitHas
    <2>2. u.text \in Seq(TextMarks) /\ u.start \in Nat /\ u.end \in Nat
      BY DEF UnitSet
    <2>3. PICK c \in Nat : c = skip(k)
      <3>1. PICK b \in Nat : b = RunesOf(SubSeq(units, 1, k-1))
        <4>1. k - 1 \in Nat /\ k - 1 <= Len(units)
          BY <1>2
        <4> QED BY <4>1, FirstUnits
      <3> QED BY <3>1 DEF Most
    <2>4. PICK l \in Nat : l = Len(u.text)
      BY <2>2, LenProperties
    <2>5. PICK t : t = Slice(u.text, c, l)
      OBVIOUS
    <2>6. t \in Seq(TextMarks) /\ Len(t) = IF c < l THEN l - c ELSE 0
      <3>1. l \in Int /\ l <= Len(u.text)
        BY <2>4
      <3>2. PICK v \in Seq(TextMarks) : v = u.text
        BY <2>2
      <3>3. l <= Len(v) /\ t = Slice(v, c, l)
        BY <2>5, <3>1, <3>2
      <3> HIDE DEF part, skip, parts
      <3>4. Slice(v, c, l) \in Seq(TextMarks) /\ Len(Slice(v, c, l)) = IF c < l THEN l - c ELSE 0
        BY <3>1, <3>3, SliceIs
      <3> QED BY <3>3, <3>4
    <2>7. Len(t) <= l
      BY <2>6
    <2>8. u.start + c \in Nat
      BY <2>2
    <2>9. part(u, c) \in UnitSet /\ part(u, c).text = t
      BY <2>2, <2>4, <2>5, <2>6, <2>8 DEF UnitSet
    <2> HIDE DEF part, skip
    <2> QED BY <2>1, <2>3, <2>4, <2>7, <2>9
  <1>4. PICK ps : ps = parts
    OBVIOUS
  <1>5. ps = [k \in 1..n |-> part(units[k], skip(k))]
    BY <1>2, <1>4
  <1> HIDE DEF part, skip, parts
  <1>6. ps = [k \in 1..n |-> ps[k]] /\ \A k \in 1..n : ps[k] \in UnitSet /\ Len(ps[k].text) <= Len(units[k].text)
    BY <1>3, <1>5
  <1>7. ps \in Seq(UnitSet)
    BY <1>6, Listed
  <1>8. Len(ps) = n
    <2>1. DOMAIN ps = 1..n
      BY <1>5
    <2> QED BY <1>7, <2>1, LenProperties
  <1>9. NoLonger(ps, units)
    BY <1>2, <1>6, <1>7, <1>8 DEF NoLonger
  <1> QED BY <1>1, <1>4, <1>9, KeptShorter

\* The last synthetic unit is one of them, or there is none.
LEMMA LastSynthetic ==
  ASSUME NEW units \in Seq(UnitSet)
  PROVE  SelectLastInSeq(units, Synthetic) \in 0..Len(units)
  <1> DEFINE I == {i \in 1..Len(units) : Synthetic(units[i])}
  <1>1. SelectLastInSeq(units, Synthetic) = IF I # {} THEN Max(I) ELSE 0
    BY DEF SelectLastInSeq
  <1>2. PICK n \in Nat : n = Len(units)
    BY LenProperties
  <1>3. I # {} => Max(I) \in I
    BY <1>2, FirstAndLast
  <1>4. I \in SUBSET (1..n)
    BY <1>2
  <1>5. PICK z : z = SelectLastInSeq(units, Synthetic)
    OBVIOUS
  <1>6. z = IF I # {} THEN Max(I) ELSE 0
    BY <1>1, <1>5
  <1> HIDE DEF I
  <1>7. z \in 0..n
    <2>1. CASE I # {}
      <3>1. z \in I
        BY <1>3, <1>6, <2>1
      <3> QED BY <1>4, <3>1
    <2>2. CASE I = {}
      BY <1>6, <2>2
    <2> QED BY <2>1, <2>2
  <1> QED BY <1>2, <1>5, <1>7

\* A best boundary is one of the boundaries.
LEMMA BestIs ==
  ASSUME NEW txt, NEW ends \in SUBSET Nat, ends # {}
  PROVE  BestBoundary(txt, ends) \in ends
  <1>1. \A e \in ends : BoundaryRank(txt[e]) \in 1..4
    BY DEF BoundaryRank
  <1> DEFINE ranks == {BoundaryRank(txt[e]) : e \in ends}
  <1>2. ranks \in SUBSET Nat /\ ranks # {}
    <2>1. PICK e : e \in ends
      OBVIOUS
    <2>2. BoundaryRank(txt[e]) \in ranks
      BY <2>1
    <2>3. \A s \in ranks : s \in Nat
      <3> SUFFICES ASSUME NEW e1 \in ends PROVE BoundaryRank(txt[e1]) \in Nat
        OBVIOUS
      <3>1. BoundaryRank(txt[e1]) \in 1..4
        BY <1>1
      <3> QED BY <3>1
    <2> HIDE DEF ranks
    <2> QED BY <2>2, <2>3
  <1>3. PICK r \in ranks : \A s \in ranks : r <= s
    BY <1>2, LeastNumber
  <1> DEFINE best == {e \in ends : BoundaryRank(txt[e]) = r}
  <1>4. best \in SUBSET Nat /\ best # {}
    BY <1>3
  <1>5. PICK d \in best : \A e \in best : d <= e
    BY <1>4, LeastNumber
  <1>6. ASSUME NEW e \in ends
        PROVE  \/ BoundaryRank(txt[d]) < BoundaryRank(txt[e])
               \/ BoundaryRank(txt[d]) = BoundaryRank(txt[e]) /\ d <= e
    <2>1. BoundaryRank(txt[d]) = r /\ r <= BoundaryRank(txt[e]) /\ r \in Nat /\ BoundaryRank(txt[e]) \in Nat
      BY <1>1, <1>2, <1>3
    <2>2. CASE BoundaryRank(txt[e]) = r
      BY <1>5, <2>1, <2>2
    <2>3. CASE BoundaryRank(txt[e]) # r
      BY <2>1, <2>3
    <2> QED BY <2>2, <2>3
  <1>7. d \in ends
    OBVIOUS
  <1> QED BY <1>6, <1>7 DEF BestBoundary

\* Units no longer than they
PartOf(units, whole) == units \in Seq(UnitSet) /\ RunesOf(units) <= RunesOf(whole)

\* No units are within any.
LEMMA NoneWithin ==
  ASSUME NEW whole \in Seq(UnitSet)
  PROVE  PartOf(<<>>, whole)
  <1>1. RunesOf(whole) \in Nat /\ RunesOf(<<>>) = 0 /\ <<>> \in Seq(UnitSet)
    BY TextIsText, NoText
  <1> QED BY <1>1 DEF PartOf

\* The overlap comes from the units, and is no longer than they are.
LEMMA CarryIs ==
  ASSUME NEW cur \in Seq(UnitSet), NEW most \in Int
  PROVE  PartOf(Carry(cur, most), cur)
  <1>1. PICK a \in Nat : a = SelectLastInSeq(cur, Synthetic)
    <2>1. Len(cur) \in Nat
      BY LenProperties
    <2> QED BY <2>1, LastSynthetic
  <1>2. PICK tail : tail = SubSeq(cur, a + 1, Len(cur))
    OBVIOUS
  <1>3. tail \in Seq(UnitSet) /\ RunesOf(tail) <= RunesOf(cur)
    <2>1. a + 1 \in Nat \ {0}
      OBVIOUS
    <2> QED BY <1>2, <2>1, TailOfUnits
  <1>4. PICK r \in Int : r = Most(0, RunesOf(tail) - (most + 1))
    <2>1. RunesOf(tail) \in Nat
      BY <1>3, TextIsText
    <2> QED BY <2>1 DEF Most
  <1>5. PICK window : window = CarryWindow(cur, most)
    OBVIOUS
  <1>6. window = TrimPrefix(tail, r)
    BY <1>1, <1>2, <1>4, <1>5 DEF CarryWindow
  <1>7. window \in Seq(UnitSet) /\ RunesOf(window) <= RunesOf(tail)
    BY <1>3, <1>6, TrimIs
  <1>8. PICK ends : ends = Boundaries(TextOf(window), most)
    OBVIOUS
  <1>9. ends \in SUBSET Nat
    BY <1>8 DEF Boundaries
  <1>10. CarryIn(window, most) = IF ends = {} THEN <<>> ELSE TrimPrefix(window, BestBoundary(TextOf(window), ends))
    BY <1>8 DEF CarryIn, FromBoundary
  <1>11. CASE most <= 0 \/ ends = {}
    <2>1. Carry(cur, most) = <<>>
      BY <1>5, <1>10, <1>11 DEF Carry
    <2> QED BY <2>1, NoneWithin
  <1>12. CASE ~(most <= 0) /\ ends # {}
    <2>0. PICK d : d = BestBoundary(TextOf(window), ends)
      OBVIOUS
    <2>1. d \in Int /\ d = BestBoundary(TextOf(window), ends)
      <3>1. d \in ends
        BY <1>9, <1>12, <2>0, BestIs
      <3>2. d \in Nat
        BY <1>9, <3>1
      <3> QED BY <2>0, <3>2
    <2>2. PICK t : t = TrimPrefix(window, d)
      OBVIOUS
    <2>3. t \in Seq(UnitSet) /\ RunesOf(t) <= RunesOf(window)
      BY <1>7, <2>1, <2>2, TrimIs
    <2>4. Carry(cur, most) = t
      BY <1>5, <1>10, <1>12, <2>1, <2>2 DEF Carry
    <2>5. /\ RunesOf(t) \in Nat /\ RunesOf(window) \in Nat
          /\ RunesOf(tail) \in Nat /\ RunesOf(cur) \in Nat
      BY <1>3, <1>7, <2>3, TextIsText
    <2>6. RunesOf(t) <= RunesOf(cur)
      BY <1>3, <1>7, <2>3, <2>5
    <2> QED BY <2>3, <2>4, <2>6 DEF PartOf
  <1> QED BY <1>11, <1>12

\* What is left after shrinking fits the room and is no longer than before.
LEMMA ShrinkIs ==
  ASSUME NEW units \in Seq(UnitSet), NEW room \in Int
  PROVE  /\ ShrinkTo(units, room) \in Seq(UnitSet)
         /\ RunesOf(ShrinkTo(units, room)) <= Most(room, 0)
         /\ \E k \in 0..Len(units) : ShrinkTo(units, room) = SubSeq(units, k + 1, Len(units))
  <1>1. PICK n \in Nat : n = Len(units)
    BY LenProperties
  <1>2. PICK m \in Nat : m = Most(room, 0)
    BY DEF Most
  <1> DEFINE tail(k) == SubSeq(units, k+1, n)
             Fits    == {k \in 0..n : RunesOf(tail(k)) <= m}
             Chosen(k) == RunesOf(tail(k)) <= m /\ \A j \in 0..(k-1) : RunesOf(tail(j)) > m
             best    == CHOOSE k \in 0..n : Chosen(k)
  <1>3. \A k \in 0..n : tail(k) \in Seq(UnitSet) /\ RunesOf(tail(k)) \in Nat
    <2> SUFFICES ASSUME NEW k \in 0..n PROVE tail(k) \in Seq(UnitSet) /\ RunesOf(tail(k)) \in Nat
      OBVIOUS
    <2>1. k + 1 \in Nat \ {0}
      OBVIOUS
    <2>2. tail(k) \in Seq(UnitSet)
      BY <1>1, <2>1, TailOfUnits
    <2> QED BY <2>2, TextIsText
  <1>4. n \in Fits
    <2>1. n + 1 \in Nat \ {0} /\ n + 1 > Len(units) /\ n \in 0..n
      BY <1>1
    <2>2. RunesOf(tail(n)) = 0
      BY <1>1, <2>1, TailOfUnits
    <2> QED BY <2>1, <2>2
  <1>5. PICK k \in Fits : \A j \in Fits : k <= j
    <2>1. \A j \in Fits : j \in Nat
      <3> HIDE DEF tail
      <3> QED OBVIOUS
    <2> HIDE DEF Fits
    <2>2. Fits \in SUBSET Nat /\ Fits # {}
      BY <1>4, <2>1
    <2> QED BY <2>2, LeastNumber
  <1>6. k \in 0..n /\ Chosen(k)
    <2>1. k \in 0..n /\ RunesOf(tail(k)) <= m
      OBVIOUS
    <2>2. ASSUME NEW j \in 0..(k-1) PROVE RunesOf(tail(j)) > m
      <3>1. j \in 0..n /\ ~(k <= j)
        BY <2>1
      <3>2. j \notin Fits
        BY <1>5, <3>1
      <3>3. RunesOf(tail(j)) \in Nat
        BY <1>3, <3>1
      <3> HIDE DEF tail
      <3> QED BY <3>1, <3>2, <3>3
    <2> HIDE DEF tail
    <2> QED BY <2>1, <2>2
  <1>7. best \in 0..n /\ Chosen(best)
    <2> HIDE DEF Chosen
    <2> QED BY <1>6
  <1>8. ShrinkTo(units, room) = tail(best)
    BY <1>1, <1>2 DEF ShrinkTo
  <1>9. RunesOf(tail(best)) <= m
    BY <1>7
  <1>10. \E j \in 0..n : tail(best) = SubSeq(units, j + 1, n)
    <2> HIDE DEF best, Chosen
    <2> QED BY <1>7
  <1> HIDE DEF best, tail, Chosen
  <1> QED BY <1>1, <1>2, <1>3, <1>7, <1>8, <1>9, <1>10

\* Re-injecting a header adds a rune at most.
LEMMA InjectIs ==
  ASSUME NEW kept \in Seq(UnitSet), NEW u \in UnitSet
  PROVE  /\ InjectHeader(kept, u) \in Seq(UnitSet)
         /\ RunesOf(InjectHeader(kept, u)) <= RunesOf(kept) + 1
  <1>1. RunesOf(kept) \in Nat
    BY TextIsText
  <1>2. CASE InjectHeader(kept, u) = kept
    BY <1>1, <1>2
  <1>3. CASE InjectHeader(kept, u) # kept
    <2>1. PICK at \in Nat : at = IF kept = <<>> THEN u.start ELSE kept[1].start
      <3>1. CASE kept = <<>>
        BY <3>1 DEF UnitSet
      <3>2. CASE kept # <<>>
        <4>1. Len(kept) \in Nat /\ Len(kept) # 0
          BY <3>2, EmptySeq, LenProperties
        <4>2. 1 \in 1..Len(kept)
          BY <4>1
        <4>3. kept[1].start \in Nat
          BY <4>2, UnitHas
        <4> QED BY <3>2, <4>3
      <3> QED BY <3>1, <3>2
    <2>2. PICK h : h = [text |-> <<"T">>, start |-> at, end |-> at]
      OBVIOUS
    <2>3. h \in UnitSet /\ Len(h.text) = 1
      <3>1. <<"T">> \in Seq(TextMarks)
        BY DEF TextMarks, LineMarks, TableMarks
      <3> QED BY <2>2, <3>1 DEF UnitSet
    <2>4. PICK e : e = <<h>>
      OBVIOUS
    <2>5. e \in Seq(UnitSet) /\ RunesOf(e) = 1
      BY <2>3, <2>4, TextOfOne
    <2>6. InjectHeader(kept, u) = e \o kept
      BY <1>3, <2>1, <2>2, <2>4 DEF InjectHeader
    <2>7. RunesOf(e \o kept) = RunesOf(e) + RunesOf(kept)
      BY <2>5, TextConcat
    <2>8. e \o kept \in Seq(UnitSet)
      BY <2>5, ConcatProperties
    <2> QED BY <1>1, <2>5, <2>6, <2>7, <2>8
  <1> QED BY <1>2, <1>3

\* Units short enough for a chunk
ShortUnits(cap) == {us \in Seq(UnitSet) : RunesOf(us) <= cap}

\* The next chunk opens short.
LEMMA OpeningIs ==
  ASSUME NEW cap \in Caps, NEW carry \in ShortUnits(cap), NEW u \in UnitSet, NEW head, NEW size \in Nat, size <= cap
  PROVE  Opening(carry, u, head, size) \in ShortUnits(cap)
  <1>1. carry \in Seq(UnitSet)
    BY DEF ShortUnits
  <1>2. CASE ~(head = 1 /\ 1 + Len(u.text) <= size)
    BY <1>2 DEF Opening
  <1>3. CASE head = 1 /\ 1 + Len(u.text) <= size
    <2>1. PICK l \in Nat : l = Len(u.text)
      <3>1. u.text \in Seq(TextMarks)
        BY DEF UnitSet
      <3> QED BY <3>1, LenProperties
    <2>2. PICK room \in Nat : room = size - 1 - l
      <3>1. 1 + l <= size
        BY <1>3, <2>1
      <3> QED BY <3>1
    <2>3. PICK kept : kept = ShrinkTo(carry, room)
      OBVIOUS
    <2>4. kept \in Seq(UnitSet) /\ RunesOf(kept) <= room
      <3>1. Most(room, 0) = room
        BY DEF Most
      <3>2. room \in Int
        OBVIOUS
      <3> QED BY <1>1, <2>3, <3>1, <3>2, ShrinkIs
    <2>5. PICK o : o = InjectHeader(kept, u)
      OBVIOUS
    <2>6. o \in Seq(UnitSet) /\ RunesOf(o) <= RunesOf(kept) + 1
      BY <2>4, <2>5, InjectIs
    <2>7. RunesOf(o) \in Nat /\ RunesOf(kept) \in Nat
      BY <2>4, <2>6, TextIsText
    <2>8. RunesOf(o) <= cap
      <3>1. cap \in Nat
        BY CapIs
      <3> QED BY <2>2, <2>4, <2>6, <2>7, <3>1
    <2>9. Opening(carry, u, head, size) = o
      BY <1>3, <2>1, <2>2, <2>3, <2>5 DEF Opening
    <2> QED BY <2>6, <2>8, <2>9 DEF ShortUnits
  <1> QED BY <1>2, <1>3

\* mergeUnits between two units
HeaderSet == [active : BOOLEAN, break : BOOLEAN, ended : BOOLEAN]
Merging(cap) == [chunks : Seq(LegacySet(cap)), cur : ShortUnits(cap), ht : HeaderSet]

\* A flush keeps every chunk short, and empties the units.
LEMMA FlushIs ==
  ASSUME NEW cap \in Caps, NEW m \in Merging(cap)
  PROVE  /\ Flush(m).chunks \in Seq(LegacySet(cap)) /\ Flush(m).cur = <<>> /\ Flush(m).ht = m.ht
         /\ \A x \in ShortUnits(cap) : [Flush(m) EXCEPT !.cur = x] \in Merging(cap)
         /\ Flush(m) \in Merging(cap)
  <1>1. m.chunks \in Seq(LegacySet(cap)) /\ m.cur \in ShortUnits(cap) /\ m.ht \in HeaderSet
    BY DEF Merging
  <1>2. PICK b : b = Build(m.cur)
    OBVIOUS
  <1>3. b \in LegacySet(cap)
    <2>1. m.cur \in Seq(UnitSet) /\ RunesOf(m.cur) <= cap
      BY <1>1 DEF ShortUnits
    <2>2. b \in ChunkSet /\ b.bc = <<>> /\ Len(b.content) = RunesOf(m.cur)
      BY <1>2, <2>1, BuildIs
    <2> QED BY <2>1, <2>2 DEF LegacySet, ShortSet
  <1>4. PICK cs : cs = IF BlankText(TextOf(m.cur)) THEN m.chunks ELSE Append(m.chunks, b)
    OBVIOUS
  <1>5. cs \in Seq(LegacySet(cap))
    <2>1. Append(m.chunks, b) \in Seq(LegacySet(cap))
      BY <1>1, <1>3, AppendProperties
    <2> QED BY <1>1, <1>4, <2>1
  <1>6. PICK e : e = <<>>
    OBVIOUS
  <1>7. e \in ShortUnits(cap)
    <2>1. <<>> \in Seq(UnitSet) /\ RunesOf(<<>>) = 0 /\ cap \in Nat
      BY NoText, CapIs
    <2> QED BY <1>6, <2>1 DEF ShortUnits
  <1>8. PICK f : f = [m EXCEPT !.chunks = cs, !.cur = e]
    OBVIOUS
  <1>9. Flush(m) = f
    BY <1>2, <1>4, <1>6, <1>8 DEF Flush
  <1>10. f \in Merging(cap) /\ f.chunks = cs /\ f.cur = e /\ f.ht = m.ht
    BY <1>5, <1>7, <1>8 DEF Merging
  <1>11. \A x \in ShortUnits(cap) : [f EXCEPT !.cur = x] \in Merging(cap)
    BY <1>10 DEF Merging
  <1> QED BY <1>5, <1>6, <1>9, <1>10, <1>11

\* Making room keeps every chunk short.
LEMMA MakeRoomIs ==
  ASSUME NEW cap \in Caps, NEW m \in Merging(cap), NEW u \in UnitSet, NEW head, NEW size \in Nat, size <= cap,
         NEW overlap \in Int
  PROVE  MakeRoom(m, u, head, size, overlap) \in Merging(cap)
  <1>1. CASE MakeRoom(m, u, head, size, overlap) = m
    BY <1>1
  <1>2. CASE MakeRoom(m, u, head, size, overlap) # m
    <2>1. PICK most \in Int : most = Least(overlap, size - Len(u.text))
      <3>1. u.text \in Seq(TextMarks)
        BY DEF UnitSet
      <3>2. PICK l \in Nat : l = Len(u.text)
        BY <3>1, LenProperties
      <3>3. PICK d \in Int : d = size - l
        OBVIOUS
      <3>4. Least(overlap, d) \in Int
        BY DEF Least
      <3>5. PICK x \in Int : x = Least(overlap, d)
        BY <3>4
      <3> QED BY <3>2, <3>3, <3>5
    <2>2. PICK carry : carry = Carry(m.cur, most)
      OBVIOUS
    <2>3. carry \in ShortUnits(cap)
      <3>1. m.cur \in Seq(UnitSet) /\ RunesOf(m.cur) <= cap
        BY DEF Merging, ShortUnits
      <3>2. carry \in Seq(UnitSet) /\ RunesOf(carry) <= RunesOf(m.cur)
        BY <2>2, <3>1, CarryIs DEF PartOf
      <3>3. RunesOf(carry) \in Nat /\ RunesOf(m.cur) \in Nat /\ cap \in Nat
        BY <3>1, <3>2, TextIsText, CapIs
      <3>4. RunesOf(carry) <= cap
        BY <3>1, <3>2, <3>3
      <3> QED BY <3>2, <3>4 DEF ShortUnits
    <2>4. PICK x : x = Opening(carry, u, head, size)
      OBVIOUS
    <2>5. x \in ShortUnits(cap)
      BY <2>3, <2>4, OpeningIs
    <2>6. MakeRoom(m, u, head, size, overlap) = [Flush(m) EXCEPT !.cur = x]
      BY <1>2, <2>1, <2>2, <2>4 DEF MakeRoom
    <2> QED BY <2>5, <2>6, FlushIs
  <1> QED BY <1>1, <1>2

\* So does taking a unit that is short itself.
LEMMA TakeIs ==
  ASSUME NEW cap \in Caps, NEW m \in Merging(cap), NEW u \in UnitSet, Len(u.text) <= AbsoluteMax
  PROVE  Take(m, u) \in Merging(cap)
  <1>1. m.cur \in Seq(UnitSet) /\ RunesOf(m.cur) \in Nat
        /\ AbsoluteMax \in Nat /\ cap \in Nat /\ AbsoluteMax <= cap
    BY TextIsText, CapIs DEF Merging, ShortUnits
  <1>2. PICK l \in Nat : l = Len(u.text)
    <2>1. u.text \in Seq(TextMarks)
      BY DEF UnitSet
    <2> QED BY <2>1, LenProperties
  <1>3. CASE RunesOf(m.cur) + l > AbsoluteMax
    <2>1. PICK x : x = <<u>>
      OBVIOUS
    <2>2. x \in ShortUnits(cap)
      <3>1. x \in Seq(UnitSet) /\ RunesOf(x) = l
        BY <1>2, <2>1, TextOfOne
      <3>2. l <= cap
        BY <1>1, <1>2
      <3> QED BY <3>1, <3>2 DEF ShortUnits
    <2>3. Take(m, u) = [Flush(m) EXCEPT !.cur = x]
      BY <1>2, <1>3, <2>1 DEF Take
    <2> QED BY <2>2, <2>3, FlushIs
  <1>4. CASE ~(RunesOf(m.cur) + l > AbsoluteMax)
    <2>1. PICK x : x = Append(m.cur, u)
      OBVIOUS
    <2>2. x \in Seq(UnitSet) /\ RunesOf(x) = RunesOf(m.cur) + l
      BY <1>1, <1>2, <2>1, TextAppend
    <2>3. x \in ShortUnits(cap)
      BY <1>1, <1>2, <1>4, <2>2 DEF ShortUnits
    <2>4. Take(m, u) = [m EXCEPT !.cur = x]
      BY <1>2, <1>4, <2>1 DEF Take
    <2> QED BY <2>3, <2>4 DEF Merging
  <1> QED BY <1>3, <1>4

\* And the whole turn, whatever the size of the unit.
LEMMA TurnIs ==
  ASSUME NEW cap \in Caps, NEW m \in Merging(cap), NEW u \in UnitSet, NEW ht \in HeaderSet, NEW size \in Nat,
         size <= cap, NEW overlap \in Int
  PROVE  Turn(m, u, ht, size, overlap) \in Merging(cap)
  <1>1. PICK f : f = Flush(m)
    OBVIOUS
  <1>2. f \in Merging(cap) /\ f.chunks \in Seq(LegacySet(cap))
    BY <1>1, FlushIs
  <1>3. CASE Len(u.text) > AbsoluteMax
    <2>1. PICK cs : cs = f.chunks \o Chop(u)
      OBVIOUS
    <2>2. cs \in Seq(LegacySet(cap))
      BY <1>2, <2>1, ChopIs, ConcatProperties
    <2>3. Turn(m, u, ht, size, overlap) = [f EXCEPT !.ht = ht, !.chunks = cs]
      BY <1>1, <1>3, <2>1 DEF Turn
    <2> QED BY <1>2, <2>2, <2>3 DEF Merging
  <1>4. CASE ~(Len(u.text) > AbsoluteMax)
    <2>1. PICK g : g = [(IF ht.ended THEN f ELSE m) EXCEPT !.ht = ht]
      OBVIOUS
    <2>2. g \in Merging(cap)
      <3>1. PICK h \in Merging(cap) : h = IF ht.ended THEN f ELSE m
        BY <1>2
      <3>2. g = [h EXCEPT !.ht = ht]
        BY <2>1, <3>1
      <3> QED BY <3>2 DEF Merging
    <2>3. PICK r : r = MakeRoom(g, u, IF ht.active /\ 1 <= size THEN 1 ELSE 0, size, overlap)
      OBVIOUS
    <2>4. r \in Merging(cap)
      BY <2>2, <2>3, MakeRoomIs
    <2>5. Turn(m, u, ht, size, overlap) = Take(r, u)
      BY <1>1, <1>4, <2>1, <2>3 DEF Turn
    <2>6. Len(u.text) <= AbsoluteMax
      <3>1. u.text \in Seq(TextMarks)
        BY DEF UnitSet
      <3>2. Len(u.text) \in Nat /\ AbsoluteMax \in Nat
        BY <3>1, LenProperties, Limits
      <3> QED BY <1>4, <3>2
    <2> QED BY <2>4, <2>5, <2>6, TakeIs
  <1> QED BY <1>3, <1>4

\* The header tracker
LEMMA TrackIs ==
  ASSUME NEW ht, NEW u
  PROVE  TrackHeader(ht, u) \in HeaderSet
  BY DEF TrackHeader, HeaderSet

\* mergeUnits, one unit after the other
Merges(h, units, n, size, overlap) ==
  /\ h[0] = [chunks |-> <<>>, cur |-> <<>>, ht |-> NoHeader]
  /\ \A i \in 1..n : h[i] = Turn(h[i-1], units[i], TrackHeader(h[i-1].ht, units[i]), size, overlap)

\* There are such steps, and the last is flushed.
LEMMA MergeSteps ==
  ASSUME NEW cap \in Caps, NEW units \in Seq(UnitSet), NEW size \in Nat, size <= cap, NEW overlap \in Int
  PROVE  \E h \in [0..Len(units) -> Merging(cap)] :
           /\ Merges(h, units, Len(units), size, overlap)
           /\ MergeUnits(units, size, overlap) = Flush(h[Len(units)]).chunks
  <1> DEFINE first == [chunks |-> <<>>, cur |-> <<>>, ht |-> NoHeader]
             turn(i, m) == Turn(m, units[i], TrackHeader(m.ht, units[i]), size, overlap)
             Val(h, i) == IF i = 0 THEN first ELSE turn(i, h[i-1])
  <1>1. PICK n \in Nat : n = Len(units)
    BY LenProperties
  <1> DEFINE Is(h) == h = [i \in 0..n |-> Val(h, i)]
             H == CHOOSE h : Is(h)
  <1>2. MergeUnits(units, size, overlap) = Flush(H[n]).chunks
    BY <1>1 DEF MergeUnits
  <1>3. first \in Merging(cap)
    <2>1. PICK e : e = <<>>
      OBVIOUS
    <2>2. e \in Seq(LegacySet(cap)) /\ e \in Seq(UnitSet) /\ RunesOf(e) = 0
      BY <2>1, NoText
    <2>3. e \in ShortUnits(cap)
      BY <2>2, CapIs DEF ShortUnits
    <2>4. NoHeader \in HeaderSet
      BY DEF NoHeader, HeaderSet
    <2> QED BY <2>1, <2>2, <2>3, <2>4 DEF Merging
  <1>4. ASSUME NEW i \in 1..n, NEW m \in Merging(cap) PROVE turn(i, m) \in Merging(cap)
    <2>1. PICK u \in UnitSet : u = units[i]
      BY <1>1, UnitHas
    <2>2. PICK ht \in HeaderSet : ht = TrackHeader(m.ht, u)
      BY TrackIs
    <2>3. Turn(m, u, ht, size, overlap) \in Merging(cap)
      BY TurnIs
    <2> QED BY <2>1, <2>2, <2>3
  <1> HIDE DEF first, turn
  <1>5. \E h : Is(h)
    <2> DEFINE G == [i \in 1..n |-> [m \in Merging(cap) |-> turn(i, m)]]
    <2>1. G \in [1..n -> [Merging(cap) -> Merging(cap)]]
      BY <1>4
    <2>2. \A i \in 1..n : \A m \in Merging(cap) : G[i][m] = turn(i, m)
      OBVIOUS
    <2> HIDE DEF G
    <2>3. PICK f \in [0..n -> Merging(cap)] : Recurses(f, first, G, n)
      BY <1>3, <2>1, RecursionExists
    <2>4. f = [i \in 0..n |-> f[i]]
      OBVIOUS
    <2>5. ASSUME NEW i \in 0..n PROVE f[i] = Val(f, i)
      <3>1. CASE i = 0
        BY <2>3, <3>1 DEF Recurses
      <3>2. CASE i # 0
        <4>1. i \in 1..n /\ i - 1 \in 0..n
          BY <3>2
        <4>2. f[i] = G[i][f[i-1]] /\ f[i-1] \in Merging(cap)
          BY <2>3, <4>1 DEF Recurses
        <4> QED BY <2>2, <3>2, <4>1, <4>2
      <3> QED BY <3>1, <3>2
    <2>6. Is(f)
      <3> HIDE DEF Val
      <3> QED BY <2>4, <2>5
    <2> HIDE DEF Is
    <2> QED BY <2>6
  <1>6. Is(H)
    <2> HIDE DEF Is
    <2> QED BY <1>5
  <1>7. \A i \in 0..n : H[i] = Val(H, i)
    <2> HIDE DEF Val, H
    <2> QED BY <1>6
  <1> HIDE DEF H, Is
  <1> DEFINE Q == {c \in 0..n : H[c] \in Merging(cap)}
  <1>8. 0 \in Q
    <2>1. 0 \in 0..n
      OBVIOUS
    <2>2. H[0] = first
      BY <1>7, <2>1
    <2> QED BY <1>3, <2>1, <2>2
  <1>9. ASSUME NEW c \in 0..(n-1), c \in Q PROVE c + 1 \in Q
    <2>1. c + 1 \in 1..n /\ c + 1 \in 0..n /\ c + 1 # 0 /\ (c + 1) - 1 = c
      OBVIOUS
    <2>2. PICK d \in 1..n : d = c + 1
      BY <2>1
    <2>3. H[d] = turn(d, H[c])
      <3>1. H[d] = Val(H, d)
        BY <1>7, <2>1, <2>2
      <3> QED BY <2>1, <2>2, <3>1
    <2>4. H[d] \in Merging(cap)
      BY <1>4, <1>9, <2>3
    <2> QED BY <2>1, <2>2, <2>4
  <1>10. \A c \in 0..n : H[c] \in Merging(cap)
    <2>1. 0 \in Int /\ n \in Int
      OBVIOUS
    <2>2. \A c \in 0..n : c \in Q
      <3> HIDE DEF Q
      <3> QED BY <1>8, <1>9, <2>1, IntervalInduction
    <2> QED BY <2>2
  <1>11. PICK h : h = [i \in 0..n |-> H[i]]
    OBVIOUS
  <1>12. h \in [0..n -> Merging(cap)]
    BY <1>10, <1>11
  <1>13. n \in 0..n /\ h[n] = H[n]
    BY <1>11
  <1>14. Merges(h, units, n, size, overlap)
    <2>1. h[0] = first
      <3>1. 0 \in 0..n
        OBVIOUS
      <3> QED BY <1>7, <1>11, <3>1
    <2>2. ASSUME NEW i \in 1..n PROVE h[i] = turn(i, h[i-1])
      <3>1. i \in 0..n /\ i - 1 \in 0..n /\ i # 0
        OBVIOUS
      <3>2. H[i] = Val(H, i)
        BY <1>7, <3>1
      <3> QED BY <1>11, <3>1, <3>2
    <2> QED BY <2>1, <2>2 DEF Merges, first, turn
  <1> QED BY <1>1, <1>2, <1>12, <1>13, <1>14

\* What mergeUnits returns is short.
LEMMA MergeIs ==
  ASSUME NEW cap \in Caps, NEW units \in Seq(UnitSet), NEW size \in Nat, size <= cap, NEW overlap \in Int
  PROVE  MergeUnits(units, size, overlap) \in Seq(LegacySet(cap))
  <1>1. PICK n \in Nat : n = Len(units)
    BY LenProperties
  <1>2. PICK h \in [0..n -> Merging(cap)] : MergeUnits(units, size, overlap) = Flush(h[n]).chunks
    BY <1>1, MergeSteps
  <1>3. h[n] \in Merging(cap)
    BY <1>2
  <1> QED BY <1>2, <1>3, FlushIs

\* What the legacy splitter returns is short.
LEMMA SplitTextIs ==
  ASSUME NEW cap \in Caps, NEW txt \in Seq(TextMarks), NEW size \in Nat, size <= cap, NEW overlap \in Int
  PROVE  SplitText(txt, size, overlap) \in Seq(LegacySet(cap))
  <1>1. PICK us \in Seq(UnitSet) : us = Units(txt, size)
    BY UnitsAre
  <1> QED BY <1>1, MergeIs DEF SplitText

\* What has no breadcrumb has none out of scope.
LEMMA NoCrumbs ==
  ASSUME NEW cap \in Caps, NEW txt
  PROVE  /\ LegacySet(cap) \subseteq ShortSet(cap) /\ LegacySet(cap) \subseteq BookShort(txt, cap)
         /\ BookShort(txt, cap) \subseteq BookSet(txt)
         /\ Crumbed(txt, <<>>, 0)
  <1>1. \A a : Crumbed(txt, <<>>, a)
    BY DEF Crumbed
  <1>2. ASSUME NEW c \in LegacySet(cap) PROVE c \in BookShort(txt, cap)
    <2>1. c \in ShortSet(cap) /\ c.bc = <<>>
      BY DEF LegacySet
    <2>2. Crumbed(txt, c.bc, c.start)
      BY <1>1, <2>1
    <2> QED BY <2>1, <2>2 DEF BookShort
  <1>3. LegacySet(cap) \subseteq ShortSet(cap)
    BY DEF LegacySet
  <1>4. BookShort(txt, cap) \subseteq BookSet(txt)
    BY DEF BookShort, BookSet, ShortSet
  <1> QED BY <1>1, <1>2, <1>3, <1>4

\* In sequences
LEMMA LegacyChunks ==
  ASSUME NEW cap \in Caps, NEW txt
  PROVE  /\ Seq(LegacySet(cap)) \subseteq Seq(ShortSet(cap))
         /\ Seq(LegacySet(cap)) \subseteq Seq(BookShort(txt, cap))
         /\ Seq(LegacySet(cap)) \subseteq Seq(BookSet(txt))
  <1>1. /\ LegacySet(cap) \subseteq ShortSet(cap) /\ LegacySet(cap) \subseteq BookShort(txt, cap)
        /\ LegacySet(cap) \subseteq BookSet(txt)
    BY NoCrumbs
  <1> QED BY <1>1, SeqMonotonic

\* What Observe returns names a mark or nothing at both levels.
Stacks == [1..2 -> CrumbMarks]

\* What it names at level l was the last heading of that level or above among the
\* first i marks.
LastOf(txt, i, l, x) ==
  \E p \in 1..i : txt[p] = x /\ \A q \in (p+1)..i : txt[q] \in HeadingMarks => Level(txt[q]) > l
Standing(txt, i, stack) ==
  \A l \in 1..2 : stack[l] # "none" => Level(stack[l]) = l /\ LastOf(txt, i, l, stack[l])

\* A heading sets one level and, of the first level, clears the second.
LEMMA ObserveIs ==
  ASSUME NEW stack \in Stacks, NEW x \in TextMarks
  PROVE  Observe(stack, x) \in Stacks
  <1>1. "none" \in CrumbMarks /\ x \in CrumbMarks /\ \A l \in 1..2 : stack[l] \in CrumbMarks
    BY DEF Stacks, CrumbMarks
  <1> QED BY <1>1 DEF Observe, Stacks

\* The next mark keeps what stands, unless it clears it.
LEMMA StandingNext ==
  ASSUME NEW stack \in Stacks, NEW txt, NEW i \in Nat, Standing(txt, i, stack)
  PROVE  Standing(txt, i + 1, IF txt[i+1] \in HeadingMarks THEN Observe(stack, txt[i+1]) ELSE stack)
  <1>1. PICK k \in Nat : k = i + 1
    OBVIOUS
  <1>2. PICK x : x = txt[k]
    OBVIOUS
  <1>3. ASSUME NEW l \in 1..2, NEW y, LastOf(txt, i, l, y), x \in HeadingMarks => Level(x) > l
        PROVE  LastOf(txt, k, l, y)
    <2>1. PICK p \in 1..i : txt[p] = y /\ \A q \in (p+1)..i : txt[q] \in HeadingMarks => Level(txt[q]) > l
      BY <1>3 DEF LastOf
    <2>2. p \in 1..k
      BY <1>1
    <2>3. ASSUME NEW q \in (p+1)..k, txt[q] \in HeadingMarks PROVE Level(txt[q]) > l
      <3>1. CASE q = k
        BY <1>2, <1>3, <2>3, <3>1
      <3>2. CASE q # k
        <4>1. q \in (p+1)..i
          BY <1>1, <3>2
        <4> QED BY <2>1, <2>3, <4>1
      <3> QED BY <3>1, <3>2
    <2> QED BY <2>1, <2>2, <2>3 DEF LastOf
  <1>4. CASE x \notin HeadingMarks
    <2>1. ASSUME NEW l \in 1..2, stack[l] # "none" PROVE Level(stack[l]) = l /\ LastOf(txt, k, l, stack[l])
      <3>1. Level(stack[l]) = l /\ LastOf(txt, i, l, stack[l])
        BY <2>1 DEF Standing
      <3> QED BY <1>3, <1>4, <3>1
    <2>2. Standing(txt, k, stack)
      BY <2>1 DEF Standing
    <2> QED BY <1>1, <1>2, <1>4, <2>2
  <1>5. CASE x \in HeadingMarks
    <2>1. PICK s : s = Observe(stack, x)
      OBVIOUS
    <2>2. PICK v \in 1..2 : v = Level(x)
      BY DEF Level
    <2>3. \A l \in 1..2 : s[l] = IF l < v THEN stack[l] ELSE IF l = v THEN x ELSE "none"
      BY <2>1, <2>2 DEF Observe
    <2>4. ASSUME NEW l \in 1..2, s[l] # "none" PROVE Level(s[l]) = l /\ LastOf(txt, k, l, s[l])
      <3>1. CASE l < v
        <4>1. s[l] = stack[l] /\ stack[l] # "none"
          BY <2>3, <2>4, <3>1
        <4>2. Level(stack[l]) = l /\ LastOf(txt, i, l, stack[l])
          BY <4>1 DEF Standing
        <4>3. Level(x) > l
          BY <2>2, <3>1
        <4>4. LastOf(txt, k, l, stack[l])
          BY <1>3, <4>2, <4>3
        <4> QED BY <4>1, <4>2, <4>4
      <3>2. CASE l = v
        <4>1. s[l] = x /\ Level(x) = l
          BY <2>2, <2>3, <3>2
        <4>2. k \in 1..k /\ (k+1)..k = {}
          BY <1>1
        <4>3. LastOf(txt, k, l, x)
          BY <1>2, <4>2 DEF LastOf
        <4> QED BY <4>1, <4>3
      <3>3. CASE l > v
        BY <2>3, <2>4, <3>3
      <3> QED BY <3>1, <3>2, <3>3
    <2>5. Standing(txt, k, s)
      BY <2>4 DEF Standing
    <2> QED BY <1>1, <1>2, <1>5, <2>1, <2>5
  <1> QED BY <1>4, <1>5

\* A breadcrumb is a sequence of marks, the headings in scope at the offset.
LEMMA BreadcrumbIs ==
  ASSUME NEW txt \in Seq(TextMarks), NEW offset \in Nat
  PROVE  Breadcrumb(txt, offset) \in Seq(CrumbMarks) /\ Crumbed(txt, Breadcrumb(txt, offset), offset)
  <1> DEFINE first == [l \in 1..2 |-> "none"]
             turn(i, s) == IF txt[i] \in HeadingMarks THEN Observe(s, txt[i]) ELSE s
             Val(h, i) == IF i = 0 THEN first ELSE turn(i, h[i-1])
  <1>1. PICK n \in Nat : n = Len(txt)
    BY LenProperties
  <1> DEFINE Is(h) == h = [i \in 0..n |-> Val(h, i)]
             H == CHOOSE h : Is(h)
             open == H[Least(offset + 1, n)]
  <1>2. Breadcrumb(txt, offset) = Kept(open, {l \in DOMAIN open : open[l] # "none"})
    BY <1>1 DEF Breadcrumb
  <1>3. first \in Stacks
    BY DEF Stacks, CrumbMarks
  <1>4. ASSUME NEW i \in 1..n, NEW s \in Stacks PROVE turn(i, s) \in Stacks
    <2>1. txt[i] \in TextMarks
      BY <1>1, ElementOfSeq
    <2> QED BY <2>1, ObserveIs
  <1>31. Standing(txt, 0, first)
    BY DEF Standing
  <1>41. ASSUME NEW c \in 0..(n-1), NEW d \in 1..n, d = c + 1, NEW s \in Stacks, Standing(txt, c, s)
         PROVE  Standing(txt, d, turn(d, s))
    <2>1. c \in Nat
      OBVIOUS
    <2> QED BY <1>41, <2>1, StandingNext
  <1> HIDE DEF first, turn
  <1>5. \E h : Is(h)
    <2> DEFINE G == [i \in 1..n |-> [m \in Stacks |-> turn(i, m)]]
    <2>1. G \in [1..n -> [Stacks -> Stacks]]
      BY <1>4
    <2>2. \A i \in 1..n : \A m \in Stacks : G[i][m] = turn(i, m)
      OBVIOUS
    <2> HIDE DEF G
    <2>3. PICK f \in [0..n -> Stacks] : Recurses(f, first, G, n)
      BY <1>3, <2>1, RecursionExists
    <2>4. f = [i \in 0..n |-> f[i]]
      OBVIOUS
    <2>5. ASSUME NEW i \in 0..n PROVE f[i] = Val(f, i)
      <3>1. CASE i = 0
        BY <2>3, <3>1 DEF Recurses
      <3>2. CASE i # 0
        <4>1. i \in 1..n /\ i - 1 \in 0..n
          BY <3>2
        <4>2. f[i] = G[i][f[i-1]] /\ f[i-1] \in Stacks
          BY <2>3, <4>1 DEF Recurses
        <4> QED BY <2>2, <3>2, <4>1, <4>2
      <3> QED BY <3>1, <3>2
    <2>6. Is(f)
      <3> HIDE DEF Val
      <3> QED BY <2>4, <2>5
    <2> HIDE DEF Is
    <2> QED BY <2>6
  <1>6. Is(H)
    <2> HIDE DEF Is
    <2> QED BY <1>5
  <1>7. \A i \in 0..n : H[i] = Val(H, i)
    <2> HIDE DEF Val, H
    <2> QED BY <1>6
  <1> HIDE DEF H, Is
  <1> DEFINE Q == {c \in 0..n : H[c] \in Stacks /\ Standing(txt, c, H[c])}
  <1>8. 0 \in Q
    <2>1. 0 \in 0..n
      OBVIOUS
    <2>2. H[0] = first
      BY <1>7, <2>1
    <2> QED BY <1>3, <1>31, <2>1, <2>2
  <1>9. ASSUME NEW c \in 0..(n-1), c \in Q PROVE c + 1 \in Q
    <2>1. c + 1 \in 1..n /\ c + 1 \in 0..n /\ c + 1 # 0 /\ (c + 1) - 1 = c
      OBVIOUS
    <2>2. PICK d \in 1..n : d = c + 1
      BY <2>1
    <2>3. H[d] = turn(d, H[c])
      <3>1. H[d] = Val(H, d)
        BY <1>7, <2>1, <2>2
      <3> QED BY <2>1, <2>2, <3>1
    <2>4. H[d] \in Stacks /\ Standing(txt, d, H[d])
      BY <1>4, <1>41, <1>9, <2>2, <2>3
    <2> QED BY <2>1, <2>2, <2>4
  <1>10. PICK last \in 0..n : /\ last = Least(offset + 1, n) /\ open = H[last]
                              /\ open \in Stacks /\ Standing(txt, last, open)
    <2>1. 0 \in Int /\ n \in Int
      OBVIOUS
    <2>2. \A c \in 0..n : c \in Q
      <3> HIDE DEF Q
      <3> QED BY <1>8, <1>9, <2>1, IntervalInduction
    <2>3. PICK l \in 0..n : l = Least(offset + 1, n)
      BY DEF Least
    <2>4. H[l] \in Stacks /\ Standing(txt, l, H[l])
      BY <2>2
    <2> QED BY <2>3, <2>4
  <1>11. PICK o : o = open
    OBVIOUS
  <1>12. o \in Seq(CrumbMarks)
    <2>1. o \in [1..2 -> CrumbMarks]
      BY <1>10, <1>11 DEF Stacks
    <2>2. PICK m \in Nat : m = 2
      OBVIOUS
    <2>3. o = [j \in 1..m |-> o[j]] /\ \A j \in 1..m : o[j] \in CrumbMarks
      BY <2>1, <2>2
    <2> QED BY <2>3, Listed
  <1>13. PICK P, k : P = {l \in DOMAIN o : o[l] # "none"} /\ k = Kept(o, P)
    OBVIOUS
  <1>14. Len(o) = 2 /\ DOMAIN o = 1..2
    <2>1. DOMAIN o = 1..2
      BY <1>10, <1>11 DEF Stacks
    <2>2. 2 \in Nat
      OBVIOUS
    <2> QED BY <1>12, <2>1, <2>2, LenProperties
  <1>15. k \in Seq(CrumbMarks) /\ Picks(k, o, P, 2)
    BY <1>12, <1>13, <1>14, KeptPicks
  <1>16. ASSUME NEW j \in DOMAIN k PROVE ScopeIn(txt, k[j], offset)
    <2>1. PICK m \in 0..2 : \E g \in [1..m -> 1..2] :
            k = [x \in 1..m |-> o[g[x]]] /\ \A x \in 1..m : g[x] \in P
      BY <1>15 DEF Picks
    <2>2. PICK g \in [1..m -> 1..2] : k = [x \in 1..m |-> o[g[x]]] /\ \A x \in 1..m : g[x] \in P
      BY <2>1
    <2>3. j \in 1..m
      BY <2>2
    <2>4. PICK l \in 1..2 : l = g[j]
      BY <2>3
    <2>5. k[j] = o[l] /\ o[l] # "none"
      BY <1>13, <2>2, <2>3, <2>4
    <2>6. Level(o[l]) = l /\ LastOf(txt, last, l, o[l])
      BY <1>10, <1>11, <2>5 DEF Standing
    <2>7. PICK p \in 1..last : txt[p] = o[l] /\ \A q \in (p+1)..last : txt[q] \in HeadingMarks => Level(txt[q]) > l
      BY <2>6 DEF LastOf
    <2>8. last = Least(offset + 1, Len(txt))
      BY <1>1, <1>10
    <2> QED BY <2>5, <2>6, <2>7, <2>8 DEF ScopeIn
  <1>17. Crumbed(txt, k, offset)
    BY <1>16 DEF Crumbed
  <1> HIDE DEF open
  <1> QED BY <1>2, <1>11, <1>13, <1>15, <1>17

\* So is that of a section.
LEMMA SectionCrumbIs ==
  ASSUME NEW txt \in Seq(TextMarks), NEW offset \in Nat
  PROVE  SectionCrumb(txt, offset) \in Seq(CrumbMarks) /\ Crumbed(txt, SectionCrumb(txt, offset), offset)
  <1>1. PICK e : e = <<>>
    OBVIOUS
  <1>2. e \in Seq(CrumbMarks) /\ Crumbed(txt, e, offset)
    BY <1>1 DEF Crumbed
  <1>3. SectionCrumb(txt, offset) = e \/ SectionCrumb(txt, offset) = Breadcrumb(txt, offset)
    BY <1>1 DEF SectionCrumb
  <1> QED BY <1>2, <1>3, BreadcrumbIs

\* A chunk of a part, in the coordinates of the whole
LEMMA ShiftIs ==
  ASSUME NEW c \in ChunkSet, NEW from \in Nat
  PROVE  /\ Shift(c, from) \in ChunkSet /\ Shift(c, from).content = c.content
         /\ Shift(c, from).bc = c.bc /\ Shift(c, from).start = c.start + from
  <1>1. PICK s \in Nat, e \in Nat : s = c.start + from /\ e = c.end + from
    BY DEF ChunkSet
  <1>2. Shift(c, from) = [c EXCEPT !.start = s, !.end = e]
    BY <1>1 DEF Shift
  <1>3. PICK d : d = [c EXCEPT !.start = s, !.end = e]
    OBVIOUS
  <1>4. d \in ChunkSet /\ d.content = c.content /\ d.bc = c.bc /\ d.start = s
    BY <1>3 DEF ChunkSet
  <1> QED BY <1>1, <1>2, <1>3, <1>4

\* p is the beginning of s.
Leads(p, s) == \A j \in 1..Len(p) : j \in 1..Len(s) /\ p[j] = s[j]

\* Two crumbs have a longest common prefix, and it is one.
LEMMA CommonIs ==
  ASSUME NEW a \in Seq(CrumbMarks), NEW b \in Seq(CrumbMarks)
  PROVE  LongestCommonPrefix({a, b}) \in Seq(CrumbMarks) /\ Leads(LongestCommonPrefix({a, b}), a)
  <1> DEFINE C == CommonPrefixes({a, b})
             L == LongestCommonPrefix({a, b})
  <1>1. PICK m \in Nat, n \in Nat : m = Len(a) /\ n = Len(b)
    BY LenProperties
  <1>2. ASSUME NEW s \in Seq(CrumbMarks), NEW l \in 0..Len(s)
        PROVE  SubSeq(s, 1, l) \in Seq(CrumbMarks) /\ Len(SubSeq(s, 1, l)) = l
    <2>1. PICK w \in Nat, k \in Nat : w = 1 /\ k = l
      BY LenProperties
    <2>2. \A i \in w..k : s[i] \in CrumbMarks
      <3> SUFFICES ASSUME NEW i \in w..k PROVE s[i] \in CrumbMarks
        OBVIOUS
      <3>1. i \in 1..Len(s)
        BY <2>1, LenProperties
      <3> QED BY <3>1, ElementOfSeq
    <2>3. PICK t : t = SubSeq(s, w, k)
      OBVIOUS
    <2>4. t \in Seq(CrumbMarks) /\ Len(t) = IF w <= k THEN k - w + 1 ELSE 0
      BY <2>2, <2>3, SubSeqProperties
    <2> QED BY <2>1, <2>3, <2>4
  <1>3. ASSUME NEW p \in C PROVE p \in Seq(CrumbMarks) /\ Len(p) \in 0..m
    <2>1. PICK s \in {a, b} : p \in Prefixes(s)
      BY DEF CommonPrefixes
    <2>2. PICK l \in 0..Len(s) : p = SubSeq(s, 1, l)
      BY <2>1 DEF Prefixes
    <2>3. p \in Seq(CrumbMarks)
      BY <1>2, <2>2
    <2>4. Len(p) <= Len(a)
      BY DEF CommonPrefixes, IsPrefix
    <2> QED BY <1>1, <2>3, <2>4, LenProperties
  <1>4. PICK p : p \in C
    <2>1. 0 \in 0..Len(a) /\ 0 \in 0..Len(b)
      BY <1>1
    <2>2. PICK e : e = SubSeq(a, 1, 0)
      OBVIOUS
    <2>3. e \in Seq(CrumbMarks) /\ Len(e) = 0 /\ e \in Prefixes(a)
      BY <1>2, <2>1, <2>2 DEF Prefixes
    <2>4. e = <<>>
      BY <2>3, EmptySeq
    <2>5. ASSUME NEW t \in Seq(CrumbMarks) PROVE IsPrefix(e, t)
      <3>1. Len(t) \in Nat /\ 0 \in 0..Len(t)
        BY LenProperties
      <3>2. PICK f, g : f = SubSeq(e, 1, 0) /\ g = SubSeq(t, 1, 0)
        OBVIOUS
      <3>3. f \in Seq(CrumbMarks) /\ Len(f) = 0 /\ g \in Seq(CrumbMarks) /\ Len(g) = 0
        <4>1. 0 \in 0..Len(e)
          BY <2>3
        <4> QED BY <1>2, <2>3, <3>1, <3>2, <4>1
      <3>4. f = g
        BY <3>3, EmptySeq
      <3> QED BY <2>3, <3>1, <3>2, <3>4 DEF IsPrefix
    <2>6. e \in C
      BY <2>3, <2>5 DEF CommonPrefixes
    <2> QED BY <2>6
  <1> DEFINE D == {m - Len(q) : q \in C}
  <1>5. PICK d \in D : \A x \in D : d <= x
    <2>1. \A x \in D : x \in Nat
      <3> SUFFICES ASSUME NEW q \in C PROVE m - Len(q) \in Nat
        OBVIOUS
      <3>1. Len(q) \in 0..m
        BY <1>3
      <3> HIDE DEF C
      <3> QED BY <3>1
    <2>2. m - Len(p) \in D
      BY <1>4
    <2> HIDE DEF D
    <2>3. D \in SUBSET Nat /\ D # {}
      BY <2>1, <2>2
    <2> QED BY <2>3, LeastNumber
  <1>6. PICK q \in C : d = m - Len(q)
    OBVIOUS
  <1>7. ASSUME NEW o \in C PROVE Len(o) <= Len(q)
    <2>1. d <= m - Len(o)
      BY <1>5
    <2>2. Len(o) \in 0..m /\ Len(q) \in 0..m
      BY <1>3
    <2> HIDE DEF C, D
    <2> QED BY <1>6, <2>1, <2>2
  <1>8. L \in C
    BY <1>7 DEF LongestCommonPrefix
  <1>9. PICK p0 : p0 = L
    OBVIOUS
  <1>10. p0 \in Seq(CrumbMarks)
    BY <1>3, <1>8, <1>9
  <1>11. PICK u \in Nat : u = Len(p0)
    BY <1>10, LenProperties
  <1>12. u <= m /\ SubSeq(p0, 1, u) = SubSeq(a, 1, u)
    <2>1. IsPrefix(p0, a)
      BY <1>8, <1>9 DEF CommonPrefixes
    <2> QED BY <1>1, <1>11, <2>1 DEF IsPrefix
  <1>13. ASSUME NEW j \in 1..u PROVE j \in 1..m /\ p0[j] = a[j]
    <2>1. ASSUME NEW s \in Seq(CrumbMarks), NEW w \in Nat, w = Len(s), u <= w PROVE SubSeq(s, 1, u)[j] = s[j]
      <3>1. PICK o, h : o = 1 /\ h = u
        OBVIOUS
      <3>2. \A i \in o..h : s[i] \in CrumbMarks
        <4> SUFFICES ASSUME NEW i \in o..h PROVE s[i] \in CrumbMarks
          OBVIOUS
        <4>1. i \in 1..Len(s)
          BY <2>1, <3>1
        <4> QED BY <4>1, ElementOfSeq
      <3>3. PICK t : t = SubSeq(s, o, h)
        OBVIOUS
      <3>4. o \in Int /\ h \in Int
        BY <3>1
      <3>5. \A i \in 1..(h - o + 1) : t[i] = s[o + i - 1]
        BY <3>2, <3>3, <3>4, SubSeqProperties
      <3>6. j \in 1..(h - o + 1) /\ o + j - 1 = j
        BY <3>1
      <3>7. t[j] = s[j]
        BY <3>5, <3>6
      <3> QED BY <3>1, <3>3, <3>7
    <2>2. SubSeq(p0, 1, u)[j] = p0[j]
      BY <1>10, <1>11, <2>1
    <2>3. SubSeq(a, 1, u)[j] = a[j]
      BY <1>1, <1>12, <2>1
    <2> QED BY <1>12, <2>2, <2>3
  <1>14. Leads(p0, a)
    BY <1>1, <1>11, <1>13 DEF Leads
  <1> QED BY <1>9, <1>10, <1>14

\* Where sections start, offsets
LEMMA StartsAre ==
  ASSUME NEW txt, NEW n \in Nat, n = Len(txt)
  PROVE  SectionStarts(txt) \in Seq(0..n)
  BY InOrderIs DEF SectionStarts

\* Two chunks joined, and what coalesceTinyChunks does with the next one
Both(c, d) == [c EXCEPT !.content = c.content \o d.content, !.end = d.end,
                        !.bc = LongestCommonPrefix({c.bc, d.bc})]
Joined(out, c, size) ==
  IF out # <<>> /\ Mergeable(out[Len(out)], c, size)
  THEN [out EXCEPT ![Len(out)] = Both(out[Len(out)], c)] ELSE Append(out, c)

\* coalesceTinyChunks, one chunk after the other
Coalesces(h, chunks, n, size) == h[0] = <<>> /\ \A i \in 1..n : h[i] = Joined(h[i-1], chunks[i], size)

\* There are such steps, and the last is what it returns: a merged chunk starts
\* where the first did and keeps the headings they share.
LEMMA CoalesceSteps ==
  ASSUME NEW txt, NEW chunks \in Seq(BookSet(txt)), NEW size
  PROVE  \E h \in [0..Len(chunks) -> Seq(BookSet(txt))] :
           Coalesces(h, chunks, Len(chunks), size) /\ Coalesce(chunks, size) = h[Len(chunks)]
  <1> DEFINE S == Seq(BookSet(txt))
             turn(i, out) == Joined(out, chunks[i], size)
             Val(h, i) == IF i = 0 THEN <<>> ELSE turn(i, h[i-1])
  <1>1. PICK n \in Nat : n = Len(chunks)
    BY LenProperties
  <1> DEFINE Is(h) == h = [i \in 0..n |-> Val(h, i)]
             H == CHOOSE h : Is(h)
  <1>2. Coalesce(chunks, size) = H[n]
    BY <1>1 DEF Coalesce, Joined, Both
  <1>3. ASSUME NEW c \in BookSet(txt), NEW d \in BookSet(txt) PROVE Both(c, d) \in BookSet(txt)
    <2>1. /\ c.content \in Seq(TextMarks) /\ d.content \in Seq(TextMarks)
          /\ c.bc \in Seq(CrumbMarks) /\ d.bc \in Seq(CrumbMarks) /\ d.end \in Nat
          /\ c \in ChunkSet /\ Crumbed(txt, c.bc, c.start)
      BY DEF BookSet, ChunkSet
    <2>2. PICK t \in Seq(TextMarks) : t = c.content \o d.content
      BY <2>1, ConcatProperties
    <2>3. PICK b \in Seq(CrumbMarks) : b = LongestCommonPrefix({c.bc, d.bc}) /\ Leads(b, c.bc)
      BY <2>1, CommonIs
    <2>4. PICK e \in Nat : e = d.end
      BY <2>1
    <2>5. PICK w : w = [c EXCEPT !.content = t, !.end = e, !.bc = b]
      OBVIOUS
    <2>6. w \in ChunkSet /\ w.bc = b /\ w.start = c.start
      BY <2>1, <2>5 DEF ChunkSet
    <2>7. Crumbed(txt, b, c.start)
      <3> SUFFICES ASSUME NEW j \in DOMAIN b PROVE ScopeIn(txt, b[j], c.start)
        BY DEF Crumbed
      <3>1. j \in 1..Len(b)
        BY LenProperties
      <3>2. j \in 1..Len(c.bc) /\ b[j] = c.bc[j]
        BY <2>3, <3>1 DEF Leads
      <3>3. j \in DOMAIN c.bc
        BY <2>1, <3>2, LenProperties
      <3> QED BY <2>1, <3>2, <3>3 DEF Crumbed
    <2>8. w \in BookSet(txt)
      BY <2>6, <2>7 DEF BookSet
    <2> QED BY <2>2, <2>3, <2>4, <2>5, <2>8 DEF Both
  <1>4. ASSUME NEW i \in 1..n, NEW out \in S PROVE turn(i, out) \in S
    <2>1. PICK c \in BookSet(txt) : c = chunks[i]
      BY <1>1, ElementOfSeq
    <2>2. Append(out, c) \in S
      BY AppendProperties
    <2>3. ASSUME out # <<>> PROVE [out EXCEPT ![Len(out)] = Both(out[Len(out)], c)] \in S
      <3>1. PICK m \in Nat : m = Len(out) /\ m # 0 /\ DOMAIN out = 1..m
        BY <2>3, EmptySeq, LenProperties
      <3>2. PICK d : d = Both(out[m], c)
        OBVIOUS
      <3>3. d \in BookSet(txt)
        <4>1. m \in 1..Len(out)
          BY <3>1
        <4>2. out[m] \in BookSet(txt)
          BY <4>1, ElementOfSeq
        <4> QED BY <1>3, <3>2, <4>2
      <3>4. PICK e : e = [out EXCEPT ![m] = d]
        OBVIOUS
      <3>5. e = [j \in 1..m |-> e[j]]
        BY <3>1, <3>4
      <3>6. ASSUME NEW j \in 1..m PROVE e[j] \in BookSet(txt)
        <4>1. out[j] \in BookSet(txt)
          BY <3>1, ElementOfSeq
        <4> QED BY <3>1, <3>3, <3>4, <4>1
      <3>7. e \in S
        BY <3>5, <3>6, Listed
      <3> QED BY <3>1, <3>2, <3>4, <3>7
    <2> HIDE DEF S
    <2> QED BY <2>1, <2>2, <2>3 DEF Joined
  <1>30. <<>> \in S
    OBVIOUS
  <1> HIDE DEF turn, S
  <1>5. \E h : Is(h)
    <2> DEFINE G == [i \in 1..n |-> [m \in S |-> turn(i, m)]]
               first == <<>>
    <2>1. G \in [1..n -> [S -> S]]
      BY <1>4
    <2>2. \A i \in 1..n : \A m \in S : G[i][m] = turn(i, m)
      OBVIOUS
    <2>20. first \in S
      BY <1>30
    <2> HIDE DEF G, first
    <2>3. PICK f \in [0..n -> S] : Recurses(f, first, G, n)
      BY <2>1, <2>20, RecursionExists
    <2>4. f = [i \in 0..n |-> f[i]]
      OBVIOUS
    <2>5. ASSUME NEW i \in 0..n PROVE f[i] = Val(f, i)
      <3>1. CASE i = 0
        BY <2>3, <3>1 DEF Recurses, first
      <3>2. CASE i # 0
        <4>1. i \in 1..n /\ i - 1 \in 0..n
          BY <3>2
        <4>2. f[i] = G[i][f[i-1]] /\ f[i-1] \in S
          BY <2>3, <4>1 DEF Recurses
        <4> QED BY <2>2, <3>2, <4>1, <4>2
      <3> QED BY <3>1, <3>2
    <2>6. Is(f)
      <3> HIDE DEF Val
      <3> QED BY <2>4, <2>5
    <2> HIDE DEF Is
    <2> QED BY <2>6
  <1>6. Is(H)
    <2> HIDE DEF Is
    <2> QED BY <1>5
  <1>7. \A i \in 0..n : H[i] = Val(H, i)
    <2> HIDE DEF Val, H
    <2> QED BY <1>6
  <1> HIDE DEF H, Is
  <1> DEFINE Q == {c \in 0..n : H[c] \in S}
  <1>8. 0 \in Q
    <2>1. 0 \in 0..n
      OBVIOUS
    <2>2. H[0] = <<>>
      BY <1>7, <2>1
    <2> QED BY <1>30, <2>1, <2>2
  <1>9. ASSUME NEW c \in 0..(n-1), c \in Q PROVE c + 1 \in Q
    <2>1. c + 1 \in 1..n /\ c + 1 \in 0..n /\ c + 1 # 0 /\ (c + 1) - 1 = c
      OBVIOUS
    <2>2. PICK d \in 1..n : d = c + 1
      BY <2>1
    <2>3. H[d] = turn(d, H[c])
      <3>1. H[d] = Val(H, d)
        BY <1>7, <2>1, <2>2
      <3> QED BY <2>1, <2>2, <3>1
    <2>4. H[d] \in S
      BY <1>4, <1>9, <2>3
    <2> QED BY <2>1, <2>2, <2>4
  <1>10. \A c \in 0..n : H[c] \in S
    <2>1. 0 \in Int /\ n \in Int
      OBVIOUS
    <2>2. \A c \in 0..n : c \in Q
      <3> HIDE DEF Q
      <3> QED BY <1>8, <1>9, <2>1, IntervalInduction
    <2> QED BY <2>2
  <1>11. PICK h : h = [i \in 0..n |-> H[i]]
    OBVIOUS
  <1>12. h \in [0..n -> S]
    BY <1>10, <1>11
  <1>13. n \in 0..n /\ h[n] = H[n]
    BY <1>11
  <1>14. Coalesces(h, chunks, n, size)
    <2>1. h[0] = <<>>
      <3>1. 0 \in 0..n
        OBVIOUS
      <3> QED BY <1>7, <1>11, <3>1
    <2>2. ASSUME NEW i \in 1..n PROVE h[i] = turn(i, h[i-1])
      <3>1. i \in 0..n /\ i - 1 \in 0..n /\ i # 0
        OBVIOUS
      <3>2. H[i] = Val(H, i)
        BY <1>7, <3>1
      <3> QED BY <1>11, <3>1, <3>2
    <2> QED BY <2>1, <2>2 DEF Coalesces, turn
  <1> QED BY <1>1, <1>2, <1>12, <1>13, <1>14 DEF S

\* What coalescing returns is chunks of the book.
LEMMA CoalesceIs ==
  ASSUME NEW txt, NEW chunks \in Seq(BookSet(txt)), NEW size
  PROVE  Coalesce(chunks, size) \in Seq(BookSet(txt))
  <1>1. PICK n \in Nat : n = Len(chunks)
    BY LenProperties
  <1>2. PICK h \in [0..n -> Seq(BookSet(txt))] : Coalesce(chunks, size) = h[n]
    BY <1>1, CoalesceSteps
  <1> QED BY <1>2

\* Splitters may be used on any text, as large a size as the backend takes and any
\* overlap.
Usable(txt, size, overlap, cap) ==
  txt \in Seq(TextMarks) /\ size \in Nat /\ size <= cap /\ overlap \in Nat

\* What the legacy splitter returns is a chunk, in any coordinates.
LEMMA ShortShifted ==
  ASSUME NEW cap \in Caps, NEW subs \in Seq(LegacySet(cap)), NEW from \in Nat, NEW txt
  PROVE  ShiftAll(subs, from) \in Seq(BookSet(txt)) /\ Len(ShiftAll(subs, from)) = Len(subs)
  <1>1. PICK m \in Nat : m = Len(subs) /\ DOMAIN subs = 1..m
    BY LenProperties
  <1>2. ASSUME NEW k \in 1..m PROVE Shift(subs[k], from) \in BookSet(txt)
    <2>1. PICK c : c = subs[k]
      OBVIOUS
    <2>2. c \in LegacySet(cap)
      BY <1>1, <2>1, ElementOfSeq
    <2>3. c \in ChunkSet /\ c.bc = <<>>
      BY <2>2 DEF LegacySet, ShortSet
    <2>4. PICK d : d = Shift(c, from)
      OBVIOUS
    <2>5. d \in ChunkSet /\ d.bc = <<>>
      BY <2>3, <2>4, ShiftIs
    <2>6. Crumbed(txt, d.bc, d.start)
      BY <2>5 DEF Crumbed
    <2> QED BY <2>1, <2>4, <2>5, <2>6 DEF BookSet
  <1>3. PICK e : e = ShiftAll(subs, from)
    OBVIOUS
  <1>4. e = [k \in 1..m |-> Shift(subs[k], from)]
    BY <1>1, <1>3 DEF ShiftAll
  <1>5. e = [k \in 1..m |-> e[k]] /\ (\A k \in 1..m : e[k] \in BookSet(txt)) /\ DOMAIN e = 1..m
    BY <1>2, <1>4
  <1>6. e \in Seq(BookSet(txt))
    BY <1>5, Listed
  <1>7. Len(e) = m
    BY <1>5, <1>6, LenProperties
  <1> QED BY <1>1, <1>3, <1>6, <1>7

\* The chunks of a section that is split
LEMMA SubsectionsAre ==
  ASSUME NEW cap \in Caps, NEW subs \in Seq(ShortSet(cap)), NEW txt \in Seq(TextMarks), NEW from \in Nat
  PROVE  Subsections(subs, txt, from) \in Seq(BookSet(txt))
  <1>1. PICK m \in Nat : m = Len(subs) /\ DOMAIN subs = 1..m
    BY LenProperties
  <1> DEFINE piece(k) == [Shift(subs[k], from) EXCEPT !.bc = Breadcrumb(txt, from + subs[k].start)]
  <1>2. ASSUME NEW k \in 1..m PROVE piece(k) \in BookSet(txt)
    <2>1. PICK c : c = subs[k]
      OBVIOUS
    <2>2. c \in ShortSet(cap)
      BY <1>1, <2>1, ElementOfSeq
    <2>3. c \in ChunkSet /\ c.start \in Nat
      BY <2>2 DEF ShortSet, ChunkSet
    <2>4. PICK d \in ChunkSet : d = Shift(c, from) /\ d.start = c.start + from
      BY <2>3, ShiftIs
    <2>5. PICK a \in Nat : a = from + c.start
      BY <2>3
    <2>6. PICK b \in Seq(CrumbMarks) : b = Breadcrumb(txt, a) /\ Crumbed(txt, b, a)
      BY BreadcrumbIs
    <2>7. PICK w : w = [d EXCEPT !.bc = b]
      OBVIOUS
    <2>8. w \in ChunkSet /\ w.bc = b /\ w.start = d.start
      BY <2>7 DEF ChunkSet
    <2>9. d.start = a
      BY <2>3, <2>4, <2>5
    <2>10. w \in BookSet(txt)
      BY <2>6, <2>8, <2>9 DEF BookSet
    <2> QED BY <2>1, <2>4, <2>5, <2>6, <2>7, <2>10
  <1>3. PICK e : e = Subsections(subs, txt, from)
    OBVIOUS
  <1>4. e = [k \in 1..m |-> piece(k)]
    BY <1>1, <1>3 DEF Subsections
  <1> HIDE DEF piece
  <1>5. e = [k \in 1..m |-> e[k]] /\ \A k \in 1..m : e[k] \in BookSet(txt)
    BY <1>2, <1>4
  <1>6. e \in Seq(BookSet(txt))
    BY <1>5, Listed
  <1> QED BY <1>3, <1>6

\* The chunks of a section
LEMMA SectionIs ==
  ASSUME NEW cap \in Caps, NEW txt, NEW size, NEW overlap, Usable(txt, size, overlap, cap),
         NEW from \in Nat, NEW to \in Nat, to <= Len(txt)
  PROVE  Section(txt, from, to, size, overlap) \in Seq(BookSet(txt))
  <1>1. txt \in Seq(TextMarks) /\ size \in Nat /\ size <= cap /\ overlap \in Int
    BY DEF Usable
  <1>2. PICK t \in Seq(TextMarks) : t = Slice(txt, from, to)
    <2>1. from \in Nat /\ to \in Int /\ to <= Len(txt)
      OBVIOUS
    <2>2. Slice(txt, from, to) \in Seq(TextMarks)
      BY <1>1, <2>1, SliceIs
    <2> QED BY <2>2
  <1>3. PICK bc \in Seq(CrumbMarks) : bc = SectionCrumb(txt, from) /\ Crumbed(txt, bc, from)
    BY <1>1, SectionCrumbIs
  <1>4. CASE Len(bc) + 1 + (to - from) <= size
    <2>1. PICK c : c = [content |-> t, bc |-> bc, syn |-> 0, start |-> from, end |-> to]
      OBVIOUS
    <2>2. c \in BookSet(txt)
      <3>1. c \in ChunkSet /\ c.bc = bc /\ c.start = from
        BY <2>1 DEF ChunkSet
      <3> QED BY <1>3, <3>1 DEF BookSet
    <2>3. <<c>> \in Seq(BookSet(txt))
      BY <2>2
    <2>4. Section(txt, from, to, size, overlap) = <<c>>
      BY <1>2, <1>3, <1>4, <2>1 DEF Section
    <2> QED BY <2>3, <2>4
  <1>5. CASE ~(Len(bc) + 1 + (to - from) <= size)
    <2>1. PICK subs : subs = SplitText(t, size, overlap)
      OBVIOUS
    <2>2. subs \in Seq(ShortSet(cap))
      <3>1. subs \in Seq(LegacySet(cap))
        BY <1>1, <2>1, SplitTextIs
      <3> QED BY <3>1, LegacyChunks
    <2>3. Section(txt, from, to, size, overlap) = Subsections(subs, txt, from)
      BY <1>2, <1>3, <1>5, <2>1 DEF Section
    <2> QED BY <1>1, <2>2, <2>3, SubsectionsAre
  <1> QED BY <1>4, <1>5

\* What the heading tier returns is chunks of the book.
LEMMA HeadingTier ==
  ASSUME NEW cap \in Caps, NEW txt, NEW size, NEW overlap, Usable(txt, size, overlap, cap)
  PROVE  SplitByHeadings(txt, size, overlap) \in Seq(BookSet(txt))
  <1>1. txt \in Seq(TextMarks) /\ size \in Nat /\ size <= cap /\ overlap \in Int
    BY DEF Usable
  <1>2. PICK n \in Nat : n = Len(txt)
    BY <1>1, LenProperties
  <1>3. PICK starts : starts = SectionStarts(txt)
    OBVIOUS
  <1>4. starts \in Seq(0..n)
    BY <1>2, <1>3, StartsAre
  <1>5. PICK m \in Nat : m = Len(starts) /\ DOMAIN starts = 1..m
    BY <1>4, LenProperties
  <1> DEFINE to(k) == IF k = m THEN n ELSE starts[k+1]
             piece(k) == Section(txt, starts[k], to(k), size, overlap)
             S == Seq(BookSet(txt))
  <1>6. ASSUME NEW k \in 1..m PROVE piece(k) \in S
    <2>1. PICK a \in 0..n : a = starts[k]
      BY <1>4, <1>5, ElementOfSeq
    <2>2. PICK b \in 0..n : b = to(k)
      <3>1. CASE k = m
        BY <3>1
      <3>2. CASE k # m
        <4>1. k + 1 \in 1..Len(starts)
          BY <1>5, <3>2
        <4>2. starts[k+1] \in 0..n
          BY <1>4, <4>1, ElementOfSeq
        <4> QED BY <3>2, <4>2
      <3> QED BY <3>1, <3>2
    <2>3. Section(txt, a, b, size, overlap) \in S
      <3>1. a \in Nat /\ b \in Nat /\ b <= Len(txt)
        BY <1>2
      <3> QED BY <3>1, SectionIs
    <2> HIDE DEF to, S
    <2> QED BY <2>1, <2>2, <2>3
  <1>7. PICK secs : secs = [k \in 1..m |-> piece(k)]
    OBVIOUS
  <1>8. secs \in Seq(S)
    <2> HIDE DEF piece, S
    <2>1. secs = [k \in 1..m |-> secs[k]] /\ \A k \in 1..m : secs[k] \in S
      BY <1>6, <1>7
    <2> QED BY <2>1, Listed
  <1>9. FlattenSeq(secs) \in Seq(BookSet(txt))
    <2>1. secs \in Seq(Seq(BookSet(txt)))
      BY <1>8
    <2> QED BY <2>1, FlattenElements
  <1>10. CASE SplitByHeadings(txt, size, overlap) = SplitText(txt, size, overlap)
    <2>1. SplitText(txt, size, overlap) \in Seq(LegacySet(cap))
      BY <1>1, SplitTextIs
    <2> QED BY <1>10, <2>1, LegacyChunks
  <1>11. CASE SplitByHeadings(txt, size, overlap) # SplitText(txt, size, overlap)
    <2>1. SplitByHeadings(txt, size, overlap) = Coalesce(FlattenSeq(secs), size)
      BY <1>2, <1>3, <1>5, <1>7, <1>11 DEF SplitByHeadings
    <2> QED BY <1>9, <2>1, CoalesceIs
  <1> QED BY <1>10, <1>11

\* What a sequence has the next has too, and a slice of the text perhaps.
LEMMA AppendSliceIs ==
  ASSUME NEW txt \in Seq(TextMarks), NEW out \in Seq(BookSet(txt)), NEW from \in Nat, NEW to \in Nat,
         to <= Len(txt)
  PROVE  AppendSlice(out, txt, from, to) \in Seq(BookSet(txt))
  <1>1. PICK t \in Seq(TextMarks) : t = Slice(txt, from, to)
    BY SliceIs
  <1>2. PICK c : c = [content |-> t, bc |-> <<>>, syn |-> 0, start |-> from, end |-> to]
    OBVIOUS
  <1>3. c \in BookSet(txt)
    <2>1. <<>> \in Seq(CrumbMarks)
      OBVIOUS
    <2>2. c \in ChunkSet /\ c.bc = <<>>
      BY <1>2, <2>1 DEF ChunkSet
    <2>3. Crumbed(txt, c.bc, c.start)
      BY <2>2 DEF Crumbed
    <2> QED BY <2>2, <2>3 DEF BookSet
  <1>4. Append(out, c) \in Seq(BookSet(txt))
    BY <1>3, AppendProperties
  <1>5. AppendSlice(out, txt, from, to) \in {out, Append(out, c)}
    BY <1>1, <1>2 DEF AppendSlice
  <1> QED BY <1>4, <1>5

\* An overlap starts in the chunk it is carried from or before.
LEMMA OverlapStartIs ==
  ASSUME NEW txt, NEW n \in Nat, n = Len(txt), NEW end \in 0..n, NEW overlap \in Nat, NEW edges \in SUBSET (0..n)
  PROVE  OverlapStart(txt, end, overlap, edges) \in 0..n /\ OverlapStart(txt, end, overlap, edges) <= end
  <1>1. PICK target \in 0..n, from \in 0..n : target = Most(0, end - overlap) /\ from = Most(0, end - 2 * overlap)
    <2>1. PICK w \in Nat : w = 2 * overlap
      OBVIOUS
    <2>2. Most(0, end - overlap) \in 0..n /\ Most(0, end - w) \in 0..n
      BY DEF Most
    <2> QED BY <2>1, <2>2
  <1>2. PICK inside : inside = {b \in edges : from <= b /\ b < end}
    OBVIOUS
  <1>3. PICK ends : ends = {i \in (from+1)..target : i < n /\ txt[i+1] \in LineMarks \cup {"n"}}
    OBVIOUS
  <1> DEFINE Chosen(b) == IF inside # {} THEN b \in inside /\ \A c \in inside : c <= b
                          ELSE IF ends # {} THEN b - 1 \in ends /\ \A c \in ends : c <= b - 1
                          ELSE b = target
  <1>4. OverlapStart(txt, end, overlap, edges) = CHOOSE b \in 0..n : Chosen(b)
    BY <1>1, <1>2, <1>3 DEF OverlapStart
  <1>5. \E b \in 0..n : Chosen(b)
    <2>1. CASE inside # {}
      <3>1. inside \in SUBSET (0..n)
        BY <1>2
      <3>2. PICK x \in inside : \A y \in inside : y <= x
        BY <2>1, <3>1, Greatest
      <3> QED BY <2>1, <3>1, <3>2
    <2>2. CASE inside = {} /\ ends # {}
      <3>1. ends \in SUBSET (0..n) /\ \A i \in ends : i < n
        BY <1>3
      <3>2. PICK x \in ends : \A y \in ends : y <= x
        BY <2>2, <3>1, Greatest
      <3>3. x + 1 \in 0..n /\ (x + 1) - 1 = x
        BY <3>1
      <3> QED BY <2>2, <3>2, <3>3
    <2>3. CASE inside = {} /\ ends = {}
      BY <2>3
    <2> QED BY <2>1, <2>2, <2>3
  <1>6. ASSUME NEW b \in 0..n, Chosen(b) PROVE b <= end
    <2>1. CASE inside # {}
      BY <1>2, <1>6, <2>1
    <2>2. CASE inside = {} /\ ends # {}
      <3>1. b - 1 \in (from+1)..target
        BY <1>3, <1>6, <2>2
      <3>2. PICK w \in Nat : w = 2 * overlap /\ overlap <= w
        OBVIOUS
      <3>3. target = Most(0, end - overlap) /\ from = Most(0, end - w)
        BY <1>1, <3>2
      <3> QED BY <3>1, <3>2, <3>3 DEF Most
    <2>3. CASE inside = {} /\ ends = {}
      BY <1>1, <1>6, <2>3 DEF Most
    <2> QED BY <2>1, <2>2, <2>3
  <1> HIDE DEF Chosen
  <1>7. PICK b : b = CHOOSE x \in 0..n : Chosen(x)
    OBVIOUS
  <1>8. b \in 0..n /\ Chosen(b)
    BY <1>5, <1>7
  <1> QED BY <1>4, <1>6, <1>7, <1>8

\* The heuristic tier between two boundaries of a text of n runes
Packing(txt, n) == [out : Seq(BookSet(txt)), start : 0..n, end : 0..n]

\* Every boundary keeps it.
LEMMA PackIs ==
  ASSUME NEW cap \in Caps, NEW txt, NEW size, NEW overlap, Usable(txt, size, overlap, cap), NEW n \in Nat, n = Len(txt),
         NEW p \in Packing(txt, n), NEW upto \in 0..n, NEW edges \in SUBSET (0..n)
  PROVE  Pack(p, upto, txt, edges, size, overlap) \in Packing(txt, n)
  <1>1. txt \in Seq(TextMarks) /\ size \in Nat /\ size <= cap /\ overlap \in Nat /\ overlap \in Int
    BY DEF Usable
  <1>2. PICK out \in Seq(BookSet(txt)), s \in 0..n, e \in 0..n : out = p.out /\ s = p.start /\ e = p.end
    BY DEF Packing
  <1>3. PICK more : more = AppendSlice(out, txt, s, e)
    OBVIOUS
  <1>4. more \in Seq(BookSet(txt))
    <2>1. s \in Nat /\ e \in Nat /\ e <= Len(txt)
      OBVIOUS
    <2> QED BY <1>1, <1>3, <2>1, AppendSliceIs
  <1>5. CASE upto - e > size
    <2>1. PICK t \in Seq(TextMarks) : t = Slice(txt, e, upto)
      <3>1. e \in Nat /\ upto \in Int /\ upto <= Len(txt)
        OBVIOUS
      <3> QED BY <1>1, <3>1, SliceIs
    <2>2. PICK subs : subs = SplitText(t, size, overlap)
      OBVIOUS
    <2>3. subs \in Seq(LegacySet(cap))
      BY <1>1, <2>2, SplitTextIs
    <2>4. PICK sh : sh = ShiftAll(subs, e)
      OBVIOUS
    <2>5. sh \in Seq(BookSet(txt))
      <3>1. e \in Nat
        OBVIOUS
      <3> QED BY <2>3, <2>4, <3>1, ShortShifted
    <2>6. PICK all : all = more \o sh
      OBVIOUS
    <2>7. all \in Seq(BookSet(txt))
      BY <1>4, <2>5, <2>6, ConcatProperties
    <2>8. Pack(p, upto, txt, edges, size, overlap) = [out |-> all, start |-> upto, end |-> upto]
      BY <1>2, <1>3, <1>5, <2>1, <2>2, <2>4, <2>6 DEF Pack
    <2> QED BY <2>7, <2>8 DEF Packing
  <1>6. CASE ~(upto - e > size)
    <2>1. PICK from \in 0..n : from = OverlapStart(txt, e, overlap, edges)
      BY <1>1, OverlapStartIs
    <2>2. CASE upto - s > size /\ e - s >= Most(size \div 4, MinHeuristic)
      <3>1. Pack(p, upto, txt, edges, size, overlap) = [out |-> more, start |-> from, end |-> upto]
        BY <1>2, <1>3, <1>6, <2>1, <2>2 DEF Pack
      <3> QED BY <1>4, <3>1 DEF Packing
    <2>3. CASE ~(upto - s > size /\ e - s >= Most(size \div 4, MinHeuristic))
      <3>1. Pack(p, upto, txt, edges, size, overlap) = [p EXCEPT !.end = upto]
        BY <1>2, <1>6, <2>3 DEF Pack
      <3> QED BY <3>1 DEF Packing
    <2> QED BY <2>2, <2>3
  <1> QED BY <1>5, <1>6

\* What holds at the start and from one step to the upto holds at the end.
LEMMA StaysIn ==
  ASSUME NEW S, NEW n \in Nat, NEW h, h[0] \in S, \A i \in 1..n : h[i-1] \in S => h[i] \in S
  PROVE  h[n] \in S
  <1> DEFINE Q == {c \in 0..n : h[c] \in S}
  <1>1. 0 \in Q
    OBVIOUS
  <1>2. ASSUME NEW c \in 0..(n-1), c \in Q PROVE c + 1 \in Q
    <2>1. c + 1 \in 1..n /\ c + 1 \in 0..n /\ (c + 1) - 1 = c
      OBVIOUS
    <2>2. PICK d \in 1..n : d = c + 1
      BY <2>1
    <2>3. h[d] \in S
      BY <1>2, <2>1, <2>2
    <2> QED BY <2>1, <2>2, <2>3
  <1>3. 0 \in Int /\ n \in Int /\ n \in 0..n
    OBVIOUS
  <1>4. \A c \in 0..n : c \in Q
    <2> HIDE DEF Q
    <2> QED BY <1>1, <1>2, <1>3, IntervalInduction
  <1> QED BY <1>3, <1>4

\* The heuristic tier, one boundary after the other
Edges(txt)  == MarkerBounds(txt) \cup {0, Len(txt)}
Inner(txt)  == InOrder(MarkerBounds(txt) \cup {0}, txt)
Packs(h, txt, size, overlap, at, m) ==
  /\ h[1] = [out |-> <<>>, start |-> 0, end |-> 0]
  /\ \A i \in 2..m : h[i] = Pack(h[i-1], at[i], txt, Edges(txt), size, overlap)

\* There are such steps, and the last is what it returns.
LEMMA HeuristicSteps ==
  ASSUME NEW cap \in Caps, NEW txt, NEW size, NEW overlap, Usable(txt, size, overlap, cap),
         SplitByHeuristics(txt, size, overlap) # SplitText(txt, size, overlap)
  PROVE  \E at, h, n, m :
           /\ n = Len(txt) /\ n \in Nat /\ m = Len(at) /\ m \in Nat \ {0}
           /\ at = Append(Inner(txt), n) /\ \A i \in 1..m : at[i] \in 0..n
           /\ h \in [1..m -> Packing(txt, n)] /\ Packs(h, txt, size, overlap, at, m)
           /\ SplitByHeuristics(txt, size, overlap) = Packed(h[m], txt)
  <1>1. txt \in Seq(TextMarks) /\ size \in Nat /\ size <= cap /\ overlap \in Nat /\ overlap \in Int
    BY DEF Usable
  <1>2. PICK n \in Nat : n = Len(txt) /\ DOMAIN txt = 1..n
    BY <1>1, LenProperties
  <1>3. PICK edges : edges = MarkerBounds(txt) \cup {0, n}
    OBVIOUS
  <1>4. edges \in SUBSET (0..n) /\ 0 \in edges
    <2>1. MarkerBounds(txt) \in SUBSET (0..n)
      BY <1>2 DEF MarkerBounds
    <2> QED BY <1>3, <2>1
  <1>5. PICK at : at = Append(Inner(txt), n)
    OBVIOUS
  <1>6. PICK m \in Nat \ {0} : m = Len(at) /\ at \in Seq(0..n)
    <2>1. Inner(txt) \in Seq(0..n)
      BY <1>2, InOrderIs DEF Inner
    <2>2. n \in 0..n /\ Len(Inner(txt)) \in Nat
      BY <2>1, LenProperties
    <2>3. at \in Seq(0..n) /\ Len(at) = Len(Inner(txt)) + 1
      BY <1>5, <2>1, <2>2, AppendProperties
    <2> QED BY <2>2, <2>3
  <1>7. \A i \in 1..m : at[i] \in 0..n
    BY <1>6, ElementOfSeq
  <1> DEFINE S == Packing(txt, n)
             first == [out |-> <<>>, start |-> 0, end |-> 0]
             turn(i, p) == Pack(p, at[i], txt, edges, size, overlap)
             Val(h, i) == IF i = 1 THEN first ELSE turn(i, h[i-1])
             Is(h) == h = [i \in 1..m |-> Val(h, i)]
             H == CHOOSE h : Is(h)
  <1>8. first \in S
    <2>1. <<>> \in Seq(BookSet(txt)) /\ 0 \in 0..n
      OBVIOUS
    <2> QED BY <2>1 DEF Packing
  <1>9. ASSUME NEW i \in 1..m, NEW p \in S PROVE turn(i, p) \in S
    BY <1>2, <1>4, <1>7, PackIs
  <1>10. SplitByHeuristics(txt, size, overlap) = Packed(H[m], txt)
    BY <1>2, <1>3, <1>5, <1>6 DEF SplitByHeuristics, Inner
  <1> HIDE DEF S, first, turn
  <1>11. \E h : Is(h)
    <2>1. PICK l \in Nat : l = m - 1
      OBVIOUS
    <2> DEFINE G == [i \in 1..l |-> [p \in S |-> turn(i+1, p)]]
    <2>2. \A i \in 1..l : i + 1 \in 1..m
      BY <2>1
    <2>3. G \in [1..l -> [S -> S]]
      BY <1>9, <2>2
    <2>4. \A i \in 1..l : \A p \in S : G[i][p] = turn(i+1, p)
      OBVIOUS
    <2> HIDE DEF G
    <2>5. PICK f \in [0..l -> S] : Recurses(f, first, G, l)
      BY <1>8, <2>3, RecursionExists
    <2>6. PICK h : h = [i \in 1..m |-> f[i-1]]
      OBVIOUS
    <2>7. h = [i \in 1..m |-> h[i]]
      BY <2>6
    <2>8. ASSUME NEW i \in 1..m PROVE h[i] = Val(h, i)
      <3>1. CASE i = 1
        <4>1. i - 1 = 0
          BY <3>1
        <4> QED BY <2>5, <2>6, <3>1, <4>1 DEF Recurses
      <3>2. CASE i # 1
        <4>1. PICK k \in 1..l : k = i - 1
          BY <2>1, <3>2
        <4>2. k \in 1..m /\ k - 1 \in 0..l /\ k + 1 = i
          BY <2>1, <4>1
        <4>3. h[i] = f[k] /\ h[k] = f[k-1]
          BY <2>6, <4>1, <4>2
        <4>4. f[k] = turn(i, f[k-1])
          BY <2>4, <2>5, <4>2 DEF Recurses
        <4> QED BY <3>2, <4>1, <4>3, <4>4
      <3> QED BY <3>1, <3>2
    <2>9. Is(h)
      <3> HIDE DEF Val
      <3> QED BY <2>7, <2>8
    <2> HIDE DEF Is
    <2> QED BY <2>9
  <1>12. Is(H)
    <2> HIDE DEF Is
    <2> QED BY <1>11
  <1>13. \A i \in 1..m : H[i] = Val(H, i)
    <2> HIDE DEF Val, H
    <2> QED BY <1>12
  <1> HIDE DEF H, Is
  <1>14. \A i \in 1..m : H[i] \in S
    <2>1. ASSUME NEW i \in 1..m PROVE H[i] = IF i = 1 THEN first ELSE turn(i, H[i-1])
      BY <1>13
    <2> DEFINE Q == {c \in 1..m : H[c] \in S}
    <2>2. 1 \in Q
      <3>1. 1 \in 1..m
        BY <1>6
      <3> QED BY <1>8, <2>1, <3>1
    <2>3. ASSUME NEW c \in 1..(m-1), c \in Q PROVE c + 1 \in Q
      <3>1. PICK d \in 1..m : d = c + 1
        BY <1>6
      <3>2. d # 1 /\ d - 1 = c
        BY <3>1
      <3>3. H[d] = turn(d, H[c])
        BY <2>1, <3>2
      <3>4. H[d] \in S
        BY <1>9, <2>3, <3>3
      <3> QED BY <3>1, <3>4
    <2>4. 1 \in Int /\ m \in Int
      BY <1>6
    <2>5. \A c \in 1..m : c \in Q
      <3> HIDE DEF Q
      <3> QED BY <2>2, <2>3, <2>4, IntervalInduction
    <2> QED BY <2>5
  <1>15. PICK h : h = [i \in 1..m |-> H[i]]
    OBVIOUS
  <1>16. h \in [1..m -> S] /\ h[m] = H[m]
    BY <1>6, <1>14, <1>15
  <1>17. Packs(h, txt, size, overlap, at, m)
    <2>1. h[1] = first
      <3>1. 1 \in 1..m
        BY <1>6
      <3> QED BY <1>13, <1>15, <3>1
    <2>2. ASSUME NEW i \in 2..m PROVE h[i] = turn(i, h[i-1])
      <3>1. i \in 1..m /\ i - 1 \in 1..m /\ i # 1
        BY <1>6
      <3>2. H[i] = Val(H, i)
        BY <1>13, <3>1
      <3> QED BY <1>15, <3>1, <3>2
    <2>3. edges = Edges(txt)
      BY <1>2, <1>3 DEF Edges
    <2> QED BY <2>1, <2>2, <2>3 DEF Packs, first, turn
  <1> QED BY <1>2, <1>5, <1>6, <1>7, <1>10, <1>16, <1>17 DEF S

\* What the heuristic tier returns is chunks of the book.
LEMMA HeuristicTier ==
  ASSUME NEW cap \in Caps, NEW txt, NEW size, NEW overlap, Usable(txt, size, overlap, cap)
  PROVE  SplitByHeuristics(txt, size, overlap) \in Seq(BookSet(txt))
  <1>1. txt \in Seq(TextMarks) /\ size \in Nat /\ size <= cap /\ overlap \in Int
    BY DEF Usable
  <1>2. CASE SplitByHeuristics(txt, size, overlap) = SplitText(txt, size, overlap)
    <2>1. SplitText(txt, size, overlap) \in Seq(LegacySet(cap))
      BY <1>1, SplitTextIs
    <2> QED BY <1>2, <2>1, LegacyChunks
  <1>3. CASE SplitByHeuristics(txt, size, overlap) # SplitText(txt, size, overlap)
    <2>1. PICK h, n, m : /\ n = Len(txt) /\ n \in Nat /\ m \in Nat \ {0} /\ h \in [1..m -> Packing(txt, n)]
                         /\ SplitByHeuristics(txt, size, overlap) = Packed(h[m], txt)
      BY <1>3, HeuristicSteps
    <2>2. PICK p \in Packing(txt, n) : SplitByHeuristics(txt, size, overlap) = Packed(p, txt)
      BY <2>1
    <2>3. p.out \in Seq(BookSet(txt)) /\ p.start \in Nat /\ p.end \in Nat /\ p.end <= n
      BY DEF Packing
    <2>4. AppendSlice(p.out, txt, p.start, p.end) \in Seq(BookSet(txt))
      BY <1>1, <2>1, <2>3, AppendSliceIs
    <2> QED BY <2>2, <2>4 DEF Packed
  <1> QED BY <1>2, <1>3

\* The tiers a text goes through, the legacy one last
TierNames == {"heading", "heuristic", "legacy"}

\* The chain has one tier or two, each of them known.
LEMMA ChainIs ==
  ASSUME NEW txt, NEW strat
  PROVE  /\ Chain(txt, strat) \in Seq(TierNames) /\ Len(Chain(txt, strat)) \in Nat \ {0}
         /\ Chain(txt, strat)[Len(Chain(txt, strat))] = "legacy"
  <1>1. PICK a, b, c : a = <<"heading">> /\ b = <<"heuristic">> /\ c = <<"legacy">>
    OBVIOUS
  <1>2. PICK e : e = <<>>
    OBVIOUS
  <1>3. /\ a \in Seq(TierNames) /\ b \in Seq(TierNames) /\ c \in Seq(TierNames) /\ e \in Seq(TierNames)
        /\ Len(c) = 1 /\ c[1] = "legacy"
    BY <1>1, <1>2 DEF TierNames
  <1>4. PICK x \in {a, e}, y \in {b, e} : Chain(txt, strat) = (x \o y) \o c
    BY <1>1, <1>2 DEF Chain
  <1>5. PICK xy : xy = x \o y
    OBVIOUS
  <1>6. xy \in Seq(TierNames)
    BY <1>3, <1>5, ConcatProperties
  <1>7. PICK n \in Nat : n = Len(xy)
    BY <1>6, LenProperties
  <1>8. PICK z : z = Glue(xy, c)
    OBVIOUS
  <1>9. /\ z \in Seq(TierNames) /\ Len(z) = n + 1
        /\ \A i \in 1..(n + 1) : z[i] = IF i <= n THEN xy[i] ELSE c[i-n]
    <2>1. PICK s \in Seq(TierNames), t \in Seq(TierNames) : s = xy /\ t = c
      BY <1>3, <1>6
    <2>2. PICK k \in Nat, w \in Nat : k = Len(s) /\ w = Len(t)
      BY LenProperties
    <2>3. PICK h : h = Glue(s, t)
      OBVIOUS
    <2>4. /\ h \in Seq(TierNames) /\ Len(h) = k + w
          /\ \A i \in 1..(k + w) : h[i] = IF i <= k THEN s[i] ELSE t[i-k]
      BY <2>2, <2>3, GlueIs
    <2>5. k = n /\ w = 1
      BY <1>3, <1>7, <2>1, <2>2
    <2> QED BY <1>8, <2>1, <2>3, <2>4, <2>5
  <1>10. z[n+1] = "legacy"
    <2>1. n + 1 \in 1..(n+1) /\ ~(n + 1 <= n) /\ (n + 1) - n = 1
      OBVIOUS
    <2> QED BY <1>3, <1>9, <2>1
  <1>11. Chain(txt, strat) = z
    BY <1>4, <1>5, <1>8 DEF Glue
  <1> QED BY <1>9, <1>10, <1>11

\* What the validator accepts is no longer than twice the size.
LEMMA ValidIs ==
  ASSUME NEW cap \in Caps, NEW txt, NEW chunks \in Seq(BookSet(txt)), NEW total, NEW size \in Nat, 2 * size <= cap,
         ValidChunks(chunks, total, size)
  PROVE  chunks \in Seq(BookShort(txt, cap))
  <1>1. PICK n \in Nat : n = Len(chunks) /\ DOMAIN chunks = 1..n
    BY LenProperties
  <1>2. ASSUME NEW k \in 1..n PROVE chunks[k] \in BookShort(txt, cap)
    <2>1. PICK c \in BookSet(txt) : c = chunks[k]
      BY <1>1, ElementOfSeq
    <2>2. Len(c.content) <= 2 * size
      BY <1>1, <2>1 DEF ValidChunks
    <2>3. Len(c.content) <= cap
      <3>1. c.content \in Seq(TextMarks)
        BY DEF BookSet, ChunkSet
      <3>2. PICK l \in Nat, d \in Nat : l = Len(c.content) /\ d = 2 * size
        BY <3>1, LenProperties
      <3> QED BY <2>2, <3>2, CapIs
    <2> QED BY <2>1, <2>3 DEF BookSet, BookShort, ShortSet
  <1>3. chunks = [k \in 1..n |-> chunks[k]]
    BY <1>1, LenProperties
  <1> QED BY <1>2, <1>3, Listed

\* A text may be split if twice the size is within the cap.
Splittable(txt, size, overlap, cap) ==
  txt \in Seq(TextMarks) /\ size \in Nat /\ 2 * size <= cap /\ overlap \in Nat

\* The chain of tiers
LEMMA TiersAre ==
  ASSUME NEW cap \in Caps, NEW txt, NEW size, NEW overlap, Splittable(txt, size, overlap, cap), NEW strat
  PROVE  Tiers(Chain(txt, strat), txt, size, overlap) \in Seq(BookShort(txt, cap))
  <1>1. txt \in Seq(TextMarks) /\ size \in Nat /\ 2 * size <= cap /\ overlap \in Nat /\ overlap \in Int
    BY DEF Splittable
  <1>2. size <= cap /\ cap \in Nat
    <2>1. PICK d \in Nat : d = 2 * size /\ size <= d
      BY <1>1
    <2> QED BY <1>1, <2>1, CapIs
  <1>3. Usable(txt, size, overlap, cap)
    BY <1>1, <1>2 DEF Usable
  <1>4. PICK chain : chain = Chain(txt, strat)
    OBVIOUS
  <1>5. chain \in Seq(TierNames)
    BY <1>4, ChainIs
  <1>6. PICK m \in Nat \ {0} : m = Len(chain) /\ DOMAIN chain = 1..m /\ chain[m] = "legacy"
    BY <1>4, <1>5, ChainIs, LenProperties
  <1> DEFINE run(k) == RunTier(chain[k], txt, size, overlap)
             S == Seq(BookSet(txt))
  <1>7. SplitText(txt, size, overlap) \in Seq(LegacySet(cap))
    BY <1>1, <1>2, SplitTextIs
  <1>8. ASSUME NEW k \in 1..m PROVE run(k) \in S
    <2>1. chain[k] \in TierNames
      BY <1>5, <1>6, ElementOfSeq
    <2>2. CASE chain[k] = "heading"
      <3>1. run(k) = SplitByHeadings(txt, size, overlap)
        BY <2>2 DEF RunTier
      <3> QED BY <1>3, <3>1, HeadingTier
    <2>3. CASE chain[k] = "heuristic"
      <3>1. run(k) = SplitByHeuristics(txt, size, overlap)
        BY <2>3 DEF RunTier
      <3> QED BY <1>3, <3>1, HeuristicTier
    <2>4. CASE chain[k] = "legacy"
      <3>1. run(k) = SplitText(txt, size, overlap)
        BY <2>4 DEF RunTier
      <3> QED BY <1>7, <3>1, LegacyChunks
    <2> QED BY <2>1, <2>2, <2>3, <2>4 DEF TierNames
  <1>9. run(m) \in Seq(BookShort(txt, cap))
    <2>1. run(m) = SplitText(txt, size, overlap)
      BY <1>6 DEF RunTier
    <2> QED BY <1>7, <2>1, LegacyChunks
  <1>10. PICK out : out = [k \in 1..m |-> run(k)]
    OBVIOUS
  <1>11. PICK n : n = Len(txt)
    OBVIOUS
  <1>12. PICK ok : ok = {k \in 1..m : ValidChunks(out[k], n, size)}
    OBVIOUS
  <1>13. Len(out) = m
    <2> HIDE DEF run, S
    <2>1. out = [k \in 1..m |-> out[k]] /\ (\A k \in 1..m : out[k] \in S) /\ DOMAIN out = 1..m
      BY <1>8, <1>10
    <2>2. out \in Seq(S)
      BY <2>1, Listed
    <2> QED BY <2>1, <2>2, LenProperties
  <1>14. Tiers(chain, txt, size, overlap) = out[IF ok = {} THEN m ELSE Min(ok)]
    <2>1. out = [k \in DOMAIN chain |-> run(k)] /\ DOMAIN out = 1..m
      BY <1>6, <1>10
    <2>2. Tiers(chain, txt, size, overlap) = FirstValid(out, n, size)
      BY <1>11, <2>1 DEF Tiers
    <2> QED BY <1>12, <1>13, <2>1, <2>2 DEF FirstValid
  <1>15. CASE ok = {}
    <2>1. m \in 1..m
      OBVIOUS
    <2> HIDE DEF run
    <2>2. out[m] = run(m)
      BY <1>10, <2>1
    <2> QED BY <1>4, <1>9, <1>14, <1>15, <2>2
  <1>16. CASE ok # {}
    <2>1. PICK k \in 1..m : k = Min(ok) /\ k \in ok
      <3>1. ok \in SUBSET (1..m)
        BY <1>12
      <3>2. Min(ok) \in ok
        BY <1>16, <3>1, FirstAndLast
      <3> QED BY <3>1, <3>2
    <2>2. PICK chunks : chunks = out[k]
      OBVIOUS
    <2>3. chunks \in Seq(BookSet(txt)) /\ ValidChunks(chunks, n, size)
      BY <1>8, <1>10, <1>12, <2>1, <2>2
    <2>4. chunks \in Seq(BookShort(txt, cap))
      BY <1>1, <2>3, ValidIs
    <2> QED BY <1>4, <1>14, <1>16, <2>1, <2>2, <2>4
  <1> QED BY <1>15, <1>16

\* What Split returns is within the cap and names only headings in scope.
LEMMA SplitIs ==
  ASSUME NEW cap \in Caps, NEW txt \in Seq(TextMarks), NEW size \in Nat, 2 * size <= cap,
         NEW overlap \in Nat, NEW strat
  PROVE  Split(txt, size, overlap, strat) \in Seq(BookShort(txt, cap))
  <1>1. PICK o \in Nat : o = OverlapFor(size, overlap)
    <2>1. PICK h \in Nat : h = size \div 2
      <3>1. 2 \in Nat \ {0}
        OBVIOUS
      <3>2. size \div 2 \in Nat
        BY <3>1, Quotient
      <3> QED BY <3>2
    <2>2. PICK a \in Nat : a = IF overlap <= 0 THEN DefaultOverlap ELSE overlap
      BY Limits
    <2>3. Least(a, h) \in Nat
      BY DEF Least
    <2>4. OverlapFor(size, overlap) = Least(a, h)
      BY <2>1, <2>2 DEF OverlapFor
    <2> QED BY <2>3, <2>4
  <1>2. Splittable(txt, size, o, cap)
    BY DEF Splittable
  <1>3. Tiers(Chain(txt, strat), txt, size, o) \in Seq(BookShort(txt, cap))
    BY <1>2, TiersAre
  <1>4. CASE txt = <<>>
    <2>1. Split(txt, size, overlap, strat) = <<>>
      BY <1>4 DEF Split
    <2>2. <<>> \in Seq(BookShort(txt, cap))
      OBVIOUS
    <2> QED BY <2>1, <2>2
  <1>5. CASE txt # <<>>
    <2>1. Split(txt, size, overlap, strat) = Tiers(Chain(txt, strat), txt, size, o)
      BY <1>1, <1>5 DEF Split
    <2> QED BY <1>3, <2>1
  <1> QED BY <1>4, <1>5

\* The words of a text are a text.
LEMMA WordsAre ==
  ASSUME NEW content \in Seq(TextMarks)
  PROVE  Words(content) \in Seq(TextMarks)
  <1>1. PICK k : k = Kept(content, {i \in DOMAIN content : content[i] # "n"})
    OBVIOUS
  <1>2. k \in Seq(TextMarks)
    BY <1>1, KeptPicks
  <1>3. PICK n \in Nat : n = Len(k) /\ DOMAIN k = 1..n
    BY <1>2, LenProperties
  <1>4. PICK w : w = [i \in 1..n |-> IF k[i] = "u" THEN "t" ELSE k[i]]
    OBVIOUS
  <1>5. ASSUME NEW i \in 1..n PROVE w[i] \in TextMarks
    <2>1. k[i] \in TextMarks
      BY <1>2, <1>3, ElementOfSeq
    <2>2. "t" \in TextMarks
      BY DEF TextMarks, LineMarks, TableMarks
    <2> QED BY <1>4, <2>1, <2>2
  <1>6. w = [i \in 1..n |-> w[i]]
    BY <1>4
  <1>7. w \in Seq(TextMarks)
    BY <1>5, <1>6, Listed
  <1>8. Words(content) = w
    BY <1>1, <1>3, <1>4 DEF Words
  <1> QED BY <1>7, <1>8

\* The breadcrumb of a child
LEMMA MergedCrumbs ==
  ASSUME NEW a \in Seq(CrumbMarks), NEW b \in Seq(CrumbMarks)
  PROVE  MergeBreadcrumbs(a, b) \in Seq(CrumbMarks)
  <1>1. a \o b \in Seq(CrumbMarks)
    BY ConcatProperties
  <1>2. CASE b # <<>>
    <2>1. PICK t : t = Tail(b)
      OBVIOUS
    <2>2. t \in Seq(CrumbMarks)
      BY <1>2, <2>1, HeadTailProperties
    <2>3. a \o t \in Seq(CrumbMarks)
      BY <2>2, ConcatProperties
    <2>4. MergeBreadcrumbs(a, b) \in {a \o t, a \o b}
      BY <2>1 DEF MergeBreadcrumbs
    <2> QED BY <1>1, <2>3, <2>4
  <1>3. CASE b = <<>>
    <2>1. MergeBreadcrumbs(a, b) = a \o b
      BY <1>3 DEF MergeBreadcrumbs
    <2> QED BY <1>1, <2>1
  <1> QED BY <1>2, <1>3

\* A child is as long as the chunk it was.
LEMMA RemapIs ==
  ASSUME NEW sub \in ChunkSet, NEW parent \in ChunkSet
  PROVE  RemapChild(sub, parent) \in ChunkSet /\ RemapChild(sub, parent).content = sub.content
  <1>1. /\ sub.start \in Nat /\ sub.end \in Nat /\ sub.syn \in Int
        /\ parent.start \in Nat /\ parent.syn \in Int
    BY DEF ChunkSet
  <1>2. PICK s \in Nat, e \in Nat, y \in Int :
          /\ s = parent.start + Most(0, sub.start - parent.syn)
          /\ e = parent.start + Most(0, sub.end - parent.syn)
          /\ y = sub.syn + Least(Most(parent.syn - sub.start, 0), sub.end - sub.start)
    BY <1>1 DEF Most, Least
  <1>3. RemapChild(sub, parent) = [sub EXCEPT !.start = s, !.end = e, !.syn = y]
    BY <1>2 DEF RemapChild
  <1> QED BY <1>3 DEF ChunkSet

\* A child: its chunk, and the words of its parent
KidSet(cap) == [chunk : ShortSet(cap), parent : Seq(TextMarks)]

\* The chunks of a parent as its children
LEMMA AdoptIs ==
  ASSUME NEW cap \in Caps, NEW subs \in Seq(ShortSet(cap)), NEW parent \in ShortSet(cap)
  PROVE  Adopt(subs, parent) \in Seq(KidSet(cap))
  <1>1. PICK n \in Nat : n = Len(subs) /\ DOMAIN subs = 1..n
    BY LenProperties
  <1>2. parent \in ChunkSet /\ parent.bc \in Seq(CrumbMarks) /\ parent.content \in Seq(TextMarks)
    BY DEF ShortSet, ChunkSet
  <1>3. PICK w \in Seq(TextMarks) : w = Words(parent.content)
    BY <1>2, WordsAre
  <1> DEFINE kid(k) == [chunk |-> [RemapChild(subs[k], parent) EXCEPT
                                     !.bc = MergeBreadcrumbs(parent.bc, subs[k].bc)],
                        parent |-> w]
  <1>4. ASSUME NEW k \in 1..n PROVE kid(k) \in KidSet(cap)
    <2>1. PICK c : c = subs[k]
      OBVIOUS
    <2>2. c \in ShortSet(cap)
      BY <1>1, <2>1, ElementOfSeq
    <2>3. c \in ChunkSet /\ c.bc \in Seq(CrumbMarks) /\ Len(c.content) <= cap
      BY <2>2 DEF ShortSet, ChunkSet
    <2>4. PICK r : r = RemapChild(c, parent)
      OBVIOUS
    <2>5. r \in ChunkSet /\ r.content = c.content
      BY <1>2, <2>3, <2>4, RemapIs
    <2>6. PICK b \in Seq(CrumbMarks) : b = MergeBreadcrumbs(parent.bc, c.bc)
      BY <1>2, <2>3, MergedCrumbs
    <2>7. PICK d : d = [r EXCEPT !.bc = b]
      OBVIOUS
    <2>8. d \in ChunkSet /\ d.content = r.content
      BY <2>5, <2>7 DEF ChunkSet
    <2>9. d \in ShortSet(cap)
      BY <2>3, <2>5, <2>8 DEF ShortSet
    <2>10. kid(k) = [chunk |-> d, parent |-> w]
      BY <2>1, <2>4, <2>6, <2>7
    <2> HIDE DEF kid
    <2> QED BY <2>9, <2>10 DEF KidSet
  <1>5. PICK e : e = Adopt(subs, parent)
    OBVIOUS
  <1>6. e = [k \in 1..n |-> kid(k)]
    BY <1>1, <1>3, <1>5 DEF Adopt
  <1> HIDE DEF kid
  <1>7. e = [k \in 1..n |-> e[k]] /\ \A k \in 1..n : e[k] \in KidSet(cap)
    BY <1>4, <1>6
  <1>8. e \in Seq(KidSet(cap))
    BY <1>7, Listed
  <1> QED BY <1>5, <1>8

\* A cut of the book within a cap
CutSet(cap) == [parents : Seq(ShortSet(cap)), children : Seq(KidSet(cap)), sections : Seq(ShortSet(cap))]

\* What splitting parents again returns
LEMMA ChildrenAre ==
  ASSUME NEW cap \in Caps, NEW all \in Seq(ShortSet(cap)), NEW size \in Nat, 2 * size <= cap, NEW strat
  PROVE  WithChildren(all, size, strat) \in CutSet(cap) /\ WithChildren(all, size, strat).sections = all
  <1>1. PICK n \in Nat : n = Len(all) /\ DOMAIN all = 1..n
    BY LenProperties
  <1>2. PICK o \in Nat : o = size \div 5
    <2>1. 5 \in Nat \ {0}
      OBVIOUS
    <2>2. size \div 5 \in Nat
      BY <2>1, Quotient
    <2> QED BY <2>2
  <1> DEFINE S == Seq(KidSet(cap))
             brood(k) == Adopt(Split(all[k].content, size, o, strat), all[k])
  <1>3. ASSUME NEW k \in 1..n PROVE brood(k) \in S
    <2>1. PICK c : c = all[k]
      OBVIOUS
    <2>2. c \in ShortSet(cap)
      BY <1>1, <2>1, ElementOfSeq
    <2>3. c.content \in Seq(TextMarks)
      BY <2>2 DEF ShortSet, ChunkSet
    <2>4. PICK subs : subs = Split(c.content, size, o, strat)
      OBVIOUS
    <2>5. subs \in Seq(ShortSet(cap))
      <3>1. subs \in Seq(BookShort(c.content, cap))
        BY <2>3, <2>4, SplitIs
      <3>2. BookShort(c.content, cap) \subseteq ShortSet(cap)
        BY DEF BookShort
      <3> QED BY <3>1, <3>2, SeqMonotonic
    <2>6. Adopt(subs, c) \in Seq(KidSet(cap))
      BY <2>2, <2>5, AdoptIs
    <2> QED BY <2>1, <2>4, <2>6
  <1>4. PICK broods : broods = [k \in 1..n |-> brood(k)]
    OBVIOUS
  <1>5. broods \in Seq(S)
    <2> HIDE DEF brood, S
    <2>1. broods = [k \in 1..n |-> broods[k]] /\ \A k \in 1..n : broods[k] \in S
      BY <1>3, <1>4
    <2> QED BY <2>1, Listed
  <1>6. PICK fl : fl = FlattenSeq(broods)
    OBVIOUS
  <1>7. fl \in Seq(KidSet(cap))
    <2>1. broods \in Seq(Seq(KidSet(cap)))
      BY <1>5
    <2> QED BY <1>6, <2>1, FlattenElements
  <1>8. PICK ps : ps = Kept(all, {k \in DOMAIN all : Materialised(all[k], broods[k])})
    OBVIOUS
  <1>9. ps \in Seq(ShortSet(cap))
    BY <1>8, KeptPicks
  <1>10. WithChildren(all, size, strat) = [parents |-> ps, children |-> fl, sections |-> all]
    <2>1. WithChildren(all, size, strat) = Family(all, broods)
      BY <1>1, <1>2, <1>4 DEF WithChildren
    <2> HIDE DEF brood
    <2> QED BY <1>6, <1>8, <2>1 DEF Family
  <1> QED BY <1>7, <1>9, <1>10 DEF CutSet

\* The book is a text, and the cut of it within a cap; its sections name headings
\* in scope.
CutWithin(cap) ==
  text \in Seq(TextMarks) /\ cut \in CutSet(cap) /\ cut.sections \in Seq(BookShort(text, cap))

\* A cap the sizes fit twice
Roomy(cap) == cap \in Caps /\ 2 * ParentSize <= cap /\ 2 * ChildSize <= cap

\* The sizes of the splitter
LEMMA Sizes == ParentSize \in Nat /\ ChildSize \in Nat /\ BookOverlap \in Nat
  BY ChunkBookAssumption

\* There is one, whatever the sizes are.
LEMMA RoomFor == \E cap : Roomy(cap)
  <1>1. PICK cap \in Nat : cap = AbsoluteMax + 2 * ParentSize + 2 * ChildSize
    BY Limits, Sizes
  <1>2. Roomy(cap)
    BY <1>1, Limits, Sizes DEF Roomy, Caps
  <1> QED BY <1>2

\* A book starts with nothing cut.
LEMMA CutInitial ==
  ASSUME NEW cap, Roomy(cap)
  PROVE  ChunkInit => CutWithin(cap)
  <1> SUFFICES ASSUME ChunkInit PROVE CutWithin(cap)
    OBVIOUS
  <1>1. PICK b \in Books : Opened(b)
    BY DEF ChunkInit
  <1>2. text \in Seq(TextMarks)
    BY <1>1, ChunkBookAssumption DEF Opened
  <1>3. NoCut \in CutSet(cap) /\ NoCut.sections \in Seq(BookShort(text, cap))
    <2>1. NoCut \in CutSet(cap)
      BY DEF NoCut, CutSet
    <2>2. NoCut.sections = <<>> /\ <<>> \in Seq(BookShort(text, cap))
      BY DEF NoCut
    <2> QED BY <2>1, <2>2
  <1> QED BY <1>1, <1>2, <1>3 DEF Opened, CutWithin

\* Every step keeps the cut within the cap.
LEMMA CutStep ==
  ASSUME NEW cap, Roomy(cap)
  PROVE  CutWithin(cap) /\ [ChunkNext]_ckvars => CutWithin(cap)'
  <1> SUFFICES ASSUME CutWithin(cap), [ChunkNext]_ckvars PROVE CutWithin(cap)'
    OBVIOUS
  <1>1. CASE SplitBook
    <2>1. PICK t \in Seq(TextMarks) : t = text
      BY DEF CutWithin
    <2>2. PICK all : all = Split(t, ParentSize, BookOverlap, strategy)
      OBVIOUS
    <2>3. cap \in Caps /\ 2 * ParentSize <= cap /\ 2 * ChildSize <= cap
      BY DEF Roomy
    <2>4. all \in Seq(BookShort(t, cap))
      BY <2>2, <2>3, Sizes, SplitIs
    <2>40. all \in Seq(ShortSet(cap))
      <3>1. BookShort(t, cap) \subseteq ShortSet(cap)
        BY DEF BookShort
      <3> QED BY <2>4, <3>1, SeqMonotonic
    <2>5. PICK c : c = WithChildren(all, ChildSize, strategy) /\ c \in CutSet(cap) /\ c.sections = all
      BY <2>3, <2>40, Sizes, ChildrenAre
    <2>6. cut' = c /\ text' = t
      BY <1>1, <2>1, <2>2, <2>5 DEF SplitBook, SplitParentChild
    <2> QED BY <2>4, <2>5, <2>6 DEF CutWithin
  <1>2. CASE DedupeBook \/ UNCHANGED ckvars
    <2>1. text' = text /\ cut' = cut
      BY <1>2 DEF DedupeBook, ckvars
    <2> QED BY <2>1, ZenonT(60) DEF CutWithin
  <1> QED BY <1>1, <1>2 DEF ChunkNext

\* No chunk is over the ceiling of the embedding backend: not a parent, a section
\* or a child of any tier, with the injected header and the carried overlap, if
\* twice the configured sizes are under it.  HandleEmbed sends each whole.
THEOREM CeilingHolds ==
  ASSUME 2 * ParentSize <= AbsoluteMax, 2 * ChildSize <= AbsoluteMax
  PROVE  ChunkSpec => []HardCeiling
  <1>1. Roomy(AbsoluteMax)
    BY Limits DEF Roomy, Caps
  <1>2. CutWithin(AbsoluteMax) => HardCeiling
    <2> SUFFICES ASSUME CutWithin(AbsoluteMax), NEW c \in CutChunks
                 PROVE  Len(c.content) <= AbsoluteMax
      BY DEF HardCeiling
    <2>1. cut.sections \in Seq(ShortSet(AbsoluteMax)) /\ cut.children \in Seq(KidSet(AbsoluteMax))
      BY DEF CutWithin, CutSet
    <2>2. CASE \E k \in DOMAIN cut.sections : c = cut.sections[k]
      <3>1. PICK k \in DOMAIN cut.sections : c = cut.sections[k]
        BY <2>2
      <3>2. k \in 1..Len(cut.sections)
        BY <2>1, LenProperties
      <3>3. c \in ShortSet(AbsoluteMax)
        BY <2>1, <3>1, <3>2, ElementOfSeq
      <3> QED BY <3>3 DEF ShortSet
    <2>3. CASE \E k \in DOMAIN cut.children : c = cut.children[k].chunk
      <3>1. PICK k \in DOMAIN cut.children : c = cut.children[k].chunk
        BY <2>3
      <3>2. k \in 1..Len(cut.children)
        BY <2>1, LenProperties
      <3>3. cut.children[k] \in KidSet(AbsoluteMax)
        BY <2>1, <3>2, ElementOfSeq
      <3>4. c \in ShortSet(AbsoluteMax)
        BY <3>1, <3>3 DEF KidSet
      <3> QED BY <3>4 DEF ShortSet
    <2> QED BY <2>2, <2>3 DEF CutChunks
  <1>3. ChunkInit => CutWithin(AbsoluteMax)
    BY <1>1, CutInitial
  <1>4. CutWithin(AbsoluteMax) /\ [ChunkNext]_ckvars => CutWithin(AbsoluteMax)'
    BY <1>1, CutStep
  <1> QED BY <1>2, <1>3, <1>4, PTL DEF ChunkSpec

\* The breadcrumb of every section, split or merged, holds only headings in scope
\* where it starts, for any book and any sizes: HandleEmbed files no text under a
\* heading it does not stand under.
THEOREM ContextHolds == ChunkSpec => []ContextInScope
  <1>1. PICK cap : Roomy(cap)
    BY RoomFor
  <1>2. CutWithin(cap) => ContextInScope
    <2> SUFFICES ASSUME CutWithin(cap), NEW k \in DOMAIN cut.sections, NEW j \in DOMAIN cut.sections[k].bc
                 PROVE  InScope(cut.sections[k].bc[j], cut.sections[k].start)
      BY DEF ContextInScope
    <2>1. cut.sections \in Seq(BookShort(text, cap))
      BY DEF CutWithin
    <2>2. k \in 1..Len(cut.sections)
      BY <2>1, LenProperties
    <2>3. PICK c \in BookShort(text, cap) : c = cut.sections[k]
      BY <2>1, <2>2, ElementOfSeq
    <2>4. ScopeIn(text, c.bc[j], c.start)
      BY <2>3 DEF BookShort, Crumbed
    <2> QED BY <2>3, <2>4 DEF ScopeIn, InScope
  <1>3. ChunkInit => CutWithin(cap)
    BY <1>1, CutInitial
  <1>4. CutWithin(cap) /\ [ChunkNext]_ckvars => CutWithin(cap)'
    BY <1>1, CutStep
  <1> QED BY <1>2, <1>3, <1>4, PTL DEF ChunkSpec

-----------------------------------------------------------------------------
(***************************************************************************)
(* The rows                                                                 *)
(*                                                                          *)
(* Deduping keeps the first of every identity and the links are rewritten to*)
(* what was kept, so identities, seqs and links fit together.               *)
(***************************************************************************)

\* The elements of s differ by what h makes of them.
Spaced(s, h) == \A a, b \in 1..Len(s) : a < b => h[s[a]] # h[s[b]]

\* What is kept of a sequence: how many, and where each was
Placed(k, seq, P, m, g) ==
  /\ m \in Nat /\ Len(k) = m /\ g \in [1..m -> 1..Len(seq)]
  /\ \A j \in 1..m : k[j] = seq[g[j]] /\ g[j] \in P
  /\ \A a, b \in 1..m : a < b => g[a] < g[b]

\* What is kept comes from growing places of the sequence.
LEMMA KeptPlaced ==
  ASSUME NEW S, NEW seq \in Seq(S), NEW P
  PROVE  \E m, g : Placed(Kept(seq, P), seq, P, m, g)
  <1>1. PICK n \in Nat : n = Len(seq)
    BY LenProperties
  <1>2. PICK k : k = Kept(seq, P)
    OBVIOUS
  <1>3. k \in Seq(S) /\ Picks(k, seq, P, n)
    BY <1>1, <1>2, KeptPicks
  <1>4. PICK m \in 0..n : \E g \in [1..m -> 1..n] :
          /\ k = [j \in 1..m |-> seq[g[j]]]
          /\ \A j \in 1..m : g[j] \in P
          /\ \A i \in 1..n : i \in P => \E j \in 1..m : g[j] = i
          /\ \A a, b \in 1..m : a < b => g[a] < g[b]
    BY <1>3 DEF Picks
  <1>5. PICK g \in [1..m -> 1..n] :
          /\ k = [j \in 1..m |-> seq[g[j]]]
          /\ \A j \in 1..m : g[j] \in P
          /\ \A i \in 1..n : i \in P => \E j \in 1..m : g[j] = i
          /\ \A a, b \in 1..m : a < b => g[a] < g[b]
    BY <1>4
  <1>6. m \in Nat /\ DOMAIN k = 1..m
    BY <1>5
  <1>7. Len(k) = m
    BY <1>3, <1>6, LenProperties
  <1>8. Placed(k, seq, P, m, g)
    BY <1>1, <1>5, <1>6, <1>7 DEF Placed
  <1> QED BY <1>2, <1>8

\* The first of those with one hash differ in it.
LEMMA FirstSpaced ==
  ASSUME NEW S, NEW seq \in Seq(S), NEW h, NEW hash, \A i \in 1..Len(seq) : hash[i] = h[seq[i]]
  PROVE  FirstOf(seq, hash) \in Seq(S) /\ Spaced(FirstOf(seq, hash), h)
  <1>1. PICK n \in Nat : n = Len(seq) /\ DOMAIN seq = 1..n
    BY LenProperties
  <1>2. PICK P, k : P = {i \in 1..n : \A j \in 1..(i-1) : hash[j] # hash[i]} /\ k = Kept(seq, P)
    OBVIOUS
  <1>3. FirstOf(seq, hash) = k
    BY <1>1, <1>2 DEF FirstOf
  <1>4. PICK m, g : Placed(k, seq, P, m, g)
    BY <1>2, KeptPlaced
  <1>5. ASSUME NEW a \in 1..Len(k), NEW b \in 1..Len(k), a < b PROVE h[k[a]] # h[k[b]]
    <2>1. a \in 1..m /\ b \in 1..m
      BY <1>4 DEF Placed
    <2>2. PICK i \in 1..n, j \in 1..n : i = g[a] /\ j = g[b]
      BY <1>1, <1>4, <2>1 DEF Placed
    <2>3. i < j /\ j \in P /\ k[a] = seq[i] /\ k[b] = seq[j]
      BY <1>4, <1>5, <2>1, <2>2 DEF Placed
    <2>4. i \in 1..(j-1)
      BY <2>3
    <2>5. hash[i] # hash[j]
      BY <1>2, <2>3, <2>4
    <2> QED BY <1>1, <2>3, <2>5
  <1>6. Spaced(k, h)
    BY <1>5 DEF Spaced
  <1>7. k \in Seq(S)
    BY <1>2, KeptPicks
  <1> QED BY <1>3, <1>6, <1>7

\* What is kept of elements that differ differs.
LEMMA KeptSpaced ==
  ASSUME NEW S, NEW seq \in Seq(S), NEW h, Spaced(seq, h), NEW P
  PROVE  Kept(seq, P) \in Seq(S) /\ Spaced(Kept(seq, P), h)
  <1>1. PICK n \in Nat : n = Len(seq)
    BY LenProperties
  <1>2. PICK k : k = Kept(seq, P)
    OBVIOUS
  <1>3. PICK m, g : Placed(k, seq, P, m, g)
    BY <1>2, KeptPlaced
  <1>4. ASSUME NEW a \in 1..Len(k), NEW b \in 1..Len(k), a < b PROVE h[k[a]] # h[k[b]]
    <2>1. a \in 1..m /\ b \in 1..m
      BY <1>3 DEF Placed
    <2>2. PICK i \in 1..n, j \in 1..n : i = g[a] /\ j = g[b]
      BY <1>1, <1>3, <2>1 DEF Placed
    <2>3. i < j /\ k[a] = seq[i] /\ k[b] = seq[j]
      BY <1>3, <1>4, <2>1, <2>2 DEF Placed
    <2> QED BY <1>1, <2>3 DEF Spaced
  <1>5. Spaced(k, h)
    BY <1>4 DEF Spaced
  <1>6. k \in Seq(S)
    BY <1>2, KeptPicks
  <1> QED BY <1>2, <1>5, <1>6

\* The values of two functions on ranks differ, from each other too.
Apart(f, g, n, m) ==
  /\ \A a, b \in 1..n : a < b => f[a] # f[b]
  /\ \A a, b \in 1..m : a < b => g[a] # g[b]
  /\ \A a \in 1..n : \A b \in 1..m : f[a] # g[b]

\* The identities two listings give.
IdsTogether(f, g, n, m) == {f[a] : a \in 1..n} \cup {g[b] : b \in 1..m}

\* Then there are as many as there are ranks.
LEMMA IdsOfBoth ==
  ASSUME NEW W, NEW n \in Nat, NEW m \in Nat, NEW f \in [1..n -> W], NEW g \in [1..m -> W],
         Apart(f, g, n, m)
  PROVE  Cardinality(IdsTogether(f, g, n, m)) = n + m
  <1> USE DEF Apart, IdsTogether
  <1>1. PICK l \in Nat : l = n + m
    OBVIOUS
  <1>2. PICK p : p = [i \in 1..l |-> IF i <= n THEN f[i] ELSE g[i-n]]
    OBVIOUS
  <1>3. \A i \in 1..n : i \in 1..l /\ p[i] = f[i]
    BY <1>1, <1>2
  <1>4. \A i \in 1..m : n + i \in 1..l /\ p[n+i] = g[i]
    <2> SUFFICES ASSUME NEW i \in 1..m PROVE n + i \in 1..l /\ p[n+i] = g[i]
      OBVIOUS
    <2>1. n + i \in 1..l /\ ~(n + i <= n) /\ (n + i) - n = i
      BY <1>1
    <2> QED BY <1>2, <2>1
  <1>5. \A i \in 1..l : i \in 1..n \/ \E j \in 1..m : i = n + j
    <2> SUFFICES ASSUME NEW i \in 1..l, i \notin 1..n PROVE \E j \in 1..m : i = n + j
      OBVIOUS
    <2>1. i - n \in 1..m /\ i = n + (i - n)
      BY <1>1
    <2> QED BY <2>1
  <1>6. p = [i \in 1..l |-> p[i]] /\ DOMAIN p = 1..l
    BY <1>2
  <1>7. ASSUME NEW i \in 1..l PROVE p[i] \in W
    <2>1. CASE i \in 1..n
      <3>1. p[i] = f[i] /\ f[i] \in W
        BY <1>3, <2>1
      <3> QED BY <3>1
    <2>2. CASE i \notin 1..n
      <3>1. PICK j \in 1..m : i = n + j
        BY <1>5, <2>2
      <3>2. p[i] = g[j] /\ g[j] \in W
        BY <1>4, <3>1
      <3> QED BY <3>2
    <2> QED BY <2>1, <2>2
  <1>8. p \in Seq(W)
    BY <1>6, <1>7, Listed
  <1>9. Len(p) = l
    BY <1>6, <1>8, LenProperties
  <1>10. ASSUME NEW i \in 1..l, NEW j \in 1..l, i < j PROVE p[i] # p[j]
    <2>1. CASE j \in 1..n
      <3>1. i \in 1..n
        BY <1>10, <2>1
      <3> QED BY <1>3, <1>10, <2>1, <3>1
    <2>2. CASE j \notin 1..n
      <3>1. PICK b \in 1..m : j = n + b
        BY <1>5, <2>2
      <3>2. CASE i \in 1..n
        BY <1>3, <1>4, <3>1, <3>2, ZenonT(60)
      <3>3. CASE i \notin 1..n
        <4>1. PICK a \in 1..m : i = n + a
          BY <1>5, <3>3
        <4>2. a < b
          BY <1>10, <3>1, <4>1
        <4> QED BY <1>4, <3>1, <4>1, <4>2, ZenonT(60)
      <3> QED BY <3>2, <3>3
    <2> QED BY <2>1, <2>2
  <1>11. Distinct(p)
    <2> SUFFICES ASSUME NEW i \in 1..l, NEW j \in 1..l, i # j PROVE p[i] # p[j]
      BY <1>6 DEF Distinct
    <2>1. i < j \/ j < i
      OBVIOUS
    <2> QED BY <1>10, <2>1
  <1>12. Cardinality(ToSet(p)) = l
    BY <1>8, <1>9, <1>11, PageSize
  <1>13. ToSet(p) = {f[a] : a \in 1..n} \cup {g[b] : b \in 1..m}
    <2>1. \A x \in ToSet(p) : x \in {f[a] : a \in 1..n} \cup {g[b] : b \in 1..m}
      <3> SUFFICES ASSUME NEW i \in 1..l PROVE p[i] \in {f[a] : a \in 1..n} \cup {g[b] : b \in 1..m}
        BY <1>6 DEF ToSet
      <3>1. CASE i \in 1..n
        <4>1. p[i] = f[i]
          BY <1>3, <3>1
        <4> QED BY <3>1, <4>1
      <3>2. CASE i \notin 1..n
        <4>1. PICK j \in 1..m : i = n + j
          BY <1>5, <3>2
        <4>2. p[i] = g[j]
          BY <1>4, <4>1
        <4> QED BY <4>2
      <3> QED BY <3>1, <3>2
    <2>2. \A a \in 1..n : f[a] \in ToSet(p)
      BY <1>3, <1>6 DEF ToSet
    <2>3. \A b \in 1..m : g[b] \in ToSet(p)
      BY <1>4, <1>6 DEF ToSet
    <2> QED BY <2>1, <2>2, <2>3
  <1> QED BY <1>1, <1>12, <1>13

\* Parents numbered from 0, children after them
LEMMA SeqsOfBoth ==
  ASSUME NEW n \in Nat, NEW m \in Nat
  PROVE  {i - 1 : i \in 1..n} \cup {KidSeq(n, i) : i \in 1..m} = 0..(n + m - 1)
  <1>1. ASSUME NEW x \in 0..(n + m - 1) PROVE x \in {i - 1 : i \in 1..n} \cup {KidSeq(n, i) : i \in 1..m}
    <2>1. CASE x < n
      <3>1. x + 1 \in 1..n /\ x = (x + 1) - 1
        BY <2>1
      <3> QED BY <3>1
    <2>2. CASE ~(x < n)
      <3>1. PICK i \in 1..m : i = x - n + 1
        BY <2>2
      <3>2. x = KidSeq(n, i)
        BY <3>1 DEF KidSeq
      <3> QED BY <3>2
    <2> QED BY <2>1, <2>2
  <1>2. \A i \in 1..n : i - 1 \in 0..(n + m - 1)
    OBVIOUS
  <1>3. \A i \in 1..m : KidSeq(n, i) \in 0..(n + m - 1)
    BY DEF KidSeq
  <1> QED BY <1>1, <1>2, <1>3

\* Numbering what is left resolves: DedupeBook from any cut.
LEMMA DedupeResolves ==
  ASSUME NEW cap \in Caps, CutWithin(cap), DedupeBook
  PROVE  RowsResolve'
  <1> DEFINE h  == [c \in ShortSet(cap) |-> Words(c.content)]
             hk == [c \in KidSet(cap) |-> Words(c.chunk.content)]
  <1> DEFINE pOf == [i \in DOMAIN cut.parents |-> Words(cut.parents[i].content)]
             cOf == [i \in DOMAIN cut.children |-> Words(cut.children[i].chunk.content)]
             pRows == FirstOf(cut.parents, pOf)
             taken == {Words(pRows[i].content) : i \in DOMAIN pRows}
             cRows == CrossDrop(FirstOf(cut.children, cOf), taken)
  <1>0. /\ parents' = [i \in DOMAIN pRows |-> [id |-> Words(pRows[i].content), seq |-> i - 1]]
        /\ kids' = [i \in DOMAIN cRows |-> [id |-> Words(cRows[i].chunk.content),
                                             seq |-> KidSeq(Len(pRows), i),
                                             parent |-> Link(cRows[i], taken)]]
    BY DEF DedupeBook
  <1>1. PICK P, C : P = cut.parents /\ C = cut.children
    OBVIOUS
  <1>2. P \in Seq(ShortSet(cap)) /\ C \in Seq(KidSet(cap))
    BY <1>1 DEF CutWithin, CutSet
  <1>3. PICK pWords, cWords : /\ pWords = [i \in DOMAIN P |-> Words(P[i].content)]
                              /\ cWords = [i \in DOMAIN C |-> Words(C[i].chunk.content)]
    OBVIOUS
  <1>30. pWords = pOf /\ cWords = cOf
    BY <1>1, <1>3
  <1> HIDE DEF pOf, cOf
  <1>4. PICK ps, fs : ps = FirstOf(P, pWords) /\ fs = FirstOf(C, cWords)
    OBVIOUS
  <1>40. ps = pRows
    BY <1>1, <1>4, <1>30
  <1> HIDE DEF pRows
  <1>5. PICK hashes : hashes = {Words(ps[i].content) : i \in DOMAIN ps}
    OBVIOUS
  <1>6. PICK cs : cs = CrossDrop(fs, hashes)
    OBVIOUS
  <1>7. /\ parents' = [i \in DOMAIN ps |-> [id |-> Words(ps[i].content), seq |-> i - 1]]
        /\ kids' = [i \in DOMAIN cs |-> [id |-> Words(cs[i].chunk.content), seq |-> KidSeq(Len(ps), i),
                                          parent |-> Link(cs[i], hashes)]]
    <2>1. hashes = taken
      BY <1>5, <1>40
    <2> HIDE DEF taken
    <2>2. cs = cRows
      BY <1>1, <1>4, <1>6, <1>30, <2>1
    <2> HIDE DEF cRows
    <2> QED BY <1>0, <1>40, <2>1, <2>2
  <1> HIDE DEF taken, cRows
  <1>8. ps \in Seq(ShortSet(cap)) /\ Spaced(ps, h)
    <2>1. \A i \in 1..Len(P) : pWords[i] = h[P[i]]
      <3> SUFFICES ASSUME NEW i \in 1..Len(P) PROVE pWords[i] = h[P[i]]
        OBVIOUS
      <3>1. P[i] \in ShortSet(cap) /\ i \in DOMAIN P
        BY <1>2, ElementOfSeq, LenProperties
      <3> QED BY <1>3, <3>1
    <2> HIDE DEF h
    <2> QED BY <1>2, <1>4, <2>1, FirstSpaced
  <1>9. fs \in Seq(KidSet(cap)) /\ Spaced(fs, hk)
    <2>1. \A i \in 1..Len(C) : cWords[i] = hk[C[i]]
      <3> SUFFICES ASSUME NEW i \in 1..Len(C) PROVE cWords[i] = hk[C[i]]
        OBVIOUS
      <3>1. C[i] \in KidSet(cap) /\ i \in DOMAIN C
        BY <1>2, ElementOfSeq, LenProperties
      <3> QED BY <1>3, <3>1
    <2> HIDE DEF hk
    <2> QED BY <1>2, <1>4, <2>1, FirstSpaced
  <1>10. PICK D : D = {i \in DOMAIN fs : Words(fs[i].chunk.content) \notin hashes}
    OBVIOUS
  <1>11. cs = Kept(fs, D)
    BY <1>6, <1>10 DEF CrossDrop
  <1>12. cs \in Seq(KidSet(cap)) /\ Spaced(cs, hk)
    <2> HIDE DEF hk
    <2> QED BY <1>9, <1>11, KeptSpaced
  <1>13. PICK n \in Nat, m \in Nat : n = Len(ps) /\ DOMAIN ps = 1..n /\ m = Len(cs) /\ DOMAIN cs = 1..m
    BY <1>8, <1>12, LenProperties
  <1>14. ASSUME NEW i \in 1..n PROVE ps[i] \in ShortSet(cap) /\ h[ps[i]] = Words(ps[i].content)
    <2>1. ps[i] \in ShortSet(cap)
      BY <1>8, <1>13, ElementOfSeq
    <2> QED BY <2>1
  <1>15. ASSUME NEW i \in 1..m PROVE cs[i] \in KidSet(cap) /\ hk[cs[i]] = Words(cs[i].chunk.content)
    <2>1. cs[i] \in KidSet(cap)
      BY <1>12, <1>13, ElementOfSeq
    <2> QED BY <2>1
  <1>16. ASSUME NEW i \in 1..m PROVE Words(cs[i].chunk.content) \notin hashes
    <2>1. PICK l, g : Placed(cs, fs, D, l, g)
      BY <1>9, <1>11, KeptPlaced
    <2>2. i \in 1..l
      BY <1>13, <2>1 DEF Placed
    <2>3. g[i] \in D /\ cs[i] = fs[g[i]]
      BY <2>1, <2>2 DEF Placed
    <2> QED BY <1>10, <2>3
  <1> HIDE DEF h, hk
  <1>17. PICK f, k : /\ f = [i \in 1..n |-> Words(ps[i].content)]
                     /\ k = [i \in 1..m |-> Words(cs[i].chunk.content)]
    OBVIOUS
  <1> DEFINE W == {f[i] : i \in 1..n} \cup {k[i] : i \in 1..m}
  <1>18. Cardinality(W) = n + m
    <2>1. f \in [1..n -> W] /\ k \in [1..m -> W]
      BY <1>17
    <2>2. ASSUME NEW a \in 1..n, NEW b \in 1..n, a < b PROVE f[a] # f[b]
      <3>1. h[ps[a]] # h[ps[b]]
        BY <1>8, <1>13, <2>2 DEF Spaced
      <3> QED BY <1>14, <1>17, <3>1
    <2>3. ASSUME NEW a \in 1..m, NEW b \in 1..m, a < b PROVE k[a] # k[b]
      <3>1. hk[cs[a]] # hk[cs[b]]
        BY <1>12, <1>13, <2>3 DEF Spaced
      <3> QED BY <1>15, <1>17, <3>1
    <2>4. ASSUME NEW a \in 1..n, NEW b \in 1..m PROVE f[a] # k[b]
      <3>1. f[a] \in hashes
        BY <1>5, <1>13, <1>17
      <3>2. k[b] \notin hashes
        BY <1>16, <1>17
      <3> QED BY <3>1, <3>2
    <2>5. PICK V : V = W
      OBVIOUS
    <2>6. Cardinality({f[a] : a \in 1..n} \cup {k[b] : b \in 1..m}) = n + m
      <3>1. f \in [1..n -> V] /\ k \in [1..m -> V]
        BY <2>1, <2>5
      <3>2. Apart(f, k, n, m)
        <4> HIDE DEF W
        <4> QED BY <2>2, <2>3, <2>4 DEF Apart
      <3> HIDE DEF W
      <3>3. Cardinality(IdsTogether(f, k, n, m)) = n + m
        BY <3>1, <3>2, IdsOfBoth, ZenonT(60)
      <3> QED BY <3>3 DEF IdsTogether
    <2> QED BY <2>6
  <1>19. PICK p, q : p = parents' /\ q = kids'
    OBVIOUS
  <1>20. /\ p = [i \in 1..n |-> [id |-> f[i], seq |-> i - 1]]
         /\ q = [i \in 1..m |-> [id |-> k[i], seq |-> KidSeq(n, i), parent |-> Link(cs[i], hashes)]]
    BY <1>7, <1>13, <1>17, <1>19
  <1>21. /\ DOMAIN p = 1..n /\ DOMAIN q = 1..m
         /\ \A i \in 1..n : p[i].id = f[i] /\ p[i].seq = i - 1
         /\ \A i \in 1..m : q[i].id = k[i] /\ q[i].seq = KidSeq(n, i) /\ q[i].parent = Link(cs[i], hashes)
    BY <1>20
  <1>22. Len(p) = n /\ Len(q) = m
    BY <1>13, <1>21
  <1>23. Ids(p) = {f[i] : i \in 1..n} /\ Ids(q) = {k[i] : i \in 1..m}
    BY <1>21, ZenonT(60) DEF Ids
  <1>24. {p[i].seq : i \in DOMAIN p} = {i - 1 : i \in 1..n}
         /\ {q[i].seq : i \in DOMAIN q} = {KidSeq(n, i) : i \in 1..m}
    BY <1>21, ZenonT(60)
  <1>25. {p[i].seq : i \in DOMAIN p} \cup {q[i].seq : i \in DOMAIN q} = 0..(n + m - 1)
    BY <1>24, SeqsOfBoth
  <1>26. ASSUME NEW i \in DOMAIN q PROVE q[i].parent \in Ids(p) \cup {<<>>}
    <2>1. hashes = Ids(p)
      BY <1>5, <1>13, <1>17, <1>23, SMTT(30)
    <2>2. q[i].parent = Link(cs[i], hashes)
      BY <1>21
    <2> QED BY <2>1, <2>2 DEF Link
  <1>27. /\ Cardinality(Ids(p) \cup Ids(q)) = Len(p) + Len(q)
         /\ {p[i].seq : i \in DOMAIN p} \cup {q[i].seq : i \in DOMAIN q} = 0..(Len(p) + Len(q) - 1)
    BY <1>18, <1>22, <1>23, <1>25
  <1>28. RowsResolve' <=> /\ Cardinality(Ids(p) \cup Ids(q)) = Len(p) + Len(q)
                          /\ {p[i].seq : i \in DOMAIN p} \cup {q[i].seq : i \in DOMAIN q}
                               = 0..(Len(p) + Len(q) - 1)
                          /\ \A i \in DOMAIN q : q[i].parent \in Ids(p) \cup {<<>>}
    BY <1>19 DEF RowsResolve, Ids
  <1> QED BY <1>26, <1>27, <1>28, SMTT(40)

\* The rows of a book fit together, whatever the sizes: after the dedupe of each
\* set and across the sets no two have one id or one seq, and every parent link
\* names a row.  ReplaceChunks inserts them under unique keys in one transaction.
THEOREM RowsFitTogether == ChunkSpec => []RowsResolve
  <1>2. PICK cap : Roomy(cap)
    BY RoomFor
  <1> DEFINE I == CutWithin(cap) /\ RowsResolve
  <1>3. ChunkInit => I
    <2> SUFFICES ASSUME ChunkInit PROVE RowsResolve
      BY <1>2, CutInitial
    <2>1. parents = <<>> /\ kids = <<>>
      BY DEF ChunkInit, Opened
    <2>2. Ids(parents) = {} /\ Ids(kids) = {} /\ Len(parents) = 0 /\ Len(kids) = 0
      BY <2>1 DEF Ids
    <2>3. Cardinality(Ids(parents) \cup Ids(kids)) = 0
      BY <2>2, FS_EmptySet
    <2>4. DOMAIN parents = {} /\ DOMAIN kids = {} /\ 0..(0 + 0 - 1) = {}
      BY <2>1
    <2> QED BY <2>2, <2>3, <2>4 DEF RowsResolve
  <1>4. I /\ [ChunkNext]_ckvars => I'
    <2> SUFFICES ASSUME I, [ChunkNext]_ckvars PROVE I'
      OBVIOUS
    <2>1. CutWithin(cap)'
      BY <1>2, CutStep
    <2>2. CASE DedupeBook
      <3>1. cap \in Caps
        BY <1>2 DEF Roomy
      <3> QED BY <2>1, <2>2, <3>1, DedupeResolves
    <2>3. CASE SplitBook \/ UNCHANGED ckvars
      <3>1. parents' = parents /\ kids' = kids
        BY <2>3 DEF SplitBook, ckvars
      <3>2. RowsResolve'
        BY <3>1 DEF RowsResolve, Ids
      <3> QED BY <2>1, <3>2
    <2> QED BY <2>2, <2>3 DEF ChunkNext
  <1>5. I => RowsResolve
    OBVIOUS
  <1> QED BY <1>3, <1>4, <1>5, PTL DEF ChunkSpec

-----------------------------------------------------------------------------
(***************************************************************************)
(* The source of a chunk                                                    *)
(*                                                                          *)
(* What follows the generated prefix of a chunk is the slice of the book it *)
(* says, and every mark that is not blank is in the range of some chunk: the*)
(* units of a chunk follow one another in the text, up to the unit that is  *)
(* to come, with at most an injected header before them.                    *)
(***************************************************************************)

\* A slice whose ends are in order
LEMMA SliceOf ==
  ASSUME NEW S, NEW txt \in Seq(S), NEW a \in Nat, NEW b \in Nat, a <= b, b <= Len(txt)
  PROVE  /\ Slice(txt, a, b) \in Seq(S) /\ Len(Slice(txt, a, b)) = b - a
         /\ \A i \in 1..(b - a) : Slice(txt, a, b)[i] = txt[a+i]
  <1>0. PICK s : s = Slice(txt, a, b)
    OBVIOUS
  <1>1. b \in Int
    OBVIOUS
  <1>2. s \in Seq(S) /\ Len(s) = (IF a < b THEN b - a ELSE 0) /\ \A i \in 1..(b - a) : s[i] = txt[a+i]
    BY <1>0, <1>1, SliceIs
  <1>3. PICK l : l = Len(s)
    OBVIOUS
  <1>4. l = b - a
    BY <1>2, <1>3
  <1> QED BY <1>0, <1>2, <1>3, <1>4

\* Two slices that meet are one.
LEMMA SlicesJoin ==
  ASSUME NEW S, NEW txt \in Seq(S), NEW a \in Nat, NEW b \in Nat, NEW c \in Nat,
         a <= b, b <= c, c <= Len(txt)
  PROVE  Slice(txt, a, b) \o Slice(txt, b, c) = Slice(txt, a, c)
  <1>1. PICK x, y, z : x = Slice(txt, a, b) /\ y = Slice(txt, b, c) /\ z = Slice(txt, a, c)
    OBVIOUS
  <1>2. PICK n \in Nat : n = Len(txt)
    BY LenProperties
  <1>3. /\ x \in Seq(S) /\ Len(x) = b - a /\ \A i \in 1..(b - a) : x[i] = txt[a+i]
        /\ y \in Seq(S) /\ Len(y) = c - b /\ \A i \in 1..(c - b) : y[i] = txt[b+i]
        /\ z \in Seq(S) /\ Len(z) = c - a /\ \A i \in 1..(c - a) : z[i] = txt[a+i]
    <2>1. b <= Len(txt) /\ a <= c
      BY <1>2
    <2> QED BY <1>1, <2>1, SliceOf, ZenonT(60)
  <1>4. PICK k \in Nat, l \in Nat : k = b - a /\ l = c - b
    OBVIOUS
  <1>5. PICK g : g = Glue(x, y)
    OBVIOUS
  <1> DEFINE J(m, p) == /\ g \in Seq(S) /\ Len(g) = m + p
                        /\ \A i \in 1..(m + p) : g[i] = IF i <= m THEN x[i] ELSE y[i-m]
  <1>6. J(k, l)
    <2>1. Len(x) = k /\ Len(y) = l
      BY <1>3, <1>4
    <2>2. J(Len(x), Len(y))
      <3>1. x \in Seq(S) /\ y \in Seq(S)
        BY <1>3
      <3>2. /\ Glue(x, y) \in Seq(S) /\ Len(Glue(x, y)) = Len(x) + Len(y)
            /\ \A i \in 1..(Len(x) + Len(y)) : Glue(x, y)[i] = IF i <= Len(x) THEN x[i] ELSE y[i - Len(x)]
        BY <3>1, GlueIs
      <3> QED BY <1>5, <3>2
    <2> HIDE DEF J
    <2> QED BY <2>1, <2>2
  <1>7. ASSUME NEW i \in 1..(k+l) PROVE g[i] = z[i]
    <2>1. i \in 1..(c - a)
      BY <1>4
    <2>2. CASE i <= k
      <3>1. i \in 1..(b - a)
        BY <1>4, <2>2
      <3> QED BY <1>3, <1>6, <2>1, <2>2, <3>1
    <2>3. CASE ~(i <= k)
      <3>1. i - k \in 1..(c - b) /\ b + (i - k) = a + i
        BY <1>4, <2>3
      <3>2. g[i] = y[i-k] /\ y[i-k] = txt[b+(i-k)] /\ z[i] = txt[a+i]
        BY <1>3, <1>6, <2>1, <2>3, <3>1
      <3> QED BY <3>1, <3>2
    <2> QED BY <2>2, <2>3
  <1>8. g = z
    <2>1. Len(g) = Len(z) /\ \A i \in 1..Len(g) : g[i] = z[i]
      BY <1>3, <1>4, <1>6, <1>7
    <2> QED BY <1>3, <1>6, <2>1, SameSeq
  <1> QED BY <1>1, <1>5, <1>8 DEF Glue

\* A slice of a slice
LEMMA SliceOfSlice ==
  ASSUME NEW S, NEW txt \in Seq(S), NEW a \in Nat, NEW b \in Nat, b <= Len(txt),
         NEW c \in Nat, NEW d \in Nat, c <= d, a + d <= b
  PROVE  Slice(Slice(txt, a, b), c, d) = Slice(txt, a + c, a + d)
  <1>1. PICK x, y, z : x = Slice(txt, a, b) /\ y = Slice(x, c, d) /\ z = Slice(txt, a + c, a + d)
    OBVIOUS
  <1>2. PICK n \in Nat, p \in Nat, q \in Nat : n = Len(txt) /\ p = a + c /\ q = a + d
    BY LenProperties
  <1>3. x \in Seq(S) /\ Len(x) = b - a /\ \A i \in 1..(b - a) : x[i] = txt[a+i]
    <2>1. a <= b
      OBVIOUS
    <2> QED BY <1>1, <2>1, SliceOf, ZenonT(60)
  <1>4. y \in Seq(S) /\ Len(y) = d - c /\ \A i \in 1..(d - c) : y[i] = x[c+i]
    <2>1. d <= Len(x) /\ x \in Seq(S)
      BY <1>3
    <2>2. Slice(x, c, d) \in Seq(S) /\ Len(Slice(x, c, d)) = d - c
          /\ \A i \in 1..(d - c) : Slice(x, c, d)[i] = x[c+i]
      BY <2>1, SliceOf, ZenonT(60)
    <2> QED BY ONLY <1>1, <2>2
  <1> DEFINE J(m, k) == z \in Seq(S) /\ Len(z) = k /\ \A i \in 1..k : z[i] = txt[m+i]
  <1>50. J(a + c, d - c)
    <2>1. p <= q /\ q <= Len(txt) /\ q - p = d - c
      BY <1>2
    <2>2. J(p, q - p)
      <3>1. z = Slice(txt, p, q)
        BY <1>1, <1>2
      <3>2. /\ Slice(txt, p, q) \in Seq(S) /\ Len(Slice(txt, p, q)) = q - p
            /\ \A i \in 1..(q - p) : Slice(txt, p, q)[i] = txt[p+i]
        BY <2>1, SliceOf, ZenonT(60)
      <3> QED BY <3>1, <3>2
    <2> HIDE DEF J
    <2> QED BY <1>2, <2>1, <2>2
  <1>5. z \in Seq(S) /\ Len(z) = d - c /\ \A i \in 1..(d - c) : z[i] = txt[(a+c)+i]
    BY <1>50
  <1> HIDE DEF J
  <1>6. ASSUME NEW i \in 1..(d - c) PROVE y[i] = z[i]
    <2>1. c + i \in 1..(b - a) /\ a + (c + i) = (a + c) + i
      OBVIOUS
    <2>2. y[i] = x[c+i] /\ x[c+i] = txt[a+(c+i)] /\ z[i] = txt[(a+c)+i]
      BY <1>3, <1>4, <1>5, <2>1
    <2> QED BY <2>1, <2>2
  <1>7. y = z
    <2>1. Len(y) = Len(z) /\ \A i \in 1..Len(y) : y[i] = z[i]
      BY <1>4, <1>5, <1>6
    <2> QED BY <1>4, <1>5, <2>1, SameSeq
  <1> QED BY <1>1, <1>7

\* The elements between two places
LEMMA Between ==
  ASSUME NEW S, NEW seq \in Seq(S), NEW a \in Nat \ {0}, NEW b \in Nat, b <= Len(seq)
  PROVE  /\ SubSeq(seq, a, b) \in Seq(S)
         /\ Len(SubSeq(seq, a, b)) = (IF a <= b THEN b - a + 1 ELSE 0)
         /\ \A i \in 1..(b - a + 1) : SubSeq(seq, a, b)[i] = seq[a+i-1]
  <1>1. PICK n \in Nat : n = Len(seq)
    BY LenProperties
  <1>2. \A i \in a..b : seq[i] \in S
    <2> SUFFICES ASSUME NEW i \in a..b PROVE seq[i] \in S
      OBVIOUS
    <2>1. i \in 1..Len(seq)
      BY <1>1
    <2> QED BY <2>1, ElementOfSeq
  <1> QED BY <1>2, SubSeqProperties

\* What is kept of an interval is what is between its ends.
LEMMA KeptRange ==
  ASSUME NEW S, NEW seq \in Seq(S), NEW a \in Nat \ {0}, NEW b \in Nat, b <= Len(seq), NEW P, P = a..b
  PROVE  Kept(seq, P) = SubSeq(seq, a, b)
  <1>1. PICK n \in Nat : n = Len(seq)
    BY LenProperties
  <1>2. PICK K \in [0..n -> Seq(S)] : KeptBy(K, seq, P, n)
    BY <1>1, KeptSteps
  <1> DEFINE upto(c) == IF c <= b THEN c ELSE b
             Q == {c \in 0..n : K[c] = SubSeq(seq, a, upto(c))}
  <1>3. 0 \in Q
    <2>1. PICK t, e : t = SubSeq(seq, a, 0) /\ e = <<>>
      OBVIOUS
    <2>2. PICK z \in Nat : z = 0
      OBVIOUS
    <2>3. t \in Seq(S) /\ Len(t) = 0
      <3>1. z <= Len(seq) /\ ~(a <= z)
        BY <1>1, <2>2
      <3> QED BY <2>1, <2>2, <3>1, Between
    <2>4. t = <<>>
      BY <2>3, EmptySeq
    <2>5. K[0] = <<>>
      BY <1>2 DEF KeptBy, Keeping
    <2>6. upto(0) = 0 /\ 0 \in 0..n
      OBVIOUS
    <2> QED BY <2>1, <2>4, <2>5, <2>6
  <1>4. ASSUME NEW c \in 0..(n-1), c \in Q PROVE c + 1 \in Q
    <2>1. PICK d \in 1..n : d = c + 1 /\ d - 1 = c
      OBVIOUS
    <2>2. K[d] = IF d \in P THEN Append(K[c], seq[d]) ELSE K[c]
      BY <1>2, <2>1 DEF KeptBy, Keeping
    <2>3. K[c] = SubSeq(seq, a, upto(c))
      BY <1>4
    <2>4. CASE d > b
      <3>1. d \notin P /\ upto(c) = b /\ upto(d) = b
        BY <2>1, <2>4
      <3>2. d \in 0..n
        OBVIOUS
      <3> HIDE DEF upto
      <3> QED BY <2>1, <2>2, <2>3, <3>1, <3>2
    <2>5. CASE d <= b
      <3>1. upto(c) = c /\ upto(d) = d /\ d \in 0..n /\ c \in Nat /\ d \in Nat /\ c <= Len(seq) /\ d <= Len(seq)
        BY <1>1, <2>1, <2>5
      <3>2. PICK s, t : s = SubSeq(seq, a, c) /\ t = SubSeq(seq, a, d)
        OBVIOUS
      <3>3. /\ s \in Seq(S) /\ Len(s) = (IF a <= c THEN c - a + 1 ELSE 0)
            /\ \A i \in 1..(c - a + 1) : s[i] = seq[a+i-1]
        <4> HIDE DEF upto
        <4>0. c \in Nat /\ c <= Len(seq)
          BY <3>1
        <4>1. /\ SubSeq(seq, a, c) \in Seq(S) /\ Len(SubSeq(seq, a, c)) = (IF a <= c THEN c - a + 1 ELSE 0)
              /\ \A i \in 1..(c - a + 1) : SubSeq(seq, a, c)[i] = seq[a+i-1]
          BY <4>0, Between, SMTT(30)
        <4> QED BY ONLY <3>2, <4>1
      <3>4. /\ t \in Seq(S) /\ Len(t) = (IF a <= d THEN d - a + 1 ELSE 0)
            /\ \A i \in 1..(d - a + 1) : t[i] = seq[a+i-1]
        <4> HIDE DEF upto
        <4>0. d \in Nat /\ d <= Len(seq)
          BY <3>1
        <4>1. /\ SubSeq(seq, a, d) \in Seq(S) /\ Len(SubSeq(seq, a, d)) = (IF a <= d THEN d - a + 1 ELSE 0)
              /\ \A i \in 1..(d - a + 1) : SubSeq(seq, a, d)[i] = seq[a+i-1]
          BY <4>0, Between, SMTT(30)
        <4> QED BY ONLY <3>2, <4>1
      <3>5. CASE d < a
        <4>1. d \notin P /\ Len(s) = 0 /\ Len(t) = 0
          BY <2>1, <3>3, <3>4, <3>5
        <4>2. s = t
          BY <3>3, <3>4, <4>1, EmptySeq
        <4> HIDE DEF upto
        <4> QED BY <2>1, <2>2, <2>3, <3>1, <3>2, <4>1, <4>2
      <3>6. CASE d >= a
        <4>1. d \in P
          BY <2>5, <3>6
        <4>2. PICK l \in Nat : l = Len(s) /\ l + 1 = Len(t) /\ l = d - a
          BY <2>1, <3>3, <3>4, <3>6
        <4>3. PICK v : v = Append(s, seq[d])
          OBVIOUS
        <4>4. seq[d] \in S
          BY <1>1, ElementOfSeq
        <4> DEFINE J(m) == v \in Seq(S) /\ Len(v) = m + 1 /\ (\A i \in 1..m : v[i] = s[i]) /\ v[m+1] = seq[d]
        <4>5. J(l)
          <5>1. J(Len(s))
            <6>1. s \in Seq(S)
              BY <3>3
            <6>2. /\ Append(s, seq[d]) \in Seq(S) /\ Len(Append(s, seq[d])) = Len(s) + 1
                  /\ \A i \in 1..Len(s) : Append(s, seq[d])[i] = s[i]
                  /\ Append(s, seq[d])[Len(s)+1] = seq[d]
              BY <4>4, <6>1, AppendProperties
            <6> QED BY <4>3, <6>2
          <5>2. Len(s) = l
            BY <4>2
          <5> HIDE DEF J
          <5> QED BY <5>1, <5>2
        <4>6. ASSUME NEW i \in 1..(l+1) PROVE v[i] = t[i]
          <5>1. i \in 1..(d - a + 1)
            BY <4>2
          <5>2. t[i] = seq[a+i-1]
            BY <3>4, <5>1
          <5>3. CASE i <= l
            <6>1. i \in 1..l /\ i \in 1..(c - a + 1)
              BY <2>1, <4>2, <5>3
            <6> QED BY <3>3, <4>5, <5>2, <6>1
          <5>4. CASE ~(i <= l)
            <6>1. i = l + 1 /\ a + i - 1 = d
              BY <4>2, <5>4
            <6> QED BY <4>5, <5>2, <6>1
          <5> QED BY <5>3, <5>4
        <4>7. v = t
          <5>1. Len(v) = Len(t) /\ \A i \in 1..Len(v) : v[i] = t[i]
            BY <4>2, <4>5, <4>6
          <5> QED BY <3>4, <4>5, <5>1, SameSeq
        <4> HIDE DEF upto
        <4> QED BY <2>1, <2>2, <2>3, <3>1, <3>2, <4>1, <4>3, <4>7
      <3> QED BY <3>5, <3>6
    <2> QED BY <2>4, <2>5
  <1>5. n \in Q
    <2>1. 0 \in Int /\ n \in Int /\ n \in 0..n
      OBVIOUS
    <2>2. \A c \in 0..n : c \in Q
      <3> HIDE DEF Q
      <3> QED BY <1>3, <1>4, <2>1, IntervalInduction
    <2> QED BY <2>1, <2>2
  <1>6. upto(n) = b
    BY <1>1
  <1>7. Kept(seq, P) = K[n]
    BY <1>2 DEF KeptBy
  <1> HIDE DEF upto
  <1> QED BY <1>5, <1>6, <1>7

\* The unit holds the slice of the text it says.
Source(txt, u) == u.start < u.end /\ u.end <= Len(txt) /\ u.text = Slice(txt, u.start, u.end)

\* Units that follow one another in the text, the last up to the offset to
Linked(txt, us, to) ==
  /\ us \in Seq(UnitSet)
  /\ \A k \in 1..Len(us) : Source(txt, us[k]) /\ us[k].end = IF k = Len(us) THEN to ELSE us[k+1].start

\* The text of such a unit
LEMMA SourceText ==
  ASSUME NEW txt \in Seq(TextMarks), NEW u \in UnitSet, Source(txt, u)
  PROVE  /\ u.text \in Seq(TextMarks) /\ Len(u.text) = u.end - u.start
         /\ u.start \in Nat /\ u.end \in Nat /\ u.start < u.end /\ u.end <= Len(txt)
         /\ \A i \in 1..(u.end - u.start) : u.text[i] = txt[u.start+i]
  <1>1. PICK a \in Nat, b \in Nat : a = u.start /\ b = u.end /\ a < b /\ b <= Len(txt) /\ u.text = Slice(txt, a, b)
    BY DEF UnitSet, Source
  <1>2. a <= b /\ b <= Len(txt)
    BY <1>1
  <1>3. /\ Slice(txt, a, b) \in Seq(TextMarks) /\ Len(Slice(txt, a, b)) = b - a
        /\ \A i \in 1..(b - a) : Slice(txt, a, b)[i] = txt[a+i]
    BY <1>2, SliceOf
  <1> QED BY <1>1, <1>3

\* The units of a chain, one by one
LEMMA ChainHas ==
  ASSUME NEW txt \in Seq(TextMarks), NEW us, NEW to, Linked(txt, us, to), NEW k \in 1..Len(us)
  PROVE  /\ us[k] \in UnitSet /\ Source(txt, us[k])
         /\ us[k].start \in Nat /\ us[k].end \in Nat /\ us[k].start < us[k].end /\ us[k].end <= Len(txt)
         /\ us[k].end = IF k = Len(us) THEN to ELSE us[k+1].start
  <1>1. us \in Seq(UnitSet) /\ Source(txt, us[k]) /\ us[k].end = IF k = Len(us) THEN to ELSE us[k+1].start
    BY DEF Linked
  <1>2. us[k] \in UnitSet
    BY <1>1, UnitHas
  <1> QED BY <1>1, <1>2, SourceText

\* They are in order.
LEMMA ChainOrder ==
  ASSUME NEW txt \in Seq(TextMarks), NEW us, NEW to, Linked(txt, us, to), NEW n \in Nat, n = Len(us)
  PROVE  /\ \A j, k \in 1..n : j < k => us[j].end <= us[k].start
         /\ \A k \in 1..n : us[1].start <= us[k].start /\ us[k].end <= to
  <1> DEFINE Q == {c \in 0..n : \A j, k \in 1..c : j < k => us[j].end <= us[k].start}
  <1>1. 0 \in Q
    OBVIOUS
  <1>2. ASSUME NEW c \in 0..(n-1), c \in Q PROVE c + 1 \in Q
    <2> SUFFICES ASSUME NEW j \in 1..(c+1), NEW k \in 1..(c+1), j < k PROVE us[j].end <= us[k].start
      OBVIOUS
    <2>1. CASE k <= c
      BY <1>2, <2>1
    <2>2. CASE k = c + 1
      <3>1. c \in 1..Len(us) /\ c + 1 \in 1..Len(us) /\ c # Len(us) /\ j \in 1..c
        BY <2>2
      <3>2. us[c].end = us[c+1].start /\ us[c].start < us[c].end /\ us[c].start \in Nat /\ us[c].end \in Nat
        BY <3>1, ChainHas
      <3>3. CASE j = c
        BY <2>2, <3>2, <3>3
      <3>4. CASE j < c
        <4>1. us[j].end <= us[c].start
          BY <1>2, <3>1, <3>4
        <4>2. j \in 1..Len(us)
          BY <3>1
        <4>3. us[j].end \in Nat
          BY <4>2, ChainHas
        <4> QED BY <2>2, <3>2, <4>1, <4>3
      <3> QED BY <3>1, <3>3, <3>4
    <2> QED BY <2>1, <2>2
  <1>3. n \in Q
    <2>1. 0 \in Int /\ n \in Int /\ n \in 0..n
      OBVIOUS
    <2>2. \A c \in 0..n : c \in Q
      <3> HIDE DEF Q
      <3> QED BY <1>1, <1>2, <2>1, IntervalInduction
    <2> QED BY <2>1, <2>2
  <1>4. \A j, k \in 1..n : j < k => us[j].end <= us[k].start
    BY <1>3
  <1>5. ASSUME NEW k \in 1..n PROVE us[1].start <= us[k].start /\ us[k].end <= to
    <2>1. 1 \in 1..Len(us) /\ n \in 1..Len(us) /\ k \in 1..Len(us) /\ n = Len(us)
      OBVIOUS
    <2>2. us[1].start \in Nat /\ us[1].end \in Nat /\ us[1].start < us[1].end
      BY <2>1, ChainHas
    <2>3. us[n].start \in Nat /\ us[n].end \in Nat /\ us[n].start < us[n].end /\ us[n].end = to
      BY <2>1, ChainHas
    <2>4. us[k].start \in Nat /\ us[k].end \in Nat /\ us[k].start < us[k].end
      BY <2>1, ChainHas
    <2>5. us[1].start <= us[k].start
      <3>1. CASE k = 1
        BY <2>4, <3>1
      <3>2. CASE k # 1
        <4>1. us[1].end <= us[k].start
          BY <1>4, <3>2
        <4> QED BY <2>2, <2>4, <4>1
      <3> QED BY <3>1, <3>2
    <2>6. us[k].end <= to
      <3>1. CASE k = n
        BY <2>3, <2>4, <3>1
      <3>2. CASE k # n
        <4>1. us[k].end <= us[n].start
          BY <1>4, <3>2
        <4> QED BY <2>3, <2>4, <4>1
      <3> QED BY <3>1, <3>2
    <2> QED BY <2>5, <2>6
  <1> QED BY <1>4, <1>5

\* Their text is one slice.
LEMMA ChainText ==
  ASSUME NEW txt \in Seq(TextMarks), NEW us, NEW to, Linked(txt, us, to), us # <<>>
  PROVE  /\ us[1].start \in Nat /\ to \in Nat /\ us[1].start < to /\ to <= Len(txt)
         /\ TextOf(us) = Slice(txt, us[1].start, to) /\ RunesOf(us) = to - us[1].start
  <1>0. us \in Seq(UnitSet)
    BY DEF Linked
  <1>1. PICK n \in Nat \ {0} : n = Len(us)
    <2>1. Len(us) \in Nat /\ Len(us) # 0
      BY <1>0, EmptySeq, LenProperties
    <2> QED BY <2>1
  <1>2. PICK f \in [0..n -> Seq(TextMarks)] : Joining(f, us, n) /\ TextOf(us) = f[n]
    BY <1>0, <1>1, TextJoins
  <1>3. 1 \in 1..Len(us) /\ n \in 1..Len(us)
    BY <1>1
  <1>4. PICK a \in Nat : a = us[1].start
    BY <1>3, ChainHas
  <1>5. us[n].end = to /\ us[n].end \in Nat /\ us[n].end <= Len(txt) /\ us[n].start \in Nat /\ us[n].start < us[n].end
    BY <1>1, <1>3, ChainHas
  <1>6. \A k \in 1..n : a <= us[k].start
    BY <1>1, <1>4, ChainOrder
  <1> DEFINE Q == {c \in 1..n : f[c] = Slice(txt, a, us[c].end)}
  <1>7. 1 \in Q
    <2>1. f[1] = f[0] \o us[1].text /\ f[0] = <<>>
      <3>1. PICK d \in 1..n : d = 1 /\ d - 1 = 0
        OBVIOUS
      <3>2. f[d] = f[d-1] \o us[d].text /\ f[0] = <<>>
        BY <1>2 DEF Joining
      <3> QED BY <3>1, <3>2
    <2>2. us[1] \in UnitSet /\ Source(txt, us[1])
      BY <1>3, ChainHas
    <2>3. us[1].text \in Seq(TextMarks) /\ us[1].text = Slice(txt, us[1].start, us[1].end)
      BY <2>2, SourceText DEF Source
    <2>4. f[1] = us[1].text
      BY <2>1, <2>3
    <2> QED BY <1>4, <2>3, <2>4
  <1>8. ASSUME NEW c \in 1..(n-1), c \in Q PROVE c + 1 \in Q
    <2>1. PICK d \in 1..n : d = c + 1 /\ d - 1 = c
      OBVIOUS
    <2>2. f[d] = f[c] \o us[d].text
      BY <1>2, <2>1 DEF Joining
    <2>3. c \in 1..Len(us) /\ d \in 1..Len(us) /\ c # Len(us)
      BY <1>1, <2>1
    <2>4. PICK p \in Nat : p = us[c].end /\ us[c].start \in Nat /\ us[c].start < p /\ us[d].start = p
      BY <2>1, <2>3, ChainHas, ZenonT(60)
    <2>5. us[d] \in UnitSet /\ Source(txt, us[d])
      BY <2>3, ChainHas
    <2>6. PICK q \in Nat : q = us[d].end /\ p < q /\ q <= Len(txt) /\ us[d].text = Slice(txt, p, q)
      BY <2>4, <2>5, SourceText DEF Source
    <2>7. PICK z \in Nat : z = us[c].start /\ a <= z /\ z < p
      BY <1>6, <2>4
    <2>8. a <= p /\ p <= q /\ q <= Len(txt)
      <3>1. p < q /\ q <= Len(txt)
        BY <2>6
      <3>2. a <= p /\ p <= q
        BY <2>7, <3>1, SMTT(30)
      <3> QED BY <3>1, <3>2
    <2>9. Slice(txt, a, p) \o Slice(txt, p, q) = Slice(txt, a, q)
      BY <2>8, SlicesJoin
    <2>10. f[c] = Slice(txt, a, p)
      BY <1>8, <2>4
    <2> QED BY <2>1, <2>2, <2>6, <2>9, <2>10
  <1>9. n \in Q
    <2>1. 1 \in Int /\ n \in Int /\ n \in 1..n
      OBVIOUS
    <2>2. \A c \in 1..n : c \in Q
      <3> HIDE DEF Q
      <3> QED BY <1>7, <1>8, <2>1, IntervalInduction
    <2> QED BY <2>1, <2>2
  <1>10. TextOf(us) = Slice(txt, a, to)
    BY <1>2, <1>5, <1>9
  <1>11. PICK b \in Nat : b = to /\ a < b /\ b <= Len(txt)
    <2>1. n \in 1..n
      OBVIOUS
    <2>2. a <= us[n].start
      BY <1>6, <2>1
    <2> QED BY <1>5, <2>2
  <1>12. Len(Slice(txt, a, b)) = b - a
    <2>1. a <= b
      BY <1>11
    <2> QED BY <1>11, <2>1, SliceOf
  <1> QED BY <1>4, <1>10, <1>11, <1>12 DEF RunesOf

\* No units are a chain.
LEMMA NoChain == \A txt, to : Linked(txt, <<>>, to)
  <1> TAKE txt, to
  <1>1. PICK e : e = <<>>
    OBVIOUS
  <1>2. e \in Seq(UnitSet) /\ Len(e) = 0
    BY <1>1
  <1>3. Linked(txt, e, to)
    BY <1>2 DEF Linked
  <1> QED BY <1>1, <1>3

\* The last units of a chain are one.
LEMMA ChainTail ==
  ASSUME NEW txt \in Seq(TextMarks), NEW us, NEW to, Linked(txt, us, to), NEW a \in Nat \ {0}
  PROVE  Linked(txt, SubSeq(us, a, Len(us)), to)
  <1>1. us \in Seq(UnitSet)
    BY DEF Linked
  <1>2. PICK n \in Nat : n = Len(us)
    BY <1>1, LenProperties
  <1>3. PICK t : t = SubSeq(us, a, n)
    OBVIOUS
  <1>4. /\ t \in Seq(UnitSet) /\ Len(t) = (IF a <= n THEN n - a + 1 ELSE 0)
        /\ \A i \in 1..(n - a + 1) : t[i] = us[a+i-1]
    <2>1. n <= Len(us)
      BY <1>2
    <2>2. /\ SubSeq(us, a, n) \in Seq(UnitSet) /\ Len(SubSeq(us, a, n)) = (IF a <= n THEN n - a + 1 ELSE 0)
          /\ \A i \in 1..(n - a + 1) : SubSeq(us, a, n)[i] = us[a+i-1]
      BY <1>1, <2>1, Between
    <2> QED BY <1>3, <2>2
  <1>5. PICK l \in Nat : l = Len(t) /\ \A i \in 1..l : l = n - a + 1
    <2>0. (IF a <= n THEN n - a + 1 ELSE 0) \in Nat
      OBVIOUS
    <2>1. PICK l \in Nat : l = IF a <= n THEN n - a + 1 ELSE 0
      BY <2>0
    <2>2. l = Len(t)
      BY <1>4, <2>1
    <2>3. \A i \in 1..l : l = n - a + 1
      BY <2>1
    <2> QED BY <2>2, <2>3
  <1>6. ASSUME NEW k \in 1..l
        PROVE Source(txt, t[k]) /\ t[k].end = IF k = l THEN to ELSE t[k+1].start
    <2>1. PICK j \in 1..Len(us) : j = a + k - 1
      BY <1>2, <1>5
    <2>2. t[k] = us[j]
      BY <1>4, <1>5, <2>1
    <2>3. us[j].end = (IF j = n THEN to ELSE us[j+1].start) /\ Source(txt, us[j])
      BY <1>2, ChainHas
    <2>4. CASE k = l
      BY <1>5, <2>1, <2>2, <2>3, <2>4, SMTT(30)
    <2>5. CASE k # l
      <3>1. k + 1 \in 1..(n - a + 1) /\ a + (k + 1) - 1 = j + 1 /\ j # n
        BY <1>5, <2>1, <2>5
      <3>2. t[k+1] = us[j+1]
        BY <1>4, <3>1
      <3> QED BY <2>2, <2>3, <2>5, <3>1, <3>2
    <2> QED BY <2>4, <2>5
  <1>7. Linked(txt, t, to)
    BY <1>4, <1>5, <1>6 DEF Linked
  <1> QED BY <1>2, <1>3, <1>7

\* The first are, up to where the last of them ends.
LEMMA ChainFirst ==
  ASSUME NEW txt \in Seq(TextMarks), NEW us, NEW to, Linked(txt, us, to), NEW n \in 1..Len(us)
  PROVE  Linked(txt, SubSeq(us, 1, n), us[n].end)
  <1>1. us \in Seq(UnitSet)
    BY DEF Linked
  <1>2. PICK m \in Nat : m = Len(us)
    BY <1>1, LenProperties
  <1>3. PICK t : t = SubSeq(us, 1, n)
    OBVIOUS
  <1>4. t \in Seq(UnitSet) /\ Len(t) = n /\ \A i \in 1..n : t[i] = us[i]
    <2>1. n \in Nat /\ n <= Len(us)
      BY <1>2
    <2>2. /\ SubSeq(us, 1, n) \in Seq(UnitSet) /\ Len(SubSeq(us, 1, n)) = n
          /\ \A i \in 1..n : SubSeq(us, 1, n)[i] = us[i]
      BY <1>1, <2>1, FirstUnits
    <2> QED BY <1>3, <2>2
  <1>5. ASSUME NEW k \in 1..n
        PROVE Source(txt, t[k]) /\ t[k].end = IF k = n THEN us[n].end ELSE t[k+1].start
    <2>1. k \in 1..Len(us)
      BY <1>2
    <2>2. us[k].end = (IF k = m THEN to ELSE us[k+1].start) /\ Source(txt, us[k])
      BY <1>2, <2>1, ChainHas
    <2>3. CASE k = n
      BY <1>4, <2>2, <2>3
    <2>4. CASE k # n
      <3>1. k + 1 \in 1..n /\ k # m
        BY <1>2, <2>4
      <3> QED BY <1>4, <2>2, <2>4, <3>1
    <2> QED BY <2>3, <2>4
  <1>6. Linked(txt, t, us[n].end)
    BY <1>4, <1>5 DEF Linked
  <1> QED BY <1>3, <1>6

\* And with the unit that comes next.
LEMMA ChainMore ==
  ASSUME NEW txt \in Seq(TextMarks), NEW us, NEW u \in UnitSet, Source(txt, u), Linked(txt, us, u.start)
  PROVE  Linked(txt, Append(us, u), u.end)
  <1>1. us \in Seq(UnitSet)
    BY DEF Linked
  <1>2. PICK n \in Nat : n = Len(us)
    BY <1>1, LenProperties
  <1>3. PICK t : t = Append(us, u)
    OBVIOUS
  <1>4. t \in Seq(UnitSet) /\ Len(t) = n + 1 /\ (\A i \in 1..n : t[i] = us[i]) /\ t[n+1] = u
    BY <1>1, <1>2, <1>3, AppendProperties
  <1>5. ASSUME NEW k \in 1..(n+1)
        PROVE Source(txt, t[k]) /\ t[k].end = IF k = n + 1 THEN u.end ELSE t[k+1].start
    <2>1. CASE k = n + 1
      BY <1>4, <2>1
    <2>2. CASE k <= n
      <3>1. k \in 1..Len(us)
        BY <1>2, <2>2
      <3>2. us[k].end = (IF k = n THEN u.start ELSE us[k+1].start) /\ Source(txt, us[k])
        BY <1>2, <3>1, ChainHas
      <3>3. CASE k = n
        BY <1>4, <3>2, <3>3
      <3>4. CASE k # n
        <4>1. k \in 1..n /\ k + 1 \in 1..n
          BY <2>2, <3>4
        <4> QED BY <1>4, <3>2, <3>4, <4>1
      <3> QED BY <3>3, <3>4
    <2> QED BY <2>1, <2>2
  <1>6. Linked(txt, t, u.end)
    BY <1>4, <1>5 DEF Linked
  <1> QED BY <1>3, <1>6

\* What a cut leaves of a unit
LEMMA PartIs ==
  ASSUME NEW txt \in Seq(TextMarks), NEW u \in UnitSet, Source(txt, u), NEW c \in Nat,
         NEW p, p = [text |-> Slice(u.text, c, Len(u.text)), start |-> u.start + c, end |-> u.end]
  PROVE  /\ p \in UnitSet /\ p.start = u.start + c /\ p.end = u.end
         /\ (p.text # <<>>) <=> (u.start + c < u.end)
         /\ p.text # <<>> => Source(txt, p)
  <1>1. PICK a \in Nat, b \in Nat : a = u.start /\ b = u.end /\ a < b /\ b <= Len(txt)
    BY SourceText
  <1>2. PICK v \in Seq(TextMarks) : v = u.text /\ v = Slice(txt, a, b)
    BY <1>1, SourceText DEF Source
  <1>3. PICK l \in Nat : l = Len(v) /\ l = b - a
    <2>1. Len(u.text) = u.end - u.start
      BY SourceText
    <2> QED BY <1>1, <1>2, <2>1
  <1>4. PICK t : t = Slice(v, c, l)
    OBVIOUS
  <1>5. t \in Seq(TextMarks) /\ Len(t) = (IF c < l THEN l - c ELSE 0)
    <2>1. l \in Int /\ l <= Len(v)
      BY <1>3
    <2>2. Slice(v, c, l) \in Seq(TextMarks) /\ Len(Slice(v, c, l)) = (IF c < l THEN l - c ELSE 0)
      BY <2>1, SliceIs
    <2> QED BY <1>4, <2>2
  <1>6. p = [text |-> t, start |-> a + c, end |-> b] /\ a + c \in Nat
    BY <1>1, <1>2, <1>3, <1>4
  <1>7. p \in UnitSet
    BY <1>5, <1>6 DEF UnitSet
  <1>8. (t # <<>>) <=> (a + c < b)
    <2>1. (t # <<>>) <=> (Len(t) # 0)
      BY <1>5, EmptySeq
    <2> QED BY <1>3, <1>5, <2>1
  <1>9. ASSUME a + c < b PROVE t = Slice(txt, a + c, b)
    <2>1. c <= l /\ a + l <= b /\ a + l = b
      BY <1>3, <1>9
    <2>2. b <= Len(txt)
      BY <1>1
    <2>3. Slice(Slice(txt, a, b), c, l) = Slice(txt, a + c, a + l)
      BY <2>1, <2>2, SliceOfSlice
    <2> QED BY <1>2, <1>4, <2>1, <2>3
  <1>10. a + c < b => Source(txt, p)
    BY <1>1, <1>6, <1>9 DEF Source
  <1> QED BY <1>1, <1>6, <1>7, <1>8, <1>10

\* How many marks of a chain come before one of its units
LEMMA ChainBefore ==
  ASSUME NEW txt \in Seq(TextMarks), NEW us, NEW to, Linked(txt, us, to), NEW k \in 1..Len(us)
  PROVE  RunesOf(SubSeq(us, 1, k - 1)) = us[k].start - us[1].start
  <1>1. us \in Seq(UnitSet)
    BY DEF Linked
  <1>2. PICK n \in Nat : n = Len(us)
    BY <1>1, LenProperties
  <1>3. PICK j \in Nat : j = k - 1 /\ j <= n
    BY <1>2
  <1>4. PICK t : t = SubSeq(us, 1, j)
    OBVIOUS
  <1>5. t \in Seq(UnitSet) /\ Len(t) = j /\ \A i \in 1..j : t[i] = us[i]
    <2>1. j <= Len(us)
      BY <1>2, <1>3
    <2>2. /\ SubSeq(us, 1, j) \in Seq(UnitSet) /\ Len(SubSeq(us, 1, j)) = j
          /\ \A i \in 1..j : SubSeq(us, 1, j)[i] = us[i]
      BY <1>1, <2>1, FirstUnits
    <2> QED BY <1>4, <2>2
  <1>6. us[k].start \in Nat
    BY ChainHas
  <1>7. CASE j = 0
    <2>1. t = <<>> /\ k = 1
      BY <1>3, <1>5, <1>7, EmptySeq
    <2>2. RunesOf(t) = 0 /\ t = SubSeq(us, 1, k - 1)
      BY <1>3, <1>4, <2>1, NoText
    <2>3. us[k].start - us[1].start = 0
      BY <1>6, <2>1
    <2> QED BY <2>2, <2>3
  <1>8. CASE j # 0
    <2>1. j \in 1..Len(us) /\ j + 1 = k /\ j # Len(us)
      BY <1>2, <1>3, <1>8
    <2>2. us[j].end = us[k].start
      BY <2>1, ChainHas
    <2>3. Linked(txt, SubSeq(us, 1, j), us[j].end)
      BY <2>1, ChainFirst
    <2>4. Linked(txt, t, us[k].start)
      BY <1>4, <2>2, <2>3
    <2>5. t # <<>> /\ t[1] = us[1]
      <3>1. t # <<>>
        BY <1>5, <1>8, EmptySeq
      <3>2. 1 \in 1..j
        BY <1>8
      <3> QED BY <1>5, <3>1, <3>2
    <2>6. RunesOf(t) = us[k].start - t[1].start
      BY <2>4, <2>5, ChainText
    <2> QED BY <1>3, <1>4, <2>5, <2>6
  <1> QED BY <1>7, <1>8

\* A chain without its first marks is one.
LEMMA ChainTrim ==
  ASSUME NEW txt \in Seq(TextMarks), NEW us, NEW to, Linked(txt, us, to), NEW r \in Int
  PROVE  Linked(txt, TrimPrefix(us, r), to)
  <1> DEFINE part(u, c) == [text |-> Slice(u.text, c, Len(u.text)), start |-> u.start + c, end |-> u.end]
             skip(k)    == Most(0, r - RunesOf(SubSeq(us, 1, k-1)))
             parts      == [k \in DOMAIN us |-> part(us[k], skip(k))]
  <1>1. PICK ps : ps = parts
    OBVIOUS
  <1>2. PICK P : P = {k \in DOMAIN ps : ps[k].text # <<>>}
    OBVIOUS
  <1>3. TrimPrefix(us, r) = Kept(ps, P)
    BY <1>1, <1>2 DEF TrimPrefix
  <1>4. us \in Seq(UnitSet)
    BY DEF Linked
  <1>5. PICK n \in Nat : n = Len(us) /\ DOMAIN us = 1..n
    BY <1>4, LenProperties
  <1>6. DOMAIN ps = 1..n /\ ps = [k \in 1..n |-> ps[k]] /\ \A k \in 1..n : ps[k] = part(us[k], skip(k))
    <2> HIDE DEF part, skip
    <2> QED BY <1>1, <1>5
  <1>7. n # 0 => us[1].start \in Nat
    <2>1. n # 0 => 1 \in 1..Len(us)
      BY <1>5
    <2> QED BY <2>1, ChainHas
  <1>8. PICK g \in Int : n # 0 => g = us[1].start + r
    <2>1. CASE n = 0
      BY <2>1
    <2>2. CASE n # 0
      <3>1. us[1].start + r \in Int
        BY <1>7, <2>2
      <3> QED BY <3>1
    <2> QED BY <2>1, <2>2
  <1>9. \A k \in 1..n : /\ us[k].start \in Nat /\ us[k].end \in Nat /\ us[k].start < us[k].end
                        /\ us[k].end = IF k = n THEN to ELSE us[k+1].start
    <2> SUFFICES ASSUME NEW k \in 1..n
                 PROVE  /\ us[k].start \in Nat /\ us[k].end \in Nat /\ us[k].start < us[k].end
                        /\ us[k].end = IF k = n THEN to ELSE us[k+1].start
      OBVIOUS
    <2>1. k \in 1..Len(us)
      BY <1>5
    <2> QED BY <1>5, <2>1, ChainHas
  <1>10. ASSUME NEW k \in 1..n
         PROVE  /\ ps[k] \in UnitSet /\ ps[k].start = Most(us[k].start, g) /\ ps[k].end = us[k].end
                /\ (ps[k].text # <<>>) <=> (g < us[k].end)
                /\ ps[k].text # <<>> => Source(txt, ps[k])
    <2>1. k \in 1..Len(us)
      BY <1>5
    <2>2. PICK a \in Nat, s \in Nat : a = us[1].start /\ s = us[k].start
      BY <1>7, <1>9
    <2>3. RunesOf(SubSeq(us, 1, k-1)) = us[k].start - us[1].start
      BY <2>1, ChainBefore
    <2>4. PICK c \in Nat : c = skip(k) /\ c = Most(0, g - s)
      <3>1. PICK b \in Int : b = RunesOf(SubSeq(us, 1, k-1)) /\ b = s - a
        BY <2>2, <2>3
      <3>0. g = a + r
        BY <1>8, <2>2
      <3>10. b = s - a
        BY <3>1
      <3>2. r - b = g - s
        BY <3>0, <3>10
      <3>3. skip(k) = Most(0, g - s)
        BY <3>1, <3>2
      <3>4. Most(0, g - s) \in Nat
        BY DEF Most
      <3> QED BY <3>3, <3>4
    <2>5. us[k] \in UnitSet /\ Source(txt, us[k])
      BY <2>1, ChainHas
    <2>6. ps[k] = part(us[k], c)
      BY <1>6, <2>4
    <2> HIDE DEF skip, parts
    <2>7. /\ ps[k] \in UnitSet /\ ps[k].start = us[k].start + c /\ ps[k].end = us[k].end
          /\ (ps[k].text # <<>>) <=> (us[k].start + c < us[k].end)
          /\ ps[k].text # <<>> => Source(txt, ps[k])
      <3>1. ps[k] = [text |-> Slice(us[k].text, c, Len(us[k].text)), start |-> us[k].start + c, end |-> us[k].end]
        BY <2>6
      <3> HIDE DEF part
      <3> QED BY <2>5, <3>1, PartIs
    <2> HIDE DEF part
    <2>8. s + c = Most(s, g)
      BY <2>4 DEF Most
    <2>9. PICK e \in Nat : e = us[k].end /\ s < e
      BY <1>9, <2>2
    <2>10. (s + c < e) <=> (g < e)
      BY <2>8, <2>9 DEF Most
    <2> QED BY <2>2, <2>7, <2>8, <2>9, <2>10
  <1> HIDE DEF part, skip, parts
  <1>11. ps \in Seq(UnitSet) /\ Len(ps) = n
    <2>1. ps \in Seq(UnitSet)
      BY <1>6, <1>10, Listed
    <2> QED BY <1>6, <2>1, LenProperties
  <1>12. P = {k \in 1..n : g < us[k].end}
    BY <1>2, <1>6, <1>10
  <1>13. PICK a \in Nat \ {0} : P = a..n
    <2>1. PICK a \in P \cup {n + 1} : \A k \in P \cup {n + 1} : a <= k
      <3>1. P \cup {n+1} \in SUBSET Nat /\ P \cup {n+1} # {}
        BY <1>12
      <3> QED BY <3>1, LeastNumber
    <2>2. a \in 1..(n+1)
      BY <1>12
    <2>3. ASSUME NEW k \in a..n PROVE k \in P
      <3>1. a \in P /\ a \in 1..n /\ k \in 1..n /\ g < us[a].end
        BY <1>12, <2>2
      <3>2. CASE k = a
        BY <3>1, <3>2
      <3>3. CASE k # a
        <4>1. us[a].end <= us[k].start
          BY <1>5, <3>1, <3>3, ChainOrder
        <4>2. g < us[k].end
          BY <1>9, <3>1, <4>1
        <4> QED BY <1>12, <3>1, <4>2
      <3> QED BY <3>2, <3>3
    <2>4. \A k \in P : k \in a..n
      BY <1>12, <2>1, <2>2
    <2>5. P = a..n
      BY <2>3, <2>4
    <2> QED BY <2>2, <2>5
  <1>14. PICK t : t = SubSeq(ps, a, n)
    OBVIOUS
  <1>15. TrimPrefix(us, r) = t
    <2>1. n <= Len(ps) /\ P = a..n
      BY <1>11, <1>13
    <2>2. Kept(ps, P) = SubSeq(ps, a, n)
      BY <1>11, <2>1, KeptRange
    <2> QED BY <1>3, <1>14, <2>2
  <1>16. PICK l \in Nat : /\ t \in Seq(UnitSet) /\ Len(t) = l /\ l = (IF a <= n THEN n - a + 1 ELSE 0)
                          /\ \A i \in 1..(n - a + 1) : t[i] = ps[a+i-1]
    <2>1. n <= Len(ps)
      BY <1>11
    <2>2. /\ SubSeq(ps, a, n) \in Seq(UnitSet) /\ Len(SubSeq(ps, a, n)) = (IF a <= n THEN n - a + 1 ELSE 0)
          /\ \A i \in 1..(n - a + 1) : SubSeq(ps, a, n)[i] = ps[a+i-1]
      BY <1>11, <2>1, Between
    <2>30. (IF a <= n THEN n - a + 1 ELSE 0) \in Nat
      OBVIOUS
    <2>3. PICK l \in Nat : l = IF a <= n THEN n - a + 1 ELSE 0
      BY <2>30
    <2> QED BY <1>14, <2>2, <2>3
  <1>17. ASSUME NEW k \in 1..l
         PROVE Source(txt, t[k]) /\ t[k].end = IF k = l THEN to ELSE t[k+1].start
    <2>1. PICK j \in 1..n : j = a + k - 1 /\ j \in P /\ k \in 1..(n - a + 1)
      BY <1>13, <1>16
    <2>2. t[k] = ps[j]
      BY <1>16, <2>1
    <2>3. ps[j].text # <<>> /\ g < us[j].end
      BY <1>2, <1>12, <2>1
    <2>4. Source(txt, ps[j]) /\ ps[j].end = us[j].end
      BY <1>10, <2>3
    <2>5. CASE k = l
      <3>1. j = n
        BY <1>16, <2>1, <2>5
      <3> QED BY <1>9, <2>2, <2>4, <2>5, <3>1
    <2>6. CASE k # l
      <3>0. a <= n /\ l = n - a + 1 /\ k < l
        <4>1. a <= n
          BY <2>1
        <4> QED BY <1>16, <2>6, <4>1
      <3>1. k + 1 \in 1..(n - a + 1) /\ a + (k + 1) - 1 = j + 1 /\ j # n /\ j + 1 \in 1..n
        BY <2>1, <3>0
      <3>2. t[k+1] = ps[j+1]
        BY <1>16, <3>1
      <3>3. us[j].end = us[j+1].start /\ us[j+1].start \in Nat
        BY <1>9, <3>1
      <3>4. ps[j+1].start = Most(us[j+1].start, g)
        BY <1>10, <3>1
      <3>5. PICK w \in Nat : w = us[j+1].start /\ g < w
        BY <2>3, <3>3
      <3>6. Most(w, g) = w
        BY <3>5 DEF Most
      <3> QED BY <2>2, <2>4, <2>6, <3>2, <3>3, <3>4, <3>5, <3>6
    <2> QED BY <2>5, <2>6
  <1>18. Linked(txt, t, to)
    BY <1>16, <1>17 DEF Linked
  <1> QED BY <1>15, <1>18

\* What is left and right of the seam of two sequences
Seamed(S, g, x, y, k, n) ==
  /\ g \in Seq(S) /\ Len(g) = n
  /\ \A i \in 1..n : g[i] = IF i <= k THEN x[i] ELSE y[i-k]
  /\ SubSeq(g, 1, k) = x /\ SubSeq(g, k + 1, n) = y

\* Concatenation has them there.
LEMMA Seam ==
  ASSUME NEW S, NEW x \in Seq(S), NEW y \in Seq(S), NEW k \in Nat, k = Len(x), NEW n \in Nat, n = k + Len(y)
  PROVE  Seamed(S, Glue(x, y), x, y, k, n)
  <1>1. PICK g : g = Glue(x, y)
    OBVIOUS
  <1>2. PICK l \in Nat : l = Len(y)
    BY LenProperties
  <1>3. g \in Seq(S) /\ Len(g) = n /\ \A i \in 1..n : g[i] = IF i <= k THEN x[i] ELSE y[i-k]
    <2> DEFINE J(a, b) == /\ g \in Seq(S) /\ Len(g) = b
                          /\ \A i \in 1..b : g[i] = IF i <= a THEN x[i] ELSE y[i-a]
    <2>1. J(Len(x), Len(x) + Len(y))
      <3>1. /\ Glue(x, y) \in Seq(S) /\ Len(Glue(x, y)) = Len(x) + Len(y)
            /\ \A i \in 1..(Len(x) + Len(y)) : Glue(x, y)[i] = IF i <= Len(x) THEN x[i] ELSE y[i - Len(x)]
        BY GlueIs
      <3> QED BY <1>1, <3>1
    <2> HIDE DEF J
    <2>2. J(k, n)
      BY <2>1
    <2> QED BY <2>2 DEF J
  <1>4. PICK w \in Nat : w = 1
    OBVIOUS
  <1>5. PICK s, t : s = SubSeq(g, 1, k) /\ t = SubSeq(g, k + 1, n)
    OBVIOUS
  <1>6. s = x
    <2>1. k <= Len(g) /\ w \in Nat \ {0}
      BY <1>2, <1>3, <1>4
    <2>2. /\ SubSeq(g, w, k) \in Seq(S) /\ Len(SubSeq(g, w, k)) = (IF w <= k THEN k - w + 1 ELSE 0)
          /\ \A i \in 1..(k - w + 1) : SubSeq(g, w, k)[i] = g[w+i-1]
      BY <1>3, <2>1, Between
    <2>3. s = SubSeq(g, w, k)
      BY <1>4, <1>5
    <2>4. Len(s) = k
      BY <1>4, <2>2, <2>3
    <2>5. ASSUME NEW i \in 1..k PROVE s[i] = x[i]
      <3>1. i \in 1..(k - w + 1) /\ w + i - 1 = i /\ i \in 1..n
        BY <1>2, <1>4
      <3>2. s[i] = g[i]
        BY <2>2, <2>3, <3>1
      <3> QED BY <1>3, <3>1, <3>2
    <2> QED BY <2>2, <2>3, <2>4, <2>5, SameSeq
  <1>7. t = y
    <2>1. PICK d \in Nat \ {0} : d = k + 1
      OBVIOUS
    <2>2. n <= Len(g)
      BY <1>3
    <2>3. /\ SubSeq(g, d, n) \in Seq(S) /\ Len(SubSeq(g, d, n)) = (IF d <= n THEN n - d + 1 ELSE 0)
          /\ \A i \in 1..(n - d + 1) : SubSeq(g, d, n)[i] = g[d+i-1]
      BY <1>3, <2>2, Between
    <2>4. t = SubSeq(g, d, n)
      BY <1>5, <2>1
    <2>5. Len(t) = l
      BY <1>2, <2>1, <2>3, <2>4
    <2>6. ASSUME NEW i \in 1..l PROVE t[i] = y[i]
      <3>1. i \in 1..(n - d + 1) /\ d + i - 1 = k + i /\ k + i \in 1..n /\ (k + i) - k = i /\ ~(k + i <= k)
        BY <1>2, <2>1
      <3>2. t[i] = g[k+i]
        BY <2>3, <2>4, <3>1
      <3> QED BY <1>3, <3>1, <3>2
    <2> QED BY <1>2, <2>3, <2>4, <2>5, <2>6, SameSeq
  <1> QED BY <1>1, <1>3, <1>5, <1>6, <1>7 DEF Seamed

\* The units of a chunk: injected headers, then units that follow one another in
\* the text up to at
Shaped(txt, cur, hd, src, at) ==
  /\ hd \in Seq(UnitSet) /\ (\A k \in 1..Len(hd) : Synthetic(hd[k]))
  /\ Linked(txt, src, at) /\ cur = Glue(hd, src)

\* The headers and the rest, by their places
LEMMA ShapeIs ==
  ASSUME NEW txt \in Seq(TextMarks), NEW cur, NEW hd, NEW src, NEW at, Shaped(txt, cur, hd, src, at)
  PROVE  /\ cur \in Seq(UnitSet) /\ hd \in Seq(UnitSet) /\ src \in Seq(UnitSet)
         /\ SubSeq(cur, Len(hd) + 1, Len(cur)) = src
         /\ {k \in 1..Len(cur) : Synthetic(cur[k])} = 1..Len(hd)
         /\ Kept(cur, {k \in DOMAIN cur : Synthetic(cur[k])}) = hd
         /\ Kept(cur, {k \in DOMAIN cur : ~Synthetic(cur[k])}) = src
         /\ TextOf(cur) = Glue(TextOf(hd), TextOf(src)) /\ RunesOf(cur) = RunesOf(hd) + RunesOf(src)
  <1>1. hd \in Seq(UnitSet) /\ src \in Seq(UnitSet) /\ cur = Glue(hd, src)
    BY DEF Shaped, Linked
  <1>2. PICK h \in Nat, m \in Nat : h = Len(hd) /\ m = Len(src)
    BY <1>1, LenProperties
  <1>3. PICK n \in Nat : n = h + m /\ n = h + Len(src)
    BY <1>2
  <1>4. Seamed(UnitSet, Glue(hd, src), hd, src, h, n)
    BY <1>1, <1>2, <1>3, Seam
  <1>5. /\ cur \in Seq(UnitSet) /\ Len(cur) = n
        /\ \A i \in 1..n : cur[i] = IF i <= h THEN hd[i] ELSE src[i-h]
        /\ SubSeq(cur, 1, h) = hd /\ SubSeq(cur, h + 1, n) = src
    BY <1>1, <1>4 DEF Seamed
  <1>6. DOMAIN cur = 1..n
    BY <1>5, LenProperties
  <1>7. ASSUME NEW i \in 1..n PROVE Synthetic(cur[i]) <=> i <= h
    <2>1. CASE i <= h
      <3>1. i \in 1..Len(hd)
        BY <1>2, <2>1
      <3> QED BY <1>5, <2>1, <3>1 DEF Shaped
    <2>2. CASE ~(i <= h)
      <3>1. i - h \in 1..Len(src)
        BY <1>2, <1>3, <2>2
      <3>2. Linked(txt, src, at)
        BY DEF Shaped
      <3>3. src[i-h].start < src[i-h].end /\ src[i-h].start \in Nat /\ src[i-h].end \in Nat
        BY <3>1, <3>2, ChainHas
      <3> QED BY <1>5, <2>2, <3>3 DEF Synthetic
    <2> QED BY <2>1, <2>2
  <1>8. PICK P, R : P = {k \in DOMAIN cur : Synthetic(cur[k])} /\ R = {k \in DOMAIN cur : ~Synthetic(cur[k])}
    OBVIOUS
  <1>9. P = 1..h /\ R = (h+1)..n
    BY <1>3, <1>6, <1>7, <1>8
  <1>10. Kept(cur, P) = SubSeq(cur, 1, h)
    <2>1. PICK w \in Nat \ {0} : w = 1
      OBVIOUS
    <2>2. P = w..h /\ h <= Len(cur)
      BY <1>3, <1>5, <1>9, <2>1
    <2>3. Kept(cur, P) = SubSeq(cur, w, h)
      BY <1>5, <2>2, KeptRange
    <2> QED BY <2>1, <2>3
  <1>11. Kept(cur, R) = SubSeq(cur, h + 1, n)
    <2>1. PICK w \in Nat \ {0} : w = h + 1
      OBVIOUS
    <2>2. R = w..n /\ n <= Len(cur)
      BY <1>5, <1>9, <2>1
    <2>3. Kept(cur, R) = SubSeq(cur, w, n)
      BY <1>5, <2>2, KeptRange
    <2> QED BY <2>1, <2>3
  <1>12. TextOf(cur) = Glue(TextOf(hd), TextOf(src)) /\ RunesOf(cur) = RunesOf(hd) + RunesOf(src)
    BY <1>1, TextConcat DEF Glue
  <1>13. {k \in 1..Len(cur) : Synthetic(cur[k])} = 1..h
    BY <1>3, <1>5, <1>7
  <1> QED BY <1>1, <1>2, <1>3, <1>5, <1>8, <1>10, <1>11, <1>12, <1>13

-----------------------------------------------------------------------------
(*************************************************************************)
(* Faithful chunks                                                       *)
(*                                                                       *)
(* What flush, the overlap and the opening of a chunk make of its units. *)
(*************************************************************************)

\* After its generated prefix, a chunk holds the slice of the text it says.
Faithful(txt, c) ==
  /\ c.syn \in Nat /\ c.start <= c.end /\ c.end <= Len(txt)
  /\ Len(c.content) = c.syn + (c.end - c.start)
  /\ \A i \in 1..(c.end - c.start) : c.content[c.syn+i] = txt[c.start+i]
TrueSet(txt) == {c \in ChunkSet : Faithful(txt, c)}

\* A chunk that is a prefix and a slice does.
LEMMA PrefixedSlice ==
  ASSUME NEW txt \in Seq(TextMarks), NEW c \in ChunkSet, NEW x \in Seq(TextMarks),
         c.syn = Len(x), c.start <= c.end, c.end <= Len(txt), c.content = Glue(x, Slice(txt, c.start, c.end))
  PROVE  c \in TrueSet(txt)
  <1>1. PICK a \in Nat, b \in Nat : a = c.start /\ b = c.end /\ a <= b /\ b <= Len(txt)
    BY DEF ChunkSet
  <1>2. PICK k \in Nat : k = Len(x)
    BY LenProperties
  <1>3. PICK y : y = Slice(txt, a, b)
    OBVIOUS
  <1>4. y \in Seq(TextMarks) /\ Len(y) = b - a /\ \A i \in 1..(b - a) : y[i] = txt[a+i]
    <2>1. a <= b /\ b <= Len(txt)
      BY <1>1
    <2>2. /\ Slice(txt, a, b) \in Seq(TextMarks) /\ Len(Slice(txt, a, b)) = b - a
          /\ \A i \in 1..(b - a) : Slice(txt, a, b)[i] = txt[a+i]
      BY <2>1, SliceOf
    <2> QED BY <1>3, <2>2
  <1>5. PICK n \in Nat : n = k + (b - a) /\ n = k + Len(y)
    BY <1>1, <1>4
  <1>6. Seamed(TextMarks, Glue(x, y), x, y, k, n)
    BY <1>2, <1>4, <1>5, Seam
  <1>7. c.content = Glue(x, y)
    BY <1>1, <1>3
  <1>8. Len(c.content) = n /\ \A i \in 1..n : c.content[i] = IF i <= k THEN x[i] ELSE y[i-k]
    BY <1>6, <1>7 DEF Seamed
  <1>9. ASSUME NEW i \in 1..(b - a) PROVE c.content[k+i] = txt[a+i]
    <2>1. k + i \in 1..n /\ ~(k + i <= k) /\ (k + i) - k = i
      BY <1>5
    <2> QED BY <1>4, <1>8, <2>1
  <1>10. c.syn = k
    BY <1>2
  <1>11. Len(c.content) = k + (b - a)
    BY <1>5, <1>8
  <1> QED BY <1>1, <1>9, <1>10, <1>11 DEF TrueSet, Faithful

\* So does one that is a slice.
LEMMA PlainSlice ==
  ASSUME NEW txt \in Seq(TextMarks), NEW c \in ChunkSet,
         c.syn = 0, c.start <= c.end, c.end <= Len(txt), c.content = Slice(txt, c.start, c.end)
  PROVE  c \in TrueSet(txt)
  <1>1. PICK a \in Nat, b \in Nat : a = c.start /\ b = c.end /\ a <= b /\ b <= Len(txt)
    BY DEF ChunkSet
  <1>2. a <= b /\ b <= Len(txt)
    BY <1>1
  <1>3. /\ Len(Slice(txt, a, b)) = b - a /\ \A i \in 1..(b - a) : Slice(txt, a, b)[i] = txt[a+i]
    BY <1>2, SliceOf, ZenonT(60)
  <1>4. c.content = Slice(txt, a, b)
    BY <1>1
  <1>5. Len(c.content) = 0 + (b - a) /\ \A i \in 1..(b - a) : c.content[0+i] = txt[a+i]
    BY <1>1, <1>3, <1>4
  <1> QED BY <1>1, <1>5 DEF TrueSet, Faithful

\* And the other way round
LEMMA TrueIs ==
  ASSUME NEW txt, NEW c \in TrueSet(txt)
  PROVE  /\ c \in ChunkSet /\ c.content \in Seq(TextMarks) /\ Len(c.content) \in Nat
         /\ c.syn \in Nat /\ c.start \in Nat /\ c.end \in Nat /\ c.start <= c.end /\ c.end <= Len(txt)
         /\ Len(c.content) = c.syn + (c.end - c.start)
         /\ \A i \in 1..(c.end - c.start) : c.content[c.syn+i] = txt[c.start+i]
  <1>1. c \in ChunkSet /\ Faithful(txt, c)
    BY DEF TrueSet
  <1>2. c.content \in Seq(TextMarks) /\ c.start \in Nat /\ c.end \in Nat
    BY <1>1 DEF ChunkSet
  <1>3. Len(c.content) \in Nat
    BY <1>2, LenProperties
  <1> QED BY <1>1, <1>2, <1>3 DEF Faithful

\* What flush makes of the units of a chunk
LEMMA BuildTrue ==
  ASSUME NEW txt \in Seq(TextMarks), NEW cur, NEW hd, NEW src, NEW at, Shaped(txt, cur, hd, src, at)
  PROVE  /\ Build(cur) \in TrueSet(txt) /\ Build(cur).bc = <<>>
         /\ Build(cur).syn = RunesOf(hd) /\ Build(cur).content = TextOf(cur)
         /\ Build(cur).start = (IF src = <<>> THEN 0 ELSE src[1].start)
         /\ Build(cur).end = IF src = <<>> THEN 0 ELSE at
  <1>1. PICK b : b = Build(cur)
    OBVIOUS
  <1>2. cur \in Seq(UnitSet) /\ hd \in Seq(UnitSet) /\ src \in Seq(UnitSet)
    BY ShapeIs
  <1>3. b = [content |-> TextOf(cur), bc |-> <<>>, syn |-> RunesOf(hd),
             start |-> IF src = <<>> THEN 0 ELSE src[1].start,
             end |-> IF src = <<>> THEN 0 ELSE src[Len(src)].end]
    BY <1>1, ShapeIs DEF Build
  <1>4. b \in ChunkSet
    BY <1>1, <1>2, BuildIs
  <1>5. PICK x \in Seq(TextMarks) : x = TextOf(hd) /\ Len(x) = RunesOf(hd)
    BY <1>2, TextIsText DEF RunesOf
  <1>6. TextOf(cur) = Glue(x, TextOf(src))
    BY <1>5, ShapeIs, ZenonT(60)
  <1>7. CASE src = <<>>
    <2>1. b.start = 0 /\ b.end = 0 /\ TextOf(src) = <<>>
      BY <1>3, <1>7, NoText
    <2>2. PICK z \in Nat : z = 0 /\ z <= z /\ z <= Len(txt)
      BY LenProperties
    <2>3. Slice(txt, z, z) = <<>>
      <3>1. PICK s : s = Slice(txt, z, z)
        OBVIOUS
      <3>2. z <= z /\ z <= Len(txt)
        BY <2>2
      <3>3. Slice(txt, z, z) \in Seq(TextMarks) /\ Len(Slice(txt, z, z)) = z - z
        BY <3>2, SliceOf
      <3>4. s \in Seq(TextMarks) /\ Len(s) = 0
        BY <3>1, <3>3
      <3> QED BY <3>1, <3>4, EmptySeq
    <2>4. b.content = Glue(x, Slice(txt, b.start, b.end)) /\ b.syn = Len(x)
      BY <1>3, <1>5, <1>6, <2>1, <2>2, <2>3
    <2>5. b.start <= b.end /\ b.end <= Len(txt)
      BY <2>1, <2>2
    <2>6. b \in TrueSet(txt)
      BY <1>4, <2>4, <2>5, PrefixedSlice
    <2> QED BY <1>1, <1>3, <1>7, <2>6
  <1>8. CASE src # <<>>
    <2>1. Linked(txt, src, at)
      BY DEF Shaped
    <2>2. /\ src[1].start \in Nat /\ at \in Nat /\ src[1].start < at /\ at <= Len(txt)
          /\ TextOf(src) = Slice(txt, src[1].start, at)
      BY <1>8, <2>1, ChainText
    <2>3. Len(src) \in 1..Len(src)
      <3>1. Len(src) \in Nat /\ Len(src) # 0
        BY <1>2, <1>8, EmptySeq, LenProperties
      <3> QED BY <3>1
    <2>4. src[Len(src)].end = at
      BY <2>1, <2>3, ChainHas
    <2>5. b.start = src[1].start /\ b.end = at /\ b.syn = Len(x) /\ b.content = TextOf(cur)
      BY <1>3, <1>5, <1>8, <2>4
    <2>6. b.start <= b.end /\ b.end <= Len(txt) /\ b.content = Glue(x, Slice(txt, b.start, b.end))
      BY <1>6, <2>2, <2>5
    <2>7. b \in TrueSet(txt)
      BY <1>4, <2>5, <2>6, PrefixedSlice
    <2> QED BY <1>1, <1>3, <1>8, <2>4, <2>7
  <1> QED BY <1>7, <1>8

\* The overlap follows in the text up to the same place.
LEMMA CarryChain ==
  ASSUME NEW txt \in Seq(TextMarks), NEW cur, NEW hd, NEW src, NEW at, Shaped(txt, cur, hd, src, at), NEW most \in Int
  PROVE  Linked(txt, Carry(cur, most), at)
  <1>1. cur \in Seq(UnitSet) /\ hd \in Seq(UnitSet) /\ src \in Seq(UnitSet)
    BY ShapeIs
  <1>2. PICK h \in Nat, n \in Nat : h = Len(hd) /\ n = Len(cur) /\ h <= n
    <2>1. Len(hd) \in Nat /\ Len(src) \in Nat /\ Len(cur) \in Nat
      BY <1>1, LenProperties
    <2>2. Len(cur) = Len(hd) + Len(src)
      <3>1. cur = Glue(hd, src)
        BY DEF Shaped
      <3>2. Len(Glue(hd, src)) = Len(hd) + Len(src)
        BY <1>1, GlueIs
      <3> QED BY <3>1, <3>2
    <2>3. PICK h \in Nat, m \in Nat, n \in Nat : h = Len(hd) /\ m = Len(src) /\ n = Len(cur)
      BY <2>1
    <2>4. n = h + m
      BY <2>2, <2>3
    <2> QED BY <2>3, <2>4
  <1>3. SelectLastInSeq(cur, Synthetic) = h
    <2> DEFINE I == {i \in 1..Len(cur) : Synthetic(cur[i])}
    <2>1. SelectLastInSeq(cur, Synthetic) = IF I # {} THEN Max(I) ELSE 0
      BY DEF SelectLastInSeq
    <2>2. I = 1..h
      BY <1>2, ShapeIs
    <2> HIDE DEF I
    <2>3. CASE h = 0
      BY <2>1, <2>2, <2>3
    <2>4. CASE h # 0
      <3>1. h \in I /\ I # {} /\ \A i \in I : h >= i
        <4>1. h \in 1..h /\ \A i \in 1..h : h >= i
          BY <2>4
        <4> QED BY <2>2, <4>1
      <3>2. Max(I) = h
        <4>1. \A m \in I : (\A i \in I : m >= i) => m = h
          BY <2>2, <3>1
        <4> QED BY <3>1, <4>1 DEF Max
      <3> QED BY <2>1, <3>1, <3>2
    <2> QED BY <2>3, <2>4
  <1>4. SubSeq(cur, h + 1, Len(cur)) = src
    BY <1>2, ShapeIs
  <1>5. PICK r \in Int : r = Most(0, RunesOf(src) - (most + 1))
    <2>1. RunesOf(src) \in Nat
      BY <1>1, TextIsText
    <2> QED BY <2>1 DEF Most
  <1>6. PICK window : window = CarryWindow(cur, most)
    OBVIOUS
  <1>7. window = TrimPrefix(src, r)
    BY <1>3, <1>4, <1>5, <1>6 DEF CarryWindow
  <1>8. Linked(txt, window, at)
    <2>1. Linked(txt, src, at)
      BY DEF Shaped
    <2>2. Linked(txt, TrimPrefix(src, r), at)
      BY <2>1, ChainTrim
    <2> QED BY <1>7, <2>2
  <1>9. PICK ends : ends = Boundaries(TextOf(window), most)
    OBVIOUS
  <1>10. ends \in SUBSET Nat
    BY <1>9 DEF Boundaries
  <1>11. CarryIn(window, most) = IF ends = {} THEN <<>> ELSE TrimPrefix(window, BestBoundary(TextOf(window), ends))
    BY <1>9 DEF CarryIn, FromBoundary
  <1>12. CASE most <= 0 \/ ends = {}
    <2>1. Carry(cur, most) = <<>>
      BY <1>6, <1>11, <1>12 DEF Carry
    <2> QED BY <2>1, NoChain
  <1>13. CASE ~(most <= 0) /\ ends # {}
    <2>1. PICK d : d = BestBoundary(TextOf(window), ends)
      OBVIOUS
    <2>2. d \in Int
      <3>1. d \in ends
        BY <1>10, <1>13, <2>1, BestIs
      <3> QED BY <1>10, <3>1
    <2>3. Carry(cur, most) = TrimPrefix(window, d)
      BY <1>6, <1>11, <1>13, <2>1 DEF Carry
    <2>4. Linked(txt, TrimPrefix(window, d), at)
      BY <1>8, <2>2, ChainTrim
    <2> QED BY <2>3, <2>4
  <1> QED BY <1>12, <1>13

\* A sequence and none before it
LEMMA GlueNone ==
  ASSUME NEW S, NEW s \in Seq(S)
  PROVE  Glue(<<>>, s) = s
  <1>0. <<>> \in Seq(S)
    OBVIOUS
  <1>1. PICK e \in Seq(S) : e = <<>>
    BY <1>0
  <1>2. PICK k \in Nat, n \in Nat : k = 0 /\ k = Len(e) /\ n = Len(s) /\ n = k + Len(s)
    <2>1. Len(e) = 0 /\ Len(s) \in Nat
      BY <1>1, LenProperties
    <2> QED BY <2>1
  <1>3. Seamed(S, Glue(e, s), e, s, k, n)
    BY <1>2, Seam
  <1>4. PICK g : g = Glue(e, s)
    OBVIOUS
  <1>5. g \in Seq(S) /\ Len(g) = n /\ \A i \in 1..n : g[i] = s[i]
    <2>1. g \in Seq(S) /\ Len(g) = n /\ \A i \in 1..n : g[i] = IF i <= k THEN e[i] ELSE s[i-k]
      BY <1>3, <1>4 DEF Seamed
    <2> SUFFICES ASSUME NEW i \in 1..n PROVE g[i] = s[i]
      BY <2>1
    <2>2. ~(i <= k) /\ i - k = i
      BY <1>2
    <2> QED BY <2>1, <2>2
  <1>6. g = s
    BY <1>2, <1>5, SameSeq
  <1> QED BY <1>1, <1>4, <1>6

\* No units have a shape, at any offset.
LEMMA NoShape ==
  ASSUME NEW txt, NEW at
  PROVE  Shaped(txt, <<>>, <<>>, <<>>, at)
  <1>1. PICK e : e = <<>>
    OBVIOUS
  <1>2. e \in Seq(UnitSet) /\ Len(e) = 0 /\ Linked(txt, e, at)
    BY <1>1, NoChain
  <1>3. Glue(<<>>, e) = e
    BY <1>2, GlueNone
  <1>4. Shaped(txt, e, e, e, at)
    BY <1>1, <1>2, <1>3 DEF Shaped
  <1> QED BY <1>1, <1>4

\* One unit more
LEMMA ShapeMore ==
  ASSUME NEW txt \in Seq(TextMarks), NEW u \in UnitSet, Source(txt, u),
         NEW cur, NEW hd, NEW src, Shaped(txt, cur, hd, src, u.start)
  PROVE  Shaped(txt, Append(cur, u), hd, Append(src, u), u.end)
  <1>1. hd \in Seq(UnitSet) /\ src \in Seq(UnitSet) /\ cur = Glue(hd, src) /\ cur \in Seq(UnitSet)
    BY ShapeIs DEF Shaped
  <1>2. PICK e \in Seq(UnitSet) : e = <<u>>
    BY TextOfOne
  <1>3. Glue(Glue(hd, src), e) = Glue(hd, Glue(src, e))
    BY <1>1, ThreeJoined
  <1>4. Append(cur, u) = Glue(cur, e) /\ Append(src, u) = Glue(src, e)
    BY <1>1, <1>2 DEF Glue
  <1>5. Append(cur, u) = Glue(hd, Append(src, u))
    BY <1>1, <1>3, <1>4
  <1>6. Linked(txt, Append(src, u), u.end)
    <2>1. Linked(txt, src, u.start)
      BY DEF Shaped
    <2> QED BY <2>1, ChainMore
  <1>7. \A k \in 1..Len(hd) : Synthetic(hd[k])
    BY DEF Shaped
  <1> QED BY <1>1, <1>5, <1>6, <1>7 DEF Shaped

\* A unit by itself
LEMMA ShapeOfOne ==
  ASSUME NEW txt \in Seq(TextMarks), NEW u \in UnitSet, Source(txt, u)
  PROVE  Shaped(txt, <<u>>, <<>>, <<u>>, u.end)
  <1>0. <<>> \in Seq(UnitSet)
    OBVIOUS
  <1>1. PICK e \in Seq(UnitSet) : e = <<>>
    BY <1>0
  <1>2. Shaped(txt, e, e, e, u.start)
    BY <1>1, NoShape
  <1>3. Shaped(txt, Append(e, u), e, Append(e, u), u.end)
    BY <1>2, ShapeMore
  <1>4. Append(e, u) = <<u>>
    BY <1>1
  <1> QED BY <1>1, <1>3, <1>4

\* The units before u: what follows in the text up to u, and at most a header,
\* before a unit that does not bring its own
LEMMA OpeningShape ==
  ASSUME NEW txt \in Seq(TextMarks), NEW u \in UnitSet, Source(txt, u),
         NEW carry, Linked(txt, carry, u.start), NEW head, NEW size \in Nat
  PROVE  \E hd, src : /\ Shaped(txt, Opening(carry, u, head, size), hd, src, u.start)
                      /\ (hd = <<>> \/ (head = 1 /\ u.text # <<"T">> /\ RunesOf(hd) = 1))
  <1>1. PICK o : o = Opening(carry, u, head, size)
    OBVIOUS
  <1>2. carry \in Seq(UnitSet)
    BY DEF Linked
  <1>3. ASSUME NEW us, Linked(txt, us, u.start) PROVE Shaped(txt, us, <<>>, us, u.start)
    <2>1. us \in Seq(UnitSet)
      BY <1>3 DEF Linked
    <2>0. <<>> \in Seq(UnitSet) /\ Len(<<>>) = 0
      OBVIOUS
    <2>2. PICK e \in Seq(UnitSet) : e = <<>> /\ Len(e) = 0
      BY <2>0
    <2>3. us = Glue(e, us)
      BY <2>1, <2>2, GlueNone
    <2>4. Shaped(txt, us, e, us, u.start)
      BY <1>3, <2>2, <2>3 DEF Shaped
    <2> QED BY <2>2, <2>4
  <1>4. CASE ~(head = 1 /\ 1 + Len(u.text) <= size)
    <2>1. o = carry
      BY <1>1, <1>4 DEF Opening
    <2> QED BY <1>1, <1>3, <2>1
  <1>5. CASE head = 1 /\ 1 + Len(u.text) <= size
    <2>1. PICK room \in Int : room = size - 1 - Len(u.text)
      <3>1. PICK l \in Nat : l = Len(u.text)
        BY LenProperties DEF UnitSet
      <3>2. size - 1 - l \in Int
        OBVIOUS
      <3> QED BY <3>1, <3>2
    <2>2. PICK kept : kept = ShrinkTo(carry, room)
      OBVIOUS
    <2>3. Linked(txt, kept, u.start)
      <3>1. PICK k \in 0..Len(carry) : ShrinkTo(carry, room) = SubSeq(carry, k + 1, Len(carry))
        BY <1>2, ShrinkIs
      <3>2. k + 1 \in Nat \ {0}
        OBVIOUS
      <3>3. Linked(txt, SubSeq(carry, k + 1, Len(carry)), u.start)
        BY <3>2, ChainTail
      <3> QED BY <2>2, <3>1, <3>3
    <2>4. o = InjectHeader(kept, u)
      BY <1>1, <1>5, <2>1, <2>2 DEF Opening
    <2>5. CASE InjectHeader(kept, u) = kept
      BY <1>1, <1>3, <2>3, <2>4, <2>5
    <2>6. CASE InjectHeader(kept, u) # kept
      <3>1. kept \in Seq(UnitSet)
        BY <2>3 DEF Linked
      <3>2. PICK at \in Nat : at = IF kept = <<>> THEN u.start ELSE kept[1].start
        <4>1. CASE kept = <<>>
          BY <4>1 DEF UnitSet
        <4>2. CASE kept # <<>>
          <5>1. kept[1].start \in Nat
            BY <2>3, <4>2, ChainText
          <5> QED BY <4>2, <5>1
        <4> QED BY <4>1, <4>2
      <3>3. PICK h : h = [text |-> <<"T">>, start |-> at, end |-> at]
        OBVIOUS
      <3>4. h \in UnitSet /\ Len(h.text) = 1 /\ Synthetic(h)
        <4>1. <<"T">> \in Seq(TextMarks)
          BY DEF TextMarks, LineMarks, TableMarks
        <4> QED BY <3>3, <4>1 DEF UnitSet, Synthetic
      <3>5. PICK e : e = <<h>>
        OBVIOUS
      <3>6. e \in Seq(UnitSet) /\ RunesOf(e) = 1 /\ Len(e) = 1 /\ e[1] = h
        BY <3>4, <3>5, TextOfOne
      <3>7. o = Glue(e, kept) /\ ~Contains(TextOf(kept) \o u.text, "T")
        BY <2>4, <2>6, <3>2, <3>3, <3>5 DEF InjectHeader, Glue
      <3>8. u.text # <<"T">>
        <4> SUFFICES ASSUME u.text = <<"T">> PROVE FALSE
          OBVIOUS
        <4>1. PICK x \in Seq(TextMarks), y \in Seq(TextMarks), k \in Nat :
                x = TextOf(kept) /\ y = u.text /\ k = Len(x)
          BY <3>1, TextIsText, LenProperties DEF UnitSet
        <4>2. Len(y) = 1 /\ y[1] = "T"
          BY <4>1
        <4>3. PICK n \in Nat : n = k + 1 /\ n = k + Len(y)
          BY <4>2
        <4>4. Seamed(TextMarks, Glue(x, y), x, y, k, n)
          BY <4>1, <4>3, Seam
        <4>5. Len(Glue(x, y)) = n /\ Glue(x, y)[n] = "T"
          <5>1. n \in 1..n /\ ~(n <= k) /\ n - k = 1
            BY <4>3
          <5> QED BY <4>2, <4>4, <5>1 DEF Seamed
        <4>6. n \in 1..Len(Glue(x, y))
          BY <4>3, <4>5
        <4>7. Contains(Glue(x, y), "T")
          BY <4>5, <4>6 DEF Contains
        <4> QED BY <3>7, <4>1, <4>7 DEF Glue
      <3>9. Shaped(txt, o, e, kept, u.start)
        <4>1. \A k \in 1..Len(e) : Synthetic(e[k])
          BY <3>4, <3>6
        <4> QED BY <2>3, <3>6, <3>7, <4>1 DEF Shaped
      <3> QED BY <1>1, <1>5, <3>6, <3>8, <3>9
    <2> QED BY <2>5, <2>6
  <1> QED BY <1>4, <1>5

\* The mark after offset i-1 is in the range of a chunk, of some chunk.
In(c, i)        == c.start < i /\ i <= c.end
Held(chunks, i) == \E k \in 1..Len(chunks) : In(chunks[k], i)

\* A chunk with a generated prefix does not go on where a short chunk ends: the
\* coalescing of the heading tier leaves it alone.
Unmerged(c, b, size)     == c.end # b.start \/ Len(c.content) + Len(b.content) > size
Fits(chunks, b, size)    == b.syn > 0 => Len(chunks) > 0 /\ Unmerged(chunks[Len(chunks)], b, size)
Guarded(chunks, size)    ==
  \A k \in 1..Len(chunks) : chunks[k].syn > 0 => k > 1 /\ Unmerged(chunks[k-1], chunks[k], size)

\* Chunks that are faithful, and lose no words between two offsets
Settled(txt, chunks, size, from, to) ==
  /\ chunks \in Seq(TrueSet(txt)) /\ Guarded(chunks, size)
  /\ \A i \in (from+1)..to : txt[i] # "n" => Held(chunks, i)

\* No chunks
LEMMA NoneSettled ==
  ASSUME NEW txt, NEW size, NEW at \in Int
  PROVE  Settled(txt, <<>>, size, at, at)
  <1>1. PICK e : e = <<>>
    OBVIOUS
  <1>2. e \in Seq(TrueSet(txt)) /\ Len(e) = 0
    BY <1>1
  <1>3. Settled(txt, e, size, at, at)
    BY <1>2 DEF Settled, Guarded
  <1> QED BY <1>1, <1>3

\* What chunks hold, they hold with others after them.
LEMMA HeldMore ==
  ASSUME NEW S, NEW chunks \in Seq(S), NEW b \in S
  PROVE  \A i : Held(chunks, i) \/ In(b, i) => Held(Append(chunks, b), i)
  <1>1. PICK n \in Nat : n = Len(chunks)
    BY LenProperties
  <1>2. PICK t : t = Append(chunks, b)
    OBVIOUS
  <1>3. t \in Seq(S) /\ Len(t) = n + 1 /\ (\A i \in 1..n : t[i] = chunks[i]) /\ t[n+1] = b
    BY <1>1, <1>2, AppendProperties
  <1> SUFFICES ASSUME NEW i, Held(chunks, i) \/ In(b, i) PROVE Held(t, i)
    BY <1>2
  <1>4. CASE Held(chunks, i)
    <2>1. PICK k \in 1..n : In(chunks[k], i)
      BY <1>1, <1>4 DEF Held
    <2>2. k \in 1..Len(t) /\ In(t[k], i)
      BY <1>3, <2>1
    <2> QED BY <2>2 DEF Held
  <1>5. CASE In(b, i)
    <2>1. n + 1 \in 1..Len(t) /\ In(t[n+1], i)
      BY <1>3, <1>5
    <2> QED BY <2>1 DEF Held
  <1> QED BY <1>4, <1>5

\* A chunk that fits joins them.
LEMMA GuardedMore ==
  ASSUME NEW S, NEW chunks \in Seq(S), NEW b \in S, NEW size, Guarded(chunks, size), Fits(chunks, b, size)
  PROVE  Guarded(Append(chunks, b), size)
  <1>1. PICK n \in Nat : n = Len(chunks)
    BY LenProperties
  <1>2. PICK t : t = Append(chunks, b)
    OBVIOUS
  <1>3. t \in Seq(S) /\ Len(t) = n + 1 /\ (\A i \in 1..n : t[i] = chunks[i]) /\ t[n+1] = b
    BY <1>1, <1>2, AppendProperties
  <1>4. ASSUME NEW k \in 1..(n+1), t[k].syn > 0 PROVE k > 1 /\ Unmerged(t[k-1], t[k], size)
    <2>1. CASE k <= n
      <3>1. k \in 1..Len(chunks) /\ chunks[k].syn > 0
        BY <1>1, <1>3, <1>4, <2>1
      <3>2. k > 1 /\ Unmerged(chunks[k-1], chunks[k], size)
        BY <3>1 DEF Guarded
      <3>3. k \in 1..n /\ k - 1 \in 1..n
        BY <2>1, <3>2
      <3> QED BY <1>3, <3>2, <3>3
    <2>2. CASE k = n + 1
      <3>1. n > 0 /\ Unmerged(chunks[n], b, size)
        BY <1>1, <1>3, <1>4, <2>2 DEF Fits
      <3>2. n \in 1..n /\ k - 1 = n
        BY <2>2, <3>1
      <3> QED BY <1>3, <2>2, <3>1, <3>2
    <2> QED BY <2>1, <2>2
  <1> QED BY <1>2, <1>3, <1>4 DEF Guarded

\* Two sequences of chunks, one after the other
LEMMA SettledConcat ==
  ASSUME NEW txt, NEW size, NEW x, NEW y, NEW a \in Nat, NEW b \in Nat, NEW c \in Nat, NEW d \in Nat,
         Settled(txt, x, size, a, b), Settled(txt, y, size, c, d), c <= b
  PROVE  Settled(txt, x \o y, size, a, d)
  <1> DEFINE S == TrueSet(txt)
  <1>1. x \in Seq(S) /\ y \in Seq(S) /\ Guarded(x, size) /\ Guarded(y, size)
    BY DEF Settled
  <1> HIDE DEF S
  <1>2. PICK k \in Nat, l \in Nat, n \in Nat : k = Len(x) /\ l = Len(y) /\ n = k + l /\ n = k + Len(y)
    <2>1. PICK k \in Nat, l \in Nat : k = Len(x) /\ l = Len(y)
      BY <1>1, LenProperties
    <2>2. k + l \in Nat /\ k + l = k + Len(y)
      BY <2>1
    <2> QED BY <2>1, <2>2
  <1>3. PICK g : g = Glue(x, y)
    OBVIOUS
  <1>4. g \in Seq(S) /\ Len(g) = n /\ \A i \in 1..n : g[i] = IF i <= k THEN x[i] ELSE y[i-k]
    <2>1. Seamed(S, Glue(x, y), x, y, k, n)
      BY <1>1, <1>2, Seam
    <2> QED BY <1>3, <2>1 DEF Seamed
  <1>5. \A i \in 1..k : i \in 1..n /\ g[i] = x[i]
    <2> SUFFICES ASSUME NEW i \in 1..k PROVE i \in 1..n /\ g[i] = x[i]
      OBVIOUS
    <2>1. i \in 1..n /\ i <= k
      BY <1>2
    <2> QED BY <1>4, <2>1
  <1>6. \A i \in 1..l : k + i \in 1..n /\ g[k+i] = y[i]
    <2> SUFFICES ASSUME NEW i \in 1..l PROVE k + i \in 1..n /\ g[k+i] = y[i]
      OBVIOUS
    <2>1. k + i \in 1..n /\ ~(k + i <= k) /\ (k + i) - k = i
      BY <1>2
    <2> QED BY <1>4, <2>1
  <1>7. ASSUME NEW i \in 1..n, g[i].syn > 0 PROVE i > 1 /\ Unmerged(g[i-1], g[i], size)
    <2>1. CASE i <= k
      <3>1. i \in 1..Len(x) /\ x[i].syn > 0 /\ g[i] = x[i]
        BY <1>2, <1>5, <1>7, <2>1
      <3>2. i > 1 /\ Unmerged(x[i-1], x[i], size)
        BY <1>1, <3>1 DEF Guarded
      <3>3. i - 1 \in 1..k
        BY <2>1, <3>2
      <3> QED BY <1>5, <3>1, <3>2, <3>3
    <2>2. CASE i > k
      <3>0. i - k \in 1..l /\ i = k + (i - k)
        BY <1>2, <2>2
      <3>1. PICK j \in 1..l : j = i - k /\ i = k + j
        BY <3>0
      <3>2. g[i] = y[j] /\ j \in 1..Len(y)
        BY <1>2, <1>6, <3>1
      <3>3. j > 1 /\ Unmerged(y[j-1], y[j], size)
        BY <1>1, <1>7, <3>2 DEF Guarded
      <3>4. j - 1 \in 1..l /\ k + (j - 1) = i - 1 /\ i > 1
        BY <3>1, <3>3
      <3>5. g[i-1] = y[j-1]
        BY <1>6, <3>4
      <3> QED BY <3>2, <3>3, <3>4, <3>5
    <2> QED BY <2>1, <2>2
  <1>8. \A i : Held(x, i) \/ Held(y, i) => Held(g, i)
    <2> SUFFICES ASSUME NEW i, Held(x, i) \/ Held(y, i) PROVE Held(g, i)
      OBVIOUS
    <2>1. CASE Held(x, i)
      <3>1. PICK j \in 1..k : In(x[j], i)
        BY <1>2, <2>1 DEF Held
      <3>2. j \in 1..Len(g) /\ In(g[j], i)
        BY <1>4, <1>5, <3>1
      <3> QED BY <3>2 DEF Held
    <2>2. CASE Held(y, i)
      <3>1. PICK j \in 1..l : In(y[j], i)
        BY <1>2, <2>2 DEF Held
      <3>2. k + j \in 1..Len(g) /\ In(g[k+j], i)
        BY <1>4, <1>6, <3>1
      <3> QED BY <3>2 DEF Held
    <2> QED BY <2>1, <2>2
  <1>9. ASSUME NEW i \in (a+1)..d, txt[i] # "n" PROVE Held(g, i)
    <2>1. CASE i <= b
      <3>1. i \in (a+1)..b
        BY <2>1
      <3>2. Held(x, i)
        BY <1>9, <3>1 DEF Settled
      <3> QED BY <1>8, <3>2
    <2>2. CASE i > b
      <3>1. i \in (c+1)..d
        BY <2>2
      <3>2. Held(y, i)
        BY <1>9, <3>1 DEF Settled
      <3> QED BY <1>8, <3>2
    <2> QED BY <2>1, <2>2
  <1>10. Guarded(g, size)
    BY <1>4, <1>7 DEF Guarded
  <1>11. Settled(txt, g, size, a, d)
    BY <1>4, <1>9, <1>10 DEF Settled, S
  <1> QED BY <1>3, <1>11 DEF Glue

\* The slices of a unit that is too long lose nothing of it.
LEMMA ChopSettled ==
  ASSUME NEW txt \in Seq(TextMarks), NEW u \in UnitSet, Source(txt, u), NEW size
  PROVE  Settled(txt, Chop(u), size, u.start, u.end)
  <1>1. PICK A \in Nat \ {0} : A = AbsoluteMax
    BY Limits
  <1>2. PICK s \in Nat, e \in Nat : s = u.start /\ e = u.end /\ s < e /\ e <= Len(txt)
    BY SourceText
  <1>3. PICK v \in Seq(TextMarks) : v = u.text /\ v = Slice(txt, s, e)
    BY <1>2, SourceText DEF Source
  <1>4. PICK n \in Nat : n = e - s /\ n = Len(u.text)
    <2>1. Len(u.text) = u.end - u.start
      BY SourceText
    <2>2. e - s \in Nat
      BY <1>2
    <2> QED BY <1>2, <2>1, <2>2
  <1>50. PICK m \in Nat : \E at : Cuts(at, m, n, A) /\ Chop(u) = [k \in 1..m |-> Piece(u, at[k-1], at[k])]
    BY <1>1, <1>4, ChopCuts
  <1>5. PICK at : Cuts(at, m, n, A) /\ Chop(u) = [k \in 1..m |-> Piece(u, at[k-1], at[k])]
    BY <1>50
  <1>6. PICK ch : ch = Chop(u)
    OBVIOUS
  <1>7. ASSUME NEW p \in Nat, NEW q \in Nat, p <= q, q <= n
        PROVE  Piece(u, p, q) \in TrueSet(txt)
    <2>1. PICK c : c = Piece(u, p, q)
      OBVIOUS
    <2>2. PICK a \in Nat, b \in Nat : a = s + p /\ b = s + q /\ a <= b /\ b <= Len(txt)
      <3>0. n = e - s
        BY <1>4
      <3>1. s + p \in Nat /\ s + q \in Nat /\ s + p <= s + q /\ s + q <= e
        BY <1>7, <3>0
      <3>2. Len(txt) \in Nat
        BY LenProperties
      <3>3. s + q <= Len(txt)
        BY <1>2, <3>1, <3>2, SMTT(30)
      <3> QED BY <3>1, <3>3
    <2>3. p <= q /\ s + q <= e /\ e <= Len(txt)
      BY <1>2, <1>4, <1>7
    <2>4. Slice(Slice(txt, s, e), p, q) = Slice(txt, s + p, s + q)
      BY <2>3, SliceOfSlice
    <2>5. Slice(txt, a, b) \in Seq(TextMarks)
      <3>1. a <= b /\ b <= Len(txt)
        BY <2>2
      <3> QED BY <3>1, SliceOf
    <2>6. c = [content |-> Slice(txt, a, b), bc |-> <<>>, syn |-> 0, start |-> a, end |-> b]
      BY <1>2, <1>3, <2>1, <2>2, <2>4 DEF Piece
    <2>7. c \in ChunkSet
      <3>1. <<>> \in Seq(CrumbMarks) /\ 0 \in Int
        OBVIOUS
      <3> QED BY <2>5, <2>6, <3>1 DEF ChunkSet
    <2>8. c.syn = 0 /\ c.start <= c.end /\ c.end <= Len(txt) /\ c.content = Slice(txt, c.start, c.end)
      BY <2>2, <2>6
    <2>9. c \in TrueSet(txt)
      BY <2>7, <2>8, PlainSlice
    <2> QED BY <2>1, <2>9
  <1>8. ASSUME NEW k \in 1..m
        PROVE  /\ ch[k] \in TrueSet(txt) /\ ch[k].syn = 0
               /\ ch[k].start = s + at[k-1] /\ ch[k].end = s + at[k]
    <2>1. k \in 0..m /\ k - 1 \in 0..m
      OBVIOUS
    <2>2. PICK p \in 0..n, q \in 0..n : p = at[k-1] /\ q = at[k] /\ p < q
      BY <1>5, <2>1 DEF Cuts
    <2>3. ch[k] = Piece(u, p, q)
      BY <1>5, <1>6, <2>2
    <2>4. Piece(u, p, q) \in TrueSet(txt)
      BY <1>7, <2>2
    <2>5. Piece(u, p, q).syn = 0 /\ Piece(u, p, q).start = s + p /\ Piece(u, p, q).end = s + q
      BY <1>2 DEF Piece
    <2> QED BY <2>2, <2>3, <2>4, <2>5
  <1>9. ch \in Seq(TrueSet(txt)) /\ Len(ch) = m
    <2>1. ch = [k \in 1..m |-> ch[k]] /\ \A k \in 1..m : ch[k] \in TrueSet(txt)
      BY <1>5, <1>6, <1>8
    <2>2. ch \in Seq(TrueSet(txt))
      BY <2>1, Listed
    <2>3. DOMAIN ch = 1..m
      BY <1>5, <1>6
    <2> QED BY <2>2, <2>3, LenProperties
  <1>10. Guarded(ch, size)
    BY <1>8, <1>9 DEF Guarded
  <1>11. ASSUME NEW i \in (s+1)..e PROVE Held(ch, i)
    <2> DEFINE P == {k \in 0..m : i <= s + at[k]}
    <2>1. m \in P
      <3>1. m \in 0..m /\ at[m] = n /\ i <= s + n
        BY <1>2, <1>4, <1>5 DEF Cuts
      <3> QED BY <3>1
    <2>2. P \in SUBSET Nat /\ P # {}
      BY <2>1
    <2>3. PICK k \in P : \A j \in P : k <= j
      BY <2>2, LeastNumber
    <2>4. k # 0
      <3>1. at[0] = 0
        BY <1>5 DEF Cuts
      <3>2. ~(i <= s + 0)
        BY <1>2
      <3> QED BY <2>3, <3>1, <3>2
    <2>5. k \in 1..m /\ k - 1 \in 0..m /\ k - 1 < k
      BY <2>4
    <2>6. k - 1 \notin P
      <3> HIDE DEF P
      <3> QED BY <2>2, <2>3, <2>5
    <2>7. PICK p \in 0..n, q \in 0..n : p = at[k-1] /\ q = at[k] /\ ~(i <= s + p) /\ i <= s + q
      BY <1>5, <2>5, <2>6 DEF Cuts
    <2>8. ch[k].start = s + p /\ ch[k].end = s + q
      BY <1>8, <2>5, <2>7
    <2>9. s + p < i
      BY <1>2, <2>7
    <2>10. In(ch[k], i) /\ k \in 1..Len(ch)
      BY <1>9, <2>5, <2>7, <2>8, <2>9 DEF In
    <2> QED BY <2>10 DEF Held
  <1>12. Settled(txt, ch, size, s, e)
    BY <1>9, <1>10, <1>11 DEF Settled
  <1> QED BY <1>2, <1>6, <1>12

-----------------------------------------------------------------------------
(*************************************************************************)
(* The legacy tier: mergeUnits, turn by turn                             *)
(*************************************************************************)

\* mergeUnits between two units, of a text: what it has flushed is faithful, the
\* open chunk follows, and between them they hold every word up to at.
Accs(txt) == [chunks : Seq(TrueSet(txt)), cur : Seq(UnitSet), ht : HeaderSet]

Sound(txt, size, m, at) ==
  /\ m \in Accs(txt) /\ Guarded(m.chunks, size) /\ Fits(m.chunks, Build(m.cur), size)
  /\ (\E hd, src : Shaped(txt, m.cur, hd, src, at))
  /\ \A i \in 1..at : txt[i] # "n" => Held(m.chunks, i) \/ In(Build(m.cur), i)

\* A chunk of blank marks holds no word.
LEMMA BlankHolds ==
  ASSUME NEW txt \in Seq(TextMarks), NEW c \in TrueSet(txt), BlankText(c.content), NEW i \in Int, In(c, i)
  PROVE  txt[i] = "n"
  <1>1. PICK s \in Nat, e \in Nat, k \in Nat : s = c.start /\ e = c.end /\ k = c.syn
    BY TrueIs
  <1>2. /\ c.content \in Seq(TextMarks) /\ Len(c.content) = k + (e - s)
        /\ \A j \in 1..(e - s) : c.content[k+j] = txt[s+j]
    BY <1>1, TrueIs
  <1>3. s < i /\ i <= e
    BY <1>1 DEF In
  <1>4. PICK j \in 1..(e - s) : j = i - s
    <2>1. i - s \in 1..(e - s)
      BY <1>3
    <2> QED BY <2>1
  <1>5. s + j = i
    BY <1>4
  <1>6. k + j \in DOMAIN c.content
    <2>1. k + j \in 1..(k + (e - s))
      OBVIOUS
    <2> QED BY <1>2, <2>1, LenProperties
  <1> QED BY <1>2, <1>5, <1>6 DEF BlankText

\* A chunk that fits is appended, whatever it holds.
LEMMA AppendSound ==
  ASSUME NEW txt \in Seq(TextMarks), NEW size, NEW chunks \in Seq(TrueSet(txt)), NEW b \in TrueSet(txt),
         Guarded(chunks, size), Fits(chunks, b, size),
         NEW at, \A i \in 1..at : txt[i] # "n" => Held(chunks, i) \/ In(b, i)
  PROVE  Settled(txt, Append(chunks, b), size, 0, at)
  <1>1. Append(chunks, b) \in Seq(TrueSet(txt)) /\ Guarded(Append(chunks, b), size)
    BY GuardedMore, AppendProperties
  <1>2. \A i : Held(chunks, i) \/ In(b, i) => Held(Append(chunks, b), i)
    BY HeldMore
  <1>3. \A i \in (0+1)..at : txt[i] # "n" => Held(Append(chunks, b), i)
    BY <1>2
  <1> QED BY <1>1, <1>3 DEF Settled

\* A flush settles what comes before at.
LEMMA FlushSound ==
  ASSUME NEW txt \in Seq(TextMarks), NEW size, NEW m, NEW at, Sound(txt, size, m, at)
  PROVE  /\ Settled(txt, Flush(m).chunks, size, 0, at)
         /\ Flush(m) \in Accs(txt) /\ Flush(m).cur = <<>> /\ Flush(m).ht = m.ht
         /\ Flush(m).chunks = IF BlankText(TextOf(m.cur)) THEN m.chunks ELSE Append(m.chunks, Build(m.cur))
  <1>1. /\ m \in Accs(txt) /\ Guarded(m.chunks, size) /\ Fits(m.chunks, Build(m.cur), size)
        /\ \A i \in 1..at : txt[i] # "n" => Held(m.chunks, i) \/ In(Build(m.cur), i)
    BY DEF Sound
  <1>2. PICK hd, src : Shaped(txt, m.cur, hd, src, at)
    BY DEF Sound
  <1>3. PICK b : b = Build(m.cur)
    OBVIOUS
  <1>4. b \in TrueSet(txt) /\ b.content = TextOf(m.cur)
    BY <1>2, <1>3, BuildTrue
  <1>5. PICK cs : cs = IF BlankText(TextOf(m.cur)) THEN m.chunks ELSE Append(m.chunks, b)
    OBVIOUS
  <1>6. m.chunks \in Seq(TrueSet(txt))
    BY <1>1 DEF Accs
  <1>7. Settled(txt, cs, size, 0, at)
    <2>1. CASE BlankText(TextOf(m.cur))
      <3>1. ASSUME NEW i \in (0+1)..at, txt[i] # "n" PROVE Held(cs, i)
        <4>1. ~In(b, i)
          BY <1>4, <2>1, <3>1, BlankHolds
        <4> QED BY <1>1, <1>3, <1>5, <2>1, <3>1, <4>1
      <3> QED BY <1>1, <1>5, <1>6, <2>1, <3>1 DEF Settled
    <2>2. CASE ~BlankText(TextOf(m.cur))
      <3>1. Fits(m.chunks, b, size) /\ \A i \in 1..at : txt[i] # "n" => Held(m.chunks, i) \/ In(b, i)
        BY <1>1, <1>3
      <3>2. Settled(txt, Append(m.chunks, b), size, 0, at)
        BY <1>1, <1>4, <1>6, <3>1, AppendSound
      <3> QED BY <1>5, <2>2, <3>2
    <2> QED BY <2>1, <2>2
  <1>8. PICK f : f = Flush(m)
    OBVIOUS
  <1>9. f = [m EXCEPT !.chunks = cs, !.cur = <<>>]
    BY <1>3, <1>5, <1>8 DEF Flush
  <1>10. f \in Accs(txt) /\ f.chunks = cs /\ f.cur = <<>> /\ f.ht = m.ht
    <2>1. cs \in Seq(TrueSet(txt)) /\ <<>> \in Seq(UnitSet)
      BY <1>7 DEF Settled
    <2> QED BY <1>1, <1>9, <2>1 DEF Accs
  <1> QED BY <1>3, <1>5, <1>7, <1>8, <1>10

\* What has no generated prefix fits.
LEMMA PlainFits ==
  ASSUME NEW txt \in Seq(TextMarks), NEW cur, NEW src, NEW at, Shaped(txt, cur, <<>>, src, at), NEW chunks, NEW size
  PROVE  Fits(chunks, Build(cur), size)
  <1>1. PICK e : e = <<>> /\ RunesOf(e) = 0
    BY NoText
  <1>2. Build(cur).syn = RunesOf(e)
    BY <1>1, BuildTrue
  <1> QED BY <1>1, <1>2 DEF Fits

\* After a flush nothing is open.
LEMMA ClosedSound ==
  ASSUME NEW txt \in Seq(TextMarks), NEW size, NEW m \in Accs(txt), NEW at,
         Settled(txt, m.chunks, size, 0, at), m.cur = <<>>
  PROVE  Sound(txt, size, m, at)
  <1>1. Guarded(m.chunks, size) /\ \A i \in 1..at : txt[i] # "n" => Held(m.chunks, i)
    BY DEF Settled
  <1>2. PICK e : e = <<>>
    OBVIOUS
  <1>3. Shaped(txt, e, e, e, at)
    BY <1>2, NoShape
  <1>4. Fits(m.chunks, Build(m.cur), size)
    BY <1>2, <1>3, PlainFits
  <1>5. \E hd, src : Shaped(txt, m.cur, hd, src, at)
    BY <1>2, <1>3
  <1> QED BY <1>1, <1>4, <1>5 DEF Sound

\* The chunk that is open after one unit more
Grown(cur, u, hd, src) ==
  /\ Append(cur, u) \in Seq(UnitSet) /\ Append(src, u) # <<>>
  /\ Build(Append(cur, u)).syn = RunesOf(hd)
  /\ Build(Append(cur, u)).start = (IF src = <<>> THEN u.start ELSE src[1].start)
  /\ Build(Append(cur, u)).end = u.end
  /\ Len(Build(Append(cur, u)).content) = RunesOf(cur) + Len(u.text)

\* It starts where it did, and goes on to the end of the unit.
LEMMA BuildMore ==
  ASSUME NEW txt \in Seq(TextMarks), NEW u \in UnitSet, Source(txt, u),
         NEW cur, NEW hd, NEW src, Shaped(txt, cur, hd, src, u.start)
  PROVE  Grown(cur, u, hd, src)
  <1>1. Shaped(txt, Append(cur, u), hd, Append(src, u), u.end)
    BY ShapeMore
  <1>2. src \in Seq(UnitSet) /\ cur \in Seq(UnitSet)
    BY ShapeIs
  <1>3. PICK n \in Nat : n = Len(src)
    BY <1>2, LenProperties
  <1>4. PICK t : t = Append(src, u)
    OBVIOUS
  <1>5. t \in Seq(UnitSet) /\ Len(t) = n + 1 /\ (\A i \in 1..n : t[i] = src[i]) /\ t[n+1] = u
    BY <1>2, <1>3, <1>4, AppendProperties
  <1>6. t # <<>>
    BY <1>5, EmptySeq
  <1>7. t[1] = IF src = <<>> THEN u ELSE src[1]
    <2>1. CASE src = <<>>
      <3>1. n = 0
        BY <1>2, <1>3, <2>1, EmptySeq
      <3> QED BY <1>5, <2>1, <3>1
    <2>2. CASE src # <<>>
      <3>1. n # 0
        BY <1>2, <1>3, <2>2, EmptySeq
      <3>2. 1 \in 1..n
        BY <3>1
      <3> QED BY <1>5, <2>2, <3>2
    <2> QED BY <2>1, <2>2
  <1>8. PICK b : b = Build(Append(cur, u))
    OBVIOUS
  <1>9. b.syn = RunesOf(hd) /\ b.content = TextOf(Append(cur, u)) /\ b.start = t[1].start /\ b.end = u.end
    <2>0. PICK c : c = Append(cur, u)
      OBVIOUS
    <2>1. Shaped(txt, c, hd, t, u.end)
      BY <1>1, <1>4, <2>0
    <2>2. /\ Build(c).syn = RunesOf(hd) /\ Build(c).content = TextOf(c)
          /\ Build(c).start = (IF t = <<>> THEN 0 ELSE t[1].start) /\ Build(c).end = IF t = <<>> THEN 0 ELSE u.end
      BY <2>1, BuildTrue
    <2> QED BY <1>6, <1>8, <2>0, <2>2
  <1>10. Append(cur, u) \in Seq(UnitSet) /\ RunesOf(Append(cur, u)) = RunesOf(cur) + Len(u.text)
    BY <1>2, TextAppend
  <1>11. Len(b.content) = RunesOf(cur) + Len(u.text)
    BY <1>9, <1>10 DEF RunesOf
  <1>12. b.start = IF src = <<>> THEN u.start ELSE src[1].start
    BY <1>7, <1>9
  <1> QED BY <1>4, <1>6, <1>8, <1>9, <1>10, <1>11, <1>12 DEF Grown

\* Words stay words when others come before them.
LEMMA WordsRemain ==
  ASSUME NEW x \in Seq(TextMarks), NEW y \in Seq(TextMarks), BlankText(Glue(x, y))
  PROVE  BlankText(y)
  <1>1. PICK k \in Nat, l \in Nat : k = Len(x) /\ l = Len(y)
    BY LenProperties
  <1>2. PICK n \in Nat : n = k + l /\ n = k + Len(y)
    <2>1. k + l \in Nat /\ k + l = k + Len(y)
      BY <1>1
    <2> QED BY <2>1
  <1>3. Seamed(TextMarks, Glue(x, y), x, y, k, n)
    BY <1>1, <1>2, Seam
  <1>4. PICK g : g = Glue(x, y)
    OBVIOUS
  <1>5. g \in Seq(TextMarks) /\ Len(g) = n /\ \A i \in 1..n : g[i] = IF i <= k THEN x[i] ELSE y[i-k]
    BY <1>3, <1>4 DEF Seamed
  <1>6. DOMAIN g = 1..n /\ DOMAIN y = 1..l
    BY <1>1, <1>5, LenProperties
  <1>7. ASSUME NEW j \in 1..l PROVE y[j] = "n"
    <2>1. k + j \in 1..n /\ ~(k + j <= k) /\ (k + j) - k = j
      BY <1>2
    <2>2. g[k+j] = "n"
      BY <1>4, <1>6, <2>1 DEF BlankText
    <2> QED BY <1>5, <2>1, <2>2
  <1> QED BY <1>6, <1>7 DEF BlankText

\* The open chunk has source units, if it has any.
Open(txt, cur, at) == \E hd, src : Shaped(txt, cur, hd, src, at) /\ (cur = <<>> \/ src # <<>>)

\* A unit that is taken is in the chunk that is open then.
LEMMA TakeSound ==
  ASSUME NEW txt \in Seq(TextMarks), NEW size, NEW u \in UnitSet, Source(txt, u),
         NEW r, Sound(txt, size, r, u.start), Fits(r.chunks, Build(Append(r.cur, u)), size)
  PROVE  /\ Sound(txt, size, Take(r, u), u.end) /\ Open(txt, Take(r, u).cur, u.end) /\ Take(r, u).ht = r.ht
         /\ ~BlankText(u.text) => ~BlankText(TextOf(Take(r, u).cur))
  <1>1. PICK s \in Nat, e \in Nat : s = u.start /\ e = u.end /\ s < e
    BY SourceText
  <1>2. /\ r \in Accs(txt) /\ Guarded(r.chunks, size) /\ Fits(r.chunks, Build(r.cur), size)
        /\ \A i \in 1..s : txt[i] # "n" => Held(r.chunks, i) \/ In(Build(r.cur), i)
    BY <1>1 DEF Sound
  <1>3. PICK hd, src : Shaped(txt, r.cur, hd, src, u.start)
    BY DEF Sound
  <1>4. CASE RunesOf(r.cur) + Len(u.text) > AbsoluteMax
    <2>1. PICK x, o : x = <<u>> /\ o = Build(x)
      OBVIOUS
    <2>2. PICK t : t = [Flush(r) EXCEPT !.cur = x]
      OBVIOUS
    <2>3. Take(r, u) = t
      BY <1>4, <2>1, <2>2 DEF Take
    <2>4. /\ Settled(txt, Flush(r).chunks, size, 0, s) /\ Flush(r) \in Accs(txt) /\ Flush(r).ht = r.ht
      BY <1>1, FlushSound
    <2>5. Shaped(txt, x, <<>>, x, u.end) /\ x \in Seq(UnitSet) /\ x # <<>> /\ x[1] = u /\ TextOf(x) = u.text
      BY <2>1, ShapeOfOne, TextOfOne
    <2>6. t \in Accs(txt) /\ t.chunks = Flush(r).chunks /\ t.cur = x /\ t.ht = r.ht
      BY <2>2, <2>4, <2>5 DEF Accs
    <2>7. Guarded(t.chunks, size) /\ \A i \in (0+1)..s : txt[i] # "n" => Held(t.chunks, i)
      BY <2>4, <2>6 DEF Settled
    <2>8. Fits(t.chunks, Build(t.cur), size)
      BY <2>5, <2>6, PlainFits
    <2>9. o.start = s /\ o.end = e
      <3>1. /\ Build(x).start = (IF x = <<>> THEN 0 ELSE x[1].start)
            /\ Build(x).end = IF x = <<>> THEN 0 ELSE u.end
        BY <2>5, BuildTrue
      <3> QED BY <1>1, <2>1, <2>5, <3>1
    <2>10. \A i \in 1..e : txt[i] # "n" => Held(t.chunks, i) \/ In(o, i)
      <3> SUFFICES ASSUME NEW i \in 1..e, txt[i] # "n" PROVE Held(t.chunks, i) \/ In(o, i)
        OBVIOUS
      <3>1. CASE i <= s
        <4>1. i \in (0+1)..s
          BY <3>1
        <4> QED BY <2>7, <4>1
      <3>2. CASE i > s
        BY <2>9, <3>2 DEF In
      <3> QED BY <3>1, <3>2
    <2>11. Sound(txt, size, t, u.end)
      BY <1>1, <2>1, <2>5, <2>6, <2>7, <2>8, <2>10 DEF Sound
    <2>12. Open(txt, t.cur, u.end)
      BY <2>5, <2>6 DEF Open
    <2> QED BY <2>3, <2>5, <2>6, <2>11, <2>12
  <1>5. CASE ~(RunesOf(r.cur) + Len(u.text) > AbsoluteMax)
    <2>1. PICK x, o : x = Append(r.cur, u) /\ o = Build(x)
      OBVIOUS
    <2>2. PICK t : t = [r EXCEPT !.cur = x]
      OBVIOUS
    <2>3. Take(r, u) = t
      BY <1>5, <2>1, <2>2 DEF Take
    <2>4. /\ x \in Seq(UnitSet) /\ Append(src, u) # <<>> /\ o.end = u.end
          /\ o.start = IF src = <<>> THEN u.start ELSE src[1].start
      <3>1. Grown(r.cur, u, hd, src)
        BY <1>3, BuildMore
      <3> QED BY <2>1, <3>1 DEF Grown
    <2>5. t \in Accs(txt) /\ t.chunks = r.chunks /\ t.cur = x /\ t.ht = r.ht
      BY <1>2, <2>2, <2>4 DEF Accs
    <2>6. Shaped(txt, x, hd, Append(src, u), u.end)
      BY <1>3, <2>1, ShapeMore
    <2>7. o.start \in Nat /\ o.start <= s /\ \A i \in 1..s : In(Build(r.cur), i) => In(o, i)
      <3>1. PICK b : b = Build(r.cur)
        OBVIOUS
      <3>2. b.start = (IF src = <<>> THEN 0 ELSE src[1].start) /\ b.end = IF src = <<>> THEN 0 ELSE s
        BY <1>1, <1>3, <3>1, BuildTrue
      <3>3. CASE src = <<>>
        <4>1. b.start = 0 /\ b.end = 0 /\ o.start = s
          BY <1>1, <2>4, <3>2, <3>3
        <4>2. \A i \in 1..s : ~In(b, i)
          BY <4>1 DEF In
        <4> QED BY <3>1, <4>1, <4>2
      <3>4. CASE src # <<>>
        <4>1. Linked(txt, src, u.start)
          BY <1>3 DEF Shaped
        <4>2. src[1].start \in Nat /\ src[1].start < s
          BY <1>1, <3>4, <4>1, ChainText
        <4>3. o.start = src[1].start /\ b.start = o.start /\ o.end = e
          BY <1>1, <2>4, <3>2, <3>4
        <4>4. \A i \in 1..s : In(b, i) => In(o, i)
          BY <1>1, <4>3 DEF In
        <4> QED BY <3>1, <4>2, <4>3, <4>4
      <3> QED BY <3>3, <3>4
    <2>8. \A i \in 1..e : txt[i] # "n" => Held(t.chunks, i) \/ In(o, i)
      <3> SUFFICES ASSUME NEW i \in 1..e, txt[i] # "n" PROVE Held(t.chunks, i) \/ In(o, i)
        OBVIOUS
      <3>1. CASE i <= s
        <4>1. i \in 1..s
          BY <3>1
        <4> QED BY <1>2, <2>5, <2>7, <4>1
      <3>2. CASE i > s
        BY <1>1, <2>4, <2>7, <3>2 DEF In
      <3> QED BY <3>1, <3>2
    <2>9. Sound(txt, size, t, u.end)
      BY <1>1, <1>2, <2>1, <2>5, <2>6, <2>8 DEF Sound
    <2>10. Open(txt, t.cur, u.end)
      BY <2>4, <2>5, <2>6 DEF Open
    <2>11. ~BlankText(u.text) => ~BlankText(TextOf(t.cur))
      <3>1. r.cur \in Seq(UnitSet)
        BY <1>2 DEF Accs
      <3>2. TextOf(r.cur) \in Seq(TextMarks) /\ u.text \in Seq(TextMarks)
        BY <3>1, TextIsText DEF UnitSet
      <3>3. TextOf(x) = Glue(TextOf(r.cur), u.text)
        BY <2>1, <3>1, TextAppend DEF Glue
      <3> QED BY <2>5, <3>2, <3>3, WordsRemain
    <2> QED BY <2>3, <2>5, <2>9, <2>10, <2>11
  <1> QED BY <1>4, <1>5

\* There is room for u: the chunk that is open fits, with u and without.
Roomed(txt, size, r, u) == Sound(txt, size, r, u.start) /\ Fits(r.chunks, Build(Append(r.cur, u)), size)

\* Without a header in front, it does.
LEMMA PlainRoomed ==
  ASSUME NEW txt \in Seq(TextMarks), NEW u \in UnitSet, Source(txt, u),
         NEW cur, NEW src, Shaped(txt, cur, <<>>, src, u.start), NEW chunks, NEW size
  PROVE  Fits(chunks, Build(cur), size) /\ Fits(chunks, Build(Append(cur, u)), size)
  <1>1. Shaped(txt, Append(cur, u), <<>>, Append(src, u), u.end)
    BY ShapeMore
  <1>2. Fits(chunks, Build(Append(cur, u)), size)
    BY <1>1, PlainFits
  <1>3. Fits(chunks, Build(cur), size)
    BY PlainFits
  <1> QED BY <1>2, <1>3

\* A chunk that stays open fits with the next unit too.
LEMMA StaysRoomed ==
  ASSUME NEW txt \in Seq(TextMarks), NEW size \in Nat, NEW u \in UnitSet, Source(txt, u),
         NEW m, Sound(txt, size, m, u.start), Open(txt, m.cur, u.start)
  PROVE  Roomed(txt, size, m, u)
  <1>1. PICK hd, src : Shaped(txt, m.cur, hd, src, u.start) /\ (m.cur = <<>> \/ src # <<>>)
    BY DEF Open
  <1>2. PICK cur : cur = m.cur
    OBVIOUS
  <1>3. CASE cur = <<>>
    <2>1. Shaped(txt, cur, <<>>, <<>>, u.start)
      BY <1>3, NoShape
    <2>2. Fits(m.chunks, Build(Append(cur, u)), size)
      BY <2>1, PlainRoomed
    <2> QED BY <1>2, <2>2 DEF Roomed
  <1>4. CASE src # <<>>
    <2>1. PICK a, b : a = Build(cur) /\ b = Build(Append(cur, u))
      OBVIOUS
    <2>2. Shaped(txt, cur, hd, src, u.start)
      BY <1>1, <1>2
    <2>3. Grown(cur, u, hd, src)
      BY <2>2, BuildMore
    <2>4. b.syn = RunesOf(hd) /\ b.start = src[1].start /\ Len(b.content) = RunesOf(cur) + Len(u.text)
      BY <1>4, <2>1, <2>3 DEF Grown
    <2>5. a.syn = RunesOf(hd) /\ a.content = TextOf(cur) /\ a.start = src[1].start
      <3>1. Build(cur).syn = RunesOf(hd) /\ Build(cur).content = TextOf(cur)
        BY <2>2, BuildTrue
      <3>2. Build(cur).start = IF src = <<>> THEN 0 ELSE src[1].start
        BY <2>2, BuildTrue
      <3> QED BY <1>4, <2>1, <3>1, <3>2
    <2>6. Fits(m.chunks, a, size) /\ m.chunks \in Seq(TrueSet(txt))
      BY <1>2, <2>1 DEF Sound, Accs
    <2>7. PICK l \in Nat, w \in Nat : l = Len(u.text) /\ w = RunesOf(cur)
      <3>1. cur \in Seq(UnitSet) /\ u.text \in Seq(TextMarks)
        BY <2>2, ShapeIs DEF UnitSet
      <3> QED BY <3>1, TextIsText, LenProperties
    <2>8. Len(a.content) = w /\ Len(b.content) = w + l
      BY <2>4, <2>5, <2>7 DEF RunesOf
    <2>9. ASSUME b.syn > 0 PROVE Len(m.chunks) > 0 /\ Unmerged(m.chunks[Len(m.chunks)], b, size)
      <3>1. PICK n, c : n \in Nat /\ n = Len(m.chunks) /\ c = m.chunks[n]
        BY <2>6, LenProperties
      <3>2. n > 0 /\ (c.end # a.start \/ Len(c.content) + w > size)
        BY <2>4, <2>5, <2>6, <2>8, <2>9, <3>1 DEF Fits, Unmerged
      <3>3. PICK d \in Nat : d = Len(c.content)
        <4>1. n \in 1..Len(m.chunks)
          BY <3>1, <3>2
        <4>2. c \in TrueSet(txt)
          BY <2>6, <3>1, <4>1, ElementOfSeq
        <4> QED BY <4>2, TrueIs
      <3>4. d + w > size => d + (w + l) > size
        OBVIOUS
      <3>5. c.end # b.start \/ Len(c.content) + Len(b.content) > size
        BY <2>4, <2>5, <2>8, <3>2, <3>3, <3>4
      <3> QED BY <3>1, <3>2, <3>5 DEF Unmerged
    <2>10. Fits(m.chunks, b, size)
      BY <2>9 DEF Fits
    <2> QED BY <1>2, <2>1, <2>10 DEF Roomed
  <1> QED BY <1>1, <1>2, <1>3, <1>4

\* What follows on a flushed chunk: the overlap starts before its end, and a header
\* alone makes the two too long for one.
LEMMA OpeningFits ==
  ASSUME NEW txt \in Seq(TextMarks), NEW size \in Nat, NEW u \in UnitSet, Source(txt, u),
         NEW chunks \in Seq(TrueSet(txt)), NEW b \in TrueSet(txt), b.end = u.start, b.start < b.end,
         Len(b.content) + Len(u.text) + 1 > size,
         NEW x, NEW hd, NEW src, Shaped(txt, x, hd, src, u.start), RunesOf(hd) = 1
  PROVE  Fits(Append(chunks, b), Build(x), size) /\ Fits(Append(chunks, b), Build(Append(x, u)), size)
  <1>1. PICK s \in Nat, w \in Nat, l \in Nat :
          s = u.start /\ w = Len(b.content) /\ l = Len(u.text) /\ w + l + 1 > size /\ b.end = s /\ s # 0
    <2>1. u.start \in Nat /\ u.text \in Seq(TextMarks)
      BY SourceText
    <2>2. Len(u.text) \in Nat /\ Len(b.content) \in Nat /\ b.start \in Nat
      BY <2>1, TrueIs, LenProperties
    <2>3. PICK s \in Nat, w \in Nat, l \in Nat : s = u.start /\ w = Len(b.content) /\ l = Len(u.text)
      BY <2>1, <2>2
    <2>4. w + l + 1 > size
      BY <2>3
    <2>5. s # 0 /\ b.end = s
      <3>1. PICK z \in Nat : z = b.start /\ z < s
        BY <2>2, <2>3
      <3> QED BY <2>3, <3>1
    <2> QED BY <2>3, <2>4, <2>5
  <1>2. PICK y, z : y = Build(x) /\ z = Build(Append(x, u))
    OBVIOUS
  <1>3. y.start = IF src = <<>> THEN 0 ELSE src[1].start
    <2>1. Build(x).start = IF src = <<>> THEN 0 ELSE src[1].start
      BY BuildTrue
    <2> QED BY <1>2, <2>1
  <1>4. z.start = (IF src = <<>> THEN s ELSE src[1].start) /\ Len(z.content) = RunesOf(x) + l
    <2>1. Grown(x, u, hd, src)
      BY BuildMore
    <2> QED BY <1>1, <1>2, <2>1 DEF Grown
  <1>5. Unmerged(b, y, size) /\ Unmerged(b, z, size)
    <2>1. CASE src = <<>>
      <3>1. RunesOf(x) = 1
        <4>1. RunesOf(x) = RunesOf(hd) + RunesOf(src)
          BY ShapeIs
        <4> QED BY <2>1, <4>1, NoText
      <3>2. Len(b.content) + Len(z.content) > size
        <4>1. PICK v \in Nat : v = 1 + l /\ w + v > size
          <5>1. w + l + 1 > size
            BY <1>1
          <5>2. 1 + l \in Nat /\ w + (1 + l) > size
            BY <5>1
          <5> QED BY <5>2
        <4>2. Len(z.content) = v /\ Len(b.content) = w
          BY <1>1, <1>4, <3>1, <4>1
        <4> QED BY <4>1, <4>2
      <3>3. b.end # y.start
        BY <1>1, <1>3, <2>1
      <3> QED BY <3>2, <3>3 DEF Unmerged
    <2>2. CASE src # <<>>
      <3>1. Linked(txt, src, u.start)
        BY DEF Shaped
      <3>2. src[1].start \in Nat /\ src[1].start < s
        BY <1>1, <2>2, <3>1, ChainText
      <3>3. b.end # y.start /\ b.end # z.start
        BY <1>1, <1>3, <1>4, <2>2, <3>2
      <3> QED BY <3>3 DEF Unmerged
    <2> QED BY <2>1, <2>2
  <1>6. PICK n, t : n \in Nat /\ t = Append(chunks, b) /\ n = Len(t) /\ n > 0 /\ t[n] = b
    <2>1. PICK k, t : k \in Nat /\ k = Len(chunks) /\ t = Append(chunks, b)
      BY LenProperties
    <2>2. Len(t) = k + 1 /\ t[k+1] = b
      BY <2>1, AppendProperties
    <2>3. PICK n \in Nat : n = k + 1 /\ n > 0
      <3>1. k + 1 \in Nat /\ k + 1 > 0
        BY <2>1
      <3> QED BY <3>1
    <2>4. t = Append(chunks, b) /\ n = Len(t) /\ n > 0 /\ t[n] = b
      BY <2>1, <2>2, <2>3
    <2> QED BY <2>4
  <1>7. Fits(t, y, size) /\ Fits(t, z, size)
    BY <1>5, <1>6 DEF Fits
  <1> QED BY <1>2, <1>6, <1>7

\* There is room for the unit after MakeRoom.
LEMMA MakeRoomSound ==
  ASSUME NEW txt \in Seq(TextMarks), NEW size \in Nat, NEW u \in UnitSet, Source(txt, u),
         NEW m, Sound(txt, size, m, u.start), Open(txt, m.cur, u.start), NEW head, NEW overlap \in Int,
         head = 1 /\ u.text # <<"T">> => m.cur = <<>> \/ ~BlankText(TextOf(m.cur))
  PROVE  Roomed(txt, size, MakeRoom(m, u, head, size, overlap), u)
         /\ MakeRoom(m, u, head, size, overlap).ht = m.ht
  <1>1. CASE ~(m.cur # <<>> /\ RunesOf(m.cur) + Len(u.text) + head > size)
    <2>1. MakeRoom(m, u, head, size, overlap) = m
      BY <1>1 DEF MakeRoom
    <2>2. Roomed(txt, size, m, u)
      BY StaysRoomed
    <2> QED BY <2>1, <2>2
  <1>2. CASE m.cur # <<>> /\ RunesOf(m.cur) + Len(u.text) + head > size
    <2>1. PICK most \in Int : most = Least(overlap, size - Len(u.text))
      <3>1. PICK l \in Nat : l = Len(u.text)
        BY LenProperties DEF UnitSet
      <3>2. Least(overlap, size - l) \in Int
        BY DEF Least
      <3> QED BY <3>1, <3>2
    <2>2. PICK f, x : f = Flush(m) /\ x = Opening(Carry(m.cur, most), u, head, size)
      OBVIOUS
    <2>3. PICK r : r = [f EXCEPT !.cur = x]
      OBVIOUS
    <2>4. MakeRoom(m, u, head, size, overlap) = r
      BY <1>2, <2>1, <2>2, <2>3 DEF MakeRoom
    <2>5. /\ Settled(txt, f.chunks, size, 0, u.start) /\ f \in Accs(txt) /\ f.ht = m.ht
          /\ f.chunks = IF BlankText(TextOf(m.cur)) THEN m.chunks ELSE Append(m.chunks, Build(m.cur))
      BY <2>2, FlushSound
    <2>6. PICK hd, src : Shaped(txt, m.cur, hd, src, u.start) /\ src # <<>>
      BY <1>2 DEF Open
    <2>7. Linked(txt, Carry(m.cur, most), u.start)
      BY <2>6, CarryChain
    <2>8. PICK hx, sx : /\ Shaped(txt, x, hx, sx, u.start)
                        /\ (hx = <<>> \/ (head = 1 /\ u.text # <<"T">> /\ RunesOf(hx) = 1))
      BY <2>2, <2>7, OpeningShape
    <2>9. Fits(f.chunks, Build(x), size) /\ Fits(f.chunks, Build(Append(x, u)), size)
      <3>1. CASE hx = <<>>
        <4>1. Shaped(txt, x, <<>>, sx, u.start)
          BY <2>8, <3>1
        <4> QED BY <4>1, PlainRoomed
      <3>2. CASE head = 1 /\ u.text # <<"T">> /\ RunesOf(hx) = 1
        <4>1. PICK b, cs : b = Build(m.cur) /\ cs = m.chunks
          OBVIOUS
        <4>2. f.chunks = Append(cs, b)
          BY <1>2, <2>5, <3>2, <4>1
        <4>3. cs \in Seq(TrueSet(txt))
          BY <4>1 DEF Sound, Accs
        <4>4. b \in TrueSet(txt) /\ b.content = TextOf(m.cur)
          BY <2>6, <4>1, BuildTrue
        <4>5. b.end = u.start /\ b.start < b.end
          <5>1. b.start = IF src = <<>> THEN 0 ELSE src[1].start
            BY <2>6, <4>1, BuildTrue
          <5>2. b.end = IF src = <<>> THEN 0 ELSE u.start
            BY <2>6, <4>1, BuildTrue
          <5>3. Linked(txt, src, u.start)
            BY <2>6 DEF Shaped
          <5>4. src[1].start < u.start
            BY <2>6, <5>3, ChainText
          <5> QED BY <2>6, <5>1, <5>2, <5>4
        <4>6. Len(b.content) + Len(u.text) + 1 > size
          BY <1>2, <3>2, <4>4 DEF RunesOf
        <4>7. Fits(Append(cs, b), Build(x), size) /\ Fits(Append(cs, b), Build(Append(x, u)), size)
          BY <2>8, <3>2, <4>3, <4>4, <4>5, <4>6, OpeningFits
        <4> QED BY <4>2, <4>7
      <3> QED BY <2>8, <3>1, <3>2
    <2>10. x \in Seq(UnitSet)
      BY <2>8, ShapeIs
    <2>11. r \in Accs(txt) /\ r.chunks = f.chunks /\ r.cur = x /\ r.ht = m.ht
      BY <2>3, <2>5, <2>10 DEF Accs
    <2>12. Guarded(r.chunks, size) /\ \A i \in 1..u.start : txt[i] # "n" => Held(r.chunks, i)
      BY <2>5, <2>11 DEF Settled
    <2>13. Sound(txt, size, r, u.start)
      BY <2>8, <2>9, <2>11, <2>12 DEF Sound
    <2>14. Roomed(txt, size, r, u)
      BY <2>9, <2>11, <2>13 DEF Roomed
    <2> QED BY <2>4, <2>11, <2>14
  <1> QED BY <1>1, <1>2

\* A table that is open has words in the chunk that is open.
Marked(m) == m.ht.active => m.cur = <<>> \/ ~BlankText(TextOf(m.cur))

\* Between two units
Merged(txt, size, m, at) == Sound(txt, size, m, at) /\ Open(txt, m.cur, at) /\ Marked(m)

\* No units are open.
LEMMA NoneOpen == \A txt, at : Open(txt, <<>>, at)
  BY NoShape DEF Open

\* The tracker is active after a mark of a table only.
LEMMA ActiveMarks ==
  ASSUME NEW txt \in Seq(TextMarks), NEW u \in UnitSet, Source(txt, u), NEW ht, TrackHeader(ht, u).active
  PROVE  ~BlankText(u.text) /\ (ht.active \/ u.text = <<"T">>)
  <1>1. u.text[1] \in TableMarks \/ u.text = <<"T">>
    BY DEF TrackHeader
  <1>2. ht.active \/ u.text = <<"T">>
    BY DEF TrackHeader
  <1>3. u.text[1] # "n"
    <2>1. CASE u.text = <<"T">>
      BY <2>1
    <2>2. CASE u.text[1] \in TableMarks
      BY <2>2 DEF TableMarks
    <2> QED BY <1>1, <2>1, <2>2
  <1>4. 1 \in DOMAIN u.text
    <2>1. PICK t \in Seq(TextMarks), n \in Nat : t = u.text /\ n = Len(t) /\ n > 0
      <3>1. u.text \in Seq(TextMarks) /\ Len(u.text) = u.end - u.start
        BY SourceText
      <3>2. u.end - u.start \in Nat /\ u.end - u.start > 0
        BY SourceText
      <3> QED BY <3>1, <3>2
    <2>2. 1 \in 1..n
      BY <2>1
    <2> QED BY <2>1, <2>2, LenProperties
  <1> QED BY <1>2, <1>3, <1>4 DEF BlankText

\* One turn of mergeUnits takes it from one unit to the next.
LEMMA TurnSound ==
  ASSUME NEW txt \in Seq(TextMarks), NEW size \in Nat, NEW u \in UnitSet, Source(txt, u),
         NEW m, Merged(txt, size, m, u.start), NEW ht, ht = TrackHeader(m.ht, u), NEW overlap \in Int
  PROVE  Merged(txt, size, Turn(m, u, ht, size, overlap), u.end)
  <1>1. PICK f : f = Flush(m)
    OBVIOUS
  <1>2. Sound(txt, size, m, u.start) /\ Open(txt, m.cur, u.start) /\ Marked(m) /\ m \in Accs(txt)
    BY DEF Merged, Sound
  <1>3. Settled(txt, f.chunks, size, 0, u.start) /\ f \in Accs(txt) /\ f.cur = <<>>
    BY <1>1, <1>2, FlushSound
  <1>4. ht \in HeaderSet
    BY TrackIs
  <1>5. CASE Len(u.text) > AbsoluteMax
    <2>1. PICK cs, t : cs = f.chunks \o Chop(u) /\ t = [f EXCEPT !.ht = ht, !.chunks = cs]
      OBVIOUS
    <2>2. Turn(m, u, ht, size, overlap) = t
      BY <1>1, <1>5, <2>1 DEF Turn
    <2>3. Settled(txt, cs, size, 0, u.end)
      <3>1. PICK x, y : x = f.chunks /\ y = Chop(u)
        OBVIOUS
      <3>20. 0 \in Nat /\ u.start \in Nat /\ u.end \in Nat
        BY SourceText
      <3>2. PICK z \in Nat, s \in Nat, e \in Nat : z = 0 /\ s = u.start /\ e = u.end
        BY <3>20
      <3>3. Settled(txt, x, size, z, s) /\ Settled(txt, y, size, s, e)
        BY <1>3, <3>1, <3>2, ChopSettled
      <3>4. s <= s
        OBVIOUS
      <3>5. Settled(txt, x \o y, size, z, e)
        BY <3>3, <3>4, SettledConcat
      <3> QED BY <2>1, <3>1, <3>2, <3>5
    <2>4. cs \in Seq(TrueSet(txt))
      BY <2>3 DEF Settled
    <2>5. t \in Accs(txt) /\ t.chunks = cs /\ t.cur = <<>>
      BY <1>3, <1>4, <2>1, <2>4 DEF Accs
    <2>6. Sound(txt, size, t, u.end)
      BY <2>3, <2>5, ClosedSound
    <2>7. Open(txt, t.cur, u.end) /\ Marked(t)
      BY <2>5, NoneOpen DEF Marked
    <2> QED BY <2>2, <2>6, <2>7, SMTT(30) DEF Merged
  <1>6. CASE ~(Len(u.text) > AbsoluteMax)
    <2>1. PICK o, g : o = (IF ht.ended THEN f ELSE m) /\ g = [o EXCEPT !.ht = ht]
      OBVIOUS
    <2>2. PICK head : head = IF ht.active /\ 1 <= size THEN 1 ELSE 0
      OBVIOUS
    <2>3. Turn(m, u, ht, size, overlap) = Take(MakeRoom(g, u, head, size, overlap), u)
      BY <1>1, <1>6, <2>1, <2>2 DEF Turn
    <2>4. /\ Sound(txt, size, o, u.start) /\ Open(txt, o.cur, u.start) /\ o \in Accs(txt)
          /\ (o.cur = m.cur \/ o.cur = <<>>)
      <3>1. CASE ht.ended
        <4>1. Sound(txt, size, f, u.start) /\ Open(txt, f.cur, u.start)
          BY <1>3, ClosedSound, NoneOpen
        <4> QED BY <1>3, <2>1, <3>1, <4>1
      <3>2. CASE ~ht.ended
        BY <1>2, <2>1, <3>2
      <3> QED BY <3>1, <3>2
    <2>5. g \in Accs(txt) /\ g.chunks = o.chunks /\ g.cur = o.cur /\ g.ht = ht
      BY <1>4, <2>1, <2>4 DEF Accs
    <2>6. Sound(txt, size, g, u.start) /\ Open(txt, g.cur, u.start)
      BY <2>4, <2>5 DEF Sound
    <2>7. head = 1 /\ u.text # <<"T">> => g.cur = <<>> \/ ~BlankText(TextOf(g.cur))
      <3> SUFFICES ASSUME head = 1, u.text # <<"T">> PROVE g.cur = <<>> \/ ~BlankText(TextOf(g.cur))
        OBVIOUS
      <3>1. TrackHeader(m.ht, u).active
        BY <2>2
      <3>2. m.ht.active
        BY <3>1, ActiveMarks
      <3> QED BY <1>2, <2>4, <2>5, <3>2 DEF Marked
    <2>8. PICK r : r = MakeRoom(g, u, head, size, overlap)
      OBVIOUS
    <2>9. Roomed(txt, size, r, u) /\ r.ht = ht
      <3>1. Roomed(txt, size, MakeRoom(g, u, head, size, overlap), u)
            /\ MakeRoom(g, u, head, size, overlap).ht = g.ht
        BY <2>6, <2>7, MakeRoomSound
      <3> QED BY <2>5, <2>8, <3>1
    <2>10. PICK t : t = Take(r, u)
      OBVIOUS
    <2>11. /\ Sound(txt, size, t, u.end) /\ Open(txt, t.cur, u.end) /\ t.ht = ht
           /\ ~BlankText(u.text) => ~BlankText(TextOf(t.cur))
      <3>1. Sound(txt, size, r, u.start) /\ Fits(r.chunks, Build(Append(r.cur, u)), size)
        BY <2>9 DEF Roomed
      <3>2. /\ Sound(txt, size, Take(r, u), u.end) /\ Open(txt, Take(r, u).cur, u.end) /\ Take(r, u).ht = r.ht
            /\ ~BlankText(u.text) => ~BlankText(TextOf(Take(r, u).cur))
        BY <3>1, TakeSound
      <3> QED BY <2>9, <2>10, <3>2
    <2>12. Marked(t)
      <3>1. ht.active => ~BlankText(u.text)
        BY ActiveMarks
      <3> QED BY <2>11, <3>1 DEF Marked
    <2> QED BY <2>3, <2>8, <2>10, <2>11, <2>12 DEF Merged
  <1> QED BY <1>5, <1>6

\* Before the first unit
LEMMA FirstMerged ==
  ASSUME NEW txt \in Seq(TextMarks), NEW size, NEW m, m = [chunks |-> <<>>, cur |-> <<>>, ht |-> NoHeader]
  PROVE  Merged(txt, size, m, 0)
  <1>1. m \in Accs(txt) /\ m.cur = <<>> /\ m.chunks = <<>> /\ ~m.ht.active
    <2>1. <<>> \in Seq(TrueSet(txt)) /\ <<>> \in Seq(UnitSet) /\ NoHeader \in HeaderSet
      BY DEF NoHeader, HeaderSet
    <2> QED BY <2>1 DEF Accs, NoHeader
  <1>2. Settled(txt, <<>>, size, 0, 0)
    BY NoneSettled
  <1>3. Sound(txt, size, m, 0)
    BY <1>1, <1>2, ClosedSound
  <1> QED BY <1>1, <1>3, NoneOpen DEF Merged, Marked

\* Units that follow one another in a text, from its start to its end
Through(txt, us) ==
  /\ Linked(txt, us, Len(txt)) /\ (us # <<>> => us[1].start = 0) /\ (us = <<>> => Len(txt) = 0)

\* mergeUnits settles what they follow.
LEMMA MergeSettled ==
  ASSUME NEW txt \in Seq(TextMarks), NEW us, Through(txt, us), NEW size \in Nat, NEW overlap \in Int
  PROVE  Settled(txt, MergeUnits(us, size, overlap), size, 0, Len(txt))
  <1>1. us \in Seq(UnitSet) /\ Linked(txt, us, Len(txt))
    BY DEF Through, Linked
  <1>2. PICK n \in Nat : n = Len(us)
    BY <1>1, LenProperties
  <1>3. PICK cap \in Caps : size <= cap
    <2>1. PICK A \in Nat : A = AbsoluteMax
      BY Limits
    <2>2. Most(size, A) \in Nat /\ A <= Most(size, A) /\ size <= Most(size, A)
      BY DEF Most
    <2> QED BY <2>1, <2>2 DEF Caps
  <1>4. PICK h \in [0..n -> Merging(cap)] :
          Merges(h, us, n, size, overlap) /\ MergeUnits(us, size, overlap) = Flush(h[n]).chunks
    BY <1>1, <1>2, <1>3, MergeSteps
  <1> DEFINE at(k) == IF k = 0 THEN 0 ELSE us[k].end
             Q == {k \in 0..n : Merged(txt, size, h[k], at(k))}
  <1>5. 0 \in Q
    <2>1. h[0] = [chunks |-> <<>>, cur |-> <<>>, ht |-> NoHeader]
      BY <1>4 DEF Merges
    <2>2. Merged(txt, size, h[0], 0)
      BY <2>1, FirstMerged
    <2>3. at(0) = 0 /\ 0 \in 0..n
      OBVIOUS
    <2> HIDE DEF at
    <2> QED BY <2>2, <2>3
  <1>6. ASSUME NEW k \in 0..(n-1), k \in Q PROVE k + 1 \in Q
    <2>1. PICK d \in 1..n : d = k + 1 /\ d - 1 = k
      OBVIOUS
    <2>2. d \in 1..Len(us)
      BY <1>2
    <2>3. PICK u \in UnitSet : u = us[d] /\ Source(txt, u)
      BY <1>1, <2>2, ChainHas
    <2>4. u.start = at(k)
      <3>1. CASE k = 0
        <4>1. us # <<>> /\ d = 1
          BY <1>2, <2>1, <3>1, EmptySeq
        <4> QED BY <2>3, <3>1, <4>1 DEF Through
      <3>2. CASE k # 0
        <4>1. k \in 1..Len(us) /\ k # Len(us) /\ k + 1 = d
          BY <1>2, <2>1, <3>2
        <4>2. us[k].end = us[k+1].start
          BY <1>1, <4>1, ChainHas
        <4> QED BY <2>3, <3>2, <4>1, <4>2
      <3> QED BY <3>1, <3>2
    <2>5. h[d] = Turn(h[k], us[d], TrackHeader(h[k].ht, us[d]), size, overlap)
      BY <1>4, <2>1 DEF Merges
    <2>6. PICK ht : ht = TrackHeader(h[k].ht, u)
      OBVIOUS
    <2>7. Merged(txt, size, h[k], u.start)
      <3> HIDE DEF at
      <3> QED BY <1>6, <2>4
    <2>8. Merged(txt, size, Turn(h[k], u, ht, size, overlap), u.end)
      BY <2>3, <2>6, <2>7, TurnSound
    <2>9. at(d) = u.end /\ d \in 0..n
      BY <2>3
    <2> HIDE DEF at
    <2>10. Merged(txt, size, h[d], at(d))
      BY <2>3, <2>5, <2>6, <2>8, <2>9
    <2> QED BY <2>1, <2>9, <2>10
  <1>7. n \in Q
    <2>1. 0 \in Int /\ n \in Int /\ n \in 0..n
      OBVIOUS
    <2>2. \A k \in 0..n : k \in Q
      <3> HIDE DEF Q
      <3> QED BY <1>5, <1>6, <2>1, IntervalInduction
    <2> QED BY <2>1, <2>2
  <1>8. at(n) = Len(txt)
    <2>1. CASE n = 0
      <3>1. us = <<>>
        BY <1>1, <1>2, <2>1, EmptySeq
      <3> QED BY <2>1, <3>1 DEF Through
    <2>2. CASE n # 0
      <3>1. n \in 1..Len(us)
        BY <1>2, <2>2
      <3>2. us[n].end = Len(txt)
        BY <1>1, <1>2, <3>1, ChainHas
      <3> QED BY <2>2, <3>2
    <2> QED BY <2>1, <2>2
  <1> HIDE DEF at
  <1>9. Sound(txt, size, h[n], Len(txt))
    BY <1>7, <1>8 DEF Merged
  <1> QED BY <1>4, <1>9, FlushSound

\* The offsets of S, in order
Cutpoints(at, S, n) ==
  /\ at \in Seq(0..n)
  /\ \A a, b \in 1..Len(at) : a < b => at[a] < at[b]
  /\ \A j \in 1..Len(at) : at[j] \in S
  /\ \A s \in 0..n : s \in S => \E j \in 1..Len(at) : at[j] = s

\* InOrder returns them.
LEMMA CutpointsIn ==
  ASSUME NEW S \in SUBSET Int, NEW txt, NEW n \in Nat, n = Len(txt)
  PROVE  Cutpoints(InOrder(S, txt), S, n)
  <1>1. PICK e : e = [i \in 1..(n+1) |-> i - 1]
    OBVIOUS
  <1>2. e \in Seq(0..n) /\ Len(e) = n + 1
    <2>1. n + 1 \in Nat /\ e = [i \in 1..(n+1) |-> e[i]] /\ \A i \in 1..(n+1) : e[i] \in 0..n
      BY <1>1
    <2>2. e \in Seq(0..n)
      BY <2>1, Listed
    <2>3. DOMAIN e = 1..(n+1)
      BY <1>1
    <2> QED BY <2>1, <2>2, <2>3, LenProperties
  <1>3. PICK P, k : P = {b + 1 : b \in S} /\ k = Kept(e, P)
    OBVIOUS
  <1>4. InOrder(S, txt) = k
    BY <1>1, <1>3 DEF InOrder
  <1>5. k \in Seq(0..n) /\ Picks(k, e, P, n + 1)
    BY <1>2, <1>3, KeptPicks
  <1>6. PICK m \in 0..(n+1) : \E g \in [1..m -> 1..(n+1)] :
          /\ k = [j \in 1..m |-> e[g[j]]]
          /\ \A j \in 1..m : g[j] \in P
          /\ \A i \in 1..(n+1) : i \in P => \E j \in 1..m : g[j] = i
          /\ \A a, b \in 1..m : a < b => g[a] < g[b]
    BY <1>5 DEF Picks
  <1>7. PICK g \in [1..m -> 1..(n+1)] :
          /\ k = [j \in 1..m |-> e[g[j]]]
          /\ \A j \in 1..m : g[j] \in P
          /\ \A i \in 1..(n+1) : i \in P => \E j \in 1..m : g[j] = i
          /\ \A a, b \in 1..m : a < b => g[a] < g[b]
    BY <1>6
  <1>8. Len(k) = m
    <2>1. DOMAIN k = 1..m /\ m \in Nat
      BY <1>7
    <2> QED BY <1>5, <2>1, LenProperties
  <1>9. \A j \in 1..m : k[j] = g[j] - 1
    BY <1>1, <1>7
  <1>10. \A a, b \in 1..m : a < b => k[a] < k[b]
    BY <1>7, <1>9
  <1>11. ASSUME NEW j \in 1..m PROVE k[j] \in S
    <2>1. PICK b \in S : g[j] = b + 1
      BY <1>3, <1>7
    <2>2. b \in Int
      OBVIOUS
    <2> QED BY <1>9, <2>1, <2>2
  <1>12. ASSUME NEW s \in 0..n, s \in S PROVE \E j \in 1..m : k[j] = s
    <2>1. s + 1 \in P /\ s + 1 \in 1..(n+1)
      BY <1>3, <1>12
    <2>2. PICK j \in 1..m : g[j] = s + 1
      BY <1>7, <2>1
    <2> QED BY <1>9, <2>2, SMTT(30)
  <1>13. Cutpoints(k, S, n)
    BY <1>5, <1>8, <1>10, <1>11, <1>12 DEF Cutpoints
  <1> QED BY <1>4, <1>13

\* If the text's last offset is among them it is the last, and the first the first.
LEMMA CutpointsEnd ==
  ASSUME NEW n \in Nat, NEW at, NEW S, Cutpoints(at, S, n), NEW m \in Nat, m = Len(at)
  PROVE  /\ \A k \in 1..m : at[k] \in 0..n
         /\ n \in S => m > 0 /\ at[m] = n
         /\ 0 \in S => m > 0 /\ at[1] = 0
  <1>1. ASSUME NEW k \in 1..m PROVE at[k] \in 0..n
    <2>1. at \in Seq(0..n) /\ k \in 1..Len(at)
      BY DEF Cutpoints
    <2> QED BY <2>1, ElementOfSeq
  <1>2. \A a, b \in 1..m : a < b => at[a] < at[b]
    BY DEF Cutpoints
  <1>3. ASSUME n \in S PROVE m > 0 /\ at[m] = n
    <2>1. PICK j \in 1..m : at[j] = n
      BY <1>3 DEF Cutpoints
    <2>2. m \in 1..m
      OBVIOUS
    <2>3. j < m => at[j] < at[m]
      BY <1>2, <2>2
    <2>4. at[m] \in 0..n
      BY <1>1, <2>2
    <2>5. j = m
      BY <2>1, <2>3, <2>4
    <2> QED BY <2>1, <2>5
  <1>4. ASSUME 0 \in S PROVE m > 0 /\ at[1] = 0
    <2>1. PICK j \in 1..m : at[j] = 0
      <3>1. 0 \in 0..n
        OBVIOUS
      <3> QED BY <1>4, <3>1 DEF Cutpoints
    <2>2. 1 \in 1..m
      BY <2>1
    <2>3. 1 < j => at[1] < at[j]
      BY <1>2, <2>2
    <2>4. at[1] \in 0..n
      BY <1>1, <2>2
    <2>5. j = 1
      BY <2>1, <2>3, <2>4
    <2> QED BY <2>1, <2>5
  <1> QED BY <1>1, <1>3, <1>4

\* The units of a text follow one another through it.
LEMMA UnitsThrough ==
  ASSUME NEW txt \in Seq(TextMarks), NEW size
  PROVE  Through(txt, Units(txt, size))
  <1>1. PICK n \in Nat : n = Len(txt) /\ DOMAIN txt = 1..n
    BY LenProperties
  <1>2. PICK S : S = {i \in 1..n : UnitEnds(txt, i, size)}
    OBVIOUS
  <1>3. PICK ends : ends = InOrder(S, txt)
    OBVIOUS
  <1>4. Cutpoints(ends, S, n) /\ ends \in Seq(0..n)
    <2>1. S \in SUBSET Int
      BY <1>2
    <2>2. Cutpoints(InOrder(S, txt), S, n)
      BY <1>1, <2>1, CutpointsIn
    <2> QED BY <1>3, <2>2 DEF Cutpoints
  <1>5. PICK m \in Nat : m = Len(ends) /\ DOMAIN ends = 1..m
    BY <1>4, LenProperties
  <1>6. n > 0 => n \in S
    BY <1>1, <1>2 DEF UnitEnds
  <1>7. \A k \in 1..m : ends[k] \in 1..n
    <2>1. \A k \in 1..m : ends[k] \in S
      BY <1>4, <1>5 DEF Cutpoints
    <2> QED BY <1>2, <2>1
  <1>8. \A a, b \in 1..m : a < b => ends[a] < ends[b]
    BY <1>4, <1>5 DEF Cutpoints
  <1>9. n > 0 => m > 0 /\ ends[m] = n
    BY <1>4, <1>5, <1>6, CutpointsEnd
  <1>10. PICK us : us = Units(txt, size)
    OBVIOUS
  <1>11. us = [k \in 1..m |-> UnitOf(txt, IF k = 1 THEN 0 ELSE ends[k-1], ends[k])]
    BY <1>1, <1>2, <1>3, <1>5, <1>10 DEF Units
  <1>12. us \in Seq(UnitSet)
    BY <1>10, UnitsAre
  <1>13. Len(us) = m
    <2>1. DOMAIN us = 1..m
      BY <1>11
    <2> QED BY <1>12, <2>1, LenProperties
  <1>14. ASSUME NEW k \in 1..m
         PROVE  /\ us[k].start = IF k = 1 THEN 0 ELSE ends[k-1]
                /\ us[k].end = ends[k] /\ Source(txt, us[k])
    <2>1. PICK b \in 1..n : b = ends[k]
      BY <1>7
    <2>2. PICK a \in 0..n : a = (IF k = 1 THEN 0 ELSE ends[k-1]) /\ a < b
      <3>1. CASE k = 1
        <4>1. 0 \in 0..n /\ 0 < b
          OBVIOUS
        <4> QED BY <3>1, <4>1
      <3>2. CASE k # 1
        <4>1. k - 1 \in 1..m /\ k - 1 < k
          BY <3>2
        <4>2. ends[k-1] \in 1..n /\ ends[k-1] < ends[k]
          BY <1>7, <1>8, <4>1
        <4>3. ends[k-1] \in 0..n
          BY <4>2
        <4> QED BY <2>1, <3>2, <4>2, <4>3
      <3> QED BY <3>1, <3>2
    <2>3. us[k] = UnitOf(txt, a, b)
      BY <1>11, <2>1, <2>2
    <2>4. us[k].start = a /\ us[k].end = b /\ us[k].text = Slice(txt, a, b)
      BY <2>3 DEF UnitOf
    <2>5. Source(txt, us[k])
      BY <1>1, <2>2, <2>4 DEF Source
    <2> QED BY <2>1, <2>2, <2>4, <2>5
  <1>15. ASSUME NEW k \in 1..m PROVE us[k].end = IF k = m THEN n ELSE us[k+1].start
    <2>1. CASE k = m
      <3>1. n > 0
        BY <1>7
      <3> QED BY <1>9, <1>14, <2>1, <3>1
    <2>2. CASE k # m
      <3>1. PICK d \in 1..m : d = k + 1
        BY <2>2
      <3>2. d # 1 /\ d - 1 = k
        BY <3>1
      <3>3. us[d].start = ends[k]
        BY <1>14, <3>2
      <3> QED BY <1>14, <2>2, <3>1, <3>3
    <2> QED BY <2>1, <2>2
  <1>16. Linked(txt, us, Len(txt))
    BY <1>1, <1>12, <1>13, <1>14, <1>15 DEF Linked
  <1>17. us # <<>> => us[1].start = 0
    <2> SUFFICES ASSUME us # <<>> PROVE us[1].start = 0
      OBVIOUS
    <2>1. m # 0
      BY <1>12, <1>13, EmptySeq
    <2>2. 1 \in 1..m
      BY <2>1
    <2> QED BY <1>14, <2>2
  <1>18. us = <<>> => Len(txt) = 0
    <2> SUFFICES ASSUME us = <<>> PROVE Len(txt) = 0
      OBVIOUS
    <2>1. m = 0
      BY <1>12, <1>13, EmptySeq
    <2> QED BY <1>1, <1>9, <2>1
  <1> QED BY <1>10, <1>16, <1>17, <1>18 DEF Through

\* The legacy tier settles its text.
LEMMA SplitSettled ==
  ASSUME NEW txt \in Seq(TextMarks), NEW size \in Nat, NEW overlap \in Int
  PROVE  Settled(txt, SplitText(txt, size, overlap), size, 0, Len(txt))
  <1>1. Through(txt, Units(txt, size))
    BY UnitsThrough
  <1>2. Settled(txt, MergeUnits(Units(txt, size), size, overlap), size, 0, Len(txt))
    BY <1>1, MergeSettled
  <1> QED BY <1>2 DEF SplitText

-----------------------------------------------------------------------------
(*************************************************************************)
(* The heading tier: sections split apart, shifted and coalesced         *)
(*************************************************************************)

\* The same chunks, a further on; the breadcrumbs apart
Moved(cs, ds, a) ==
  /\ ds \in Seq(ChunkSet) /\ Len(ds) = Len(cs)
  /\ \A k \in 1..Len(cs) : /\ ds[k].content = cs[k].content /\ ds[k].syn = cs[k].syn
                           /\ ds[k].start = cs[k].start + a /\ ds[k].end = cs[k].end + a

\* A faithful chunk of a slice is one of the text.
LEMMA ShiftTrue ==
  ASSUME NEW txt \in Seq(TextMarks), NEW a \in Nat, NEW b \in Nat, a <= b, b <= Len(txt),
         NEW c \in TrueSet(Slice(txt, a, b)), NEW d \in ChunkSet,
         d.content = c.content, d.syn = c.syn, d.start = c.start + a, d.end = c.end + a
  PROVE  d \in TrueSet(txt)
  <1>1. PICK t : t = Slice(txt, a, b)
    OBVIOUS
  <1>2. Len(t) = b - a /\ \A i \in 1..(b - a) : t[i] = txt[a+i]
    <2>1. a <= b /\ b <= Len(txt)
      OBVIOUS
    <2>2. Len(Slice(txt, a, b)) = b - a /\ \A i \in 1..(b - a) : Slice(txt, a, b)[i] = txt[a+i]
      BY <2>1, SliceOf
    <2> QED BY <1>1, <2>2
  <1>3. c \in TrueSet(t)
    BY <1>1
  <1>40. /\ c.syn \in Nat /\ c.start \in Nat /\ c.end \in Nat /\ c.start <= c.end /\ c.end <= Len(t)
         /\ Len(c.content) = c.syn + (c.end - c.start)
         /\ \A i \in 1..(c.end - c.start) : c.content[c.syn+i] = t[c.start+i]
    BY <1>3, TrueIs
  <1>41. PICK y \in Nat, s \in Nat, e \in Nat : y = c.syn /\ s = c.start /\ e = c.end
    BY <1>40
  <1>42. PICK l \in Nat : l = b - a
    <2>1. b - a \in Nat
      OBVIOUS
    <2> QED BY <2>1
  <1>4. /\ s <= e /\ e <= l /\ Len(c.content) = y + (e - s)
        /\ \A i \in 1..(e - s) : c.content[y+i] = t[s+i]
    BY <1>2, <1>40, <1>41, <1>42
  <1>5. PICK n \in Nat : n = Len(txt)
    BY LenProperties
  <1>6. ASSUME NEW i \in 1..(e - s) PROVE c.content[y+i] = txt[(s+a)+i]
    <2>1. PICK j \in Nat : j = s + i /\ j \in 1..l
      <3>1. s + i \in Nat /\ s + i \in 1..l
        BY <1>4
      <3> QED BY <3>1
    <2>2. t[j] = txt[a+j]
      BY <1>2, <1>42, <2>1
    <2>3. a + j = (s + a) + i
      BY <2>1
    <2> QED BY <1>4, <2>1, <2>2, <2>3
  <1>7. d.syn = y /\ d.start = s + a /\ d.end = e + a /\ d.content = c.content
    BY <1>41
  <1>8. s + a <= e + a /\ e + a <= Len(txt) /\ (e + a) - (s + a) = e - s
    BY <1>4, <1>42, <1>5
  <1>9. Faithful(txt, d)
    BY <1>4, <1>6, <1>7, <1>8 DEF Faithful
  <1> QED BY <1>9 DEF TrueSet

\* What settles a slice settles that part of the text, in its coordinates.
LEMMA MovedSettled ==
  ASSUME NEW txt \in Seq(TextMarks), NEW a \in Nat, NEW b \in Nat, a <= b, b <= Len(txt), NEW size,
         NEW cs, Settled(Slice(txt, a, b), cs, size, 0, b - a), NEW ds, Moved(cs, ds, a)
  PROVE  Settled(txt, ds, size, a, b)
  <1>1. PICK t : t = Slice(txt, a, b)
    OBVIOUS
  <1>2. \A i \in 1..(b - a) : t[i] = txt[a+i]
    <2>1. a <= b /\ b <= Len(txt)
      OBVIOUS
    <2>2. \A i \in 1..(b - a) : Slice(txt, a, b)[i] = txt[a+i]
      BY <2>1, SliceOf
    <2> QED BY <1>1, <2>2
  <1>3. cs \in Seq(TrueSet(t)) /\ Guarded(cs, size) /\ \A i \in (0+1)..(b - a) : t[i] # "n" => Held(cs, i)
    BY <1>1 DEF Settled
  <1>4. PICK m \in Nat : m = Len(cs) /\ m = Len(ds)
    BY <1>3, LenProperties DEF Moved
  <1>5. \A k \in 1..m : /\ ds[k].content = cs[k].content /\ ds[k].syn = cs[k].syn
                        /\ ds[k].start = cs[k].start + a /\ ds[k].end = cs[k].end + a
    BY <1>4 DEF Moved
  <1>6. \A k \in 1..m : ds[k] \in ChunkSet /\ cs[k] \in TrueSet(t)
    BY <1>3, <1>4, ElementOfSeq DEF Moved
  <1>7. \A k \in 1..m : cs[k].start \in Nat /\ cs[k].end \in Nat
    BY <1>6, TrueIs
  <1>8. ds \in Seq(TrueSet(txt))
    <2>1. ASSUME NEW k \in 1..m PROVE ds[k] \in TrueSet(txt)
      <3>1. PICK c, d : c = cs[k] /\ d = ds[k]
        OBVIOUS
      <3>2. a <= b /\ b <= Len(txt) /\ c \in TrueSet(Slice(txt, a, b)) /\ d \in ChunkSet
        BY <1>1, <1>6, <3>1
      <3>3. d.content = c.content /\ d.syn = c.syn /\ d.start = c.start + a /\ d.end = c.end + a
        BY <1>5, <3>1
      <3>4. d \in TrueSet(txt)
        BY <3>2, <3>3, ShiftTrue
      <3> QED BY <3>1, <3>4
    <2>2. ds = [k \in 1..m |-> ds[k]]
      BY <1>4, LenProperties DEF Moved
    <2> QED BY <2>1, <2>2, Listed
  <1>9. ASSUME NEW k \in 1..m, ds[k].syn > 0 PROVE k > 1 /\ Unmerged(ds[k-1], ds[k], size)
    <2>1. k > 1 /\ Unmerged(cs[k-1], cs[k], size)
      BY <1>3, <1>4, <1>5, <1>9 DEF Guarded
    <2>2. k - 1 \in 1..m
      BY <2>1
    <2>3. cs[k-1].end # cs[k].start => ds[k-1].end # ds[k].start
      <3>1. cs[k-1].end \in Nat /\ cs[k].start \in Nat
        BY <1>7, <2>2
      <3>2. PICK e \in Nat, s \in Nat : e = cs[k-1].end /\ s = cs[k].start
        BY <3>1
      <3>3. ds[k-1].end = cs[k-1].end + a /\ ds[k].start = cs[k].start + a
        BY <1>5, <2>2
      <3>4. e # s => e + a # s + a
        OBVIOUS
      <3> QED BY <3>2, <3>3, <3>4
    <2>4. ds[k-1].content = cs[k-1].content /\ ds[k].content = cs[k].content
      BY <1>5, <2>2
    <2>5. cs[k-1].end # cs[k].start \/ Len(cs[k-1].content) + Len(cs[k].content) > size
      BY <2>1 DEF Unmerged
    <2>6. ds[k-1].end # ds[k].start \/ Len(ds[k-1].content) + Len(ds[k].content) > size
      BY <2>3, <2>4, <2>5
    <2> QED BY <2>1, <2>6 DEF Unmerged
  <1>10. ASSUME NEW i \in (a+1)..b, txt[i] # "n" PROVE Held(ds, i)
    <2>1. PICK j \in 1..(b - a) : j = i - a /\ i = a + j
      <3>1. i - a \in 1..(b - a) /\ i = a + (i - a)
        OBVIOUS
      <3> QED BY <3>1
    <2>2. t[j] # "n"
      BY <1>2, <1>10, <2>1
    <2>3. PICK k \in 1..m : In(cs[k], j)
      <3>1. j \in (0+1)..(b - a)
        OBVIOUS
      <3>2. Held(cs, j)
        BY <1>3, <2>2, <3>1
      <3> QED BY <1>4, <3>2 DEF Held
    <2>4. In(ds[k], i)
      BY <1>5, <1>7, <2>1, <2>3, SMTT(30) DEF In
    <2> QED BY <1>4, <2>4 DEF Held
  <1>11. Guarded(ds, size)
    BY <1>4, <1>9 DEF Guarded
  <1> QED BY <1>8, <1>10, <1>11 DEF Settled

\* The two ways the splitter moves chunks
LEMMA ShiftMoves ==
  ASSUME NEW t \in Seq(TextMarks), NEW cs \in Seq(TrueSet(t)), NEW a \in Nat
  PROVE  Moved(cs, ShiftAll(cs, a), a)
  <1>1. PICK m \in Nat : m = Len(cs) /\ DOMAIN cs = 1..m
    BY LenProperties
  <1>2. PICK ds : ds = ShiftAll(cs, a)
    OBVIOUS
  <1>3. ds = [k \in 1..m |-> Shift(cs[k], a)]
    BY <1>1, <1>2 DEF ShiftAll
  <1>4. ASSUME NEW k \in 1..m
        PROVE /\ ds[k] \in ChunkSet /\ ds[k].content = cs[k].content /\ ds[k].syn = cs[k].syn
              /\ ds[k].start = cs[k].start + a /\ ds[k].end = cs[k].end + a
    <2>1. PICK c : c = cs[k] /\ c \in ChunkSet
      BY <1>1, ElementOfSeq, TrueIs
    <2>2. PICK s \in Nat, e \in Nat : s = c.start + a /\ e = c.end + a
      <3>1. c.start + a \in Nat /\ c.end + a \in Nat
        BY <2>1, SMTT(30) DEF ChunkSet
      <3> QED BY <3>1
    <2>3. ds[k] = [c EXCEPT !.start = s, !.end = e]
      BY <1>3, <2>1, <2>2 DEF Shift
    <2>4. ds[k] \in ChunkSet
      BY <2>1, <2>3 DEF ChunkSet
    <2>5. ds[k].content = c.content /\ ds[k].syn = c.syn /\ ds[k].start = s /\ ds[k].end = e
      BY <2>1, <2>3 DEF ChunkSet
    <2> QED BY <2>1, <2>2, <2>4, <2>5
  <1>5. ds = [k \in 1..m |-> ds[k]] /\ DOMAIN ds = 1..m
    BY <1>3
  <1>6. ds \in Seq(ChunkSet)
    BY <1>4, <1>5, Listed
  <1>7. Len(ds) = m
    BY <1>5, <1>6, LenProperties
  <1> QED BY <1>1, <1>2, <1>4, <1>6, <1>7 DEF Moved

\* And Subsections, which also gives them the breadcrumb of where they land
LEMMA SubsectionMoves ==
  ASSUME NEW t \in Seq(TextMarks), NEW cs \in Seq(TrueSet(t)), NEW a \in Nat, NEW txt \in Seq(TextMarks)
  PROVE  Moved(cs, Subsections(cs, txt, a), a)
  <1>1. PICK m \in Nat : m = Len(cs) /\ DOMAIN cs = 1..m
    BY LenProperties
  <1>2. PICK ds : ds = Subsections(cs, txt, a)
    OBVIOUS
  <1>3. ds = [k \in 1..m |-> [Shift(cs[k], a) EXCEPT !.bc = Breadcrumb(txt, a + cs[k].start)]]
    BY <1>1, <1>2 DEF Subsections
  <1>4. ASSUME NEW k \in 1..m
        PROVE /\ ds[k] \in ChunkSet /\ ds[k].content = cs[k].content /\ ds[k].syn = cs[k].syn
              /\ ds[k].start = cs[k].start + a /\ ds[k].end = cs[k].end + a
    <2>1. PICK c : c = cs[k] /\ c \in ChunkSet
      BY <1>1, ElementOfSeq, TrueIs
    <2>2. PICK s \in Nat, e \in Nat : s = c.start + a /\ e = c.end + a /\ s = a + c.start
      <3>0. PICK x \in Nat, y \in Nat : x = c.start /\ y = c.end
        BY <2>1 DEF ChunkSet
      <3>1. x + a \in Nat /\ y + a \in Nat /\ x + a = a + x
        OBVIOUS
      <3> QED BY <3>0, <3>1
    <2>3. PICK b \in Seq(CrumbMarks) : b = Breadcrumb(txt, s)
      BY BreadcrumbIs
    <2>4. PICK d : d = [c EXCEPT !.start = s, !.end = e]
      OBVIOUS
    <2>5. ds[k] = [d EXCEPT !.bc = b]
      BY <1>3, <2>1, <2>2, <2>3, <2>4 DEF Shift
    <2>6. d \in ChunkSet /\ d.content = c.content /\ d.syn = c.syn /\ d.start = s /\ d.end = e
      BY <2>1, <2>4 DEF ChunkSet
    <2>7. ds[k] \in ChunkSet
      BY <2>5, <2>6 DEF ChunkSet
    <2>8. ds[k].content = d.content /\ ds[k].syn = d.syn /\ ds[k].start = d.start /\ ds[k].end = d.end
      BY <2>5, <2>6 DEF ChunkSet
    <2> QED BY <2>1, <2>2, <2>6, <2>7, <2>8
  <1>5. ds = [k \in 1..m |-> ds[k]] /\ DOMAIN ds = 1..m
    <2> DEFINE piece(k) == [Shift(cs[k], a) EXCEPT !.bc = Breadcrumb(txt, a + cs[k].start)]
    <2>1. ds = [k \in 1..m |-> piece(k)]
      BY <1>3
    <2> HIDE DEF piece
    <2> QED BY <2>1
  <1>6. ds \in Seq(ChunkSet)
    BY <1>4, <1>5, Listed
  <1>7. Len(ds) = m
    BY <1>5, <1>6, LenProperties
  <1> QED BY <1>1, <1>2, <1>4, <1>6, <1>7 DEF Moved

\* A part of a text that is split is settled.
LEMMA PartSettled ==
  ASSUME NEW txt \in Seq(TextMarks), NEW a \in Nat, NEW b \in Nat, a <= b, b <= Len(txt),
         NEW size \in Nat, NEW overlap \in Int
  PROVE  /\ Settled(txt, ShiftAll(SplitText(Slice(txt, a, b), size, overlap), a), size, a, b)
         /\ Settled(txt, Subsections(SplitText(Slice(txt, a, b), size, overlap), txt, a), size, a, b)
  <1>1. PICK t : t = Slice(txt, a, b)
    OBVIOUS
  <1>2. t \in Seq(TextMarks) /\ Len(t) = b - a
    <2>1. a <= b /\ b <= Len(txt)
      OBVIOUS
    <2>2. Slice(txt, a, b) \in Seq(TextMarks) /\ Len(Slice(txt, a, b)) = b - a
      BY <2>1, SliceOf
    <2> QED BY <1>1, <2>2
  <1>3. PICK cs : cs = SplitText(t, size, overlap)
    OBVIOUS
  <1>4. Settled(t, cs, size, 0, b - a)
    <2>1. Settled(t, SplitText(t, size, overlap), size, 0, Len(t))
      BY <1>2, SplitSettled
    <2> QED BY <1>2, <1>3, <2>1
  <1>5. cs \in Seq(TrueSet(t))
    BY <1>4 DEF Settled
  <1>6. Moved(cs, ShiftAll(cs, a), a) /\ Moved(cs, Subsections(cs, txt, a), a)
    BY <1>2, <1>5, ShiftMoves, SubsectionMoves
  <1>7. Settled(txt, ShiftAll(cs, a), size, a, b) /\ Settled(txt, Subsections(cs, txt, a), size, a, b)
    <2>1. a <= b /\ b <= Len(txt) /\ Settled(Slice(txt, a, b), cs, size, 0, b - a)
      BY <1>1, <1>4
    <2> QED BY <1>6, <2>1, MovedSettled
  <1> QED BY <1>1, <1>3, <1>7

\* Settled parts, one after the other, settle what they make up.
LEMMA FlattenSettled ==
  ASSUME NEW txt, NEW size, NEW seqs \in Seq(Seq(TrueSet(txt))), NEW n \in Nat, n = Len(seqs),
         NEW edge \in [0..n -> Nat], \A k \in 1..n : Settled(txt, seqs[k], size, edge[k-1], edge[k])
  PROVE  Settled(txt, FlattenSeq(seqs), size, edge[0], edge[n])
  <1> DEFINE T == TrueSet(txt)
  <1>1. seqs \in Seq(Seq(T)) /\ \A k \in 1..n : seqs[k] \in Seq(T)
    BY DEF Settled
  <1> HIDE DEF T
  <1>2. PICK f \in [0..n -> Seq(T)] : Flattens(f, seqs, n)
    BY <1>1, FlattensExist
  <1>3. FlattenSeq(seqs) = f[n]
    BY <1>1, <1>2, FlattenIsLast
  <1> DEFINE Q == {k \in 0..n : Settled(txt, f[k], size, edge[0], edge[k])}
  <1>4. 0 \in Q
    <2>1. 0 \in 0..n
      OBVIOUS
    <2>2. edge[0] \in Int
      BY <2>1
    <2>3. Settled(txt, <<>>, size, edge[0], edge[0])
      BY <2>2, NoneSettled
    <2> QED BY <1>2, <2>1, <2>3 DEF Flattens
  <1>5. ASSUME NEW k \in 0..(n-1), k \in Q PROVE k + 1 \in Q
    <2>1. PICK d \in 1..n : d = k + 1 /\ d - 1 = k /\ d \in 0..n
      <3>1. k + 1 \in 1..n /\ (k + 1) - 1 = k /\ k + 1 \in 0..n
        OBVIOUS
      <3> QED BY <3>1
    <2>2. f[d] = f[k] \o seqs[d]
      BY <1>2, <2>1 DEF Flattens
    <2>3. PICK x, y : x = f[k] /\ y = seqs[d]
      OBVIOUS
    <2>4. PICK a \in Nat, b \in Nat, c \in Nat : a = edge[0] /\ b = edge[k] /\ c = edge[d]
      <3>1. 0 \in 0..n /\ k \in 0..n
        OBVIOUS
      <3>2. edge[0] \in Nat /\ edge[k] \in Nat /\ edge[d] \in Nat
        BY <2>1, <3>1
      <3> QED BY <3>2
    <2>5. Settled(txt, x, size, a, b) /\ Settled(txt, y, size, b, c) /\ b <= b
      BY <1>5, <2>1, <2>3, <2>4
    <2>6. Settled(txt, x \o y, size, a, c)
      BY <2>5, SettledConcat
    <2> QED BY <2>1, <2>2, <2>3, <2>4, <2>6
  <1>6. n \in Q
    <2>1. 0 \in Int /\ n \in Int /\ n \in 0..n
      OBVIOUS
    <2>2. \A k \in 0..n : k \in Q
      <3> HIDE DEF Q
      <3> QED BY <1>4, <1>5, <2>1, IntervalInduction
    <2> QED BY <2>1, <2>2
  <1> QED BY <1>3, <1>6

\* A section is settled, whole or split.
LEMMA SectionSettled ==
  ASSUME NEW txt \in Seq(TextMarks), NEW a \in Nat, NEW b \in Nat, a <= b, b <= Len(txt),
         NEW size \in Nat, NEW overlap \in Int
  PROVE  Settled(txt, Section(txt, a, b, size, overlap), size, a, b)
  <1>1. PICK bc \in Seq(CrumbMarks) : bc = SectionCrumb(txt, a)
    BY SectionCrumbIs
  <1>2. CASE Len(bc) + 1 + (b - a) <= size
    <2>1. PICK c : c = [content |-> Slice(txt, a, b), bc |-> bc, syn |-> 0, start |-> a, end |-> b]
      OBVIOUS
    <2>2. Slice(txt, a, b) \in Seq(TextMarks)
      <3>1. a <= b /\ b <= Len(txt)
        OBVIOUS
      <3> QED BY <3>1, SliceOf
    <2>3. c \in ChunkSet
      BY <2>1, <2>2 DEF ChunkSet
    <2>4. c.syn = 0 /\ c.start <= c.end /\ c.end <= Len(txt) /\ c.content = Slice(txt, c.start, c.end)
          /\ c.start = a /\ c.end = b
      BY <2>1
    <2>5. c \in TrueSet(txt)
      BY <2>3, <2>4, PlainSlice
    <2>6. PICK cs : cs = <<c>>
      OBVIOUS
    <2>7. cs \in Seq(TrueSet(txt)) /\ Len(cs) = 1 /\ cs[1] = c
      BY <2>5, <2>6
    <2>8. Guarded(cs, size)
      BY <2>4, <2>7 DEF Guarded
    <2>9. \A i \in (a+1)..b : Held(cs, i)
      <3> SUFFICES ASSUME NEW i \in (a+1)..b PROVE Held(cs, i)
        OBVIOUS
      <3>1. In(c, i)
        BY <2>4 DEF In
      <3>2. 1 \in 1..Len(cs) /\ In(cs[1], i)
        BY <2>7, <3>1
      <3> QED BY <3>2 DEF Held
    <2>10. Section(txt, a, b, size, overlap) = cs
      BY <1>1, <1>2, <2>1, <2>6 DEF Section
    <2> QED BY <2>7, <2>8, <2>9, <2>10 DEF Settled
  <1>3. CASE ~(Len(bc) + 1 + (b - a) <= size)
    <2>1. Section(txt, a, b, size, overlap) = Subsections(SplitText(Slice(txt, a, b), size, overlap), txt, a)
      BY <1>1, <1>3 DEF Section
    <2>2. a <= b /\ b <= Len(txt)
      OBVIOUS
    <2>3. Settled(txt, Subsections(SplitText(Slice(txt, a, b), size, overlap), txt, a), size, a, b)
      BY <2>2, PartSettled
    <2> QED BY <2>1, <2>3
  <1> QED BY <1>2, <1>3

\* Chunks that are faithful and lose no words of the text
Lossless(txt, chunks) ==
  /\ chunks \in Seq(TrueSet(txt))
  /\ \A i \in 1..Len(txt) : txt[i] # "n" => Held(chunks, i)

\* What settles the whole text does.
LEMMA SettledWhole ==
  ASSUME NEW txt \in Seq(TextMarks), NEW chunks, NEW size, Settled(txt, chunks, size, 0, Len(txt))
  PROVE  Lossless(txt, chunks)
  <1>1. \A i \in 1..Len(txt) : i \in (0+1)..Len(txt)
    OBVIOUS
  <1> QED BY <1>1 DEF Settled, Lossless

\* Two chunks that touch are one, if the second has no prefix.
LEMMA BothTrue ==
  ASSUME NEW txt \in Seq(TextMarks), NEW c \in TrueSet(txt), NEW d \in TrueSet(txt), c.end = d.start, d.syn = 0
  PROVE  /\ Both(c, d) \in TrueSet(txt) /\ Len(Both(c, d).content) = Len(c.content) + Len(d.content)
         /\ Both(c, d).start = c.start /\ Both(c, d).end = d.end
  <1>1. /\ c \in ChunkSet /\ d \in ChunkSet /\ c.content \in Seq(TextMarks) /\ d.content \in Seq(TextMarks)
        /\ c.syn \in Nat /\ c.start \in Nat /\ c.end \in Nat /\ d.end \in Nat
    BY TrueIs
  <1>2. PICK y \in Nat, s \in Nat, m \in Nat, e \in Nat : y = c.syn /\ s = c.start /\ m = c.end /\ e = d.end
    BY <1>1
  <1>3. /\ s <= m /\ Len(c.content) = y + (m - s)
        /\ \A i \in 1..(m - s) : c.content[y+i] = txt[s+i]
    BY <1>2, TrueIs
  <1>4. /\ m <= e /\ e <= Len(txt) /\ Len(d.content) = e - m
        /\ \A i \in 1..(e - m) : d.content[i] = txt[m+i]
    <2>1. /\ d.start <= d.end /\ d.end <= Len(txt) /\ Len(d.content) = d.syn + (d.end - d.start)
          /\ \A i \in 1..(d.end - d.start) : d.content[d.syn+i] = txt[d.start+i]
      BY TrueIs
    <2>2. d.start = m /\ d.end = e /\ d.syn = 0
      BY <1>2
    <2>3. m <= e /\ e <= Len(txt) /\ Len(d.content) = 0 + (e - m)
          /\ \A i \in 1..(e - m) : d.content[0+i] = txt[m+i]
      BY <2>1, <2>2
    <2>4. 0 + (e - m) = e - m /\ \A i \in 1..(e - m) : 0 + i = i
      OBVIOUS
    <2>5. \A i \in 1..(e - m) : d.content[i] = txt[m+i]
      BY <2>3, <2>4
    <2> QED BY <2>3, <2>4, <2>5
  <1>5. PICK k \in Nat, n \in Nat : k = y + (m - s) /\ n = k + (e - m)
    <2>1. y + (m - s) \in Nat /\ (y + (m - s)) + (e - m) \in Nat
      BY <1>3, <1>4, SMTT(30)
    <2> QED BY <2>1
  <1>6. PICK t : t = Glue(c.content, d.content)
    OBVIOUS
  <1>7. /\ t \in Seq(TextMarks) /\ Len(t) = n
        /\ \A i \in 1..n : t[i] = IF i <= k THEN c.content[i] ELSE d.content[i-k]
    <2>1. k = Len(c.content) /\ n = k + Len(d.content)
      BY <1>3, <1>4, <1>5
    <2>2. Seamed(TextMarks, Glue(c.content, d.content), c.content, d.content, k, n)
      BY <1>1, <2>1, Seam
    <2> QED BY <1>6, <2>2 DEF Seamed
  <1>8. PICK b \in Seq(CrumbMarks) : b = LongestCommonPrefix({c.bc, d.bc})
    <2>1. c.bc \in Seq(CrumbMarks) /\ d.bc \in Seq(CrumbMarks)
      BY <1>1 DEF ChunkSet
    <2> QED BY <2>1, CommonIs
  <1>9. PICK w : w = [c EXCEPT !.content = t, !.end = e, !.bc = b]
    OBVIOUS
  <1>10. Both(c, d) = w
    BY <1>2, <1>6, <1>8, <1>9 DEF Both, Glue
  <1>11. w \in ChunkSet
    BY <1>1, <1>7, <1>9 DEF ChunkSet
  <1>12. w.content = t /\ w.end = e /\ w.start = s /\ w.syn = y
    BY <1>1, <1>2, <1>9 DEF ChunkSet
  <1>13. ASSUME NEW i \in 1..(e - s) PROVE t[y+i] = txt[s+i]
    <2>1. CASE i <= m - s
      <3>1. y + i \in 1..n /\ y + i <= k /\ i \in 1..(m - s)
        BY <1>3, <1>4, <1>5, <2>1
      <3> QED BY <1>3, <1>7, <3>1
    <2>2. CASE ~(i <= m - s)
      <3>1. PICK j \in 1..(e - m) : j = i - (m - s)
        <4>1. i - (m - s) \in 1..(e - m)
          BY <1>3, <1>4, <2>2
        <4> QED BY <4>1
      <3>2. y + i \in 1..n /\ ~(y + i <= k) /\ (y + i) - k = j /\ m + j = s + i
        BY <1>3, <1>4, <1>5, <2>2, <3>1
      <3>3. t[y+i] = d.content[j]
        BY <1>7, <3>2
      <3>4. d.content[j] = txt[m+j]
        BY <1>4
      <3> QED BY <3>2, <3>3, <3>4
    <2> QED BY <2>1, <2>2
  <1>14. s <= e /\ n = y + (e - s)
    BY <1>3, <1>4, <1>5
  <1>15. Faithful(txt, w)
    BY <1>4, <1>7, <1>12, <1>13, <1>14 DEF Faithful
  <1>16. w \in TrueSet(txt)
    BY <1>11, <1>15 DEF TrueSet
  <1>17. Len(w.content) = Len(c.content) + Len(d.content)
    BY <1>3, <1>4, <1>5, <1>7, <1>12
  <1> QED BY <1>2, <1>10, <1>12, <1>16, <1>17

\* A sequence with another last element
LEMMA LastReplaced ==
  ASSUME NEW S, NEW out \in Seq(S), NEW m \in Nat, m = Len(out), m > 0, NEW d \in S,
         NEW e, e = [out EXCEPT ![m] = d]
  PROVE  e \in Seq(S) /\ Len(e) = m /\ e[m] = d /\ \A j \in 1..m : j # m => e[j] = out[j]
  <1>1. DOMAIN out = 1..m
    BY LenProperties
  <1>2. m \in 1..m
    OBVIOUS
  <1>3. e = [j \in 1..m |-> e[j]] /\ DOMAIN e = 1..m
    BY <1>1
  <1>4. e[m] = d /\ \A j \in 1..m : j # m => e[j] = out[j]
    BY <1>1, <1>2
  <1>5. ASSUME NEW j \in 1..m PROVE e[j] \in S
    <2>1. out[j] \in S
      BY ElementOfSeq
    <2> QED BY <1>4, <2>1
  <1>6. e \in Seq(S)
    BY <1>3, <1>5, Listed
  <1>7. Len(e) = m
    BY <1>3, <1>6, LenProperties
  <1> QED BY <1>4, <1>6, <1>7

\* Coalesced up to k: the last chunk ends where chunk k does and is no shorter.
LastLike(out, chunks, k) ==
  IF k = 0 THEN Len(out) = 0
  ELSE /\ Len(out) > 0 /\ out[Len(out)].end = chunks[k].end
       /\ Len(chunks[k].content) <= Len(out[Len(out)].content)

Coalesced(txt, out, chunks, k) ==
  /\ out \in Seq(TrueSet(txt)) /\ LastLike(out, chunks, k)
  /\ \A i \in Nat : (\E j \in 1..k : In(chunks[j], i)) => Held(out, i)

\* The next chunk joins, or is joined if it has no prefix: one that has does not
\* touch a chunk it would be joined to.
LEMMA JoinKeeps ==
  ASSUME NEW txt \in Seq(TextMarks), NEW size \in Nat, NEW chunks \in Seq(TrueSet(txt)), Guarded(chunks, size),
         NEW d \in 1..Len(chunks), NEW out, Coalesced(txt, out, chunks, d - 1)
  PROVE  Coalesced(txt, Joined(out, chunks[d], size), chunks, d)
  <1>1. PICK c \in TrueSet(txt) : c = chunks[d]
    BY ElementOfSeq
  <1>2. out \in Seq(TrueSet(txt))
    BY DEF Coalesced
  <1>3. PICK m \in Nat : m = Len(out)
    BY <1>2, LenProperties
  <1>4. PICK e : e = Joined(out, c, size)
    OBVIOUS
  <1>5. d \in Nat /\ d # 0
    BY LenProperties
  <1>6. SUFFICES /\ e \in Seq(TrueSet(txt)) /\ Len(e) > 0 /\ e[Len(e)].end = c.end
                 /\ Len(c.content) <= Len(e[Len(e)].content)
                 /\ \A i \in Nat : Held(out, i) \/ In(c, i) => Held(e, i)
    <2>1. LastLike(e, chunks, d)
      BY <1>1, <1>5, <1>6 DEF LastLike
    <2>2. ASSUME NEW i \in Nat, NEW j \in 1..d, In(chunks[j], i) PROVE Held(e, i)
      <3>1. CASE j = d
        BY <1>1, <1>6, <2>2, <3>1
      <3>2. CASE j # d
        <4>1. j \in 1..(d-1)
          BY <1>5, <3>2
        <4>2. Held(out, i)
          BY <2>2, <4>1 DEF Coalesced
        <4> QED BY <1>6, <4>2
      <3> QED BY <3>1, <3>2
    <2> QED BY <1>1, <1>4, <1>6, <2>1, <2>2 DEF Coalesced
  <1>7. CASE ~(out # <<>> /\ Mergeable(out[m], c, size))
    <2>1. e = Append(out, c)
      BY <1>3, <1>4, <1>7 DEF Joined
    <2>2. e \in Seq(TrueSet(txt)) /\ Len(e) = m + 1 /\ e[m+1] = c
      BY <1>2, <1>3, <2>1, AppendProperties
    <2>3. \A i : Held(out, i) \/ In(c, i) => Held(e, i)
      BY <1>2, <2>1, HeldMore
    <2>4. Len(c.content) <= Len(c.content)
      <3>1. Len(c.content) \in Nat
        BY TrueIs
      <3> QED BY <3>1
    <2>5. Len(e) > 0
      BY <2>2
    <2> QED BY <2>2, <2>3, <2>4, <2>5
  <1>8. CASE out # <<>> /\ Mergeable(out[m], c, size)
    <2>1. m > 0 /\ m \in 1..m
      BY <1>2, <1>3, <1>8, EmptySeq
    <2>2. PICK cur \in TrueSet(txt) : cur = out[m]
      BY <1>2, <1>3, <2>1, ElementOfSeq
    <2>3. cur.end = c.start /\ Len(cur.content) + Len(c.content) <= size
      BY <1>8, <2>2 DEF Mergeable
    <2>4. Len(cur.content) \in Nat /\ Len(c.content) \in Nat /\ c.syn \in Nat
      BY TrueIs
    <2>5. c.syn = 0
      <3> SUFFICES ASSUME c.syn # 0 PROVE FALSE
        OBVIOUS
      <3>1. chunks[d].syn > 0
        BY <1>1, <2>4
      <3>2. d > 1 /\ Unmerged(chunks[d-1], chunks[d], size)
        BY <3>1 DEF Guarded
      <3>3. PICK k \in Nat : k = d - 1 /\ k # 0 /\ k \in 1..Len(chunks)
        <4>1. d - 1 \in Nat /\ d - 1 # 0 /\ d - 1 \in 1..Len(chunks)
          BY <1>5, <3>2
        <4> QED BY <4>1
      <3>4. PICK b \in TrueSet(txt) : b = chunks[k]
        BY <3>3, ElementOfSeq
      <3>5. cur.end = b.end /\ Len(b.content) <= Len(cur.content)
        <4>1. LastLike(out, chunks, k)
          BY <3>3 DEF Coalesced
        <4> QED BY <1>3, <2>2, <3>3, <3>4, <4>1 DEF LastLike
      <3>6. b.end # c.start \/ Len(b.content) + Len(c.content) > size
        BY <1>1, <3>2, <3>3, <3>4 DEF Unmerged
      <3>7. PICK x \in Nat, y \in Nat, z \in Nat : x = Len(b.content) /\ y = Len(cur.content) /\ z = Len(c.content)
        BY <2>4, TrueIs
      <3>8. x <= y /\ y + z <= size /\ x + z > size
        BY <2>3, <3>5, <3>6, <3>7
      <3> QED BY <3>8
    <2>6. PICK w : w = Both(cur, c)
      OBVIOUS
    <2>7. /\ w \in TrueSet(txt) /\ Len(w.content) = Len(cur.content) + Len(c.content)
          /\ w.start = cur.start /\ w.end = c.end
      BY <2>3, <2>5, <2>6, BothTrue
    <2>8. e = [out EXCEPT ![m] = w]
      BY <1>3, <1>4, <1>8, <2>2, <2>6 DEF Joined
    <2>9. e \in Seq(TrueSet(txt)) /\ Len(e) = m /\ e[m] = w /\ \A j \in 1..m : j # m => e[j] = out[j]
      BY <1>2, <1>3, <2>1, <2>7, <2>8, LastReplaced
    <2>10. Len(c.content) <= Len(w.content)
      <3>1. PICK y \in Nat, z \in Nat : y = Len(cur.content) /\ z = Len(c.content)
        BY <2>4
      <3>2. z <= y + z
        OBVIOUS
      <3> QED BY <2>7, <3>1, <3>2
    <2>11. \A i \in Nat : In(cur, i) \/ In(c, i) => In(w, i)
      <3>1. cur.start \in Nat /\ cur.end \in Nat /\ c.start \in Nat /\ c.end \in Nat
            /\ cur.start <= cur.end /\ c.start <= c.end
        BY TrueIs
      <3>2. PICK a \in Nat, b \in Nat, z \in Nat : a = cur.start /\ b = cur.end /\ b = c.start /\ z = c.end
        BY <2>3, <3>1
      <3>3. a <= b /\ b <= z
        BY <3>1, <3>2
      <3> SUFFICES ASSUME NEW i \in Nat, In(cur, i) \/ In(c, i) PROVE In(w, i)
        OBVIOUS
      <3>4. (a < i /\ i <= b) \/ (b < i /\ i <= z)
        BY <3>2 DEF In
      <3>5. a < i /\ i <= z
        BY <3>3, <3>4
      <3> QED BY <2>7, <3>2, <3>5 DEF In
    <2>12. ASSUME NEW i \in Nat, Held(out, i) \/ In(c, i) PROVE Held(e, i)
      <3>1. CASE In(c, i)
        <4>1. m \in 1..Len(e) /\ In(e[m], i)
          BY <2>1, <2>9, <2>11, <3>1
        <4> QED BY <4>1 DEF Held
      <3>2. CASE Held(out, i)
        <4>1. PICK j \in 1..m : In(out[j], i)
          BY <1>3, <3>2 DEF Held
        <4>2. j \in 1..Len(e) /\ In(e[j], i)
          BY <2>2, <2>9, <2>11, <4>1
        <4> QED BY <4>2 DEF Held
      <3> QED BY <2>12, <3>1, <3>2
    <2> QED BY <2>1, <2>7, <2>9, <2>10, <2>12
  <1> QED BY <1>7, <1>8

\* Coalescing keeps them.
LEMMA CoalesceLossless ==
  ASSUME NEW txt \in Seq(TextMarks), NEW size \in Nat, NEW chunks \in Seq(BookSet(txt)),
         Settled(txt, chunks, size, 0, Len(txt))
  PROVE  Lossless(txt, Coalesce(chunks, size))
  <1>1. chunks \in Seq(TrueSet(txt)) /\ Guarded(chunks, size) /\ Lossless(txt, chunks)
    BY SettledWhole DEF Settled
  <1>2. PICK n \in Nat : n = Len(chunks)
    BY <1>1, LenProperties
  <1>3. PICK h \in [0..n -> Seq(BookSet(txt))] : Coalesces(h, chunks, n, size) /\ Coalesce(chunks, size) = h[n]
    BY <1>2, CoalesceSteps
  <1> DEFINE Q == {k \in 0..n : Coalesced(txt, h[k], chunks, k)}
  <1>4. 0 \in Q
    <2>1. PICK e : e = <<>>
      OBVIOUS
    <2>2. e \in Seq(TrueSet(txt)) /\ Len(e) = 0
      BY <2>1
    <2>3. Coalesced(txt, e, chunks, 0)
      BY <2>2 DEF Coalesced, LastLike
    <2>4. h[0] = e /\ 0 \in 0..n
      BY <1>3, <2>1 DEF Coalesces
    <2> QED BY <2>3, <2>4
  <1>5. ASSUME NEW k \in 0..(n-1), k \in Q PROVE k + 1 \in Q
    <2>1. PICK d \in 1..n : d = k + 1 /\ d - 1 = k /\ d \in 0..n
      <3>1. k + 1 \in 1..n /\ (k + 1) - 1 = k /\ k + 1 \in 0..n
        OBVIOUS
      <3> QED BY <3>1
    <2>2. h[d] = Joined(h[k], chunks[d], size)
      BY <1>3, <2>1 DEF Coalesces
    <2>3. PICK out : out = h[k]
      OBVIOUS
    <2>4. d \in 1..Len(chunks) /\ Coalesced(txt, out, chunks, d - 1)
      BY <1>2, <1>5, <2>1, <2>3
    <2>5. Coalesced(txt, Joined(out, chunks[d], size), chunks, d)
      BY <1>1, <2>4, JoinKeeps
    <2> QED BY <2>1, <2>2, <2>3, <2>5
  <1>6. n \in Q
    <2>1. 0 \in Int /\ n \in Int /\ n \in 0..n
      OBVIOUS
    <2>2. \A k \in 0..n : k \in Q
      <3> HIDE DEF Q
      <3> QED BY <1>4, <1>5, <2>1, IntervalInduction
    <2> QED BY <2>1, <2>2
  <1>7. Coalesced(txt, h[n], chunks, n)
    BY <1>6
  <1>8. ASSUME NEW i \in 1..Len(txt), txt[i] # "n" PROVE Held(h[n], i)
    <2>1. Held(chunks, i)
      BY <1>1, <1>8 DEF Lossless
    <2>2. \E j \in 1..n : In(chunks[j], i)
      BY <1>2, <2>1 DEF Held
    <2>3. i \in Nat
      OBVIOUS
    <2> QED BY <1>7, <2>2, <2>3 DEF Coalesced
  <1>9. Lossless(txt, h[n])
    BY <1>7, <1>8 DEF Coalesced, Lossless
  <1> QED BY <1>3, <1>9

\* The heading tier loses nothing.
LEMMA HeadingLossless ==
  ASSUME NEW cap \in Caps, NEW txt, NEW size, NEW overlap, Usable(txt, size, overlap, cap)
  PROVE  Lossless(txt, SplitByHeadings(txt, size, overlap))
  <1>1. txt \in Seq(TextMarks) /\ size \in Nat /\ overlap \in Int
    BY DEF Usable
  <1>2. PICK n \in Nat : n = Len(txt) /\ DOMAIN txt = 1..n
    BY <1>1, LenProperties
  <1>3. PICK starts : starts = SectionStarts(txt)
    OBVIOUS
  <1>4. PICK S : /\ S = {0} \cup {i-1 : i \in {i \in HeadingsOf(txt) : Level(txt[i]) <= DominantLevel(txt)}}
                 /\ Cutpoints(starts, S, n)
    <2>1. PICK S : S = {0} \cup {i-1 : i \in {i \in HeadingsOf(txt) : Level(txt[i]) <= DominantLevel(txt)}}
      OBVIOUS
    <2>2. HeadingsOf(txt) \in SUBSET Int
      BY <1>2 DEF HeadingsOf
    <2>3. S \in SUBSET Int
      BY <2>1, <2>2
    <2>4. starts = InOrder(S, txt)
      BY <1>3, <2>1 DEF SectionStarts
    <2>5. Cutpoints(InOrder(S, txt), S, n)
      BY <1>2, <2>3, CutpointsIn
    <2> QED BY <2>1, <2>4, <2>5
  <1>5. starts \in Seq(0..n)
    BY <1>4 DEF Cutpoints
  <1>6. PICK m \in Nat : m = Len(starts) /\ DOMAIN starts = 1..m
    BY <1>5, LenProperties
  <1>7. m > 0 /\ starts[1] = 0 /\ \A k \in 1..m : starts[k] \in 0..n
    <2>1. 0 \in S
      BY <1>4
    <2>2. m = Len(starts) /\ Cutpoints(starts, S, n)
      BY <1>4, <1>6
    <2> QED BY <2>1, <2>2, CutpointsEnd
  <1>8. \A a, b \in 1..m : a < b => starts[a] < starts[b]
    BY <1>4, <1>6 DEF Cutpoints
  <1> DEFINE to(k) == IF k = m THEN n ELSE starts[k+1]
             piece(k) == Section(txt, starts[k], to(k), size, overlap)
  <1>9. ASSUME NEW k \in 1..m PROVE to(k) \in 0..n /\ starts[k] <= to(k)
    <2>1. CASE k = m
      <3>1. n \in 0..n /\ starts[k] <= n
        BY <1>7
      <3> QED BY <2>1, <3>1
    <2>2. CASE k # m
      <3>1. k + 1 \in 1..m /\ k < k + 1
        BY <2>2
      <3>2. starts[k+1] \in 0..n /\ starts[k] < starts[k+1] /\ starts[k] \in 0..n
        BY <1>7, <1>8, <3>1
      <3>3. starts[k] <= starts[k+1]
        BY <3>2
      <3> QED BY <2>2, <3>2, <3>3
    <2> QED BY <2>1, <2>2
  <1>10. ASSUME NEW k \in 1..m
         PROVE  piece(k) \in Seq(BookSet(txt)) /\ Settled(txt, piece(k), size, starts[k], to(k))
    <2>1. PICK a \in 0..n, b \in 0..n : a = starts[k] /\ b = to(k) /\ a <= b
      <3> HIDE DEF to
      <3> QED BY <1>7, <1>9
    <2>2. a \in Nat /\ b \in Nat /\ a <= b /\ b <= Len(txt)
      BY <1>2, <2>1
    <2>3. Section(txt, a, b, size, overlap) \in Seq(BookSet(txt))
      BY <2>2, SectionIs
    <2>4. Settled(txt, Section(txt, a, b, size, overlap), size, a, b)
      BY <1>1, <2>2, SectionSettled
    <2> HIDE DEF to
    <2> QED BY <2>1, <2>3, <2>4
  <1>11. PICK secs : secs = [k \in 1..m |-> piece(k)]
    OBVIOUS
  <1>12. secs = [k \in 1..m |-> secs[k]] /\ (\A k \in 1..m : secs[k] = piece(k)) /\ DOMAIN secs = 1..m
    <2> HIDE DEF piece
    <2> QED BY <1>11
  <1>13. /\ secs \in Seq(Seq(BookSet(txt))) /\ secs \in Seq(Seq(TrueSet(txt))) /\ Len(secs) = m
    <2> DEFINE A == Seq(BookSet(txt))
               B == Seq(TrueSet(txt))
    <2>1. \A k \in 1..m : secs[k] \in A /\ secs[k] \in B
      BY <1>10, <1>12 DEF Settled
    <2> HIDE DEF A, B, piece
    <2>2. secs \in Seq(A) /\ secs \in Seq(B)
      BY <1>12, <2>1, Listed
    <2>3. Len(secs) = m
      BY <1>12, <2>2, LenProperties
    <2> QED BY <2>2, <2>3 DEF A, B
  <1>14. PICK all : all = FlattenSeq(secs)
    OBVIOUS
  <1>15. all \in Seq(BookSet(txt))
    BY <1>13, <1>14, FlattenElements
  <1> DEFINE edge == [k \in 0..m |-> IF k = 0 THEN 0 ELSE to(k)]
  <1>16. edge \in [0..m -> Nat]
    <2>1. ASSUME NEW k \in 0..m PROVE (IF k = 0 THEN 0 ELSE to(k)) \in Nat
      <3>1. CASE k = 0
        BY <3>1
      <3>2. CASE k # 0
        <4>1. k \in 1..m
          BY <3>2
        <4>2. to(k) \in 0..n
          BY <1>9, <4>1
        <4> HIDE DEF to
        <4> QED BY <3>2, <4>2
      <3> QED BY <3>1, <3>2
    <2> HIDE DEF to
    <2> QED BY <2>1
  <1>17. ASSUME NEW k \in 1..m PROVE edge[k-1] = starts[k] /\ edge[k] = to(k)
    <2>1. k \in 0..m /\ k - 1 \in 0..m /\ k # 0
      OBVIOUS
    <2>2. CASE k = 1
      <3>1. edge[0] = 0
        BY <2>1
      <3> HIDE DEF to
      <3> QED BY <1>7, <2>1, <2>2, <3>1
    <2>3. CASE k # 1
      <3>1. k - 1 # 0 /\ k - 1 # m /\ (k - 1) + 1 = k
        BY <2>3
      <3> QED BY <2>1, <3>1
    <2> QED BY <2>2, <2>3
  <1>18. edge[0] = 0 /\ edge[m] = n
    <2>1. 0 \in 0..m /\ m \in 0..m /\ m # 0
      BY <1>7
    <2> QED BY <2>1
  <1> HIDE DEF edge, to, piece
  <1>19. Settled(txt, all, size, 0, Len(txt))
    <2>1. \A k \in 1..m : Settled(txt, secs[k], size, edge[k-1], edge[k])
      BY <1>10, <1>12, <1>17
    <2>2. secs \in Seq(Seq(TrueSet(txt))) /\ m = Len(secs)
      BY <1>13
    <2>3. Settled(txt, FlattenSeq(secs), size, edge[0], edge[m])
      BY <1>16, <2>1, <2>2, FlattenSettled
    <2> QED BY <1>2, <1>14, <1>18, <2>3
  <1>20. CASE SplitByHeadings(txt, size, overlap) = SplitText(txt, size, overlap)
    BY <1>1, <1>20, SplitSettled, SettledWhole
  <1>21. CASE SplitByHeadings(txt, size, overlap) # SplitText(txt, size, overlap)
    <2>1. SplitByHeadings(txt, size, overlap) = Coalesce(all, size)
      <3>1. secs = [k \in DOMAIN starts |->
                      Section(txt, starts[k], IF k = Len(starts) THEN Len(txt) ELSE starts[k+1], size, overlap)]
        BY <1>2, <1>6, <1>11 DEF piece, to
      <3> QED BY <1>3, <1>14, <1>21, <3>1 DEF SplitByHeadings
    <2> QED BY <1>1, <1>15, <1>19, <2>1, CoalesceLossless
  <1> QED BY <1>20, <1>21

\* A slice after the chunks
LEMMA SliceSettled ==
  ASSUME NEW txt \in Seq(TextMarks), NEW size, NEW out, NEW s \in Nat, NEW e \in Nat, s <= e, e <= Len(txt),
         Settled(txt, out, size, 0, s)
  PROVE  Settled(txt, AppendSlice(out, txt, s, e), size, 0, e)
  <1>1. out \in Seq(TrueSet(txt)) /\ Guarded(out, size) /\ \A i \in (0+1)..s : txt[i] # "n" => Held(out, i)
    BY DEF Settled
  <1>2. PICK t : t = Slice(txt, s, e)
    OBVIOUS
  <1>3. t \in Seq(TextMarks) /\ Len(t) = e - s /\ \A i \in 1..(e - s) : t[i] = txt[s+i]
    <2>1. s <= e /\ e <= Len(txt)
      OBVIOUS
    <2>2. /\ Slice(txt, s, e) \in Seq(TextMarks) /\ Len(Slice(txt, s, e)) = e - s
          /\ \A i \in 1..(e - s) : Slice(txt, s, e)[i] = txt[s+i]
      BY <2>1, SliceOf
    <2> QED BY <1>2, <2>2
  <1>4. CASE s >= e \/ BlankText(t)
    <2>1. AppendSlice(out, txt, s, e) = out
      BY <1>2, <1>4 DEF AppendSlice
    <2>2. ASSUME NEW i \in (0+1)..e, txt[i] # "n" PROVE Held(out, i)
      <3>1. CASE i <= s
        <4>1. i \in (0+1)..s
          BY <3>1
        <4> QED BY <1>1, <2>2, <4>1
      <3>2. CASE i > s
        <4>1. i - s \in 1..(e - s) /\ s + (i - s) = i /\ s < e
          BY <3>2
        <4>2. t[i-s] = txt[i]
          BY <1>3, <4>1
        <4>3. i - s \in DOMAIN t
          <5>1. PICK l \in Nat : l = e - s
            <6>1. e - s \in Nat
              OBVIOUS
            <6> QED BY <6>1
          <5>2. DOMAIN t = 1..l
            BY <1>3, <5>1, LenProperties
          <5> QED BY <4>1, <5>1, <5>2
        <4>4. ~BlankText(t)
          BY <2>2, <4>2, <4>3 DEF BlankText
        <4> QED BY <1>4, <4>1, <4>4
      <3> QED BY <3>1, <3>2
    <2> QED BY <1>1, <2>1, <2>2 DEF Settled
  <1>5. CASE ~(s >= e \/ BlankText(t))
    <2>1. PICK c : c = [content |-> t, bc |-> <<>>, syn |-> 0, start |-> s, end |-> e]
      OBVIOUS
    <2>2. <<>> \in Seq(CrumbMarks)
      OBVIOUS
    <2>3. c \in ChunkSet
      BY <1>3, <2>1, <2>2 DEF ChunkSet
    <2>4. c.syn = 0 /\ c.start = s /\ c.end = e /\ c.content = t
      BY <2>1
    <2>5. c \in TrueSet(txt)
      <3>1. c.syn = 0 /\ c.start <= c.end /\ c.end <= Len(txt) /\ c.content = Slice(txt, c.start, c.end)
        BY <1>2, <2>4
      <3> QED BY <2>3, <3>1, PlainSlice
    <2>6. AppendSlice(out, txt, s, e) = Append(out, c)
      BY <1>2, <1>5, <2>1 DEF AppendSlice
    <2>7. Append(out, c) \in Seq(TrueSet(txt))
      BY <1>1, <2>5, AppendProperties
    <2>8. Guarded(Append(out, c), size)
      <3>1. Fits(out, c, size)
        BY <2>4 DEF Fits
      <3> QED BY <1>1, <2>5, <3>1, GuardedMore
    <2>9. ASSUME NEW i \in (0+1)..e, txt[i] # "n" PROVE Held(Append(out, c), i)
      <3>1. CASE i <= s
        <4>1. i \in (0+1)..s
          BY <3>1
        <4>2. Held(out, i)
          BY <1>1, <2>9, <4>1
        <4> QED BY <1>1, <2>5, <4>2, HeldMore
      <3>2. CASE i > s
        <4>1. In(c, i)
          BY <2>4, <3>2 DEF In
        <4> QED BY <1>1, <2>5, <4>1, HeldMore
      <3> QED BY <3>1, <3>2
    <2> QED BY <2>6, <2>7, <2>8, <2>9 DEF Settled
  <1> QED BY <1>4, <1>5

-----------------------------------------------------------------------------
(*************************************************************************)
(* The heuristic tier, and the chain of tiers                            *)
(*************************************************************************)

\* What settles a text up to an offset does up to an earlier one.
LEMMA SettledLess ==
  ASSUME NEW txt, NEW chunks, NEW size, NEW b \in Nat, Settled(txt, chunks, size, 0, b), NEW a \in Nat, a <= b
  PROVE  Settled(txt, chunks, size, 0, a)
  <1>1. \A i \in (0+1)..a : i \in (0+1)..b
    OBVIOUS
  <1> QED BY <1>1 DEF Settled

\* Packed up to a boundary: nothing is lost before the open chunk.
PackedTo(txt, p, size, e) ==
  /\ p.start \in Nat /\ p.end = e /\ p.start <= e /\ Settled(txt, p.out, size, 0, p.start)

\* And up to the next: the chunk that is carried on starts no later than it ended.
LEMMA PackKeeps ==
  ASSUME NEW cap \in Caps, NEW txt, NEW size, NEW overlap, Usable(txt, size, overlap, cap),
         NEW n \in Nat, n = Len(txt), NEW edges \in SUBSET (0..n),
         NEW e \in 0..n, NEW upto \in 0..n, e <= upto, NEW p \in Packing(txt, n), PackedTo(txt, p, size, e)
  PROVE  PackedTo(txt, Pack(p, upto, txt, edges, size, overlap), size, upto)
  <1>1. txt \in Seq(TextMarks) /\ size \in Nat /\ overlap \in Nat /\ overlap \in Int
    BY DEF Usable
  <1>2. PICK s \in Nat : s = p.start /\ s <= e
    BY DEF PackedTo
  <1>3. PICK q : q = Pack(p, upto, txt, edges, size, overlap)
    OBVIOUS
  <1>4. PICK more : more = AppendSlice(p.out, txt, s, e)
    OBVIOUS
  <1>5. p.end = e /\ e \in Nat /\ upto \in Nat /\ 0 \in Nat
    BY DEF PackedTo
  <1>6. Settled(txt, more, size, 0, e)
    <2>1. s <= e /\ e <= Len(txt) /\ Settled(txt, p.out, size, 0, s)
      BY <1>2 DEF PackedTo
    <2> QED BY <1>1, <1>4, <1>5, <2>1, SliceSettled
  <1>7. CASE upto - e > size
    <2>1. PICK sh : sh = ShiftAll(SplitText(Slice(txt, e, upto), size, overlap), e)
      OBVIOUS
    <2>2. Settled(txt, sh, size, e, upto)
      <3>1. e <= upto /\ upto <= Len(txt)
        OBVIOUS
      <3> QED BY <1>1, <1>5, <2>1, <3>1, PartSettled
    <2>3. PICK all : all = more \o sh
      OBVIOUS
    <2>4. Settled(txt, all, size, 0, upto)
      <3>1. e <= e
        BY <1>5
      <3> QED BY <1>5, <1>6, <2>2, <2>3, <3>1, SettledConcat
    <2>5. q = [out |-> all, start |-> upto, end |-> upto]
      BY <1>2, <1>3, <1>4, <1>5, <1>7, <2>1, <2>3 DEF Pack
    <2>6. upto <= upto
      BY <1>5
    <2> QED BY <1>3, <1>5, <2>4, <2>5, <2>6 DEF PackedTo
  <1>8. CASE ~(upto - e > size)
    <2>1. PICK from \in Nat : from = OverlapStart(txt, e, overlap, edges) /\ from <= e
      <3>1. n = Len(txt) /\ e \in 0..n /\ overlap \in Nat
        BY <1>1
      <3>2. OverlapStart(txt, e, overlap, edges) \in 0..n /\ OverlapStart(txt, e, overlap, edges) <= e
        BY <3>1, OverlapStartIs
      <3>3. OverlapStart(txt, e, overlap, edges) \in Nat
        BY <3>2
      <3> QED BY <3>2, <3>3
    <2>2. CASE upto - s > size /\ e - s >= Most(size \div 4, MinHeuristic)
      <3>1. q = [out |-> more, start |-> from, end |-> upto]
        BY <1>2, <1>3, <1>4, <1>5, <1>8, <2>1, <2>2 DEF Pack
      <3>2. Settled(txt, more, size, 0, from)
        BY <1>5, <1>6, <2>1, SettledLess
      <3>3. from <= upto
        BY <1>5, <2>1
      <3> QED BY <1>3, <3>1, <3>2, <3>3 DEF PackedTo
    <2>3. CASE ~(upto - s > size /\ e - s >= Most(size \div 4, MinHeuristic))
      <3>1. q = [p EXCEPT !.end = upto]
        BY <1>2, <1>3, <1>5, <1>8, <2>3 DEF Pack
      <3>2. q.out = p.out /\ q.start = p.start /\ q.end = upto
        BY <3>1 DEF Packing
      <3>3. s <= upto
        BY <1>2, <1>5
      <3>4. Settled(txt, p.out, size, 0, p.start)
        BY DEF PackedTo
      <3> QED BY <1>2, <1>3, <3>2, <3>3, <3>4 DEF PackedTo
    <2> QED BY <2>2, <2>3
  <1> QED BY <1>7, <1>8

\* The heuristic tier loses nothing.
LEMMA HeuristicLossless ==
  ASSUME NEW cap \in Caps, NEW txt, NEW size, NEW overlap, Usable(txt, size, overlap, cap)
  PROVE  Lossless(txt, SplitByHeuristics(txt, size, overlap))
  <1>1. txt \in Seq(TextMarks) /\ size \in Nat /\ overlap \in Int
    BY DEF Usable
  <1>2. CASE SplitByHeuristics(txt, size, overlap) = SplitText(txt, size, overlap)
    BY <1>1, <1>2, SplitSettled, SettledWhole
  <1>3. CASE SplitByHeuristics(txt, size, overlap) # SplitText(txt, size, overlap)
    <2>1. PICK at, h, n, m :
           /\ n = Len(txt) /\ n \in Nat /\ m = Len(at) /\ m \in Nat \ {0}
           /\ at = Append(Inner(txt), n) /\ \A i \in 1..m : at[i] \in 0..n
           /\ h \in [1..m -> Packing(txt, n)] /\ Packs(h, txt, size, overlap, at, m)
           /\ SplitByHeuristics(txt, size, overlap) = Packed(h[m], txt)
      BY <1>3, HeuristicSteps
    <2>2. PICK edges : edges = Edges(txt) /\ edges \in SUBSET (0..n)
      <3>1. DOMAIN txt = 1..n
        BY <1>1, <2>1, LenProperties
      <3>2. MarkerBounds(txt) \in SUBSET (0..n)
        BY <2>1, <3>1 DEF MarkerBounds
      <3>3. 0 \in 0..n /\ n \in 0..n
        BY <2>1
      <3>4. Edges(txt) = MarkerBounds(txt) \cup {0, n}
        BY <2>1 DEF Edges
      <3>5. Edges(txt) \in SUBSET (0..n)
        BY <3>2, <3>3, <3>4
      <3> QED BY <3>5
    <2>3. PICK cs, l : cs = Inner(txt) /\ l = Len(cs) /\ l \in Nat /\ Cutpoints(cs, MarkerBounds(txt) \cup {0}, n)
      <3>1. MarkerBounds(txt) \cup {0} \in SUBSET Int
        BY <2>2 DEF Edges
      <3>2. Cutpoints(Inner(txt), MarkerBounds(txt) \cup {0}, n)
        BY <2>1, <3>1, CutpointsIn DEF Inner
      <3>3. Len(Inner(txt)) \in Nat
        BY <3>2, LenProperties DEF Cutpoints
      <3> QED BY <3>2, <3>3
    <2>4. l > 0 /\ cs[1] = 0 /\ \A k \in 1..l : cs[k] \in 0..n
      <3>1. 0 \in MarkerBounds(txt) \cup {0}
        OBVIOUS
      <3> QED BY <2>1, <2>3, <3>1, CutpointsEnd
    <2>50. m = l + 1 /\ (\A i \in 1..l : at[i] = cs[i]) /\ at[l+1] = n
      <3>1. cs \in Seq(0..n) /\ n \in 0..n
        BY <2>1, <2>3 DEF Cutpoints
      <3> QED BY <2>1, <2>3, <3>1, AppendProperties
    <2>51. at[1] = 0 /\ at[m] = n
      BY <2>3, <2>4, <2>50
    <2>5. ASSUME NEW a \in 1..m, NEW b \in 1..m, a < b PROVE at[a] <= at[b]
      <3>1. a \in 1..l
        BY <2>3, <2>5, <2>50
      <3>2. CASE b <= l
        <4>1. b \in 1..l
          BY <2>3, <3>2
        <4>2. cs[a] < cs[b]
          BY <2>3, <2>5, <3>1, <4>1 DEF Cutpoints
        <4>3. cs[a] \in 0..n /\ cs[b] \in 0..n
          BY <2>4, <3>1, <4>1
        <4> QED BY <2>50, <3>1, <4>1, <4>2, <4>3
      <3>3. CASE ~(b <= l)
        <4>1. b = m
          BY <2>3, <2>50, <3>3
        <4>2. cs[a] \in 0..n
          BY <2>4, <3>1
        <4> QED BY <2>50, <2>51, <3>1, <4>1, <4>2
      <3> QED BY <3>2, <3>3
    <2> DEFINE Q == {k \in 1..m : PackedTo(txt, h[k], size, at[k])}
    <2>6. 1 \in Q
      <3>1. h[1] = [out |-> <<>>, start |-> 0, end |-> 0] /\ 1 \in 1..m
        BY <2>1 DEF Packs
      <3>2. Settled(txt, <<>>, size, 0, 0)
        BY NoneSettled
      <3>3. PackedTo(txt, h[1], size, 0)
        BY <3>1, <3>2 DEF PackedTo
      <3> QED BY <2>51, <3>1, <3>3
    <2>7. ASSUME NEW k \in 1..(m-1), k \in Q PROVE k + 1 \in Q
      <3>1. PICK d \in 2..m : d = k + 1 /\ d - 1 = k /\ d \in 1..m /\ k \in 1..m /\ k < d
        <4>1. k + 1 \in 2..m /\ (k + 1) - 1 = k /\ k + 1 \in 1..m /\ k \in 1..m /\ k < k + 1
          BY <2>1
        <4> QED BY <4>1
      <3>2. h[d] = Pack(h[k], at[d], txt, edges, size, overlap)
        BY <2>1, <2>2, <3>1 DEF Packs
      <3>3. PICK e \in 0..n, upto \in 0..n, p \in Packing(txt, n) : e = at[k] /\ upto = at[d] /\ p = h[k]
        BY <2>1, <3>1
      <3>4. e <= upto
        BY <2>5, <3>1, <3>3
      <3>5. PackedTo(txt, p, size, e)
        BY <2>7, <3>3
      <3>6. n \in Nat /\ n = Len(txt) /\ edges \in SUBSET (0..n)
        BY <2>1, <2>2
      <3>7. PackedTo(txt, Pack(p, upto, txt, edges, size, overlap), size, upto)
        BY <3>4, <3>5, <3>6, PackKeeps
      <3> QED BY <3>1, <3>2, <3>3, <3>7
    <2>8. m \in Q
      <3>1. 1 \in Int /\ m \in Int /\ m \in 1..m
        BY <2>1
      <3>2. \A k \in 1..m : k \in Q
        <4> HIDE DEF Q
        <4> QED BY <2>6, <2>7, <3>1, IntervalInduction
      <3> QED BY <3>1, <3>2
    <2>9. PICK p \in Packing(txt, n) : p = h[m] /\ PackedTo(txt, p, size, n)
      <3>1. m \in 1..m
        BY <2>1
      <3> QED BY <2>1, <2>51, <2>8, <3>1
    <2>10. PICK s \in Nat : s = p.start /\ p.end = n /\ s <= n /\ Settled(txt, p.out, size, 0, s)
      BY <2>9 DEF PackedTo
    <2>11. Settled(txt, AppendSlice(p.out, txt, s, n), size, 0, n)
      <3>1. n \in Nat /\ n <= Len(txt)
        BY <2>1
      <3> QED BY <1>1, <2>10, <3>1, SliceSettled
    <2>12. SplitByHeuristics(txt, size, overlap) = AppendSlice(p.out, txt, s, n)
      BY <2>1, <2>9, <2>10 DEF Packed
    <2>13. n = Len(txt)
      BY <2>1
    <2> QED BY <1>1, <2>11, <2>12, <2>13, SettledWhole
  <1> QED BY <1>2, <1>3

\* Each tier does, and so the chain, whichever the validator accepts.
LEMMA TiersLossless ==
  ASSUME NEW cap \in Caps, NEW txt, NEW size, NEW overlap, Usable(txt, size, overlap, cap), NEW strat
  PROVE  Lossless(txt, Tiers(Chain(txt, strat), txt, size, overlap))
  <1>1. txt \in Seq(TextMarks) /\ size \in Nat /\ overlap \in Int
    BY DEF Usable
  <1>2. PICK chain : chain = Chain(txt, strat)
    OBVIOUS
  <1>3. chain \in Seq(TierNames)
    BY <1>2, ChainIs
  <1>4. PICK m \in Nat \ {0} : m = Len(chain) /\ DOMAIN chain = 1..m
    BY <1>2, <1>3, ChainIs, LenProperties
  <1> DEFINE run(k) == RunTier(chain[k], txt, size, overlap)
  <1>5. ASSUME NEW k \in 1..m PROVE Lossless(txt, run(k))
    <2>1. chain[k] \in TierNames
      BY <1>3, <1>4, ElementOfSeq
    <2>2. CASE chain[k] = "heading"
      <3>1. run(k) = SplitByHeadings(txt, size, overlap)
        BY <2>2 DEF RunTier
      <3> QED BY <3>1, HeadingLossless
    <2>3. CASE chain[k] = "heuristic"
      <3>1. run(k) = SplitByHeuristics(txt, size, overlap)
        BY <2>3 DEF RunTier
      <3> QED BY <3>1, HeuristicLossless
    <2>4. CASE chain[k] = "legacy"
      <3>1. run(k) = SplitText(txt, size, overlap)
        BY <2>4 DEF RunTier
      <3> QED BY <1>1, <3>1, SplitSettled, SettledWhole
    <2> QED BY <2>1, <2>2, <2>3, <2>4 DEF TierNames
  <1>6. PICK out : out = [k \in 1..m |-> run(k)]
    OBVIOUS
  <1>7. (\A k \in 1..m : out[k] = run(k)) /\ out = [k \in 1..m |-> out[k]] /\ DOMAIN out = 1..m
    <2> HIDE DEF run
    <2> QED BY <1>6
  <1>8. Len(out) = m
    <2> DEFINE S == Seq(TrueSet(txt))
    <2>1. \A k \in 1..m : out[k] \in S
      BY <1>5, <1>7 DEF Lossless
    <2> HIDE DEF S
    <2>2. out \in Seq(S)
      BY <1>7, <2>1, Listed
    <2> QED BY <1>7, <2>2, LenProperties
  <1>9. PICK ok : ok = {k \in DOMAIN out : ValidChunks(out[k], Len(txt), size)}
    OBVIOUS
  <1>10. Tiers(chain, txt, size, overlap) = out[IF ok = {} THEN m ELSE Min(ok)]
    <2>1. out = [k \in DOMAIN chain |-> RunTier(chain[k], txt, size, overlap)]
      BY <1>4, <1>6
    <2>2. Tiers(chain, txt, size, overlap) = FirstValid(out, Len(txt), size)
      BY <2>1 DEF Tiers
    <2> QED BY <1>8, <1>9, <2>2 DEF FirstValid
  <1>11. PICK k \in 1..m : k = IF ok = {} THEN m ELSE Min(ok)
    <2>1. CASE ok = {}
      <3>1. m \in 1..m
        OBVIOUS
      <3> QED BY <2>1, <3>1
    <2>2. CASE ok # {}
      <3>1. ok \in SUBSET (1..m)
        BY <1>7, <1>9
      <3>2. Min(ok) \in ok
        BY <2>2, <3>1, FirstAndLast
      <3> QED BY <2>2, <3>1, <3>2
    <2> QED BY <2>1, <2>2
  <1> HIDE DEF run
  <1> QED BY <1>2, <1>5, <1>7, <1>10, <1>11

\* What Split returns is faithful to the text and loses no words of it.
LEMMA SplitLossless ==
  ASSUME NEW txt \in Seq(TextMarks), NEW size \in Nat, NEW overlap \in Nat, NEW strat
  PROVE  Lossless(txt, Split(txt, size, overlap, strat))
  <1>1. PICK o \in Nat : o = OverlapFor(size, overlap)
    <2>1. PICK h \in Nat : h = size \div 2
      <3>1. 2 \in Nat \ {0}
        OBVIOUS
      <3>2. size \div 2 \in Nat
        BY <3>1, Quotient
      <3> QED BY <3>2
    <2>2. PICK a \in Nat : a = IF overlap <= 0 THEN DefaultOverlap ELSE overlap
      BY Limits
    <2>3. Least(a, h) \in Nat
      BY DEF Least
    <2>4. OverlapFor(size, overlap) = Least(a, h)
      BY <2>1, <2>2 DEF OverlapFor
    <2> QED BY <2>3, <2>4
  <1>2. PICK cap \in Caps : size <= cap
    <2>1. PICK A \in Nat : A = AbsoluteMax
      BY Limits
    <2>2. Most(size, A) \in Nat /\ A <= Most(size, A) /\ size <= Most(size, A)
      BY DEF Most
    <2> QED BY <2>1, <2>2 DEF Caps
  <1>3. Usable(txt, size, o, cap)
    BY <1>2 DEF Usable
  <1>4. CASE txt = <<>>
    <2>1. Split(txt, size, overlap, strat) = <<>>
      BY <1>4 DEF Split
    <2>2. PICK e : e = <<>>
      OBVIOUS
    <2>3. e \in Seq(TrueSet(txt)) /\ Len(txt) = 0
      BY <1>4, <2>2
    <2>4. Lossless(txt, e)
      BY <2>3 DEF Lossless
    <2> QED BY <2>1, <2>2, <2>4
  <1>5. CASE txt # <<>>
    <2>1. Split(txt, size, overlap, strat) = Tiers(Chain(txt, strat), txt, size, o)
      BY <1>1, <1>5 DEF Split
    <2>2. Lossless(txt, Tiers(Chain(txt, strat), txt, size, o))
      BY <1>3, TiersLossless
    <2> QED BY <2>1, <2>2
  <1> QED BY <1>4, <1>5

-----------------------------------------------------------------------------
(*************************************************************************)
(* Parents and children: the remap, and the step that cuts the book      *)
(*************************************************************************)

\* A chunk of a chunk, in the coordinates of the book: it is faithful to the book, and
\* what it holds of its parent's source it holds of the book's.
LEMMA RemapTrue ==
  ASSUME NEW txt \in Seq(TextMarks), NEW parent \in TrueSet(txt), NEW sub \in TrueSet(parent.content)
  PROVE  /\ RemapChild(sub, parent) \in TrueSet(txt)
         /\ \A i \in 1..(parent.end - parent.start) :
              In(sub, parent.syn + i) => In(RemapChild(sub, parent), parent.start + i)
  <1>1. /\ parent \in ChunkSet /\ parent.syn \in Nat /\ parent.start \in Nat /\ parent.end \in Nat
        /\ sub \in ChunkSet /\ sub.syn \in Nat /\ sub.start \in Nat /\ sub.end \in Nat
    BY TrueIs
  <1>2. PICK y \in Nat, a \in Nat, b \in Nat : y = parent.syn /\ a = parent.start /\ b = parent.end
    BY <1>1
  <1>3. PICK P : P = parent.content
    OBVIOUS
  <1>4. /\ a <= b /\ b <= Len(txt) /\ Len(P) = y + (b - a)
        /\ \A i \in 1..(b - a) : P[y+i] = txt[a+i]
    <2>1. /\ parent.start <= parent.end /\ parent.end <= Len(txt)
          /\ Len(parent.content) = parent.syn + (parent.end - parent.start)
          /\ \A i \in 1..(parent.end - parent.start) : parent.content[parent.syn+i] = txt[parent.start+i]
      BY TrueIs
    <2> QED BY <1>2, <1>3, <2>1
  <1>5. PICK z \in Nat, s \in Nat, e \in Nat : z = sub.syn /\ s = sub.start /\ e = sub.end
    BY <1>1
  <1>6. PICK C : C = sub.content
    OBVIOUS
  <1>7. /\ s <= e /\ e <= Len(P) /\ Len(C) = z + (e - s)
        /\ \A i \in 1..(e - s) : C[z+i] = P[s+i]
    <2>1. /\ sub.start <= sub.end /\ sub.end <= Len(parent.content)
          /\ Len(sub.content) = sub.syn + (sub.end - sub.start)
          /\ \A i \in 1..(sub.end - sub.start) : sub.content[sub.syn+i] = parent.content[sub.start+i]
      BY TrueIs
    <2> QED BY <1>3, <1>5, <1>6, <2>1
  <1>8. e <= y + (b - a)
    BY <1>4, <1>7
  <1>9. PICK s1 \in Nat, e1 \in Nat, z1 \in Nat :
          /\ s1 = a + Most(0, s - y) /\ e1 = a + Most(0, e - y)
          /\ z1 = z + Least(Most(y - s, 0), e - s)
    <2>1. a + Most(0, s - y) \in Nat /\ a + Most(0, e - y) \in Nat
      BY DEF Most
    <2>2. z + Least(Most(y - s, 0), e - s) \in Nat
      BY <1>7 DEF Most, Least
    <2> QED BY <2>1, <2>2
  <1>10. PICK w : w = RemapChild(sub, parent)
    OBVIOUS
  <1>11. w = [sub EXCEPT !.start = s1, !.end = e1, !.syn = z1]
    BY <1>2, <1>5, <1>9, <1>10 DEF RemapChild
  <1>12. w \in ChunkSet
    BY <1>1, <1>10, RemapIs
  <1>13. w.content = C /\ w.start = s1 /\ w.end = e1 /\ w.syn = z1
    BY <1>1, <1>6, <1>11 DEF ChunkSet
  <1>14. s1 = IF s >= y THEN a + (s - y) ELSE a
    BY <1>9 DEF Most
  <1>15. e1 = IF e >= y THEN a + (e - y) ELSE a
    BY <1>9 DEF Most
  <1>16. z1 = IF s >= y THEN z ELSE IF e >= y THEN z + (y - s) ELSE z + (e - s)
    BY <1>7, <1>9 DEF Most, Least
  <1>17. s1 <= e1 /\ e1 <= b /\ z + (e - s) = z1 + (e1 - s1)
    BY <1>4, <1>7, <1>8, <1>14, <1>15, <1>16
  <1>18. ASSUME NEW i \in 1..(e1 - s1) PROVE C[z1+i] = txt[s1+i]
    <2>1. PICK j \in 1..(b - a) : s1 + i = a + j
      <3>1. (s1 - a) + i \in 1..(b - a) /\ s1 + i = a + ((s1 - a) + i)
        BY <1>14, <1>17
      <3> QED BY <3>1
    <2>2. PICK k \in 1..(e - s) : z1 + i = z + k /\ s + k = y + j
      <3>1. CASE s >= y
        <4>1. z1 = z /\ s1 = a + (s - y) /\ e1 = a + (e - y)
          BY <1>7, <1>14, <1>15, <1>16, <3>1
        <4>2. i \in 1..(e - s) /\ z1 + i = z + i /\ s + i = y + j
          BY <2>1, <4>1
        <4> QED BY <4>2
      <3>2. CASE ~(s >= y)
        <4>1. e > y /\ s1 = a /\ e1 = a + (e - y) /\ z1 = z + (y - s)
          BY <1>14, <1>15, <1>16, <3>2
        <4>2. (y - s) + i \in 1..(e - s) /\ z1 + i = z + ((y - s) + i) /\ s + ((y - s) + i) = y + j
          BY <2>1, <3>2, <4>1
        <4> QED BY <4>2
      <3> QED BY <3>1, <3>2
    <2>3. C[z+k] = P[s+k] /\ P[y+j] = txt[a+j]
      BY <1>4, <1>7
    <2> QED BY <2>1, <2>2, <2>3
  <1>19. e1 <= Len(txt)
    <2>1. PICK n \in Nat : n = Len(txt)
      BY LenProperties
    <2> QED BY <1>4, <1>17, <2>1
  <1>20. Len(C) = z1 + (e1 - s1)
    BY <1>7, <1>17
  <1>21. Faithful(txt, w)
    BY <1>13, <1>17, <1>18, <1>19, <1>20 DEF Faithful
  <1>22. w \in TrueSet(txt)
    BY <1>12, <1>21 DEF TrueSet
  <1>23. ASSUME NEW i \in 1..(b - a), In(sub, y + i) PROVE In(w, a + i)
    <2>1. s < y + i /\ y + i <= e
      BY <1>5, <1>23 DEF In
    <2>2. s1 < a + i /\ a + i <= e1
      BY <1>14, <1>15, <2>1
    <2> QED BY <1>13, <2>2 DEF In
  <1> QED BY <1>2, <1>10, <1>22, <1>23

\* The children that are faithful
TrueKids(txt) == [chunk : TrueSet(txt), parent : Seq(TextMarks)]
HeldByKid(kids_, i) == \E k \in 1..Len(kids_) : In(kids_[k].chunk, i)

\* The chunks of a section, split again: its children hold what it holds.
LEMMA AdoptTrue ==
  ASSUME NEW txt \in Seq(TextMarks), NEW parent \in TrueSet(txt), NEW subs, Lossless(parent.content, subs)
  PROVE  /\ Adopt(subs, parent) \in Seq(TrueKids(txt))
         /\ \A i \in 1..Len(txt) : txt[i] # "n" /\ In(parent, i) => HeldByKid(Adopt(subs, parent), i)
  <1>1. PICK P \in Seq(TextMarks) : P = parent.content
    BY TrueIs
  <1>2. subs \in Seq(TrueSet(P)) /\ \A i \in 1..Len(P) : P[i] # "n" => Held(subs, i)
    BY <1>1 DEF Lossless
  <1>3. PICK n \in Nat : n = Len(subs) /\ DOMAIN subs = 1..n
    BY <1>2, LenProperties
  <1>4. parent \in ChunkSet /\ parent.bc \in Seq(CrumbMarks)
    BY TrueIs DEF ChunkSet
  <1>5. PICK v \in Seq(TextMarks) : v = Words(parent.content)
    BY <1>1, WordsAre
  <1> DEFINE kid(k) == [chunk |-> [RemapChild(subs[k], parent) EXCEPT
                                     !.bc = MergeBreadcrumbs(parent.bc, subs[k].bc)],
                        parent |-> v]
  <1>6. ASSUME NEW k \in 1..n
        PROVE  /\ kid(k) \in TrueKids(txt)
               /\ \A i \in 1..(parent.end - parent.start) :
                    In(subs[k], parent.syn + i) => In(kid(k).chunk, parent.start + i)
    <2>1. PICK c \in TrueSet(P) : c = subs[k]
      BY <1>2, <1>3, ElementOfSeq
    <2>2. c \in ChunkSet /\ c.bc \in Seq(CrumbMarks)
      BY TrueIs DEF ChunkSet
    <2>3. PICK r : r = RemapChild(c, parent)
      OBVIOUS
    <2>4. /\ r \in TrueSet(txt)
          /\ \A i \in 1..(parent.end - parent.start) : In(c, parent.syn + i) => In(r, parent.start + i)
      <3>1. c \in TrueSet(parent.content)
        BY <1>1
      <3>2. /\ RemapChild(c, parent) \in TrueSet(txt)
            /\ \A i \in 1..(parent.end - parent.start) :
                 In(c, parent.syn + i) => In(RemapChild(c, parent), parent.start + i)
        BY <3>1, RemapTrue
      <3> QED BY <2>3, <3>2
    <2>5. PICK b \in Seq(CrumbMarks) : b = MergeBreadcrumbs(parent.bc, c.bc)
      BY <1>4, <2>2, MergedCrumbs
    <2>6. PICK d : d = [r EXCEPT !.bc = b]
      OBVIOUS
    <2>7. r \in ChunkSet /\ Faithful(txt, r)
      BY <2>4 DEF TrueSet
    <2>8. /\ d \in ChunkSet /\ d.content = r.content /\ d.syn = r.syn
          /\ d.start = r.start /\ d.end = r.end
      BY <2>6, <2>7 DEF ChunkSet
    <2>9. Faithful(txt, d)
      BY <2>7, <2>8 DEF Faithful
    <2>10. d \in TrueSet(txt)
      BY <2>8, <2>9 DEF TrueSet
    <2>11. kid(k) = [chunk |-> d, parent |-> v]
      BY <2>1, <2>3, <2>5, <2>6
    <2>12. \A i : In(r, i) => In(d, i)
      BY <2>8 DEF In
    <2> HIDE DEF kid
    <2> QED BY <2>1, <2>4, <2>10, <2>11, <2>12 DEF TrueKids
  <1>7. PICK e : e = Adopt(subs, parent)
    OBVIOUS
  <1>8. e = [k \in 1..n |-> kid(k)]
    BY <1>3, <1>5, <1>7 DEF Adopt
  <1> HIDE DEF kid
  <1>9. e = [k \in 1..n |-> e[k]] /\ (\A k \in 1..n : e[k] = kid(k)) /\ DOMAIN e = 1..n
    BY <1>8
  <1>10. e \in Seq(TrueKids(txt))
    BY <1>6, <1>9, Listed
  <1>11. Len(e) = n
    BY <1>9, <1>10, LenProperties
  <1>12. ASSUME NEW i \in 1..Len(txt), txt[i] # "n", In(parent, i) PROVE HeldByKid(e, i)
    <2>1. PICK y \in Nat, a \in Nat, b \in Nat : y = parent.syn /\ a = parent.start /\ b = parent.end
      BY TrueIs
    <2>2. PICK N \in Nat : N = Len(txt)
      BY LenProperties
    <2>3. PICK j \in 1..(b - a) : i = a + j
      <3>1. a < i /\ i <= b
        BY <1>12, <2>1 DEF In
      <3>2. i - a \in 1..(b - a) /\ i = a + (i - a)
        BY <2>2, <3>1
      <3> QED BY <3>2
    <2>4. P[y+j] = txt[a+j] /\ Len(P) = y + (b - a)
      BY <1>1, <2>1, TrueIs
    <2>5. y + j \in 1..Len(P)
      BY <2>4, SMTT(30)
    <2>6. Held(subs, y + j)
      BY <1>2, <1>12, <2>3, <2>4, <2>5
    <2>7. PICK k \in 1..n : In(subs[k], y + j)
      BY <1>3, <2>6 DEF Held
    <2>8. In(kid(k).chunk, a + j)
      BY <1>6, <2>1, <2>7
    <2> QED BY <1>9, <1>11, <2>3, <2>8 DEF HeldByKid
  <1> QED BY <1>7, <1>10, <1>12

\* All sections split again: the children hold what the sections do.
LEMMA ChildrenTrue ==
  ASSUME NEW txt \in Seq(TextMarks), NEW all, Lossless(txt, all), NEW size \in Nat, NEW strat
  PROVE  /\ WithChildren(all, size, strat).sections = all
         /\ WithChildren(all, size, strat).children \in Seq(TrueKids(txt))
         /\ \A i \in 1..Len(txt) : txt[i] # "n" => HeldByKid(WithChildren(all, size, strat).children, i)
  <1>1. all \in Seq(TrueSet(txt))
    BY DEF Lossless
  <1>2. PICK n \in Nat : n = Len(all) /\ DOMAIN all = 1..n
    BY <1>1, LenProperties
  <1>3. PICK o \in Nat : o = size \div 5
    <2>1. 5 \in Nat \ {0}
      OBVIOUS
    <2>2. size \div 5 \in Nat
      BY <2>1, Quotient
    <2> QED BY <2>2
  <1> DEFINE S == Seq(TrueKids(txt))
             brood(k) == Adopt(Split(all[k].content, size, o, strat), all[k])
  <1>4. ASSUME NEW k \in 1..n
        PROVE  /\ brood(k) \in S
               /\ \A i \in 1..Len(txt) : txt[i] # "n" /\ In(all[k], i) => HeldByKid(brood(k), i)
    <2>1. PICK c \in TrueSet(txt) : c = all[k]
      BY <1>1, <1>2, ElementOfSeq
    <2>2. c.content \in Seq(TextMarks)
      BY TrueIs
    <2>3. PICK subs : subs = Split(c.content, size, o, strat)
      OBVIOUS
    <2>4. Lossless(c.content, subs)
      BY <2>2, <2>3, SplitLossless
    <2>5. /\ Adopt(subs, c) \in Seq(TrueKids(txt))
          /\ \A i \in 1..Len(txt) : txt[i] # "n" /\ In(c, i) => HeldByKid(Adopt(subs, c), i)
      BY <2>4, AdoptTrue
    <2> QED BY <2>1, <2>3, <2>5
  <1>5. PICK broods : broods = [k \in 1..n |-> brood(k)]
    OBVIOUS
  <1> HIDE DEF brood, S
  <1>6. broods = [k \in 1..n |-> broods[k]] /\ (\A k \in 1..n : broods[k] = brood(k)) /\ DOMAIN broods = 1..n
    BY <1>5
  <1>7. broods \in Seq(S)
    BY <1>4, <1>6, Listed
  <1>8. Len(broods) = n
    BY <1>6, <1>7, LenProperties
  <1>9. PICK fl : fl = FlattenSeq(broods)
    OBVIOUS
  <1>10. PICK ps : ps = Kept(all, {k \in DOMAIN all : Materialised(all[k], broods[k])})
    OBVIOUS
  <1>11. WithChildren(all, size, strat) = [parents |-> ps, children |-> fl, sections |-> all]
    <2>1. WithChildren(all, size, strat) = Family(all, broods)
      BY <1>2, <1>3, <1>5 DEF WithChildren, brood
    <2> QED BY <1>9, <1>10, <2>1 DEF Family
  <1>12. /\ fl \in Seq(TrueKids(txt))
         /\ \A b \in 1..n : /\ Skip(broods, b) \in Nat
                            /\ \A j \in 1..Len(broods[b]) : /\ Skip(broods, b) + j \in 1..Len(fl)
                                                            /\ fl[Skip(broods, b) + j] = broods[b][j]
    <2>1. broods \in Seq(Seq(TrueKids(txt)))
      BY <1>7 DEF S
    <2>2. /\ FlattenSeq(broods) \in Seq(TrueKids(txt))
          /\ \A b \in 1..Len(broods) : /\ Skip(broods, b) \in Nat
                                       /\ \A j \in 1..Len(broods[b]) :
                                            /\ Skip(broods, b) + j \in 1..Len(FlattenSeq(broods))
                                            /\ FlattenSeq(broods)[Skip(broods, b) + j] = broods[b][j]
      BY <2>1, FlattenElements
    <2> QED BY <1>8, <1>9, <2>2
  <1>13. ASSUME NEW i \in 1..Len(txt), txt[i] # "n" PROVE HeldByKid(fl, i)
    <2>1. Held(all, i)
      BY <1>13 DEF Lossless
    <2>2. PICK k \in 1..n : In(all[k], i)
      BY <1>2, <2>1 DEF Held
    <2>3. HeldByKid(broods[k], i)
      BY <1>4, <1>6, <1>13, <2>2
    <2>4. PICK j \in 1..Len(broods[k]) : In(broods[k][j].chunk, i)
      BY <2>3 DEF HeldByKid
    <2>5. PICK l \in 1..Len(fl) : fl[l] = broods[k][j]
      BY <1>12, <2>4
    <2> QED BY <2>4, <2>5 DEF HeldByKid
  <1> QED BY <1>11, <1>12, <1>13

\* The cut is faithful to the book, and once it is made loses no words of it.
CutFaithful ==
  /\ text \in Seq(TextMarks) /\ cut.sections \in Seq(TrueSet(text)) /\ cut.children \in Seq(TrueKids(text))
  /\ ckPc = "dedupe" => \A i \in 1..Len(text) : text[i] # "n" => HeldByKid(cut.children, i)

\* Nothing is cut of a book that is opened.
LEMMA FaithInitial == ChunkInit => CutFaithful
  <1> SUFFICES ASSUME ChunkInit PROVE CutFaithful
    OBVIOUS
  <1>1. PICK b \in Books : Opened(b)
    BY DEF ChunkInit
  <1>2. text \in Seq(TextMarks) /\ cut = NoCut /\ ckPc = "split"
    BY <1>1, ChunkBookAssumption DEF Opened
  <1>3. NoCut.sections = <<>> /\ NoCut.children = <<>>
    BY DEF NoCut
  <1>4. cut.sections \in Seq(TrueSet(text)) /\ cut.children \in Seq(TrueKids(text))
    BY <1>2, <1>3
  <1> QED BY <1>2, <1>4 DEF CutFaithful

\* Every step keeps it.
LEMMA FaithStep == CutFaithful /\ [ChunkNext]_ckvars => CutFaithful'
  <1> SUFFICES ASSUME CutFaithful, [ChunkNext]_ckvars PROVE CutFaithful'
    OBVIOUS
  <1>1. CASE SplitBook
    <2>1. PICK t \in Seq(TextMarks) : t = text
      BY DEF CutFaithful
    <2>2. PICK all : all = Split(t, ParentSize, BookOverlap, strategy)
      OBVIOUS
    <2>3. Lossless(t, all)
      BY <2>2, Sizes, SplitLossless
    <2>4. PICK c : c = WithChildren(all, ChildSize, strategy)
      OBVIOUS
    <2>5. /\ c.sections = all /\ c.children \in Seq(TrueKids(t))
          /\ \A i \in 1..Len(t) : t[i] # "n" => HeldByKid(c.children, i)
      BY <2>3, <2>4, Sizes, ChildrenTrue
    <2>6. cut' = c /\ text' = t
      BY <1>1, <2>1, <2>2, <2>4 DEF SplitBook, SplitParentChild
    <2>7. all \in Seq(TrueSet(t))
      BY <2>3 DEF Lossless
    <2> QED BY <2>5, <2>6, <2>7 DEF CutFaithful
  <1>2. CASE DedupeBook
    <2>1. text' = text /\ cut' = cut /\ ckPc' = "rows"
      BY <1>2 DEF DedupeBook
    <2>2. text \in Seq(TextMarks) /\ cut.sections \in Seq(TrueSet(text)) /\ cut.children \in Seq(TrueKids(text))
      BY DEF CutFaithful
    <2> QED BY <2>1, <2>2, SMTT(30) DEF CutFaithful
  <1>3. CASE UNCHANGED ckvars
    <2>1. text' = text /\ cut' = cut /\ ckPc' = ckPc
      BY <1>3 DEF ckvars
    <2> QED BY <2>1 DEF CutFaithful
  <1> QED BY <1>1, <1>2, <1>3 DEF ChunkNext

\* A faithful chunk, in the words of Verbatim
LEMMA TrueVerbatim ==
  ASSUME NEW txt \in Seq(TextMarks), NEW c \in TrueSet(txt)
  PROVE  Slice(c.content, c.syn, Len(c.content)) = Slice(txt, c.start, c.end)
  <1>1. /\ c.content \in Seq(TextMarks) /\ c.syn \in Nat /\ c.start \in Nat /\ c.end \in Nat /\ c.start <= c.end
        /\ c.end <= Len(txt) /\ Len(c.content) = c.syn + (c.end - c.start)
        /\ \A i \in 1..(c.end - c.start) : c.content[c.syn+i] = txt[c.start+i]
    BY TrueIs
  <1>2. PICK y \in Nat, s \in Nat, e \in Nat : y = c.syn /\ s = c.start /\ e = c.end
    BY <1>1
  <1>3. PICK n \in Nat : n = Len(c.content) /\ n = y + (e - s) /\ y <= n /\ n - y = e - s
    <2>0. s <= e
      BY <1>1, <1>2
    <2>1. y + (e - s) \in Nat /\ y <= y + (e - s) /\ (y + (e - s)) - y = e - s
      BY <2>0
    <2>2. PICK n \in Nat : n = y + (e - s)
      BY <2>1
    <2>3. y <= n /\ n - y = e - s
      BY <2>1, <2>2
    <2>4. Len(c.content) = n
      BY <1>1, <1>2, <2>2
    <2> QED BY <2>2, <2>3, <2>4
  <1>4. PICK u, v : u = Slice(c.content, y, n) /\ v = Slice(txt, s, e)
    OBVIOUS
  <1>5. u \in Seq(TextMarks) /\ Len(u) = n - y /\ \A i \in 1..(n - y) : u[i] = c.content[y+i]
    <2>1. y <= n /\ n <= Len(c.content) /\ c.content \in Seq(TextMarks)
      BY <1>1, <1>3
    <2>2. /\ Slice(c.content, y, n) \in Seq(TextMarks) /\ Len(Slice(c.content, y, n)) = n - y
          /\ \A i \in 1..(n - y) : Slice(c.content, y, n)[i] = c.content[y+i]
      BY <2>1, SliceOf, ZenonT(60)
    <2> QED BY <1>4, <2>2
  <1>6. v \in Seq(TextMarks) /\ Len(v) = e - s /\ \A i \in 1..(e - s) : v[i] = txt[s+i]
    <2>1. s <= e /\ e <= Len(txt)
      BY <1>1, <1>2
    <2> QED BY <1>4, <2>1, SliceOf, ZenonT(60)
  <1>7. \A i \in 1..(e - s) : u[i] = v[i]
    BY <1>1, <1>2, <1>3, <1>5, <1>6
  <1>8. Len(u) = e - s
    BY <1>3, <1>5
  <1>9. u = v
    BY <1>5, <1>6, <1>7, <1>8, SameSeq
  <1> QED BY <1>2, <1>3, <1>4, <1>9

\* Every section and every child is a verbatim slice of the book after its generated
\* prefix, for any book, any sizes and any strategy: SplitParentChild never reports
\* a range its content is not the text of.
THEOREM VerbatimHolds == ChunkSpec => []Verbatim
  <1>1. CutFaithful => Verbatim
    <2> SUFFICES ASSUME CutFaithful, NEW c \in CutChunks
                 PROVE  Slice(c.content, c.syn, Len(c.content)) = Slice(text, c.start, c.end)
      BY DEF Verbatim
    <2>1. text \in Seq(TextMarks) /\ cut.sections \in Seq(TrueSet(text)) /\ cut.children \in Seq(TrueKids(text))
      BY DEF CutFaithful
    <2>2. c \in TrueSet(text)
      <3>1. CASE \E k \in DOMAIN cut.sections : c = cut.sections[k]
        <4>1. PICK k \in DOMAIN cut.sections : c = cut.sections[k]
          BY <3>1
        <4>2. k \in 1..Len(cut.sections)
          BY <2>1, LenProperties
        <4> QED BY <2>1, <4>1, <4>2, ElementOfSeq
      <3>2. CASE \E k \in DOMAIN cut.children : c = cut.children[k].chunk
        <4>1. PICK k \in DOMAIN cut.children : c = cut.children[k].chunk
          BY <3>2
        <4>2. k \in 1..Len(cut.children)
          BY <2>1, LenProperties
        <4>3. cut.children[k] \in TrueKids(text)
          BY <2>1, <4>2, ElementOfSeq
        <4> QED BY <4>1, <4>3 DEF TrueKids
      <3> QED BY <3>1, <3>2 DEF CutChunks
    <2> QED BY <2>1, <2>2, TrueVerbatim
  <1> QED BY FaithInitial, FaithStep, <1>1, PTL DEF ChunkSpec

\* No words of a book are lost between the splitter and the rows: every mark that
\* is not blank is in the range of a child, whichever tier cut its section and
\* whichever cut the child.
THEOREM NothingLostHolds == ChunkSpec => []NothingLost
  <1>1. CutFaithful => NothingLost
    <2> SUFFICES ASSUME CutFaithful, ckPc = "dedupe", NEW i \in DOMAIN text, text[i] # "n"
                 PROVE  \E k \in DOMAIN cut.children :
                          cut.children[k].chunk.start < i /\ i <= cut.children[k].chunk.end
      BY DEF NothingLost
    <2>1. text \in Seq(TextMarks) /\ cut.children \in Seq(TrueKids(text))
      BY DEF CutFaithful
    <2>2. i \in 1..Len(text)
      BY <2>1, LenProperties
    <2>3. HeldByKid(cut.children, i)
      BY <2>2 DEF CutFaithful
    <2>4. PICK k \in 1..Len(cut.children) : In(cut.children[k].chunk, i)
      BY <2>3 DEF HeldByKid
    <2>5. k \in DOMAIN cut.children
      BY <2>1, LenProperties
    <2> QED BY <2>4, <2>5 DEF In
  <1> QED BY FaithInitial, FaithStep, <1>1, PTL DEF ChunkSpec
=============================================================================

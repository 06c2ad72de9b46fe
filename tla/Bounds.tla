------------------------------- MODULE Bounds -------------------------------
(***************************************************************************)
(* The page ranges the splitter cuts a book into: FixedBounds when the PDF *)
(* has no outline, ChapterAlignedBounds, which runs the same windows       *)
(* between bookmarks, when it has one.  The loops are steps, so that their *)
(* invariants can be stated, and proved for books of any length.           *)
(***************************************************************************)
EXTENDS Integers, Sequences, FiniteSets

CONSTANTS
  MaxPages,   \* bound on the page count
  MaxWindow,  \* bound on SHARD_PAGES
  MaxMarks    \* bound on the bookmarks of an outline

ASSUME BoundsAssumption == {MaxPages, MaxWindow} \subseteq Nat \ {0} /\ MaxMarks \in Nat

VARIABLES
  pageCount, shardPages, outline,  \* the input
  marks,      \* bookmark pages the chapter loop has not reached
  prevStart,  \* where the current chapter starts
  lim,        \* where it ends
  start,      \* the next window
  bounds,     \* the windows so far
  pc

vars == <<pageCount, shardPages, outline, marks, prevStart, lim, start, bounds, pc>>

\* Bookmarks on page 0, before the book or beyond it are pulled inside.
Clamp(p) == IF p < 1 THEN 1 ELSE IF p > pageCount THEN pageCount ELSE p
Clean    == {Clamp(p) : p \in outline}

\* HandleSplit asks FixedBounds for one page of overlap, the chapters for none.
Overlap == IF outline = {} THEN 1 ELSE 0

Init ==
  /\ pageCount \in 1..MaxPages /\ shardPages \in 1..MaxWindow
  /\ outline \in {o \in SUBSET (-1..(MaxPages+1)) : Cardinality(o) <= MaxMarks}
  /\ marks = Clean /\ prevStart = 1 /\ lim = 0 /\ start = 1 /\ bounds = <<>>
  /\ pc = "chapter"

\* Mutant: the chapter takes the page of the next bookmark along.
ChapterEndPast(page) == page
ChapterEnd(page)     == page - 1

\* The chapter before the next bookmark, if there is one.
Chapter ==
  /\ pc = "chapter" /\ marks # {}
  /\ \E page \in marks :
       /\ \A m \in marks : page <= m
       /\ marks' = marks \ {page} /\ prevStart' = page
       /\ IF page > prevStart
          THEN lim' = ChapterEnd(page) /\ start' = prevStart /\ pc' = "window"
          ELSE UNCHANGED <<lim, start, pc>>
  /\ UNCHANGED <<pageCount, shardPages, outline, bounds>>

\* The last chapter, or the whole book.  The fallback for an outline without a
\* window, or with an inverted one, never applies: Covered and Aligned.
LastChapter ==
  /\ pc = "chapter" /\ marks = {}
  /\ IF prevStart <= pageCount
     THEN lim' = pageCount /\ start' = prevStart /\ pc' = "lastwindow"
     ELSE pc' = "done" /\ UNCHANGED <<lim, start>>
  /\ UNCHANGED <<pageCount, shardPages, outline, marks, prevStart, bounds>>

WindowEnd == IF start + shardPages - 1 > lim THEN lim ELSE start + shardPages - 1

\* Mutant: one page too far.
NextStartFar == WindowEnd + 2

\* The overlap moves the next start back, but never to the current one or before.
NextStart ==
  LET next == IF WindowEnd < lim THEN WindowEnd + 1 - Overlap ELSE WindowEnd + 1
  IN  IF next <= start /\ WindowEnd < lim THEN start + 1 ELSE next

\* One turn of FixedBounds.
Window ==
  /\ pc \in {"window", "lastwindow"} /\ start <= lim
  /\ bounds' = Append(bounds, [lo |-> start, hi |-> WindowEnd])
  /\ start' = NextStart
  /\ UNCHANGED <<pageCount, shardPages, outline, marks, prevStart, lim, pc>>

\* Mutant: the loop waits for a start it never reaches.
WindowsDoneLate ==
  /\ pc \in {"window", "lastwindow"} /\ start > lim + 1
  /\ pc' = IF pc = "window" THEN "chapter" ELSE "done"
  /\ UNCHANGED <<pageCount, shardPages, outline, marks, prevStart, lim, start, bounds>>

WindowsDone ==
  /\ pc \in {"window", "lastwindow"} /\ start > lim
  /\ pc' = IF pc = "window" THEN "chapter" ELSE "done"
  /\ UNCHANGED <<pageCount, shardPages, outline, marks, prevStart, lim, start, bounds>>

Next == Chapter \/ LastChapter \/ Window \/ WindowsDone

Spec == Init /\ [][Next]_vars /\ WF_vars(Next)
-----------------------------------------------------------------------------
\* Every variable keeps its shape.
TypeOK ==
  /\ pageCount \in Nat \ {0} /\ shardPages \in Nat \ {0} /\ outline \subseteq Int
  /\ marks \subseteq 1..pageCount /\ prevStart \in 1..pageCount
  /\ lim \in 0..pageCount /\ start \in 1..(pageCount+1)
  /\ bounds \in Seq([lo : 1..pageCount, hi : 1..pageCount])
  /\ pc \in {"chapter", "window", "lastwindow", "done"}

Holds(k, p) == bounds[k].lo <= p /\ p <= bounds[k].hi

\* Every page of the book is in some shard, whatever the outline says.
Covered == pc = "done" => \A p \in 1..pageCount : \E k \in DOMAIN bounds : Holds(k, p)

\* Shards go forward (each starts and ends after the one before it, none is
\* inverted or longer than SHARD_PAGES, neighbours share at most one page), and
\* they snap to bookmarks: a chapter starts a shard, and no shard runs over the
\* start of a chapter.
Aligned ==
  /\ \A k \in DOMAIN bounds : /\ bounds[k].lo <= bounds[k].hi
                              /\ bounds[k].hi - bounds[k].lo < shardPages
  /\ \A k \in 1..(Len(bounds)-1) : /\ bounds[k].lo < bounds[k+1].lo
                                   /\ bounds[k].hi < bounds[k+1].hi
                                   /\ bounds[k].hi <= bounds[k+1].lo
  /\ pc = "done" => \A m \in Clean :
       /\ \E k \in DOMAIN bounds : bounds[k].lo = m
       /\ \A k \in DOMAIN bounds : Holds(k, m) => bounds[k].lo = m

\* The loops end, also for shards of one page with one page of overlap.
Terminates == <>(pc = "done")
=============================================================================

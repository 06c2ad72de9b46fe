------------------------------- MODULE Stitch -------------------------------
(***************************************************************************)
(* The markdown of the settled shards becomes one text with a page for     *)
(* every line, and a chunk of it a page range.  A line is one of           *)
(*   "b" blank    "w" words    "H" "K" headings                             *)
(* tagged with the shard it came from; a blank line is one rune, its        *)
(* newline, and any other two.                                              *)
(***************************************************************************)
EXTENDS Integers, Sequences, SequencesExt

CONSTANTS Shelves   \* the inputs: sequences of settled shards [lines, lo, hi]

Marks == {"b", "w", "H", "K"}

\* The shards are in page order, and share a page at most with the next.
ASSUME StitchAssumption ==
  \A shards \in Shelves :
    /\ shards \in Seq([lines : Seq(Marks), lo : Nat, hi : Nat])
    /\ \A i \in DOMAIN shards : /\ shards[i].lo <= shards[i].hi
                                /\ i > 1 => shards[i-1].hi <= shards[i].lo

VARIABLES
  shelf,
  next,       \* the shard the loop is at
  lines,
  pageOf,     \* pageOfLine
  markdown,   \* the lines of the result
  pages,      \* its page map; empty when there is none
  stPc

stvars == <<shelf, next, lines, pageOf, markdown, pages, stPc>>

Shelved(shards) ==
  /\ shelf = shards
  /\ next = 1 /\ lines = <<>> /\ pageOf = <<>> /\ markdown = <<>> /\ pages = <<>> /\ stPc = "shards"

StInit == \E s \in Shelves : Shelved(s)

IsHeading(l) == l.mark \in {"H", "K"}
IsBlank(l)   == l.mark = "b"

\* The first line that is not blank and the last, 0 when all are
FirstText(ls) == SelectInSeq(ls, LAMBDA l : ~IsBlank(l))
LastText(ls)  == SelectLastInSeq(ls, LAMBDA l : ~IsBlank(l))

\* The lines without the blank ones before the first that is not
DropBlank(ls) == IF FirstText(ls) = 0 THEN <<>> ELSE SubSeq(ls, FirstText(ls), Len(ls))

\* The heading a shard repeats from the one before it, because of the page they
\* share: the first line goes and the blank lines under it.
Reconciled(docLines) ==
  LET last  == SelectLastInSeq(lines, IsHeading)
      first == SelectInSeq(docLines, IsHeading)
  IN  IF last # 0 /\ first # 0 /\ lines[last].mark = docLines[first].mark
      THEN DropBlank(Tail(docLines)) ELSE docLines

\* The page of a line: in proportion to its place in the shard
Page(s, local, n) == s.lo + (local * (s.hi - s.lo + 1)) \div n

\* One turn of the loop; a shard without markdown is skipped with its pages.
StitchShard ==
  LET s  == shelf[next]
      ls == Reconciled([i \in DOMAIN s.lines |-> [mark |-> s.lines[i], shard |-> next]])
  IN
  /\ stPc = "shards" /\ next <= Len(shelf) /\ next' = next + 1
  /\ lines' = lines \o ls
  /\ pageOf' = pageOf \o [i \in DOMAIN ls |-> Page(s, i - 1, Len(ls))]
  /\ UNCHANGED <<shelf, markdown, pages, stPc>>

Lead(ls)  == Len(ls) - Len(DropBlank(ls))
Trail(ls) == Len(ls) - LastText(ls)

\* alignPages: what TrimSpace took from the text goes from the map
Align(map) == SubSeq(map, 1 + Lead(lines), Len(map) - Trail(lines))

StitchEnd ==
  LET md  == SubSeq(lines, 1 + Lead(lines), Len(lines) - Trail(lines))
      map == Align(pageOf)
  IN
  /\ stPc = "shards" /\ next > Len(shelf) /\ stPc' = "stitched"
  /\ markdown' = md
  /\ pages' = IF Len(map) = Len(md) THEN map ELSE <<>>
  /\ UNCHANGED <<shelf, next, lines, pageOf>>

StNext == StitchShard \/ StitchEnd

StSpec == StInit /\ [][StNext]_stvars
-----------------------------------------------------------------------------
\* pageMapper: where the lines start, in runes
Runes(l) == IF IsBlank(l) THEN 1 ELSE 2
LineStart(k) == LET start[i \in 0..(k-1)] == IF i = 0 THEN 0 ELSE start[i-1] + Runes(markdown[i])
                IN  start[k-1]
LineFor(off) == CHOOSE k \in DOMAIN markdown :
                  LineStart(k) <= off /\ (k = Len(markdown) \/ off < LineStart(k + 1))

\* Mutant: the end of the range taken as its last rune.
RangeForPast(from, to) == <<pages[LineFor(from)], pages[LineFor(to)]>>

\* rangeFor: the end is exclusive
RangeFor(from, to) == <<pages[LineFor(from)], pages[LineFor(to - 1)]>>

OnShard(p, l) == p \in shelf[l.shard].lo..shelf[l.shard].hi

\* A book with words keeps its page map, since the two ways of trimming agree, and
\* its citations hold: the first page of a chunk is a page of the shard its first
\* line came from, the last page one of the shard of its last line, blank lines and
\* dropped headings notwithstanding, and the range is not inverted.
CitationHolds ==
  stPc = "stitched" =>
    /\ Len(pages) = Len(markdown)
    /\ \A i, j \in DOMAIN markdown : i <= j =>
         LET r == RangeFor(LineStart(i), LineStart(j + 1))
         IN  OnShard(r[1], markdown[i]) /\ OnShard(r[2], markdown[j]) /\ r[1] <= r[2]

WordLines(ls) == Cardinality({k \in DOMAIN ls : ls[k] = "w"})

\* The overlap costs a shard the heading it repeats and nothing else: the lines of
\* words of a shard are all in the text.  This is what Stitch says of itself; the
\* code drops the first line, which need not be the heading.
OnlyHeadingDropped ==
  \A i \in 1..(next-1) :
    WordLines([k \in {k \in DOMAIN lines : lines[k].shard = i} |-> lines[k].mark]) = WordLines(shelf[i].lines)
=============================================================================

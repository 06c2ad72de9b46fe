------------------------------ MODULE Chunker ------------------------------
(***************************************************************************)
(* SplitParentChild: how the markdown of a book becomes parents and the    *)
(* children that are embedded.  A text is a sequence of marks, each worth  *)
(* one rune, that keep what the splitter tells apart:                       *)
(*   "w" a piece of a word "s" the last word of a sentence, and the space   *)
(*   "n" a paragraph break "f" a chapter line (a heuristic marker)          *)
(*   "A" "B" headings of level 1, "a" one of level 2                        *)
(*   "T" the header of a table, "t" a row, "u" a row and the blank line     *)
(*       below it, which the row pattern swallows                           *)
(* Everything here is an operator; ChunkBook runs them on a book.           *)
(***************************************************************************)
EXTENDS Integers, Sequences, FiniteSets, SequencesExt

CONSTANTS
  AbsoluteMax,     \* absoluteMaxSize
  ChopWindow,      \* where chopOversize looks for a break (200)
  DefaultOverlap,  \* DefaultChunkOverlap
  TinyChunk,       \* a chunk below it is tiny to the validator (50)
  MinTarget,       \* coalesceTinyChunks' least target (200)
  MinHeuristic     \* the heuristic tier's least chunk (50)

ASSUME ChunkerAssumption ==
  {AbsoluteMax, ChopWindow, DefaultOverlap, TinyChunk, MinTarget, MinHeuristic} \subseteq Nat \ {0}

HeadingMarks == {"A", "B", "a"}
TableMarks   == {"T", "t", "u"}                   \* protected: never cut
LineMarks    == HeadingMarks \cup TableMarks \cup {"f"}
TextMarks    == LineMarks \cup {"w", "s", "n"}
Level(x)     == IF x = "a" THEN 2 ELSE 1

\* A line of its own starts where a line ended.
WellFormed(text) ==
  \A i \in 2..Len(text) : text[i] \in LineMarks => text[i-1] \in LineMarks \cup {"n"}

Slice(text, from, to) == SubSeq(text, from + 1, to)  \* text[from:to]
BlankText(text) == \A i \in DOMAIN text : text[i] = "n"
Least(x, y)     == IF x < y THEN x ELSE y
Most(x, y)      == IF x > y THEN x ELSE y

\* The elements of seq at the given places, in order
Kept(seq, places) ==
  LET kept[i \in 0..Len(seq)] ==
        IF i = 0 THEN <<>> ELSE IF i \in places THEN Append(kept[i-1], seq[i]) ELSE kept[i-1]
  IN  kept[Len(seq)]

\* The offsets of S, a set of offsets into text, in order
InOrder(S, text) == Kept([i \in 1..(Len(text)+1) |-> i - 1], {b + 1 : b \in S})

\* ensureDefaults on the overlap
OverlapFor(size, overlap) == Least(IF overlap <= 0 THEN DefaultOverlap ELSE overlap, size \div 2)
-----------------------------------------------------------------------------
\* Units: buildUnitsWithProtection and splitBySeparators

\* The run of marks around i that holds none of stop.
Run(text, i, stop) ==
  {j \in DOMAIN text : \A k \in DOMAIN text :
     (Least(i, j) <= k /\ k <= Most(i, j)) => text[k] \notin stop}

\* A unit ends after i: around a protected mark; at a paragraph break in a piece
\* that is too long; after a line in a paragraph that still is.
UnitEnds(text, i, size) ==
  \/ i = Len(text)
  \/ {text[i], text[i+1]} \cap TableMarks # {}
  \/ /\ Cardinality(Run(text, i, TableMarks)) > size
     /\ \/ "n" \in {text[i], text[i+1]}
        \/ text[i] \in LineMarks /\ Cardinality(Run(text, i, TableMarks \cup {"n"})) > size

UnitOf(text, from, to) == [text |-> Slice(text, from, to), start |-> from, end |-> to]

Units(text, size) ==
  LET ends == InOrder({i \in DOMAIN text : UnitEnds(text, i, size)}, text)
  IN  [k \in DOMAIN ends |-> UnitOf(text, IF k = 1 THEN 0 ELSE ends[k-1], ends[k])]

Synthetic(u) == u.start = u.end

\* unitsText, and how long it is
TextOf(units) == FlattenSeq([k \in DOMAIN units |-> units[k].text])
RunesOf(units) == Len(TextOf(units))
-----------------------------------------------------------------------------
\* headerTracker.update: a header is active until its table ends.  One that ends
\* with this unit keeps a new one from starting here (endedHeaders).
NoHeader == [active |-> FALSE, break |-> FALSE, ended |-> FALSE]

TrackHeader(ht, u) ==
  LET row    == u.text[1] \in TableMarks
      stays  == ht.active /\ ~ht.break /\ row
  IN  [active |-> stays \/ (~ht.active /\ u.text = <<"T">>),
       break  |-> stays /\ u.text[Len(u.text)] = "u",
       ended  |-> ht.active /\ ht.break /\ row]
-----------------------------------------------------------------------------
\* buildChunk: the source range of the source units, the generated prefix apart
Build(units) ==
  LET source == Kept(units, {k \in DOMAIN units : ~Synthetic(units[k])})
  IN  [content |-> TextOf(units), bc |-> <<>>,
       syn   |-> RunesOf(Kept(units, {k \in DOMAIN units : Synthetic(units[k])})),
       start |-> IF source = <<>> THEN 0 ELSE source[1].start,
       end   |-> IF source = <<>> THEN 0 ELSE source[Len(source)].end]

\* Mutant: a chunk without words ends the document.
FlushAll(m) == [m EXCEPT !.chunks = IF m.cur = <<>> THEN m.chunks ELSE <<Build(m.cur)>>, !.cur = <<>>]

\* flush: an accumulation without content is dropped.
Flush(m) ==
  [m EXCEPT !.chunks = IF BlankText(TextOf(m.cur)) THEN m.chunks ELSE Append(m.chunks, Build(m.cur)),
            !.cur = <<>>]

\* Mutant: a unit that is too long is a chunk.
ChopWhole(u) == <<Build(<<u>>)>>

\* The marks that end with a newline or a space
Breaks == LineMarks \cup {"n", "s"}

\* Where a slice from here ends: at the absolute maximum, or after the last break
\* in the window before it; never before one mark.
ChopEnd(text, from) ==
  LET end  == from + AbsoluteMax
      near == {i \in (from+2)..end : i > end - ChopWindow + 1 /\ text[i] \in Breaks}
  IN  IF end > Len(text) THEN Len(text) ELSE IF near = {} THEN end ELSE Max(near)

\* chopOversize: slices up to the end of the unit
Chop(u) ==
  LET n == Len(u.text)
      at[k \in 0..n] == IF k = 0 THEN 0 ELSE ChopEnd(u.text, at[k-1])
      last == CHOOSE k \in 0..n : at[k] = n /\ \A j \in 0..(k-1) : at[j] < n
  IN  [k \in 1..last |-> [content |-> Slice(u.text, at[k-1], at[k]), bc |-> <<>>, syn |-> 0,
                         start |-> u.start + at[k-1], end |-> u.start + at[k]]]

\* trimUnitsPrefix: the units without their first n runes
TrimPrefix(units, n) ==
  LET before(k) == RunesOf(SubSeq(units, 1, k-1))
      cut(k) == Most(0, n - before(k))
      part(u, c) == [text |-> Slice(u.text, c, Len(u.text)), start |-> u.start + c, end |-> u.end]
      parts == [k \in DOMAIN units |-> part(units[k], cut(k))]
  IN  Kept(parts, {k \in DOMAIN parts : parts[k].text # <<>>})

\* The boundaries an overlap may start at, by priority.
BoundaryRank(x) == IF x = "n" THEN 1 ELSE IF x \in HeadingMarks \cup {"f"} THEN 2
                   ELSE IF x = "s" THEN 3 ELSE 4

\* The last runes of the units, one more than may be carried, so that a boundary on
\* the edge is seen; an injected header is a barrier.
CarryWindow(cur, most) ==
  LET lastS == SelectLastInSeq(cur, Synthetic)
      tail  == SubSeq(cur, lastS + 1, Len(cur))
  IN  TrimPrefix(tail, Most(0, RunesOf(tail) - (most + 1)))

Boundaries(text, most) ==
  {e \in 1..(Len(text)-1) : /\ e >= Len(text) - most /\ BoundaryRank(text[e]) < 4
                            /\ ~BlankText(Slice(text, e, Len(text)))}

BestBoundary(text, ends) ==
  CHOOSE d \in ends : \A e \in ends :
    \/ BoundaryRank(text[d]) < BoundaryRank(text[e])
    \/ BoundaryRank(text[d]) = BoundaryRank(text[e]) /\ d <= e

\* findSafeOverlapBoundary: from the best boundary of the window on
FromBoundary(window, text, most) ==
  LET ends == Boundaries(text, most)
  IN  IF ends = {} THEN <<>> ELSE TrimPrefix(window, BestBoundary(text, ends))

\* computeOverlap: what of the flushed units the next chunk starts with
CarryIn(window, most) == FromBoundary(window, TextOf(window), most)
Carry(cur, most)      == IF most <= 0 THEN <<>> ELSE CarryIn(CarryWindow(cur, most), most)

\* The longest tail of the units that leaves room for the rest.
ShrinkTo(units, room) ==
  LET k == CHOOSE k \in 0..Len(units) :
             /\ RunesOf(SubSeq(units, k+1, Len(units))) <= Most(room, 0)
             /\ \A j \in 0..(k-1) : RunesOf(SubSeq(units, j+1, Len(units))) > Most(room, 0)
  IN  SubSeq(units, k+1, Len(units))

\* Re-injects the active table header, unless it is there already.
InjectHeader(kept, u) ==
  LET at == IF kept = <<>> THEN u.start ELSE kept[1].start
  IN  IF Contains(TextOf(kept) \o u.text, "T") THEN kept
      ELSE <<[text |-> <<"T">>, start |-> at, end |-> at]>> \o kept

\* What the next chunk starts with before u: overlap, and the header of the table
Opening(carry, u, head, size) ==
  IF head = 1 /\ 1 + Len(u.text) <= size
  THEN InjectHeader(ShrinkTo(carry, size - 1 - Len(u.text)), u) ELSE carry

\* The chunk is flushed when the unit does not fit.
MakeRoom(m, u, head, size, overlap) ==
  IF m.cur # <<>> /\ RunesOf(m.cur) + Len(u.text) + head > size
  THEN [Flush(m) EXCEPT !.cur = Opening(Carry(m.cur, Least(overlap, size - Len(u.text))), u, head, size)]
  ELSE m

\* The unit joins the chunk, or the next one at the absolute maximum.
Take(m, u) ==
  IF RunesOf(m.cur) + Len(u.text) > AbsoluteMax THEN [Flush(m) EXCEPT !.cur = <<u>>]
  ELSE [m EXCEPT !.cur = Append(m.cur, u)]

\* One turn of mergeUnits, with the header tracker after it
Turn(m, u, ht, size, overlap) ==
  IF Len(u.text) > AbsoluteMax
  THEN [Flush(m) EXCEPT !.ht = ht, !.chunks = Flush(m).chunks \o Chop(u)]
  ELSE Take(MakeRoom([(IF ht.ended THEN Flush(m) ELSE m) EXCEPT !.ht = ht], u,
                     IF ht.active /\ 1 <= size THEN 1 ELSE 0, size, overlap), u)

MergeUnits(units, size, overlap) ==
  LET merged[i \in 0..Len(units)] ==
        IF i = 0 THEN [chunks |-> <<>>, cur |-> <<>>, ht |-> NoHeader]
        ELSE Turn(merged[i-1], units[i], TrackHeader(merged[i-1].ht, units[i]), size, overlap)
  IN  Flush(merged[Len(units)]).chunks

SplitText(text, size, overlap) == MergeUnits(Units(text, size), size, overlap)

\* A chunk of text[from:to], in the coordinates of text
Shift(c, from) == [c EXCEPT !.start = c.start + from, !.end = c.end + from]
-----------------------------------------------------------------------------
\* The heading tier

HeadingsOf(text) == {i \in DOMAIN text : text[i] \in HeadingMarks}
CountLevel(text, l) == Cardinality({i \in HeadingsOf(text) : Level(text[i]) = l})

\* DominantHeadingLevel: the shallowest with three headings, else the deepest
DominantLevel(text) ==
  IF \E l \in 1..2 : CountLevel(text, l) >= 3
  THEN CHOOSE l \in 1..2 : CountLevel(text, l) >= 3 /\ \A k \in 1..(l-1) : CountLevel(text, k) < 3
  ELSE IF CountLevel(text, 2) > 0 THEN 2 ELSE IF CountLevel(text, 1) > 0 THEN 1 ELSE 0

\* Mutant: a shallower heading leaves the deeper ones in place.
ObserveKeep(stack, x) == [l \in 1..2 |-> IF l = Level(x) THEN x ELSE stack[l]]

\* HeadingHierarchy.Observe: a heading clears its level and those below it.
Observe(stack, x) == [l \in 1..2 |-> IF l < Level(x) THEN stack[l]
                                     ELSE IF l = Level(x) THEN x ELSE "none"]

\* BreadcrumbWithHashes at an offset, after every heading up to there
Breadcrumb(text, offset) ==
  LET stack[i \in 0..Len(text)] ==
        IF i = 0 THEN [l \in 1..2 |-> "none"]
        ELSE IF text[i] \in HeadingMarks THEN Observe(stack[i-1], text[i]) ELSE stack[i-1]
      open == stack[Least(offset + 1, Len(text))]
  IN  Kept(open, {l \in DOMAIN open : open[l] # "none"})

\* findHeadingBoundaries
SectionStarts(text) ==
  InOrder({0} \cup {i-1 : i \in {i \in HeadingsOf(text) : Level(text[i]) <= DominantLevel(text)}}, text)

\* The chunks of a section that is too large carry the breadcrumb of where they
\* start.
Subsections(subs, text, from) ==
  [k \in DOMAIN subs |-> [Shift(subs[k], from) EXCEPT !.bc = Breadcrumb(text, from + subs[k].start)]]

\* Text before the first section has no breadcrumb, whatever deeper heading it
\* starts with.
SectionCrumb(text, from) ==
  IF text[from+1] \in HeadingMarks /\ Level(text[from+1]) > DominantLevel(text) THEN <<>>
  ELSE Breadcrumb(text, from)

\* A section that fits with its breadcrumb is a chunk; a larger one is split.
Section(text, from, to, size, overlap) ==
  LET bc == SectionCrumb(text, from)
  IN  IF Len(bc) + 1 + (to - from) <= size
      THEN <<[content |-> Slice(text, from, to), bc |-> bc, syn |-> 0, start |-> from, end |-> to]>>
      ELSE Subsections(SplitText(Slice(text, from, to), size, overlap), text, from)

\* coalesceTinyChunks: what touches, shares a heading and stays within size
Mergeable(cur, next, size) ==
  /\ LongestCommonPrefix({cur.bc, next.bc}) # <<>> /\ cur.end = next.start
  /\ Len(cur.content) < Most(size \div 2, MinTarget)
  /\ Len(cur.content) + Len(next.content) <= size

Coalesce(chunks, size) ==
  LET join(out, c) ==
        LET cur == out[Len(out)] IN
        IF out # <<>> /\ Mergeable(cur, c, size)
        THEN [out EXCEPT ![Len(out)] = [cur EXCEPT !.content = cur.content \o c.content, !.end = c.end,
                                                   !.bc = LongestCommonPrefix({cur.bc, c.bc})]]
        ELSE Append(out, c)
      joined[i \in 0..Len(chunks)] == IF i = 0 THEN <<>> ELSE join(joined[i-1], chunks[i])
  IN  joined[Len(chunks)]

SplitByHeadings(text, size, overlap) ==
  LET starts == SectionStarts(text)
      to(k)  == IF k = Len(starts) THEN Len(text) ELSE starts[k+1]
  IN  IF DominantLevel(text) = 0 \/ Len(starts) <= 1 THEN SplitText(text, size, overlap)
      ELSE Coalesce(FlattenSeq([k \in DOMAIN starts |->
                                  Section(text, starts[k], to(k), size, overlap)]), size)
-----------------------------------------------------------------------------
\* The heuristic tier

\* findHeuristicBoundaries: a chapter line, and the end of a run of blank lines
MarkerBounds(text) ==
  {i-1 : i \in {i \in DOMAIN text : text[i] = "f"}} \cup
  {i \in 2..Len(text) : /\ text[i] = "n" /\ text[i-1] = "n"
                        /\ (i = Len(text) \/ text[i+1] # "n")}

\* appendChunk
AppendSlice(out, text, from, to) ==
  IF from >= to \/ BlankText(Slice(text, from, to)) THEN out
  ELSE Append(out, [content |-> Slice(text, from, to), bc |-> <<>>, syn |-> 0,
                    start |-> from, end |-> to])

\* applyOverlapAligned: the last boundary of the window, else a line, else the
\* plain offset
OverlapStart(text, end, overlap, bounds) ==
  LET target == Most(0, end - overlap)
      from   == Most(0, end - 2 * overlap)
      inside == {b \in bounds : from <= b /\ b < end}
      lines  == {i \in (from+1)..target : i < Len(text) /\ text[i+1] \in LineMarks \cup {"n"}}
  IN  CHOOSE b \in 0..Len(text) :
        IF inside # {} THEN b \in inside /\ \A c \in inside : c <= b
        ELSE IF lines # {} THEN b - 1 \in lines /\ \A c \in lines : c <= b - 1
        ELSE b = target

ShiftAll(chunks, by) == [k \in DOMAIN chunks |-> Shift(chunks[k], by)]

\* The boundary next against the chunk p that is being packed: what is too long
\* by itself is split, what does not fit any more starts the next chunk.
Pack(p, next, text, bounds, size, overlap) ==
  IF next - p.end > size
  THEN [out |-> AppendSlice(p.out, text, p.start, p.end)
                \o ShiftAll(SplitText(Slice(text, p.end, next), size, overlap), p.end),
        start |-> next, end |-> next]
  ELSE IF next - p.start > size /\ p.end - p.start >= Most(size \div 4, MinHeuristic)
  THEN [out |-> AppendSlice(p.out, text, p.start, p.end),
        start |-> OverlapStart(text, p.end, overlap, bounds), end |-> next]
  ELSE [p EXCEPT !.end = next]

Packed(p, text) == AppendSlice(p.out, text, p.start, p.end)

\* The bounds, and the end of the text, which may be one of them already
SplitByHeuristics(text, size, overlap) ==
  LET bounds == MarkerBounds(text) \cup {0, Len(text)}
      at     == Append(InOrder(MarkerBounds(text) \cup {0}, text), Len(text))
      pack[i \in 1..Len(at)] ==
        IF i = 1 THEN [out |-> <<>>, start |-> 0, end |-> 0]
        ELSE Pack(pack[i-1], at[i], text, bounds, size, overlap)
  IN  IF Len(text) <= size \/ MarkerBounds(text) = {} THEN SplitText(text, size, overlap)
      ELSE Packed(pack[Len(at)], text)
-----------------------------------------------------------------------------
\* The chain of tiers

\* ValidateChunks
ValidChunks(chunks, total, size) ==
  LET lens == {Len(chunks[k].content) : k \in DOMAIN chunks}
      tiny == Cardinality({k \in 1..(Len(chunks)-1) : Len(chunks[k].content) < TinyChunk})
  IN  /\ chunks # <<>>
      /\ ~(Len(chunks) = 1 /\ total > 2 * size)
      /\ ~(tiny > Len(chunks) \div 4 /\ tiny > 2)
      /\ ~((\A l \in lens : l < size \div 4) /\ total > size)
      /\ \A l \in lens : l <= 2 * size

\* resolveChainWithProfile and SelectStrategy
Chain(text, strategy) ==
  LET headings  == IF strategy = "auto" THEN Cardinality(HeadingsOf(text)) >= 3
                   ELSE strategy = "heading"
      heuristic == IF strategy = "auto" THEN Contains(text, "f") ELSE strategy = "heuristic"
  IN  (IF headings THEN <<"heading">> ELSE <<>>) \o
      (IF heuristic THEN <<"heuristic">> ELSE <<>>) \o <<"legacy">>

RunTier(tier, text, size, overlap) ==
  CASE tier = "heading"   -> SplitByHeadings(text, size, overlap)
    [] tier = "heuristic" -> SplitByHeuristics(text, size, overlap)
    [] tier = "legacy"    -> SplitText(text, size, overlap)

\* SplitWithDiagnostics: the first tier the validator accepts, else the legacy one
FirstValid(out, total, size) ==
  LET ok == {k \in DOMAIN out : ValidChunks(out[k], total, size)}
  IN  out[IF ok = {} THEN Len(out) ELSE Min(ok)]

Tiers(chain, text, size, overlap) ==
  FirstValid([k \in DOMAIN chain |-> RunTier(chain[k], text, size, overlap)], Len(text), size)

Split(text, size, overlap, strategy) ==
  IF text = <<>> THEN <<>> ELSE Tiers(Chain(text, strategy), text, size, OverlapFor(size, overlap))

\* HashText: of the words, not of the space between them
Words(content) ==
  LET text == Kept(content, {i \in DOMAIN content : content[i] # "n"})
  IN  [i \in DOMAIN text |-> IF text[i] = "u" THEN "t" ELSE text[i]]

\* mergeBreadcrumbs: a heading the child repeats is not doubled
MergeBreadcrumbs(parent, child) ==
  IF parent # <<>> /\ child # <<>> /\ parent[Len(parent)] = child[1]
  THEN parent \o Tail(child) ELSE parent \o child

\* Mutant: the injected header of the parent is taken for source text.
RemapChildPlain(sub, parent) == Shift(sub, parent.start)

\* remapChild: from the coordinates of the parent's content to the document's
RemapChild(sub, parent) ==
  [sub EXCEPT !.start = parent.start + Most(0, sub.start - parent.syn),
              !.end   = parent.start + Most(0, sub.end - parent.syn),
              !.syn   = sub.syn + Least(Most(parent.syn - sub.start, 0), sub.end - sub.start)]

\* The chunks of a parent's content as its children
Adopt(subs, parent) ==
  [k \in DOMAIN subs |->
     [chunk  |-> [RemapChild(subs[k], parent) EXCEPT !.bc = MergeBreadcrumbs(parent.bc, subs[k].bc)],
      parent |-> Words(parent.content)]]

\* A parent is materialised unless it is its child.
Materialised(parent, kids) ==
  Len(kids) > 1 \/ (Len(kids) = 1 /\ kids[1].chunk.content # parent.content)

Family(all, kids) ==
  [parents  |-> Kept(all, {k \in DOMAIN all : Materialised(all[k], kids[k])}),
   children |-> FlattenSeq(kids),
   sections |-> all]

\* Every parent split again, with an overlap of a fifth
WithChildren(all, size, strategy) ==
  Family(all, [k \in DOMAIN all |-> Adopt(Split(all[k].content, size, size \div 5, strategy), all[k])])

SplitParentChild(text, parentSize, childSize, overlap, strategy) ==
  WithChildren(Split(text, parentSize, overlap, strategy), childSize, strategy)
=============================================================================

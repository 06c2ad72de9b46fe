----------------------------- MODULE ChunkBook -----------------------------
(***************************************************************************)
(* The reading half of HandleEmbed after the stitch: split the book into   *)
(* parents and children, drop duplicates in each set and between the sets, *)
(* number what is left, and resolve the parents of the children.            *)
(***************************************************************************)
EXTENDS Chunker

CONSTANTS
  Books,       \* the books: a text and the CHUNK_STRATEGY it is cut with
  ParentSize, ChildSize, BookOverlap

ASSUME ChunkBookAssumption ==
  /\ {ParentSize, ChildSize, BookOverlap} \subseteq Nat \ {0}
  /\ \A b \in Books : b.text \in Seq(TextMarks) /\ WellFormed(b.text)

VARIABLES
  text, strategy,  \* the input
  cut,             \* what SplitParentChild returned
  parents, kids,   \* the rows: parents and children
  ckPc

ckvars == <<text, strategy, cut, parents, kids, ckPc>>

NoCut == [parents |-> <<>>, children |-> <<>>, sections |-> <<>>]

Opened(book) ==
  /\ text = book.text /\ strategy = book.strategy
  /\ cut = NoCut /\ parents = <<>> /\ kids = <<>> /\ ckPc = "split"

ChunkInit == \E b \in Books : Opened(b)

SplitBook ==
  /\ ckPc = "split"
  /\ cut' = SplitParentChild(text, ParentSize, ChildSize, BookOverlap, strategy)
  /\ ckPc' = IF cut'.children = <<>> /\ cut'.parents = <<>> THEN "failed" ELSE "dedupe"
  /\ UNCHANGED <<text, strategy, parents, kids>>

\* DropDuplicateChunks: the first of those with one hash
FirstOf(seq, hash) == Kept(seq, {i \in DOMAIN seq : \A j \in 1..(i-1) : hash[j] # hash[i]})

\* Cross-set dedupe, parent wins
CrossDrop(children, hashes) ==
  Kept(children, {i \in DOMAIN children : Words(children[i].chunk.content) \notin hashes})

\* Mutant: the link is set without a look at the surviving parents.
LinkAll(child, hashes) == child.parent

\* A child whose parent has no row gets no parent.
Link(child, hashes) == IF child.parent \in hashes THEN child.parent ELSE <<>>

\* RenumberGlobal: the children after the parents
KidSeq(n, i) == n + i - 1

DedupeBook ==
  LET pWords == [i \in DOMAIN cut.parents |-> Words(cut.parents[i].content)]
      cWords == [i \in DOMAIN cut.children |-> Words(cut.children[i].chunk.content)]
      ps     == FirstOf(cut.parents, pWords)
      hashes == {Words(ps[i].content) : i \in DOMAIN ps}
      cs     == CrossDrop(FirstOf(cut.children, cWords), hashes)
  IN
  /\ ckPc = "dedupe" /\ ckPc' = "rows"
  /\ parents' = [i \in DOMAIN ps |-> [id |-> Words(ps[i].content), seq |-> i - 1]]
  /\ kids' = [i \in DOMAIN cs |-> [id |-> Words(cs[i].chunk.content), seq |-> KidSeq(Len(ps), i),
                                   parent |-> Link(cs[i], hashes)]]
  /\ UNCHANGED <<text, strategy, cut>>

ChunkNext == SplitBook \/ DedupeBook

ChunkSpec == ChunkInit /\ [][ChunkNext]_ckvars
-----------------------------------------------------------------------------
CutChunks == {cut.sections[k] : k \in DOMAIN cut.sections} \cup
             {cut.children[k].chunk : k \in DOMAIN cut.children}

\* Every chunk is a verbatim slice of the book after its generated prefix, also
\* through the two coordinate systems of a parent with an injected header: what
\* read_pages and the page ranges rely on.
Verbatim == \A c \in CutChunks : Slice(c.content, c.syn, Len(c.content)) = Slice(text, c.start, c.end)

\* No words are lost: each mark that is not blank is in the source range of some
\* child, whichever tier cut the parent and whichever cut the child.
NothingLost ==
  ckPc = "dedupe" =>
    \A i \in DOMAIN text : text[i] # "n" =>
      \E k \in DOMAIN cut.children : cut.children[k].chunk.start < i /\ i <= cut.children[k].chunk.end

\* No chunk is over the ceiling of the embedding backend, injected header and
\* carried overlap included.
HardCeiling == \A c \in CutChunks : Len(c.content) <= AbsoluteMax

\* A heading names the section: it stands at or before the start of the chunk and
\* no heading of its level or above came between.
InScope(x, at) ==
  \E p \in 1..Least(at + 1, Len(text)) : text[p] = x
    /\ \A q \in (p+1)..Least(at + 1, Len(text)) : text[q] \in HeadingMarks => Level(text[q]) > Level(x)

\* The breadcrumb of a section holds only headings in scope where it starts, also
\* when small sections were merged.
ContextInScope ==
  \A k \in DOMAIN cut.sections : \A j \in DOMAIN cut.sections[k].bc :
    InScope(cut.sections[k].bc[j], cut.sections[k].start)

Ids(rows) == {rows[i].id : i \in DOMAIN rows}

\* The rows fit together: one id and one seq each across both sets, so that no
\* insert collides and neighbours by seq are of one kind, and no child points at a
\* parent without a row.
RowsResolve ==
  /\ Cardinality(Ids(parents) \cup Ids(kids)) = Len(parents) + Len(kids)
  /\ {parents[i].seq : i \in DOMAIN parents} \cup {kids[i].seq : i \in DOMAIN kids}
       = 0..(Len(parents) + Len(kids) - 1)
  /\ \A i \in DOMAIN kids : kids[i].parent \in Ids(parents) \cup {<<>>}
=============================================================================

------------------------------ MODULE MCText ------------------------------
(***************************************************************************)
(* The stages a book's text goes through, one after the other and each on  *)
(* inputs of its own: a behaviour runs the stage `focus' names and leaves  *)
(* the others at rest.                                                      *)
(***************************************************************************)
EXTENDS Bounds, Stitch, ChunkBook, EmbedBatches, Convert

CONSTANTS Stages   \* the stages to run

VARIABLE focus

textvars == <<vars, stvars, ckvars, emvars, cvvars, focus>>

\* Stages at rest.  A book of one page has its bounds.
BoundsRest ==
  /\ pageCount = 1 /\ shardPages = 1 /\ outline = {} /\ marks = {} /\ prevStart = 1
  /\ lim = 1 /\ start = 2 /\ bounds = <<[lo |-> 1, hi |-> 1]>> /\ pc = "done"
CvRest == /\ healthy = FALSE /\ cvFailed = 0 /\ openedAt = "never" /\ probing = FALSE
          /\ call = [CvIdle("none") EXCEPT !.pc = "rest"]

TextInit ==
  /\ focus \in Stages
  /\ IF focus = "bounds"  THEN Init      ELSE BoundsRest
  /\ IF focus = "stitch"  THEN StInit    ELSE Shelved(<<>>)
  /\ IF focus = "chunk"   THEN ChunkInit ELSE Opened([text |-> <<>>, strategy |-> "auto"])
  /\ IF focus = "embed"   THEN EmInit    ELSE Given(<<>>)
  /\ IF focus = "convert" THEN CvInit    ELSE CvRest

TextNext ==
  \/ focus = "bounds"  /\ Next      /\ UNCHANGED <<stvars, ckvars, emvars, cvvars, focus>>
  \/ focus = "stitch"  /\ StNext    /\ UNCHANGED <<vars, ckvars, emvars, cvvars, focus>>
  \/ focus = "chunk"   /\ ChunkNext /\ UNCHANGED <<vars, stvars, emvars, cvvars, focus>>
  \/ focus = "embed"   /\ EmNext    /\ UNCHANGED <<vars, stvars, ckvars, cvvars, focus>>
  \/ focus = "convert" /\ CvNext    /\ UNCHANGED <<vars, stvars, ckvars, emvars, focus>>

TextSpec == TextInit /\ [][TextNext]_textvars /\ WF_vars(Next) /\ CvFairness
-----------------------------------------------------------------------------
\* Texts of up to n marks of S
All(S, n) == {t \in UNION {[1..k -> S] : k \in 1..n} : WellFormed(t)}
Cut(S, how) == {[text |-> t, strategy |-> how] : t \in S}

\* One paragraph over the absolute maximum, with one other mark in it
Long == {[i \in 1..n |-> IF i = k THEN x ELSE "w"] : n \in {9, 10}, k \in 1..10, x \in {"n", "s", "w"}}

\* Prose, tables, chapter lines, and headings: what each tier looks for
AllBooks ==
  Cut(All({"w", "s", "n"}, 6) \cup Long \cup All({"w", "n", "T", "t", "u"}, 5)
      \cup All({"w", "n", "f"}, 7)
      \cup {t \in All({"w", "n", "A", "B", "a"}, 6) : Cardinality(HeadingsOf(t)) >= 3}, "auto")
  \cup Cut(All({"w", "n", "A", "a"}, 5), "heading")

Shard(n, lo, hi) == {[lines |-> l, lo |-> lo, hi |-> hi] :
                       l \in UNION {[1..k -> {"b", "w", "H"}] : k \in 0..n}}

\* One to three shards, with and without a page in common
AllShelves ==
  {<<a>> : a \in Shard(4, 1, 3)} \cup {<<a, b>> : a \in Shard(3, 1, 3), b \in Shard(4, 3, 4)}
  \cup {<<a, b, c>> : a \in Shard(2, 1, 1), b \in Shard(2, 2, 4), c \in Shard(2, 4, 5)}

AllCounts == UNION {[1..n -> 1..4] : n \in 0..4}
=============================================================================

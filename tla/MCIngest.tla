----------------------------- MODULE MCIngest -----------------------------
(* Instances of Ingest for TLC: what the splitter plans for the book.       *)
EXTENDS Ingest, TLC

\* One shard of two pages, which the ladder may split once.
PlanOne == [i \in {0} |-> [lo |-> 1, hi |-> 2]]
\* One shard of one page: nothing the ladder could split.
PlanPage == [i \in {0} |-> [lo |-> 1, hi |-> 1]]
\* Two shards of one page each: two parsers race for the last one.
PlanSingles == [i \in 0..1 |-> [lo |-> i + 1, hi |-> i + 1]]

\* The workers of a kind run the same code and are never compared by name.
Symmetry == Permutations(Parsers) \cup Permutations(Splitters)
=============================================================================

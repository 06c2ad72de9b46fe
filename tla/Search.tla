------------------------------- MODULE Search -------------------------------
(***************************************************************************)
(* A search through REST or MCP: resolve the reranker and the collections, *)
(* embed the query, run the dense and the BM25 legs, fuse them by rank,    *)
(* rerank.  Between two steps collections are rebound, re-embedded and     *)
(* deleted: every leg is a statement with a snapshot of its own.            *)
(***************************************************************************)
EXTENDS Integers, Sequences, FiniteSets, SequencesExt, FiniteSetsExt

CONSTANTS
  SeCols,        \* collections
  SeModels,      \* embedding models; a model is its dimension
  SeCorpus,      \* the child chunks at first: [id, col, dim, bm, tag]; they are ranked
                 \* by id in a dense leg and by bm in a BM25 leg, where 0 is no match
  SeBindings,    \* the models the collections have at first, 0 for none
  SeRequests,    \* what is asked: [surface, scope, targets, k, filter, flag, override]
  Candidates,    \* RERANK_CANDIDATES
  MaxSeChanges   \* bound: changes under a search

ASSUME SearchAssumption ==
  /\ SeModels \subseteq Nat \ {0} /\ Candidates \in Nat \ {0} /\ MaxSeChanges \in Nat
  /\ SeBindings \subseteq [SeCols -> SeModels \cup {0}]
  /\ SeRequests \subseteq [surface : {"rest", "mcp"}, scope : SUBSET SeCols, targets : SUBSET SeCols,
                         k : Nat \ {0}, filter : Nat, flag : {"unset", "on", "off"}, override : BOOLEAN]
  /\ IsFiniteSet(SeCols) /\ IsFiniteSet(SeCorpus)
  /\ SeCorpus \subseteq [id : Nat, col : SeCols, dim : SeModels \cup {0}, bm : Nat, tag : Nat]
  /\ \A r, s \in SeCorpus : r # s => r.id # s.id /\ (r.bm # 0 => r.bm # s.bm)

VARIABLES
  corpus,
  bound,       \* the model of each collection, 0 when it has none
  ranker,      \* the rerank model: whether it is there, and the collections bound to it
  sq,          \* the search
  seChanges

sevars == <<corpus, bound, ranker, sq, seChanges>>

Asked(q, models) ==
  /\ corpus = SeCorpus /\ bound = models
  /\ ranker = [there |-> TRUE, bound |-> SeCols] /\ seChanges = 0
  /\ sq = [q |-> q, pc |-> "resolve", rr |-> FALSE, cols |-> {}, groups |-> {}, legs |-> <<>>,
           pool |-> <<>>, hits |-> <<>>, rerank |-> "off", changed |-> FALSE]

SeInit == \E q \in SeRequests : \E models \in SeBindings : Asked(q, models)

Goto(pc) == sq' = [sq EXCEPT !.pc = pc]
Keeps    == UNCHANGED <<corpus, bound, ranker, seChanges>>
-----------------------------------------------------------------------------
\* The collections in question: those named, else the scope of the key over MCP,
\* else all of them.
Targets(q) == IF q.targets # {} THEN q.targets
              ELSE IF q.surface = "mcp" /\ q.scope # {} THEN q.scope ELSE SeCols

\* The single-model path: one collection named, or over MCP one in reach.
Single(q) == Cardinality(q.targets) = 1 \/ (q.surface = "mcp" /\ Cardinality(Targets(q)) = 1)

InScopeOf(q, c) == q.scope = {} \/ c \in q.scope

\* MCP refuses a collection outside the scope of the key, REST filters.
Refuse ==
  /\ sq.pc = "resolve" /\ sq.q.surface = "mcp" /\ \E c \in sq.q.targets : ~InScopeOf(sq.q, c)
  /\ Goto("refused") /\ Keeps

\* The binding of a single collection is asked for a model, off wins.
BoundRanker(c) == sq.q.flag # "off" /\ ranker.there /\ c \in ranker.bound

\* ResolveRerankModel: off wins, then the model asked for, then the binding of a
\* collection that is named alone.  An unknown model and "on" without one are
\* errors.
ResolveReranker ==
  LET q    == sq.q
      rr   == IF q.override THEN q.flag # "off" /\ ranker.there
              ELSE \E c \in q.targets : q.targets = {c} /\ BoundRanker(c)
      fail == q.flag # "off" /\ ~rr /\ (q.override \/ q.flag = "on")
  IN
  /\ sq.pc = "resolve" /\ ~(q.surface = "mcp" /\ \E c \in q.targets : ~InScopeOf(q, c))
  /\ sq' = [sq EXCEPT !.rr = rr, !.pc = IF fail THEN "refused" ELSE IF Single(q) THEN "one" ELSE "many"]
  /\ Keeps

\* embedQueryFn: the bound model embeds the query; without one, or without an
\* answer, the search is unavailable.  A collection that MCP found by itself is
\* asked for its reranker now.
EmbedQuery ==
  /\ sq.pc = "one"
  /\ \E c \in Targets(sq.q) :
       \/ /\ bound[c] # 0
          /\ sq' = [sq EXCEPT !.pc = "query", !.cols = {c}, !.groups = {bound[c]},
                              !.rr = sq.rr \/ (sq.q.targets = {} /\ BoundRanker(c))]
       \/ Goto("unavailable")
  /\ Keeps

\* MultiHybridSearch: the targets in scope, grouped by their models, and the query
\* embedded once for each of those.
EmbedForModels ==
  LET cols == {c \in Targets(sq.q) : InScopeOf(sq.q, c)} IN
  /\ sq.pc = "many"
  /\ \/ sq' = [sq EXCEPT !.pc = "sparse", !.cols = cols,
                         !.groups = {[model |-> bound[c], cols |-> {d \in cols : bound[d] = bound[c]}] :
                                       c \in {c \in cols : bound[c] # 0}}]
     \/ (\E c \in cols : bound[c] # 0) /\ Goto("unavailable")
  /\ Keeps
-----------------------------------------------------------------------------
\* The statements

\* The metadata filter is inside every leg.
Filtered(r) == sq.q.filter = 0 \/ r.tag = sq.q.filter

\* The rows before r in the order of the field rank, and the first n of them all
Before(rows, rank, r) == Cardinality({s \in rows : s[rank] < r[rank]})
Top(rows, rank, n)    == {r \in rows : Before(rows, rank, r) < n}

\* vector_dims(embedding) = dim: the vectors of an earlier binding are left out.
DenseRows(cols, dim) ==
  {r \in corpus : r.dim = dim /\ r.col \in cols /\ InScopeOf(sq.q, r.col) /\ Filtered(r)}

\* Mutant: the scope is not in the statement.
SparseRowsUnscoped(cols) == {r \in corpus : r.bm # 0 /\ (cols = {} \/ r.col \in cols) /\ Filtered(r)}

\* Mutant: scope and filter are applied to what the limit left.
SparseRowsLate(cols) ==
  {r \in Top({r \in corpus : r.bm # 0 /\ (cols = {} \/ r.col \in cols)}, "bm", sq.q.k) :
     InScopeOf(sq.q, r.col) /\ Filtered(r)}

\* An empty list of collections stands for all of them.
SparseRows(cols) ==
  {r \in corpus : /\ r.bm # 0 /\ (cols = {} \/ r.col \in cols)
                  /\ InScopeOf(sq.q, r.col) /\ Filtered(r)}

\* A leg: its ids in order, and its weight in the fusion
Leg(rows, rank, n, weight) ==
  [ids |-> [i \in 1..Cardinality(Top(rows, rank, n)) |->
              (CHOOSE r \in rows : Before(rows, rank, r) = i - 1).id],
   weight |-> weight]

\* Postgres refuses to compare vectors of two dimensions.
Comparable(rows, dim) == \A r \in rows : r.dim = dim

\* weight / (60 + rank), in integers; a leg that has not found the chunk adds none.
Rrf(leg, id) ==
  LET D == 60 * 61 * 62 * 63 * 64
      i == SelectInSeq(leg.ids, LAMBDA x : x = id)
  IN  IF i = 0 THEN 0 ELSE leg.weight * (D \div (60 + i))

Found(legs) == UNION {ToSet(legs[l].ids) : l \in DOMAIN legs}
ScoreOf(legs, id) == FoldLeft(LAMBDA sum, leg : sum + Rrf(leg, id), 0, legs)

\* The orders the fused scores allow: equal ones come in any order.
Rankings(legs) ==
  LET S == Found(legs)
  IN  {p \in [1..Cardinality(S) -> S] :
         /\ \A i, j \in DOMAIN p : i # j => p[i] # p[j]
         /\ \A i \in 1..(Len(p)-1) : ScoreOf(legs, p[i]) >= ScoreOf(legs, p[i+1])}

Fuse(legs, n) ==
  \E p \in Rankings(legs) :
    sq' = [sq EXCEPT !.pc = IF sq.rr THEN "rerank" ELSE "answer", !.legs = legs, !.groups = {},
                     !.pool = SubSeq(p, 1, Min({n, Len(p)}))]

\* HybridSearch: both legs and the fusion in one statement.  A reranker gets a
\* larger pool.
HybridSearch ==
  LET n     == IF sq.rr THEN Max({sq.q.k, Candidates}) ELSE sq.q.k
      dim   == CHOOSE d \in sq.groups : TRUE
      dense == DenseRows(sq.cols, dim)
  IN
  /\ sq.pc = "query"
  /\ IF Comparable(dense, dim)
     THEN Fuse(<<Leg(SparseRows(sq.cols), "bm", n, 3), Leg(dense, "id", n, 10)>>, n)
     ELSE Goto("dimerror")
  /\ Keeps

\* The BM25 leg of a search over several collections
SparseSearch ==
  /\ sq.pc = "sparse"
  /\ sq' = [sq EXCEPT !.pc = "dense", !.legs = <<Leg(SparseRows(sq.cols), "bm", sq.q.k, 3)>>]
  /\ Keeps

\* The dense leg of one model
DenseSearch ==
  /\ sq.pc = "dense"
  /\ \E g \in sq.groups :
       LET rows == DenseRows(g.cols, g.model) IN
       IF Comparable(rows, g.model)
       THEN sq' = [sq EXCEPT !.groups = sq.groups \ {g},
                             !.legs = Append(sq.legs, Leg(rows, "id", sq.q.k, 10))]
       ELSE Goto("dimerror")
  /\ Keeps

FuseLegs == /\ sq.pc = "dense" /\ sq.groups = {} /\ Fuse(sq.legs, sq.q.k) /\ Keeps
-----------------------------------------------------------------------------
\* The pool by score, stable; a hit the reply has no score for counts as zero.
Scored(pool, scores) ==
  LET score(i)     == IF i \in DOMAIN scores THEN scores[i] ELSE 0
      before(i, j) == score(i) > score(j) \/ (score(i) = score(j) /\ i < j)
      place(i)     == Cardinality({j \in DOMAIN pool : before(j, i)})
  IN  [n \in DOMAIN pool |-> pool[CHOOSE i \in DOMAIN pool : place(i) = n - 1]]

Cropped(hits) == SubSeq(hits, 1, Min({sq.q.k, Len(hits)}))

\* RerankHits, after the model was fetched again with its key
Rerank ==
  /\ sq.pc = "rerank" /\ ranker.there /\ sq.pool # <<>>
  /\ \E n \in 0..Len(sq.pool) : \E scores \in [1..n -> {0, 1}] :
       sq' = [sq EXCEPT !.pc = "answer", !.rerank = "applied", !.pool = Scored(sq.pool, scores)]
  /\ Keeps

\* The model is gone, its backend fails, or there is nothing to rank.
Degrade == /\ sq.pc = "rerank" /\ sq' = [sq EXCEPT !.pc = "answer", !.rerank = "degraded"] /\ Keeps

SeAnswer ==
  /\ sq.pc = "answer" /\ sq' = [sq EXCEPT !.pc = "ok", !.hits = Cropped(sq.pool)] /\ Keeps
-----------------------------------------------------------------------------
\* Changes under the search
SeChange ==
  /\ sq.pc \notin {"ok", "refused", "unavailable", "dimerror"}
  /\ seChanges < MaxSeChanges /\ seChanges' = seChanges + 1
  /\ sq' = [sq EXCEPT !.changed = TRUE]

Rebind(c, m) == SeChange /\ bound' = [bound EXCEPT ![c] = m] /\ UNCHANGED <<corpus, ranker>>

\* Phase W of an embed job: the chunks of a collection with vectors of its model
Reembed(c) ==
  /\ SeChange /\ bound[c] # 0
  /\ corpus' = {IF r.col = c THEN [r EXCEPT !.dim = bound[c]] ELSE r : r \in corpus}
  /\ UNCHANGED <<bound, ranker>>

DropBook(c) == SeChange /\ corpus' = {r \in corpus : r.col # c} /\ UNCHANGED <<bound, ranker>>

\* The rerank model is unbound and deleted.
DropRanker == SeChange /\ ranker' = [there |-> FALSE, bound |-> {}] /\ UNCHANGED <<corpus, bound>>

SeNext ==
  \/ Refuse \/ ResolveReranker \/ EmbedQuery \/ EmbedForModels
  \/ HybridSearch \/ SparseSearch \/ DenseSearch \/ FuseLegs \/ Rerank \/ Degrade \/ SeAnswer
  \/ \E c \in SeCols : Reembed(c) \/ DropBook(c) \/ \E m \in SeModels : Rebind(c, m)
  \/ DropRanker

SeSpec == SeInit /\ [][SeNext]_sevars
-----------------------------------------------------------------------------
ColOf(id) == (CHOOSE r \in SeCorpus : r.id = id).col

\* Hits are of the collections the search is about: in the scope of the key, and
\* among the targets when any of those is in scope.  The statements say so one by
\* one, and the empty list that means "all" is within reach of the intersection.
WhereAsked ==
  \A i \in DOMAIN sq.hits :
    /\ InScopeOf(sq.q, ColOf(sq.hits[i]))
    /\ (\E c \in Targets(sq.q) : InScopeOf(sq.q, c)) => ColOf(sq.hits[i]) \in Targets(sq.q)

\* What some leg can find
Findable ==
  LET cols == {c \in Targets(sq.q) : InScopeOf(sq.q, c)}
  IN  {r \in corpus : r.col \in cols /\ Filtered(r) /\ (r.bm # 0 \/ (bound[r.col] # 0 /\ r.dim = bound[r.col]))}

\* An answer is a full page: no rebind or re-embed makes the search fail on a
\* dimension, a chunk is in the page once, the rerank stage never costs a hit
\* whatever its backend answers, and when nothing changed under the search it
\* has all there is to find up to top_k, so that nothing is scoped or filtered
\* after the cut, in any leg or after the fusion.
FullPage ==
  /\ sq.pc # "dimerror"
  /\ sq.pc = "ok" =>
       /\ Cardinality(ToSet(sq.hits)) = Len(sq.hits)
       /\ Len(sq.hits) = Min({sq.q.k, Cardinality(Found(sq.legs))})
       /\ ~sq.changed /\ (\E c \in Targets(sq.q) : InScopeOf(sq.q, c)) =>
            Len(sq.hits) = Min({sq.q.k, Cardinality(Findable)})
=============================================================================

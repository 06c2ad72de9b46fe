---------------------------- MODULE MCCatalogue ----------------------------
(***************************************************************************)
(* The other users of the database: the uploads, the model registry, the   *)
(* transactions on the rows of one document, and search.  What they share   *)
(* each module takes as given, so that a behaviour runs the part `focus'    *)
(* names and leaves the others at rest.                                     *)
(***************************************************************************)
EXTENDS Upload, Registry, TxLocks, Search, TLC

VARIABLE focus

catvars == <<vars, rgvars, txvars, sevars, focus>>

NoSearch == [surface |-> "rest", scope |-> {}, targets |-> {}, k |-> 1, filter |-> 0,
             flag |-> "off", override |-> FALSE]

CatInit ==
  /\ focus \in {"upload", "registry", "tx", "search"}
  /\ Init /\ RgInit /\ TxInit
  /\ IF focus = "search" THEN SeInit ELSE Asked(NoSearch, [c \in SeCols |-> 0])

CatNext ==
  \/ focus = "upload"   /\ Next /\ UNCHANGED <<rgvars, txvars, sevars, focus>>
  \/ focus = "registry" /\ RgNext /\ UNCHANGED <<vars, txvars, sevars, focus>>
  \/ focus = "tx"       /\ TxNext /\ UNCHANGED <<vars, rgvars, sevars, focus>>
  \/ focus = "search"   /\ SeNext /\ UNCHANGED <<vars, rgvars, txvars, focus>>

CatSpec == CatInit /\ [][CatNext]_catvars
-----------------------------------------------------------------------------
File(h, m, e, good) == [hash |-> h, magic |-> m, ext |-> e, size |-> 1, sound |-> good, pages |-> 1]
Pdf  == File(1, "pdf", "pdf", TRUE)
Epub == File(2, "epub", "epub", TRUE)
Torn == File(4, "pdf", "pdf", FALSE)

Link(rel, mime, href, b) == [rel |-> rel, mime |-> mime, href |-> href, body |-> b]

\* A link that does not resolve before one that does, an entry that offers a
\* damaged file in no known type, which a sync leaves out, and a second book.
Feed == << <<Link(TRUE, TRUE, "bad", Torn), Link(TRUE, TRUE, "http", Pdf)>>,
           <<Link(TRUE, FALSE, "http", Torn)>>,
           <<Link(FALSE, TRUE, "http", Epub)>> >>

TwoBooks == {Pdf, Epub}
OneFeed  == {Feed}
-----------------------------------------------------------------------------
Body(n, p, k, d) == [name |-> n, provider |-> p, key |-> k, dim |-> d]

\* A complete model, a change of provider either way, and a change of dimension
FourBodies ==
  {Body("a", "openai", TRUE, 1), Body(Keep, "tei", FALSE, 0), Body(Keep, Keep, FALSE, 2),
   Body(Keep, "openai", FALSE, 0)}

Chunk(i, c, d, b, t) == [id |-> i, col |-> c, dim |-> d, bm |-> b, tag |-> t]

\* The best BM25 match fails the filter, one chunk has no match, and one has the
\* dimension of an earlier binding.
Corpus == {Chunk(1, 1, 1, 2, 1), Chunk(2, 2, 2, 0, 1), Chunk(3, 2, 1, 3, 2), Chunk(4, 3, 2, 1, 2)}

\* Two models, one for all, and collections without a model
Bindings == {<<1, 2, 2>>, <<2, 1, 0>>, <<1, 1, 1>>, <<0, 0, 2>>, <<0, 0, 0>>}

\* The limits, filters and reranker settings are combined in part only.
Searches ==
  {q \in [surface : {"rest", "mcp"}, scope : SUBSET SeCols, targets : SUBSET SeCols, k : {1, 2},
          filter : {0, 1}, flag : {"unset", "on", "off"}, override : BOOLEAN] :
     /\ q.surface = "mcp" => Cardinality(q.targets) <= 1
     /\ q.k = 1 => q.filter = 1 /\ ~q.override
     /\ q.flag = "off" => q.override /\ q.filter = 0
     /\ q.override => Cardinality(q.scope) # 1}

\* The requests, those of the registry and the sessions of the transactions are the same.
Symmetry == Permutations(Sessions)
=============================================================================

# Verification of lybrix

lybrix turns uploaded books into searchable chunks. A document passes through
three kinds of worker, each a separate process that takes jobs from a Redis
stream, and Postgres is the state of record. This directory models that
pipeline, the way a book gets into it, what happens to its text on the way, the
catalogues of models it depends on, and the search at its end; it checks the
models with TLC and proves the central facts with TLAPS.

## 1. Inventory

| Part (source) | State | Operations | Interacts with |
|---|---|---|---|
| Upload (`internal/api/ingest.go`, `api/documents.go`, `pipeline/fileformat.go`) | a `documents` row, the raw object in S3 | presign, PUT, commit; fetch of a URL; sync of an OPDS feed: gate, duplicate test, verification, insert the row, then XADD `doc.split` | splitter, through the stream; object store |
| Splitter (`service/splitter.go`) | `shards` rows, `total_shards` | download, count pages, compute bounds, commit the rows, XADD one parse job per shard | bounds, store, stream |
| Shard bounds (`pipeline/splitter.go`) | none (pure loops) | `FixedBounds`, `ChapterAlignedBounds` | splitter; the ladder of the parser |
| Parser (`service/parser.go`) | a claimed shard row with a lease | claim, re-split (the retry ladder), fetch, convert, finish, XADD the embed job when the book is settled | store, stream, conversion services |
| Embedder (`service/embedder.go`) | `chunks` rows, the counter `embed:retries:<doc>` in Redis | read the shards, stitch, chunk, embed, delete and rebuild the chunks, finalise | store, model back ends |
| Janitor (`worker/janitor.go`, `store/janitor.go`) | what one pass read so far | reap expired leases, escalate, requeue sweep, reclaim of the PEL, embed sweep, shard sweep | every row and every stream |
| Streams and consumer loop (`queue/streams.go`, `worker/runner.go`) | entries, consumer group, PEL, delivery counts | XADD, XREADGROUP, XACK, XDEL, XAUTOCLAIM, dedup scan | all workers |
| Operator (`api/documents.go`, `cmd/lybrix-server`) | none of its own | delete, retry in four scopes, recount of counters | rows and streams, in any state of the pipeline |
| Transactions (`store/db.go`, `store/pgerr.go`) | row locks, attempts | lock order, lock timeout, `TxWithRetry`, schema bootstrap under an advisory lock, `EnsureDimIndex` | every handler |
| Conversion (`pipeline/parser.go`, `docling_client.go`, `anydoc.go`) | the circuit breaker of a parser process | pick a tier, call docling with retries behind the breaker | parser |
| Stitching and page map (`pipeline/stitch.go`, `chunker/pagemap.go`) | none | one text from the shards, a page for each line, a page range for each chunk | embedder |
| Chunker (`internal/chunker`) | none | three tiers, the validator, parents and children, header and breadcrumb injection, hashes | embedder |
| Embedding batches (`pipeline/embedder.go`, `tei_client.go`) | breaker of the client | plan batches, call the back end, assemble rows | embedder |
| Registries (`api/models.go`, `api/rerankmodels.go`, `api/collections.go` and their stores) | embedding models, rerankers, collections and their bindings, vector indexes | create, update, delete, bind, seed at boot | search, embedder |
| Search (`store/search.go`, `service/rerank.go`, `api/search.go`, the search tool of `mcp/tools.go`) | none | scope, resolve models, embed the query, two legs, fusion, rerank | registries, chunks |
| API keys, the other MCP tools, metrics, configuration, evaluation, web client | rows or none | single statements, I/O | API |

What makes the pipeline hard:

* Postgres and Redis are not updated together. Every handler commits first and
  sends the next job afterwards; a process may die between the two, and only
  the janitor's sweeps can find what was not sent.
* Delivery is at least once. A finished job may come again, a job may exist in
  several copies, and the janitor adds a copy before it removes the old entry.
* A shard belongs to a parser only as long as its lease runs. A slow parser is
  overtaken by another one and still finishes.
* The settle test compares counters on the document with `total_shards`,
  while claims, escalation, re-splits and retries change the rows the counters
  are about.
* The janitor decides on rows it read several calls ago, and its dedup scan is
  three reads of a stream that others change meanwhile.
* Operators may delete or retry a document at any moment.
* Requests check and then write in separate statements, often on separate
  connections: the duplicate test and the insert of an upload, the count of
  references and the delete of a model, the legs of a search.
* The text goes through several coordinate systems (lines, runes, runes of a
  parent with a generated header), and an error in one shows as a wrong citation
  or a wrong search result, never as an exception.
* Two clients keep a circuit breaker across jobs; one that does not close again
  stops a worker for good.

What correct means, part by part: no page is dropped between split and ladder;
a claim is exclusive while leases hold; the counters agree with the rows; an
unfinished shard always has a job; a document called ready is complete;
every document leaves the pipeline; a deleted document leaves nothing behind;
no job is lost on a stream and the sweeps do not send twice what is there;
the bounds cover the book and terminate; a content is stored once, and an answer
to an upload is true; transactions wait in one order and count once; the breaker
recovers; citations name the right pages, no words are lost between chunks, every
chunk is a slice of the book under the ceiling, rows and vectors belong together;
a binding can be served; a search answers from where it was asked, with a full
page. `hazards` in `PROJECT.json` lists where in the code each of these could go
wrong.

## 2. Modules

`Ingest` is the core: one document, its shards, chunks and jobs, and the
processes that work on it. Documents share nothing but the workers, so one
document is the unit of the protocol. `Operator` EXTENDS it and composes the
operator's retries and its recount with it; the delete request is in `Ingest`,
because every handler has to cope with it. The other modules open up what
`Ingest` takes as given or as one step:

| Module | What of `Ingest`, or of the rest |
|---|---|
| `Stream`, `JobQueue` | the bag of jobs: one Redis stream call by call, shown to implement the abstract queue (`AtLeastOnce`) |
| `TxLocks` | the transactions, as the row locks they take |
| `Upload` | the commit request (`ApiInsert`, `ApiEnqueue`), with everything before it |
| `Bounds` | the constant `Plan`: `EveryPageCovered` of `TextProofs` is what `PlanAssumption` assumes |
| `Convert` | the fetch and conversion of `ParseFetch` |
| `Stitch`, `Chunker`, `ChunkBook`, `EmbedBatches` | the text between `EmbedRead` and the write of the chunks |
| `Registry` | the catalogues, and the vector index of each dimension |
| `Search` | reading what was written |

The `MC*` modules hold plans, inputs and symmetry for TLC, the `*Proofs` modules
the theorems (section 5). `MCText` and `MCCatalogue` each run several
modules that share no variable; where the program's state meets (`Upload` inserts the row
whose locks are in `TxLocks`) each takes the other's work as given. A behaviour runs
the part that `focus` names and leaves the others at rest in a state of their own,
so that the states of the run are the sum of the parts' states, not the product.

### Ingest

| Variable | In the program |
|---|---|
| `doc` | state, `total_shards`, `shards_done`, `shards_failed` of the row; `"none"` when there is no row |
| `n`, `shard` | the `shards` rows 0..n-1: state, attempts, page range, `worker_id`, and whether `lease_until` is still to come |
| `chunks` | which shards' text the `chunks` table holds |
| `raw` | the raw object is in S3 |
| `waiting` | undelivered entries of the three streams, as a bag of jobs |
| `stranded` | delivered, unacked entries whose handler is gone |
| `retries` | `embed:retries:<doc>` |
| `api`, `spl`, `par`, `emb`, `jan` | how far each process is, and what it read and still uses |
| `faults` | number of faults so far |

A database transaction is one step. Reads, Redis calls, downloads and
conversions between transactions are steps of their own, so a process can be
overtaken at each of them. `held` says whether the handler still has its entry
in the PEL; a live handler loses it when the janitor reclaims the entry.

| Actions | Code |
|---|---|
| `ApiInsert`, `ApiEnqueue`, `ApiDies` | the commit request |
| `SplitRead` ... `SplitEnqueue`, `SplitAbort` | `HandleSplit` with `splitSingleShard` and `commitSplit` |
| `ParseRead`, `ParseClaim`, `ParseSkip`, `ParseResplit`, `ParseSubEnqueue`, `ParseFetch`, `ParseFinish`, `ParseEnqueueEmbed`, `ParseGone`, `ParseVanished`, `ParseAbort` | `HandleParse`, `ClaimShard`, `resplitShard`, `MarkShardDone` |
| `EmbedRead` ... `EmbedVanished`, `EmbedBackendFails`, `EmbedAbort` | `HandleEmbed` and its failure counter |
| `JanReap` ... `JanShardSweep`, `JanAbort`, `JanReclaimDies` | `Janitor.Pass`, step by step in its order |
| `LeaseExpire`, `ReclaimLive`, `DeleteDocument`, `RawVanish`, `RetriesExpire`, `RedisWipe` | time, the delete request, the object store and Redis |

`FaultKinds` chooses what may go wrong in an instance and `MaxFaults` how
often; `"delete"` allows the document to be deleted and is not counted. `"overrun"` allows a live parser to outlast its lease or the PEL
min-idle; `"redis"` allows Redis to lose its data. `LeaseExceedsIdle` describes
a deployment whose lease is longer than the 20 minute min-idle; the default
configuration is the other one, and the runs use it.

### Operator

`op` is the request in progress, `ops` the requests so far. No handler looks
at the state of the document first, so a request is possible whenever the row
exists. A retry is its transaction followed by its XADDs, with `OpDies` in
between; `RepairDocCounters` is two steps, because its recount locks nothing.

### Stream and JobQueue

`log` holds the entries in id order and `ent` what is known of each: job, body,
undelivered or not, delivery count. A consumer reads a batch, runs the handler
on each entry, then XACKs and XDELs it; the janitor claims idle entries, re-adds
or quarantines each, records the quarantines, scans and sweeps. Every call is a
step. `Where(s, T)` is the part of `s` that is in `T`, in order (the recursive
function `Taken`), and `Pel` the pending entries list. `JobQueue` knows the set of jobs that are open and the set that are
finished: jobs may be sent again at any time, and an open job is closed only by being
finished.

### Bounds

The loops of `FixedBounds` and `ChapterAlignedBounds` as steps, for every
page count, window and outline within the bounds, bookmarks outside the book
included.

### Upload

`docs`, `raw` and `jobs` are the rows, objects and split jobs by document id;
`req` holds the requests in progress and `depth` the backlog of `doc.parse`. A
body is its hash, magic bytes, size, page count and whether it can be read.
`Presign` and `Put` are the client's; `CommitBegin` and `StreamBegin` start the
three ways in; `Fetch`, `Gate`, `FindDuplicate`, `Verify`, `Store`, `Insert` and
`Send` are their calls in the order each of them has, and every one may be
overtaken. `Admits` is what the primary key, the unique index on collection and
hash and the foreign key of `documents` let pass. `answered`, `inserted`, `gone`
and `over` are history.

### TxLocks

`Locks(kind, s)` lists, for each write transaction on one document, the row locks
its statements take, in order and with their modes; `Statement` takes the next
one that nobody blocks, `Aborted` is a lock timeout or the deadlock detector,
`Again` the retry loop, `ConnectionLost` a commit of unknown outcome.

### Registry

`models` and `cols` are the rows of the two catalogues and of the collections,
`index` the dimensions that have a vector index, `advisory` the holder of the
advisory lock, `rq` the requests and booting processes. One SQL statement is one
step, since handlers read on one connection and write on another; the
constraints of the tables are in `NameFree`, `Deletable` and `Bindable`. `EnsureDimIndex`
and the bootstrap share `LockDdl`, `LockTimesOut` and `Retry`.

### Convert

One parser process: the tier a format takes (`FastPath`, or `ConvertNamed` for
docling), and the docling client with its attempts, its breaker and the half-open
probe. `healthy` is docling itself; `openedAt` keeps of the clock whether the
cooldown is over. `CvRefuseProbe` says whether docling may refuse the file of a
probe.

### Stitch, Chunker, ChunkBook, EmbedBatches

`Stitch` joins the shards line by line and keeps the page map; `RangeFor` is the
page range of a chunk. `Chunker` is the splitter as operators, over texts of marks
that keep what its patterns tell apart: words, ends of sentences, blank lines,
chapter lines, headings of two levels, table headers and rows. It has all three
tiers, the protected spans, the re-injected header and the overlap of the legacy
tier, the cut of a paragraph over the ceiling at a break near its end, sections,
breadcrumbs and merging of the heading tier (text before the first section has no
breadcrumb), the packing of the heuristic tier, the validator and the parent and child pass with its coordinate
mapping. `ChunkBook` runs it on a book and carries on with the dedupes, the
numbering and the links. `EmbedBatches` plans the batches, calls the back end
through the client's retries and breaker, and assembles the rows.

### Search

`sq` is one search, through REST or MCP, with its key's scope, targets, filter and
rerank settings. Every statement is a step; between two of them a collection may
be rebound, re-embedded or emptied and the reranker deleted. Relevance is a fixed
order of the chunks per leg; the fusion computes the weighted reciprocal ranks
in integers, and equal scores come in any order. A rerank back end answers with
any scores, also with too few.

## 3. Runs

| Run | Checks | Instance |
|---|---|---|
| `ingest_ladder` | `TypeOK`, `ClaimExclusive`, `DoneCountsRows`, `NoOrphanShard`, `DoneIsFinal` | one shard of two pages, two parsers, two failures of a parser or the janitor |
| `ingest_pages` | `NoRowsWithoutDocument`, `ReadyIsComplete`, `SettledWhenParsed`, `CountersNeverUndercount` | two shards of one page, two parsers, an embedder, a delete at any step, and one death of a parser or the embedder, one failing embedding backend, or one Redis wipe |
| `ingest_races` | `PagesCovered`, `CountersNeverUndercount` | delete at any step, two splitters, two parsers, a shard the ladder may split, any one failure or overrun of a lease or of the min-idle |
| `operator_retry` | `RetryKeepsCounters` | the four retry scopes and the recount at any step, one request that dies or one vanished object |
| `operator_live` | `Finishes`, `DeletedDrains` | a non-PDF document, delete or retry of failed shards, any one failure |
| `stream_live` | `ScanComplete`, `AtLeastOnce`, `Dispatched` | two jobs, one consumer with prefetch two, one failure of any kind |
| `stream_cap` | `NoJobLost` | one job that always fails, two consumers, five failures: the cap of five deliveries is reached |
| `catalogue` | `RowsMatchContents`, `AcceptedOnce`, `AnswerHolds`, `BoundedOvershoot` (Upload); `BindingsServed`, `NoDuplicateIndex` (Registry); `LockOrder`, `CommittedOnce` (TxLocks); `WhereAsked`, `FullPage` (Search) | two requests of any kind, two books, a damaged one and a feed of three entries, two ids, an unknown collection, one failure or delete; two requests or boots of up to three operations with one DDL failure or death; two transactions of any kind on two shards with one lost connection; every search of three collections and two models, five bindings and one change under it |
| `text` | `Covered`, `Aligned`, `Terminates` (Bounds); `CitationHolds` (Stitch); `Verbatim`, `NothingLost`, `HardCeiling`, `ContextInScope`, `RowsResolve` (ChunkBook); `BatchesFit`, `RowsAligned` (EmbedBatches); `Recovers` (Convert) | up to 7 pages, windows up to 4, up to 3 bookmarks; one to three shards of up to four lines; all well-formed texts of up to 5 to 7 marks of each tier's alphabet and paragraphs over the ceiling; up to 4 texts in batches of 2; one parser process |
| `ingest_v_stuck` | `SettledWhenParsed` refuted | as `ingest_ladder`, with one failure |
| `docling_v_stall` | `Recovers` refuted | the stage `convert` of `text`, with refused probes |
| `stitch_v_drop` | `OnlyHeadingDropped` refuted | the stage `stitch` of `text` |

Every property of a passing run has a mutant in `PROJECT.json`: a variant of a
mapped definition (an unbumped counter, a claim without its guard, an ack
without the fresh copy) under which TLC refutes it.

Bounds, and why they are enough to meet the hazards:

* One shard of two pages is the smallest that the ladder can split, once, and
  its two tiles are then in the hands of two parsers. Two single-page shards
  are the smallest book with a last shard to race for.
* A fault is what separates the interesting interleavings from the straight
  path. Two faults reach the second attempt, where the ladder splits, and one
  more failure there. One overrun, of the lease or of the entry, puts two parsers
  on one shard.
* `MaxShardAttempts` is 3 (the default is 4) in `ingest_ladder`, which therefore
  reaches the second attempt and its re-split but no escalation; it is 1 in
  `ingest_pages`, where one death is enough to escalate a shard.
  `EmbedMaxAttempts` is 2, so the last attempt is not the first.
* `MaxOps` is 1: a request meets every state of the pipeline, but no second one.
* Four stream ids exceed the jobs, so several copies of a job coexist; with all
  ids in use Redis refuses the XADD, which `JanitorRefused` models.
* Seven pages hold several windows of every size up to 4, with a rest.
* Two uploads are the smallest race for one content and for one id; a third would
  find what the second left. The limit of pages and bytes is 1 and the backlog 0,
  so each is met and passed.
* Three operations are enough for a model, its update and a binding or delete that
  meets them; for any number of them there are the theorems.
* Two sessions make every pair of transactions meet. A circle of three that has no
  pair in it would need three rows taken in a rotating order, and all transactions
  but the delete take shards in the order of the heap and documents last.
* A parent size of 4 and a child size of 2 with texts of up to 7 marks give books
  of several parents, parents of several children, tables that are cut and whose
  header comes again, merged sections, and paragraphs over the ceiling of 8. The
  constants of the source (50, 200, 7500) are scaled with them; `ChopWindow`, the 200
  runes in which `chopOversize` looks for a break, is 3, so that a break is found in
  some slices and not in others.
* Corpus and bindings of the searches contain a chunk that fails the filter and is
  the best match, one without a match, one with the dimension of an
  earlier binding, and a collection without a model.

`catalogue` and `text` say CHECK_DEADLOCK FALSE: requests are bounded in number
there, and loops and searches end. In the other runs the janitor
always has a next step, so the absence of deadlock says little;
`Finishes`, `DeletedDrains` and `Dispatched` say what matters.

Symmetry (parsers and splitters in `MCIngest`; workers and jobs in `MCStream`;
requests and sessions, which are the same set, in `MCCatalogue`) is used in safety runs only; no definition compares them by name.

### Fairness

* Weak fairness of each worker's step and of the janitor's: the consumer loops
  run forever and the processes are restarted when they die. A worker's death
  and a handler's failure are not fair: they are faults and bounded.
* Weak fairness of `LeaseExpire`: time passes.
* Strong fairness of `JanReclaim`: the idle time of an abandoned entry grows
  until it is over the minimum at some pass, although a given pass may be too early.
* Strong fairness of `JanShardRead`: the grace window hides a document from
  the shard sweep only for a while.
* Weak fairness of `ApiEnqueue` and of the operator's sends: a request that is
  not killed goes on. That it is killed is a fault of its own.
* `Stream` does not promise that a producer reaches its XADD, nor that a failing
  handler ever succeeds; only the processes' own steps are fair.
* `Convert`: weak fairness of the call's own steps (the HTTP client has a timeout)
  and of the cooldown (time passes). Strong fairness of `Converted` (a docling that
  is up converts some file, although it may refuse others) and of an admitted
  `ConvertNamed` (shards that need docling keep coming, although others do not). A
  refused file, a cancelled job and docling coming up are not fair.
* `Bounds`: weak fairness of the loop, which is sequential code.

## 4. What the runs show

Under the failures above no page is lost by the ladder, claims are exclusive
while leases hold, the counters do not fall behind the rows, every attempted
and unfinished shard keeps a job, and every document in the pipeline reaches a
terminal state or is deleted. The stream implements an at-least-once queue, and
the three reads of the dedup scan are complete together.

Uploads that race store a content once and their answers are true; the backlog
gate is overshot by at most one document per request. Of the transactions on a
document only the delete can close a circle of waits, and no call commits twice,
also when its connection is lost at the commit. Every binding has its model and
every dimension its index, unless the request that should make the index was seen
to fail. Searches stay where they were asked and give full pages under every
change between their statements. The chunker loses no words, and slices,
citations, breadcrumbs of sections, rows and vectors belong to the text they are
filed under. Without refused probes the breaker of docling recovers.

Three statements of the repository do not hold, and have a run:

* **A re-split book never settles** (`ingest_v_stuck`). `resplitShard` adds the
  tiles to `total_shards` and leaves the skipped parent in it, while a skipped
  row is never counted as done or failed. `BookSettled` is documented to report
  "whether every shard is done or failed"; after a re-split the sum stays short
  and the embed job is not sent.
* **The docling breaker can stay open for ever** (`docling_v_stall`). A reply of
  400 or more other than 429 and 503 returns without recording an outcome
  (`docling_client.go:152`; so does a file that cannot be read, line 101). If that call was the
  half-open probe, `probing` stays set and `acquireOpen` admits nothing any more,
  however healthy docling is. Line 187 says that "probing stays set until it
  reports back", and lines 29-31 that the design rules out this stall.
* **Stitching drops a line that is not the heading** (`stitch_v_drop`). When the first
  heading of a shard repeats the last one before it, the first line of the shard goes
  (`stitch.go:61`), also when text stands before the heading: the text is lost and the
  heading stays twice. `stitch.go:26` says that the heading "is dropped". Two shards
  that share a page meet this whenever the heading is not at the top of the page.

Open points met while modelling, without a run of their own. Those of the
pipeline are visible in the models by the change of a constant or by a formula
over them:

* A wiped Redis is not fully healed. The sweeps send again documents in
  `uploaded`, settled books, and shards never attempted; a shard attempted once
  and reaped has no job and no sweep (`store/janitor.go:133`), while
  `queue/streams.go:4` says that the janitor "re-enqueues everything not in a
  terminal state" (`Finishes` with `"redis"` in `FaultKinds`).
* A poison job does not reach the delivery cap: each reclaim adds a fresh entry
  whose count starts anew (`worker/janitor.go:290` against `worker/runner.go:37`),
  so the cap is met only when the janitor dies after its claim again and again.
* A claim takes failed rows too. A shard that was escalated and then finished is
  counted in `shards_failed` and in `shards_done`, so another shard may still be
  open when the book counts as settled. `CountersNeverUndercount` says that no finished
  shard is missed, and lets such a surplus pass. With overrun leases and a
  re-split a document can even be called ready too early (`ReadyIsComplete` on
  the instance of `ingest_races` with `"overrun"`, two faults and an embedder).
* `SkipShard` (`store/documents.go:269`) writes `skipped` without looking at the
  state: a parser on the ladder whose lease was overrun takes back a shard that
  another parser has finished in between, `done` to `skipped` (`DoneIsFinal` on
  the instance of `ingest_ladder` with `"overrun"` in `FaultKinds`).
* A splitter that read `uploaded` writes `parsing` without looking again, also
  over a terminal state (`SplitAlready`).
* After a full retry a parser of the old generation still counts its shard into
  the new one (`DoneCountsRows` with `"full"` in `Ops`); `RetryKeepsCounters` is about
  completions that are lost, not about this surplus.
* Two re-splits of one book each write the total they read before their claim
  (`parser.go:136`), so one of the two is lost. `SettledWhenParsed` fails on a single
  re-split already (`ingest_v_stuck`); no passing run has two.
* A handler that finds its document deleted logs and acknowledges, since
  "events.doc_id carries an FK" (`embedder.go:44-45`, `parser.go:216-217`,
  `splitter.go:48-49`); `store/schema.sql:136-138` declares none. So a handler that
  meets the deletion only later runs `failDocTerminal` to its end: it changes no
  document, writes its event and acknowledges the job (`ParseGone`, `SplitGone`,
  `EmbedEmpty`).
* A recount that races a finishing parser overwrites its count
  (`CountersNeverUndercount` with `"repair"` in `Ops`).
* A retry of scope embed that dies before its XADD leaves the document in
  `embedding`, which no sweep looks at (`Finishes` with `"embed"` in `Ops` and
  `"operator"` in `FaultKinds`).
* Quarantined entries are deleted before their events rows are written
  (`DecideQuarantine` and `WriteQuarantines` are separate steps).
* The PEL part of the dedup scan is one page of 500 (`ScanComplete` with a small
  `ScanPage`).
* After a full retry, parse jobs of the old split carry the page ranges of the old
  rows and claim the new rows of the same index (`api/documents.go:652`).
* A delete cascades from documents to shards and can deadlock with
  `MarkShardDone`; `store/db.go:6-13` says the lock order leaves no 40P01
  (`LockOrder` without its exception).

Of the upload:

* A commit verifies the object under a key that ends in .pdf, so DOCX, PPTX and
  XLSX are rejected there, against `api/documents.go:234` and 246-248.
* The duplicate test compares the hash as the client wrote it, the verification
  lower-cases it: clients that write both cases store a content twice
  (`ClientCases`). A presigned URL can be PUT again after the commit (`LatePut`).
* A fetch whose insert fails leaves its raw object; the comment speaks of a
  garbage collection by the janitor, and there is none. The insert leaves out
  filename and page count.

Of registries and search:

* An update of a model of the openai provider is always refused: the merged row is
  validated as a create without a key (`api/models.go:319-328`), though the comment
  there says the stored key counts. Two updates that read the same row lose one.
* A lock timeout while another index is built is answered 500 after the row is
  written. The legacy columns of a collection are not kept in step with an updated
  model (`store/collections.go:9-11`). `RESET statement_timeout` goes to the default
  of the server, not of the pool.
* The key of an openai model never reaches the embedding client
  (`service/embedder.go:198-204`).
* Targets outside the scope make the list of collections empty, which the BM25 leg
  takes for "all in scope" (`WhereAsked` states what is left). The search over
  several collections never widens its pool for the reranker. A single collection
  without a model is a 503, several are answered by BM25 alone. `get_chunk_context`
  reads a chunk and its neighbours in two statements.

Of the text:

* The heading tier makes a section that fits the configured size one chunk
  (`heading_splitter.go:77`) and never looks at `absoluteMaxSize`, which `splitter.go:24`
  calls "a hard ceiling on one chunk, independent of the configured budget" and
  `api/system.go:309` reports as the cap of a parent. `PARENT_CHUNK_SIZE` above 7500 is
  accepted (`config.go:353`) and gives chunks above it (`HardCeiling` with `ParentSize`
  12 in the instance of `text` and a section of more than eight runes). With twice the
  sizes under the ceiling, as the defaults are, it holds for every book (`CeilingHolds`).
* The overlap of the heuristic tier may start where the previous chunk did, or in a
  protected span. A second table right after a row that swallowed the blank line
  is not tracked. The breadcrumb of a child may keep a sibling heading. The
  dedupe between the sets may drop the only child with certain words, leaving its
  parent out of the search.
* Nobody counts the vectors of a batch; more of them than texts would land on the
  chunks of the next batch, although `service/embedder.go` calls misalignment
  impossible.
* Scanned PDFs still go to anydoc first (`pipeline/parser.go:89-92`): nobody sets
  `NeedOCR`.

## 5. What is proved

Every theorem is for all values of the constants that satisfy the named assumption
of the module: any number of workers, requests, jobs, shards and pages, any kinds and
number of faults. Where a theorem has a hypothesis beyond that, the list below says
it and why it is there.

| Module | Theorem | States |
|---|---|---|
| `IngestProofs` | `TypeCorrect`, `NoPageDropped`, `DeletedLeavesNothing` | `TypeOK`, `PagesCovered`, `NoRowsWithoutDocument` |
| | `CountersKeepUp`, `SettledUnlessResplit` | `CountersNeverUndercount`; `n = PlanLen => SettledWhenParsed` |
| | `RetriesKeepCounting` | `RetryKeepsCounters`, of `OpSpec` |
| `IngestClaimProofs` | `ClaimsAreExclusive`, `CompletionsCountedOnce` | `ClaimExclusive`, `DoneCountsRows` |
| | `FinishedIsFinal`, `ReadyUnlessResplit` | `DoneIsFinal`; `n = PlanLen => ReadyIsComplete` |
| | `NoShardOrphaned` | `raw => NoOrphanShard` |
| `TextProofs` | `TypeCorrect`, `EveryPageCovered`, `ShardsAligned` | `TypeOK`, `Covered`, `Aligned`, of `Bounds` |
| | `CitationsHold` | `CitationHolds`, of `StSpec` |
| | `CeilingHolds`, `RowsFitTogether`, `ContextHolds` | `HardCeiling`, `RowsResolve`, `ContextInScope`, of `ChunkSpec` |
| | `VerbatimHolds`, `NothingLostHolds` | `Verbatim`, `NothingLost`, of `ChunkSpec` |
| `RetrievalProofs` | `BatchesFitTheBudget`, `VectorsLandOnTheirChunks` | `BatchesFit`, `RowsAligned`, of `EmSpec` |
| | `HitsAreWhereAsked`, `AnswersAreFullPages` | `WhereAsked`, `FullPage`, of `SeSpec` |
| `StreamProofs` | `StreamTypes`, `NothingIsLost` | `StreamTypeOK`, `NoJobLost` |
| | `StreamIsQueue`, `ScanMissesNothing` | the refinement `AtLeastOnce`, `ScanComplete` |
| `UploadProofs` | `OvershootBounded`, `OneJobPerRow` | `BoundedOvershoot`, `AcceptedOnce` |
| | `AnswersHold`, `ContentsMatch` | `AnswerHolds`, `RowsMatchContents` |
| `RegistryProofs` | `IndexBuiltOnce`, `BindingsAreServed` | `NoDuplicateIndex`, `BindingsServed` |
| `TxLocksProofs` | `RetriesCommitOnce`, `OnlyDeleteDeadlocks` | `CommittedOnce`, `LockOrder` |

### The pipeline

`IngestProofs` uses `PlanAssumption` (the plan's ranges lie in the book and cover it;
`EveryPageCovered` is its justification) and `ConstAssumption` (the limits are positive
and no parser is `NoOwner`).

`PagesCovered` alone is not inductive. A re-split replaces a row by tiles of the
page range the parser holds in its own memory, read at its claim; if another
step had changed the row meanwhile, the tiles would not cover it. `ParserRows`
adds that the range a working parser holds is the range of its row, unless the
document was deleted under it, and that a parser about to re-split has more
than one page. A deletion removes the row such a parser holds; that it cannot
then meet a row of another split with the same index needs `NewIsAbsent` and
`NoRowsWithoutDocument`: rows exist only with the document, and a deleted document
does not come back, its upload being over. The inductive invariant is
`IInv == TypeOK /\ NewIsAbsent /\ NoRowsWithoutDocument /\ ParserRows /\ PagesCovered`;
it is strong enough because no action changes the page range of an existing
row. `TilesCover` is the lemma about the tiles themselves, and each process has
a lemma of its own. Each of these lemmas also says that the step keeps `Base`, the part
of `IInv` about types, the existence of the document and the span of a re-split, from
`Base` alone: that is what still holds when an operator interferes.

`CountersKeepUp` is inductive over `Base`: `RowStep` says that a step changes one row
or adds rows, and that whenever it makes one more row done or failed it adds one to
the counter; the cardinalities are handled there once. `SettledUnlessResplit` adds
`PlanKept`: until a re-split, `total_shards` is the number of rows and no row is
skipped. Its hypothesis `n = PlanLen` is the finding of `ingest_v_stuck`: after a
re-split the statement is false.

What depends on leases is in `IngestClaimProofs`. `ClaimExclusive` and
`DoneCountsRows` say in themselves that no worker outlives its lease; the other three
theorems take it as the hypothesis `~Overrun`, without which TLC refutes `DoneIsFinal`
and `ReadyIsComplete` (open points, section 4).
`OnlyClaimsStartWork` is the heart of the first: between its claim and its last
transaction a parser's row is running, under its name, and no other step may take it.
Each completion therefore turns a running row into a done one, which is why it is
counted once. `ReadyUnlessResplit` needs `SnapshotWhole`: what an embedder read
before it called the back end is still all there is when it writes. With re-splits
`ReadyIsComplete` is neither proved nor refuted in general.

`NoOrphanShard` is the longest argument, because the job of a row moves between the
stream, a worker, the PEL of a dead worker and the janitor's hands while the row goes
back and forth between pending and running. `Rescue` ties them: a handler in
progress holds its entry (`EntriesHeld`), a parser past its last transaction has
finished or replaced its row (`EndedRows`), a running row has a live parser or a stranded job
(`RunningBacked`), a pending row that was attempted has its job somewhere
(`PendingBacked`). The hypotheses are `~RedisLoss` (section 4: a wiped Redis is not
healed), `~Overrun`, `~LeaseExceedsIdle` (`worker/janitor.go:209`: "min_idle must
exceed the longest legit job"; if the lease is the longer one, a dead parser's job is reclaimed while its row is still leased, the
next parser skips it and acknowledges, and the row is reaped without a job: TLC
finds this on the instance of `ingest_ladder` with the constant set to TRUE), and
`raw`: once the object is gone, parsers acknowledge the jobs without touching the rows.

With an operator at work `ParserRows` and `PagesCovered` are not invariant: a full retry
brings a new split under a parser of the old one. `Base` and the counters are.
`RetriesKeepCounting` has the invariant `OInv`: as long as `repair-counters` was not
asked for, `Base`, `CountersNeverUndercount` and the type of the request hold. Two steps
carry the argument. A full retry resets rows and counters in one transaction, and a
retry of the failed shards takes from `shards_failed` the failed rows of the moment of
its transaction and not those it read before (`RequeueCounts`). That the counter stays
a natural number there uses the invariant itself: after a recount it could go below zero.
The other invariants of the pipeline are model-checked under `Operator` where a run
lists them, and not proved there.

### The bounds

The inductive invariant of `TypeCorrect` and `EveryPageCovered` is
`BInv == TypeOK /\ LoopInv`; `LoopInv` says, for each place in the loops, up to which
page the windows so far cover the book. `ShardsAligned` adds `AlignInv`: the windows
so far are sized and ordered and hold no bookmark but at their start (`Sized`,
`Ordered`, `Within`), the next window will go beyond the last (`Behind`), the
bookmarks not yet reached lie ahead (`Ahead`), and those passed have a window of
their own (`Snap`).

### The stream

`Custody` is the invariant behind `NothingIsLost`: the entries a consumer or the
janitor holds are those it read (`WorkFaithful`, `JanFaithful`), and whoever is about
to XACK or XDEL an entry has finished its job, given it up or added another copy
(`WorkAcks`, `JanAcks`). The proofs do not look at the calls one by one but at what
they do to the stream: `Loses(X)` takes nothing away but the entries of `X`,
`Adds(i, j)` adds one. `WorkMoves` and `JanMoves` say which call has which effect.
The same two effects map a step to `Send`, `Finish`, `Forget` or a stutter of
`JobQueue` (`StreamIsQueue`). `ScanMissesNothing` has the hypothesis
`[](Len(Pel) <= ScanPage)`: beyond one page of the PEL the scan does miss jobs, as
said among the open points. The module proves first that the recursive function
`Taken` exists and filters a prefix, by the least length for which it would not.

### Upload

`OneJobPerRow` counts the requests that have inserted and not yet sent
(`Pending`): jobs and pending requests together are at most the inserts (`JobsPaid`).
`AnswersHold` says that a request which has inserted, or found a row, keeps the book
held, by the row or by the record of its delete (`PromisesHeld`). `ContentsMatch` has
the hypotheses `~LatePut` and `ClientCases \subseteq {"lower"}`; both are open points
of section 4, and without either the statement is false. Its invariant `Contents`
says what each request knows of its object at each step.

### Registries

`BuildAlone`: who looks for the index or builds it has the advisory lock, and who
is about to build has not seen it. `RegistryInv` adds that bindings name registered
models and that each registered dimension has its index, was given up, or has a
request on its way (`OnItsWay`). `RegistryAssumption` says that dimensions are at most
2000, which pgvector's index requires and the handlers check.

### Transactions

`CommitsOnce` is about one session. `OnlyDeleteDeadlocks` gives every lock a rank in
each of the two phases of a document, before and after its split (`OnePhase`: the
splitter and the others do not overlap), and shows that each transaction but the
delete takes its locks in ascending rank (`LocksInOrder`). In a circle of waits the session
with the least rank among the awaited locks would wait for a lower one (`NoCircle`,
`LeastNumber`), for any number of sessions.

### Citations

`StInv` says that at each turn of the loop lines and pages are equally many, that the
page of a line is one of its shard, and that the shards of the lines go forward
(`Mapped`). `DropsLead` shows that the two ways of trimming blank lines, of the text and
of its map, take the same lines, and `LineForIs` that an offset in the range of a line
leads back to it: `LineStart` is a sum that grows with every line (`StartsGrow`).
`StitchAssumption` says that shards come in page order and share a page at most with
the next; the handler reads them in the order of their index, and `ShardsAligned`
proves it of the bounds. So a citation is right for whatever the shards contain.

### The chunker

What the tiers do to a text is defined by recursive functions and folds. The library's
induction theorems take an operator and cannot be used, but the set of the indices at
which a statement holds is a set of naturals, and `IntervalInduction` (in
`RetrievalProofs`) is the induction over it, proved once from the least element of its
complement. `StaysIn` applies it to a function that never leaves a set; `KeptSteps`,
`TextConcat` and `FlattensExist` to the operators everything else is built from.

`CeilingHolds` is the statement `HardCeiling` under the hypothesis that twice the parent
size and twice the child size are at most `AbsoluteMax`. It is true of the
defaults (2048 and 384 under 7500) and of the instance of `text`. Some such
hypothesis is needed, since a size above the ceiling gives chunks above it, and twice
the size is what the validator accepts of a tier (`ValidChunks`). The invariant of the merge loop is `Merging(cap)`:
closed chunks are at most `cap` long and the open one too. `TurnIs` needs that what is
carried over and the injected header fit beside the next unit (`CarryIs`, `ShrinkIs`,
`OpeningIs`), and the rest are lemmas for each tier (`HeadingTier`, `HeuristicTier`)
up to `SplitIs` and `ChildrenAre`. All of them are stated for any `cap` that is not below
the ceiling and twice the size, so that the same lemmas say, for a `cap` as large as needed, that
every chunk is well formed whatever the sizes are.

`RowsFitTogether` rests on that, and has no hypothesis. Dropping duplicates by the words of
a chunk keeps elements in order whose words differ (`FirstSpaced`, `KeptSpaced`); the
cross-set dedupe takes the children whose words some parent has; so identities are
as many as rows (`IdsOfBoth`), the numbers run through (`SeqsOfBoth`), and a link names a
kept parent or nothing.

`ContextHolds` has none either. The stack of `HeadingHierarchy` is `Standing` after every
mark: what it holds at a level is a heading of that level, and since then none of that level
or above was seen (`StandingNext`); so a breadcrumb names headings in scope
(`BreadcrumbIs`). Chunks of the legacy and of the heuristic tier have none
(`LegacySet`); a merged section keeps the start of the first and a prefix of its
breadcrumb (`CommonIs`, `CoalesceIs`); `BookSet` is what every tier returns.

`VerbatimHolds` and `NothingLostHolds` share the invariant `CutFaithful`, have no hypothesis
on the sizes, and follow every mark of the text through the tiers. A chunk is faithful
(`TrueSet`) when what stands after its generated prefix is the slice of the text it claims;
chunks are settled up to an offset (`Settled`) when each is faithful and every mark before the offset
that is not blank is in the range of one. The argument, from the inside out:

* The units of an open chunk are injected headers and then units that follow one another in the
  text (`Linked`, `Shaped`); taking a suffix of it as overlap (`CarryChain`) or appending the next unit
  (`ShapeMore`) keeps that, and flushing it gives a faithful chunk (`BuildTrue`). `TurnSound` is the
  step of the merge loop: closed chunks and the open one together hold all that came before.
* Coalescing concatenates contents, so it is only right if the second chunk has no generated prefix,
  and nothing in `coalesceTinyChunks` checks that. What saves it is `Guarded`: a chunk that
  starts with a header either does not start where the one before it ends, because it carries an
  overlap, or is too long to fit with it, because otherwise it would not have been flushed
  (`OpeningFits`). `JoinKeeps` and `CoalesceLossless` rest on that.
* The heuristic tier is settled up to the start of the open slice (`PackedTo`): its overlap
  never starts after the end of the slice before it.
* A chunk of a section is moved by the section's start (`Moved`), a child by that of its
  parent less the parent's generated prefix (`RemapTrue`): children of a parent that starts with an
  injected header are cut short by what of them is generated.

### Embedding

`EmInv`: the batches are lists of texts within both limits and their concatenation is all
texts in order (`Fitting`, `FirstTexts`), and the vectors of a batch are those of its
first texts (`Answered`). `OwnPlace` then says that a text stands at its own place behind the
batches before it, which is the offset `assembleEmbeddingRows` keeps, and so every row has its own
vector, also when an answer is short. `EmbedAssumption` says that the limits are positive and
texts have a number of tokens.

### Search

`SeInv` follows one search: its collections stay within scope and targets (`ManyInv`,
`PoolInv`), and as long as nothing changed under it each group asks the model its collections are bound to
(`QueryInv`, `DenseInv`). A leg is ranked rows cut at a limit, and what the limit leaves
covers any page of that size (`Covering`), which is why filtering and scoping before the cut
make pages full. `SearchAssumption` says that ids are unique, that two chunks of a leg have
different ranks, and that collections, models and limits are finite and positive: `chunks.id`
is a primary key, and the ranks stand for the positions the statements return rows in.

### Only model-checked

* Everything under fairness (`Finishes`, `DeletedDrains`, `Dispatched`,
  `Terminates`, `Recovers`): liveness is outside the prover's reach.
* The properties of the runs that expect a violation, which are false there.

## 6. What is not modelled

* In `Ingest`, page text, conversion, chunk contents and vectors: a chunk set is
  the set of shards whose text it holds. The text modules have them, one stage at a
  time.
* Characters: the chunker's patterns appear by what they recognise, in one
  language, with the chapter line and the blank run for the heuristic markers;
  code blocks, formulas and links are protected in the same way as tables.
* `stuckWarn` and the metrics rollup of the janitor, which only report.
* Unparseable stream payloads (no producer writes one) and read-only counters.
* The probes behind the model test endpoints, the encodings of the providers, the
  filter language of search beyond one tag.
* Creating and revoking API keys (single statements), the MCP tools other than
  search (reads of one or two statements), metrics and events (nothing reads
  them), configuration, logging and process start (I/O), the evaluation tool, the
  web client and the vendored converter.

## 7. Plan

1. `Ingest`, `Operator`, `Stream` with `JobQueue`, `Bounds`, `Upload`, `TxLocks`,
   `Registry`, `Search`, `Convert`, `Stitch`, `Chunker`, `ChunkBook`, `EmbedBatches`:
   done.
2. Proofs of the core: done (section 5).
3. Proofs of the text, the embedder and the search: done.
4. Generations in `Operator`: parse jobs of an old split claiming rows of a new one.

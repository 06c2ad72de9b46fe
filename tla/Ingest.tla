------------------------------- MODULE Ingest -------------------------------
(***************************************************************************)
(* The ingestion of one document: the commit of an upload, the splitter,   *)
(* parser and embedder handlers, and the janitor that heals after them.    *)
(* Postgres is the state of record (doc, shard, chunks), Redis Streams the *)
(* dispatch (waiting, stranded).  Documents share nothing but the workers, *)
(* so one document is the unit of the protocol.                            *)
(*                                                                         *)
(* A database transaction is one step; the reads, the Redis calls and the  *)
(* S3 and conversion work between transactions are steps of their own.     *)
(* `faults` bounds everything the environment does wrong.                  *)
(***************************************************************************)
EXTENDS Naturals, FiniteSets, Bags

CONSTANTS
  Splitters, Parsers, Embedders,  \* worker processes, one job at a time (prefetch 1)
  NoOwner,           \* worker_id NULL
  Pages,             \* pages of the document
  PlanLen, Plan,     \* the splitter's bounds: [0..PlanLen-1 -> [lo, hi]]
  IsPDF,             \* a non-PDF takes the splitSingleShard tail
  ShardPages,        \* SHARD_PAGES
  MaxShardAttempts,  \* MAX_SHARD_ATTEMPTS
  EmbedMaxAttempts,  \* embedMaxAttempts
  FaultKinds,        \* what may go wrong, and whether the document may be deleted
  MaxFaults,         \* how many faults there may be
  LeaseExceedsIdle   \* the shard lease outlasts the PEL min-idle of 20 minutes

ASSUME PlanAssumption ==
  /\ Pages \in Nat \ {0} /\ PlanLen \in Nat \ {0}
  /\ Plan \in [0..(PlanLen-1) -> [lo : 1..Pages, hi : 1..Pages]]
  /\ \A i \in 0..(PlanLen-1) : Plan[i].lo <= Plan[i].hi
  /\ \A p \in 1..Pages : \E i \in 0..(PlanLen-1) : Plan[i].lo <= p /\ p <= Plan[i].hi

ASSUME ConstAssumption ==
  /\ NoOwner \notin Parsers
  /\ ShardPages \in Nat \ {0} /\ MaxShardAttempts \in Nat \ {0}
  /\ EmbedMaxAttempts \in Nat \ {0} /\ MaxFaults \in Nat
  /\ IsPDF \in BOOLEAN /\ LeaseExceedsIdle \in BOOLEAN
  /\ FaultKinds \subseteq {"api", "splitter", "parser", "embedder", "backend", "janitor",
                           "raw", "overrun", "redis", "operator", "delete"}

VARIABLES
  doc,       \* the documents row
  n,         \* number of shard rows; idx runs over 0..n-1
  shard,     \* the shards rows
  chunks,    \* indices of the shards whose text the chunks table holds
  raw,       \* the raw object is in S3
  waiting,   \* undelivered stream entries, by job
  stranded,  \* delivered, unacked, and no live handler on them
  retries,   \* the Redis counter embed:retries:<doc>
  api,       \* the commit request
  spl, par, emb,  \* the handlers in progress
  jan,       \* the janitor pass
  faults     \* faults so far

vars == <<doc, n, shard, chunks, raw, waiting, stranded, retries,
          api, spl, par, emb, jan, faults>>
-----------------------------------------------------------------------------
\* Jobs: doc_id is implied, and idx is the only other key of a job.

SplitJob    == <<"split", 0>>
ParseJob(i) == <<"parse", i>>
EmbedJob    == <<"embed", 0>>
Jobs        == {"split", "parse", "embed"} \X Nat

DocStates   == {"none", "uploaded", "parsing", "embedding", "ready", "partial", "failed"}
ShardStates == {"pending", "running", "done", "failed", "skipped"}
Terminal    == {"ready", "partial", "failed"}

NoDoc == [st |-> "none", total |-> 0, done |-> 0, failed |-> 0]

IdleSplitter == [pc |-> "idle", held |-> FALSE, up |-> FALSE, next |-> 0]
IdleParser   == [pc |-> "idle", held |-> FALSE, idx |-> 0, tot |-> 0, att |-> 0,
                 lo |-> 0, hi |-> 0, next |-> 0, last |-> 0]
IdleEmbedder == [pc |-> "idle", held |-> FALSE, snap |-> {}]
IdleJanitor  == [pc |-> "reap", sees |-> "none", rows |-> {}]

\* Mutant: a row inserted without its state.
NewRowStateless(lo, hi) == [st |-> "", att |-> 0, lo |-> lo, hi |-> hi,
                            owner |-> NoOwner, lease |-> FALSE]

NewRow(lo, hi) == [st |-> "pending", att |-> 0, lo |-> lo, hi |-> hi,
                   owner |-> NoOwner, lease |-> FALSE]

NoRows == [i \in {} |-> NewRow(0, 0)]

\* XAddJob
Enqueue(j) == waiting' = waiting (+) SetToBag({j})

\* XREADGROUP hands an undelivered entry to a consumer.
Deliver(j) == BagIn(j, waiting) /\ waiting' = waiting (-) SetToBag({j})

\* Mutant: a failed job is acked.
StrandAcked(held, j) == UNCHANGED stranded

\* A handler that returns an error, or dies, leaves its entry in the PEL.
Strand(held, j) == stranded' = IF held THEN stranded (+) SetToBag({j}) ELSE stranded

Fault(kind) == kind \in FaultKinds /\ faults < MaxFaults /\ faults' = faults + 1

\* A live worker may outlive its lease and the PEL min-idle.
Overrun   == "overrun" \in FaultKinds
\* Redis may lose its data.
RedisLoss == "redis" \in FaultKinds

\* Mutant: a finished job is never acked.
AckedNever(kind, held, j) == UNCHANGED faults /\ Strand(held, j)

\* queue.Ack after the handler's last commit: the process may die before it, or
\* the XACK be lost, and a finished job is then delivered again.
Acked(kind, held, j) ==
  \/ UNCHANGED <<stranded, faults>>
  \/ held /\ Fault(kind) /\ Strand(TRUE, j)

InFlight(j) ==
  \/ j = SplitJob /\ \E s \in Splitters : spl[s].pc # "idle" /\ spl[s].held
  \/ \E p \in Parsers : par[p].pc # "idle" /\ par[p].held /\ j = ParseJob(par[p].idx)
  \/ j = EmbedJob /\ \E e \in Embedders : emb[e].pc # "idle" /\ emb[e].held

\* PendingJobKeys: the undelivered tail and the whole PEL.
Queued(j) == BagIn(j, waiting) \/ BagIn(j, stranded) \/ InFlight(j)

\* Mutants: off by one in either direction.
BookSettledEarly(d) == d.total > 0 /\ d.done + d.failed >= d.total - 1
BookSettledLate(d)  == d.total > 0 /\ d.done + d.failed > d.total

BookSettled(d) == d.total > 0 /\ d.done + d.failed >= d.total

\* SetDocState: an UPDATE by id, which touches no row of a deleted document.  So
\* failDocTerminal changes nothing there, and acks: events.doc_id has no foreign key.
SetDocState(st) == doc' = IF doc.st = "none" THEN doc ELSE [doc EXCEPT !.st = st]

Init ==
  /\ doc = NoDoc /\ n = 0 /\ shard = NoRows
  /\ chunks = {} /\ raw = TRUE
  /\ waiting = EmptyBag /\ stranded = EmptyBag /\ retries = 0
  /\ api = "new"
  /\ spl = [s \in Splitters |-> IdleSplitter]
  /\ par = [p \in Parsers |-> IdleParser]
  /\ emb = [e \in Embedders |-> IdleEmbedder]
  /\ jan = IdleJanitor /\ faults = 0
-----------------------------------------------------------------------------
\* The commit request: InsertDocument, then XADD, nothing atomic between them.

ApiInsert ==
  /\ api = "new"
  /\ api' = "inserted" /\ doc' = [NoDoc EXCEPT !.st = "uploaded"]
  /\ UNCHANGED <<n, shard, chunks, raw, waiting, stranded, retries, spl, par, emb, jan, faults>>

ApiEnqueue ==
  /\ api = "inserted"
  /\ api' = "done" /\ Enqueue(SplitJob)
  /\ UNCHANGED <<doc, n, shard, chunks, raw, stranded, retries, spl, par, emb, jan, faults>>

ApiDies ==
  /\ api = "inserted" /\ Fault("api")
  /\ api' = "done"
  /\ UNCHANGED <<doc, n, shard, chunks, raw, waiting, stranded, retries, spl, par, emb, jan>>
-----------------------------------------------------------------------------
\* HandleSplit

SplitIdle(s) == spl' = [spl EXCEPT ![s] = IdleSplitter]
SplitAck(s)  == SplitIdle(s) /\ Acked("splitter", spl[s].held, SplitJob)

SplitRead(s) ==
  /\ spl[s].pc = "idle" /\ Deliver(SplitJob)
  /\ IF doc.st = "none" THEN UNCHANGED spl /\ Acked("splitter", TRUE, SplitJob)
     ELSE /\ spl' = [spl EXCEPT ![s] = [IdleSplitter EXCEPT
                       !.pc = "probe", !.held = TRUE, !.up = (doc.st = "uploaded")]]
          /\ UNCHANGED <<stranded, faults>>
  /\ UNCHANGED <<doc, n, shard, chunks, raw, retries, api, par, emb, jan>>

\* GetShard(doc, 0) finds a row: the job is a redelivery.  The state it tests
\* was read by SplitRead.
SplitAlready(s) ==
  /\ spl[s].pc \in {"probe", "reprobe"} /\ n > 0
  /\ IF spl[s].up THEN SetDocState("parsing") ELSE UNCHANGED doc
  /\ SplitAck(s)
  /\ UNCHANGED <<n, shard, chunks, raw, waiting, retries, api, par, emb, jan>>

SplitProbe(s) ==
  /\ spl[s].pc \in {"probe", "reprobe"} /\ n = 0
  /\ spl' = [spl EXCEPT ![s].pc = IF @ = "probe" THEN "fetch" ELSE "commit"]
  /\ UNCHANGED <<doc, n, shard, chunks, raw, waiting, stranded, retries, api, par, emb, jan, faults>>

SplitFetch(s) ==
  /\ spl[s].pc = "fetch" /\ raw
  /\ spl' = [spl EXCEPT ![s].pc = IF IsPDF THEN "commit" ELSE "reprobe"]
  /\ UNCHANGED <<doc, n, shard, chunks, raw, waiting, stranded, retries, api, par, emb, jan, faults>>

\* The raw object is gone: failDocTerminal, and the job is acked.
SplitGone(s) ==
  /\ spl[s].pc = "fetch" /\ ~raw
  /\ SetDocState("failed") /\ SplitAck(s)
  /\ UNCHANGED <<n, shard, chunks, raw, waiting, retries, api, par, emb, jan>>

\* Mutant: shards.doc_id is no foreign key.
SplitCommitUnkeyed(s) ==
  /\ spl[s].pc = "commit" /\ n = 0
  /\ doc' = IF doc.st = "none" THEN doc ELSE [doc EXCEPT !.st = "parsing", !.total = PlanLen]
  /\ n' = PlanLen
  /\ shard' = [i \in 0..(PlanLen-1) |-> NewRow(Plan[i].lo, Plan[i].hi)]
  /\ spl' = [spl EXCEPT ![s].pc = "enqueue"]
  /\ UNCHANGED <<chunks, raw, waiting, stranded, retries, api, par, emb, jan, faults>>

\* commitSplit: the document row and every shard row in one transaction.
SplitCommit(s) ==
  /\ spl[s].pc = "commit" /\ n = 0 /\ doc.st # "none"
  /\ doc' = [doc EXCEPT !.st = "parsing", !.total = PlanLen]
  /\ n' = PlanLen
  /\ shard' = [i \in 0..(PlanLen-1) |-> NewRow(Plan[i].lo, Plan[i].hi)]
  /\ spl' = [spl EXCEPT ![s].pc = "enqueue"]
  /\ UNCHANGED <<chunks, raw, waiting, stranded, retries, api, par, emb, jan, faults>>

\* Another splitter committed first (primary key), or the document was deleted
\* (foreign key): the transaction rolls back and the handler fails.
SplitConflict(s) ==
  /\ spl[s].pc = "commit" /\ (n > 0 \/ doc.st = "none")
  /\ Strand(spl[s].held, SplitJob) /\ SplitIdle(s)
  /\ UNCHANGED <<doc, n, shard, chunks, raw, waiting, retries, api, par, emb, jan, faults>>

\* One XADD per shard, strictly after the commit; the last one acks.
SplitEnqueue(s) ==
  /\ spl[s].pc = "enqueue"
  /\ Enqueue(ParseJob(spl[s].next))
  /\ IF spl[s].next + 1 = PlanLen THEN SplitAck(s)
     ELSE spl' = [spl EXCEPT ![s].next = @ + 1] /\ UNCHANGED <<stranded, faults>>
  /\ UNCHANGED <<doc, n, shard, chunks, raw, retries, api, par, emb, jan>>

\* The splitter dies, or a download, PageCount or XADD returns an error.
SplitAbort(s) ==
  /\ spl[s].pc # "idle" /\ Fault("splitter")
  /\ Strand(spl[s].held, SplitJob) /\ SplitIdle(s)
  /\ UNCHANGED <<doc, n, shard, chunks, raw, waiting, retries, api, par, emb, jan>>
-----------------------------------------------------------------------------
\* HandleParse

ParseIdle(p) == par' = [par EXCEPT ![p] = IdleParser]
ParseAck(p)  == ParseIdle(p) /\ Acked("parser", par[p].held, ParseJob(par[p].idx))

AtLeast1(x) == IF x < 1 THEN 1 ELSE x

\* LadderAction = "split"; 4*(max(1, shardPages/4))/2 is twice the quarter.
LadderSplits(att, lo, hi) ==
  LET span == hi - lo + 1 IN
  /\ span >= 2
  /\ \/ att = 2 /\ span >= 2 * AtLeast1(ShardPages \div 4)
     \/ att = 3

\* resplitShard: FixedBounds(span, size, 0) tiles the parent.
ResplitSize(att, span) == IF att < 3 THEN AtLeast1(span \div 4) ELSE 1
Tiles(span, size)      == (span + size - 1) \div size

\* Mutant: tiles counted from one.
TileRowFromOne(lo, hi, size, k) ==
  LET last == lo + (k + 2) * size - 1
  IN  NewRow(lo + (k + 1) * size, IF last > hi THEN hi ELSE last)

TileRow(lo, hi, size, k) ==
  LET last == lo + (k + 1) * size - 1
  IN  NewRow(lo + k * size, IF last > hi THEN hi ELSE last)

\* Mutants: the claim forgets to look at one state.
ClaimableRunning(i) == i \in 0..(n-1) /\ shard[i].st \in {"pending", "failed", "running"}
ClaimableDone(i)    == i \in 0..(n-1) /\ shard[i].st \in {"pending", "failed", "done"}

Claimable(i) == i \in 0..(n-1) /\ shard[i].st \in {"pending", "failed"}

\* GetDocument: the total_shards read here is what a later resplit writes from.
ParseRead(p, i) ==
  /\ par[p].pc = "idle" /\ Deliver(ParseJob(i))
  /\ IF doc.st = "none" THEN UNCHANGED par /\ Acked("parser", TRUE, ParseJob(i))
     ELSE /\ par' = [par EXCEPT ![p] = [IdleParser EXCEPT
                       !.pc = "claim", !.held = TRUE, !.idx = i, !.tot = doc.total]]
          /\ UNCHANGED <<stranded, faults>>
  /\ UNCHANGED <<doc, n, shard, chunks, raw, retries, api, spl, emb, jan>>

\* ClaimShard, then the retry ladder on the attempt it returned.
ParseClaim(p) ==
  LET i == par[p].idx
      a == shard[i].att + 1
      r == shard[i]
  IN
  /\ par[p].pc = "claim" /\ Claimable(i)
  /\ shard' = [shard EXCEPT ![i].st = "running", ![i].att = a,
                            ![i].owner = p, ![i].lease = TRUE]
  /\ par' = [par EXCEPT ![p].pc = IF LadderSplits(a, r.lo, r.hi) THEN "resplit" ELSE "fetch",
                        ![p].att = a, ![p].lo = r.lo, ![p].hi = r.hi]
  /\ UNCHANGED <<doc, n, chunks, raw, waiting, stranded, retries, api, spl, emb, jan, faults>>

\* ClaimShard matched no row: someone else got it, ack.
ParseSkip(p) ==
  /\ par[p].pc = "claim" /\ ~Claimable(par[p].idx)
  /\ ParseAck(p)
  /\ UNCHANGED <<doc, n, shard, chunks, raw, waiting, retries, api, spl, emb, jan>>

\* resplitShard's transaction: skip the parent, insert the tiles, and write
\* total_shards from the count ParseRead saw.
ParseResplit(p) ==
  LET w    == par[p]
      size == ResplitSize(w.att, w.hi - w.lo + 1)
      k    == Tiles(w.hi - w.lo + 1, size)
  IN
  /\ w.pc = "resplit" /\ w.idx < n
  /\ shard' = [i \in 0..(n+k-1) |->
                 IF i = w.idx THEN [shard[i] EXCEPT !.st = "skipped"]
                 ELSE IF i < n THEN shard[i] ELSE TileRow(w.lo, w.hi, size, i - n)]
  /\ n' = n + k
  /\ doc' = [doc EXCEPT !.total = w.tot + k]
  /\ par' = [par EXCEPT ![p].pc = "subenqueue", ![p].next = n, ![p].last = n + k - 1]
  /\ UNCHANGED <<chunks, raw, waiting, stranded, retries, api, spl, emb, jan, faults>>

\* The rows were deleted meanwhile: SkipShard finds none and the handler fails.
ParseVanished(p) ==
  /\ par[p].pc = "resplit" /\ par[p].idx >= n
  /\ Strand(par[p].held, ParseJob(par[p].idx)) /\ ParseIdle(p)
  /\ UNCHANGED <<doc, n, shard, chunks, raw, waiting, retries, api, spl, emb, jan, faults>>

ParseSubEnqueue(p) ==
  /\ par[p].pc = "subenqueue"
  /\ Enqueue(ParseJob(par[p].next))
  /\ IF par[p].next = par[p].last THEN ParseAck(p)
     ELSE par' = [par EXCEPT ![p].next = @ + 1] /\ UNCHANGED <<stranded, faults>>
  /\ UNCHANGED <<doc, n, shard, chunks, raw, retries, api, spl, emb, jan>>

\* The source is downloaded, or for a PDF possibly found in the local cache.
ParseFetch(p) ==
  /\ par[p].pc = "fetch" /\ (raw \/ IsPDF)
  /\ par' = [par EXCEPT ![p].pc = "work"]
  /\ UNCHANGED <<doc, n, shard, chunks, raw, waiting, stranded, retries, api, spl, emb, jan, faults>>

\* downloadTerminal: the raw object is gone; the row is left running.
ParseGone(p) ==
  /\ par[p].pc = "fetch" /\ ~raw
  /\ SetDocState("failed") /\ ParseAck(p)
  /\ UNCHANGED <<n, shard, chunks, raw, waiting, retries, api, spl, emb, jan>>

\* Mutant: only the owner of the row counts it.
ShardsDoneOwned(p) == IF par[p].idx < n /\ shard[par[p].idx].owner = p
                      THEN doc.done + 1 ELSE doc.done

\* MarkShardDone bumps shards_done whatever became of the row.
ShardsDone(p) == doc.done + 1

\* finishParse: MarkShardDone writes the row by key whatever its state, bumps
\* shards_done, and the settle test reads the row of the same transaction.
ParseFinish(p) ==
  LET i == par[p].idx
      d == [doc EXCEPT !.done = ShardsDone(p)]
  IN
  /\ par[p].pc = "work"
  /\ shard' = IF i < n THEN [shard EXCEPT ![i].st = "done", ![i].lease = FALSE] ELSE shard
  /\ IF doc.st = "none" THEN UNCHANGED doc /\ ParseAck(p)
     ELSE /\ doc' = d
          /\ IF BookSettled(d)
             THEN par' = [par EXCEPT ![p].pc = "embed"] /\ UNCHANGED <<stranded, faults>>
             ELSE ParseAck(p)
  /\ UNCHANGED <<n, chunks, raw, waiting, retries, api, spl, emb, jan>>

ParseEnqueueEmbed(p) ==
  /\ par[p].pc = "embed"
  /\ Enqueue(EmbedJob) /\ ParseAck(p)
  /\ UNCHANGED <<doc, n, shard, chunks, raw, retries, api, spl, emb, jan>>

\* The parser is killed, or a conversion, upload, transaction or XADD fails; so
\* does the transaction of two re-splits that took the same next idx.
ParseAbort(p) ==
  /\ par[p].pc # "idle" /\ Fault("parser")
  /\ Strand(par[p].held, ParseJob(par[p].idx)) /\ ParseIdle(p)
  /\ UNCHANGED <<doc, n, shard, chunks, raw, waiting, retries, api, spl, emb, jan>>
-----------------------------------------------------------------------------
\* HandleEmbed

EmbedIdle(e) == emb' = [emb EXCEPT ![e] = IdleEmbedder]
EmbedAck(e)  == EmbedIdle(e) /\ Acked("embedder", emb[e].held, EmbedJob)

\* A vanished or terminal document acks as a no-op.
EmbedRead(e) ==
  /\ emb[e].pc = "idle" /\ Deliver(EmbedJob)
  /\ IF doc.st \in Terminal \cup {"none"}
     THEN UNCHANGED emb /\ Acked("embedder", TRUE, EmbedJob)
     ELSE /\ emb' = [emb EXCEPT ![e] = [IdleEmbedder EXCEPT !.pc = "load", !.held = TRUE]]
          /\ UNCHANGED <<stranded, faults>>
  /\ UNCHANGED <<doc, n, shard, chunks, raw, retries, api, spl, par, jan>>

DoneRows   == {i \in 0..(n-1) : shard[i].st = "done"}
FailedRows == {i \in 0..(n-1) : shard[i].st = "failed"}

\* SettledShards, the prefetch and the chunker run on this snapshot.
EmbedLoad(e) ==
  /\ emb[e].pc = "load" /\ DoneRows # {}
  /\ emb' = [emb EXCEPT ![e].pc = "write", ![e].snap = DoneRows]
  /\ UNCHANGED <<doc, n, shard, chunks, raw, waiting, stranded, retries, api, spl, par, jan, faults>>

\* No done shard, or a text that yields no chunk: failDocTerminal.
EmbedEmpty(e) ==
  /\ \/ emb[e].pc = "load" /\ DoneRows = {}
     \/ emb[e].pc = "write"
  /\ SetDocState("failed") /\ EmbedAck(e)
  /\ UNCHANGED <<n, shard, chunks, raw, waiting, retries, api, spl, par, jan>>

\* capped: a failing backend fails the job until the counter reaches the cap;
\* a failing INCR counts as a first failure.
EmbedBackendFails(e) ==
  /\ emb[e].pc = "write" /\ Fault("backend")
  /\ retries' \in {retries, retries + 1}
  /\ IF retries' = retries \/ retries' < EmbedMaxAttempts
     THEN Strand(emb[e].held, EmbedJob) /\ UNCHANGED doc
     ELSE SetDocState("failed") /\ UNCHANGED stranded
  /\ EmbedIdle(e)
  /\ UNCHANGED <<n, shard, chunks, raw, waiting, api, spl, par, jan>>

\* DELETE FROM chunks, then the insert of what the snapshot yields.
RebuiltChunks(e) == emb[e].snap

\* Phase W: delete and rebuild the chunks and finalise the document from the
\* shards_failed of the moment; the counter reset is best effort.
EmbedWrite(e) ==
  /\ emb[e].pc = "write" /\ doc.st # "none"
  /\ chunks' = RebuiltChunks(e)
  /\ doc' = [doc EXCEPT !.st = IF doc.failed > 0 THEN "partial" ELSE "ready"]
  /\ retries' \in {0, retries}
  /\ EmbedAck(e)
  /\ UNCHANGED <<n, shard, raw, waiting, api, spl, par, jan>>

\* The document was deleted under the handler: the foreign key of the chunks
\* refuses the write.
EmbedVanished(e) ==
  /\ emb[e].pc = "write" /\ doc.st = "none"
  /\ Strand(emb[e].held, EmbedJob) /\ EmbedIdle(e)
  /\ UNCHANGED <<doc, n, shard, chunks, raw, waiting, retries, api, spl, par, jan, faults>>

EmbedAbort(e) ==
  /\ emb[e].pc # "idle" /\ Fault("embedder")
  /\ Strand(emb[e].held, EmbedJob) /\ EmbedIdle(e)
  /\ UNCHANGED <<doc, n, shard, chunks, raw, waiting, retries, api, spl, par, jan>>
-----------------------------------------------------------------------------
\* Janitor.Pass, one action per step, in the order of the code.

\* A live parser works on row i under the lease it holds there.
LiveOn(i) == \E p \in Parsers : /\ par[p].pc \in {"fetch", "work", "resplit"}
                                /\ par[p].idx = i /\ shard[i].owner = p

\* RequeueExpiredLeases
JanReap ==
  /\ jan.pc = "reap"
  /\ shard' = [i \in 0..(n-1) |->
                 IF shard[i].st = "running" /\ ~shard[i].lease
                 THEN [shard[i] EXCEPT !.st = "pending", !.owner = NoOwner]
                 ELSE shard[i]]
  /\ jan' = [jan EXCEPT !.pc = "escalate"]
  /\ UNCHANGED <<doc, n, chunks, raw, waiting, stranded, retries, api, spl, par, emb, faults>>

StuckRows == {i \in 0..(n-1) : shard[i].st = "pending" /\ shard[i].att >= MaxShardAttempts}

\* Mutant: shards_failed is not bumped.
JanEscalateUncounted ==
  /\ jan.pc = "escalate"
  /\ shard' = [i \in 0..(n-1) |->
                 IF i \in StuckRows THEN [shard[i] EXCEPT !.st = "failed"] ELSE shard[i]]
  /\ jan' = [jan EXCEPT !.pc = "docs"]
  /\ UNCHANGED <<doc, n, chunks, raw, waiting, stranded, retries, api, spl, par, emb, faults>>

\* EscalateStuckShards: the rows and the counter in one transaction.
JanEscalate ==
  /\ jan.pc = "escalate"
  /\ shard' = [i \in 0..(n-1) |->
                 IF i \in StuckRows THEN [shard[i] EXCEPT !.st = "failed"] ELSE shard[i]]
  /\ doc' = [doc EXCEPT !.failed = @ + Cardinality(StuckRows)]
  /\ jan' = [jan EXCEPT !.pc = "docs"]
  /\ UNCHANGED <<n, chunks, raw, waiting, stranded, retries, api, spl, par, emb, faults>>

\* NonTerminalDocs: both sweeps below decide on the row read here.
JanDocs ==
  /\ jan.pc = "docs"
  /\ jan' = [jan EXCEPT !.pc = "requeue",
               !.sees = IF doc.st = "uploaded" THEN "unsplit"
                        ELSE IF doc.st = "parsing" /\ BookSettled(doc) THEN "settled"
                        ELSE "none"]
  /\ UNCHANGED <<doc, n, shard, chunks, raw, waiting, stranded, retries, api, spl, par, emb, faults>>

\* requeueSweep
JanRequeue ==
  /\ jan.pc = "requeue"
  /\ IF jan.sees = "unsplit" /\ ~Queued(SplitJob) THEN Enqueue(SplitJob) ELSE UNCHANGED waiting
  /\ jan' = [jan EXCEPT !.pc = "reclaim"]
  /\ UNCHANGED <<doc, n, shard, chunks, raw, stranded, retries, api, spl, par, emb, faults>>

\* The entry of a dead parser turns min-idle old only after its lease ran out
\* and a pass reaped it, unless the lease is configured beyond the min-idle.
IdleLongEnough(j) ==
  \/ LeaseExceedsIdle
  \/ ~\E i \in 0..(n-1) : /\ j = ParseJob(i) /\ shard[i].st = "running" /\ ~LiveOn(i)
                          /\ stranded[j] = 1

\* reclaimDecide below the delivery cap: a fresh copy, then XACK and XDEL.
JanReclaim(j) ==
  /\ jan.pc = "reclaim" /\ BagIn(j, stranded) /\ IdleLongEnough(j)
  /\ Enqueue(j) /\ stranded' = stranded (-) SetToBag({j})
  /\ UNCHANGED <<doc, n, shard, chunks, raw, retries, api, spl, par, emb, jan, faults>>

\* The janitor dies between the XADD and the XACK: the job exists twice.
JanReclaimDies(j) ==
  /\ jan.pc = "reclaim" /\ BagIn(j, stranded) /\ IdleLongEnough(j) /\ Fault("janitor")
  /\ Enqueue(j) /\ jan' = IdleJanitor
  /\ UNCHANGED <<doc, n, shard, chunks, raw, stranded, retries, api, spl, par, emb>>

JanReclaimed ==
  /\ jan.pc = "reclaim"
  /\ jan' = [jan EXCEPT !.pc = "embedsweep"]
  /\ UNCHANGED <<doc, n, shard, chunks, raw, waiting, stranded, retries, api, spl, par, emb, faults>>

\* embedSweep, on the row JanDocs read.
JanEmbedSweep ==
  /\ jan.pc = "embedsweep"
  /\ IF jan.sees = "settled" /\ ~Queued(EmbedJob) THEN Enqueue(EmbedJob) ELSE UNCHANGED waiting
  /\ jan' = [jan EXCEPT !.pc = "shardread", !.sees = "none"]
  /\ UNCHANGED <<doc, n, shard, chunks, raw, stranded, retries, api, spl, par, emb, faults>>

\* NeverAttemptedShards; the grace window may still hide the document.
JanShardRead ==
  /\ jan.pc = "shardread"
  /\ jan' = [jan EXCEPT !.pc = "shardsweep",
               !.rows = IF doc.st \in Terminal \cup {"none"} THEN {}
                        ELSE {i \in 0..(n-1) : shard[i].st = "pending" /\ shard[i].att = 0}]
  /\ UNCHANGED <<doc, n, shard, chunks, raw, waiting, stranded, retries, api, spl, par, emb, faults>>

JanShardGrace ==
  /\ jan.pc = "shardread"
  /\ jan' = IdleJanitor
  /\ UNCHANGED <<doc, n, shard, chunks, raw, waiting, stranded, retries, api, spl, par, emb, faults>>

\* missingParseJobs: the rows read before, deduplicated against the stream now.
JanShardSweep ==
  /\ jan.pc = "shardsweep"
  /\ waiting' = waiting (+) SetToBag({ParseJob(i) : i \in {k \in jan.rows : ~Queued(ParseJob(k))}})
  /\ jan' = IdleJanitor
  /\ UNCHANGED <<doc, n, shard, chunks, raw, stranded, retries, api, spl, par, emb, faults>>

\* Any step that errs, or the death of the janitor, ends the pass.
JanAbort ==
  /\ jan.pc # "reap" /\ Fault("janitor")
  /\ jan' = IdleJanitor
  /\ UNCHANGED <<doc, n, shard, chunks, raw, waiting, stranded, retries, api, spl, par, emb>>
-----------------------------------------------------------------------------
\* The environment

\* lease_until passes.  Without Overrun no live parser outlasts its lease.
LeaseExpire(i) ==
  /\ i \in 0..(n-1) /\ shard[i].st = "running" /\ shard[i].lease
  /\ IF LiveOn(i) THEN Fault("overrun") ELSE UNCHANGED faults
  /\ shard' = [shard EXCEPT ![i].lease = FALSE]
  /\ UNCHANGED <<doc, n, chunks, raw, waiting, stranded, retries, api, spl, par, emb, jan>>

\* XAUTOCLAIM takes the entry of a handler that is still running; the Ack of
\* that handler will then find nothing.
ReclaimLive ==
  /\ jan.pc = "reclaim" /\ Fault("overrun")
  /\ \/ \E p \in Parsers : /\ par[p].pc # "idle" /\ par[p].held
                           /\ Enqueue(ParseJob(par[p].idx))
                           /\ par' = [par EXCEPT ![p].held = FALSE]
                           /\ UNCHANGED <<spl, emb>>
     \/ \E e \in Embedders : /\ emb[e].pc # "idle" /\ emb[e].held
                             /\ Enqueue(EmbedJob)
                             /\ emb' = [emb EXCEPT ![e].held = FALSE]
                             /\ UNCHANGED <<spl, par>>
     \/ \E s \in Splitters : /\ spl[s].pc # "idle" /\ spl[s].held
                             /\ Enqueue(SplitJob)
                             /\ spl' = [spl EXCEPT ![s].held = FALSE]
                             /\ UNCHANGED <<par, emb>>
  /\ UNCHANGED <<doc, n, shard, chunks, raw, stranded, retries, api, jan>>

\* DELETE /documents/{id}, in any state of the pipeline: shards and chunks
\* cascade, the raw object and the jobs stay.
DeleteDocument ==
  /\ "delete" \in FaultKinds /\ doc.st # "none"
  /\ doc' = NoDoc /\ n' = 0 /\ shard' = NoRows /\ chunks' = {}
  /\ UNCHANGED <<raw, waiting, stranded, retries, api, spl, par, emb, jan, faults>>

RawVanish ==
  /\ raw /\ api # "new" /\ Fault("raw")
  /\ raw' = FALSE
  /\ UNCHANGED <<doc, n, shard, chunks, waiting, stranded, retries, api, spl, par, emb, jan>>

\* The embed counter carries an expiry.
RetriesExpire ==
  /\ retries > 0 /\ retries' = 0
  /\ UNCHANGED <<doc, n, shard, chunks, raw, waiting, stranded, api, spl, par, emb, jan, faults>>

\* Redis loses everything; streams and groups come back when the processes
\* restart (EnsureStreams runs at process start only).
RedisWipe ==
  /\ Fault("redis")
  /\ waiting' = EmptyBag /\ stranded' = EmptyBag /\ retries' = 0
  /\ spl' = [s \in Splitters |-> IdleSplitter]
  /\ par' = [p \in Parsers |-> IdleParser]
  /\ emb' = [e \in Embedders |-> IdleEmbedder]
  /\ jan' = IdleJanitor
  /\ UNCHANGED <<doc, n, shard, chunks, raw, api>>
-----------------------------------------------------------------------------
SplitStep(s) == SplitRead(s) \/ SplitAlready(s) \/ SplitProbe(s) \/ SplitFetch(s)
                \/ SplitGone(s) \/ SplitCommit(s) \/ SplitConflict(s) \/ SplitEnqueue(s)
ParseStep(p) == (\E j \in DOMAIN waiting : j[1] = "parse" /\ ParseRead(p, j[2]))
                \/ ParseClaim(p) \/ ParseSkip(p)
                \/ ParseResplit(p) \/ ParseVanished(p) \/ ParseSubEnqueue(p)
                \/ ParseFetch(p) \/ ParseGone(p) \/ ParseFinish(p) \/ ParseEnqueueEmbed(p)
EmbedStep(e) == EmbedRead(e) \/ EmbedLoad(e) \/ EmbedEmpty(e) \/ EmbedWrite(e)
                \/ EmbedVanished(e)
JanStep == JanReap \/ JanEscalate \/ JanDocs \/ JanRequeue \/ JanReclaimed
           \/ JanEmbedSweep \/ JanShardRead \/ JanShardGrace \/ JanShardSweep
           \/ \E j \in DOMAIN stranded : JanReclaim(j)

Next ==
  \/ ApiInsert \/ ApiEnqueue \/ ApiDies
  \/ \E s \in Splitters : SplitStep(s) \/ SplitAbort(s)
  \/ \E p \in Parsers : ParseStep(p) \/ ParseAbort(p)
  \/ \E e \in Embedders : EmbedStep(e) \/ EmbedBackendFails(e) \/ EmbedAbort(e)
  \/ JanStep \/ JanAbort \/ \E j \in DOMAIN stranded : JanReclaimDies(j)
  \/ \E i \in 0..(n-1) : LeaseExpire(i)
  \/ ReclaimLive \/ DeleteDocument \/ RawVanish \/ RetriesExpire \/ RedisWipe

Spec == Init /\ [][Next]_vars
-----------------------------------------------------------------------------
IsJobBag(B) == IsABag(B) /\ DOMAIN B \subseteq Jobs

DocType == [st : DocStates, total : Nat, done : Nat, failed : Nat]

RowType == [st : ShardStates, att : Nat, lo : Nat, hi : Nat,
            owner : Parsers \cup {NoOwner}, lease : BOOLEAN]

SplitterType == [pc : {"idle", "probe", "fetch", "reprobe", "commit", "enqueue"},
                 held : BOOLEAN, up : BOOLEAN, next : Nat]

ParserType == [pc : {"idle", "claim", "fetch", "work", "resplit", "subenqueue", "embed"},
               held : BOOLEAN, idx : Nat, tot : Nat, att : Nat,
               lo : Nat, hi : Nat, next : Nat, last : Nat]

EmbedderType == [pc : {"idle", "load", "write"}, held : BOOLEAN, snap : SUBSET Nat]

JanitorType == [pc : {"reap", "escalate", "docs", "requeue", "reclaim", "embedsweep",
                      "shardread", "shardsweep"},
                sees : {"none", "unsplit", "settled"}, rows : SUBSET Nat]

\* Every variable keeps its shape: rows exist exactly for idx 0..n-1, and the
\* streams are bags of jobs.
TypeOK ==
  /\ doc \in DocType /\ n \in Nat /\ shard \in [0..(n-1) -> RowType]
  /\ chunks \in SUBSET Nat /\ raw \in BOOLEAN
  /\ IsJobBag(waiting) /\ IsJobBag(stranded) /\ retries \in Nat
  /\ api \in {"new", "inserted", "done"}
  /\ spl \in [Splitters -> SplitterType] /\ par \in [Parsers -> ParserType]
  /\ emb \in [Embedders -> EmbedderType] /\ jan \in JanitorType
  /\ faults \in 0..MaxFaults

\* The split and the retry ladder never drop a page: every page of a split
\* document lies in some shard row that has not been replaced.  Skipping a
\* parent and inserting its tiles happen in one transaction.
PagesCovered ==
  n > 0 => \A p \in 1..Pages : \E i \in 0..(n-1) :
             shard[i].st # "skipped" /\ shard[i].lo <= p /\ p <= shard[i].hi

\* The claim is exclusive: while no worker outlives its lease, two handlers
\* never work on one shard, and the row of a working handler is running under
\* that handler's lease, as long as the document exists.
ClaimExclusive ==
  ~Overrun /\ doc.st # "none" => \A p \in Parsers :
    par[p].pc \in {"fetch", "work", "resplit"} =>
      /\ par[p].idx < n /\ shard[par[p].idx].st = "running"
      /\ shard[par[p].idx].owner = p /\ shard[par[p].idx].lease

\* The settle counters of the document never fall behind the shard rows, so a
\* book whose rows are all done or failed and none of which was re-split is
\* always seen as settled.
CountersNeverUndercount ==
  /\ doc.done >= Cardinality(DoneRows)
  /\ doc.failed >= Cardinality(FailedRows)

\* While no worker outlives its lease, shards_done counts exactly the done rows
\* of the present split: no completion is counted twice, or for a row that is
\* gone.
DoneCountsRows == ~Overrun => doc.done = Cardinality(DoneRows)

\* A shard that was claimed before and is not finished can only be finished by
\* another delivery, because the rescue sweep looks at unattempted rows only:
\* a copy of its job must still exist somewhere on doc.parse.
NoOrphanShard ==
  ~Overrun /\ ~RedisLoss =>
    \A i \in 0..(n-1) :
      (shard[i].att > 0 /\ shard[i].st \in {"pending", "running"} /\ doc.st \notin Terminal)
        => Queued(ParseJob(i))

\* A finished shard stays finished, and attempts only grow.
DoneIsFinal ==
  [][\A i \in 0..(n-1) : i \in 0..(n'-1) =>
        /\ shard[i].st \in {"done", "skipped"} => shard'[i].st = shard[i].st
        /\ shard'[i].att >= shard[i].att]_vars

AllRowsSettled == n > 0 /\ \A i \in 0..(n-1) : shard[i].st \in {"done", "failed", "skipped"}

\* What the settle test is meant to decide (BookSettled: "every shard is done
\* or failed"): a book with nothing left to parse is settled, so that its embed
\* job can be sent.
SettledWhenParsed == AllRowsSettled => BookSettled(doc)

\* A document called ready has the text of every page in its chunks.
ReadyIsComplete ==
  doc.st = "ready" => \A p \in 1..Pages : \E i \in chunks :
                        i < n /\ shard[i].lo <= p /\ p <= shard[i].hi

\* Deleting a document under its workers leaves nothing behind: no handler
\* that read the row before brings back shards or chunks of it.
NoRowsWithoutDocument == doc.st = "none" => n = 0 /\ chunks = {}

\* Weak fairness of every process that is restarted when it dies and of the
\* clocks behind leases; strong fairness for an entry whose idle time grows
\* until some pass claims it, and for the sweep behind the grace window.
Fairness ==
  /\ WF_vars(ApiEnqueue)
  /\ \A s \in Splitters : WF_vars(SplitStep(s))
  /\ \A p \in Parsers : WF_vars(ParseStep(p))
  /\ \A e \in Embedders : WF_vars(EmbedStep(e))
  /\ WF_vars(JanStep) /\ SF_vars(JanShardRead)
  /\ \A i \in 0..(PlanLen-1) : WF_vars(LeaseExpire(i)) /\ SF_vars(JanReclaim(ParseJob(i)))
  /\ SF_vars(JanReclaim(SplitJob)) /\ SF_vars(JanReclaim(EmbedJob))

FairSpec == Spec /\ Fairness

\* Whatever is killed or fails on the way, a document in the pipeline leaves it:
\* it reaches a terminal state or is deleted.
Finishes ==
  doc.st \in {"uploaded", "parsing", "embedding"} ~> doc.st \in Terminal \cup {"none"}

\* The jobs of a deleted document do not circulate forever: whatever was on
\* the streams or being worked on is acked by some handler.
DeletedDrains ==
  (doc.st = "none" /\ api = "done") ~>
    (\A j \in {SplitJob, EmbedJob} \cup {ParseJob(i) : i \in 0..(PlanLen-1)} : ~Queued(j))
=============================================================================

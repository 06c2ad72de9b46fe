------------------------------ MODULE Operator ------------------------------
(***************************************************************************)
(* What an operator may do to a document while the pipeline of Ingest is   *)
(* working on it, besides deleting it: retry it in one of four scopes, and *)
(* recount its counters from the command line.  No handler looks at the    *)
(* state of the document first, so every request may meet every state of   *)
(* the pipeline.                                                            *)
(***************************************************************************)
EXTENDS Ingest, Integers, Sequences

CONSTANTS
  Ops,     \* the operations this instance allows
  MaxOps   \* bound on requests

ASSUME OpsAssumption ==
  /\ Ops \subseteq {"shards", "embed", "rechunk", "full", "repair"}
  /\ MaxOps \in Nat

VARIABLES
  op,   \* the request in progress: its next step and what it holds
  ops   \* the requests so far

opvars == <<op, ops>>

IdleOp == [pc |-> "idle", rows |-> {}, done |-> 0, failed |-> 0]

OpInit == Init /\ op = IdleOp /\ ops = <<>>

\* GetDocument precedes every operation and answers 404 for a missing row.
Request(o) ==
  /\ o \in Ops /\ op.pc = "idle" /\ Len(ops) < MaxOps /\ doc.st # "none"
  /\ ops' = Append(ops, o)

\* handleRetry, scope embed
OpEmbed ==
  /\ Request("embed")
  /\ SetDocState("embedding")
  /\ op' = [op EXCEPT !.pc = "addembed"]
  /\ UNCHANGED <<n, shard, chunks, raw, waiting, stranded, retries, api, spl, par, emb, jan, faults>>

\* handleRetry, scope rechunk: ResetDocForRechunk
OpRechunk ==
  /\ Request("rechunk")
  /\ SetDocState("embedding") /\ chunks' = {}
  /\ op' = [op EXCEPT !.pc = "addembed"]
  /\ UNCHANGED <<n, shard, raw, waiting, stranded, retries, api, spl, par, emb, jan, faults>>

\* handleRetry, scope full: ResetDocForFullRetry
OpFull ==
  /\ Request("full")
  /\ doc' = [NoDoc EXCEPT !.st = "uploaded"]
  /\ n' = 0 /\ shard' = NoRows /\ chunks' = {}
  /\ op' = [op EXCEPT !.pc = "addsplit"]
  /\ UNCHANGED <<raw, waiting, stranded, retries, api, spl, par, emb, jan, faults>>

\* handleRetry, scope shards, and batchReparseDoc: FailedShards, read before
\* the transaction; none is a 409.
OpFailedShards ==
  /\ Request("shards") /\ FailedRows # {}
  /\ op' = [op EXCEPT !.pc = "requeue", !.rows = FailedRows]
  /\ UNCHANGED <<doc, n, shard, chunks, raw, waiting, stranded, retries, api, spl, par, emb, jan, faults>>

\* Mutant: the counter is unwound, the rows are not.
OpRequeueCounterOnly ==
  /\ op.pc = "requeue"
  /\ doc' = IF doc.st = "none" THEN doc
            ELSE [doc EXCEPT !.failed = @ - Cardinality(FailedRows), !.st = "parsing"]
  /\ op' = [op EXCEPT !.pc = "addparse"]
  /\ UNCHANGED <<n, shard, chunks, raw, waiting, stranded, retries, api, spl, par, emb, jan, faults, ops>>

\* RequeueFailedShards and SetDocState in one transaction: the rows that are
\* failed now, with their attempts kept.
OpRequeueFailed ==
  /\ op.pc = "requeue"
  /\ shard' = [i \in 0..(n-1) |->
                 IF i \in FailedRows THEN [shard[i] EXCEPT !.st = "pending"] ELSE shard[i]]
  /\ doc' = IF doc.st = "none" THEN doc
            ELSE [doc EXCEPT !.failed = @ - Cardinality(FailedRows), !.st = "parsing"]
  /\ op' = [op EXCEPT !.pc = "addparse"]
  /\ UNCHANGED <<n, chunks, raw, waiting, stranded, retries, api, spl, par, emb, jan, faults, ops>>

\* The XADDs that follow the transaction of a retry.
OpAddSplit ==
  /\ op.pc = "addsplit"
  /\ Enqueue(SplitJob) /\ op' = IdleOp
  /\ UNCHANGED <<doc, n, shard, chunks, raw, stranded, retries, api, spl, par, emb, jan, faults, ops>>

OpAddEmbed ==
  /\ op.pc = "addembed"
  /\ Enqueue(EmbedJob) /\ op' = IdleOp
  /\ UNCHANGED <<doc, n, shard, chunks, raw, stranded, retries, api, spl, par, emb, jan, faults, ops>>

OpAddParse ==
  /\ op.pc = "addparse"
  /\ \E i \in op.rows : /\ \A k \in op.rows : i <= k
                        /\ Enqueue(ParseJob(i))
                        /\ op' = IF op.rows = {i} THEN IdleOp
                                 ELSE [op EXCEPT !.rows = @ \ {i}]
  /\ UNCHANGED <<doc, n, shard, chunks, raw, stranded, retries, api, spl, par, emb, jan, faults, ops>>

\* The process dies, or an XADD fails: what was not sent is not sent.
OpDies ==
  /\ op.pc \in {"addsplit", "addembed", "addparse"} /\ Fault("operator")
  /\ op' = IdleOp
  /\ UNCHANGED <<doc, n, shard, chunks, raw, waiting, stranded, retries, api, spl, par, emb, jan, ops>>

\* RepairDocCounters: the recount and the write are two statements of a READ
\* COMMITTED transaction, and the recount locks nothing.
OpRecount ==
  /\ Request("repair")
  /\ op' = [op EXCEPT !.pc = "repair", !.done = Cardinality(DoneRows),
                                       !.failed = Cardinality(FailedRows)]
  /\ UNCHANGED <<doc, n, shard, chunks, raw, waiting, stranded, retries, api, spl, par, emb, jan, faults>>

\* With chunks on disk the state is recomputed as well.
OpRepair ==
  /\ op.pc = "repair"
  /\ doc' = IF doc.st = "none" THEN doc
            ELSE [doc EXCEPT !.done = op.done, !.failed = op.failed,
                    !.st = IF chunks = {} THEN @
                           ELSE IF op.failed > 0 THEN "partial" ELSE "ready"]
  /\ op' = IdleOp
  /\ UNCHANGED <<n, shard, chunks, raw, waiting, stranded, retries, api, spl, par, emb, jan, faults, ops>>

OpSend == OpRequeueFailed \/ OpAddSplit \/ OpAddEmbed \/ OpAddParse \/ OpRepair

OpNext ==
  \/ Next /\ UNCHANGED opvars
  \/ OpEmbed \/ OpRechunk \/ OpFull \/ OpFailedShards \/ OpRecount
  \/ OpSend \/ OpDies

OpSpec == OpInit /\ [][OpNext]_<<vars, opvars>>

OpFairSpec == OpSpec /\ Fairness /\ WF_<<vars, opvars>>(OpSend)
-----------------------------------------------------------------------------
\* No retry, in whatever scope and at whatever moment, makes the settle counters
\* fall behind the rows, as long as nobody runs the recount.
RetryKeepsCounters == (\A k \in DOMAIN ops : ops[k] # "repair") => CountersNeverUndercount
=============================================================================

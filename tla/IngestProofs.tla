---------------------------- MODULE IngestProofs ----------------------------
(***************************************************************************)
(* What Ingest guarantees for any number of workers, any plan of shards,   *)
(* any attempt limit and any number of faults.                             *)
(***************************************************************************)
EXTENDS Operator, FiniteSetTheorems, TLAPS

\* The document is not there before its upload is committed.
NewIsAbsent == api = "new" => doc.st = "none"

\* What parser w holds between its claim and its last transaction: unless the
\* document was deleted, the pages of the row it claimed.  A deleted document
\* never comes back, because its upload is over.
HoldsRow(w) ==
  /\ api # "new"
  /\ doc.st # "none" =>
       w.idx < n /\ w.lo = shard[w.idx].lo /\ w.hi = shard[w.idx].hi

\* Every working parser holds its row, and re-splits only ranges of two pages
\* or more.
ParserRows ==
  \A p \in Parsers :
    /\ par[p].pc \in {"resplit", "fetch", "work"} => HoldsRow(par[p])
    /\ par[p].pc = "resplit" => par[p].lo < par[p].hi

\* The inductive invariant: PagesCovered needs to know what a parser about to
\* re-split will tile, and TypeOK that the number of its tiles is a number; that
\* the tiles are those of this document needs the two facts on its existence.
IInv == TypeOK /\ NewIsAbsent /\ NoRowsWithoutDocument /\ ParserRows /\ PagesCovered

\* The part of it that holds whatever an operator does to the rows meanwhile.
SplitsRange == \A p \in Parsers : par[p].pc = "resplit" => par[p].lo < par[p].hi

Base == TypeOK /\ NewIsAbsent /\ NoRowsWithoutDocument /\ SplitsRange

\* A step keeps both.
Keeps == Base' /\ (IInv => IInv')

\* The document neither appears nor disappears, and no chunks do without it.
SameDocument ==
  /\ doc'.st = "none" <=> doc.st = "none"
  /\ api' = "new" <=> api = "new"
  /\ doc.st = "none" => chunks' = {}
-----------------------------------------------------------------------------
\* Bags: what the queue operations do to the streams leaves them bags.

\* Every job the code enqueues is a job of the type.
LEMMA JobTypes == SplitJob \in Jobs /\ EmbedJob \in Jobs /\ \A i \in Nat : ParseJob(i) \in Jobs
  BY DEF SplitJob, EmbedJob, ParseJob, Jobs

\* Adding jobs to a bag of jobs leaves a bag of jobs (XADD).
LEMMA AddBag == ASSUME NEW B, IsJobBag(B), NEW S \in SUBSET Jobs
                PROVE  IsJobBag(B (+) SetToBag(S))
  BY DEF IsJobBag, IsABag, (+), SetToBag

\* Removing entries from a bag of jobs leaves a bag of jobs (XACK).
LEMMA RemoveBag == ASSUME NEW B, IsJobBag(B), NEW S PROVE IsJobBag(B (-) SetToBag(S))
  BY DEF IsJobBag, IsABag, (-), SetToBag

\* The empty stream is a bag of jobs (a wiped Redis).
LEMMA EmptyIsBag == IsJobBag(EmptyBag)
  BY DEF IsJobBag, IsABag, EmptyBag, SetToBag

\* XADD of a job keeps the stream well formed.
LEMMA EnqueueBag == ASSUME IsJobBag(waiting), NEW j \in Jobs, Enqueue(j) PROVE IsJobBag(waiting)'
  BY AddBag DEF Enqueue

\* Handing out a job keeps the stream well formed.
LEMMA DeliverBag == ASSUME IsJobBag(waiting), NEW j, Deliver(j) PROVE IsJobBag(waiting)'
  BY RemoveBag DEF Deliver

\* A dead worker leaves a well formed list of pending entries.
LEMMA StrandBag == ASSUME IsJobBag(stranded), NEW h, NEW j \in Jobs, Strand(h, j)
                   PROVE  IsJobBag(stranded)'
  BY AddBag DEF Strand

\* A counted fault stays within the budget.
LEMMA FaultBound == ASSUME faults \in 0..MaxFaults, NEW k, Fault(k)
                    PROVE  faults' \in 0..MaxFaults
  BY ConstAssumption DEF Fault

\* Acknowledging, or failing to, keeps the stream and the fault count in range.
LEMMA AckedTypes == ASSUME IsJobBag(stranded), faults \in 0..MaxFaults,
                           NEW k, NEW h, NEW j \in Jobs, Acked(k, h, j)
                    PROVE  IsJobBag(stranded)' /\ faults' \in 0..MaxFaults
  BY StrandBag, FaultBound DEF Acked
-----------------------------------------------------------------------------
\* The tile of a re-split that holds a given page of the parent.
LEMMA TilesCover ==
  ASSUME NEW lo \in Nat, NEW hi \in Nat, NEW size \in Nat \ {0}, NEW q \in Nat,
         lo <= q, q <= hi
  PROVE  \E k \in 0..(Tiles(hi - lo + 1, size) - 1) :
           TileRow(lo, hi, size, k).lo <= q /\ q <= TileRow(lo, hi, size, k).hi
  <1> DEFINE k == (q - lo) \div size
  <1>1. k \in Nat /\ k * size <= q - lo /\ q - lo < (k + 1) * size
    OBVIOUS
  <1>2. k <= Tiles(hi - lo + 1, size) - 1
    BY <1>1 DEF Tiles
  <1> QED BY <1>1, <1>2 DEF TileRow, NewRow

\* Steps that leave the rows and the parsers alone.
LEMMA Untouched == ASSUME Base, TypeOK', UNCHANGED <<n, shard, par>>, SameDocument PROVE Keeps
  <1>1. Base'
    BY DEF Base, SplitsRange, SameDocument, NewIsAbsent, NoRowsWithoutDocument
  <1>2. IInv => IInv'
    BY <1>1 DEF IInv, Base, ParserRows, HoldsRow, PagesCovered, SameDocument
  <1> QED BY <1>1, <1>2 DEF Keeps

\* Steps that leave the pages of the rows and the parsers alone, and replace none.
LEMMA PagesKept ==
  ASSUME Base, TypeOK', n' = n, par' = par, SameDocument,
         \A i \in 0..(n-1) : /\ shard'[i].lo = shard[i].lo /\ shard'[i].hi = shard[i].hi
                             /\ shard'[i].st = "skipped" => shard[i].st = "skipped"
  PROVE  Keeps
  <1>1. ASSUME PagesCovered PROVE PagesCovered'
    BY <1>1 DEF PagesCovered
  <1>2. ASSUME ParserRows, NEW p \in Parsers, par[p].pc \in {"resplit", "fetch", "work"}
        PROVE  HoldsRow(par[p])'
    <2>1. doc.st # "none" => par[p].idx \in 0..(n-1)
      BY <1>2 DEF Base, TypeOK, ParserRows, HoldsRow, ParserType
    <2> QED BY <1>2, <2>1 DEF ParserRows, HoldsRow, SameDocument
  <1>3. ParserRows => ParserRows'
    BY <1>2 DEF ParserRows
  <1>4. Base'
    BY DEF Base, SplitsRange, NewIsAbsent, NoRowsWithoutDocument, SameDocument
  <1> QED BY <1>1, <1>3, <1>4 DEF Keeps, IInv, Base

\* A worker with no job has the type of a worker.
LEMMA IdleTypes == /\ IdleSplitter \in SplitterType /\ IdleParser \in ParserType
                   /\ IdleEmbedder \in EmbedderType /\ IdleJanitor \in JanitorType
  BY DEF IdleSplitter, IdleParser, IdleEmbedder, IdleJanitor,
         SplitterType, ParserType, EmbedderType, JanitorType

\* The row an INSERT creates has the type of a row.
LEMMA NewRowType == ASSUME NEW lo \in Nat, NEW hi \in Nat PROVE NewRow(lo, hi) \in RowType
  BY DEF NewRow, RowType, ShardStates

\* What the janitor and the clock write into a row leaves it a row.
LEMMA RowUpdates ==
  ASSUME NEW r \in RowType
  PROVE  /\ [r EXCEPT !.st = "pending", !.owner = NoOwner] \in RowType
         /\ [r EXCEPT !.st = "failed"] \in RowType
         /\ [r EXCEPT !.lease = FALSE] \in RowType
  BY DEF RowType, ShardStates

\* The rows EscalateStuckShards counts are finitely many.
LEMMA StuckFinite == ASSUME n \in Nat PROVE Cardinality(StuckRows) \in Nat
  <1>1. IsFiniteSet(0..(n-1))
    BY FS_Interval
  <1>2. IsFiniteSet(StuckRows)
    BY <1>1, FS_Subset DEF StuckRows
  <1> QED BY <1>2, FS_CardinalityType
-----------------------------------------------------------------------------
\* The inductive invariant holds before the first upload.
LEMMA InitOK == Init => IInv
  <1> SUFFICES ASSUME Init PROVE IInv
    OBVIOUS
  <1>1. TypeOK
    BY ConstAssumption, EmptyIsBag
       DEF Init, TypeOK, NoDoc, NoRows, NewRow, IdleSplitter, IdleParser, IdleEmbedder, IdleJanitor,
           DocType, DocStates, SplitterType, ParserType, EmbedderType, JanitorType
  <1>2. ParserRows /\ PagesCovered /\ NewIsAbsent /\ NoRowsWithoutDocument
    BY DEF Init, ParserRows, PagesCovered, NewIsAbsent, NoRowsWithoutDocument, IdleParser, NoDoc
  <1> QED BY <1>1, <1>2 DEF IInv

\* The upload handler keeps the inductive invariant.
LEMMA ApiOK == ASSUME Base, ApiInsert \/ ApiEnqueue \/ ApiDies PROVE Keeps
  <1>1. CASE ApiInsert
    <2>1. TypeOK'
      BY <1>1 DEF ApiInsert, Base, TypeOK, NoDoc, DocType, DocStates
    <2>2. doc'.st = "uploaded" /\ api' = "inserted" /\ n' = n /\ n = 0 /\ par' = par
      BY <1>1 DEF ApiInsert, NoDoc, Base, NewIsAbsent, NoRowsWithoutDocument
    <2>3. Base'
      BY <2>1, <2>2 DEF Base, SplitsRange, NewIsAbsent, NoRowsWithoutDocument
    <2>4. ParserRows => ParserRows'
      BY <1>1, <2>2 DEF ApiInsert, ParserRows, HoldsRow
    <2> QED BY <2>2, <2>3, <2>4 DEF Keeps, IInv, Base, PagesCovered
  <1>2. CASE ApiEnqueue
    BY <1>2, Untouched, EnqueueBag, JobTypes DEF ApiEnqueue, Base, TypeOK, NoRowsWithoutDocument, SameDocument
  <1>3. CASE ApiDies
    BY <1>3, Untouched, FaultBound DEF ApiDies, Base, TypeOK, NoRowsWithoutDocument, SameDocument
  <1> QED BY <1>1, <1>2, <1>3

\* HandleSplit keeps it: the rows it inserts are the plan, and no parser holds a row before.
LEMMA SplitOK == ASSUME Base, NEW s \in Splitters, SplitStep(s) \/ SplitAbort(s) PROVE Keeps
  <1> USE DEF Base, TypeOK, NoRowsWithoutDocument, SameDocument, IdleSplitter, SplitIdle, SplitAck, SetDocState,
              SplitterType
  <1>1. CASE SplitRead(s)
    <2>1. spl' \in [Splitters -> SplitterType]
      <3> DEFINE w == [IdleSplitter EXCEPT !.pc = "probe", !.held = TRUE,
                                           !.up = (doc.st = "uploaded")]
      <3>1. w \in SplitterType
        OBVIOUS
      <3>2. spl' = spl \/ spl' = [spl EXCEPT ![s] = w]
        BY <1>1 DEF SplitRead
      <3>3. spl \in [Splitters -> SplitterType]
        OBVIOUS
      <3> HIDE DEF w, SplitterType
      <3> QED BY <3>1, <3>2, <3>3
    <2>2. IsJobBag(waiting)' /\ IsJobBag(stranded)' /\ faults' \in 0..MaxFaults
      BY <1>1, DeliverBag, AckedTypes, JobTypes DEF SplitRead
    <2> QED BY <1>1, <2>1, <2>2, Untouched DEF SplitRead
  <1>2. CASE SplitAlready(s)
    <2>1. doc' \in DocType /\ SameDocument
      <3>1. doc \in DocType /\ UNCHANGED <<api, chunks>>
        BY <1>2 DEF SplitAlready
      <3>2. doc' = doc \/ (doc.st # "none" /\ doc' = [doc EXCEPT !.st = "parsing"])
        BY <1>2 DEF SplitAlready
      <3>3. doc' \in DocType /\ (doc'.st = "none" <=> doc.st = "none")
        BY <3>1, <3>2 DEF DocType, DocStates
      <3> QED BY <3>1, <3>3
    <2>2. spl' \in [Splitters -> SplitterType]
      BY <1>2 DEF SplitAlready
    <2>3. IsJobBag(stranded)' /\ faults' \in 0..MaxFaults
      BY <1>2, AckedTypes, JobTypes DEF SplitAlready
    <2> QED BY <1>2, <2>1, <2>2, <2>3, Untouched DEF SplitAlready
  <1>3. CASE SplitProbe(s)
    BY <1>3, Untouched DEF SplitProbe
  <1>4. CASE SplitFetch(s)
    BY <1>4, Untouched DEF SplitFetch
  <1>5. CASE SplitGone(s)
    BY <1>5, Untouched, AckedTypes, JobTypes DEF SplitGone, DocType, DocStates
  <1>6. CASE SplitCommit(s)
    <2>1. TypeOK'
      <3>1. doc' \in DocType /\ n' \in Nat
        BY <1>6, PlanAssumption DEF SplitCommit, DocType, DocStates
      <3>2. \A i \in 0..(PlanLen-1) : NewRow(Plan[i].lo, Plan[i].hi) \in RowType
        BY PlanAssumption, NewRowType
      <3>4. shard' \in [0..(n'-1) -> RowType]
        BY <1>6, <3>2 DEF SplitCommit
      <3>3. spl' \in [Splitters -> SplitterType]
        BY <1>6 DEF SplitCommit
      <3> QED BY <1>6, <3>1, <3>4, <3>3 DEF SplitCommit
    <2>2. PagesCovered'
      BY <1>6, PlanAssumption DEF SplitCommit, NewRow, PagesCovered
    <2>3. ParserRows => ParserRows'
      <3>1. ASSUME ParserRows PROVE \A p \in Parsers : par[p].pc \notin {"resplit", "fetch", "work"}
        BY <1>6, <3>1 DEF SplitCommit, ParserRows, HoldsRow, ParserType
      <3> QED BY <1>6, <3>1 DEF SplitCommit, ParserRows
    <2>4. NewIsAbsent' /\ NoRowsWithoutDocument' /\ SplitsRange'
      BY <1>6 DEF SplitCommit, NewIsAbsent, SplitsRange, DocType
    <2> QED BY <2>1, <2>2, <2>3, <2>4 DEF Keeps, IInv
  <1>7. CASE SplitConflict(s)
    BY <1>7, Untouched, StrandBag, JobTypes DEF SplitConflict
  <1>8. CASE SplitEnqueue(s)
    <2>1. spl' \in [Splitters -> SplitterType]
      <3> DEFINE w == [spl[s] EXCEPT !.next = @ + 1]
      <3>1. w \in SplitterType
        <4>1. spl[s] \in SplitterType
          OBVIOUS
        <4>2. spl[s].next + 1 \in Nat
          BY <4>1
        <4> QED BY <4>1, <4>2
      <3>2. spl' = [spl EXCEPT ![s] = IdleSplitter] \/ spl' = [spl EXCEPT ![s] = w]
        BY <1>8 DEF SplitEnqueue
      <3>3. spl \in [Splitters -> SplitterType]
        OBVIOUS
      <3> HIDE DEF w, SplitterType, IdleSplitter
      <3> QED BY <3>1, <3>2, <3>3, IdleTypes
    <2>2. IsJobBag(waiting)' /\ IsJobBag(stranded)' /\ faults' \in 0..MaxFaults
      BY <1>8, EnqueueBag, AckedTypes, JobTypes DEF SplitEnqueue
    <2> QED BY <1>8, <2>1, <2>2, Untouched DEF SplitEnqueue
  <1>9. CASE SplitAbort(s)
    BY <1>9, Untouched, StrandBag, JobTypes, FaultBound DEF SplitAbort
  <1> QED BY <1>1, <1>2, <1>3, <1>4, <1>5, <1>6, <1>7, <1>8, <1>9 DEF SplitStep

\* HandleEmbed keeps it: it never touches a shard row or a parser.
LEMMA EmbedOK == ASSUME Base, NEW e \in Embedders,
                        EmbedStep(e) \/ EmbedBackendFails(e) \/ EmbedAbort(e)
                 PROVE  Keeps
  <1> USE DEF Base, TypeOK, NoRowsWithoutDocument, SameDocument, IdleEmbedder, EmbedIdle, EmbedAck, SetDocState, EmbedderType
  <1>1. CASE EmbedRead(e)
    <2>1. emb' \in [Embedders -> EmbedderType]
      <3> DEFINE w == [IdleEmbedder EXCEPT !.pc = "load", !.held = TRUE]
      <3>1. w \in EmbedderType
        OBVIOUS
      <3>2. emb' = emb \/ emb' = [emb EXCEPT ![e] = w]
        BY <1>1 DEF EmbedRead
      <3>3. emb \in [Embedders -> EmbedderType]
        OBVIOUS
      <3> HIDE DEF w, EmbedderType
      <3> QED BY <3>1, <3>2, <3>3
    <2>2. IsJobBag(waiting)' /\ IsJobBag(stranded)' /\ faults' \in 0..MaxFaults
      BY <1>1, DeliverBag, AckedTypes, JobTypes DEF EmbedRead
    <2> QED BY <1>1, <2>1, <2>2, Untouched DEF EmbedRead
  <1>2. CASE EmbedLoad(e)
    <2>1. DoneRows \in SUBSET Nat
      BY DEF DoneRows
    <2>2. emb' \in [Embedders -> EmbedderType]
      <3> DEFINE w == [emb[e] EXCEPT !.pc = "write", !.snap = DoneRows]
      <3>1. w \in EmbedderType
        BY <2>1
      <3>2. emb' = [emb EXCEPT ![e] = w]
        BY <1>2 DEF EmbedLoad
      <3>3. emb \in [Embedders -> EmbedderType]
        OBVIOUS
      <3> HIDE DEF w, EmbedderType
      <3> QED BY <3>1, <3>2, <3>3
    <2> QED BY <1>2, <2>2, Untouched DEF EmbedLoad
  <1>3. CASE EmbedEmpty(e)
    BY <1>3, Untouched, AckedTypes, JobTypes DEF EmbedEmpty, DocType, DocStates
  <1>4. CASE EmbedBackendFails(e)
    <2>1. doc' \in DocType /\ SameDocument
      BY <1>4 DEF EmbedBackendFails, DocType, DocStates
    <2>2. emb' \in [Embedders -> EmbedderType] /\ retries' \in Nat
      BY <1>4 DEF EmbedBackendFails
    <2>3. IsJobBag(stranded)' /\ faults' \in 0..MaxFaults
      BY <1>4, StrandBag, JobTypes, FaultBound DEF EmbedBackendFails
    <2> QED BY <1>4, <2>1, <2>2, <2>3, Untouched DEF EmbedBackendFails
  <1>5. CASE EmbedWrite(e)
    <2>1. doc' \in DocType /\ SameDocument /\ chunks' \in SUBSET Nat
      BY <1>5 DEF EmbedWrite, DocType, DocStates, RebuiltChunks
    <2>2. IsJobBag(stranded)' /\ faults' \in 0..MaxFaults /\ retries' \in Nat
      BY <1>5, AckedTypes, JobTypes DEF EmbedWrite
    <2> QED BY <1>5, <2>1, <2>2, Untouched DEF EmbedWrite
  <1>6. CASE EmbedVanished(e)
    BY <1>6, Untouched, StrandBag, JobTypes DEF EmbedVanished
  <1>7. CASE EmbedAbort(e)
    BY <1>7, Untouched, StrandBag, JobTypes, FaultBound DEF EmbedAbort
  <1> QED BY <1>1, <1>2, <1>3, <1>4, <1>5, <1>6, <1>7 DEF EmbedStep

\* A janitor pass keeps it: it changes counters and states of rows, never their pages.
LEMMA JanOK == ASSUME Base, JanStep \/ JanAbort \/ \E j \in DOMAIN stranded : JanReclaimDies(j)
               PROVE  Keeps
  <1> USE DEF Base, TypeOK, NoRowsWithoutDocument, SameDocument, IdleJanitor, JanitorType
  <1>1. CASE JanReap
    <2>1. TypeOK'
      <3>1. \A i \in 0..(n-1) :
              shard[i] \in RowType /\ [shard[i] EXCEPT !.st = "pending", !.owner = NoOwner] \in RowType
        BY RowUpdates
      <3>2. shard' \in [0..(n'-1) -> RowType]
        BY <1>1, <3>1 DEF JanReap
      <3> QED BY <1>1, <3>2 DEF JanReap
    <2>2. \A i \in 0..(n-1) : /\ shard'[i].lo = shard[i].lo /\ shard'[i].hi = shard[i].hi
                              /\ shard'[i].st = "skipped" => shard[i].st = "skipped"
      BY <1>1 DEF JanReap, RowType
    <2> QED BY <1>1, <2>1, <2>2, PagesKept DEF JanReap
  <1>2. CASE JanEscalate
    <2>1. TypeOK'
      <3>1. doc' \in DocType
        <4>1. doc \in DocType /\ Cardinality(StuckRows) \in Nat
          BY StuckFinite
        <4>2. doc' = [doc EXCEPT !.failed = doc.failed + Cardinality(StuckRows)]
          BY <1>2 DEF JanEscalate
        <4> HIDE DEF TypeOK, Base
        <4> QED BY <4>1, <4>2 DEF DocType
      <3>2. shard' \in [0..(n'-1) -> RowType]
        <4>1. \A i \in 0..(n-1) : [shard[i] EXCEPT !.st = "failed"] \in RowType
          BY RowUpdates
        <4> QED BY <1>2, <4>1 DEF JanEscalate
      <3> QED BY <1>2, <3>1, <3>2 DEF JanEscalate
    <2>2. \A i \in 0..(n-1) : /\ shard'[i].lo = shard[i].lo /\ shard'[i].hi = shard[i].hi
                              /\ shard'[i].st = "skipped" => shard[i].st = "skipped"
      BY <1>2 DEF JanEscalate, RowType
    <2>3. SameDocument
      BY <1>2 DEF JanEscalate, DocType
    <2> QED BY <1>2, <2>1, <2>2, <2>3, PagesKept DEF JanEscalate
  <1>3. CASE JanDocs
    BY <1>3, Untouched DEF JanDocs
  <1>4. CASE JanRequeue
    BY <1>4, Untouched, EnqueueBag, JobTypes DEF JanRequeue
  <1>5. CASE JanReclaimed
    BY <1>5, Untouched DEF JanReclaimed
  <1>6. CASE JanEmbedSweep
    BY <1>6, Untouched, EnqueueBag, JobTypes DEF JanEmbedSweep
  <1>7. CASE JanShardRead
    <2> DEFINE R == {i \in 0..(n-1) : shard[i].st = "pending" /\ shard[i].att = 0}
    <2>1. jan' = [jan EXCEPT !.pc = "shardsweep", !.rows = {}]
          \/ jan' = [jan EXCEPT !.pc = "shardsweep", !.rows = R]
      BY <1>7 DEF JanShardRead
    <2>2. R \in SUBSET Nat
      OBVIOUS
    <2> HIDE DEF R
    <2>3. jan' \in JanitorType
      BY <2>1, <2>2
    <2> QED BY <1>7, <2>3, Untouched DEF JanShardRead
  <1>8. CASE JanShardGrace
    BY <1>8, Untouched DEF JanShardGrace
  <1>9. CASE JanShardSweep
    <2>1. {ParseJob(i) : i \in {k \in jan.rows : ~Queued(ParseJob(k))}} \in SUBSET Jobs
      BY JobTypes
    <2>2. IsJobBag(waiting)'
      BY <1>9, <2>1, AddBag DEF JanShardSweep
    <2> QED BY <1>9, <2>2, IdleTypes, Untouched DEF JanShardSweep
  <1>10. ASSUME NEW j \in DOMAIN stranded, JanReclaim(j) PROVE Keeps
    BY <1>10, Untouched, EnqueueBag, RemoveBag DEF JanReclaim, IsJobBag
  <1>11. CASE JanAbort
    BY <1>11, Untouched, FaultBound DEF JanAbort
  <1>12. ASSUME NEW j \in DOMAIN stranded, JanReclaimDies(j) PROVE Keeps
    BY <1>12, Untouched, EnqueueBag, FaultBound DEF JanReclaimDies, IsJobBag
  <1> QED BY <1>1, <1>2, <1>3, <1>4, <1>5, <1>6, <1>7, <1>8, <1>9, <1>10, <1>11, <1>12 DEF JanStep

\* Expiring leases, a deletion, a vanished object, and a wiped Redis keep it.
LEMMA EnvOK == ASSUME Base, \/ \E i \in 0..(n-1) : LeaseExpire(i)
                            \/ ReclaimLive \/ DeleteDocument \/ RawVanish
                            \/ RetriesExpire \/ RedisWipe
               PROVE  Keeps
  <1> USE DEF Base, TypeOK, NoRowsWithoutDocument, SameDocument
  <1>1. ASSUME NEW i \in 0..(n-1), LeaseExpire(i) PROVE Keeps
    <2>1. TypeOK'
      <3>1. shard[i] \in RowType /\ [shard[i] EXCEPT !.lease = FALSE] \in RowType
        BY RowUpdates
      <3>2. shard' \in [0..(n'-1) -> RowType]
        BY <1>1, <3>1 DEF LeaseExpire
      <3> QED BY <1>1, <3>2, FaultBound DEF LeaseExpire
    <2>2. \A k \in 0..(n-1) : /\ shard'[k].lo = shard[k].lo /\ shard'[k].hi = shard[k].hi
                              /\ shard'[k].st = "skipped" => shard[k].st = "skipped"
      BY <1>1 DEF LeaseExpire, RowType
    <2> QED BY <1>1, <2>1, <2>2, PagesKept DEF LeaseExpire
  <1>2. CASE ReclaimLive
    <2>1. /\ IsJobBag(waiting)' /\ faults' \in 0..MaxFaults
          /\ UNCHANGED <<doc, n, shard, chunks, raw, stranded, retries, api, jan>>
      BY <1>2, FaultBound, EnqueueBag, JobTypes DEF ReclaimLive, ParserType
    <2>2. ASSUME NEW p \in Parsers, par' = [par EXCEPT ![p].held = FALSE], UNCHANGED <<spl, emb>>
          PROVE  Keeps
      <3>1. par' \in [Parsers -> ParserType]
        <4> DEFINE w == [par[p] EXCEPT !.held = FALSE]
        <4>1. par \in [Parsers -> ParserType] /\ par[p] \in ParserType
          OBVIOUS
        <4>2. w \in ParserType
          BY <4>1 DEF ParserType
        <4>3. par' = [par EXCEPT ![p] = w]
          BY <2>2
        <4> HIDE DEF w
        <4> QED BY <4>1, <4>2, <4>3
      <3>2. \A q \in Parsers : /\ par'[q].pc = par[q].pc /\ par'[q].idx = par[q].idx
                               /\ par'[q].lo = par[q].lo /\ par'[q].hi = par[q].hi
        BY <2>2 DEF ParserType
      <3>3. (ParserRows => ParserRows') /\ SplitsRange'
        BY <2>1, <3>2 DEF ParserRows, HoldsRow, SplitsRange
      <3>4. (PagesCovered => PagesCovered') /\ NewIsAbsent' /\ NoRowsWithoutDocument'
        BY <2>1 DEF PagesCovered, NewIsAbsent
      <3> QED BY <2>1, <2>2, <3>1, <3>3, <3>4 DEF Keeps, IInv
    <2>3. ASSUME NEW e \in Embedders, emb' = [emb EXCEPT ![e].held = FALSE], UNCHANGED <<spl, par>>
          PROVE  Keeps
      <3>1. emb' \in [Embedders -> EmbedderType]
        BY <2>3 DEF EmbedderType
      <3> QED BY <2>1, <2>3, <3>1, Untouched
    <2>4. ASSUME NEW s \in Splitters, spl' = [spl EXCEPT ![s].held = FALSE], UNCHANGED <<par, emb>>
          PROVE  Keeps
      <3>1. spl' \in [Splitters -> SplitterType]
        BY <2>4 DEF SplitterType
      <3> QED BY <2>1, <2>4, <3>1, Untouched
    <2> QED BY <1>2, <2>2, <2>3, <2>4 DEF ReclaimLive
  <1>3. CASE RawVanish
    BY <1>3, Untouched, FaultBound DEF RawVanish
  <1>4. CASE RetriesExpire
    BY <1>4, Untouched DEF RetriesExpire
  <1>5. CASE RedisWipe
    <2>1. TypeOK'
      BY <1>5, FaultBound, EmptyIsBag
         DEF RedisWipe, IdleSplitter, IdleParser, IdleEmbedder, IdleJanitor,
             SplitterType, ParserType, EmbedderType, JanitorType
    <2>2. /\ ParserRows' /\ SplitsRange' /\ NewIsAbsent' /\ NoRowsWithoutDocument'
          /\ PagesCovered => PagesCovered'
      BY <1>5 DEF RedisWipe, IdleParser, ParserRows, SplitsRange, PagesCovered, NewIsAbsent
    <2> QED BY <2>1, <2>2 DEF Keeps, IInv
  <1>6. CASE DeleteDocument
    <2>1. TypeOK'
      BY <1>6 DEF DeleteDocument, NoDoc, NoRows, DocType, DocStates
    <2>2. doc'.st = "none" /\ n' = 0 /\ chunks' = {} /\ UNCHANGED <<api, par>>
      BY <1>6 DEF DeleteDocument, NoDoc
    <2>3. (ParserRows => ParserRows') /\ SplitsRange'
      BY <2>2 DEF ParserRows, HoldsRow, SplitsRange
    <2> QED BY <2>1, <2>2, <2>3 DEF Keeps, IInv, NewIsAbsent, PagesCovered
  <1> QED BY <1>1, <1>2, <1>3, <1>4, <1>5, <1>6
-----------------------------------------------------------------------------
\* Steps of one parser: what it holds of a row must be so after the step.
LEMMA ParserStep ==
  ASSUME Base, TypeOK', n' = n, SameDocument, NEW p \in Parsers, NEW w,
         par' = [par EXCEPT ![p] = w],
         \A i \in 0..(n-1) : /\ shard'[i].lo = shard[i].lo /\ shard'[i].hi = shard[i].hi
                             /\ shard'[i].st = "skipped" => shard[i].st = "skipped",
         w.pc \in {"resplit", "fetch", "work"} => w.idx \in Nat /\ (IInv => HoldsRow(w)),
         w.pc = "resplit" => w.lo < w.hi
  PROVE  Keeps
  <1>1. PagesCovered => PagesCovered'
    BY DEF PagesCovered
  <1>2. par'[p] = w /\ \A q \in Parsers : q # p => par'[q] = par[q]
    BY DEF Base, TypeOK
  <1>3. ASSUME NEW v, v.idx \in Nat, HoldsRow(v)
        PROVE  /\ api' # "new"
               /\ doc'.st # "none" =>
                    v.idx < n' /\ v.lo = shard'[v.idx].lo /\ v.hi = shard'[v.idx].hi
    <2>1. n \in Nat
      BY DEF Base, TypeOK
    <2> QED BY <1>3, <2>1 DEF HoldsRow, SameDocument
  <1>4. Base'
    BY <1>2 DEF Base, SplitsRange, NewIsAbsent, NoRowsWithoutDocument, SameDocument
  <1>5. ASSUME IInv, NEW q \in Parsers, par'[q].pc \in {"resplit", "fetch", "work"}
        PROVE  HoldsRow(par[q])'
    <2>1. CASE q = p
      BY <1>2, <1>3, <1>5, <2>1 DEF HoldsRow
    <2>2. CASE q # p
      <3>1. par[q].idx \in Nat
        BY DEF Base, TypeOK, ParserType
      <3> QED BY <1>2, <1>3, <1>5, <2>2, <3>1 DEF IInv, ParserRows, HoldsRow
    <2> QED BY <2>1, <2>2
  <1>6. IInv => ParserRows'
    BY <1>4, <1>5 DEF Base, SplitsRange, ParserRows
  <1> QED BY <1>1, <1>4, <1>6 DEF Keeps, IInv, Base

\* A claim hands out a row with its pages, and the ladder re-splits only spans
\* of two pages or more.
LEMMA ClaimOK == ASSUME Base, NEW p \in Parsers, ParseClaim(p) PROVE Keeps
  <1> DEFINE i == par[p].idx
             r == shard[i]
             a == r.att + 1
             w == [par[p] EXCEPT !.pc = IF LadderSplits(a, r.lo, r.hi) THEN "resplit" ELSE "fetch",
                                 !.att = a, !.lo = r.lo, !.hi = r.hi]
             c == [r EXCEPT !.st = "running", !.att = a, !.owner = p, !.lease = TRUE]
  <1>1. i \in 0..(n-1) /\ r \in RowType /\ par[p] \in ParserType
    BY DEF ParseClaim, Claimable, Base, TypeOK
  <1>2. r.lo \in Nat /\ r.hi \in Nat /\ a \in Nat
    BY <1>1 DEF RowType
  <1>3. /\ par' = [par EXCEPT ![p] = w] /\ shard' = [shard EXCEPT ![i] = c]
        /\ UNCHANGED <<doc, n, chunks, raw, waiting, stranded, retries, api, spl, emb, jan, faults>>
    BY DEF ParseClaim, Base, TypeOK
  <1> HIDE DEF r, a
  <1>4. c \in RowType /\ c.lo = r.lo /\ c.hi = r.hi /\ c.st = "running"
    BY <1>1, <1>2 DEF RowType, ShardStates
  <1>5. /\ w \in ParserType
        /\ w.pc = "resplit" => w.lo < w.hi
        /\ w.idx = i /\ w.lo = r.lo /\ w.hi = r.hi
    <2>1. LadderSplits(a, r.lo, r.hi) => r.lo < r.hi
      BY <1>2 DEF LadderSplits
    <2> QED BY <1>1, <1>2, <2>1 DEF ParserType
  <1> HIDE DEF i, w, c
  <1>6. \A k \in 0..(n-1) : /\ shard'[k].lo = shard[k].lo /\ shard'[k].hi = shard[k].hi
                            /\ shard'[k].st = "skipped" => shard[k].st = "skipped"
    BY <1>1, <1>3, <1>4 DEF Base, TypeOK, r
  <1>7. TypeOK'
    BY <1>1, <1>3, <1>4, <1>5 DEF Base, TypeOK
  <1>8. api # "new" /\ doc.st # "none" /\ SameDocument
    BY <1>1, <1>3 DEF Base, TypeOK, NewIsAbsent, NoRowsWithoutDocument, SameDocument
  <1>9. w.idx \in Nat /\ HoldsRow(w)
    BY <1>1, <1>5, <1>8 DEF HoldsRow, r, Base, TypeOK
  <1> QED BY <1>3, <1>5, <1>6, <1>7, <1>8, <1>9, ParserStep

\* The re-split replaces a row by tiles that hold each of its pages.
LEMMA ResplitOK == ASSUME Base, NEW p \in Parsers, ParseResplit(p) PROVE Keeps
  <1> DEFINE w    == par[p]
             size == ResplitSize(w.att, w.hi - w.lo + 1)
             k    == Tiles(w.hi - w.lo + 1, size)
  <1>0. w \in ParserType /\ n \in Nat
    BY DEF Base, TypeOK
  <1>1. /\ w \in ParserType /\ w.idx \in 0..(n-1) /\ w.lo < w.hi /\ doc.st # "none"
        /\ IInv => w.lo = shard[w.idx].lo /\ w.hi = shard[w.idx].hi
    BY <1>0 DEF Base, IInv, SplitsRange, NoRowsWithoutDocument, ParserRows, HoldsRow, ParserType, ParseResplit
  <1>2. w.lo \in Nat /\ w.hi \in Nat /\ w.hi - w.lo + 1 \in Nat
    BY <1>1 DEF ParserType
  <1>3. size \in Nat \ {0}
    BY <1>2 DEF ResplitSize, AtLeast1
  <1>4. k \in Nat
    <2> HIDE DEF size
    <2> QED BY <1>2, <1>3 DEF Tiles
  <1> HIDE DEF size, k
  <1>5. /\ n' = n + k
        /\ shard' = [i \in 0..(n+k-1) |->
                       IF i = w.idx THEN [shard[i] EXCEPT !.st = "skipped"]
                       ELSE IF i < n THEN shard[i] ELSE TileRow(w.lo, w.hi, size, i - n)]
        /\ doc' = [doc EXCEPT !.total = w.tot + k]
        /\ par' = [par EXCEPT ![p] = [w EXCEPT !.pc = "subenqueue", !.next = n, !.last = n + k - 1]]
        /\ UNCHANGED <<chunks, raw, waiting, stranded, retries, api, spl, emb, jan, faults>>
    BY DEF ParseResplit, size, k, Base, TypeOK
  <1>6. TypeOK'
    <2>1. doc' \in DocType /\ n' \in Nat
      <3>1. w.tot + k \in Nat
        BY <1>1, <1>4 DEF ParserType
      <3>2. doc \in DocType /\ n \in Nat
        BY DEF Base, TypeOK
      <3> QED BY <1>4, <1>5, <3>1, <3>2 DEF DocType
    <2>2. \A m \in Nat : TileRow(w.lo, w.hi, size, m) \in RowType
      BY <1>2, <1>3, NewRowType DEF TileRow
    <2>3. [shard[w.idx] EXCEPT !.st = "skipped"] \in RowType
      BY <1>1 DEF Base, TypeOK, RowType, ShardStates
    <2>4. shard' \in [0..(n'-1) -> RowType]
      <3>1. n \in Nat /\ shard \in [0..(n-1) -> RowType]
        BY DEF Base, TypeOK
      <3> DEFINE row(i) == IF i = w.idx THEN [shard[i] EXCEPT !.st = "skipped"]
                           ELSE IF i < n THEN shard[i] ELSE TileRow(w.lo, w.hi, size, i - n)
      <3>2. ASSUME NEW i \in 0..(n+k-1) PROVE row(i) \in RowType
        <4>1. CASE i = w.idx
          BY <2>3, <4>1
        <4>2. CASE i # w.idx /\ i < n
          BY <3>1, <4>2
        <4>3. CASE i # w.idx /\ ~(i < n)
          <5>1. i - n \in Nat
            BY <3>1, <4>3
          <5> QED BY <2>2, <4>3, <5>1
        <4> QED BY <4>1, <4>2, <4>3
      <3>3. shard' = [i \in 0..(n+k-1) |-> row(i)] /\ n' = n + k
        BY <1>5
      <3>4. n'-1 = n+k-1
        BY <1>4, <3>1, <3>3
      <3> QED BY <3>2, <3>3, <3>4
    <2>5. n \in Nat /\ n + k - 1 \in Nat
      BY <1>1, <1>4 DEF Base, TypeOK
    <2>6. [w EXCEPT !.pc = "subenqueue", !.next = n, !.last = n + k - 1] \in ParserType
      BY <1>1, <2>5 DEF ParserType
    <2>7. par' \in [Parsers -> ParserType]
      BY <1>5, <2>6 DEF Base, TypeOK
    <2> QED BY <1>5, <2>1, <2>4, <2>7 DEF Base, TypeOK
  <1>7. n \in Nat
    BY DEF Base, TypeOK
  <1>8. \A i \in 0..(n-1) : shard'[i].lo = shard[i].lo /\ shard'[i].hi = shard[i].hi
    BY <1>4, <1>5, <1>7 DEF Base, TypeOK, RowType
  <1>9. IInv => ParserRows'
    <2>1. \A q \in Parsers : q # p => par'[q] = par[q]
      BY <1>5 DEF Base, TypeOK
    <2>2. par'[p].pc = "subenqueue"
      BY <1>1, <1>5 DEF Base, TypeOK, ParserType
    <2>3. ASSUME IInv, NEW q \in Parsers
          PROVE  /\ par'[q].pc \in {"resplit", "fetch", "work"} => HoldsRow(par[q])'
                 /\ par'[q].pc = "resplit" => par'[q].lo < par'[q].hi
      <3>1. CASE q = p
        BY <2>2, <3>1
      <3>2. CASE q # p
        <4>1. par[q].idx \in Nat
          BY DEF Base, TypeOK, ParserType
        <4>2. par'[q] = par[q] /\ n <= n'
          BY <1>4, <1>5, <1>7, <2>1, <3>2
        <4>3. doc'.st = doc.st /\ api' = api
          BY <1>5 DEF Base, TypeOK, DocType
        <4>4. CASE par[q].pc \in {"resplit", "fetch", "work"}
          <5>1. HoldsRow(par[q])
            BY <2>3, <4>4 DEF IInv, ParserRows
          <5>2. doc.st # "none" => par[q].idx \in 0..(n-1)
            BY <1>7, <4>1, <5>1 DEF HoldsRow
          <5>3. n' \in Nat
            BY <1>6 DEF TypeOK
          <5>4. doc.st # "none" => par[q].idx < n'
            BY <1>7, <4>2, <5>2, <5>3
          <5>5. HoldsRow(par[q])'
            BY <1>8, <4>2, <4>3, <5>1, <5>2, <5>4 DEF HoldsRow
          <5> QED BY <2>3, <4>2, <5>5 DEF IInv, ParserRows
        <4> QED BY <4>2, <4>4
      <3> QED BY <3>1, <3>2
    <2> QED BY <2>3 DEF ParserRows
  <1>10. ASSUME IInv, NEW q \in 1..Pages
         PROVE  \E i \in 0..(n'-1) : shard'[i].st # "skipped" /\ shard'[i].lo <= q /\ q <= shard'[i].hi
    <2>1. PICK i \in 0..(n-1) : shard[i].st # "skipped" /\ shard[i].lo <= q /\ q <= shard[i].hi
      BY <1>1, <1>7, <1>10 DEF IInv, PagesCovered
    <2>2. CASE i # w.idx
      BY <1>4, <1>5, <1>7, <2>1, <2>2
    <2>3. CASE i = w.idx
      <3>1. PICK m \in 0..(k-1) : /\ TileRow(w.lo, w.hi, size, m).lo <= q
                                  /\ q <= TileRow(w.lo, w.hi, size, m).hi
        <4>1. q \in Nat
          BY PlanAssumption
        <4>2. w.lo <= q /\ q <= w.hi
          BY <1>1, <1>10, <2>1, <2>3
        <4> HIDE DEF w
        <4> QED BY <1>2, <1>3, <4>1, <4>2, TilesCover DEF k
      <3>2. /\ n + m \in 0..(n'-1) /\ n + m \in 0..(n+k-1)
            /\ n + m # w.idx /\ ~(n + m < n) /\ n + m - n = m
        BY <1>1, <1>4, <1>5, <1>7
      <3>3. shard'[n + m] = TileRow(w.lo, w.hi, size, m)
        <4>1. ASSUME NEW x \in 0..(n+k-1), x # w.idx, ~(x < n)
              PROVE  shard'[x] = TileRow(w.lo, w.hi, size, x - n)
          <5> HIDE DEF w
          <5> QED BY <1>5, <4>1
        <4> DEFINE y == n + m
        <4>2. y \in 0..(n+k-1) /\ y # w.idx /\ ~(y < n) /\ y - n = m
          BY <1>4, <1>7, <3>2
        <4> HIDE DEF y, w
        <4>3. shard'[y] = TileRow(w.lo, w.hi, size, m)
          BY <4>1, <4>2
        <4> QED BY <4>3 DEF y
      <3>4. TileRow(w.lo, w.hi, size, m).st # "skipped"
        BY DEF TileRow, NewRow
      <3> QED BY <3>1, <3>2, <3>3, <3>4
    <2> QED BY <2>2, <2>3
  <1>11. IInv => PagesCovered'
    BY <1>10 DEF PagesCovered
  <1>12. NewIsAbsent' /\ NoRowsWithoutDocument'
    BY <1>1, <1>5, <1>7 DEF Base, TypeOK, DocType, NewIsAbsent, NoRowsWithoutDocument
  <1>13. SplitsRange'
    <2>1. par'[p].pc = "subenqueue" /\ \A q \in Parsers : q # p => par'[q] = par[q]
      BY <1>1, <1>5 DEF Base, TypeOK, ParserType
    <2> QED BY <2>1 DEF Base, SplitsRange
  <1> QED BY <1>6, <1>9, <1>11, <1>12, <1>13 DEF Keeps, IInv, Base

\* HandleParse keeps it, step by step.
LEMMA ParseOK == ASSUME Base, NEW p \in Parsers, ParseStep(p) \/ ParseAbort(p) PROVE Keeps
  <1>1. par \in [Parsers -> ParserType] /\ par[p] \in ParserType /\ par[p].idx \in Nat
    BY DEF Base, TypeOK, ParserType
  <1>2. IdleParser.pc = "idle"
    BY DEF IdleParser
  <1>3. ASSUME NEW i \in Nat, ParseRead(p, i) PROVE Keeps
    <2> DEFINE w == [IdleParser EXCEPT !.pc = "claim", !.held = TRUE, !.idx = i, !.tot = doc.total]
    <2>1. w \in ParserType /\ w.pc = "claim"
      BY DEF IdleParser, ParserType, Base, TypeOK, DocType
    <2> HIDE DEF w
    <2>2. UNCHANGED par \/ par' = [par EXCEPT ![p] = w]
      BY <1>3 DEF ParseRead, w
    <2>3. IsJobBag(waiting)' /\ IsJobBag(stranded)' /\ faults' \in 0..MaxFaults
      BY <1>3, DeliverBag, AckedTypes, JobTypes DEF ParseRead, Base, TypeOK
    <2>4. TypeOK'
      BY <1>1, <1>3, <2>1, <2>2, <2>3 DEF ParseRead, Base, TypeOK
    <2>5. SameDocument
      BY <1>3 DEF ParseRead, Base, NoRowsWithoutDocument, SameDocument
    <2>6. CASE UNCHANGED par
      BY <1>3, <2>4, <2>5, <2>6, Untouched DEF ParseRead
    <2>7. CASE par' = [par EXCEPT ![p] = w]
      BY <1>3, <2>1, <2>4, <2>5, <2>7, ParserStep DEF ParseRead
    <2> QED BY <2>2, <2>6, <2>7
  <1>4. ASSUME par' = [par EXCEPT ![p] = IdleParser], UNCHANGED <<n, shard>>, TypeOK', SameDocument
        PROVE  Keeps
    BY <1>2, <1>4, ParserStep
  <1>5. CASE ParseSkip(p)
    <2>1. TypeOK'
      BY <1>1, <1>5, IdleTypes, AckedTypes, JobTypes DEF ParseSkip, ParseAck, ParseIdle, Base, TypeOK
    <2> QED BY <1>4, <1>5, <2>1 DEF ParseSkip, ParseAck, ParseIdle, Base, NoRowsWithoutDocument, SameDocument
  <1>6. CASE ParseVanished(p)
    <2>1. TypeOK'
      BY <1>1, <1>6, IdleTypes, StrandBag, JobTypes DEF ParseVanished, ParseIdle, Base, TypeOK
    <2> QED BY <1>4, <1>6, <2>1 DEF ParseVanished, ParseIdle, Base, NoRowsWithoutDocument, SameDocument
  <1>7. CASE ParseGone(p)
    <2>1. doc' \in DocType
      BY <1>7 DEF ParseGone, SetDocState, DocType, DocStates, Base, TypeOK
    <2>2. TypeOK'
      BY <1>1, <1>7, <2>1, IdleTypes, AckedTypes, JobTypes DEF ParseGone, ParseAck, ParseIdle, Base, TypeOK
    <2>3. SameDocument
      <3>1. doc.st = "none" => doc' = doc
        BY <1>7 DEF ParseGone, SetDocState
      <3>2. doc.st # "none" => doc'.st = "failed"
        BY <1>7 DEF ParseGone, SetDocState, DocType, Base, TypeOK
      <3>3. doc.st = "none" => chunks = {}
        BY DEF Base, NoRowsWithoutDocument
      <3> QED BY <1>7, <3>1, <3>2, <3>3 DEF ParseGone, SameDocument
    <2> QED BY <1>4, <1>7, <2>2, <2>3 DEF ParseGone, ParseAck, ParseIdle
  <1>8. CASE ParseEnqueueEmbed(p)
    <2>1. TypeOK'
      BY <1>1, <1>8, IdleTypes, EnqueueBag, AckedTypes, JobTypes
         DEF ParseEnqueueEmbed, ParseAck, ParseIdle, Base, TypeOK
    <2> QED BY <1>4, <1>8, <2>1 DEF ParseEnqueueEmbed, ParseAck, ParseIdle, Base, NoRowsWithoutDocument, SameDocument
  <1>9. CASE ParseAbort(p)
    <2>1. TypeOK'
      BY <1>1, <1>9, IdleTypes, StrandBag, FaultBound, JobTypes DEF ParseAbort, ParseIdle, Base, TypeOK
    <2> QED BY <1>4, <1>9, <2>1 DEF ParseAbort, ParseIdle, Base, NoRowsWithoutDocument, SameDocument
  <1>10. CASE ParseSubEnqueue(p)
    <2> DEFINE w == [par[p] EXCEPT !.next = @ + 1]
    <2>1. w \in ParserType /\ w.pc = "subenqueue" /\ par[p].next \in Nat
      BY <1>1, <1>10 DEF ParserType, ParseSubEnqueue
    <2> HIDE DEF w
    <2>2. par' = [par EXCEPT ![p] = IdleParser] \/ par' = [par EXCEPT ![p] = w]
      BY <1>10 DEF ParseSubEnqueue, ParseAck, ParseIdle, w
    <2>3. IsJobBag(waiting)' /\ IsJobBag(stranded)' /\ faults' \in 0..MaxFaults
      BY <1>1, <1>10, <2>1, EnqueueBag, AckedTypes, JobTypes DEF ParseSubEnqueue, ParseAck, Base, TypeOK
    <2>4. TypeOK'
      BY <1>1, <1>10, <2>1, <2>2, <2>3, IdleTypes DEF ParseSubEnqueue, Base, TypeOK
    <2>5. SameDocument
      BY <1>10 DEF ParseSubEnqueue, Base, NoRowsWithoutDocument, SameDocument
    <2>6. CASE par' = [par EXCEPT ![p] = w]
      BY <1>10, <2>1, <2>4, <2>5, <2>6, ParserStep DEF ParseSubEnqueue
    <2> QED BY <1>4, <1>10, <2>2, <2>4, <2>5, <2>6 DEF ParseSubEnqueue
  <1>11. CASE ParseFetch(p)
    <2> DEFINE w == [par[p] EXCEPT !.pc = "work"]
    <2>1. w \in ParserType /\ w.pc = "work"
      BY <1>1 DEF ParserType
    <2>2. w.idx \in Nat /\ (IInv => HoldsRow(w))
      <3>1. w.idx = par[p].idx /\ w.lo = par[p].lo /\ w.hi = par[p].hi
        BY <1>1 DEF ParserType
      <3> QED BY <1>1, <1>11, <3>1 DEF ParseFetch, IInv, ParserRows, HoldsRow
    <2>3. par' = [par EXCEPT ![p] = w]
      BY <1>11 DEF ParseFetch
    <2> HIDE DEF w
    <2>4. TypeOK'
      BY <1>1, <1>11, <2>1, <2>3 DEF ParseFetch, Base, TypeOK
    <2>5. SameDocument
      BY <1>11 DEF ParseFetch, Base, NoRowsWithoutDocument, SameDocument
    <2> QED BY <1>11, <2>1, <2>2, <2>3, <2>4, <2>5, ParserStep DEF ParseFetch
  <1>12. CASE ParseFinish(p)
    <2> DEFINE w == [par[p] EXCEPT !.pc = "embed"]
    <2>1. w \in ParserType /\ w.pc = "embed"
      BY <1>1 DEF ParserType
    <2> HIDE DEF w
    <2>2. par' = [par EXCEPT ![p] = IdleParser] \/ par' = [par EXCEPT ![p] = w]
      BY <1>12 DEF ParseFinish, ParseAck, ParseIdle, w
    <2>3. doc' \in DocType
      BY <1>12 DEF ParseFinish, ShardsDone, DocType, Base, TypeOK
    <2>4. shard' \in [0..(n-1) -> RowType]
      <3>1. par[p].idx < n => [shard[par[p].idx] EXCEPT !.st = "done", !.lease = FALSE] \in RowType
        <4>1. par[p].idx < n => shard[par[p].idx] \in RowType
          BY <1>1 DEF Base, TypeOK
        <4> QED BY <4>1 DEF RowType, ShardStates
      <3> QED BY <1>1, <1>12, <3>1 DEF ParseFinish, Base, TypeOK
    <2>5. IsJobBag(stranded)' /\ faults' \in 0..MaxFaults
      BY <1>1, <1>12, AckedTypes, JobTypes DEF ParseFinish, ParseAck, Base, TypeOK
    <2>6. TypeOK'
      BY <1>1, <1>12, <2>1, <2>2, <2>3, <2>4, <2>5, IdleTypes DEF ParseFinish, Base, TypeOK
    <2>7. \A i \in 0..(n-1) : /\ shard'[i].lo = shard[i].lo /\ shard'[i].hi = shard[i].hi
                              /\ shard'[i].st = "skipped" => shard[i].st = "skipped"
      BY <1>1, <1>12 DEF ParseFinish, Base, TypeOK, RowType
    <2>8. n' = n
      BY <1>12 DEF ParseFinish
    <2>9. SameDocument
      BY <1>12 DEF ParseFinish, Base, TypeOK, DocType, NoRowsWithoutDocument, SameDocument
    <2> QED BY <1>2, <2>1, <2>2, <2>6, <2>7, <2>8, <2>9, ParserStep
  <1>13. ASSUME NEW j \in DOMAIN waiting, ParseRead(p, j[2]) PROVE Keeps
    <2>1. j[2] \in Nat
      BY DEF Base, TypeOK, IsJobBag, Jobs
    <2> QED BY <1>3, <1>13, <2>1
  <1> QED BY <1>5, <1>6, <1>7, <1>8, <1>9, <1>10, <1>11, <1>12, <1>13, ClaimOK, ResplitOK
          DEF ParseStep
-----------------------------------------------------------------------------
\* Every step of the system keeps the part an operator cannot disturb, and with
\* it the inductive invariant.
LEMMA BaseStep == ASSUME Base, [Next]_vars PROVE Keeps
  <1>1. CASE Next
    BY <1>1, ApiOK, SplitOK, ParseOK, EmbedOK, JanOK, EnvOK DEF Next
  <1>2. CASE UNCHANGED vars
    <2>1. UNCHANGED vars
      BY <1>2
    <2> QED BY <2>1 DEF vars, Keeps, Base, IInv, TypeOK, NewIsAbsent, NoRowsWithoutDocument, SplitsRange,
                    ParserRows, HoldsRow, PagesCovered
  <1> QED BY <1>1, <1>2

\* That part is indeed part of the inductive invariant.
LEMMA BaseOfIInv == IInv => Base
  BY DEF IInv, Base, ParserRows, SplitsRange

\* Every step of the system keeps the inductive invariant.
LEMMA Inductive == IInv /\ [Next]_vars => IInv'
  BY BaseStep, BaseOfIInv DEF Keeps

\* The inductive invariant holds in every reachable state.
LEMMA Invariant == Spec => []IInv
  BY InitOK, Inductive, PTL DEF Spec

\* Every variable keeps its shape, whatever fails: in particular every entry on
\* the stream is a job, and no row is lost from the middle of the numbering.
THEOREM TypeCorrect == Spec => []TypeOK
  <1>1. IInv => TypeOK
    BY DEF IInv
  <1> QED BY Invariant, <1>1, PTL

\* The split, the claims and the re-splits of any number of parsers never drop
\* a page, also when workers outlive their leases or Redis loses its data.
THEOREM NoPageDropped == Spec => []PagesCovered
  <1>1. IInv => PagesCovered
    BY DEF IInv
  <1> QED BY Invariant, <1>1, PTL

\* A handler that is overtaken by the deletion of its document leaves no row of
\* it behind, neither shard nor chunk, whatever it had read before.
THEOREM DeletedLeavesNothing == Spec => []NoRowsWithoutDocument
  <1>1. IInv => NoRowsWithoutDocument
    BY DEF IInv
  <1> QED BY Invariant, <1>1, PTL
-----------------------------------------------------------------------------
(***************************************************************************)
(* The counters.  What they say about the shard rows: MarkShardDone,       *)
(* EscalateStuckShards and resplitShard each write rows and a counter in   *)
(* one transaction, but from what each of them saw of the others, and an   *)
(* operator may retry the document at any moment in between.               *)
(***************************************************************************)

\* A step that changes neither a row nor a counter, and neither creates nor
\* deletes the document.
RowsAlone ==
  /\ UNCHANGED <<n, shard>>
  /\ doc'.total = doc.total /\ doc'.done = doc.done /\ doc'.failed = doc.failed
  /\ doc'.st = "none" <=> doc.st = "none"
  /\ api' = "new" <=> api = "new"

\* The steps that change rows or counters.
RowStep ==
  \/ ApiInsert \/ DeleteDocument \/ JanReap \/ JanEscalate
  \/ \E s \in Splitters : SplitCommit(s)
  \/ \E p \in Parsers : ParseClaim(p) \/ ParseResplit(p) \/ ParseFinish(p)
  \/ \E i \in 0..(n-1) : LeaseExpire(i)
-----------------------------------------------------------------------------
\* No other statement of a handler, of the janitor or of the environment writes
\* a shard row or a counter.
LEMMA RowWriters == ASSUME Base, [Next]_vars PROVE RowsAlone \/ RowStep
  <1>0. doc \in DocType
    BY DEF Base, TypeOK
  <1> USE DEF RowsAlone, SetDocState
  <1>1. CASE UNCHANGED vars
    BY <1>1 DEF vars
  <1>2. CASE ApiInsert \/ ApiEnqueue \/ ApiDies
    BY <1>2 DEF RowStep, ApiEnqueue, ApiDies
  <1>3. ASSUME NEW s \in Splitters, SplitStep(s) \/ SplitAbort(s) PROVE RowsAlone \/ RowStep
    BY <1>0, <1>3 DEF SplitStep, RowStep, SplitRead, SplitAlready, SplitProbe, SplitFetch, SplitGone,
                      SplitConflict, SplitEnqueue, SplitAbort, DocType
  <1>4. ASSUME NEW p \in Parsers, ParseStep(p) \/ ParseAbort(p) PROVE RowsAlone \/ RowStep
    BY <1>0, <1>4 DEF ParseStep, RowStep, ParseRead, ParseSkip, ParseVanished, ParseSubEnqueue, ParseFetch,
                      ParseGone, ParseEnqueueEmbed, ParseAbort, DocType
  <1>5. ASSUME NEW e \in Embedders, EmbedStep(e) \/ EmbedBackendFails(e) \/ EmbedAbort(e)
        PROVE  RowsAlone \/ RowStep
    BY <1>0, <1>5 DEF EmbedStep, EmbedRead, EmbedLoad, EmbedEmpty, EmbedWrite, EmbedVanished,
                      EmbedBackendFails, EmbedAbort, DocType
  <1>6. CASE JanStep \/ JanAbort \/ \E j \in DOMAIN stranded : JanReclaimDies(j)
    BY <1>6 DEF JanStep, RowStep, JanDocs, JanRequeue, JanReclaimed, JanEmbedSweep, JanShardRead,
                JanShardGrace, JanShardSweep, JanReclaim, JanReclaimDies, JanAbort
  <1>7. CASE \/ \E i \in 0..(n-1) : LeaseExpire(i)
             \/ ReclaimLive \/ DeleteDocument \/ RawVanish \/ RetriesExpire \/ RedisWipe
    BY <1>7 DEF RowStep, ReclaimLive, RawVanish, RetriesExpire, RedisWipe
  <1> QED BY <1>1, <1>2, <1>3, <1>4, <1>5, <1>6, <1>7 DEF Next

\* What a re-split writes: the parent is skipped, the other rows stay, and the
\* tiles are new rows beyond them, at least one.
LEMMA ResplitRows ==
  ASSUME Base, NEW p \in Parsers, ParseResplit(p)
  PROVE  /\ n' \in Nat /\ n' > n /\ par[p].idx \in 0..(n-1)
         /\ shard' = [i \in 0..(n'-1) |-> shard'[i]]
         /\ shard'[par[p].idx] = [shard[par[p].idx] EXCEPT !.st = "skipped"]
         /\ \A i \in 0..(n-1) : i # par[p].idx => shard'[i] = shard[i]
         /\ \A i \in n..(n'-1) : shard'[i].st = "pending" /\ shard'[i].att = 0
         /\ DoneRows' \subseteq DoneRows /\ FailedRows' \subseteq FailedRows
         /\ par' = [par EXCEPT ![p] = [par[p] EXCEPT !.pc = "subenqueue", !.next = n, !.last = n' - 1]]
  <1> DEFINE w    == par[p]
             size == ResplitSize(w.att, w.hi - w.lo + 1)
             k    == Tiles(w.hi - w.lo + 1, size)
  <1>1. /\ w \in ParserType /\ w.idx \in 0..(n-1) /\ w.lo < w.hi
        /\ n \in Nat /\ shard \in [0..(n-1) -> RowType]
    BY DEF Base, TypeOK, NoRowsWithoutDocument, SplitsRange, ParserType, ParseResplit
  <1>2. w.lo \in Nat /\ w.hi \in Nat /\ w.hi - w.lo + 1 \in Nat \ {0}
    BY <1>1 DEF ParserType
  <1>3. size \in Nat \ {0}
    BY <1>2 DEF ResplitSize, AtLeast1
  <1>4. k \in Nat \ {0}
    <2> HIDE DEF size
    <2>1. w.hi - w.lo + 1 + size - 1 >= size /\ w.hi - w.lo + 1 + size - 1 \in Nat
      BY <1>2, <1>3
    <2>2. ASSUME NEW a \in Nat, NEW b \in Nat \ {0}, a >= b PROVE a \div b \in Nat \ {0}
      BY <2>2
    <2> QED BY <1>2, <1>3, <2>1, <2>2 DEF Tiles
  <1> HIDE DEF size, k
  <1>5. /\ n' = n + k
        /\ shard' = [i \in 0..(n+k-1) |->
                       IF i = w.idx THEN [shard[i] EXCEPT !.st = "skipped"]
                       ELSE IF i < n THEN shard[i] ELSE TileRow(w.lo, w.hi, size, i - n)]
        /\ par' = [par EXCEPT ![p] = [w EXCEPT !.pc = "subenqueue", !.next = n, !.last = n + k - 1]]
    BY DEF ParseResplit, size, k, Base, TypeOK
  <1> HIDE DEF w
  <1>6. n' \in Nat /\ n' > n /\ n' - 1 = n + k - 1
    BY <1>1, <1>4, <1>5
  <1>7. \A x : TileRow(w.lo, w.hi, size, x).st = "pending" /\ TileRow(w.lo, w.hi, size, x).att = 0
    BY DEF TileRow, NewRow
  <1>8. /\ shard'[w.idx] = [shard[w.idx] EXCEPT !.st = "skipped"]
        /\ \A i \in 0..(n-1) : i # w.idx => shard'[i] = shard[i]
        /\ shard' = [i \in 0..(n'-1) |-> shard'[i]]
    BY <1>1, <1>4, <1>5, <1>6
  <1>9. ASSUME NEW i \in n..(n'-1) PROVE shard'[i].st = "pending" /\ shard'[i].att = 0
    <2>1. i \in 0..(n+k-1) /\ i # w.idx /\ ~(i < n)
      <3>1. i \in n..(n+k-1) /\ w.idx \in 0..(n-1) /\ n \in Nat /\ k \in Nat
        BY <1>1, <1>4, <1>6
      <3> QED BY <3>1
    <2>2. shard'[i] = TileRow(w.lo, w.hi, size, i - n)
      BY <1>5, <2>1
    <2> QED BY <1>7, <2>2
  <1>10. \A i \in 0..(n'-1) : i \in 0..(n-1) \/ i \in n..(n'-1)
    <2>1. ASSUME NEW m \in Nat PROVE \A i \in 0..(m-1) : i \in 0..(n-1) \/ i \in n..(m-1)
      BY <1>1
    <2> QED BY <1>6, <2>1
  <1>11. shard'[w.idx].st = "skipped"
    BY <1>1, <1>8 DEF RowType
  <1>12. DoneRows' \subseteq DoneRows /\ FailedRows' \subseteq FailedRows
    BY <1>1, <1>8, <1>9, <1>10, <1>11 DEF DoneRows, FailedRows
  <1> QED BY <1>1, <1>5, <1>6, <1>8, <1>9, <1>12 DEF w

\* The rows of a state are finitely many, and so are the rows in any state.
LEMMA RowsFinite ==
  ASSUME n \in Nat
  PROVE  /\ IsFiniteSet(0..(n-1)) /\ Cardinality(0..(n-1)) = n
         /\ \A S \in SUBSET (0..(n-1)) : IsFiniteSet(S) /\ Cardinality(S) \in Nat
  <1>1. IsFiniteSet(0..(n-1)) /\ Cardinality(0..(n-1)) = n
    BY FS_Interval
  <1> QED BY <1>1, FS_Subset, FS_CardinalityType

\* A subset has no more elements than a finite set.
LEMMA FewerRows ==
  ASSUME NEW S, IsFiniteSet(S), NEW T \in SUBSET S
  PROVE  Cardinality(T) \in Nat /\ Cardinality(S) \in Nat /\ Cardinality(T) <= Cardinality(S)
  BY FS_Subset, FS_CardinalityType
-----------------------------------------------------------------------------
\* The counters never undercount, and stay so: every row that becomes done or
\* failed is counted in the same transaction, and no counter is ever unwound.
LEMMA CountInit == Init => CountersNeverUndercount
  <1>1. 0..(0-1) = {}
    OBVIOUS
  <1> QED BY <1>1, FS_EmptySet DEF Init, CountersNeverUndercount, DoneRows, FailedRows, NoDoc

\* Fewer done and failed rows with the same counters.
LEMMA CountShrinks ==
  ASSUME Base, CountersNeverUndercount,
         DoneRows' \subseteq DoneRows, FailedRows' \subseteq FailedRows,
         doc'.done \in Nat, doc'.failed \in Nat, doc'.done >= doc.done, doc'.failed >= doc.failed
  PROVE  CountersNeverUndercount'
  <1>1. DoneRows \in SUBSET (0..(n-1)) /\ FailedRows \in SUBSET (0..(n-1))
    BY DEF DoneRows, FailedRows
  <1>2. IsFiniteSet(DoneRows) /\ IsFiniteSet(FailedRows)
    BY <1>1, RowsFinite DEF Base, TypeOK
  <1>3. /\ Cardinality(DoneRows') <= Cardinality(DoneRows)
        /\ Cardinality(FailedRows') <= Cardinality(FailedRows)
        /\ Cardinality(DoneRows') \in Nat /\ Cardinality(DoneRows) \in Nat
        /\ Cardinality(FailedRows') \in Nat /\ Cardinality(FailedRows) \in Nat
    BY <1>2, FewerRows
  <1>4. doc \in DocType /\ doc.done \in Nat /\ doc.failed \in Nat
    BY DEF Base, TypeOK, DocType
  <1>5. doc.done >= Cardinality(DoneRows) /\ doc.failed >= Cardinality(FailedRows)
    BY DEF CountersNeverUndercount
  <1>6. doc'.done >= Cardinality(DoneRows') /\ doc'.failed >= Cardinality(FailedRows')
    BY <1>3, <1>4, <1>5
  <1> QED BY <1>6 DEF CountersNeverUndercount

\* Without rows nothing is counted.
LEMMA NothingToCount ==
  ASSUME n' = 0 \/ (n' \in Nat /\ \A i \in 0..(n'-1) : shard'[i].st \notin {"done", "failed"})
  PROVE  DoneRows' = {} /\ FailedRows' = {}
  BY DEF DoneRows, FailedRows

\* EscalateStuckShards: the rows it fails were pending, so none was counted before.
LEMMA CountEscalate == ASSUME Base, CountersNeverUndercount, JanEscalate PROVE CountersNeverUndercount'
  <1>1. /\ n \in Nat /\ shard \in [0..(n-1) -> RowType] /\ doc \in DocType
        /\ doc.done \in Nat /\ doc.failed \in Nat
    BY DEF Base, TypeOK, DocType
  <1>2. \A S \in SUBSET (0..(n-1)) : IsFiniteSet(S) /\ Cardinality(S) \in Nat
    BY <1>1, RowsFinite
  <1>3. DoneRows' \subseteq DoneRows /\ FailedRows' \subseteq FailedRows \cup StuckRows
    BY <1>1 DEF JanEscalate, DoneRows, FailedRows, StuckRows, RowType
  <1>4. FailedRows \cap StuckRows = {}
    BY DEF FailedRows, StuckRows
  <1>5. doc'.done = doc.done /\ doc'.failed = doc.failed + Cardinality(StuckRows)
    BY <1>1 DEF JanEscalate, DocType
  <1>6. /\ DoneRows \in SUBSET (0..(n-1)) /\ FailedRows \in SUBSET (0..(n-1))
        /\ StuckRows \in SUBSET (0..(n-1)) /\ FailedRows \cup StuckRows \in SUBSET (0..(n-1))
    BY DEF DoneRows, FailedRows, StuckRows
  <1>7. IsFiniteSet(DoneRows) /\ IsFiniteSet(FailedRows) /\ IsFiniteSet(StuckRows)
    BY <1>2, <1>6
  <1>8. Cardinality(FailedRows \cup StuckRows) = Cardinality(FailedRows) + Cardinality(StuckRows) - 0
    BY <1>4, <1>7, FS_Union, FS_EmptySet
  <1>9. /\ Cardinality(DoneRows') <= Cardinality(DoneRows) /\ Cardinality(DoneRows') \in Nat
        /\ Cardinality(FailedRows') <= Cardinality(FailedRows \cup StuckRows)
        /\ Cardinality(FailedRows') \in Nat
    BY <1>2, <1>3, <1>6, <1>7, FewerRows
  <1>10. /\ Cardinality(DoneRows) \in Nat /\ Cardinality(FailedRows) \in Nat
         /\ Cardinality(StuckRows) \in Nat
    BY <1>2, <1>6
  <1>11. doc.done >= Cardinality(DoneRows) /\ doc.failed >= Cardinality(FailedRows)
    BY DEF CountersNeverUndercount
  <1>12. doc'.done >= Cardinality(DoneRows') /\ doc'.failed >= Cardinality(FailedRows')
    BY <1>1, <1>5, <1>8, <1>9, <1>10, <1>11
  <1> QED BY <1>12 DEF CountersNeverUndercount

\* MarkShardDone: at most one more row is done, and the counter has grown by one,
\* unless the document and its rows are gone.
LEMMA CountFinish == ASSUME Base, CountersNeverUndercount, NEW p \in Parsers, ParseFinish(p)
                     PROVE  CountersNeverUndercount'
  <1> DEFINE i == par[p].idx
  <1>1. /\ n \in Nat /\ shard \in [0..(n-1) -> RowType] /\ doc \in DocType
        /\ doc.done \in Nat /\ doc.failed \in Nat /\ i \in Nat
    BY DEF Base, TypeOK, DocType, ParserType
  <1>2. CASE doc.st = "none"
    <2>1. n' = 0 /\ doc' = doc
      BY <1>2 DEF ParseFinish, Base, NoRowsWithoutDocument
    <2>2. DoneRows' = {} /\ FailedRows' = {}
      BY <2>1, NothingToCount
    <2> QED BY <1>1, <2>1, <2>2, CountShrinks
  <1>3. CASE doc.st # "none"
    <2>1. doc'.done = doc.done + 1 /\ doc'.failed = doc.failed /\ n' = n
      BY <1>1, <1>3 DEF ParseFinish, ShardsDone, DocType
    <2>2. DoneRows' \subseteq DoneRows \cup {i} /\ FailedRows' \subseteq FailedRows
      <3>1. shard' = shard \/ (i < n /\ shard' = [shard EXCEPT ![i] = [shard[i] EXCEPT !.st = "done", !.lease = FALSE]])
        BY DEF ParseFinish
      <3>2. \A j \in 0..(n-1) : shard'[j].st = shard[j].st \/ (j = i /\ shard'[j].st = "done")
        BY <1>1, <3>1 DEF RowType
      <3> HIDE DEF i
      <3> QED BY <2>1, <3>2 DEF DoneRows, FailedRows
    <2>3. DoneRows \in SUBSET (0..(n-1)) /\ FailedRows \in SUBSET (0..(n-1))
      BY DEF DoneRows, FailedRows
    <2>4. /\ IsFiniteSet(DoneRows) /\ IsFiniteSet(FailedRows)
          /\ Cardinality(DoneRows) \in Nat /\ Cardinality(FailedRows) \in Nat
      BY <1>1, <2>3, RowsFinite
    <2>5. /\ IsFiniteSet(DoneRows \cup {i})
          /\ Cardinality(DoneRows \cup {i}) <= Cardinality(DoneRows) + 1
      BY <2>4, FS_AddElement
    <2>6. /\ Cardinality(DoneRows') <= Cardinality(DoneRows \cup {i}) /\ Cardinality(DoneRows') \in Nat
          /\ Cardinality(DoneRows \cup {i}) \in Nat
          /\ Cardinality(FailedRows') <= Cardinality(FailedRows) /\ Cardinality(FailedRows') \in Nat
      BY <2>2, <2>4, <2>5, FewerRows
    <2>7. doc.done >= Cardinality(DoneRows) /\ doc.failed >= Cardinality(FailedRows)
      BY DEF CountersNeverUndercount
    <2> HIDE DEF i
    <2>8. doc'.done >= Cardinality(DoneRows') /\ doc'.failed >= Cardinality(FailedRows')
      BY <1>1, <2>1, <2>4, <2>5, <2>6, <2>7
    <2> QED BY <2>8 DEF CountersNeverUndercount
  <1> QED BY <1>2, <1>3

\* Every step keeps the counters above the rows.
LEMMA CountStep == ASSUME Base, CountersNeverUndercount, [Next]_vars PROVE CountersNeverUndercount'
  <1>1. /\ n \in Nat /\ shard \in [0..(n-1) -> RowType] /\ doc \in DocType
        /\ doc.done \in Nat /\ doc.failed \in Nat
    BY DEF Base, TypeOK, DocType
  <1>2. CASE RowsAlone
    BY <1>1, <1>2, CountShrinks DEF RowsAlone, DoneRows, FailedRows
  <1>3. CASE ApiInsert
    <2>1. n' = 0 /\ doc'.done = 0 /\ doc'.failed = 0
      BY <1>3 DEF ApiInsert, NoDoc, Base, NewIsAbsent, NoRowsWithoutDocument
    <2>2. DoneRows' = {} /\ FailedRows' = {}
      BY <2>1, NothingToCount
    <2>3. CountersNeverUndercount'
      BY <2>1, <2>2, FS_EmptySet DEF CountersNeverUndercount
    <2> QED BY <2>3
  <1>4. CASE DeleteDocument
    <2>1. n' = 0 /\ doc'.done = 0 /\ doc'.failed = 0
      BY <1>4 DEF DeleteDocument, NoDoc
    <2>2. DoneRows' = {} /\ FailedRows' = {}
      BY <2>1, NothingToCount
    <2> QED BY <2>1, <2>2, FS_EmptySet DEF CountersNeverUndercount
  <1>5. CASE JanReap
    <2>1. \A i \in 0..(n-1) : shard'[i].st = shard[i].st \/ shard'[i].st = "pending"
      BY <1>1, <1>5 DEF JanReap, RowType
    <2>2. UNCHANGED <<n, doc>>
      BY <1>5 DEF JanReap
    <2>3. DoneRows' \subseteq DoneRows /\ FailedRows' \subseteq FailedRows
      BY <2>1, <2>2 DEF DoneRows, FailedRows
    <2> QED BY <1>1, <2>2, <2>3, CountShrinks
  <1>6. ASSUME NEW s \in Splitters, SplitCommit(s) PROVE CountersNeverUndercount'
    <2>1. n' \in Nat /\ \A i \in 0..(n'-1) : shard'[i].st = "pending"
      BY <1>6, PlanAssumption DEF SplitCommit, NewRow
    <2>2. DoneRows' = {} /\ FailedRows' = {}
      BY <2>1, NothingToCount
    <2>3. doc'.done = doc.done /\ doc'.failed = doc.failed
      BY <1>1, <1>6 DEF SplitCommit, DocType
    <2> QED BY <1>1, <2>2, <2>3, CountShrinks
  <1>7. ASSUME NEW p \in Parsers, ParseClaim(p) PROVE CountersNeverUndercount'
    <2>1. UNCHANGED <<n, doc>> /\ par[p].idx \in 0..(n-1)
      BY <1>7 DEF ParseClaim, Claimable
    <2>2. \A i \in 0..(n-1) : shard'[i].st = shard[i].st \/ shard'[i].st = "running"
      BY <1>1, <1>7 DEF ParseClaim, Claimable, RowType
    <2>3. DoneRows' \subseteq DoneRows /\ FailedRows' \subseteq FailedRows
      BY <2>1, <2>2 DEF DoneRows, FailedRows
    <2> QED BY <1>1, <2>1, <2>3, CountShrinks
  <1>8. ASSUME NEW p \in Parsers, ParseResplit(p) PROVE CountersNeverUndercount'
    <2>1. DoneRows' \subseteq DoneRows /\ FailedRows' \subseteq FailedRows
      BY <1>8, ResplitRows
    <2>2. doc'.done = doc.done /\ doc'.failed = doc.failed
      BY <1>1, <1>8 DEF ParseResplit, DocType
    <2> QED BY <1>1, <2>1, <2>2, CountShrinks
  <1>9. ASSUME NEW i \in 0..(n-1), LeaseExpire(i) PROVE CountersNeverUndercount'
    BY <1>1, <1>9, CountShrinks DEF LeaseExpire, DoneRows, FailedRows, RowType
  <1> QED BY <1>2, <1>3, <1>4, <1>5, <1>6, <1>7, <1>8, <1>9, CountEscalate, CountFinish, RowWriters DEF RowStep

\* The settle counters of a document never fall behind its shard rows, whatever
\* handlers, sweeps and faults interleave: a completion may be counted twice
\* when a worker outlives its lease, but none is ever lost.
THEOREM CountersKeepUp == Spec => []CountersNeverUndercount
  <1>1. Spec => [](IInv /\ CountersNeverUndercount)
    BY CountInit, InitOK, CountStep, BaseOfIInv, Inductive, PTL DEF Spec
  <1> QED BY <1>1, PTL
-----------------------------------------------------------------------------
\* Until a shard is re-split the document counts the rows of its plan and none
\* of them is replaced; before the split there is neither row nor count.
PlanKept ==
  doc.st # "none" =>
    \/ n = 0 /\ doc.total = 0
    \/ n = PlanLen /\ doc.total = PlanLen /\ \A i \in 0..(n-1) : shard[i].st # "skipped"
    \/ n > PlanLen

\* Steps that keep the document, its rows and its total, and replace no row.
LEMMA PlanUntouched ==
  ASSUME PlanKept, n' = n, doc'.total = doc.total, doc'.st = "none" <=> doc.st = "none",
         \A i \in 0..(n-1) : shard'[i].st = "skipped" => shard[i].st = "skipped"
  PROVE  PlanKept'
  BY DEF PlanKept

\* Only commitSplit and resplitShard write rows and total, and a re-split adds rows.
LEMMA PlanStep == ASSUME IInv, PlanKept, [Next]_vars PROVE PlanKept'
  <1>1. /\ n \in Nat /\ shard \in [0..(n-1) -> RowType] /\ doc \in DocType
        /\ PlanLen \in Nat \ {0}
    BY PlanAssumption DEF IInv, TypeOK
  <1>2. CASE RowsAlone
    BY <1>2, PlanUntouched DEF RowsAlone
  <1>3. CASE ApiInsert
    BY <1>3 DEF ApiInsert, NoDoc, IInv, NewIsAbsent, NoRowsWithoutDocument, PlanKept
  <1>4. CASE DeleteDocument
    BY <1>4 DEF DeleteDocument, NoDoc, PlanKept
  <1>5. CASE JanReap
    BY <1>1, <1>5, PlanUntouched DEF JanReap, RowType
  <1>6. CASE JanEscalate
    BY <1>1, <1>6, PlanUntouched DEF JanEscalate, RowType, DocType
  <1>7. ASSUME NEW s \in Splitters, SplitCommit(s) PROVE PlanKept'
    <2>1. n' = PlanLen /\ doc'.total = PlanLen
      BY <1>1, <1>7 DEF SplitCommit, DocType
    <2>2. \A i \in 0..(n'-1) : shard'[i].st = "pending"
      BY <1>7 DEF SplitCommit, NewRow
    <2> QED BY <2>1, <2>2 DEF PlanKept
  <1>8. ASSUME NEW p \in Parsers, ParseClaim(p) PROVE PlanKept'
    BY <1>1, <1>8, PlanUntouched DEF ParseClaim, Claimable, RowType
  <1>9. ASSUME NEW p \in Parsers, ParseResplit(p) PROVE PlanKept'
    <2>1. n' \in Nat /\ n' > n /\ n > 0
      <3>1. n' \in Nat /\ n' > n /\ par[p].idx \in 0..(n-1)
        BY <1>9, BaseOfIInv, ResplitRows
      <3> QED BY <1>1, <3>1
    <2>2. doc.st # "none"
      BY <1>1, <2>1 DEF IInv, NoRowsWithoutDocument
    <2>3. n >= PlanLen
      BY <1>1, <2>1, <2>2 DEF PlanKept
    <2>4. n' > PlanLen
      BY <1>1, <2>1, <2>3
    <2> QED BY <2>4 DEF PlanKept
  <1>10. ASSUME NEW p \in Parsers, ParseFinish(p) PROVE PlanKept'
    <2>1. n' = n /\ doc'.total = doc.total /\ doc'.st = doc.st
      BY <1>1, <1>10 DEF ParseFinish, DocType
    <2>2. \A i \in 0..(n-1) : shard'[i].st = "skipped" => shard[i].st = "skipped"
      BY <1>1, <1>10 DEF ParseFinish, RowType
    <2> QED BY <2>1, <2>2, PlanUntouched
  <1>11. ASSUME NEW i \in 0..(n-1), LeaseExpire(i) PROVE PlanKept'
    BY <1>1, <1>11, PlanUntouched DEF LeaseExpire, RowType
  <1> QED BY <1>2, <1>3, <1>4, <1>5, <1>6, <1>7, <1>8, <1>9, <1>10, <1>11, RowWriters, BaseOfIInv DEF RowStep

\* The plan and the counters of every reachable state.
LEMMA CountInvariant == Spec => [](IInv /\ CountersNeverUndercount /\ PlanKept)
  <1>1. Init => PlanKept
    BY DEF Init, PlanKept, NoDoc
  <1> QED BY <1>1, CountInit, InitOK, CountStep, BaseOfIInv, PlanStep, Inductive, PTL DEF Spec

\* While no shard was re-split, a book with nothing left to parse is settled,
\* whatever failed on the way: the embed job that follows the last row is due.
\* (A re-split breaks this: the total counts the parent, no counter does.)
THEOREM SettledUnlessResplit == Spec => [](n = PlanLen => SettledWhenParsed)
  <1>1. ASSUME IInv, CountersNeverUndercount, PlanKept, n = PlanLen, AllRowsSettled
        PROVE  BookSettled(doc)
    <2>1. /\ n \in Nat \ {0} /\ doc.done \in Nat /\ doc.failed \in Nat /\ PlanLen \in Nat
      BY <1>1, PlanAssumption DEF IInv, TypeOK, DocType
    <2>2. doc.st # "none"
      BY <1>1, <2>1 DEF IInv, NoRowsWithoutDocument
    <2>3. doc.total = n /\ \A i \in 0..(n-1) : shard[i].st # "skipped"
      BY <1>1, <2>1, <2>2 DEF PlanKept
    <2>4. DoneRows \cup FailedRows = 0..(n-1) /\ DoneRows \cap FailedRows = {}
      BY <1>1, <2>3 DEF AllRowsSettled, DoneRows, FailedRows
    <2>5. /\ IsFiniteSet(DoneRows) /\ IsFiniteSet(FailedRows)
          /\ Cardinality(DoneRows) \in Nat /\ Cardinality(FailedRows) \in Nat
          /\ Cardinality(0..(n-1)) = n
      <3>1. DoneRows \in SUBSET (0..(n-1)) /\ FailedRows \in SUBSET (0..(n-1))
        BY DEF DoneRows, FailedRows
      <3> QED BY <2>1, <3>1, RowsFinite
    <2>6. n = Cardinality(DoneRows) + Cardinality(FailedRows) - 0
      <3>1. /\ Cardinality(DoneRows \cup FailedRows)
               = Cardinality(DoneRows) + Cardinality(FailedRows) - Cardinality(DoneRows \cap FailedRows)
        BY <2>5, FS_Union
      <3>2. Cardinality(DoneRows \cap FailedRows) = 0
        BY <2>4, FS_EmptySet
      <3> QED BY <2>4, <2>5, <3>1, <3>2
    <2> QED BY <1>1, <2>1, <2>3, <2>5, <2>6 DEF CountersNeverUndercount, BookSettled
  <1>2. IInv /\ CountersNeverUndercount /\ PlanKept => (n = PlanLen => SettledWhenParsed)
    BY <1>1 DEF SettledWhenParsed
  <1> QED BY <1>2, CountInvariant, PTL
-----------------------------------------------------------------------------
\* The retries of an operator.

NoRepair == \A k \in DOMAIN ops : ops[k] # "repair"

OpType == [pc : {"idle", "addembed", "addsplit", "requeue", "addparse", "repair"},
           rows : SUBSET Nat, done : Nat, failed : Nat]

\* What holds while nobody ran the recount.  After a recount the counters may
\* fall behind the rows, so that RequeueFailedShards takes them below zero.
Undisturbed == Base /\ CountersNeverUndercount /\ op \in OpType /\ op.pc # "repair"

OInv == ops \in Seq(Ops) /\ (NoRepair => Undisturbed)

\* A request is remembered: what was never asked for was not asked for before.
LEMMA Remembered ==
  ASSUME ops \in Seq(Ops), NEW o, Request(o)
  PROVE  /\ ops' \in Seq(Ops)
         /\ NoRepair' => NoRepair /\ o # "repair"
  <1>1. o \in Ops /\ ops' = Append(ops, o)
    BY DEF Request
  <1>2. ops' \in Seq(Ops) /\ Len(ops') = Len(ops) + 1
    BY <1>1
  <1>3. \A k \in 1..Len(ops) : ops'[k] = ops[k]
    BY <1>1
  <1>4. ops'[Len(ops) + 1] = o /\ Len(ops) + 1 \in 1..Len(ops') /\ Len(ops) \in Nat
    BY <1>1, <1>2
  <1>5. DOMAIN ops = 1..Len(ops) /\ DOMAIN ops' = 1..Len(ops')
    BY <1>2
  <1>6. NoRepair' => NoRepair
    BY <1>2, <1>3, <1>4, <1>5 DEF NoRepair
  <1>7. NoRepair' => o # "repair"
    BY <1>4, <1>5 DEF NoRepair
  <1> QED BY <1>2, <1>6, <1>7

\* A request that leaves the rows, the counters and the parsers as they are.
LEMMA CountersLeft ==
  ASSUME Undisturbed, TypeOK', UNCHANGED <<n, shard, par>>, SameDocument,
         doc'.done = doc.done, doc'.failed = doc.failed
  PROVE  Base' /\ CountersNeverUndercount'
  <1>1. Base /\ Keeps
    BY Untouched DEF Undisturbed
  <1> QED BY <1>1 DEF Undisturbed, Keeps, CountersNeverUndercount, DoneRows, FailedRows

\* SetDocState keeps a document that is there, and its counters.
LEMMA StateSet ==
  ASSUME doc \in DocType, NEW st \in DocStates \ {"none"}, SetDocState(st)
  PROVE  /\ doc' \in DocType /\ doc'.done = doc.done /\ doc'.failed = doc.failed
         /\ doc'.st = "none" <=> doc.st = "none"
  BY DEF SetDocState, DocType

\* The rows a retry resets leave the failed rows and the counter by the same number.
LEMMA RequeueCounts ==
  ASSUME Undisturbed, OpRequeueFailed
  PROVE  /\ shard' \in [0..(n-1) -> RowType] /\ doc' \in DocType
         /\ doc'.st = "none" <=> doc.st = "none"
         /\ CountersNeverUndercount'
  <1>1. /\ n \in Nat /\ n' = n /\ shard \in [0..(n-1) -> RowType] /\ doc \in DocType
        /\ doc.done \in Nat /\ doc.failed \in Nat
    BY DEF Undisturbed, Base, TypeOK, DocType, OpRequeueFailed
  <1>2. /\ shard' \in [0..(n-1) -> RowType]
        /\ \A i \in 0..(n-1) : /\ shard'[i].st = "done" <=> shard[i].st = "done"
                               /\ shard'[i].st # "failed"
    <2>1. \A r \in RowType : /\ [r EXCEPT !.st = "pending"] \in RowType
                             /\ [r EXCEPT !.st = "pending"].st = "pending"
      BY DEF RowType, ShardStates
    <2>2. \A i \in 0..(n-1) : i \in FailedRows <=> shard[i].st = "failed"
      BY DEF FailedRows
    <2>3. shard' = [i \in 0..(n-1) |->
                      IF i \in FailedRows THEN [shard[i] EXCEPT !.st = "pending"] ELSE shard[i]]
      BY DEF OpRequeueFailed
    <2> QED BY <1>1, <2>1, <2>2, <2>3
  <1>3. DoneRows' = DoneRows /\ FailedRows' = {}
    BY <1>1, <1>2 DEF DoneRows, FailedRows
  <1>4. Cardinality(FailedRows) \in Nat /\ Cardinality(FailedRows') = 0
    <2>1. FailedRows \in SUBSET (0..(n-1))
      BY DEF FailedRows
    <2> QED BY <1>1, <1>3, <2>1, RowsFinite, FS_EmptySet
  <1>5. doc.failed >= Cardinality(FailedRows) /\ doc.done >= Cardinality(DoneRows)
    BY DEF Undisturbed, CountersNeverUndercount
  <1>6. \/ doc' = doc
        \/ /\ doc.st # "none"
           /\ doc' = [doc EXCEPT !.failed = doc.failed - Cardinality(FailedRows), !.st = "parsing"]
    BY DEF OpRequeueFailed
  <1>7. doc.failed - Cardinality(FailedRows) \in Nat
    BY <1>1, <1>4, <1>5
  <1>8. /\ doc' \in DocType /\ doc'.done = doc.done /\ doc'.failed \in Nat
        /\ doc'.st = "none" <=> doc.st = "none"
    BY <1>1, <1>6, <1>7 DEF DocType, DocStates
  <1> QED BY <1>1, <1>2, <1>3, <1>4, <1>5, <1>8 DEF CountersNeverUndercount

\* The first step of each request keeps the counters.
LEMMA RequestStep ==
  ASSUME OInv, OpEmbed \/ OpRechunk \/ OpFull \/ OpFailedShards \/ OpRecount
  PROVE  OInv'
  <1>1. PICK o : Request(o) /\ (OpRecount => o = "repair")
    BY DEF OpEmbed, OpRechunk, OpFull, OpFailedShards, OpRecount
  <1>2. ops' \in Seq(Ops) /\ (NoRepair' => NoRepair /\ o # "repair")
    BY <1>1, Remembered DEF OInv
  <1> SUFFICES ASSUME NoRepair' PROVE Undisturbed'
    BY <1>2 DEF OInv
  <1>3. /\ Undisturbed /\ doc.st # "none" /\ TypeOK /\ doc \in DocType
        /\ op \in OpType /\ op.pc # "repair" /\ ~OpRecount
    BY <1>1, <1>2 DEF OInv, Undisturbed, Base, TypeOK, Request
  <1>4. CASE OpEmbed
    <2>1. /\ doc' \in DocType /\ doc'.done = doc.done /\ doc'.failed = doc.failed
          /\ doc'.st = "none" <=> doc.st = "none"
      BY <1>3, <1>4, StateSet DEF OpEmbed, DocStates
    <2>2. TypeOK' /\ SameDocument
      BY <1>3, <1>4, <2>1 DEF OpEmbed, TypeOK, SameDocument
    <2>3. op' \in OpType /\ op'.pc # "repair"
      BY <1>3, <1>4 DEF OpEmbed, OpType
    <2> QED BY <1>3, <1>4, <2>1, <2>2, <2>3, CountersLeft DEF OpEmbed, Undisturbed
  <1>5. CASE OpRechunk
    <2>1. /\ doc' \in DocType /\ doc'.done = doc.done /\ doc'.failed = doc.failed
          /\ doc'.st = "none" <=> doc.st = "none"
      BY <1>3, <1>5, StateSet DEF OpRechunk, DocStates
    <2>2. TypeOK' /\ SameDocument
      BY <1>3, <1>5, <2>1 DEF OpRechunk, TypeOK, SameDocument
    <2>3. op' \in OpType /\ op'.pc # "repair"
      BY <1>3, <1>5 DEF OpRechunk, OpType
    <2> QED BY <1>3, <1>5, <2>1, <2>2, <2>3, CountersLeft DEF OpRechunk, Undisturbed
  <1>6. CASE OpFull
    <2>1. /\ doc' = [st |-> "uploaded", total |-> 0, done |-> 0, failed |-> 0]
          /\ n' = 0 /\ shard' = NoRows /\ chunks' = {}
          /\ UNCHANGED <<raw, waiting, stranded, retries, api, spl, par, emb, jan, faults>>
      BY <1>6 DEF OpFull, NoDoc
    <2>2. TypeOK'
      BY <1>3, <2>1 DEF TypeOK, NoRows, DocType, DocStates
    <2>3. api # "new"
      BY <1>3 DEF Undisturbed, Base, NewIsAbsent
    <2>4. Base'
      BY <1>3, <2>1, <2>2, <2>3 DEF Undisturbed, Base, NewIsAbsent, NoRowsWithoutDocument, SplitsRange
    <2>5. DoneRows' = {} /\ FailedRows' = {}
      BY <2>1, NothingToCount
    <2>6. CountersNeverUndercount'
      BY <2>1, <2>5, FS_EmptySet DEF CountersNeverUndercount
    <2>7. op' \in OpType /\ op'.pc # "repair"
      BY <1>3, <1>6 DEF OpFull, OpType
    <2> QED BY <2>4, <2>6, <2>7 DEF Undisturbed
  <1>7. CASE OpFailedShards
    <2>1. TypeOK' /\ SameDocument
      BY <1>3, <1>7 DEF OpFailedShards, TypeOK, SameDocument
    <2>2. FailedRows \in SUBSET Nat
      BY <1>3 DEF FailedRows, TypeOK
    <2>3. op' \in OpType /\ op'.pc # "repair"
      BY <1>3, <1>7, <2>2 DEF OpFailedShards, OpType
    <2> QED BY <1>3, <1>7, <2>1, <2>3, CountersLeft DEF OpFailedShards, Undisturbed
  <1> QED BY <1>3, <1>4, <1>5, <1>6, <1>7

\* So does every later step of a request, and the death of the process between.
LEMMA SendStep == ASSUME OInv, OpSend \/ OpDies PROVE OInv'
  <1>1. ops' = ops
    BY DEF OpSend, OpDies, OpRequeueFailed, OpAddSplit, OpAddEmbed, OpAddParse, OpRepair
  <1> SUFFICES ASSUME NoRepair PROVE Undisturbed'
    BY <1>1 DEF OInv, NoRepair
  <1>2. Undisturbed /\ TypeOK /\ doc \in DocType /\ op \in OpType /\ op.pc # "repair"
    BY DEF OInv, Undisturbed, Base, TypeOK
  <1>3. IdleOp \in OpType /\ IdleOp.pc # "repair"
    BY DEF IdleOp, OpType
  <1>4. doc.st = "none" => chunks = {}
    BY <1>2 DEF Undisturbed, Base, NoRowsWithoutDocument
  <1>5. CASE OpRequeueFailed
    <2>1. /\ shard' \in [0..(n-1) -> RowType] /\ doc' \in DocType
          /\ doc'.st = "none" <=> doc.st = "none"
          /\ CountersNeverUndercount'
      BY <1>2, <1>5, RequeueCounts
    <2>2. TypeOK'
      BY <1>2, <1>5, <2>1 DEF OpRequeueFailed, TypeOK
    <2>3. Base'
      BY <1>2, <1>5, <2>1, <2>2
         DEF OpRequeueFailed, Undisturbed, Base, NewIsAbsent, NoRowsWithoutDocument, SplitsRange
    <2>4. op' \in OpType /\ op'.pc # "repair"
      BY <1>2, <1>5 DEF OpRequeueFailed, OpType
    <2> QED BY <2>1, <2>3, <2>4 DEF Undisturbed
  <1>6. ASSUME TypeOK', UNCHANGED <<doc, n, shard, chunks, api, par>>, op' \in OpType, op'.pc # "repair"
        PROVE  Undisturbed'
    <2>1. SameDocument
      BY <1>4, <1>6 DEF SameDocument
    <2> QED BY <1>2, <1>6, <2>1, CountersLeft DEF Undisturbed
  <1>7. CASE OpAddSplit
    <2>1. IsJobBag(waiting)'
      BY <1>2, <1>7, EnqueueBag, JobTypes DEF OpAddSplit, TypeOK
    <2> QED BY <1>2, <1>3, <1>6, <1>7, <2>1 DEF OpAddSplit, TypeOK
  <1>8. CASE OpAddEmbed
    <2>1. IsJobBag(waiting)'
      BY <1>2, <1>8, EnqueueBag, JobTypes DEF OpAddEmbed, TypeOK
    <2> QED BY <1>2, <1>3, <1>6, <1>8, <2>1 DEF OpAddEmbed, TypeOK
  <1>9. CASE OpAddParse
    <2>1. PICK i \in op.rows : /\ Enqueue(ParseJob(i))
                               /\ op' = IF op.rows = {i} THEN IdleOp
                                        ELSE [op EXCEPT !.rows = op.rows \ {i}]
      BY <1>9 DEF OpAddParse
    <2>2. i \in Nat /\ op.rows \ {i} \in SUBSET Nat
      BY <1>2 DEF OpType
    <2>3. op' \in OpType /\ op'.pc # "repair"
      BY <1>2, <1>3, <2>1, <2>2 DEF OpType
    <2>4. IsJobBag(waiting)'
      BY <1>2, <2>1, <2>2, EnqueueBag, JobTypes DEF TypeOK
    <2> QED BY <1>2, <1>6, <1>9, <2>3, <2>4 DEF OpAddParse, TypeOK
  <1>10. CASE OpDies
    <2>1. faults' \in 0..MaxFaults
      BY <1>2, <1>10, FaultBound DEF OpDies, TypeOK
    <2> QED BY <1>2, <1>3, <1>6, <1>10, <2>1 DEF OpDies, TypeOK
  <1>11. ~OpRepair
    BY <1>2 DEF OpRepair
  <1> QED BY <1>5, <1>7, <1>8, <1>9, <1>10, <1>11 DEF OpSend

\* The pipeline's own steps, which know nothing of the operator, keep it too.
LEMMA PipelineStep == ASSUME OInv, [Next]_vars, UNCHANGED opvars PROVE OInv'
  <1>1. ops' = ops /\ op' = op
    BY DEF opvars
  <1>2. NoRepair' => NoRepair
    BY <1>1 DEF NoRepair
  <1>3. ASSUME Undisturbed PROVE Undisturbed'
    <2>1. Base' /\ CountersNeverUndercount'
      BY <1>3, BaseStep, CountStep DEF Undisturbed, Keeps
    <2> QED BY <1>1, <1>3, <2>1 DEF Undisturbed
  <1> QED BY <1>1, <1>2, <1>3 DEF OInv

\* The settle counters never fall behind the rows either when an operator retries
\* the document, in any scope and at any moment, in the middle of a split, a
\* parse or an embedding and with processes dying between the steps of the
\* request, unless somebody ran the recount.
THEOREM RetriesKeepCounting == OpSpec => []RetryKeepsCounters
  <1>1. OpInit => OInv
    <2> SUFFICES ASSUME OpInit PROVE OInv
      OBVIOUS
    <2>1. Base /\ CountersNeverUndercount
      BY InitOK, BaseOfIInv, CountInit DEF OpInit
    <2>2. ops \in Seq(Ops) /\ op \in OpType /\ op.pc # "repair"
      BY DEF OpInit, IdleOp, OpType
    <2> QED BY <2>1, <2>2 DEF OInv, Undisturbed
  <1>2. OInv /\ [OpNext]_<<vars, opvars>> => OInv'
    <2> SUFFICES ASSUME OInv, [OpNext]_<<vars, opvars>> PROVE OInv'
      OBVIOUS
    <2>1. CASE Next /\ UNCHANGED opvars
      BY <2>1, PipelineStep
    <2>2. CASE UNCHANGED <<vars, opvars>>
      BY <2>2, PipelineStep
    <2> QED BY <2>1, <2>2, RequestStep, SendStep DEF OpNext
  <1>3. OInv => RetryKeepsCounters
    BY DEF OInv, NoRepair, Undisturbed, RetryKeepsCounters
  <1> QED BY <1>1, <1>2, <1>3, PTL DEF OpSpec
=============================================================================

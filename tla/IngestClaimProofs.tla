-------------------------- MODULE IngestClaimProofs --------------------------
(***************************************************************************)
(* What the lease on a shard gives, for any number of parsers, splitters   *)
(* and embedders, as long as no worker outlives its lease: ClaimShard      *)
(* hands a row to one parser at a time, so completions are counted once,   *)
(* finished rows stay finished, and a row that was left behind still has   *)
(* its job somewhere.                                                      *)
(***************************************************************************)
EXTENDS IngestProofs

\* From the claim to the last transaction.
Working == {"fetch", "work", "resplit"}

\* Only ClaimShard puts a parser to work on a row.
LEMMA OnlyClaimsStartWork ==
  ASSUME IInv, [Next]_vars
  PROVE  \/ \E p \in Parsers : ParseClaim(p)
         \/ \A q \in Parsers : par'[q].pc \in Working =>
              par[q].pc \in Working /\ par'[q].idx = par[q].idx
  <1> DEFINE Quiet == \A q \in Parsers : par'[q].pc \in Working =>
                        par[q].pc \in Working /\ par'[q].idx = par[q].idx
  <1>1. par \in [Parsers -> ParserType] /\ IdleParser.pc = "idle"
    BY DEF IInv, TypeOK, IdleParser
  <1>2. ASSUME NEW p \in Parsers, NEW w, par' = [par EXCEPT ![p] = w], w.pc \notin Working
        PROVE  Quiet
    BY <1>1, <1>2
  <1>3. ASSUME UNCHANGED par PROVE Quiet
    BY <1>3
  <1> HIDE DEF Quiet
  <1>4. ASSUME NEW p \in Parsers, ParseIdle(p) PROVE Quiet
    BY <1>1, <1>2, <1>4 DEF ParseIdle, Working
  <1>5. ASSUME NEW p \in Parsers, NEW i, ParseRead(p, i) PROVE Quiet
    <2> DEFINE w == [IdleParser EXCEPT !.pc = "claim", !.held = TRUE, !.idx = i, !.tot = doc.total]
    <2>1. w.pc = "claim"
      BY DEF IdleParser
    <2>2. UNCHANGED par \/ par' = [par EXCEPT ![p] = w]
      BY <1>5 DEF ParseRead
    <2> HIDE DEF w
    <2> QED BY <1>2, <1>3, <2>1, <2>2 DEF Working
  <1>6. ASSUME NEW p \in Parsers, ParseSubEnqueue(p) PROVE Quiet
    <2> DEFINE w == [par[p] EXCEPT !.next = @ + 1]
    <2>1. w.pc = "subenqueue"
      BY <1>1, <1>6 DEF ParserType, ParseSubEnqueue
    <2>2. ParseIdle(p) \/ par' = [par EXCEPT ![p] = w]
      BY <1>6 DEF ParseSubEnqueue, ParseAck
    <2> HIDE DEF w
    <2> QED BY <1>2, <1>4, <2>1, <2>2 DEF Working
  <1>7. ASSUME NEW p \in Parsers, ParseFetch(p) PROVE Quiet
    BY <1>1, <1>7 DEF ParseFetch, Quiet, Working, ParserType
  <1>8. ASSUME NEW p \in Parsers, ParseFinish(p) PROVE Quiet
    <2> DEFINE w == [par[p] EXCEPT !.pc = "embed"]
    <2>1. w.pc = "embed"
      BY <1>1 DEF ParserType
    <2>2. ParseIdle(p) \/ par' = [par EXCEPT ![p] = w]
      BY <1>8 DEF ParseFinish, ParseAck
    <2> HIDE DEF w
    <2> QED BY <1>2, <1>4, <2>1, <2>2 DEF Working
  <1>9. ASSUME NEW p \in Parsers, ParseResplit(p) PROVE Quiet
    <2> DEFINE w == [par[p] EXCEPT !.pc = "subenqueue", !.next = n, !.last = n' - 1]
    <2>1. w.pc = "subenqueue"
      BY <1>1 DEF ParserType
    <2>2. par' = [par EXCEPT ![p] = w]
      BY <1>9, ResplitRows, BaseOfIInv
    <2> HIDE DEF w
    <2> QED BY <1>2, <2>1, <2>2 DEF Working
  <1>10. ASSUME NEW p \in Parsers, ParseStep(p) \/ ParseAbort(p), ~ParseClaim(p) PROVE Quiet
    BY <1>4, <1>5, <1>6, <1>7, <1>8, <1>9, <1>10
       DEF ParseStep, ParseSkip, ParseVanished, ParseGone, ParseEnqueueEmbed, ParseAbort, ParseAck
  <1>11. ASSUME NEW s \in Splitters, SplitStep(s) \/ SplitAbort(s) PROVE Quiet
    BY <1>3, <1>11 DEF SplitStep, SplitRead, SplitAlready, SplitProbe, SplitFetch, SplitGone,
                       SplitCommit, SplitConflict, SplitEnqueue, SplitAbort
  <1>12. ASSUME NEW e \in Embedders, EmbedStep(e) \/ EmbedBackendFails(e) \/ EmbedAbort(e) PROVE Quiet
    BY <1>3, <1>12 DEF EmbedStep, EmbedRead, EmbedLoad, EmbedEmpty, EmbedWrite, EmbedVanished,
                       EmbedBackendFails, EmbedAbort
  <1>13. CASE JanStep \/ JanAbort \/ \E j \in DOMAIN stranded : JanReclaimDies(j)
    <2>1. Quiet
      BY <1>3, <1>13 DEF JanStep, JanReap, JanEscalate, JanDocs, JanRequeue, JanReclaimed, JanEmbedSweep,
                         JanShardRead, JanShardGrace, JanShardSweep, JanReclaim, JanReclaimDies, JanAbort
    <2> QED BY <2>1 DEF Quiet
  <1>14. CASE ReclaimLive
    <2>1. ASSUME NEW p \in Parsers, par' = [par EXCEPT ![p].held = FALSE] PROVE Quiet
      BY <1>1, <2>1 DEF Quiet, ParserType
    <2>2. Quiet
      BY <1>3, <1>14, <2>1 DEF ReclaimLive
    <2> QED BY <2>2 DEF Quiet
  <1>15. CASE RedisWipe
    <2>1. Quiet
      BY <1>1, <1>15 DEF RedisWipe, Quiet, Working
    <2> QED BY <2>1 DEF Quiet
  <1>16. CASE \/ ApiInsert \/ ApiEnqueue \/ ApiDies \/ UNCHANGED vars
              \/ (\E i \in 0..(n-1) : LeaseExpire(i)) \/ DeleteDocument \/ RawVanish \/ RetriesExpire
    <2>1. Quiet
      BY <1>3, <1>16 DEF ApiInsert, ApiEnqueue, ApiDies, vars, LeaseExpire, DeleteDocument, RawVanish, RetriesExpire
    <2> QED BY <2>1 DEF Quiet
  <1>17. Quiet \/ \E p \in Parsers : ParseClaim(p)
    BY <1>10, <1>11, <1>12, <1>13, <1>14, <1>15, <1>16 DEF Next, Quiet
  <1> QED BY <1>17 DEF Quiet
-----------------------------------------------------------------------------
\* The row of a working parser is its own.
Held(w, p) == /\ w.idx < n /\ shard[w.idx].st = "running"
              /\ shard[w.idx].owner = p /\ shard[w.idx].lease

\* ClaimExclusive is what it says of every single parser.
LEMMA ClaimParts ==
  ClaimExclusive <=> (~Overrun /\ doc.st # "none" =>
                        \A p \in Parsers : par[p].pc \in Working => Held(par[p], p))
  BY DEF ClaimExclusive, Held, Working

\* Steps that keep the rows of working parsers and put none to work.
LEMMA ClaimKept ==
  ASSUME IInv, ClaimExclusive,
         ~Overrun /\ doc'.st # "none" =>
           /\ doc.st # "none"
           /\ \A q \in Parsers : par'[q].pc \in Working =>
                /\ par[q].pc \in Working /\ par'[q].idx = par[q].idx
                /\ Held(par[q], q) => Held(par[q], q)'
  PROVE  ClaimExclusive'
  <1>1. ASSUME ~Overrun, doc'.st # "none", NEW q \in Parsers, par'[q].pc \in Working
        PROVE  Held(par[q], q)'
    BY <1>1, ClaimParts
  <1>2. ~Overrun /\ doc'.st # "none" =>
          \A q \in Parsers : par'[q].pc \in Working =>
            /\ par'[q].idx < n' /\ shard'[par'[q].idx].st = "running"
            /\ shard'[par'[q].idx].owner = q /\ shard'[par'[q].idx].lease
    BY <1>1 DEF Held
  <1> QED BY <1>2 DEF ClaimExclusive, Working

\* The claim: the row was pending or failed, so nobody worked on it.
LEMMA ClaimClaim == ASSUME IInv, ClaimExclusive, NEW p \in Parsers, ParseClaim(p) PROVE ClaimExclusive'
  <1>1. /\ n \in Nat /\ shard \in [0..(n-1) -> RowType] /\ par \in [Parsers -> ParserType]
        /\ n' = n /\ doc' = doc /\ par[p].idx \in 0..(n-1)
        /\ shard[par[p].idx].st \in {"pending", "failed"}
        /\ shard' = [shard EXCEPT ![par[p].idx].st = "running", ![par[p].idx].att = shard[par[p].idx].att + 1,
                                  ![par[p].idx].owner = p, ![par[p].idx].lease = TRUE]
    BY DEF IInv, TypeOK, ParseClaim, Claimable
  <1>2. \A q \in Parsers : q # p => par'[q] = par[q]
    BY <1>1 DEF ParseClaim
  <1>3. par'[p].idx = par[p].idx
    BY <1>1 DEF ParseClaim, ParserType
  <1>4. ASSUME ~Overrun, doc.st # "none", NEW q \in Parsers, par'[q].pc \in Working
        PROVE  /\ par'[q].idx < n' /\ shard'[par'[q].idx].st = "running"
               /\ shard'[par'[q].idx].owner = q /\ shard'[par'[q].idx].lease
    <2>1. CASE q = p
      BY <1>1, <1>3, <2>1 DEF RowType
    <2>2. CASE q # p
      <3>1. Held(par[q], q) /\ par'[q] = par[q]
        BY <1>2, <1>4, <2>2, ClaimParts
      <3>2. par[q].idx # par[p].idx /\ par[q].idx \in 0..(n-1)
        BY <1>1, <3>1 DEF Held, ParserType
      <3>3. shard'[par[q].idx] = shard[par[q].idx]
        BY <1>1, <3>2
      <3> QED BY <1>1, <3>1, <3>3 DEF Held
    <2> QED BY <2>1, <2>2
  <1> QED BY <1>1, <1>4 DEF ClaimExclusive, Working

\* The two transactions that end a claim touch the row of their parser only.
LEMMA ClaimEnds == ASSUME IInv, ClaimExclusive, NEW p \in Parsers, ParseResplit(p) \/ ParseFinish(p)
                   PROVE  ClaimExclusive'
  <1>1. /\ n \in Nat /\ shard \in [0..(n-1) -> RowType] /\ par \in [Parsers -> ParserType]
        /\ par[p].idx \in Nat /\ doc \in DocType
    BY DEF IInv, TypeOK, ParserType
  <1>2. /\ \A q \in Parsers : q # p => par'[q] = par[q]
        /\ par'[p].pc \notin Working
    <2>1. CASE ParseResplit(p)
      <3>1. par' = [par EXCEPT ![p] = [par[p] EXCEPT !.pc = "subenqueue", !.next = n, !.last = n' - 1]]
        BY <2>1, ResplitRows, BaseOfIInv
      <3> QED BY <1>1, <3>1 DEF ParserType, Working
    <2>2. CASE ParseFinish(p)
      BY <1>1, <2>2 DEF ParseFinish, ParseAck, ParseIdle, IdleParser, ParserType, Working
    <2> QED BY <2>1, <2>2
  <1>3. par[p].pc \in Working
    BY DEF ParseResplit, ParseFinish, Working
  <1>4. /\ n' \in Nat /\ n' >= n
        /\ \A i \in 0..(n-1) : i # par[p].idx => shard'[i] = shard[i]
        /\ doc'.st = doc.st
    <2>1. CASE ParseResplit(p)
      <3>1. doc'.st = doc.st
        BY <1>1, <2>1 DEF ParseResplit, DocType
      <3>2. n' \in Nat /\ n' > n /\ \A i \in 0..(n-1) : i # par[p].idx => shard'[i] = shard[i]
        BY <2>1, ResplitRows, BaseOfIInv
      <3>3. n' >= n
        BY <1>1, <3>2
      <3> QED BY <3>1, <3>2, <3>3
    <2>2. CASE ParseFinish(p)
      BY <1>1, <2>2 DEF ParseFinish, DocType
    <2> QED BY <2>1, <2>2
  <1>5. ASSUME ~Overrun, doc.st # "none", NEW q \in Parsers, par'[q].pc \in Working
        PROVE  /\ par[q].pc \in Working /\ par'[q].idx = par[q].idx /\ Held(par[q], q)'
    <2>1. q # p /\ par'[q] = par[q]
      BY <1>2, <1>5
    <2>2. Held(par[q], q) /\ Held(par[p], p)
      BY <1>3, <1>5, <2>1, ClaimParts
    <2>3. par[q].idx # par[p].idx /\ par[q].idx \in 0..(n-1)
      BY <1>1, <2>1, <2>2 DEF Held, ParserType
    <2>4. par[q].idx < n'
      BY <1>1, <1>4, <2>3
    <2> QED BY <1>4, <1>5, <2>1, <2>2, <2>3, <2>4 DEF Held
  <1> QED BY <1>4, <1>5, ClaimKept

\* A lease expires under a live parser only when that parser overruns it, so the
\* janitor finds no row of a live parser to give back.
LEMMA ClaimStep == ASSUME IInv, ClaimExclusive, [Next]_vars PROVE ClaimExclusive'
  <1>1. /\ n \in Nat /\ shard \in [0..(n-1) -> RowType] /\ par \in [Parsers -> ParserType]
        /\ \A q \in Parsers : par[q].idx \in Nat
    BY DEF IInv, TypeOK, ParserType
  <1>2. CASE \E p \in Parsers : ParseClaim(p)
    BY <1>2, ClaimClaim
  <1>3. CASE \E p \in Parsers : ParseResplit(p) \/ ParseFinish(p)
    BY <1>3, ClaimEnds
  <1>4. ASSUME ~(\E p \in Parsers : ParseClaim(p)),
               ~(\E p \in Parsers : ParseResplit(p) \/ ParseFinish(p))
        PROVE  ClaimExclusive'
    <2>1. \A q \in Parsers : par'[q].pc \in Working => par[q].pc \in Working /\ par'[q].idx = par[q].idx
      BY <1>4, OnlyClaimsStartWork
    <2>2. CASE RowsAlone
      <3>1. n' = n /\ shard' = shard /\ (doc'.st # "none" => doc.st # "none")
        BY <2>2 DEF RowsAlone
      <3>2. ASSUME NEW q \in Parsers, par'[q].pc \in Working, Held(par[q], q) PROVE Held(par[q], q)'
        <4>1. par'[q].idx = par[q].idx
          BY <2>1, <3>2
        <4> QED BY <3>1, <3>2, <4>1 DEF Held
      <3> QED BY <2>1, <3>1, <3>2, ClaimKept
    <2>3. CASE ApiInsert
      <3>1. \A q \in Parsers : par'[q].pc \notin Working
        BY <2>3 DEF ApiInsert, IInv, ParserRows, HoldsRow, Working
      <3> QED BY <3>1 DEF ClaimExclusive, Working
    <2>4. CASE DeleteDocument
      BY <2>4 DEF DeleteDocument, NoDoc, ClaimExclusive
    <2>5. ASSUME NEW s \in Splitters, SplitCommit(s) PROVE ClaimExclusive'
      <3>1. \A q \in Parsers : par'[q].pc \notin Working
        BY <1>1, <2>5 DEF SplitCommit, IInv, ParserRows, HoldsRow, Working
      <3> QED BY <3>1 DEF ClaimExclusive, Working
    <2>6. ASSUME n' = n, par' = par, doc'.st = doc.st,
                 ~Overrun /\ doc.st # "none" => \A q \in Parsers, i \in 0..(n-1) :
                   par[q].pc \in Working /\ Held(par[q], q) /\ par[q].idx = i =>
                     /\ shard'[i].st = shard[i].st /\ shard'[i].owner = shard[i].owner
                     /\ shard'[i].lease = shard[i].lease
          PROVE  ClaimExclusive'
      <3>1. ASSUME ~Overrun, doc'.st # "none", NEW q \in Parsers, par'[q].pc \in Working, Held(par[q], q)
            PROVE  Held(par[q], q)'
        <4>1. par[q].idx \in 0..(n-1)
          BY <1>1, <3>1 DEF Held
        <4> QED BY <2>6, <3>1, <4>1 DEF Held
      <3> QED BY <2>1, <2>6, <3>1, ClaimKept
    <2>7. CASE JanReap
      BY <1>1, <2>6, <2>7 DEF JanReap, Held
    <2>8. CASE JanEscalate
      <3>1. doc'.st = doc.st
        BY <2>8 DEF JanEscalate, IInv, TypeOK, DocType
      <3> QED BY <1>1, <2>6, <2>8, <3>1 DEF JanEscalate, StuckRows, Held
    <2>9. ASSUME NEW i \in 0..(n-1), LeaseExpire(i) PROVE ClaimExclusive'
      <3>1. ASSUME ~Overrun, NEW q \in Parsers, par[q].pc \in Working, Held(par[q], q) PROVE par[q].idx # i
        BY <2>9, <3>1 DEF LeaseExpire, LiveOn, Held, Working, Fault, Overrun
      <3>2. \A k \in 0..(n-1) : k # i => shard'[k] = shard[k]
        BY <1>1, <2>9 DEF LeaseExpire
      <3>3. n' = n /\ par' = par /\ doc' = doc
        BY <2>9 DEF LeaseExpire
      <3> QED BY <2>6, <3>1, <3>2, <3>3
    <2> QED BY <1>4, <2>2, <2>3, <2>4, <2>5, <2>7, <2>8, <2>9, RowWriters, BaseOfIInv DEF RowStep
  <1> QED BY <1>2, <1>3, <1>4

\* Claims are exclusive in every reachable state.
LEMMA ClaimInvariant == Spec => [](IInv /\ ClaimExclusive)
  <1>1. Init => ClaimExclusive
    BY DEF Init, ClaimExclusive, NoDoc
  <1> QED BY <1>1, InitOK, ClaimStep, Inductive, PTL DEF Spec

\* While no worker outlives its lease, ClaimShard is a lock: however many
\* copies of a job there are, and whoever dies or is killed, one parser works on
\* a shard, and its row says so.
THEOREM ClaimsAreExclusive == Spec => []ClaimExclusive
  BY ClaimInvariant, PTL
-----------------------------------------------------------------------------
\* What a parser that ends its claim finds: its row is running, unless the
\* document and all its rows are gone.
LEMMA EndsRunningRow ==
  ASSUME IInv, ClaimExclusive, ~Overrun, doc.st # "none",
         NEW p \in Parsers, ParseResplit(p) \/ ParseFinish(p)
  PROVE  par[p].idx \in 0..(n-1) /\ shard[par[p].idx].st = "running"
  <1>1. par[p].pc \in Working /\ par[p].idx \in Nat /\ n \in Nat
    BY DEF ParseResplit, ParseFinish, Working, IInv, TypeOK, ParserType
  <1>2. Held(par[p], p)
    BY <1>1, ClaimParts
  <1> QED BY <1>1, <1>2 DEF Held

\* MarkShardDone adds its row to the done rows, or finds no document.
LEMMA FinishRows ==
  ASSUME IInv, ClaimExclusive, ~Overrun, NEW p \in Parsers, ParseFinish(p)
  PROVE  /\ n' = n
         /\ \/ doc.st = "none" /\ n = 0 /\ doc' = doc
            \/ /\ doc.st # "none" /\ par[p].idx \in 0..(n-1) /\ shard[par[p].idx].st = "running"
               /\ shard'[par[p].idx].st = "done" /\ shard'[par[p].idx].att = shard[par[p].idx].att
               /\ \A i \in 0..(n-1) : i # par[p].idx => shard'[i] = shard[i]
               /\ doc'.done = doc.done + 1
  <1>1. n' = n
    BY DEF ParseFinish
  <1>2. CASE doc.st = "none"
    BY <1>1, <1>2 DEF ParseFinish, IInv, NoRowsWithoutDocument
  <1>3. CASE doc.st # "none"
    <2>1. par[p].idx \in 0..(n-1) /\ shard[par[p].idx].st = "running"
      BY <1>3, EndsRunningRow
    <2>2. doc'.done = doc.done + 1
      BY <1>3 DEF ParseFinish, ShardsDone, IInv, TypeOK, DocType
    <2>3. n \in Nat /\ par[p].idx < n /\ shard[par[p].idx] \in RowType /\ shard \in [0..(n-1) -> RowType]
      BY <2>1 DEF IInv, TypeOK
    <2>4. shard' = [shard EXCEPT ![par[p].idx].st = "done", ![par[p].idx].lease = FALSE]
      BY <2>3 DEF ParseFinish
    <2> QED BY <1>1, <1>3, <2>1, <2>2, <2>3, <2>4 DEF RowType
  <1> QED BY <1>1, <1>2, <1>3

\* The numbers of the rows there were are among those of more rows.
LEMMA FirstPart ==
  ASSUME NEW a \in Nat, NEW b \in Nat, a < b, NEW k \in 0..(a-1) PROVE k \in 0..(b-1)
  OBVIOUS

\* Every completion is counted once: the row it finishes was not done before,
\* and no other step takes a done row away but the deletion of the document.
LEMMA DoneCountStep ==
  ASSUME IInv, ClaimExclusive, ~Overrun, DoneCountsRows, [Next]_vars PROVE DoneCountsRows'
  <1>1. /\ n \in Nat /\ shard \in [0..(n-1) -> RowType] /\ doc \in DocType /\ doc.done \in Nat
        /\ doc.done = Cardinality(DoneRows)
    BY DEF IInv, TypeOK, DocType, DoneCountsRows
  <1>2. ASSUME DoneRows' = DoneRows, doc'.done = doc.done PROVE DoneCountsRows'
    BY <1>1, <1>2 DEF DoneCountsRows
  <1>3. ASSUME n' = 0, doc'.done = 0 PROVE DoneCountsRows'
    <2>1. DoneRows' = {}
      BY <1>3 DEF DoneRows
    <2> QED BY <1>3, <2>1, FS_EmptySet DEF DoneCountsRows
  <1>4. ASSUME n' = n, doc'.done = doc.done,
               \A i \in 0..(n-1) : shard'[i].st = "done" <=> shard[i].st = "done"
        PROVE  DoneCountsRows'
    BY <1>2, <1>4 DEF DoneRows
  <1>5. CASE RowsAlone
    BY <1>4, <1>5 DEF RowsAlone
  <1>6. CASE ApiInsert
    BY <1>3, <1>6 DEF ApiInsert, NoDoc, IInv, NewIsAbsent, NoRowsWithoutDocument
  <1>7. CASE DeleteDocument
    BY <1>3, <1>7 DEF DeleteDocument, NoDoc
  <1>8. CASE JanReap
    BY <1>1, <1>4, <1>8 DEF JanReap, RowType
  <1>9. CASE JanEscalate
    <2>1. n' = n /\ doc'.done = doc.done
      BY <1>1, <1>9 DEF JanEscalate, DocType
    <2> QED BY <1>1, <1>4, <1>9, <2>1 DEF JanEscalate, StuckRows, RowType
  <1>10. ASSUME NEW s \in Splitters, SplitCommit(s) PROVE DoneCountsRows'
    <2>1. n = 0 /\ doc'.done = doc.done
      BY <1>1, <1>10 DEF SplitCommit, DocType
    <2>2. DoneRows = {} /\ DoneRows' = {}
      BY <1>10, <2>1 DEF SplitCommit, NewRow, DoneRows
    <2> QED BY <1>2, <2>1, <2>2
  <1>11. ASSUME NEW p \in Parsers, ParseClaim(p) PROVE DoneCountsRows'
    <2>1. n' = n /\ doc' = doc
      BY <1>11 DEF ParseClaim
    <2>2. \A i \in 0..(n-1) : shard'[i].st = "done" <=> shard[i].st = "done"
      BY <1>1, <1>11 DEF ParseClaim, Claimable, RowType
    <2> QED BY <1>4, <2>1, <2>2
  <1>12. ASSUME NEW p \in Parsers, ParseResplit(p) PROVE DoneCountsRows'
    <2>1. doc.st # "none"
      BY <1>12 DEF ParseResplit, IInv, TypeOK, ParserType, NoRowsWithoutDocument
    <2>2. par[p].idx \in 0..(n-1) /\ shard[par[p].idx].st = "running"
      BY <1>12, <2>1, EndsRunningRow
    <2>3. /\ n' \in Nat /\ n' > n /\ DoneRows' \subseteq DoneRows
          /\ \A i \in 0..(n-1) : i # par[p].idx => shard'[i] = shard[i]
      BY <1>12, ResplitRows, BaseOfIInv
    <2>4. DoneRows \subseteq DoneRows'
      <3>1. ASSUME NEW i \in 0..(n-1), shard[i].st = "done"
            PROVE  i \in 0..(n'-1) /\ shard'[i].st = "done"
        <4>1. i # par[p].idx
          BY <2>2, <3>1
        <4>2. i \in 0..(n'-1)
          <5>1. n \in Nat /\ n' \in Nat /\ n < n'
            BY <1>1, <2>3
          <5> QED BY <5>1, FirstPart
        <4> QED BY <2>3, <3>1, <4>1, <4>2
      <3> QED BY <3>1 DEF DoneRows
    <2>5. doc'.done = doc.done
      BY <1>1, <1>12 DEF ParseResplit, DocType
    <2> QED BY <1>2, <2>3, <2>4, <2>5
  <1>13. ASSUME NEW p \in Parsers, ParseFinish(p) PROVE DoneCountsRows'
    <2>1. CASE doc.st = "none" /\ n = 0 /\ doc' = doc
      <3>1. n' = 0 /\ doc'.done = 0
        <4>1. DoneRows = {}
          BY <2>1 DEF DoneRows
        <4> QED BY <1>1, <1>13, <2>1, <4>1, FinishRows, FS_EmptySet
      <3> QED BY <1>3, <3>1
    <2>2. CASE doc.st # "none"
      <3> DEFINE i == par[p].idx
      <3>1. /\ n' = n /\ i \in 0..(n-1) /\ shard[i].st = "running" /\ shard'[i].st = "done"
            /\ \A j \in 0..(n-1) : j # i => shard'[j] = shard[j]
            /\ doc'.done = doc.done + 1
        BY <1>13, <2>2, FinishRows
      <3> HIDE DEF i
      <3>2. DoneRows' = DoneRows \cup {i} /\ i \notin DoneRows
        BY <3>1 DEF DoneRows
      <3>3. IsFiniteSet(DoneRows)
        <4>1. DoneRows \in SUBSET (0..(n-1))
          BY DEF DoneRows
        <4> QED BY <1>1, <4>1, RowsFinite
      <3>4. Cardinality(DoneRows \cup {i}) = Cardinality(DoneRows) + 1
        BY <3>2, <3>3, FS_AddElement
      <3> QED BY <1>1, <3>1, <3>2, <3>4 DEF DoneCountsRows
    <2> QED BY <1>13, <2>1, <2>2, FinishRows
  <1>14. ASSUME NEW i \in 0..(n-1), LeaseExpire(i) PROVE DoneCountsRows'
    BY <1>1, <1>4, <1>14 DEF LeaseExpire, RowType
  <1> QED BY <1>5, <1>6, <1>7, <1>8, <1>9, <1>10, <1>11, <1>12, <1>13, <1>14, RowWriters, BaseOfIInv DEF RowStep

\* The count of completions is exact in every reachable state.
LEMMA DoneCountInvariant == Spec => [](IInv /\ ClaimExclusive /\ DoneCountsRows)
  <1>1. Init => DoneCountsRows
    <2>1. 0..(0-1) = {}
      OBVIOUS
    <2> QED BY <2>1, FS_EmptySet DEF Init, DoneCountsRows, DoneRows, NoDoc
  <1>2. IInv /\ ClaimExclusive /\ DoneCountsRows /\ [Next]_vars => DoneCountsRows'
    BY DoneCountStep DEF DoneCountsRows
  <1>3. Init => ClaimExclusive
    BY DEF Init, ClaimExclusive, NoDoc
  <1> QED BY <1>1, <1>2, <1>3, InitOK, ClaimStep, Inductive, PTL DEF Spec

\* While no worker outlives its lease, shards_done is exactly the number of done
\* rows: a job that is delivered twice, requeued or reclaimed is counted once,
\* and a parser that finishes after its document was deleted counts nothing.
THEOREM CompletionsCountedOnce == Spec => []DoneCountsRows
  BY DoneCountInvariant, PTL
-----------------------------------------------------------------------------
\* What no step does to the rows while no worker outlives its lease.
LEMMA FinalStep ==
  ASSUME IInv, ClaimExclusive, [Next]_vars, ~Overrun, NEW i \in 0..(n-1), i \in 0..(n'-1)
  PROVE  /\ shard[i].st \in {"done", "skipped"} => shard'[i].st = shard[i].st
         /\ shard'[i].att >= shard[i].att
  <1>1. /\ n \in Nat /\ shard \in [0..(n-1) -> RowType] /\ doc \in DocType
        /\ shard[i] \in RowType /\ shard[i].att \in Nat
    BY DEF IInv, TypeOK, RowType
  <1>2. CASE RowsAlone
    BY <1>1, <1>2 DEF RowsAlone
  <1>3. CASE ApiInsert \/ DeleteDocument
    BY <1>1, <1>3 DEF ApiInsert, DeleteDocument
  <1>4. CASE JanReap
    <2> DEFINE back == [shard[i] EXCEPT !.st = "pending", !.owner = NoOwner]
    <2>1. back.att = shard[i].att
      BY <1>1 DEF RowType
    <2>2. shard'[i] = IF shard[i].st = "running" /\ ~shard[i].lease THEN back ELSE shard[i]
      BY <1>4 DEF JanReap
    <2> HIDE DEF back
    <2>3. shard'[i] = shard[i] \/ (shard[i].st = "running" /\ shard'[i].att = shard[i].att)
      BY <2>1, <2>2
    <2> QED BY <1>1, <2>3
  <1>5. CASE JanEscalate
    BY <1>1, <1>5 DEF JanEscalate, StuckRows, RowType
  <1>6. ASSUME NEW s \in Splitters, SplitCommit(s) PROVE FALSE
    BY <1>1, <1>6 DEF SplitCommit
  <1>7. ASSUME NEW p \in Parsers, ParseClaim(p)
        PROVE  /\ shard[i].st \in {"done", "skipped"} => shard'[i].st = shard[i].st
               /\ shard'[i].att >= shard[i].att
    <2> DEFINE k == par[p].idx
    <2>1. /\ k \in 0..(n-1) /\ shard[k].st \in {"pending", "failed"}
          /\ shard' = [shard EXCEPT ![k].st = "running", ![k].att = shard[k].att + 1,
                                    ![k].owner = p, ![k].lease = TRUE]
      BY <1>7 DEF ParseClaim, Claimable
    <2> HIDE DEF k
    <2>2. CASE i = k
      <3>1. shard'[i].att = shard[i].att + 1
        BY <1>1, <2>1, <2>2 DEF RowType
      <3> QED BY <1>1, <2>1, <2>2, <3>1
    <2>3. CASE i # k
      BY <1>1, <2>1, <2>3
    <2> QED BY <2>2, <2>3
  <1>8. ASSUME NEW p \in Parsers, ParseResplit(p) \/ ParseFinish(p)
        PROVE  /\ shard[i].st \in {"done", "skipped"} => shard'[i].st = shard[i].st
               /\ shard'[i].att >= shard[i].att
    <2>1. doc.st # "none"
      BY <1>1 DEF IInv, NoRowsWithoutDocument
    <2>2. par[p].idx \in 0..(n-1) /\ shard[par[p].idx].st = "running"
      BY <1>8, <2>1, EndsRunningRow
    <2>3. /\ \A j \in 0..(n-1) : j # par[p].idx => shard'[j] = shard[j]
          /\ shard'[par[p].idx].att = shard[par[p].idx].att
      <3>1. CASE ParseResplit(p)
        <4>1. /\ \A j \in 0..(n-1) : j # par[p].idx => shard'[j] = shard[j]
              /\ shard'[par[p].idx] = [shard[par[p].idx] EXCEPT !.st = "skipped"]
          BY <3>1, ResplitRows, BaseOfIInv
        <4>2. shard[par[p].idx] \in RowType
          BY <1>1, <2>2
        <4> QED BY <4>1, <4>2 DEF RowType
      <3>2. CASE ParseFinish(p)
        BY <2>1, <3>2, FinishRows
      <3> QED BY <1>8, <3>1, <3>2
    <2> QED BY <1>1, <2>2, <2>3
  <1>9. ASSUME NEW k \in 0..(n-1), LeaseExpire(k)
        PROVE  /\ shard[i].st \in {"done", "skipped"} => shard'[i].st = shard[i].st
               /\ shard'[i].att >= shard[i].att
    BY <1>1, <1>9 DEF LeaseExpire, RowType
  <1> QED BY <1>2, <1>3, <1>4, <1>5, <1>6, <1>7, <1>8, <1>9, RowWriters, BaseOfIInv DEF RowStep

\* While no worker outlives its lease, a finished or replaced shard never comes
\* back to life, and the attempts that the ladder and the escalation read only
\* grow.  (An overrunning parser may finish a row that was re-split under it.)
THEOREM FinishedIsFinal == ASSUME ~Overrun PROVE Spec => DoneIsFinal
  <1>1. IInv /\ ClaimExclusive /\ [Next]_vars =>
          [\A i \in 0..(n-1) : i \in 0..(n'-1) =>
             /\ shard[i].st \in {"done", "skipped"} => shard'[i].st = shard[i].st
             /\ shard'[i].att >= shard[i].att]_vars
    BY FinalStep
  <1> QED BY <1>1, ClaimInvariant, PTL DEF Spec, DoneIsFinal
-----------------------------------------------------------------------------
\* What the operations on the streams do to the copies of a job.

\* XADD: the job is there now, and nothing else.
LEMMA BagAdds == ASSUME NEW B, NEW S, NEW x
                 PROVE  BagIn(x, B (+) SetToBag(S)) <=> BagIn(x, B) \/ x \in S
  BY DEF BagIn, BagToSet, (+), SetToBag

\* XACK and XDEL: nothing new, every other job stays, and so does a second copy.
LEMMA BagTakes == ASSUME NEW B, IsABag(B), NEW j, NEW x
                  PROVE  /\ BagIn(x, B (-) SetToBag({j})) => BagIn(x, B)
                         /\ BagIn(x, B) /\ x # j => BagIn(x, B (-) SetToBag({j}))
                         /\ BagIn(x, B) /\ B[x] # 1 => BagIn(x, B (-) SetToBag({j}))
  BY DEF BagIn, BagToSet, IsABag, (-), SetToBag

\* An emptied stream holds no job.
LEMMA BagEmpty == \A x : ~BagIn(x, EmptyBag)
  BY DEF BagIn, BagToSet, EmptyBag, SetToBag

\* The jobs of the three kinds differ, and those of different shards do.
LEMMA JobsDiffer == /\ \A i : EmbedJob # ParseJob(i) /\ SplitJob # ParseJob(i)
                    /\ EmbedJob # SplitJob
                    /\ \A i, k : ParseJob(i) = ParseJob(k) => i = k
  BY DEF EmbedJob, SplitJob, ParseJob
-----------------------------------------------------------------------------
\* Any trace of an embed job: on the stream, in hand, or about to be sent.
EmbedWork ==
  \/ BagIn(EmbedJob, waiting) \/ BagIn(EmbedJob, stranded)
  \/ \E e \in Embedders : emb[e].pc # "idle"
  \/ \E p \in Parsers : par[p].pc = "embed"
  \/ jan.sees = "settled"

\* An embed job exists only for a settled document, as long as its shards are
\* those of the plan.
EmbedIsDue ==
  /\ api = "new" => ~EmbedWork /\ doc.total = 0
  /\ doc.st # "none" /\ n <= PlanLen /\ EmbedWork => BookSettled(doc)

\* What the embedder took as the text of the document, and what it wrote of a
\* document it called ready, is every shard.
SnapshotWhole ==
  /\ \A e \in Embedders :
       emb[e].pc = "write" /\ doc.st # "none" /\ n = PlanLen /\ doc.failed = 0 =>
         emb[e].snap = 0..(n-1)
  /\ doc.st = "ready" /\ n = PlanLen => chunks = 0..(n-1)

\* A dead embedder's job is an embed job it had in hand.
LEMMA StrandSource == ASSUME NEW h, NEW j, NEW x, Strand(h, j), BagIn(x, stranded')
                      PROVE  BagIn(x, stranded) \/ x = j
  BY BagAdds DEF Strand

\* So is one whose acknowledgement was lost.
LEMMA AckedSource == ASSUME NEW k, NEW h, NEW j, NEW x, Acked(k, h, j), BagIn(x, stranded')
                     PROVE  BagIn(x, stranded) \/ x = j
  BY StrandSource DEF Acked

\* A new job on the stream is the one enqueued.
LEMMA EnqueueSource == ASSUME NEW j, NEW x, Enqueue(j), BagIn(x, waiting')
                       PROVE  BagIn(x, waiting) \/ x = j
  BY BagAdds DEF Enqueue

\* Handing out a job adds none.
LEMMA DeliverSource == ASSUME NEW j, NEW x, IsABag(waiting), Deliver(j)
                       PROVE  BagIn(j, waiting) /\ (BagIn(x, waiting') => BagIn(x, waiting))
  BY BagTakes DEF Deliver

\* An embed job begins with a settle test that succeeds: that of finishParse, or
\* that of a janitor pass.  All else moves it around.
LEMMA EmbedWorkSource ==
  ASSUME IInv, [Next]_vars, EmbedWork'
  PROVE  EmbedWork \/ BookSettled(doc')
  <1>1. /\ par \in [Parsers -> ParserType] /\ emb \in [Embedders -> EmbedderType] /\ jan \in JanitorType
        /\ IsABag(waiting) /\ IsABag(stranded)
    BY DEF IInv, TypeOK, IsJobBag
  <1> DEFINE WaitKept   == BagIn(EmbedJob, waiting') => EmbedWork
             StrandKept == BagIn(EmbedJob, stranded') => EmbedWork
             EmbKept    == \A e \in Embedders : emb'[e].pc # "idle" => EmbedWork
             ParKept    == \A p \in Parsers : par'[p].pc = "embed" => EmbedWork
             JanKept    == jan'.sees = "settled" => EmbedWork
  <1>2. ASSUME WaitKept, StrandKept, EmbKept, ParKept, JanKept PROVE EmbedWork
    BY <1>2 DEF EmbedWork
  <1>3. /\ waiting' = waiting => WaitKept
        /\ stranded' = stranded => StrandKept
        /\ emb' = emb => EmbKept
        /\ par' = par => ParKept
        /\ jan' = jan => JanKept
    BY DEF EmbedWork
  <1>4. ASSUME NEW j, Enqueue(j), j = EmbedJob => EmbedWork PROVE WaitKept
    BY <1>4, EnqueueSource DEF EmbedWork
  <1>5. ASSUME NEW j, Deliver(j) PROVE WaitKept
    BY <1>1, <1>5, DeliverSource DEF EmbedWork
  <1>6. ASSUME NEW k, NEW h, NEW j, Acked(k, h, j) \/ Strand(h, j), j = EmbedJob => EmbedWork PROVE StrandKept
    BY <1>6, AckedSource, StrandSource DEF EmbedWork
  <1>7. ASSUME NEW e \in Embedders, emb[e].pc # "idle", NEW w, emb' = [emb EXCEPT ![e] = w] PROVE EmbKept
    BY <1>1, <1>7 DEF EmbedWork
  <1>8. ASSUME NEW p \in Parsers, NEW w, par' = [par EXCEPT ![p] = w], w.pc = "embed" => EmbedWork PROVE ParKept
    BY <1>1, <1>8 DEF EmbedWork
  <1> HIDE DEF WaitKept, StrandKept, EmbKept, ParKept, JanKept
  <1>9. ASSUME NEW p \in Parsers, ParseIdle(p) PROVE ParKept
    BY <1>8, <1>9 DEF ParseIdle, IdleParser
  <1>10. CASE ApiInsert \/ ApiEnqueue \/ ApiDies
    BY <1>2, <1>3, <1>4, <1>10, JobsDiffer DEF ApiInsert, ApiEnqueue, ApiDies
  <1>11. ASSUME NEW s \in Splitters, SplitStep(s) \/ SplitAbort(s) PROVE EmbedWork
    <2>1. emb' = emb /\ par' = par /\ jan' = jan
      BY <1>11 DEF SplitStep, SplitRead, SplitAlready, SplitProbe, SplitFetch, SplitGone,
                   SplitCommit, SplitConflict, SplitEnqueue, SplitAbort
    <2>2. waiting' = waiting \/ Deliver(SplitJob) \/ \E i : Enqueue(ParseJob(i))
      BY <1>11 DEF SplitStep, SplitRead, SplitAlready, SplitProbe, SplitFetch, SplitGone,
                   SplitCommit, SplitConflict, SplitEnqueue, SplitAbort
    <2>3. stranded' = stranded \/ \E k, h : Acked(k, h, SplitJob) \/ Strand(h, SplitJob)
      BY <1>11 DEF SplitStep, SplitRead, SplitAlready, SplitProbe, SplitFetch, SplitGone,
                   SplitCommit, SplitConflict, SplitEnqueue, SplitAbort, SplitAck
    <2> QED BY <1>2, <1>3, <1>4, <1>5, <1>6, <2>1, <2>2, <2>3, JobsDiffer
  <1>12. ASSUME NEW e \in Embedders, EmbedStep(e) \/ EmbedBackendFails(e) \/ EmbedAbort(e) PROVE EmbedWork
    <2>1. EmbedWork
      BY <1>1, <1>12, DeliverSource
         DEF EmbedWork, EmbedStep, EmbedRead, EmbedLoad, EmbedEmpty, EmbedWrite, EmbedVanished,
             EmbedBackendFails, EmbedAbort
    <2> QED BY <2>1
  <1>13. CASE JanStep \/ JanAbort \/ \E j \in DOMAIN stranded : JanReclaimDies(j)
    <2>1. CASE JanDocs /\ doc.st = "parsing" /\ BookSettled(doc)
      BY <2>1 DEF JanDocs
    <2>2. JanKept \/ (JanDocs /\ doc.st = "parsing" /\ BookSettled(doc))
      <3>1. ASSUME jan'.sees = jan.sees \/ jan'.sees = "none" PROVE JanKept
        BY <3>1 DEF JanKept, EmbedWork
      <3>2. IdleJanitor.sees = "none"
        BY DEF IdleJanitor
      <3>3. CASE JanDocs
        BY <1>1, <3>1, <3>3 DEF JanDocs, JanitorType, JanKept
      <3>4. CASE JanReap \/ JanEscalate \/ JanRequeue \/ JanReclaimed \/ JanEmbedSweep
        BY <1>1, <3>1, <3>4 DEF JanReap, JanEscalate, JanRequeue, JanReclaimed, JanEmbedSweep, JanitorType
      <3>5. CASE JanShardRead
        BY <1>1, <3>1, <3>5 DEF JanShardRead, JanitorType
      <3>6. CASE JanShardGrace \/ JanShardSweep \/ JanAbort \/ \E j \in DOMAIN stranded : JanReclaimDies(j)
        BY <3>1, <3>2, <3>6 DEF JanShardGrace, JanShardSweep, JanAbort, JanReclaimDies
      <3>7. ASSUME NEW j, JanReclaim(j) PROVE JanKept
        BY <3>1, <3>7 DEF JanReclaim
      <3> QED BY <1>13, <3>3, <3>4, <3>5, <3>6, <3>7 DEF JanStep
    <2>3. par' = par /\ emb' = emb
      BY <1>13 DEF JanStep, JanReap, JanEscalate, JanDocs, JanRequeue, JanReclaimed, JanEmbedSweep,
             JanShardRead, JanShardGrace, JanShardSweep, JanReclaim, JanReclaimDies, JanAbort
    <2>4. WaitKept
      <3>1. CASE JanShardSweep
        BY <3>1, BagAdds, JobsDiffer DEF JanShardSweep, WaitKept, EmbedWork
      <3>2. CASE JanRequeue \/ JanEmbedSweep
        BY <1>3, <1>4, <3>2, JobsDiffer DEF JanRequeue, JanEmbedSweep, EmbedWork
      <3>3. ASSUME NEW j, JanReclaim(j) \/ JanReclaimDies(j) PROVE WaitKept
        BY <1>4, <3>3 DEF JanReclaim, JanReclaimDies, EmbedWork
      <3>4. CASE waiting' = waiting
        BY <1>3, <3>4
      <3> QED BY <1>13, <3>1, <3>2, <3>3, <3>4
              DEF JanStep, JanReap, JanEscalate, JanDocs, JanReclaimed,
                  JanShardRead, JanShardGrace, JanAbort
    <2>5. StrandKept
      <3>1. ASSUME NEW j, JanReclaim(j) PROVE StrandKept
        BY <1>1, <3>1, BagTakes DEF JanReclaim, StrandKept, EmbedWork
      <3> QED BY <1>3, <1>13, <3>1
              DEF JanStep, JanReap, JanEscalate, JanDocs, JanRequeue, JanReclaimed, JanEmbedSweep,
             JanShardRead, JanShardGrace, JanShardSweep, JanReclaimDies, JanAbort
    <2> QED BY <1>2, <1>3, <2>1, <2>2, <2>3, <2>4, <2>5
  <1>14. CASE ReclaimLive
    <2>1. UNCHANGED <<stranded, jan>>
      BY <1>14 DEF ReclaimLive
    <2>2. ASSUME NEW p \in Parsers, par' = [par EXCEPT ![p].held = FALSE], UNCHANGED emb,
                 Enqueue(ParseJob(par[p].idx))
          PROVE  EmbedWork
      <3>1. ParKept
        BY <1>1, <2>2 DEF ParKept, EmbedWork, ParserType
      <3> QED BY <1>2, <1>3, <1>4, <2>1, <2>2, <3>1, JobsDiffer
    <2>3. ASSUME NEW e \in Embedders, emb[e].pc # "idle" PROVE EmbedWork
      BY <2>3 DEF EmbedWork
    <2>4. ASSUME Enqueue(SplitJob), UNCHANGED <<par, emb>> PROVE EmbedWork
      BY <1>2, <1>3, <1>4, <2>1, <2>4, JobsDiffer
    <2> QED BY <1>14, <2>2, <2>3, <2>4 DEF ReclaimLive
  <1>15. CASE RedisWipe
    <2>1. ~EmbedWork'
      BY <1>15, BagEmpty DEF RedisWipe, EmbedWork, IdleParser, IdleEmbedder, IdleJanitor
    <2> QED BY <2>1
  <1>16. CASE \/ UNCHANGED vars \/ (\E i \in 0..(n-1) : LeaseExpire(i))
              \/ DeleteDocument \/ RawVanish \/ RetriesExpire
    BY <1>2, <1>3, <1>16 DEF vars, LeaseExpire, DeleteDocument, RawVanish, RetriesExpire
  <1>17. ASSUME NEW p \in Parsers, ParseStep(p) \/ ParseAbort(p) PROVE EmbedWork \/ BookSettled(doc')
    <2>1. emb' = emb /\ jan' = jan
      BY <1>17 DEF ParseStep, ParseRead, ParseClaim, ParseSkip, ParseResplit, ParseVanished, ParseSubEnqueue,
                   ParseFetch, ParseGone, ParseFinish, ParseEnqueueEmbed, ParseAbort
    <2>2. WaitKept
      <3>1. \/ waiting' = waiting \/ (\E j : Deliver(j)) \/ (\E i : Enqueue(ParseJob(i)))
            \/ par[p].pc = "embed"
        BY <1>17 DEF ParseStep, ParseRead, ParseClaim, ParseSkip, ParseResplit, ParseVanished, ParseSubEnqueue,
                   ParseFetch, ParseGone, ParseFinish, ParseEnqueueEmbed, ParseAbort
      <3>2. CASE par[p].pc = "embed"
        BY <3>2 DEF WaitKept, EmbedWork
      <3> QED BY <1>3, <1>4, <1>5, <3>1, <3>2, JobsDiffer
    <2>3. StrandKept
      <3>1. \/ stranded' = stranded \/ \E k, h, i : Acked(k, h, ParseJob(i)) \/ Strand(h, ParseJob(i))
        BY <1>17 DEF ParseStep, ParseRead, ParseClaim, ParseSkip, ParseResplit, ParseVanished, ParseSubEnqueue,
                   ParseFetch, ParseGone, ParseFinish, ParseEnqueueEmbed, ParseAbort, ParseAck
      <3> QED BY <1>3, <1>6, <3>1, JobsDiffer
    <2>4. CASE ParKept
      BY <1>2, <2>1, <2>2, <2>3, <2>4, <1>3
    <2>5. CASE ~ParKept
      <3>1. ASSUME NEW i, ParseRead(p, i) PROVE ParKept
        <4> DEFINE w == [IdleParser EXCEPT !.pc = "claim", !.held = TRUE, !.idx = i, !.tot = doc.total]
        <4>1. w.pc = "claim"
          BY DEF IdleParser
        <4>2. UNCHANGED par \/ par' = [par EXCEPT ![p] = w]
          BY <3>1 DEF ParseRead
        <4> HIDE DEF w
        <4> QED BY <1>3, <1>8, <4>1, <4>2
      <3>2. ASSUME ParseSubEnqueue(p) PROVE ParKept
        <4> DEFINE w == [par[p] EXCEPT !.next = @ + 1]
        <4>1. w.pc = "subenqueue"
          BY <1>1, <3>2 DEF ParserType, ParseSubEnqueue
        <4>2. ParseIdle(p) \/ par' = [par EXCEPT ![p] = w]
          BY <3>2 DEF ParseSubEnqueue, ParseAck
        <4> HIDE DEF w
        <4> QED BY <1>8, <1>9, <4>1, <4>2
      <3>3. ASSUME ParseFetch(p) \/ ParseClaim(p) PROVE ParKept
        <4> DEFINE f    == [par[p] EXCEPT !.pc = "work"]
                   c(x) == [par[p] EXCEPT !.pc = x, !.att = shard[par[p].idx].att + 1,
                              !.lo = shard[par[p].idx].lo, !.hi = shard[par[p].idx].hi]
        <4>1. f.pc = "work" /\ \A x : c(x).pc = x
          BY <1>1 DEF ParserType
        <4>2. par' = [par EXCEPT ![p] = f] \/ \E x \in {"resplit", "fetch"} : par' = [par EXCEPT ![p] = c(x)]
          <5>1. CASE ParseFetch(p)
            BY <5>1 DEF ParseFetch
          <5>2. CASE ParseClaim(p)
            BY <1>1, <5>2 DEF ParseClaim
          <5> QED BY <3>3, <5>1, <5>2
        <4> HIDE DEF f, c
        <4> QED BY <1>8, <4>1, <4>2
      <3>4. ASSUME ParseResplit(p) PROVE ParKept
        <4> DEFINE w == [par[p] EXCEPT !.pc = "subenqueue", !.next = n, !.last = n' - 1]
        <4>1. w.pc = "subenqueue"
          BY <1>1 DEF ParserType
        <4>2. par' = [par EXCEPT ![p] = w]
          BY <3>4, ResplitRows, BaseOfIInv
        <4> HIDE DEF w
        <4> QED BY <1>8, <4>1, <4>2
      <3>5. ParseFinish(p) /\ ~ParseIdle(p)
        BY <1>9, <1>17, <2>5, <3>1, <3>2, <3>3, <3>4
           DEF ParseStep, ParseSkip, ParseVanished, ParseGone, ParseEnqueueEmbed, ParseAbort, ParseAck
      <3> QED BY <3>5 DEF ParseFinish, ParseAck
    <2> QED BY <2>4, <2>5
  <1> QED BY <1>10, <1>11, <1>12, <1>13, <1>14, <1>15, <1>16, <1>17 DEF Next
\* As long as the shards are those of the plan, no counter is ever lowered and
\* the total stays, so that a settled document stays settled.
LEMMA CountsGrow ==
  ASSUME IInv, PlanKept, [Next]_vars, doc'.st # "none", n' <= PlanLen, ~ApiInsert,
         n' = n \/ n # 0
  PROVE  /\ doc.st # "none" /\ n' = n /\ doc'.total = doc.total
         /\ doc'.done \in Nat /\ doc'.done >= doc.done
         /\ doc'.failed \in Nat /\ doc'.failed >= doc.failed
  <1>1. /\ n \in Nat /\ doc \in DocType /\ doc.done \in Nat /\ doc.failed \in Nat /\ doc.total \in Nat
        /\ PlanLen \in Nat \ {0}
    BY PlanAssumption DEF IInv, TypeOK, DocType
  <1>2. CASE RowsAlone
    BY <1>1, <1>2 DEF RowsAlone
  <1>3. CASE DeleteDocument
    BY <1>3 DEF DeleteDocument, NoDoc
  <1>4. CASE JanReap
    <2>1. n' = n /\ doc' = doc
      BY <1>4 DEF JanReap
    <2> QED BY <1>1, <2>1
  <1>5. CASE JanEscalate
    <2>1. Cardinality(StuckRows) \in Nat
      BY <1>1, StuckFinite
    <2>2. /\ doc'.st = doc.st /\ doc'.total = doc.total /\ doc'.done = doc.done
          /\ doc'.failed = doc.failed + Cardinality(StuckRows) /\ n' = n
      BY <1>1, <1>5 DEF JanEscalate, DocType
    <2> QED BY <1>1, <2>1, <2>2
  <1>6. ASSUME NEW s \in Splitters, SplitCommit(s) PROVE FALSE
    <2>1. n = 0 /\ n' = PlanLen
      BY <1>6 DEF SplitCommit
    <2> QED BY <1>1, <2>1
  <1>7. ASSUME NEW p \in Parsers, ParseClaim(p)
        PROVE  n' = n /\ doc' = doc
    BY <1>7 DEF ParseClaim
  <1>8. ASSUME NEW p \in Parsers, ParseResplit(p) PROVE FALSE
    <2>1. n' \in Nat /\ n' > n /\ par[p].idx \in 0..(n-1)
      BY <1>8, ResplitRows, BaseOfIInv
    <2>2. n > 0
      BY <1>1, <2>1
    <2>3. doc.st # "none"
      BY <2>2 DEF IInv, NoRowsWithoutDocument
    <2>4. n >= PlanLen
      BY <1>1, <2>2, <2>3 DEF PlanKept
    <2> QED BY <1>1, <2>1, <2>4
  <1>9. ASSUME NEW p \in Parsers, ParseFinish(p)
        PROVE  /\ n' = n /\ doc'.st = doc.st /\ doc'.total = doc.total
               /\ doc'.done \in {doc.done, doc.done + 1} /\ doc'.failed = doc.failed
    BY <1>1, <1>9 DEF ParseFinish, ShardsDone, DocType
  <1>10. ASSUME NEW i \in 0..(n-1), LeaseExpire(i) PROVE n' = n /\ doc' = doc
    BY <1>10 DEF LeaseExpire
  <1>11. CASE \E p \in Parsers : ParseFinish(p)
    <2>1. PICK p \in Parsers : ParseFinish(p)
      BY <1>11
    <2> QED BY <1>1, <1>9, <2>1
  <1>12. CASE n' = n /\ doc' = doc
    BY <1>1, <1>12
  <1> QED BY <1>2, <1>3, <1>4, <1>5, <1>6, <1>7, <1>8, <1>10, <1>11, <1>12, RowWriters, BaseOfIInv DEF RowStep

\* The first rows of a document are those of its split.
LEMMA FirstRows == ASSUME IInv, [Next]_vars, n = 0, n' # 0 PROVE \E s \in Splitters : SplitCommit(s)
  <1>1. ASSUME NEW p \in Parsers, ParseResplit(p) PROVE FALSE
    <2>1. par[p].idx \in 0..(n-1)
      BY <1>1, ResplitRows, BaseOfIInv
    <2> QED BY <2>1
  <1> QED BY <1>1, RowWriters, BaseOfIInv
          DEF RowsAlone, RowStep, ApiInsert, DeleteDocument, JanReap, JanEscalate,
              ParseClaim, ParseFinish, LeaseExpire

\* Before its split a document has no embed job.
LEMMA NoEmbedBefore ==
  ASSUME IInv, PlanKept, EmbedIsDue, doc.st # "none", n = 0 PROVE ~EmbedWork
  <1>1. doc.total = 0
    BY PlanAssumption DEF PlanKept
  <1> QED BY <1>1, PlanAssumption DEF EmbedIsDue, BookSettled

\* Every step sends embed jobs for settled documents only.
LEMMA EmbedDueStep == ASSUME IInv, PlanKept, EmbedIsDue, [Next]_vars PROVE EmbedIsDue'
  <1>1. IInv'
    BY Inductive
  <1>2. ASSUME api' = "new" PROVE ~EmbedWork' /\ doc'.total = 0
    <2>1. api = "new" /\ ~ApiInsert
      <3>1. CASE RowsAlone
        BY <1>2, <3>1 DEF RowsAlone, ApiInsert
      <3>2. CASE RowStep
        BY <1>2, <3>2 DEF RowStep, ApiInsert, DeleteDocument, JanReap, JanEscalate, SplitCommit,
                          ParseClaim, ParseResplit, ParseFinish, LeaseExpire
      <3> QED BY <3>1, <3>2, RowWriters, BaseOfIInv
    <2>2. doc.st = "none" /\ n = 0 /\ doc.total = 0 /\ ~EmbedWork /\ doc \in DocType
          /\ \A p \in Parsers : par[p].idx \in Nat
      BY <2>1 DEF IInv, TypeOK, ParserType, NewIsAbsent, NoRowsWithoutDocument, EmbedIsDue
    <2>3. doc'.total = doc.total
      <3>1. CASE RowsAlone
        BY <3>1 DEF RowsAlone
      <3>2. CASE RowStep
        <4>1. CASE JanEscalate
          BY <2>2, <4>1 DEF JanEscalate, DocType
        <4>2. CASE JanReap
          BY <4>2 DEF JanReap
        <4>3. ASSUME NEW p \in Parsers, ParseClaim(p) \/ ParseResplit(p) \/ ParseFinish(p)
              PROVE  doc'.total = doc.total
          BY <2>2, <4>3 DEF ParseClaim, Claimable, ParseResplit, ParseFinish
        <4> QED BY <2>1, <2>2, <3>2, <4>1, <4>2, <4>3
                DEF RowStep, DeleteDocument, SplitCommit, LeaseExpire
      <3> QED BY <3>1, <3>2, RowWriters, BaseOfIInv
    <2> QED BY <2>2, <2>3, EmbedWorkSource DEF BookSettled
  <1>3. ASSUME doc'.st # "none", n' <= PlanLen, EmbedWork' PROVE BookSettled(doc')
    <2>1. CASE EmbedWork
      <3>1. ~ApiInsert
        BY <2>1 DEF ApiInsert, EmbedIsDue
      <3>2. n' = n \/ n # 0
        <4>1. ASSUME n = 0, n' # n PROVE FALSE
          <5>1. \E s \in Splitters : SplitCommit(s)
            BY <4>1, FirstRows
          <5>2. doc.st # "none"
            BY <5>1 DEF SplitCommit
          <5> QED BY <2>1, <4>1, <5>2, NoEmbedBefore
        <4> QED BY <4>1
      <3>3. /\ doc.st # "none" /\ n' = n /\ doc'.total = doc.total
            /\ doc'.done \in Nat /\ doc'.done >= doc.done
            /\ doc'.failed \in Nat /\ doc'.failed >= doc.failed
        BY <1>3, <3>1, <3>2, CountsGrow
      <3>4. BookSettled(doc)
        BY <1>3, <2>1, <3>3 DEF EmbedIsDue
      <3>5. doc.done \in Nat /\ doc.failed \in Nat /\ doc.total \in Nat
        BY DEF IInv, TypeOK, DocType
      <3> QED BY <3>3, <3>4, <3>5 DEF BookSettled
    <2> QED BY <1>3, <2>1, EmbedWorkSource
  <1> QED BY <1>2, <1>3 DEF EmbedIsDue
\* With no failure counted, a settled document of the plan has all shards done.
LEMMA AllDone ==
  ASSUME IInv, PlanKept, DoneCountsRows, ~Overrun, BookSettled(doc),
         doc.st # "none", n = PlanLen, doc.failed = 0
  PROVE  DoneRows = 0..(n-1)
  <1>1. /\ n \in Nat /\ doc.done \in Nat /\ doc.total = n
    BY PlanAssumption DEF IInv, TypeOK, DocType, PlanKept
  <1>2. IsFiniteSet(0..(n-1)) /\ Cardinality(0..(n-1)) = n /\ DoneRows \in SUBSET (0..(n-1))
    BY <1>1, RowsFinite DEF DoneRows
  <1>3. Cardinality(DoneRows) >= n
    BY <1>1 DEF DoneCountsRows, BookSettled
  <1>4. Cardinality(DoneRows) \in Nat /\ Cardinality(DoneRows) <= Cardinality(0..(n-1))
    BY <1>2, FewerRows
  <1>5. Cardinality(0..(n-1)) = Cardinality(DoneRows)
    BY <1>1, <1>2, <1>3, <1>4
  <1> QED BY <1>2, <1>5, FS_Subset

\* An embedder writes the snapshot it loaded.
LEMMA SnapSource ==
  ASSUME IInv, [Next]_vars, NEW e \in Embedders, emb'[e].pc = "write"
  PROVE  EmbedLoad(e) \/ (emb[e].pc = "write" /\ emb'[e].snap = emb[e].snap)
  <1>1. emb \in [Embedders -> EmbedderType]
    BY DEF IInv, TypeOK
  <1>2. CASE emb' = emb
    BY <1>2
  <1>3. ASSUME NEW d \in Embedders, EmbedIdle(d) PROVE emb[e].pc = "write" /\ emb'[e].snap = emb[e].snap
    BY <1>1, <1>3 DEF EmbedIdle, IdleEmbedder
  <1>4. ASSUME NEW d \in Embedders, EmbedRead(d) PROVE emb[e].pc = "write" /\ emb'[e].snap = emb[e].snap
    <2> DEFINE w == [IdleEmbedder EXCEPT !.pc = "load", !.held = TRUE]
    <2>1. w.pc = "load"
      BY DEF IdleEmbedder
    <2>2. emb' = emb \/ emb' = [emb EXCEPT ![d] = w]
      BY <1>4 DEF EmbedRead
    <2> HIDE DEF w
    <2> QED BY <1>1, <2>1, <2>2
  <1>5. ASSUME NEW d \in Embedders, EmbedLoad(d), d # e PROVE emb[e].pc = "write" /\ emb'[e].snap = emb[e].snap
    BY <1>1, <1>5 DEF EmbedLoad
  <1>6. ASSUME NEW d \in Embedders, emb' = [emb EXCEPT ![d].held = FALSE]
        PROVE  emb[e].pc = "write" /\ emb'[e].snap = emb[e].snap
    BY <1>1, <1>6 DEF EmbedderType
  <1>7. CASE RedisWipe
    BY <1>7 DEF RedisWipe, IdleEmbedder
  <1>8. \/ emb' = emb \/ RedisWipe
        \/ \E d \in Embedders : \/ EmbedIdle(d) \/ EmbedRead(d) \/ EmbedLoad(d)
                                \/ emb' = [emb EXCEPT ![d].held = FALSE]
    <2>1. CASE UNCHANGED vars
      BY <2>1 DEF vars
    <2>2. CASE ApiInsert \/ ApiEnqueue \/ ApiDies
      BY <2>2 DEF ApiInsert, ApiEnqueue, ApiDies
    <2>3. ASSUME NEW s \in Splitters, SplitStep(s) \/ SplitAbort(s) PROVE emb' = emb
      BY <2>3 DEF SplitStep, SplitRead, SplitAlready, SplitProbe, SplitFetch, SplitGone,
                  SplitCommit, SplitConflict, SplitEnqueue, SplitAbort
    <2>4. ASSUME NEW p \in Parsers, ParseStep(p) \/ ParseAbort(p) PROVE emb' = emb
      BY <2>4 DEF ParseStep, ParseRead, ParseClaim, ParseSkip, ParseResplit, ParseVanished, ParseSubEnqueue,
                  ParseFetch, ParseGone, ParseFinish, ParseEnqueueEmbed, ParseAbort
    <2>5. ASSUME NEW d \in Embedders, EmbedStep(d) \/ EmbedBackendFails(d) \/ EmbedAbort(d)
          PROVE  EmbedIdle(d) \/ EmbedRead(d) \/ EmbedLoad(d)
      BY <2>5 DEF EmbedStep, EmbedEmpty, EmbedWrite, EmbedVanished, EmbedBackendFails, EmbedAbort, EmbedAck
    <2>6. CASE JanStep \/ JanAbort \/ \E j \in DOMAIN stranded : JanReclaimDies(j)
      BY <2>6 DEF JanStep, JanReap, JanEscalate, JanDocs, JanRequeue, JanReclaimed, JanEmbedSweep,
                  JanShardRead, JanShardGrace, JanShardSweep, JanReclaim, JanReclaimDies, JanAbort
    <2>7. CASE \/ (\E i \in 0..(n-1) : LeaseExpire(i)) \/ DeleteDocument \/ RawVanish \/ RetriesExpire
      BY <2>7 DEF LeaseExpire, DeleteDocument, RawVanish, RetriesExpire
    <2>8. CASE ReclaimLive
      BY <2>8 DEF ReclaimLive
    <2> QED BY <2>1, <2>2, <2>3, <2>4, <2>5, <2>6, <2>7, <2>8 DEF Next
  <1> QED BY <1>2, <1>3, <1>4, <1>5, <1>6, <1>7, <1>8

\* Only phase W of an embedder calls a document ready, and only it or a deletion
\* writes chunks.
LEMMA ReadySource ==
  ASSUME IInv, [Next]_vars, doc'.st = "ready"
  PROVE  (\E e \in Embedders : EmbedWrite(e)) \/ (doc.st = "ready" /\ chunks' = chunks)
  <1>1. doc \in DocType
    BY DEF IInv, TypeOK
  <1>2. CASE UNCHANGED vars
    BY <1>2 DEF vars
  <1>3. CASE ApiInsert \/ ApiEnqueue \/ ApiDies
    BY <1>3 DEF ApiInsert, ApiEnqueue, ApiDies, NoDoc
  <1>4. ASSUME NEW s \in Splitters, SplitStep(s) \/ SplitAbort(s) PROVE doc.st = "ready" /\ chunks' = chunks
    BY <1>1, <1>4 DEF SplitStep, SplitRead, SplitAlready, SplitProbe, SplitFetch, SplitGone, SplitCommit,
                      SplitConflict, SplitEnqueue, SplitAbort, SetDocState, DocType
  <1>5. ASSUME NEW p \in Parsers, ParseStep(p) \/ ParseAbort(p) PROVE doc.st = "ready" /\ chunks' = chunks
    BY <1>1, <1>5 DEF ParseStep, ParseRead, ParseClaim, ParseSkip, ParseResplit, ParseVanished, ParseSubEnqueue,
                      ParseFetch, ParseGone, ParseFinish, ParseEnqueueEmbed, ParseAbort, SetDocState, DocType
  <1>6. ASSUME NEW e \in Embedders, EmbedStep(e) \/ EmbedBackendFails(e) \/ EmbedAbort(e), ~EmbedWrite(e)
        PROVE  doc.st = "ready" /\ chunks' = chunks
    BY <1>1, <1>6 DEF EmbedStep, EmbedRead, EmbedLoad, EmbedEmpty, EmbedVanished, EmbedBackendFails,
                      EmbedAbort, SetDocState, DocType
  <1>7. CASE JanStep \/ JanAbort \/ \E j \in DOMAIN stranded : JanReclaimDies(j)
    BY <1>1, <1>7 DEF JanStep, JanReap, JanEscalate, JanDocs, JanRequeue, JanReclaimed, JanEmbedSweep,
                      JanShardRead, JanShardGrace, JanShardSweep, JanReclaim, JanReclaimDies, JanAbort, DocType
  <1>8. CASE \/ (\E i \in 0..(n-1) : LeaseExpire(i)) \/ ReclaimLive \/ DeleteDocument \/ RawVanish
             \/ RetriesExpire \/ RedisWipe
    BY <1>8 DEF LeaseExpire, ReclaimLive, DeleteDocument, RawVanish, RetriesExpire, RedisWipe, NoDoc
  <1> QED BY <1>2, <1>3, <1>4, <1>5, <1>6, <1>7, <1>8 DEF Next

\* Every step keeps the snapshots whole: an embed job finds the document settled,
\* a settled document without failures is done, and done rows stay done.
LEMMA SnapshotStep ==
  ASSUME IInv, PlanKept, EmbedIsDue, DoneCountsRows, SnapshotWhole, ~Overrun, [Next]_vars
  PROVE  SnapshotWhole'
  <1>1. ASSUME NEW e \in Embedders, emb'[e].pc = "write", doc'.st # "none", n' = PlanLen, doc'.failed = 0
        PROVE  emb'[e].snap = 0..(n'-1)
    <2>0. PlanLen \in Nat \ {0} /\ doc.failed \in Nat
      BY PlanAssumption DEF IInv, TypeOK, DocType
    <2>1. EmbedWork
      <3>1. emb[e].pc # "idle"
        BY <1>1, SnapSource DEF EmbedLoad
      <3> QED BY <3>1 DEF EmbedWork
    <2>2. ~ApiInsert
      BY <2>1 DEF ApiInsert, EmbedIsDue
    <2>3. n' = n \/ n # 0
      <3>1. ASSUME n = 0, n' # n PROVE FALSE
        <4>1. \E s \in Splitters : SplitCommit(s)
          BY <3>1, FirstRows
        <4>2. doc.st # "none"
          BY <4>1 DEF SplitCommit
        <4> QED BY <2>1, <3>1, <4>2, NoEmbedBefore
      <3> QED BY <3>1
    <2>4. n' <= PlanLen
      BY <1>1, <2>0
    <2>5. doc.st # "none" /\ n' = n /\ doc'.failed \in Nat /\ doc'.failed >= doc.failed
      BY <1>1, <2>2, <2>3, <2>4, CountsGrow
    <2>6. doc.failed = 0
      BY <1>1, <2>0, <2>5
    <2>7. CASE EmbedLoad(e)
      <3>1. BookSettled(doc)
        BY <1>1, <2>1, <2>4, <2>5 DEF EmbedIsDue
      <3>2. DoneRows = 0..(n-1)
        BY <1>1, <2>5, <2>6, <3>1, AllDone
      <3>3. emb'[e].snap = DoneRows
        BY <2>7 DEF EmbedLoad, IInv, TypeOK, EmbedderType
      <3> QED BY <2>5, <3>2, <3>3
    <2>8. CASE emb[e].pc = "write" /\ emb'[e].snap = emb[e].snap
      BY <1>1, <2>5, <2>6, <2>8 DEF SnapshotWhole
    <2> QED BY <1>1, <2>7, <2>8, SnapSource
  <1>2. ASSUME doc'.st = "ready", n' = PlanLen PROVE chunks' = 0..(n'-1)
    <2>1. ASSUME NEW e \in Embedders, EmbedWrite(e) PROVE chunks' = 0..(n'-1)
      <3>1. doc.failed = 0 /\ chunks' = emb[e].snap /\ n' = n /\ emb[e].pc = "write" /\ doc.st # "none"
        BY <1>2, <2>1 DEF EmbedWrite, RebuiltChunks, IInv, TypeOK, DocType
      <3> QED BY <1>2, <3>1 DEF SnapshotWhole
    <2>2. CASE doc.st = "ready" /\ chunks' = chunks
      <3>0. PlanLen \in Nat \ {0}
        BY PlanAssumption
      <3>1. ~ApiInsert
        BY <2>2 DEF ApiInsert, IInv, NewIsAbsent
      <3>2. n' = n \/ n # 0
        <4>1. ASSUME NEW s \in Splitters, SplitCommit(s) PROVE FALSE
          BY <1>2, <4>1 DEF SplitCommit, IInv, TypeOK, DocType
        <4> QED BY <4>1, FirstRows
      <3>3. n' <= PlanLen
        BY <1>2, <3>0
      <3>4. n' = n
        BY <1>2, <3>1, <3>2, <3>3, CountsGrow
      <3> QED BY <1>2, <2>2, <3>4 DEF SnapshotWhole
    <2> QED BY <1>2, <2>1, <2>2, ReadySource
  <1> QED BY <1>1, <1>2 DEF SnapshotWhole

\* The facts about embed jobs and snapshots hold in every reachable state.
LEMMA ReadyInvariant ==
  ASSUME ~Overrun
  PROVE  Spec => [](IInv /\ PlanKept /\ EmbedIsDue /\ SnapshotWhole)
  <1>1. Init => EmbedIsDue /\ SnapshotWhole
    BY BagEmpty DEF Init, EmbedIsDue, EmbedWork, SnapshotWhole, NoDoc, IdleParser, IdleEmbedder, IdleJanitor
  <1>2. ASSUME IInv, PlanKept, EmbedIsDue, ClaimExclusive, DoneCountsRows, SnapshotWhole, [Next]_vars
        PROVE  EmbedIsDue' /\ SnapshotWhole'
    BY <1>2, EmbedDueStep, SnapshotStep
  <1> QED BY <1>1, <1>2, CountInvariant, DoneCountInvariant, PTL DEF Spec

\* While no worker outlives its lease and no shard was re-split, a document
\* that is called ready has the text of every page in its chunks, whatever the
\* embedders, their retries and the janitor's sweeps do at the same time.
THEOREM ReadyUnlessResplit == ASSUME ~Overrun PROVE Spec => [](n = PlanLen => ReadyIsComplete)
  <1>1. ASSUME IInv, SnapshotWhole, n = PlanLen, doc.st = "ready", NEW p \in 1..Pages
        PROVE  \E i \in chunks : i < n /\ shard[i].lo <= p /\ p <= shard[i].hi
    <2>1. n \in Nat /\ n > 0 /\ chunks = 0..(n-1)
      BY <1>1, PlanAssumption DEF SnapshotWhole
    <2>2. \E i \in 0..(n-1) : shard[i].lo <= p /\ p <= shard[i].hi
      BY <1>1, <2>1 DEF IInv, PagesCovered
    <2> QED BY <2>1, <2>2
  <1>2. IInv /\ SnapshotWhole => (n = PlanLen => ReadyIsComplete)
    BY <1>1 DEF ReadyIsComplete
  <1> QED BY <1>2, ReadyInvariant, PTL
-----------------------------------------------------------------------------
\* The steps by which parser p gives up its job.
Ends(p) == \/ ParseSkip(p) \/ ParseVanished(p) \/ ParseSubEnqueue(p) \/ ParseGone(p)
           \/ ParseFinish(p) \/ ParseEnqueueEmbed(p) \/ ParseAbort(p)

\* A job is in the hands of a parser.
Carries(p, i) == par[p].pc # "idle" /\ par[p].held /\ par[p].idx = i

\* The life of a job in the hands of a parser: it is read, claimed, worked on or
\* replaced, and given up.
ParserMove(p) ==
  \/ par'[p].pc = "idle" /\ (par[p].pc = "idle" \/ Ends(p))
  \/ par'[p].pc = "claim" /\ par'[p].held /\ par[p].pc = "idle"
  \/ /\ par[p].pc # "idle" /\ par'[p].idx = par[p].idx /\ par'[p].held = par[p].held
     /\ \/ par'[p].pc = par[p].pc
        \/ ParseClaim(p) /\ par'[p].pc \in {"resplit", "fetch"}
        \/ ParseResplit(p) \/ ParseFinish(p)
        \/ ParseFetch(p) /\ par'[p].pc = "work"

\* Unless a worker outlives the idle limit or Redis is wiped, no parser does
\* anything else.
LEMMA ParserMoves ==
  ASSUME IInv, [Next]_vars, ~Overrun, ~RedisLoss, NEW p \in Parsers
  PROVE  ParserMove(p)
  <1>1. par \in [Parsers -> ParserType] /\ par[p] \in ParserType
    BY DEF IInv, TypeOK
  <1>2. ASSUME par' = par PROVE ParserMove(p)
    BY <1>2 DEF ParserMove
  <1>3. ASSUME NEW q \in Parsers, ParseStep(q) \/ ParseAbort(q) PROVE ParserMove(p)
    <2>1. \A w : par' = [par EXCEPT ![q] = w] => IF q = p THEN par'[p] = w ELSE par'[p] = par[p]
      BY <1>1
    <2>2. ASSUME q # p, \E w : par' = [par EXCEPT ![q] = w] PROVE ParserMove(p)
      BY <2>1, <2>2 DEF ParserMove
    <2>3. ASSUME NEW i, ParseRead(q, i) PROVE ParserMove(p)
      <3> DEFINE w == [IdleParser EXCEPT !.pc = "claim", !.held = TRUE, !.idx = i, !.tot = doc.total]
      <3>1. w.pc = "claim" /\ w.held
        BY DEF IdleParser
      <3>2. par' = par \/ par' = [par EXCEPT ![q] = w]
        BY <2>3 DEF ParseRead
      <3>3. par[q].pc = "idle"
        BY <2>3 DEF ParseRead
      <3> HIDE DEF w
      <3> QED BY <1>2, <2>1, <2>2, <3>1, <3>2, <3>3 DEF ParserMove
    <2>4. CASE ParseClaim(q)
      <3> DEFINE c(x) == [par[q] EXCEPT !.pc = x, !.att = shard[par[q].idx].att + 1,
                                        !.lo = shard[par[q].idx].lo, !.hi = shard[par[q].idx].hi]
      <3>1. \A x : c(x).pc = x /\ c(x).held = par[q].held /\ c(x).idx = par[q].idx
        BY <1>1 DEF ParserType
      <3>2. \E x \in {"resplit", "fetch"} : par' = [par EXCEPT ![q] = c(x)]
        BY <1>1, <2>4 DEF ParseClaim
      <3>3. par[q].pc # "idle"
        BY <2>4 DEF ParseClaim
      <3> HIDE DEF c
      <3> QED BY <2>1, <2>2, <2>4, <3>1, <3>2, <3>3 DEF ParserMove
    <2>5. CASE ParseFetch(q)
      <3> DEFINE w == [par[q] EXCEPT !.pc = "work"]
      <3>1. w.pc = "work" /\ w.held = par[q].held /\ w.idx = par[q].idx
        BY <1>1 DEF ParserType
      <3>2. par' = [par EXCEPT ![q] = w] /\ par[q].pc # "idle"
        BY <2>5 DEF ParseFetch
      <3> HIDE DEF w
      <3> QED BY <2>1, <2>2, <2>5, <3>1, <3>2 DEF ParserMove
    <2>6. CASE ParseResplit(q)
      <3> DEFINE w == [par[q] EXCEPT !.pc = "subenqueue", !.next = n, !.last = n' - 1]
      <3>1. w.held = par[q].held /\ w.idx = par[q].idx
        BY <1>1 DEF ParserType
      <3>2. par' = [par EXCEPT ![q] = w] /\ par[q].pc # "idle"
        BY <2>6, ResplitRows, BaseOfIInv DEF ParseResplit
      <3> HIDE DEF w
      <3> QED BY <2>1, <2>2, <2>6, <3>1, <3>2 DEF ParserMove
    <2>7. CASE ParseFinish(q) /\ ~ParseIdle(q)
      <3> DEFINE w == [par[q] EXCEPT !.pc = "embed"]
      <3>1. w.held = par[q].held /\ w.idx = par[q].idx
        BY <1>1 DEF ParserType
      <3>2. par' = [par EXCEPT ![q] = w] /\ par[q].pc # "idle"
        BY <2>7 DEF ParseFinish, ParseAck
      <3> HIDE DEF w
      <3> QED BY <2>1, <2>2, <2>7, <3>1, <3>2 DEF ParserMove
    <2>8. CASE ParseSubEnqueue(q) /\ ~ParseIdle(q)
      <3> DEFINE w == [par[q] EXCEPT !.next = @ + 1]
      <3>1. w.held = par[q].held /\ w.idx = par[q].idx /\ w.pc = par[q].pc
        BY <1>1 DEF ParserType
      <3>2. par' = [par EXCEPT ![q] = w] /\ par[q].pc # "idle"
        BY <2>8 DEF ParseSubEnqueue, ParseAck
      <3> HIDE DEF w
      <3> QED BY <2>1, <2>2, <2>8, <3>1, <3>2 DEF ParserMove
    <2>9. CASE Ends(q) /\ ParseIdle(q)
      <3>1. IdleParser.pc = "idle"
        BY DEF IdleParser
      <3>2. par' = [par EXCEPT ![q] = IdleParser]
        BY <2>9 DEF ParseIdle
      <3> QED BY <2>1, <2>2, <2>9, <3>1, <3>2 DEF ParserMove
    <2> QED BY <1>3, <2>3, <2>4, <2>5, <2>6, <2>7, <2>8, <2>9
            DEF ParseStep, Ends, ParseSkip, ParseVanished, ParseGone, ParseEnqueueEmbed, ParseAbort, ParseAck
  <1>4. CASE ~(\E q \in Parsers : ParseStep(q) \/ ParseAbort(q))
    <2>1. ~ReclaimLive /\ ~RedisWipe
      BY DEF ReclaimLive, RedisWipe, Fault, Overrun, RedisLoss
    <2>2. ASSUME NEW s \in Splitters, SplitStep(s) \/ SplitAbort(s) PROVE par' = par
      BY <2>2 DEF SplitStep, SplitRead, SplitAlready, SplitProbe, SplitFetch, SplitGone,
                  SplitCommit, SplitConflict, SplitEnqueue, SplitAbort
    <2>3. ASSUME NEW e \in Embedders, EmbedStep(e) \/ EmbedBackendFails(e) \/ EmbedAbort(e) PROVE par' = par
      BY <2>3 DEF EmbedStep, EmbedRead, EmbedLoad, EmbedEmpty, EmbedWrite, EmbedVanished,
                  EmbedBackendFails, EmbedAbort
    <2>4. CASE JanStep \/ JanAbort \/ \E j \in DOMAIN stranded : JanReclaimDies(j)
      <3>1. par' = par
        BY <2>4 DEF JanStep, JanReap, JanEscalate, JanDocs, JanRequeue, JanReclaimed, JanEmbedSweep,
                    JanShardRead, JanShardGrace, JanShardSweep, JanReclaim, JanReclaimDies, JanAbort
      <3> QED BY <1>2, <3>1
    <2>5. CASE \/ ApiInsert \/ ApiEnqueue \/ ApiDies \/ UNCHANGED vars
               \/ (\E i \in 0..(n-1) : LeaseExpire(i)) \/ DeleteDocument \/ RawVanish \/ RetriesExpire
      <3>1. par' = par
        BY <2>5 DEF ApiInsert, ApiEnqueue, ApiDies, vars, LeaseExpire, DeleteDocument, RawVanish, RetriesExpire
      <3> QED BY <1>2, <3>1
    <2> QED BY <1>2, <1>4, <2>1, <2>2, <2>3, <2>4, <2>5 DEF Next
  <1> QED BY <1>3, <1>4
\* A waiting job leaves the stream only into the hands of a parser that found
\* the document.
LEMMA WaitingKept ==
  ASSUME IInv, [Next]_vars, ~Overrun, ~RedisLoss, NEW i \in Nat, BagIn(ParseJob(i), waiting), doc.st # "none"
  PROVE  BagIn(ParseJob(i), waiting') \/ \E p \in Parsers : Carries(p, i)'
  <1> DEFINE j == ParseJob(i)
  <1>1. par \in [Parsers -> ParserType] /\ IsABag(waiting)
    BY DEF IInv, TypeOK, IsJobBag
  <1>2. waiting' = waiting => BagIn(j, waiting')
    OBVIOUS
  <1>3. (\E S : waiting' = waiting (+) SetToBag(S)) \/ (\E k : Enqueue(k)) => BagIn(j, waiting')
    BY BagAdds DEF Enqueue
  <1>4. ASSUME NEW k, k # j, Deliver(k) PROVE BagIn(j, waiting')
    BY <1>1, <1>4, BagTakes DEF Deliver
  <1>5. ASSUME NEW q \in Parsers, ParseRead(q, i) PROVE Carries(q, i)'
    <2> DEFINE w == [IdleParser EXCEPT !.pc = "claim", !.held = TRUE, !.idx = i, !.tot = doc.total]
    <2>1. w.pc = "claim" /\ w.held /\ w.idx = i
      BY DEF IdleParser
    <2>2. par' = [par EXCEPT ![q] = w]
      BY <1>5 DEF ParseRead
    <2> HIDE DEF w
    <2> QED BY <1>1, <2>1, <2>2 DEF Carries
  <1> HIDE DEF j
  <1>6. ASSUME NEW s \in Splitters, SplitStep(s) \/ SplitAbort(s) PROVE BagIn(j, waiting')
    <2>1. waiting' = waiting \/ Deliver(SplitJob) \/ \E k : Enqueue(k)
      BY <1>6 DEF SplitStep, SplitRead, SplitAlready, SplitProbe, SplitFetch, SplitGone,
                  SplitCommit, SplitConflict, SplitEnqueue, SplitAbort
    <2> QED BY <1>2, <1>3, <1>4, <2>1, JobsDiffer DEF j
  <1>7. ASSUME NEW e \in Embedders, EmbedStep(e) \/ EmbedBackendFails(e) \/ EmbedAbort(e)
        PROVE  BagIn(j, waiting')
    <2>1. waiting' = waiting \/ Deliver(EmbedJob)
      BY <1>7 DEF EmbedStep, EmbedRead, EmbedLoad, EmbedEmpty, EmbedWrite, EmbedVanished,
                  EmbedBackendFails, EmbedAbort
    <2> QED BY <1>2, <1>4, <2>1, JobsDiffer DEF j
  <1>8. ASSUME NEW p \in Parsers, ParseStep(p) \/ ParseAbort(p)
        PROVE  BagIn(j, waiting') \/ \E q \in Parsers : Carries(q, i)'
    <2>1. ASSUME NEW k, ParseRead(p, k) PROVE BagIn(j, waiting') \/ \E q \in Parsers : Carries(q, i)'
      <3>1. CASE k = i
        BY <1>5, <2>1, <3>1
      <3>2. CASE k # i
        <4>1. ParseJob(k) # j
          BY <3>2, JobsDiffer DEF j
        <4> QED BY <1>4, <2>1, <4>1 DEF ParseRead
      <3> QED BY <3>1, <3>2
    <2>2. ASSUME ~(\E k : ParseRead(p, k)) PROVE waiting' = waiting \/ \E k : Enqueue(k)
      BY <1>8, <2>2 DEF ParseStep, ParseClaim, ParseSkip, ParseResplit, ParseVanished, ParseSubEnqueue,
                  ParseFetch, ParseGone, ParseFinish, ParseEnqueueEmbed, ParseAbort
    <2> QED BY <1>2, <1>3, <2>1, <2>2
  <1>9. CASE JanStep \/ JanAbort \/ \E k \in DOMAIN stranded : JanReclaimDies(k)
    <2>1. waiting' = waiting \/ \E S : waiting' = waiting (+) SetToBag(S)
      BY <1>9 DEF JanStep, JanReap, JanEscalate, JanDocs, JanRequeue, JanReclaimed, JanEmbedSweep, Enqueue,
                  JanShardRead, JanShardGrace, JanShardSweep, JanReclaim, JanReclaimDies, JanAbort
    <2>2. BagIn(j, waiting')
      BY <1>2, <1>3, <2>1
    <2> QED BY <2>2 DEF j
  <1>10. CASE ~ReclaimLive /\ ~RedisWipe /\ (\/ ApiInsert \/ ApiEnqueue \/ ApiDies \/ UNCHANGED vars
               \/ (\E k \in 0..(n-1) : LeaseExpire(k)) \/ DeleteDocument \/ RawVanish \/ RetriesExpire)
    <2>1. waiting' = waiting \/ \E k : Enqueue(k)
      BY <1>10 DEF ApiInsert, ApiEnqueue, ApiDies, vars, LeaseExpire, DeleteDocument, RawVanish, RetriesExpire
    <2>2. BagIn(j, waiting')
      BY <1>2, <1>3, <2>1
    <2> QED BY <2>2 DEF j
  <1>11. ~ReclaimLive /\ ~RedisWipe
    BY DEF ReclaimLive, RedisWipe, Fault, Overrun, RedisLoss
  <1> QED BY <1>6, <1>7, <1>8, <1>9, <1>10, <1>11 DEF Next, j

\* A stranded job stays until the janitor has sent a fresh copy, and the janitor
\* leaves the last copy of a row that no pass has reaped yet.
LEMMA StrandedKept ==
  ASSUME IInv, [Next]_vars, ~Overrun, ~RedisLoss, ~LeaseExceedsIdle,
         NEW i \in Nat, BagIn(ParseJob(i), stranded)
  PROVE  \/ BagIn(ParseJob(i), stranded')
         \/ BagIn(ParseJob(i), waiting') /\ ~(i < n /\ shard[i].st = "running" /\ ~LiveOn(i))
  <1> DEFINE j == ParseJob(i)
  <1>1. IsABag(stranded) /\ n \in Nat
    BY DEF IInv, TypeOK, IsJobBag
  <1>2. CASE stranded' = stranded
    BY <1>2
  <1>3. ASSUME NEW k, NEW h, NEW x, Acked(k, h, x) \/ Strand(h, x) PROVE BagIn(j, stranded')
    BY <1>3, BagAdds DEF Acked, Strand
  <1>4. ASSUME NEW k, JanReclaim(k)
        PROVE  \/ BagIn(j, stranded')
               \/ BagIn(j, waiting') /\ ~(i < n /\ shard[i].st = "running" /\ ~LiveOn(i))
    <2>1. CASE k # j
      BY <1>1, <1>4, <2>1, BagTakes DEF JanReclaim
    <2>2. CASE k = j
      <3>1. BagIn(j, waiting')
        BY <1>4, <2>2, BagAdds DEF JanReclaim, Enqueue
      <3>2. CASE stranded[j] # 1
        BY <1>1, <1>4, <2>2, <3>2, BagTakes DEF JanReclaim
      <3>3. CASE stranded[j] = 1
        <4>1. ~(\E m \in 0..(n-1) : j = ParseJob(m) /\ shard[m].st = "running" /\ ~LiveOn(m))
          BY <1>4, <2>2, <3>3 DEF JanReclaim, IdleLongEnough
        <4> QED BY <1>1, <3>1, <4>1
      <3> QED BY <3>2, <3>3
    <2> QED BY <2>1, <2>2
  <1> HIDE DEF j
  <1>5. ASSUME NEW s \in Splitters, SplitStep(s) \/ SplitAbort(s) PROVE BagIn(j, stranded')
    <2>1. stranded' = stranded \/ \E k, h, x : Acked(k, h, x) \/ Strand(h, x)
      BY <1>5 DEF SplitStep, SplitRead, SplitAlready, SplitProbe, SplitFetch, SplitGone,
                  SplitCommit, SplitConflict, SplitEnqueue, SplitAbort, SplitAck
    <2> QED BY <1>2, <1>3, <2>1 DEF j
  <1>6. ASSUME NEW e \in Embedders, EmbedStep(e) \/ EmbedBackendFails(e) \/ EmbedAbort(e)
        PROVE  BagIn(j, stranded')
    <2>1. stranded' = stranded \/ \E k, h, x : Acked(k, h, x) \/ Strand(h, x)
      BY <1>6 DEF EmbedStep, EmbedRead, EmbedLoad, EmbedEmpty, EmbedWrite, EmbedVanished,
                  EmbedBackendFails, EmbedAbort, EmbedAck
    <2> QED BY <1>2, <1>3, <2>1 DEF j
  <1>7. ASSUME NEW p \in Parsers, ParseStep(p) \/ ParseAbort(p) PROVE BagIn(j, stranded')
    <2>1. stranded' = stranded \/ \E k, h, x : Acked(k, h, x) \/ Strand(h, x)
      BY <1>7 DEF ParseStep, ParseRead, ParseClaim, ParseSkip, ParseResplit, ParseVanished, ParseSubEnqueue,
                  ParseFetch, ParseGone, ParseFinish, ParseEnqueueEmbed, ParseAbort, ParseAck
    <2> QED BY <1>2, <1>3, <2>1 DEF j
  <1>8. CASE stranded' # stranded /\ (JanStep \/ JanAbort \/ \E k \in DOMAIN stranded : JanReclaimDies(k))
    <2>1. \E k : JanReclaim(k)
      BY <1>8 DEF JanStep, JanReap, JanEscalate, JanDocs, JanRequeue, JanReclaimed, JanEmbedSweep,
                  JanShardRead, JanShardGrace, JanShardSweep, JanReclaimDies, JanAbort
    <2> QED BY <1>4, <2>1 DEF j
  <1>9. CASE \/ ApiInsert \/ ApiEnqueue \/ ApiDies \/ UNCHANGED vars
             \/ (\E k \in 0..(n-1) : LeaseExpire(k)) \/ DeleteDocument \/ RawVanish \/ RetriesExpire
    BY <1>2, <1>9
       DEF ApiInsert, ApiEnqueue, ApiDies, vars, LeaseExpire, DeleteDocument, RawVanish, RetriesExpire, j
  <1>10. ~ReclaimLive /\ ~RedisWipe
    BY DEF ReclaimLive, RedisWipe, Fault, Overrun, RedisLoss
  <1> QED BY <1>2, <1>5, <1>6, <1>7, <1>8, <1>9, <1>10 DEF Next, j

\* For a job of doc.parse, in flight means carried by a parser.
LEMMA InFlightParse == \A i : InFlight(ParseJob(i)) <=> \E p \in Parsers : Carries(p, i)
  BY JobsDiffer DEF InFlight, Carries
\* Every handler in progress holds the entry it was handed.
EntriesHeld == \A p \in Parsers : par[p].pc # "idle" => par[p].held

\* A parser past its last transaction has finished or replaced its row.
EndedRows ==
  \A p \in Parsers : par[p].pc \in {"subenqueue", "embed"} =>
    /\ api # "new"
    /\ doc.st # "none" => par[p].idx < n /\ shard[par[p].idx].st \in {"skipped", "done"}

\* A running row without a live parser left its job in the list of pending entries.
RunningBacked ==
  \A i \in 0..(n-1) : shard[i].st = "running" => LiveOn(i) \/ BagIn(ParseJob(i), stranded)

\* A pending row that was claimed before has its job somewhere.
PendingBacked ==
  \A i \in 0..(n-1) : shard[i].st = "pending" /\ shard[i].att > 0 => Queued(ParseJob(i))

\* NoOrphanShard is not inductive: that a pending row has a job rests on what
\* becomes of the job while its row is running, and of the row while its parser
\* is acknowledging.
Rescue == raw => EntriesHeld /\ EndedRows /\ RunningBacked /\ PendingBacked

\* The raw object does not come back.
LEMMA RawStays == ASSUME [Next]_vars, raw' PROVE raw
  <1>1. CASE UNCHANGED vars
    BY <1>1 DEF vars
  <1>2. CASE ApiInsert \/ ApiEnqueue \/ ApiDies
    BY <1>2 DEF ApiInsert, ApiEnqueue, ApiDies
  <1>3. ASSUME NEW s \in Splitters, SplitStep(s) \/ SplitAbort(s) PROVE raw
    BY <1>3 DEF SplitStep, SplitRead, SplitAlready, SplitProbe, SplitFetch, SplitGone,
                SplitCommit, SplitConflict, SplitEnqueue, SplitAbort
  <1>4. ASSUME NEW p \in Parsers, ParseStep(p) \/ ParseAbort(p) PROVE raw
    BY <1>4 DEF ParseStep, ParseRead, ParseClaim, ParseSkip, ParseResplit, ParseVanished, ParseSubEnqueue,
                ParseFetch, ParseGone, ParseFinish, ParseEnqueueEmbed, ParseAbort
  <1>5. ASSUME NEW e \in Embedders, EmbedStep(e) \/ EmbedBackendFails(e) \/ EmbedAbort(e) PROVE raw
    BY <1>5 DEF EmbedStep, EmbedRead, EmbedLoad, EmbedEmpty, EmbedWrite, EmbedVanished,
                EmbedBackendFails, EmbedAbort
  <1>6. CASE JanStep \/ JanAbort \/ \E j \in DOMAIN stranded : JanReclaimDies(j)
    BY <1>6 DEF JanStep, JanReap, JanEscalate, JanDocs, JanRequeue, JanReclaimed, JanEmbedSweep,
                JanShardRead, JanShardGrace, JanShardSweep, JanReclaim, JanReclaimDies, JanAbort
  <1>7. CASE \/ (\E i \in 0..(n-1) : LeaseExpire(i)) \/ ReclaimLive \/ DeleteDocument \/ RawVanish
             \/ RetriesExpire \/ RedisWipe
    BY <1>7 DEF LeaseExpire, ReclaimLive, DeleteDocument, RawVanish, RetriesExpire, RedisWipe
  <1> QED BY <1>1, <1>2, <1>3, <1>4, <1>5, <1>6, <1>7 DEF Next

\* Where a pending row that was claimed before comes from: it was one, or the
\* janitor took it back from an expired lease.
LEMMA PendingSource ==
  ASSUME IInv, [Next]_vars, NEW i \in 0..(n'-1), shard'[i].st = "pending", shard'[i].att > 0
  PROVE  /\ i \in 0..(n-1)
         /\ \/ shard[i].st = "pending" /\ shard[i].att > 0
            \/ JanReap /\ shard[i].st = "running" /\ ~shard[i].lease
  <1>1. /\ n \in Nat /\ shard \in [0..(n-1) -> RowType] /\ \A p \in Parsers : par[p].idx \in Nat
    BY DEF IInv, TypeOK, ParserType
  <1>2. CASE RowsAlone
    BY <1>2 DEF RowsAlone
  <1>3. CASE ApiInsert \/ DeleteDocument
    BY <1>3 DEF ApiInsert, DeleteDocument
  <1>4. CASE JanReap
    <2> DEFINE back == [shard[i] EXCEPT !.st = "pending", !.owner = NoOwner]
    <2>1. n' = n /\ shard'[i] = IF shard[i].st = "running" /\ ~shard[i].lease THEN back ELSE shard[i]
      BY <1>4 DEF JanReap
    <2> QED BY <1>4, <2>1
  <1>5. CASE JanEscalate
    BY <1>1, <1>5 DEF JanEscalate, StuckRows, RowType
  <1>6. ASSUME NEW s \in Splitters, SplitCommit(s) PROVE FALSE
    BY <1>6 DEF SplitCommit, NewRow
  <1>7. ASSUME NEW p \in Parsers, ParseClaim(p) \/ ParseFinish(p)
        PROVE  i \in 0..(n-1) /\ shard[i].st = "pending" /\ shard[i].att > 0
    <2>1. CASE ParseClaim(p)
      <3>1. n' = n /\ (i = par[p].idx => shard'[i].st = "running")
        BY <1>1, <2>1 DEF ParseClaim, Claimable, RowType
      <3>2. i # par[p].idx => shard'[i] = shard[i]
        BY <1>1, <2>1 DEF ParseClaim, Claimable
      <3> QED BY <3>1, <3>2
    <2>2. CASE ParseFinish(p)
      <3>1. n' = n /\ (i = par[p].idx => shard'[i].st = "done")
        BY <1>1, <2>2 DEF ParseFinish, RowType
      <3>2. i # par[p].idx => shard'[i] = shard[i]
        BY <1>1, <2>2 DEF ParseFinish
      <3> QED BY <3>1, <3>2
    <2> QED BY <1>7, <2>1, <2>2
  <1>8. ASSUME NEW p \in Parsers, ParseResplit(p)
        PROVE  i \in 0..(n-1) /\ shard[i].st = "pending" /\ shard[i].att > 0
    <2>1. /\ n' \in Nat /\ n' > n /\ par[p].idx \in 0..(n-1)
          /\ shard'[par[p].idx] = [shard[par[p].idx] EXCEPT !.st = "skipped"]
          /\ \A k \in 0..(n-1) : k # par[p].idx => shard'[k] = shard[k]
          /\ \A k \in n..(n'-1) : shard'[k].att = 0
      BY <1>8, ResplitRows, BaseOfIInv
    <2>2. i \in 0..(n-1)
      <3>1. i \notin n..(n'-1)
        BY <2>1
      <3>2. ASSUME NEW m \in Nat, i \in 0..(m-1), i \notin n..(m-1) PROVE i \in 0..(n-1)
        BY <1>1, <3>2
      <3> QED BY <2>1, <3>1, <3>2
    <2>3. i # par[p].idx
      BY <1>1, <2>1 DEF RowType
    <2> QED BY <2>1, <2>2, <2>3
  <1>9. ASSUME NEW k \in 0..(n-1), LeaseExpire(k)
        PROVE  i \in 0..(n-1) /\ shard[i].st = "pending" /\ shard[i].att > 0
    BY <1>1, <1>9 DEF LeaseExpire, RowType
  <1> QED BY <1>2, <1>3, <1>4, <1>5, <1>6, <1>7, <1>8, <1>9, RowWriters, BaseOfIInv DEF RowStep

\* Where a running row comes from: it was claimed now, or was running under the
\* same owner and nobody ended it.
LEMMA RunningSource ==
  ASSUME IInv, [Next]_vars, NEW i \in 0..(n'-1), shard'[i].st = "running"
  PROVE  /\ i \in 0..(n-1)
         /\ \/ \E p \in Parsers : ParseClaim(p) /\ par[p].idx = i /\ shard'[i].owner = p
            \/ /\ shard[i].st = "running" /\ shard'[i].owner = shard[i].owner
               /\ \A p \in Parsers : par[p].idx = i => ~ParseResplit(p) /\ ~ParseFinish(p)
  <1>1. /\ n \in Nat /\ shard \in [0..(n-1) -> RowType] /\ \A p \in Parsers : par[p].idx \in Nat
    BY DEF IInv, TypeOK, ParserType
  <1>2. ASSUME NEW p \in Parsers, ParseFinish(p)
        PROVE  i \in 0..(n-1) /\ par[p].idx # i /\ shard'[i] = shard[i]
    BY <1>1, <1>2 DEF ParseFinish, RowType
  <1>3. ASSUME NEW p \in Parsers, ParseResplit(p)
        PROVE  i \in 0..(n-1) /\ par[p].idx # i /\ shard'[i] = shard[i]
    <2>1. /\ n' \in Nat /\ n' > n /\ par[p].idx \in 0..(n-1)
          /\ shard'[par[p].idx] = [shard[par[p].idx] EXCEPT !.st = "skipped"]
          /\ \A k \in 0..(n-1) : k # par[p].idx => shard'[k] = shard[k]
          /\ \A k \in n..(n'-1) : shard'[k].st = "pending"
      BY <1>3, ResplitRows, BaseOfIInv
    <2>2. i \in 0..(n-1)
      <3>1. i \notin n..(n'-1)
        BY <2>1
      <3>2. ASSUME NEW m \in Nat, i \in 0..(m-1), i \notin n..(m-1) PROVE i \in 0..(n-1)
        BY <1>1, <3>2
      <3> QED BY <2>1, <3>1, <3>2
    <2>3. i # par[p].idx
      BY <1>1, <2>1 DEF RowType
    <2> QED BY <2>1, <2>2, <2>3
  <1>4. CASE \E p \in Parsers : ParseFinish(p) \/ ParseResplit(p)
    BY <1>2, <1>3, <1>4
  <1>5. ASSUME ~(\E p \in Parsers : ParseFinish(p) \/ ParseResplit(p))
        PROVE  /\ i \in 0..(n-1)
               /\ \/ \E p \in Parsers : ParseClaim(p) /\ par[p].idx = i /\ shard'[i].owner = p
                  \/ shard[i].st = "running" /\ shard'[i].owner = shard[i].owner
    <2>1. CASE RowsAlone
      BY <2>1 DEF RowsAlone
    <2>2. CASE ApiInsert \/ DeleteDocument
      BY <2>2 DEF ApiInsert, DeleteDocument
    <2>3. CASE JanReap
      <3> DEFINE back == [shard[i] EXCEPT !.st = "pending", !.owner = NoOwner]
      <3>1. n' = n /\ shard'[i] = IF shard[i].st = "running" /\ ~shard[i].lease THEN back ELSE shard[i]
        BY <2>3 DEF JanReap
      <3>2. i \in 0..(n-1) => back.st = "pending"
        BY <1>1 DEF RowType
      <3> QED BY <3>1, <3>2
    <2>4. CASE JanEscalate
      BY <1>1, <2>4 DEF JanEscalate, StuckRows, RowType
    <2>5. ASSUME NEW s \in Splitters, SplitCommit(s) PROVE FALSE
      BY <2>5 DEF SplitCommit, NewRow
    <2>6. ASSUME NEW p \in Parsers, ParseClaim(p)
          PROVE  /\ i \in 0..(n-1)
                 /\ \/ par[p].idx = i /\ shard'[i].owner = p
                    \/ shard[i].st = "running" /\ shard'[i].owner = shard[i].owner
      BY <1>1, <2>6 DEF ParseClaim, Claimable, RowType
    <2>7. ASSUME NEW k \in 0..(n-1), LeaseExpire(k)
          PROVE  i \in 0..(n-1) /\ shard[i].st = "running" /\ shard'[i].owner = shard[i].owner
      BY <1>1, <2>7 DEF LeaseExpire, RowType
    <2> QED BY <1>5, <2>1, <2>2, <2>3, <2>4, <2>5, <2>6, <2>7, RowWriters, BaseOfIInv DEF RowStep
  <1> QED BY <1>4, <1>5

\* Rows go only with their document, and that appears only once.
LEMMA RowsRemain ==
  ASSUME IInv, [Next]_vars
  PROVE  /\ api' = "new" => api = "new"
         /\ doc'.st # "none" => n' \in Nat /\ n' >= n /\ (doc.st # "none" \/ api = "new")
  <1>1. n \in Nat /\ PlanLen \in Nat /\ NoDoc.st = "none"
    BY PlanAssumption DEF IInv, TypeOK, NoDoc
  <1>2. ASSUME NEW p \in Parsers, ParseResplit(p)
        PROVE  n' \in Nat /\ n' >= n /\ doc.st # "none" /\ api' = api
    <2>1. n' \in Nat /\ n' > n /\ par[p].idx \in 0..(n-1)
      BY <1>2, ResplitRows, BaseOfIInv
    <2>2. doc.st # "none"
      BY <1>1, <2>1 DEF IInv, NoRowsWithoutDocument
    <2> QED BY <1>1, <1>2, <2>1, <2>2 DEF ParseResplit
  <1>3. CASE RowsAlone
    BY <1>1, <1>3 DEF RowsAlone
  <1>4. CASE ApiInsert \/ DeleteDocument
    BY <1>1, <1>4 DEF ApiInsert, DeleteDocument
  <1>5. CASE JanReap \/ JanEscalate
    <2>1. doc \in DocType /\ n' = n /\ api' = api
      BY <1>5 DEF JanReap, JanEscalate, IInv, TypeOK
    <2>2. doc'.st = doc.st
      BY <1>5, <2>1 DEF JanReap, JanEscalate, DocType
    <2> QED BY <1>1, <2>1, <2>2
  <1>6. ASSUME NEW s \in Splitters, SplitCommit(s)
        PROVE  n' \in Nat /\ n' >= n /\ doc.st # "none" /\ api' = api
    BY <1>1, <1>6 DEF SplitCommit
  <1>7. ASSUME NEW p \in Parsers, ParseClaim(p) \/ ParseFinish(p)
        PROVE  n' = n /\ api' = api /\ (doc'.st # "none" => doc.st # "none")
    BY <1>7 DEF ParseClaim, ParseFinish
  <1>8. CASE \E i \in 0..(n-1) : LeaseExpire(i)
    BY <1>1, <1>8 DEF LeaseExpire
  <1> QED BY <1>1, <1>2, <1>3, <1>4, <1>5, <1>6, <1>7, <1>8, RowWriters, BaseOfIInv DEF RowStep

\* A handler keeps its entry until it acknowledges.
LEMMA EntriesStep ==
  ASSUME IInv, [Next]_vars, ~Overrun, ~RedisLoss, EntriesHeld PROVE EntriesHeld'
  <1>1. ASSUME NEW p \in Parsers, par'[p].pc # "idle" PROVE par'[p].held
    BY <1>1, ParserMoves DEF ParserMove, EntriesHeld
  <1> QED BY <1>1 DEF EntriesHeld

\* The row of a parser that is sending its last jobs stays as it left it.
LEMMA EndedStep ==
  ASSUME IInv, ClaimExclusive, [Next]_vars, ~Overrun, ~RedisLoss, EndedRows PROVE EndedRows'
  <1> SUFFICES ASSUME NEW p \in Parsers, par'[p].pc \in {"subenqueue", "embed"}
               PROVE  /\ api' # "new"
                      /\ doc'.st # "none" => /\ par'[p].idx < n'
                                            /\ shard'[par'[p].idx].st \in {"skipped", "done"}
    BY DEF EndedRows
  <1>1. n \in Nat /\ par[p].idx \in Nat /\ shard \in [0..(n-1) -> RowType]
    BY DEF IInv, TypeOK, ParserType
  <1>2. CASE par'[p].pc = par[p].pc /\ par'[p].idx = par[p].idx
    <2>1. api # "new" /\ api' # "new"
      BY <1>2, RowsRemain DEF EndedRows
    <2>2. ASSUME doc'.st # "none"
          PROVE  par'[p].idx < n' /\ shard'[par'[p].idx].st \in {"skipped", "done"}
      <3>1. doc.st # "none" /\ n' \in Nat /\ n' >= n
        BY <2>1, <2>2, RowsRemain
      <3>2. par[p].idx < n /\ shard[par[p].idx].st \in {"skipped", "done"}
        BY <1>2, <3>1 DEF EndedRows
      <3>3. par[p].idx \in 0..(n-1) /\ par[p].idx \in 0..(n'-1)
        BY <1>1, <3>1, <3>2
      <3>4. shard'[par[p].idx].st = shard[par[p].idx].st
        BY <3>2, <3>3, FinalStep
      <3> QED BY <1>2, <3>1, <3>2, <3>3, <3>4
    <2> QED BY <2>1, <2>2
  <1>3. CASE ParseResplit(p) /\ par'[p].idx = par[p].idx
    <2>1. /\ n' \in Nat /\ n' > n /\ par[p].idx \in 0..(n-1)
          /\ shard'[par[p].idx] = [shard[par[p].idx] EXCEPT !.st = "skipped"]
      BY <1>3, ResplitRows, BaseOfIInv
    <2>2. shard'[par[p].idx].st = "skipped"
      BY <1>1, <2>1 DEF RowType
    <2>3. api' # "new"
      BY <1>3, RowsRemain DEF ParseResplit, IInv, ParserRows, HoldsRow
    <2> QED BY <1>1, <1>3, <2>1, <2>2, <2>3
  <1>4. CASE ParseFinish(p) /\ par'[p].idx = par[p].idx
    <2>1. api' # "new"
      BY <1>4, RowsRemain DEF ParseFinish, IInv, ParserRows, HoldsRow
    <2> QED BY <1>1, <1>4, <2>1, FinishRows
  <1> QED BY <1>2, <1>3, <1>4, ParserMoves DEF ParserMove, ParseClaim, ParseFetch

\* A copy of a job goes only with a parser that is done with it.
LEMMA CopyKept ==
  ASSUME IInv, [Next]_vars, ~Overrun, ~RedisLoss, ~LeaseExceedsIdle, EntriesHeld,
         NEW i \in Nat, Queued(ParseJob(i)), doc.st # "none"
  PROVE  \/ Queued(ParseJob(i))'
         \/ \E p \in Parsers :
              /\ par[p].idx = i
              /\ \/ ParseSkip(p) \/ ParseSubEnqueue(p) \/ ParseGone(p)
                 \/ ParseFinish(p) \/ ParseEnqueueEmbed(p)
  <1>1. (\E p \in Parsers : Carries(p, i)') => Queued(ParseJob(i))'
    BY JobsDiffer DEF Queued, InFlight, Carries
  <1>2. BagIn(ParseJob(i), waiting') \/ BagIn(ParseJob(i), stranded') => Queued(ParseJob(i))'
    BY DEF Queued, ParseJob
  <1>3. CASE BagIn(ParseJob(i), waiting)
    BY <1>1, <1>2, <1>3, WaitingKept
  <1>4. CASE BagIn(ParseJob(i), stranded)
    BY <1>2, <1>4, StrandedKept
  <1>5. ASSUME NEW p \in Parsers, Carries(p, i), ~ParseSkip(p), ~ParseSubEnqueue(p), ~ParseGone(p),
               ~ParseFinish(p), ~ParseEnqueueEmbed(p)
        PROVE  Queued(ParseJob(i))'
    <2>1. par[p].pc # "idle" /\ par[p].held /\ par[p].idx = i
      BY <1>5 DEF Carries
    <2>2. CASE ParseVanished(p) \/ ParseAbort(p)
      <3>1. Strand(TRUE, ParseJob(i))
        BY <2>1, <2>2 DEF ParseVanished, ParseAbort, Strand
      <3>2. BagIn(ParseJob(i), stranded')
        BY <3>1, BagAdds DEF Strand
      <3> QED BY <1>2, <3>2
    <2>3. CASE ~ParseVanished(p) /\ ~ParseAbort(p)
      <3>1. par'[p].idx = i /\ par'[p].held /\ par'[p].pc # "idle"
        <4>1. ParserMove(p) /\ ~Ends(p)
          BY <1>5, <2>3, ParserMoves DEF Ends
        <4>2. ASSUME ParseResplit(p) PROVE par'[p].pc = "subenqueue"
          <5>1. par' = [par EXCEPT ![p] = [par[p] EXCEPT !.pc = "subenqueue", !.next = n, !.last = n' - 1]]
            BY <4>2, ResplitRows, BaseOfIInv
          <5>2. par \in [Parsers -> ParserType]
            BY DEF IInv, TypeOK
          <5> QED BY <5>1, <5>2 DEF ParserType
        <4> QED BY <1>5, <2>1, <4>1, <4>2 DEF ParserMove
      <3> QED BY <1>1, <3>1 DEF Carries
    <2> QED BY <2>2, <2>3
  <1>6. CASE \E p \in Parsers : Carries(p, i)
    <2>1. PICK p \in Parsers : Carries(p, i)
      BY <1>6
    <2> QED BY <1>5, <2>1 DEF Carries
  <1> QED BY <1>3, <1>4, <1>6, InFlightParse DEF Queued

\* A parser that claims a row is live on it; one that leaves a running row leaves
\* its job behind.
LEMMA RunningStep ==
  ASSUME IInv, ClaimExclusive, [Next]_vars, ~Overrun, ~RedisLoss, ~LeaseExceedsIdle,
         raw, EntriesHeld, RunningBacked
  PROVE  RunningBacked'
  <1> SUFFICES ASSUME NEW i \in 0..(n'-1), shard'[i].st = "running"
               PROVE  LiveOn(i)' \/ BagIn(ParseJob(i), stranded')
    BY DEF RunningBacked, ParseJob
  <1>1. i \in 0..(n-1) /\ n \in Nat /\ i \in Nat /\ par \in [Parsers -> ParserType]
    BY RunningSource DEF IInv, TypeOK
  <1>2. ASSUME NEW p \in Parsers, ParseClaim(p), par[p].idx = i, shard'[i].owner = p
        PROVE  LiveOn(i)'
    <2>1. par'[p].idx = i /\ par'[p].pc \in {"resplit", "fetch"}
      BY <1>1, <1>2 DEF ParseClaim, ParserType
    <2> QED BY <1>2, <2>1 DEF LiveOn
  <1>3. ASSUME shard[i].st = "running", shard'[i].owner = shard[i].owner, LiveOn(i),
               \A p \in Parsers : par[p].idx = i => ~ParseResplit(p) /\ ~ParseFinish(p)
        PROVE  LiveOn(i)' \/ BagIn(ParseJob(i), stranded')
    <2>1. PICK p \in Parsers : /\ par[p].pc \in {"fetch", "work", "resplit"}
                               /\ par[p].idx = i /\ shard[i].owner = p
      BY <1>3 DEF LiveOn
    <2>2. ~ParseResplit(p) /\ ~ParseFinish(p) /\ par[p].held
      BY <1>3, <2>1 DEF EntriesHeld
    <2>3. CASE ParseAbort(p)
      <3>1. Strand(TRUE, ParseJob(i))
        BY <2>1, <2>2, <2>3 DEF ParseAbort, Strand
      <3> QED BY <3>1, BagAdds DEF Strand
    <2>4. CASE ~ParseAbort(p)
      <3>1. ~Ends(p)
        <4>1. ~ParseSkip(p) /\ ~ParseSubEnqueue(p) /\ ~ParseEnqueueEmbed(p) /\ ~ParseGone(p)
          BY <2>1 DEF ParseSkip, ParseSubEnqueue, ParseEnqueueEmbed, ParseGone
        <4>2. ~(par[p].idx >= n)
          BY <1>1, <2>1
        <4>3. ~ParseVanished(p)
          BY <4>2 DEF ParseVanished
        <4> QED BY <2>2, <2>4, <4>1, <4>3 DEF Ends
      <3>2. par'[p].idx = i /\ par'[p].pc \in {"fetch", "work", "resplit"}
        BY <2>1, <2>2, <3>1, ParserMoves DEF ParserMove, ParseClaim
      <3> QED BY <1>3, <2>1, <3>2 DEF LiveOn
    <2> QED BY <2>3, <2>4
  <1>4. CASE shard[i].st = "running" /\ ~LiveOn(i)
    <2>1. BagIn(ParseJob(i), stranded) /\ i < n
      BY <1>1, <1>4 DEF RunningBacked
    <2> QED BY <1>1, <1>4, <2>1, StrandedKept
  <1> QED BY <1>2, <1>3, <1>4, RunningSource

\* The job of a row that waits for another attempt is not lost: whoever acks a
\* copy of it did not find the row pending.
LEMMA PendingStep ==
  ASSUME IInv, ClaimExclusive, [Next]_vars, ~Overrun, ~RedisLoss, ~LeaseExceedsIdle,
         raw, EntriesHeld, EndedRows, RunningBacked, PendingBacked
  PROVE  PendingBacked'
  <1> SUFFICES ASSUME NEW i \in 0..(n'-1), shard'[i].st = "pending", shard'[i].att > 0
               PROVE  Queued(ParseJob(i))'
    BY DEF PendingBacked, ParseJob
  <1>1. i \in 0..(n-1) /\ n \in Nat /\ i \in Nat
    BY PendingSource DEF IInv, TypeOK
  <1>2. doc.st # "none"
    BY <1>1 DEF IInv, NoRowsWithoutDocument
  <1>3. CASE shard[i].st = "pending" /\ shard[i].att > 0
    <2>1. Queued(ParseJob(i))
      BY <1>1, <1>3 DEF PendingBacked
    <2>2. ASSUME NEW p \in Parsers, par[p].idx = i
          PROVE  ~ParseSkip(p) /\ ~ParseGone(p) /\ ~ParseSubEnqueue(p) /\ ~ParseFinish(p)
                 /\ ~ParseEnqueueEmbed(p)
      <3>1. ~ParseSkip(p) /\ ~ParseGone(p)
        BY <1>1, <1>3, <2>2 DEF ParseSkip, ParseGone, Claimable
      <3>2. ~ParseSubEnqueue(p) /\ ~ParseEnqueueEmbed(p)
        BY <1>2, <1>3, <2>2 DEF ParseSubEnqueue, ParseEnqueueEmbed, EndedRows
      <3>3. ~ParseFinish(p)
        BY <1>2, <1>3, <2>2 DEF ParseFinish, ClaimExclusive
      <3> QED BY <3>1, <3>2, <3>3
    <2> QED BY <1>1, <1>2, <2>1, <2>2, CopyKept
  <1>4. CASE JanReap /\ shard[i].st = "running" /\ ~shard[i].lease
    <2>1. ~LiveOn(i)
      BY <1>2, <1>4 DEF LiveOn, ClaimExclusive
    <2>2. BagIn(ParseJob(i), stranded)
      BY <1>1, <1>4, <2>1 DEF RunningBacked
    <2> QED BY <1>4, <2>2 DEF JanReap, Queued, ParseJob
  <1> QED BY <1>3, <1>4, PendingSource

\* Rescue holds throughout, in the deployments it is stated for.
LEMMA RescueInvariant ==
  ASSUME ~Overrun, ~RedisLoss, ~LeaseExceedsIdle
  PROVE  Spec => [](IInv /\ ClaimExclusive /\ Rescue)
  <1>1. Init => Rescue
    BY DEF Init, Rescue, EntriesHeld, EndedRows, RunningBacked, PendingBacked, IdleParser
  <1>2. IInv /\ ClaimExclusive /\ Rescue /\ [Next]_vars => Rescue'
    <2> SUFFICES ASSUME IInv, ClaimExclusive, Rescue, [Next]_vars, raw' PROVE Rescue'
      BY DEF Rescue
    <2>1. raw /\ EntriesHeld /\ EndedRows /\ RunningBacked /\ PendingBacked
      BY RawStays DEF Rescue
    <2> QED BY <2>1, EntriesStep, EndedStep, RunningStep, PendingStep DEF Rescue
  <1>3. Init => ClaimExclusive
    BY DEF Init, ClaimExclusive, NoDoc
  <1> QED BY <1>1, <1>2, <1>3, InitOK, ClaimStep, Inductive, PTL DEF Spec

\* A shard that was claimed before and is not finished keeps a job, through any
\* number of crashes, failed transactions, lost acknowledgements, janitor passes
\* that die half way and any number of workers, as long as the raw object is
\* there, leases are shorter than the idle limit, and workers shorter than leases.
THEOREM NoShardOrphaned ==
  ASSUME ~Overrun, ~RedisLoss, ~LeaseExceedsIdle
  PROVE  Spec => [](raw => NoOrphanShard)
  <1>1. ASSUME IInv, Rescue, raw, NEW i \in 0..(n-1), shard[i].att > 0,
               shard[i].st \in {"pending", "running"}
        PROVE  Queued(ParseJob(i))
    <2>1. EntriesHeld /\ RunningBacked /\ PendingBacked
      BY <1>1 DEF Rescue
    <2>2. CASE shard[i].st = "pending"
      BY <1>1, <2>1, <2>2 DEF PendingBacked
    <2>3. CASE LiveOn(i)
      <3>1. \E p \in Parsers : Carries(p, i)
        BY <2>1, <2>3 DEF LiveOn, Carries, EntriesHeld
      <3> QED BY <3>1, InFlightParse DEF Queued
    <2>4. CASE BagIn(ParseJob(i), stranded)
      BY <2>4 DEF Queued
    <2> QED BY <1>1, <2>1, <2>2, <2>3, <2>4 DEF RunningBacked
  <1>2. IInv /\ Rescue => (raw => NoOrphanShard)
    BY <1>1 DEF NoOrphanShard
  <1> QED BY <1>2, RescueInvariant, PTL
=============================================================================

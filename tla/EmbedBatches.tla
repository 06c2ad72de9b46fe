---------------------------- MODULE EmbedBatches ----------------------------
(***************************************************************************)
(* The network half of HandleEmbed: the texts of the children go to the    *)
(* embedding backend in batches, through a client with retries and a       *)
(* breaker of its own, and the vectors come back to the rows of their      *)
(* chunks.  A text is known by its place; only its tokens matter.           *)
(***************************************************************************)
EXTENDS Integers, Sequences, SequencesExt

CONSTANTS
  TokenCounts,  \* the inputs: the tokens of each text, in order
  CtxBudget, BatchSize,
  EmRetries,    \* maxRetries: attempts beyond the first
  EmThreshold   \* breakerThreshold

ASSUME EmbedAssumption ==
  /\ {CtxBudget, BatchSize, EmThreshold} \subseteq Nat \ {0} /\ EmRetries \in Nat
  /\ TokenCounts \subseteq Seq(Nat)

VARIABLES
  tokens,
  batches,    \* what PlanBatches returned: batches of texts
  vectors,    \* per batch: the text each vector was computed from
  emFailed,   \* consecutiveFailed
  attempt, emPc,
  embedRows   \* the rows: [chunk, vector]

emvars == <<tokens, batches, vectors, emFailed, attempt, emPc, embedRows>>

Given(counts) ==
  /\ tokens = counts
  /\ batches = <<>> /\ vectors = <<>> /\ embedRows = <<>>
  /\ emFailed = 0 /\ attempt = 0 /\ emPc = "plan"

EmInit == \E counts \in TokenCounts : Given(counts)
-----------------------------------------------------------------------------
\* A text over the budget is cut down to it.
Cost(t) == IF t > CtxBudget THEN CtxBudget ELSE t

\* Mutant: a batch takes one text more than it may.
FullLate(p, k) == (p.cur # <<>> /\ p.used + Cost(tokens[k]) > CtxBudget) \/ Len(p.cur) > BatchSize

\* The batch is closed before text k.
Full(p, k) == (p.cur # <<>> /\ p.used + Cost(tokens[k]) > CtxBudget) \/ Len(p.cur) >= BatchSize

Closed(p) == [out |-> Append(p.out, p.cur), cur |-> <<>>, used |-> 0]
Put(p, k) == [out |-> p.out, cur |-> Append(p.cur, k), used |-> p.used + Cost(tokens[k])]

\* out: the closed batches; cur, used: the open one and its tokens (curTokens)
PlanBatches ==
  LET plan[k \in 0..Len(tokens)] ==
        IF k = 0 THEN [out |-> <<>>, cur |-> <<>>, used |-> 0]
        ELSE Put(IF Full(plan[k-1], k) THEN Closed(plan[k-1]) ELSE plan[k-1], k)
      last == plan[Len(tokens)]
  IN  IF last.cur = <<>> THEN last.out ELSE Append(last.out, last.cur)

Plan ==
  /\ emPc = "plan" /\ emPc' = "request" /\ batches' = PlanBatches
  /\ UNCHANGED <<tokens, vectors, emFailed, attempt, embedRows>>

Current == batches[Len(vectors) + 1]

\* The backend answers with a vector for each of the first n texts; nobody counts
\* them.  A decoded answer ends the ladder and resets the breaker.
Embedded(n) ==
  /\ emPc = "request" /\ Len(vectors) < Len(batches)
  /\ n <= Len(Current)
  /\ vectors' = Append(vectors, SubSeq(Current, 1, n))
  /\ emFailed' = 0 /\ attempt' = 0
  /\ UNCHANGED <<tokens, batches, emPc, embedRows>>

\* The breaker is tested at the entry of Embed and after every failure.
BreakerOpen(f) == f >= EmThreshold

\* A transport error, 429, 503 or a body that is not JSON
Busy ==
  /\ emPc = "request" /\ Len(vectors) < Len(batches)
  /\ emFailed' = emFailed + 1
  /\ IF BreakerOpen(emFailed') \/ attempt = EmRetries
     THEN emPc' = "failed" /\ UNCHANGED attempt
     ELSE attempt' = attempt + 1 /\ UNCHANGED emPc
  /\ UNCHANGED <<tokens, batches, vectors, embedRows>>

\* Another status, another shape or another dimension fails the job at once, and
\* so does a cancelled context.
Rejected ==
  /\ emPc = "request" /\ Len(vectors) < Len(batches) /\ emPc' = "failed"
  /\ UNCHANGED <<tokens, batches, vectors, emFailed, attempt, embedRows>>

\* Mutant: the offset moves by the vectors that came.
OffsetReturned(b) == Len(FlattenSeq(SubSeq(vectors, 1, b - 1)))

\* The offset of a batch: by the texts that were sent
Offset(b) == Len(FlattenSeq(SubSeq(batches, 1, b - 1)))

\* assembleEmbeddingRows
Assemble ==
  LET fits(b)   == {j \in DOMAIN vectors[b] : Offset(b) + j <= Len(tokens)}
      rowsOf(b) == [j \in fits(b) |-> [chunk |-> Offset(b) + j, vector |-> vectors[b][j]]]
  IN
  /\ emPc = "request" /\ Len(vectors) = Len(batches) /\ emPc' = "rows"
  /\ embedRows' = FlattenSeq([b \in DOMAIN batches |-> rowsOf(b)])
  /\ UNCHANGED <<tokens, batches, vectors, emFailed, attempt>>

EmNext == Plan \/ (\E n \in 0..BatchSize : Embedded(n)) \/ Busy \/ Rejected \/ Assemble
-----------------------------------------------------------------------------
EmSpec == EmInit /\ [][EmNext]_emvars

\* The tokens of the texts in a batch
Tokens(counts, batch) ==
  LET sum[i \in 0..Len(batch)] == IF i = 0 THEN 0 ELSE sum[i-1] + Cost(counts[batch[i]])
  IN  sum[Len(batch)]

\* Every text is sent once and in order, and no batch is empty, over the batch size
\* or over the token budget, however large a single text is.
BatchesFit ==
  emPc # "plan" =>
    /\ FlattenSeq(batches) = [k \in DOMAIN tokens |-> k]
    /\ \A b \in DOMAIN batches : /\ Len(batches[b]) \in 1..BatchSize
                                 /\ Tokens(tokens, batches[b]) <= CtxBudget

\* A vector never lands on another chunk, also when a batch came back short: a
\* misplaced vector is found by no error, only by wrong search results.
RowsAligned == \A i \in DOMAIN embedRows : embedRows[i].vector = embedRows[i].chunk
=============================================================================

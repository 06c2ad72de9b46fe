------------------------------ MODULE TxLocks ------------------------------
(***************************************************************************)
(* The write transactions of one document, statement by statement, as the  *)
(* row locks they take: lock waits, lock_timeout, the deadlock detector of  *)
(* Postgres, and TxWithRetry around them.  Ingest and Operator take each of *)
(* these transactions as one step; this module is about what that hides.    *)
(* A statement over several shards locks them in the order of the heap.     *)
(***************************************************************************)
EXTENDS Integers, Sequences, FiniteSets

CONSTANTS
  Sessions,     \* connections with a transaction on this document
  NShards,      \* its shards are 1..NShards
  Attempts,     \* attempts of TxWithRetry
  MaxTxFaults   \* bound: connections lost

ASSUME TxAssumption == NShards \in Nat \ {0} /\ Attempts \in Nat \ {0} /\ MaxTxFaults \in Nat

VARIABLES
  txn,        \* per session: the transaction, the locks it still needs, its attempt
  held,       \* row locks: [by, row, mode]
  committed,  \* history: commits of each call
  txFaults

txvars == <<txn, held, committed, txFaults>>

\* The rows: the document, its chunks, and the place of a new shard in the unique
\* index, besides the shards.
Doc    == 0
Chunks == -1
Slot   == -2

\* Lock modes: FOR KEY SHARE of a foreign key check, FOR NO KEY UPDATE of an
\* UPDATE, FOR UPDATE of a DELETE.
Ks(row) == [row |-> row, mode |-> "ks"]
Up(row) == [row |-> row, mode |-> "up"]
De(row) == [row |-> row, mode |-> "de"]

Conflicts(m1, m2) == "de" \in {m1, m2} \/ {m1, m2} = {"up"}

Shards(mode) == [i \in 1..NShards |-> [row |-> i, mode |-> mode]]

\* Mutant: the counter before the row, as in the first version of the parser.
MarkShardDoneSwapped(s) == <<Up(Doc), Up(s)>>

\* MarkShardDone, MarkShardFailed: the shard, then the counter
MarkShardDone(s) == <<Up(s), Up(Doc)>>

\* What each transaction locks; inserting a shard or a chunk checks the foreign
\* key on documents.
Locks(kind, s) ==
  CASE kind = "claim"    -> <<Up(s)>>
    [] kind = "done"     -> MarkShardDone(s)
    [] kind = "resplit"  -> <<Up(s), Up(Slot), Ks(Doc), Up(Doc)>>
    [] kind = "reap"     -> Shards("up")
    [] kind = "escalate" -> Shards("up") \o <<Up(Doc)>>
    [] kind = "requeue"  -> Shards("up") \o <<Up(Doc)>>
    [] kind = "embed"    -> <<De(Chunks), Ks(Doc), Up(Doc)>>
    [] kind = "rechunk"  -> <<De(Chunks), Up(Doc)>>
    [] kind = "full"     -> <<De(Chunks)>> \o Shards("de") \o <<Up(Doc)>>
    [] kind = "state"    -> <<Up(Doc)>>
    [] kind = "split"    -> <<Up(Doc), Up(Slot), Ks(Doc)>>
    [] kind = "delete"   -> <<De(Doc)>> \o Shards("de") \o <<De(Chunks)>>

\* commitSplit runs on a document without shard rows, all others but the state
\* changes and the delete on one that has them.
SplitKinds == {"split", "state", "delete"}
ParseKinds == {"claim", "done", "resplit", "reap", "escalate", "requeue", "embed", "rechunk",
               "full", "state", "delete"}

\* The transactions that name one shard.
OneShard == {"claim", "done", "resplit"}

\* TxWithRetry(3); the splitter, the API and the delete call Tx or the pool.
Retried(kind) == kind \in {"claim", "done", "resplit", "escalate", "embed"}

TxIdle == [pc |-> "idle", kind |-> "none", s |-> 0, todo |-> <<>>, tries |-> 0, out |-> "none"]

TxInit ==
  /\ txn = [p \in Sessions |-> TxIdle] /\ held = {} /\ committed = [p \in Sessions |-> 0]
  /\ txFaults = 0

\* A document is being split, or its shards exist.
Running(kinds) == \A p \in Sessions : txn[p].kind \in kinds \cup {"none"}

TxBegin(p, kind, s) ==
  /\ txn[p].pc = "idle"
  /\ \E kinds \in {SplitKinds, ParseKinds} : kind \in kinds /\ Running(kinds)
  /\ kind \notin OneShard => s = 1
  /\ txn' = [txn EXCEPT ![p] = [TxIdle EXCEPT !.pc = "run", !.kind = kind, !.s = s,
                                              !.todo = Locks(kind, s), !.tries = 1]]
  /\ UNCHANGED <<held, committed, txFaults>>

\* The sessions that hold what p needs next.
Blockers(p) ==
  IF txn[p].pc = "run" /\ txn[p].todo # <<>>
  THEN {h.by : h \in {h \in held : /\ h.by # p /\ h.row = Head(txn[p].todo).row
                                   /\ Conflicts(h.mode, Head(txn[p].todo).mode)}}
  ELSE {}

Statement(p) ==
  /\ txn[p].pc = "run" /\ txn[p].todo # <<>> /\ Blockers(p) = {}
  /\ held' = held \cup {[by |-> p, row |-> Head(txn[p].todo).row, mode |-> Head(txn[p].todo).mode]}
  /\ txn' = [txn EXCEPT ![p].todo = Tail(@)]
  /\ UNCHANGED <<committed, txFaults>>

Released(p) == {h \in held : h.by # p}

Commit(p) ==
  /\ txn[p].pc = "run" /\ txn[p].todo = <<>>
  /\ held' = Released(p) /\ committed' = [committed EXCEPT ![p] = @ + 1]
  /\ txn' = [txn EXCEPT ![p].pc = "done", ![p].out = "ok"]
  /\ UNCHANGED txFaults

\* txWithRetryLoop after a transient error (40P01, 40001, 55P03): everything
\* again, or the last error.
Again(p) ==
  IF Retried(txn[p].kind) /\ txn[p].tries < Attempts
  THEN [txn EXCEPT ![p].todo = Locks(txn[p].kind, txn[p].s), ![p].tries = @ + 1]
  ELSE [txn EXCEPT ![p].pc = "done", ![p].out = "transient"]

\* lock_timeout, or the deadlock detector picks p: the transaction rolls back.
Aborted(p) ==
  /\ Blockers(p) # {}
  /\ held' = Released(p) /\ txn' = Again(p)
  /\ UNCHANGED <<committed, txFaults>>

TxFault == txFaults < MaxTxFaults /\ txFaults' = txFaults + 1

\* Mutant: a lost connection is retried like a lock timeout.
AfterLossRetried(p) == Again(p)

\* IsTransientPGError is false for it: the error goes to the caller.
AfterLoss(p) == [txn EXCEPT ![p].pc = "done", ![p].out = "unknown"]

\* The connection is lost; at the commit it is lost after the commit or before it.
ConnectionLost(p) ==
  /\ txn[p].pc = "run" /\ TxFault
  /\ held' = Released(p) /\ txn' = AfterLoss(p)
  /\ \/ UNCHANGED committed
     \/ txn[p].todo = <<>> /\ committed' = [committed EXCEPT ![p] = @ + 1]

\* The caller is done with the answer.
TxReturn(p) ==
  /\ txn[p].pc = "done" /\ txn' = [txn EXCEPT ![p] = TxIdle]
  /\ committed' = [committed EXCEPT ![p] = 0]
  /\ UNCHANGED <<held, txFaults>>

TxStep(p) == Statement(p) \/ Commit(p) \/ Aborted(p)

TxNext ==
  \E p \in Sessions :
    \/ TxStep(p) \/ ConnectionLost(p) \/ TxReturn(p)
    \/ \E kind \in SplitKinds \cup ParseKinds, s \in 1..NShards : TxBegin(p, kind, s)

TxSpec == TxInit /\ [][TxNext]_txvars
-----------------------------------------------------------------------------
\* Sessions that wait for each other in a circle.
Deadlocked(Q) == Q # {} /\ \A p \in Q : Blockers(p) \cap Q # {}

\* The lock order of store/db.go does its work: whatever the workers, the janitor
\* and the retries do, they never wait for each other in a circle.  commitSplit,
\* which goes the other way, is safe because nobody else writes the new rows.
\* Only a delete of the document, which takes documents first and cascades, can
\* close a circle.
LockOrder ==
  \A Q \in SUBSET Sessions : Deadlocked(Q) => \E p \in Q : txn[p].kind = "delete"

\* A counter is bumped once by a call that succeeds, not at all by one that
\* reports contention, and never twice, also when the commit was lost in flight.
CommittedOnce ==
  \A p \in Sessions : /\ committed[p] <= 1
                      /\ txn[p].out = "ok" => committed[p] = 1
                      /\ txn[p].out = "transient" => committed[p] = 0
=============================================================================

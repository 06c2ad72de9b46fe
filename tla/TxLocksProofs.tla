--------------------------- MODULE TxLocksProofs ---------------------------
(***************************************************************************)
(* The lock order of store/db.go, and TxWithRetry over it, for any number  *)
(* of connections, any number of shards and any number of attempts.        *)
(***************************************************************************)
EXTENDS TxLocks, SequenceTheorems, WellFoundedInduction, TLAPS

Lock == [row : -2..NShards, mode : {"ks", "up", "de"}]
HeldLock == [by : Sessions, row : -2..NShards, mode : {"ks", "up", "de"}]

TxType == [pc : {"idle", "run", "done"}, kind : SplitKinds \cup ParseKinds \cup {"none"},
           s : 0..NShards, todo : Seq(Lock), tries : Nat,
           out : {"none", "ok", "transient", "unknown"}]

\* Only a running transaction has locks, and it has its kind and its shard.
LocksAreHeld ==
  /\ \A p \in Sessions : txn[p].pc = "run" => txn[p].kind # "none" /\ txn[p].s \in 1..NShards
  /\ \A h \in held : txn[h.by].pc = "run"

TxTypeOK ==
  /\ txn \in [Sessions -> TxType] /\ held \in SUBSET HeldLock
  /\ committed \in [Sessions -> Nat] /\ txFaults \in Nat
  /\ LocksAreHeld
-----------------------------------------------------------------------------
\* The transactions of a document that is being split, and of one that is split.
Phases == {"split", "parse"}
Kinds(phase) == IF phase = "split" THEN SplitKinds ELSE ParseKinds

\* The place of a lock in the order of store/db.go; commitSplit has its own.
Rank(phase, l) ==
  IF phase = "split"
  THEN IF l.row = Slot THEN 1 ELSE IF l.mode = "ks" THEN 2 ELSE 0
  ELSE IF l.row = Chunks THEN 0
       ELSE IF l.row = Slot THEN NShards + 1
       ELSE IF l.row # Doc THEN l.row
       ELSE IF l.mode = "ks" THEN NShards + 2 ELSE NShards + 3

\* Foreign keys are checked on documents only, and only the delete locks the
\* document FOR UPDATE.
Usual(l) == (l.mode = "ks" => l.row = Doc) /\ (l.mode = "de" => l.row # Doc)

\* The locks still to take ascend.
Ascends(phase, todo) ==
  \A i, j \in 1..Len(todo) : i < j => Rank(phase, todo[i]) < Rank(phase, todo[j])

UsualSeq(todo) == \A i \in 1..Len(todo) : Usual(todo[i])

InOrder(phase, todo) == Ascends(phase, todo) /\ UsualSeq(todo)

\* Ranks are numbers.
LEMMA RankType == ASSUME NEW phase \in Phases, NEW l \in Lock PROVE Rank(phase, l) \in Int
  BY TxAssumption DEF Rank, Lock

\* Two or three locks in a row.
LEMMA ShortSeqs ==
  ASSUME NEW a \in Lock, NEW b \in Lock, NEW c \in Lock, NEW d \in Lock
  PROVE  /\ <<a>> \in Seq(Lock) /\ <<a, b>> \in Seq(Lock)
         /\ <<a, b, c>> \in Seq(Lock) /\ <<a, b, c, d>> \in Seq(Lock)
  OBVIOUS

\* A statement over all shards takes them in the order of the heap.
LEMMA ShardLocks ==
  ASSUME NEW m \in {"ks", "up", "de"}
  PROVE  /\ Shards(m) \in Seq(Lock) /\ Len(Shards(m)) = NShards
         /\ \A i \in 1..NShards : Shards(m)[i] = [row |-> i, mode |-> m]
  BY TxAssumption DEF Shards, Lock

\* Every transaction is a list of locks.
LEMMA LocksType ==
  ASSUME NEW kind \in SplitKinds \cup ParseKinds, NEW s \in 1..NShards
  PROVE  Locks(kind, s) \in Seq(Lock)
  <1>1. /\ Up(s) \in Lock /\ Up(Doc) \in Lock /\ Up(Slot) \in Lock /\ Ks(Doc) \in Lock
        /\ De(Chunks) \in Lock /\ De(Doc) \in Lock
    BY TxAssumption DEF Up, Ks, De, Doc, Slot, Chunks, Lock
  <1>2. Shards("up") \in Seq(Lock) /\ Shards("de") \in Seq(Lock)
    BY ShardLocks
  <1>3. /\ <<Up(Doc)>> \in Seq(Lock) /\ <<De(Chunks)>> \in Seq(Lock) /\ <<De(Doc)>> \in Seq(Lock)
        /\ <<Up(s)>> \in Seq(Lock) /\ <<Up(s), Up(Doc)>> \in Seq(Lock)
        /\ <<Up(s), Up(Slot), Ks(Doc), Up(Doc)>> \in Seq(Lock)
        /\ <<De(Chunks), Ks(Doc), Up(Doc)>> \in Seq(Lock) /\ <<De(Chunks), Up(Doc)>> \in Seq(Lock)
        /\ <<Up(Doc), Up(Slot), Ks(Doc)>> \in Seq(Lock)
    BY <1>1, ShortSeqs
  <1>4. \A a, b \in Seq(Lock) : a \o b \in Seq(Lock)
    BY ConcatProperties
  <1>5. /\ Shards("up") \o <<Up(Doc)>> \in Seq(Lock)
        /\ <<De(Chunks)>> \o Shards("de") \o <<Up(Doc)>> \in Seq(Lock)
        /\ <<De(Doc)>> \o Shards("de") \o <<De(Chunks)>> \in Seq(Lock)
    BY <1>2, <1>3, <1>4
  <1> QED BY <1>2, <1>3, <1>5 DEF Locks, SplitKinds, ParseKinds, MarkShardDone

\* A sequence of locks followed by another ascends if each does and the last of
\* the one lies below the first of the other.
LEMMA AscendsOn ==
  ASSUME NEW phase \in Phases, NEW a \in Seq(Lock), NEW b \in Seq(Lock),
         InOrder(phase, a), InOrder(phase, b),
         \A i \in 1..Len(a), j \in 1..Len(b) : Rank(phase, a[i]) < Rank(phase, b[j])
  PROVE  InOrder(phase, a \o b)
  <1> USE DEF InOrder
  <1>1. /\ Len(a) \in Nat /\ Len(b) \in Nat /\ Len(a \o b) = Len(a) + Len(b)
        /\ \A i \in 1..(Len(a) + Len(b)) : (a \o b)[i] = IF i <= Len(a) THEN a[i] ELSE b[i - Len(a)]
    BY ConcatProperties, LenProperties
  <1> DEFINE c == a \o b
  <1> HIDE DEF c
  <1>2. ASSUME NEW i \in 1..Len(c), NEW j \in 1..Len(c), i < j
        PROVE  Rank(phase, c[i]) < Rank(phase, c[j])
    <2>1. CASE j <= Len(a)
      BY <1>1, <1>2, <2>1 DEF Ascends, c
    <2>2. CASE i > Len(a)
      <3>1. c[i] = b[i - Len(a)] /\ c[j] = b[j - Len(a)]
        BY <1>1, <1>2, <2>2 DEF c
      <3>2. i - Len(a) \in 1..Len(b) /\ j - Len(a) \in 1..Len(b) /\ i - Len(a) < j - Len(a)
        BY <1>1, <1>2, <2>2 DEF c
      <3> QED BY <3>1, <3>2 DEF Ascends
    <2>3. CASE i <= Len(a) /\ j > Len(a)
      <3>1. c[i] = a[i] /\ c[j] = b[j - Len(a)] /\ i \in 1..Len(a) /\ j - Len(a) \in 1..Len(b)
        BY <1>1, <1>2, <2>3 DEF c
      <3> QED BY <3>1
    <2> QED BY <1>1, <1>2, <2>1, <2>2, <2>3
  <1>3. ASSUME NEW i \in 1..Len(c) PROVE Usual(c[i])
    <2>1. CASE i <= Len(a)
      BY <1>1, <2>1 DEF UsualSeq, c
    <2>2. CASE i > Len(a)
      <3>1. c[i] = b[i - Len(a)] /\ i - Len(a) \in 1..Len(b)
        BY <1>1, <2>2 DEF c
      <3> QED BY <3>1 DEF UsualSeq
    <2> QED BY <1>1, <2>1, <2>2
  <1> QED BY <1>2, <1>3 DEF Ascends, UsualSeq, c

\* The places of the locks that transactions take.
LEMMA Ranks ==
  /\ \A r \in 1..NShards : Rank("parse", Up(r)) = r /\ Rank("parse", De(r)) = r
  /\ Rank("parse", De(Chunks)) = 0 /\ Rank("parse", Up(Slot)) = NShards + 1
  /\ Rank("parse", Ks(Doc)) = NShards + 2 /\ Rank("parse", Up(Doc)) = NShards + 3
  /\ Rank("split", Up(Doc)) = 0 /\ Rank("split", Up(Slot)) = 1 /\ Rank("split", Ks(Doc)) = 2
  /\ \A r \in -2..NShards : Usual(Up(r)) /\ (r # Doc => Usual(De(r)))
  /\ Usual(Ks(Doc))
  BY TxAssumption DEF Rank, Usual, Up, De, Ks, Doc, Slot, Chunks

\* A short list is in order if its neighbours are.
LEMMA InOrder1 == ASSUME NEW phase, NEW a, Usual(a) PROVE InOrder(phase, <<a>>)
  BY DEF InOrder, Ascends, UsualSeq

\* Two locks that ascend are in order.
LEMMA InOrder2 ==
  ASSUME NEW phase, NEW a, NEW b, Usual(a), Usual(b), Rank(phase, a) < Rank(phase, b)
  PROVE  InOrder(phase, <<a, b>>)
  BY DEF InOrder, Ascends, UsualSeq

\* So are three.
LEMMA InOrder3 ==
  ASSUME NEW phase, NEW a, NEW b, NEW c, Usual(a), Usual(b), Usual(c),
         Rank(phase, a) \in Int, Rank(phase, b) \in Int, Rank(phase, c) \in Int,
         Rank(phase, a) < Rank(phase, b), Rank(phase, b) < Rank(phase, c)
  PROVE  InOrder(phase, <<a, b, c>>)
  BY DEF InOrder, Ascends, UsualSeq

\* And four.
LEMMA InOrder4 ==
  ASSUME NEW phase, NEW a, NEW b, NEW c, NEW d, Usual(a), Usual(b), Usual(c), Usual(d),
         Rank(phase, a) \in Int, Rank(phase, b) \in Int, Rank(phase, c) \in Int, Rank(phase, d) \in Int,
         Rank(phase, a) < Rank(phase, b), Rank(phase, b) < Rank(phase, c), Rank(phase, c) < Rank(phase, d)
  PROVE  InOrder(phase, <<a, b, c, d>>)
  BY DEF InOrder, Ascends, UsualSeq

\* The shards of a document, one after the other.
LEMMA ShardsAscend ==
  ASSUME NEW m \in {"up", "de"}
  PROVE  /\ InOrder("parse", Shards(m))
         /\ \A i \in 1..NShards : Rank("parse", Shards(m)[i]) = i
  <1>1. \A i \in 1..NShards : Shards(m)[i] = IF m = "up" THEN Up(i) ELSE De(i)
    BY ShardLocks DEF Up, De
  <1>2. \A i \in 1..NShards : Rank("parse", Shards(m)[i]) = i
    BY <1>1, Ranks
  <1>3. \A i \in 1..NShards : Usual(Shards(m)[i])
    <2>1. \A i \in 1..NShards : i \in -2..NShards /\ i # Doc
      BY TxAssumption DEF Doc
    <2> QED BY <1>1, <2>1, Ranks
  <1>4. Len(Shards(m)) = NShards
    BY ShardLocks
  <1> QED BY <1>2, <1>3, <1>4 DEF InOrder, Ascends, UsualSeq

\* Every transaction but the delete takes its locks in the order of store/db.go.
LEMMA LocksAscend ==
  ASSUME NEW phase \in Phases, NEW kind \in Kinds(phase) \ {"delete"}, NEW s \in 1..NShards
  PROVE  InOrder(phase, Locks(kind, s))
  <1> USE TxAssumption
  <1>1. Usual(Up(s)) /\ Usual(Up(Slot)) /\ Usual(Up(Doc)) /\ Usual(De(Chunks)) /\ Usual(Ks(Doc))
    <2>1. s \in -2..NShards /\ Slot \in -2..NShards /\ Doc \in -2..NShards /\ Chunks \in -2..NShards
          /\ Chunks # Doc
      BY DEF Slot, Doc, Chunks
    <2> QED BY <2>1, Ranks
  <1>2. CASE phase = "split"
    <2>1. /\ Rank(phase, Up(Doc)) = 0 /\ Rank(phase, Up(Slot)) = 1 /\ Rank(phase, Ks(Doc)) = 2
      BY <1>2, Ranks
    <2>2. InOrder(phase, <<Up(Doc)>>) /\ InOrder(phase, <<Up(Doc), Up(Slot), Ks(Doc)>>)
      BY <1>1, <2>1, InOrder1, InOrder2, InOrder3, InOrder4
    <2> QED BY <1>2, <2>2 DEF Kinds, SplitKinds, Locks
  <1>3. CASE phase = "parse"
    <2>1. /\ Rank(phase, Up(s)) = s /\ s \in Int /\ 0 < s /\ s < NShards + 1
          /\ Rank(phase, De(Chunks)) = 0 /\ Rank(phase, Up(Slot)) = NShards + 1
          /\ Rank(phase, Ks(Doc)) = NShards + 2 /\ Rank(phase, Up(Doc)) = NShards + 3
      BY <1>3, Ranks
    <2>2. InOrder(phase, <<Up(s)>>) /\ InOrder(phase, <<Up(s), Up(Doc)>>)
      BY <1>1, <2>1, InOrder1, InOrder2, InOrder3, InOrder4
    <2>3. InOrder(phase, <<Up(s), Up(Slot), Ks(Doc), Up(Doc)>>)
      BY <1>1, <2>1, InOrder1, InOrder2, InOrder3, InOrder4
    <2>4. InOrder(phase, <<De(Chunks), Ks(Doc), Up(Doc)>>) /\ InOrder(phase, <<De(Chunks), Up(Doc)>>)
      BY <1>1, <2>1, InOrder1, InOrder2, InOrder3, InOrder4
    <2>5. InOrder(phase, <<Up(Doc)>>) /\ InOrder(phase, <<De(Chunks)>>)
      BY <1>1, <2>1, InOrder1, InOrder2, InOrder3, InOrder4
    <2>6. /\ <<Up(Doc)>> \in Seq(Lock) /\ <<De(Chunks)>> \in Seq(Lock)
          /\ Len(<<Up(Doc)>>) = 1 /\ Len(<<De(Chunks)>>) = 1
          /\ <<Up(Doc)>>[1] = Up(Doc) /\ <<De(Chunks)>>[1] = De(Chunks)
      BY DEF Up, De, Doc, Chunks, Lock
    <2>7. \A m \in {"up", "de"} :
            /\ Shards(m) \in Seq(Lock) /\ Len(Shards(m)) = NShards /\ InOrder(phase, Shards(m))
            /\ \A i \in 1..NShards : Rank(phase, Shards(m)[i]) = i
      BY <1>3, ShardLocks, ShardsAscend
    <2>8. ASSUME NEW m \in {"up", "de"} PROVE InOrder(phase, Shards(m) \o <<Up(Doc)>>)
      <3> DEFINE a == Shards(m)
                 b == <<Up(Doc)>>
      <3>1. /\ a \in Seq(Lock) /\ b \in Seq(Lock) /\ InOrder(phase, a) /\ InOrder(phase, b)
            /\ \A i \in 1..Len(a), j \in 1..Len(b) : Rank(phase, a[i]) < Rank(phase, b[j])
        BY <2>1, <2>5, <2>6, <2>7
      <3> HIDE DEF a, b
      <3>2. InOrder(phase, a \o b)
        BY <3>1, AscendsOn
      <3> QED BY <3>2 DEF a, b
    <2>9. InOrder(phase, <<De(Chunks)>> \o Shards("de") \o <<Up(Doc)>>)
      <3> DEFINE a == <<De(Chunks)>>
                 b == Shards("de")
                 c == <<Up(Doc)>>
                 d == a \o b
      <3>1. /\ a \in Seq(Lock) /\ b \in Seq(Lock) /\ InOrder(phase, a) /\ InOrder(phase, b)
            /\ \A i \in 1..Len(a), j \in 1..Len(b) : Rank(phase, a[i]) < Rank(phase, b[j])
        BY <2>1, <2>5, <2>6, <2>7
      <3>2. InOrder(phase, d)
        <4> HIDE DEF a, b
        <4> QED BY <3>1, AscendsOn
      <3>3. /\ d \in Seq(Lock) /\ Len(d) = NShards + 1
            /\ \A i \in 1..(NShards + 1) : d[i] = IF i <= 1 THEN a[i] ELSE b[i - 1]
        <4>1. Len(a) = 1 /\ Len(b) = NShards
          BY <2>6, <2>7
        <4> HIDE DEF a, b
        <4>2. /\ a \o b \in Seq(Lock) /\ Len(a \o b) = Len(a) + Len(b)
              /\ \A i \in 1..(Len(a) + Len(b)) : (a \o b)[i] = IF i <= Len(a) THEN a[i] ELSE b[i - Len(a)]
          BY <3>1, ConcatProperties
        <4> HIDE DEF d
        <4>3. \A i \in 1..(NShards + 1) : d[i] = IF i <= 1 THEN a[i] ELSE b[i - 1]
          BY <4>1, <4>2 DEF d
        <4> QED BY <4>1, <4>2, <4>3 DEF d
      <3>4. \A i \in 1..Len(d) : Rank(phase, d[i]) <= NShards
        <4> SUFFICES ASSUME NEW i \in 1..(NShards + 1) PROVE Rank(phase, d[i]) <= NShards
          BY <3>3
        <4>1. CASE i = 1
          BY <2>1, <2>6, <3>3, <4>1
        <4>2. CASE i # 1
          <5>1. d[i] = b[i - 1] /\ i - 1 \in 1..NShards
            <6> HIDE DEF a, b, d
            <6> QED BY <3>3, <4>2
          <5>2. Rank(phase, b[i - 1]) = i - 1
            BY <2>7, <5>1
          <5> HIDE DEF a, b, d
          <5> QED BY <5>1, <5>2
        <4> QED BY <4>1, <4>2
      <3>5. \A i \in 1..Len(d), j \in 1..Len(c) : Rank(phase, d[i]) < Rank(phase, c[j])
        <4>0. \A j \in 1..Len(c) : Rank(phase, c[j]) = NShards + 3
          BY <2>1, <2>6
        <4> SUFFICES ASSUME NEW i \in 1..Len(d) PROVE Rank(phase, d[i]) < NShards + 3
          <5> HIDE DEF c, d
          <5> QED BY <4>0
        <4>1. Rank(phase, d[i]) \in Int /\ Rank(phase, d[i]) <= NShards
          BY <3>3, <3>4, RankType, ElementOfSeq
        <4> HIDE DEF d
        <4> QED BY <4>1
      <3>6. c \in Seq(Lock) /\ InOrder(phase, c)
        BY <2>5, <2>6
      <3> HIDE DEF a, b, c, d
      <3>7. InOrder(phase, d \o c)
        BY <3>2, <3>3, <3>5, <3>6, AscendsOn
      <3> QED BY <3>7 DEF a, b, c, d
    <2> QED BY <1>3, <2>2, <2>3, <2>4, <2>5, <2>7, <2>8, <2>9 DEF Kinds, ParseKinds, Locks, MarkShardDone
  <1> QED BY <1>2, <1>3 DEF Phases
-----------------------------------------------------------------------------
\* A session that is not in a transaction.
LEMMA IdleType == TxIdle \in TxType
  BY TxAssumption, EmptySeq DEF TxIdle, TxType

\* A transaction from its first statement, and one that is over.
Restarted(p) == [txn[p] EXCEPT !.todo = Locks(txn[p].kind, txn[p].s), !.tries = @ + 1]
Over(p, o)   == [txn[p] EXCEPT !.pc = "done", !.out = o]

\* The end of a transaction keeps what it was.
LEMMA OverType ==
  ASSUME txn \in [Sessions -> TxType], NEW p \in Sessions, NEW o \in {"ok", "transient", "unknown"}
  PROVE  /\ Over(p, o) \in TxType /\ Over(p, o).pc = "done" /\ Over(p, o).out = o
         /\ [txn EXCEPT ![p].pc = "done", ![p].out = o] = [txn EXCEPT ![p] = Over(p, o)]
         /\ Over(p, o).kind = txn[p].kind
  <1>1. txn[p] \in TxType
    OBVIOUS
  <1> QED BY <1>1 DEF Over, TxType

\* The three ways a transaction ends.
LEMMA Endings ==
  ASSUME TxTypeOK, NEW p \in Sessions
  PROVE  /\ Commit(p) => txn' = [txn EXCEPT ![p] = Over(p, "ok")]
         /\ ConnectionLost(p) => txn' = [txn EXCEPT ![p] = Over(p, "unknown")]
  <1>1. txn \in [Sessions -> TxType]
    BY DEF TxTypeOK
  <1>2. \A o \in {"ok", "transient", "unknown"} :
          [txn EXCEPT ![p].pc = "done", ![p].out = o] = [txn EXCEPT ![p] = Over(p, o)]
    BY <1>1, OverType
  <1> QED BY <1>2 DEF Commit, ConnectionLost, AfterLoss

\* TxWithRetry leaves a transaction that runs again from its first statement, or
\* one that is over.
LEMMA AgainType ==
  ASSUME TxTypeOK, NEW p \in Sessions, txn[p].pc = "run"
  PROVE  /\ Again(p) = [txn EXCEPT ![p] = Restarted(p)] \/ Again(p) = [txn EXCEPT ![p] = Over(p, "transient")]
         /\ Restarted(p) \in TxType /\ Restarted(p).pc = "run" /\ Restarted(p).out = txn[p].out
         /\ Restarted(p).kind = txn[p].kind /\ Restarted(p).s = txn[p].s
         /\ Restarted(p).todo = Locks(txn[p].kind, txn[p].s)
  <1>1. /\ txn \in [Sessions -> TxType] /\ txn[p] \in TxType
        /\ txn[p].kind \in SplitKinds \cup ParseKinds /\ txn[p].s \in 1..NShards
    BY DEF TxTypeOK, LocksAreHeld, TxType
  <1>2. Locks(txn[p].kind, txn[p].s) \in Seq(Lock)
    BY <1>1, LocksType
  <1>3. [txn EXCEPT ![p].todo = Locks(txn[p].kind, txn[p].s), ![p].tries = @ + 1] = [txn EXCEPT ![p] = Restarted(p)]
    BY <1>1 DEF Restarted
  <1>4. [txn EXCEPT ![p].pc = "done", ![p].out = "transient"] = [txn EXCEPT ![p] = Over(p, "transient")]
    BY <1>1, OverType
  <1>5. /\ Restarted(p) \in TxType /\ Restarted(p).pc = "run" /\ Restarted(p).out = txn[p].out
        /\ Restarted(p).kind = txn[p].kind /\ Restarted(p).s = txn[p].s
        /\ Restarted(p).todo = Locks(txn[p].kind, txn[p].s)
    <2> DEFINE L == Locks(txn[p].kind, txn[p].s)
               w == [txn[p] EXCEPT !.todo = L, !.tries = @ + 1]
    <2>0. L \in Seq(Lock)
      BY <1>2
    <2> HIDE DEF L
    <2>1. w \in TxType
      <3> DEFINE k == txn[p].tries + 1
      <3>1. k \in Nat
        BY <1>1 DEF TxType
      <3> HIDE DEF k
      <3>2. \A v \in TxType : [v EXCEPT !.todo = L, !.tries = k] \in TxType
        BY <2>0, <3>1 DEF TxType
      <3> QED BY <1>1, <3>2 DEF k
    <2>2. w.pc = txn[p].pc /\ w.out = txn[p].out /\ w.kind = txn[p].kind /\ w.s = txn[p].s /\ w.todo = L
      BY <1>1 DEF TxType
    <2> QED BY <2>1, <2>2 DEF Restarted, L
  <1>6. Again(p) = [txn EXCEPT ![p] = Restarted(p)] \/ Again(p) = [txn EXCEPT ![p] = Over(p, "transient")]
    BY <1>3, <1>4 DEF Again
  <1> QED BY <1>5, <1>6

\* Locks appear with the transaction that takes them, and go with it.
LEMMA TxTypeStep == TxTypeOK /\ [TxNext]_txvars => TxTypeOK'
  <1> SUFFICES ASSUME TxTypeOK, [TxNext]_txvars PROVE TxTypeOK'
    OBVIOUS
  <1>1. /\ txn \in [Sessions -> TxType] /\ held \in SUBSET HeldLock
        /\ committed \in [Sessions -> Nat] /\ txFaults \in Nat
        /\ \A p \in Sessions : txn[p].pc = "run" => txn[p].kind # "none" /\ txn[p].s \in 1..NShards
        /\ \A h \in held : txn[h.by].pc = "run" /\ h.by \in Sessions
    BY DEF TxTypeOK, LocksAreHeld, HeldLock
  <1>2. CASE UNCHANGED txvars
    BY <1>2 DEF txvars, TxTypeOK, LocksAreHeld
  <1>3. ASSUME NEW p \in Sessions, NEW kind \in SplitKinds \cup ParseKinds, NEW s \in 1..NShards,
               TxBegin(p, kind, s)
        PROVE  TxTypeOK'
    <2> DEFINE w == [TxIdle EXCEPT !.pc = "run", !.kind = kind, !.s = s, !.todo = Locks(kind, s), !.tries = 1]
    <2>1. w \in TxType /\ w.kind = kind /\ w.s = s /\ w.pc = "run"
      <3> DEFINE L == Locks(kind, s)
      <3>1. L \in Seq(Lock) /\ s \in 0..NShards
        BY TxAssumption, LocksType
      <3> HIDE DEF L
      <3>2. [TxIdle EXCEPT !.pc = "run", !.kind = kind, !.s = s, !.todo = L, !.tries = 1] \in TxType
        BY <3>1, IdleType DEF TxType
      <3>3. \A v \in TxType : LET x == [v EXCEPT !.pc = "run", !.kind = kind, !.s = s, !.todo = L, !.tries = 1]
                              IN  x.kind = kind /\ x.s = s /\ x.pc = "run"
        BY DEF TxType
      <3> QED BY <3>2, <3>3, IdleType DEF L
    <2>2. "none" \notin SplitKinds \cup ParseKinds
      BY DEF SplitKinds, ParseKinds
    <2>3. txn' = [txn EXCEPT ![p] = w] /\ UNCHANGED <<held, committed, txFaults>> /\ txn[p].pc = "idle"
      BY <1>3 DEF TxBegin
    <2> HIDE DEF w
    <2> QED BY <1>1, <2>1, <2>2, <2>3 DEF TxTypeOK, LocksAreHeld
  <1>4. ASSUME NEW p \in Sessions, Statement(p) PROVE TxTypeOK'
    <2> DEFINE l == Head(txn[p].todo)
               w == [txn[p] EXCEPT !.todo = Tail(txn[p].todo)]
    <2>1. l \in Lock /\ Tail(txn[p].todo) \in Seq(Lock)
      BY <1>1, <1>4, HeadTailProperties DEF Statement, TxType
    <2>2. w \in TxType /\ w.pc = txn[p].pc /\ w.kind = txn[p].kind /\ w.s = txn[p].s
      BY <1>1, <2>1 DEF TxType
    <2>3. [by |-> p, row |-> l.row, mode |-> l.mode] \in HeldLock
      BY <2>1 DEF HeldLock, Lock
    <2>4. /\ txn' = [txn EXCEPT ![p] = w] /\ UNCHANGED <<committed, txFaults>> /\ txn[p].pc = "run"
          /\ held' = held \cup {[by |-> p, row |-> l.row, mode |-> l.mode]}
      BY <1>1, <1>4 DEF Statement
    <2> HIDE DEF w, l
    <2> QED BY <1>1, <2>2, <2>3, <2>4 DEF TxTypeOK, LocksAreHeld
  <1>5. ASSUME NEW p \in Sessions, txn' \in [Sessions -> TxType], held' = Released(p), txn[p].pc = "run",
               txFaults' \in Nat, committed' \in [Sessions -> Nat],
               \A q \in Sessions : q # p => txn'[q] = txn[q],
               txn'[p].pc # "run" \/ (txn'[p].kind = txn[p].kind /\ txn'[p].s = txn[p].s)
        PROVE  TxTypeOK'
    BY <1>1, <1>5 DEF TxTypeOK, LocksAreHeld, Released
  <1>6. ASSUME NEW p \in Sessions, NEW o \in {"ok", "transient", "unknown"}, txn' = [txn EXCEPT ![p] = Over(p, o)]
        PROVE  /\ txn' \in [Sessions -> TxType] /\ \A q \in Sessions : q # p => txn'[q] = txn[q]
               /\ txn'[p].pc # "run"
    BY <1>1, <1>6, OverType
  <1>7. ASSUME NEW p \in Sessions, Commit(p) PROVE TxTypeOK'
    <2>1. /\ txn' = [txn EXCEPT ![p] = Over(p, "ok")] /\ held' = Released(p) /\ txn[p].pc = "run"
          /\ txFaults' \in Nat /\ committed' \in [Sessions -> Nat]
      <3>1. txn[p].pc = "run" /\ held' = Released(p) /\ txFaults' = txFaults
            /\ committed' = [committed EXCEPT ![p] = @ + 1]
        BY <1>7 DEF Commit
      <3> QED BY <1>1, <1>7, <3>1, Endings
    <2> QED BY <1>5, <1>6, <2>1
  <1>8. ASSUME NEW p \in Sessions, Aborted(p) PROVE TxTypeOK'
    <2>1. /\ txn[p].pc = "run" /\ txn' = Again(p) /\ held' = Released(p)
          /\ txFaults' \in Nat /\ committed' \in [Sessions -> Nat]
      BY <1>1, <1>8 DEF Aborted, Blockers
    <2>2. CASE txn' = [txn EXCEPT ![p] = Restarted(p)]
      <3>1. /\ txn' \in [Sessions -> TxType] /\ \A q \in Sessions : q # p => txn'[q] = txn[q]
            /\ txn'[p].kind = txn[p].kind /\ txn'[p].s = txn[p].s
        BY <1>1, <2>1, <2>2, AgainType
      <3> QED BY <1>5, <2>1, <3>1
    <2>3. CASE txn' = [txn EXCEPT ![p] = Over(p, "transient")]
      BY <1>5, <1>6, <2>1, <2>3
    <2> QED BY <2>1, <2>2, <2>3, AgainType
  <1>9. ASSUME NEW p \in Sessions, ConnectionLost(p) PROVE TxTypeOK'
    <2>1. /\ txn[p].pc = "run" /\ held' = Released(p) /\ txFaults' \in Nat /\ committed' \in [Sessions -> Nat]
          /\ txn' = [txn EXCEPT ![p] = Over(p, "unknown")]
      BY <1>1, <1>9, Endings DEF ConnectionLost, TxFault
    <2> QED BY <1>5, <1>6, <2>1
  <1>10. ASSUME NEW p \in Sessions, TxReturn(p) PROVE TxTypeOK'
    <2>1. /\ txn[p].pc = "done" /\ txn' = [txn EXCEPT ![p] = TxIdle] /\ TxIdle.pc = "idle"
          /\ committed' \in [Sessions -> Nat] /\ UNCHANGED <<held, txFaults>>
      BY <1>1, <1>10 DEF TxReturn, TxIdle
    <2> QED BY <1>1, <2>1, IdleType DEF TxTypeOK, LocksAreHeld
  <1> QED BY <1>2, <1>3, <1>4, <1>7, <1>8, <1>9, <1>10 DEF TxNext, TxStep

\* A call commits at its last statement and then is over.
CommitsOnce ==
  \A p \in Sessions :
    /\ txn[p].pc # "done" => committed[p] = 0 /\ txn[p].out = "none"
    /\ txn[p].pc = "done" => /\ committed[p] <= 1
                             /\ txn[p].out = "ok" => committed[p] = 1
                             /\ txn[p].out = "transient" => committed[p] = 0

\* A call commits in one of its attempts at most, and only as the last thing it does.
LEMMA CommitStep == TxTypeOK /\ CommitsOnce /\ [TxNext]_txvars => CommitsOnce'
  <1> SUFFICES ASSUME TxTypeOK, CommitsOnce, [TxNext]_txvars PROVE CommitsOnce'
    OBVIOUS
  <1>1. txn \in [Sessions -> TxType] /\ committed \in [Sessions -> Nat]
    BY DEF TxTypeOK
  <1>2. CASE UNCHANGED txvars
    BY <1>2 DEF txvars, CommitsOnce
  <1>3. ASSUME NEW p \in Sessions, NEW kind, NEW s, TxBegin(p, kind, s) PROVE CommitsOnce'
    BY <1>1, <1>3 DEF TxBegin, TxIdle, CommitsOnce
  <1>4. ASSUME NEW p \in Sessions, Statement(p) PROVE CommitsOnce'
    BY <1>1, <1>4 DEF Statement, CommitsOnce, TxType
  <1>5. ASSUME NEW p \in Sessions, NEW o \in {"ok", "transient", "unknown"}, txn[p].pc = "run",
               txn' = [txn EXCEPT ![p] = Over(p, o)],
               \/ o # "ok" /\ committed' = committed
               \/ o # "transient" /\ committed' = [committed EXCEPT ![p] = @ + 1]
        PROVE  CommitsOnce'
    <2>1. txn'[p].pc = "done" /\ txn'[p].out = o /\ committed[p] = 0
      BY <1>1, <1>5, OverType DEF CommitsOnce
    <2>2. \A q \in Sessions : q # p => txn'[q] = txn[q] /\ committed'[q] = committed[q]
      BY <1>1, <1>5
    <2>3. IF o = "ok" THEN committed'[p] = 1 ELSE IF o = "transient" THEN committed'[p] = 0 ELSE committed'[p] \in {0, 1}
      BY <1>1, <1>5, <2>1
    <2> QED BY <2>1, <2>2, <2>3 DEF CommitsOnce
  <1>6. ASSUME NEW p \in Sessions, Aborted(p) PROVE CommitsOnce'
    <2>1. txn[p].pc = "run" /\ txn' = Again(p) /\ committed' = committed
      BY <1>6 DEF Aborted, Blockers
    <2>2. CASE txn' = [txn EXCEPT ![p] = Restarted(p)]
      BY <1>1, <2>1, <2>2, AgainType DEF CommitsOnce
    <2> QED BY <1>5, <2>1, <2>2, AgainType
  <1>7. ASSUME NEW p \in Sessions, Commit(p) \/ ConnectionLost(p) PROVE CommitsOnce'
    BY <1>5, <1>7, Endings DEF Commit, ConnectionLost
  <1>8. ASSUME NEW p \in Sessions, TxReturn(p) PROVE CommitsOnce'
    BY <1>1, <1>8 DEF TxReturn, TxIdle, CommitsOnce
  <1> QED BY <1>2, <1>3, <1>4, <1>6, <1>7, <1>8 DEF TxNext, TxStep

\* Types and commits, throughout.
LEMMA TxInvariant == TxSpec => [](TxTypeOK /\ CommitsOnce)
  <1>1. TxInit => TxTypeOK /\ CommitsOnce
    BY IdleType DEF TxInit, TxTypeOK, LocksAreHeld, CommitsOnce, TxIdle
  <1> QED BY <1>1, TxTypeStep, CommitStep, PTL DEF TxSpec

\* A transaction that TxWithRetry repeats takes effect once if the call succeeds
\* and not at all if it reports contention, however many attempts it makes and
\* wherever its connection is lost.
THEOREM RetriesCommitOnce == TxSpec => []CommittedOnce
  <1>1. TxTypeOK /\ CommitsOnce => CommittedOnce
    BY DEF CommitsOnce, CommittedOnce, TxTypeOK, TxType
  <1> QED BY <1>1, TxInvariant, PTL
-----------------------------------------------------------------------------
\* What session p has locked lies below what it still has to lock, and its locks
\* are the usual ones.
InPlace(phase, p) ==
  /\ InOrder(phase, txn[p].todo)
  /\ \A h \in held : h.by = p =>
       Usual(h) /\ \A i \in 1..Len(txn[p].todo) : Rank(phase, h) < Rank(phase, txn[p].todo[i])

LocksInOrder ==
  \A phase \in Phases, p \in Sessions :
    txn[p].pc = "run" /\ txn[p].kind \in Kinds(phase) \ {"delete"} => InPlace(phase, p)

\* Splitting and parsing a document do not overlap.
OnePhase == \E phase \in Phases : Running(Kinds(phase))

\* What session p has and needs is its own affair.
LEMMA OthersInPlace ==
  ASSUME LocksInOrder, NEW p \in Sessions,
         \A q \in Sessions : q # p => txn'[q] = txn[q],
         \A h \in held' : h \in held \/ h.by = p,
         \A phase \in Phases : txn'[p].pc = "run" /\ txn'[p].kind \in Kinds(phase) \ {"delete"} =>
                                 InPlace(phase, p)'
  PROVE  LocksInOrder'
  <1>1. ASSUME NEW phase \in Phases, NEW q \in Sessions, q # p,
               txn'[q].pc = "run", txn'[q].kind \in Kinds(phase) \ {"delete"}
        PROVE  InPlace(phase, q)'
    <2>1. InPlace(phase, q) /\ txn'[q] = txn[q]
      BY <1>1 DEF LocksInOrder
    <2>2. \A h \in held' : h.by = q => h \in held
      BY <1>1
    <2> QED BY <2>1, <2>2 DEF InPlace
  <1> QED BY <1>1 DEF LocksInOrder

\* A transaction begins in order, with nothing locked.
LEMMA StartInPlace ==
  ASSUME NEW phase \in Phases, NEW p \in Sessions, txn'[p].kind \in Kinds(phase) \ {"delete"},
         NEW s \in 1..NShards, txn'[p].todo = Locks(txn'[p].kind, s), \A h \in held' : h.by # p
  PROVE  InPlace(phase, p)'
  BY LocksAscend DEF InPlace

\* One statement takes the lowest of the locks that are left.
LEMMA StatementInPlace ==
  ASSUME TxTypeOK, LocksInOrder, NEW phase \in Phases, NEW p \in Sessions, Statement(p),
         txn[p].kind \in Kinds(phase) \ {"delete"}
  PROVE  InPlace(phase, p)'
  <1> DEFINE t == txn[p].todo
             l == Head(t)
  <1>1. txn[p].pc = "run" /\ t # <<>> /\ t \in Seq(Lock) /\ InPlace(phase, p)
    BY DEF Statement, LocksInOrder, TxTypeOK, TxType
  <1>2. /\ txn'[p].todo = Tail(t)
        /\ held' = held \cup {[by |-> p, row |-> l.row, mode |-> l.mode]}
    BY DEF Statement, TxTypeOK, TxType
  <1>3. /\ Tail(t) \in Seq(Lock) /\ Len(t) \in Nat \ {0} /\ Len(Tail(t)) = Len(t) - 1
        /\ \A i \in 1..Len(Tail(t)) : Tail(t)[i] = t[i + 1] /\ i + 1 \in 1..Len(t)
        /\ l = t[1] /\ 1 \in 1..Len(t)
    BY <1>1, HeadTailProperties, EmptySeq
  <1>4. InOrder(phase, Tail(t))
    <2>1. ASSUME NEW i \in 1..Len(Tail(t)), NEW j \in 1..Len(Tail(t)), i < j
          PROVE  Rank(phase, Tail(t)[i]) < Rank(phase, Tail(t)[j])
      BY <1>1, <1>3, <2>1 DEF InPlace, InOrder, Ascends
    <2>2. \A i \in 1..Len(Tail(t)) : Usual(Tail(t)[i])
      BY <1>1, <1>3 DEF InPlace, InOrder, UsualSeq
    <2> QED BY <2>1, <2>2 DEF InOrder, Ascends, UsualSeq
  <1>5. ASSUME NEW h \in held', h.by = p
        PROVE  Usual(h) /\ \A i \in 1..Len(Tail(t)) : Rank(phase, h) < Rank(phase, Tail(t)[i])
    <2>1. CASE h \in held
      BY <1>1, <1>3, <1>5, <2>1 DEF InPlace
    <2>2. CASE h = [by |-> p, row |-> l.row, mode |-> l.mode]
      <3>1. Usual(h) <=> Usual(l)
        BY <2>2 DEF Usual
      <3>2. Rank(phase, h) = Rank(phase, l)
        BY <2>2 DEF Rank
      <3>3. Usual(l)
        BY <1>1, <1>3 DEF InPlace, InOrder, UsualSeq
      <3>4. \A i \in 1..Len(Tail(t)) : Rank(phase, l) < Rank(phase, Tail(t)[i])
        <4> SUFFICES ASSUME NEW i \in 1..Len(Tail(t)) PROVE Rank(phase, l) < Rank(phase, Tail(t)[i])
          OBVIOUS
        <4>1. Tail(t)[i] = t[i + 1] /\ i + 1 \in 1..Len(t) /\ 1 < i + 1
          BY <1>3
        <4>2. Ascends(phase, t)
          BY <1>1 DEF InPlace, InOrder
        <4> QED BY <1>3, <4>1, <4>2 DEF Ascends
      <3> QED BY <3>1, <3>2, <3>3, <3>4
    <2> QED BY <1>2, <2>1, <2>2
  <1> HIDE DEF t, l
  <1>6. InOrder(phase, txn'[p].todo)
    BY <1>2, <1>4
  <1>7. \A h \in held' : h.by = p =>
          Usual(h) /\ \A i \in 1..Len(txn'[p].todo) : Rank(phase, h) < Rank(phase, txn'[p].todo[i])
    BY <1>2, <1>5
  <1> QED BY <1>6, <1>7 DEF InPlace

\* Every statement takes a lock above those held.
LEMMA OrderStep == TxTypeOK /\ LocksInOrder /\ [TxNext]_txvars => LocksInOrder'
  <1> SUFFICES ASSUME TxTypeOK, LocksInOrder, [TxNext]_txvars PROVE LocksInOrder'
    OBVIOUS
  <1>1. /\ txn \in [Sessions -> TxType] /\ \A h \in held : txn[h.by].pc = "run"
        /\ \A p \in Sessions : txn[p].pc = "run" => txn[p].s \in 1..NShards
    BY DEF TxTypeOK, LocksAreHeld
  <1>2. CASE UNCHANGED txvars
    BY <1>2 DEF txvars, LocksInOrder, InPlace
  <1>3. ASSUME NEW p \in Sessions, NEW kind, NEW s \in 1..NShards, TxBegin(p, kind, s) PROVE LocksInOrder'
    <2> DEFINE L == Locks(kind, s)
    <2>1. /\ txn[p].pc = "idle" /\ held' = held
          /\ txn' = [txn EXCEPT ![p] = [TxIdle EXCEPT !.pc = "run", !.kind = kind, !.s = s, !.todo = L, !.tries = 1]]
      BY <1>3 DEF TxBegin
    <2> HIDE DEF L
    <2>2. \A v \in TxType : LET x == [v EXCEPT !.pc = "run", !.kind = kind, !.s = s, !.todo = L, !.tries = 1]
                            IN  x.kind = kind /\ x.todo = L
      BY DEF TxType
    <2>3. txn'[p].kind = kind /\ txn'[p].todo = L /\ \A q \in Sessions : q # p => txn'[q] = txn[q]
      BY <1>1, <2>1, <2>2, IdleType
    <2>4. \A h \in held' : h.by # p
      BY <1>1, <2>1
    <2> QED BY <2>1, <2>3, <2>4, StartInPlace, OthersInPlace DEF L
  <1>4. ASSUME NEW p \in Sessions, Statement(p) PROVE LocksInOrder'
    <2>1. /\ txn'[p].kind = txn[p].kind /\ \A q \in Sessions : q # p => txn'[q] = txn[q]
          /\ \A h \in held' : h \in held \/ h.by = p
      BY <1>1, <1>4 DEF Statement, TxType
    <2> QED BY <1>4, <2>1, StatementInPlace, OthersInPlace
  <1>5. ASSUME NEW p \in Sessions, NEW w, txn' = [txn EXCEPT ![p] = w], w.pc # "run",
               \A h \in held' : h \in held
        PROVE  LocksInOrder'
    BY <1>1, <1>5, OthersInPlace
  <1>6. ASSUME NEW p \in Sessions, Commit(p) \/ ConnectionLost(p) PROVE LocksInOrder'
    <2>1. \A h \in held' : h \in held
      BY <1>6 DEF Commit, ConnectionLost, Released
    <2> QED BY <1>1, <1>5, <1>6, <2>1, Endings, OverType
  <1>7. ASSUME NEW p \in Sessions, Aborted(p) PROVE LocksInOrder'
    <2>1. txn[p].pc = "run" /\ txn' = Again(p) /\ held' = Released(p)
      BY <1>7 DEF Aborted, Blockers
    <2>2. \A h \in held' : h \in held /\ h.by # p
      BY <2>1 DEF Released
    <2>3. CASE txn' = [txn EXCEPT ![p] = Restarted(p)]
      <3>1. /\ \A q \in Sessions : q # p => txn'[q] = txn[q]
            /\ txn'[p].kind = txn[p].kind /\ txn'[p].todo = Locks(txn[p].kind, txn[p].s)
        BY <1>1, <2>1, <2>3, AgainType
      <3> QED BY <1>1, <2>1, <2>2, <3>1, StartInPlace, OthersInPlace
    <2>4. CASE txn' = [txn EXCEPT ![p] = Over(p, "transient")]
      BY <1>1, <1>5, <2>2, <2>4, OverType
    <2> QED BY <2>1, <2>3, <2>4, AgainType
  <1>8. ASSUME NEW p \in Sessions, TxReturn(p) PROVE LocksInOrder'
    <2>1. txn' = [txn EXCEPT ![p] = TxIdle] /\ held' = held
      BY <1>8 DEF TxReturn
    <2>2. TxIdle.pc # "run"
      BY DEF TxIdle
    <2> QED BY <1>5, <2>1, <2>2
  <1> QED BY <1>2, <1>3, <1>4, <1>6, <1>7, <1>8 DEF TxNext, TxStep

\* A transaction begins only in the phase of those that run.
LEMMA PhaseStep == TxTypeOK /\ OnePhase /\ [TxNext]_txvars => OnePhase'
  <1> SUFFICES ASSUME TxTypeOK, OnePhase, [TxNext]_txvars PROVE OnePhase'
    OBVIOUS
  <1>1. txn \in [Sessions -> TxType]
    BY DEF TxTypeOK
  <1>2. CASE UNCHANGED txvars
    BY <1>2 DEF txvars, OnePhase, Running
  <1>3. ASSUME NEW p \in Sessions, NEW kind, NEW s, TxBegin(p, kind, s) PROVE OnePhase'
    <2>1. PICK phase \in Phases : kind \in Kinds(phase) /\ Running(Kinds(phase))
      BY <1>3 DEF TxBegin, Phases, Kinds
    <2>2. txn'[p].kind = kind /\ \A q \in Sessions : q # p => txn'[q] = txn[q]
      BY <1>1, <1>3 DEF TxBegin, TxIdle
    <2> QED BY <2>1, <2>2 DEF OnePhase, Running
  <1>4. ASSUME NEW p \in Sessions, \A q \in Sessions : q # p => txn'[q] = txn[q],
               txn'[p].kind \in {txn[p].kind, "none"}
        PROVE  OnePhase'
    BY <1>4 DEF OnePhase, Running
  <1>5. ASSUME NEW p \in Sessions, Statement(p) PROVE OnePhase'
    <2>1. txn'[p].kind = txn[p].kind /\ \A q \in Sessions : q # p => txn'[q] = txn[q]
      BY <1>1, <1>5 DEF Statement, TxType
    <2> QED BY <1>4, <2>1
  <1>6. ASSUME NEW p \in Sessions, NEW w, txn' = [txn EXCEPT ![p] = w], w.kind \in {txn[p].kind, "none"}
        PROVE  OnePhase'
    BY <1>1, <1>4, <1>6
  <1>7. ASSUME NEW p \in Sessions, Commit(p) \/ ConnectionLost(p) PROVE OnePhase'
    BY <1>1, <1>6, <1>7, Endings, OverType
  <1>8. ASSUME NEW p \in Sessions, Aborted(p) PROVE OnePhase'
    <2>1. txn[p].pc = "run" /\ txn' = Again(p)
      BY <1>8 DEF Aborted, Blockers
    <2>2. PICK w : txn' = [txn EXCEPT ![p] = w] /\ w.kind = txn[p].kind
      <3>1. Restarted(p).kind = txn[p].kind /\ Over(p, "transient").kind = txn[p].kind
        BY <1>1, <2>1, AgainType, OverType
      <3> QED BY <2>1, <3>1, AgainType
    <2> QED BY <1>6, <2>2
  <1>9. ASSUME NEW p \in Sessions, TxReturn(p) PROVE OnePhase'
    <2>1. txn' = [txn EXCEPT ![p] = TxIdle]
      BY <1>9 DEF TxReturn
    <2>2. TxIdle.kind = "none"
      BY DEF TxIdle
    <2> QED BY <1>6, <2>1, <2>2
  <1> QED BY <1>2, <1>3, <1>5, <1>7, <1>8, <1>9 DEF TxNext, TxStep
-----------------------------------------------------------------------------
\* A set of numbers has a least one.
LEMMA LeastNumber == ASSUME NEW T \in SUBSET Nat, T # {} PROVE \E m \in T : \A k \in T : m <= k
  <1> DEFINE R == {ss \in Nat \X Nat : ss[1] < ss[2]}
  <1>1. IsWellFoundedOn(R, Nat)
    BY NatLessThanWellFounded DEF OpToRel
  <1>2. \E m \in T : \A k \in T : ~(<<k, m>> \in R)
    <2> HIDE DEF R
    <2> QED BY <1>1, WFMin
  <1>3. PICK m \in T : \A k \in T : ~(<<k, m>> \in R)
    <2> HIDE DEF R
    <2> QED BY <1>2
  <1>4. \A k \in T : ~(k < m)
    <2> SUFFICES ASSUME NEW k \in T, k < m PROVE FALSE
      OBVIOUS
    <2>1. <<k, m>> \in R
      OBVIOUS
    <2> QED BY <1>3, <2>1
  <1>5. \A k \in T : m <= k
    BY <1>4
  <1> QED BY <1>5

\* What session p waits for.
Wanted(p) == Head(txn[p].todo)

\* A session waits for less than a session that blocks it waits for, both being
\* in order.
LEMMA BlockerIsAhead ==
  ASSUME TxTypeOK, LocksInOrder, NEW phase \in Phases, Running(Kinds(phase)),
         NEW p \in Sessions, NEW q \in Blockers(p), Blockers(q) # {},
         txn[p].kind # "delete", txn[q].kind # "delete"
  PROVE  Rank(phase, Wanted(p)) < Rank(phase, Wanted(q))
  <1>1. /\ txn[p].pc = "run" /\ txn[p].todo # <<>> /\ txn[q].pc = "run" /\ txn[q].todo # <<>>
        /\ q \in Sessions
    BY DEF Blockers, TxTypeOK, HeldLock
  <1>2. /\ txn[p].kind \in Kinds(phase) \ {"delete"} /\ txn[q].kind \in Kinds(phase) \ {"delete"}
        /\ txn[p].todo \in Seq(Lock) /\ txn[q].todo \in Seq(Lock)
    BY <1>1 DEF TxTypeOK, LocksAreHeld, TxType, Running
  <1>3. InPlace(phase, p) /\ InPlace(phase, q)
    BY <1>1, <1>2 DEF LocksInOrder
  <1>4. PICK h \in held : h.by = q /\ h.row = Wanted(p).row /\ Conflicts(h.mode, Wanted(p).mode)
    BY <1>1 DEF Blockers, Wanted
  <1>5. /\ Wanted(p) = txn[p].todo[1] /\ 1 \in 1..Len(txn[p].todo)
        /\ Wanted(q) = txn[q].todo[1] /\ 1 \in 1..Len(txn[q].todo)
    BY <1>1, <1>2, HeadTailProperties, EmptySeq DEF Wanted
  <1>6. Usual(Wanted(p)) /\ Usual(h) /\ Rank(phase, h) < Rank(phase, Wanted(q))
    BY <1>3, <1>4, <1>5 DEF InPlace, InOrder, UsualSeq
  <1>7. Wanted(p) \in Lock /\ h.mode \in {"ks", "up", "de"}
    BY <1>2, <1>4, <1>5, ElementOfSeq DEF TxTypeOK, HeldLock
  <1>8. (Wanted(p).row = Doc => Wanted(p).mode = "up" /\ h.mode = "up") /\ Wanted(p).mode # "ks" /\ h.mode # "ks"
    BY <1>4, <1>6, <1>7 DEF Usual, Conflicts, Lock
  <1>9. Rank(phase, Wanted(p)) = Rank(phase, h)
    BY <1>4, <1>8 DEF Rank
  <1> QED BY <1>6, <1>9

\* However many sessions wait for each other in a circle, one of them is ahead of
\* all others in the order of locks, and it waits for one that is further ahead:
\* so a circle needs a session that is out of order, the delete.
LEMMA NoCircle == ASSUME TxTypeOK, LocksInOrder, OnePhase PROVE LockOrder
  <1> SUFFICES ASSUME NEW Q \in SUBSET Sessions, Deadlocked(Q), \A p \in Q : txn[p].kind # "delete"
               PROVE  FALSE
    BY DEF LockOrder
  <1>1. PICK phase \in Phases : Running(Kinds(phase))
    BY DEF OnePhase
  <1>2. Q # {} /\ \A p \in Q : Blockers(p) \cap Q # {}
    BY DEF Deadlocked
  <1>3. ASSUME NEW p \in Q PROVE Rank(phase, Wanted(p)) \in 0..(NShards + 3)
    <2>1. txn[p].pc = "run" /\ txn[p].todo # <<>> /\ txn[p].todo \in Seq(Lock)
          /\ txn[p].kind \in Kinds(phase) \ {"delete"}
      BY <1>1, <1>2 DEF Blockers, TxTypeOK, TxType, LocksAreHeld, Running
    <2>2. Wanted(p) \in Lock /\ Wanted(p) = txn[p].todo[1] /\ 1 \in 1..Len(txn[p].todo)
      BY <2>1, HeadTailProperties, EmptySeq DEF Wanted
    <2>3. InPlace(phase, p)
      BY <2>1 DEF LocksInOrder
    <2>4. Usual(Wanted(p))
      BY <2>2, <2>3 DEF InPlace, InOrder, UsualSeq
    <2> QED BY <2>2, TxAssumption DEF Rank, Lock, Doc, Slot, Chunks
  <1> DEFINE left(p) == NShards + 3 - Rank(phase, Wanted(p))
             T == {left(p) : p \in Q}
  <1>4. T \in SUBSET Nat /\ T # {}
    <2>1. ASSUME NEW p \in Q PROVE left(p) \in Nat
      BY <1>3, TxAssumption
    <2> QED BY <1>2, <2>1
  <1>5. PICK m \in T : \A k \in T : m <= k
    <2> HIDE DEF T
    <2> QED BY <1>4, LeastNumber
  <1>6. PICK p \in Q : m = left(p)
    BY <1>5
  <1>7. PICK q \in Q : q \in Blockers(p)
    BY <1>2, <1>6
  <1>8. Rank(phase, Wanted(p)) < Rank(phase, Wanted(q))
    BY <1>1, <1>2, <1>6, <1>7, BlockerIsAhead
  <1>9. left(q) \in T /\ m <= left(q)
    BY <1>5, <1>7
  <1>10. Rank(phase, Wanted(p)) \in Nat /\ Rank(phase, Wanted(q)) \in Nat /\ NShards \in Nat
    BY <1>3, <1>6, <1>7, TxAssumption
  <1> QED BY <1>6, <1>8, <1>9, <1>10

\* Types, order and phase, throughout.
LEMMA LocksInvariant == TxSpec => [](TxTypeOK /\ LocksInOrder /\ OnePhase)
  <1>1. TxInit => TxTypeOK
    BY IdleType DEF TxInit, TxTypeOK, LocksAreHeld, TxIdle
  <1>2. TxInit => LocksInOrder
    BY DEF TxInit, LocksInOrder, TxIdle
  <1>3. TxInit => OnePhase
    BY DEF TxInit, OnePhase, Phases, Running, TxIdle
  <1> QED BY <1>1, <1>2, <1>3, TxTypeStep, OrderStep, PhaseStep, PTL DEF TxSpec

\* The lock order of store/db.go, and the order of commitSplit while a document
\* has no shards yet: no number of workers, janitors and API requests wait for
\* each other in a circle, unless a delete of the document is among them.
THEOREM OnlyDeleteDeadlocks == TxSpec => []LockOrder
  <1>1. TxTypeOK /\ LocksInOrder /\ OnePhase => LockOrder
    BY NoCircle
  <1> QED BY <1>1, LocksInvariant, PTL
=============================================================================

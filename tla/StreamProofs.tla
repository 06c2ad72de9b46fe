---------------------------- MODULE StreamProofs ----------------------------
(***************************************************************************)
(* Theorems of Stream, for any number of jobs, consumers, entries and      *)
(* faults: its types, that no job is lost, that the dedup scan is complete *)
(* while the PEL fits a page, and that it implements JobQueue.             *)
(***************************************************************************)
EXTENDS Stream, SequenceTheorems, WellFoundedInduction, TLAPS
-----------------------------------------------------------------------------
\* Where, without its recursion: the prefixes' filters, as a function of the length.
IsFilter(s, T, n, g) ==
  \A k \in 0..n : g[k] = IF k = 0 THEN <<>>
                         ELSE IF s[k] \in T THEN Append(g[k - 1], s[k]) ELSE g[k - 1]

\* Every nonempty set of naturals has a least number: the induction the proofs use.
LEMMA LeastNumber ==
  ASSUME NEW N \in SUBSET Nat, N # {}
  PROVE  \E n \in N : \A m \in N : n <= m
  <1> DEFINE R == {p \in Nat \X Nat : p[1] < p[2]}
  <1>1. IsWellFoundedOn(R, Nat)
    BY NatLessThanWellFounded DEF OpToRel
  <1>2. PICK n \in N : \A m \in N : <<m, n>> \notin R
    <2> HIDE DEF R
    <2> QED BY <1>1, WFMin
  <1>3. ASSUME NEW m \in N
        PROVE  n <= m
    <2>1. ~(m < n)
      BY <1>2
    <2> QED BY <2>1
  <1> QED BY <1>3

\* Any prefix can be filtered, by the least number that cannot be.
LEMMA FilterExists ==
  ASSUME NEW s, NEW T
  PROVE  \A n \in Nat : \E g : IsFilter(s, T, n, g)
  <1> DEFINE Bad == {n \in Nat : ~\E g : IsFilter(s, T, n, g)}
  <1> SUFFICES ASSUME Bad # {} PROVE FALSE
    OBVIOUS
  <1>1. PICK n \in Bad : \A m \in Bad : n <= m
    <2>1. Bad \in SUBSET Nat
      OBVIOUS
    <2> HIDE DEF Bad
    <2> QED BY <2>1, LeastNumber
  <1>2. CASE n = 0
    <2>1. IsFilter(s, T, 0, [k \in 0..0 |-> <<>>])
      BY DEF IsFilter
    <2> QED BY <1>1, <1>2, <2>1
  <1>3. CASE n # 0
    <2>1. n \in Nat /\ n - 1 \in Nat /\ n - 1 \notin Bad
      BY <1>1, <1>3
    <2>2. PICK g : IsFilter(s, T, n - 1, g)
      BY <2>1
    <2> DEFINE last == IF s[n] \in T THEN Append(g[n - 1], s[n]) ELSE g[n - 1]
               h == [k \in 0..n |-> IF k = n THEN last ELSE g[k]]
    <2>3. h[n] = last /\ \A k \in 0..(n - 1) : h[k] = g[k]
      BY <2>1
    <2> HIDE DEF h
    <2>4. IsFilter(s, T, n, h)
      <3> SUFFICES ASSUME NEW k \in 0..n
                   PROVE  h[k] = IF k = 0 THEN <<>>
                                 ELSE IF s[k] \in T THEN Append(h[k - 1], s[k]) ELSE h[k - 1]
        BY DEF IsFilter
      <3>1. CASE k = n
        <4>1. h[n - 1] = g[n - 1]
          BY <2>1, <2>3
        <4> QED BY <1>3, <2>3, <3>1, <4>1
      <3>2. CASE k # n
        <4>1. k \in 0..(n - 1) /\ (k # 0 => k - 1 \in 0..(n - 1))
          BY <2>1, <3>2
        <4> QED BY <2>2, <2>3, <4>1 DEF IsFilter
      <3> QED BY <3>1, <3>2
    <2> QED BY <1>1, <2>4
  <1> QED BY <1>2, <1>3

\* Two filters agree where both are defined.
LEMMA FilterUnique ==
  ASSUME NEW s, NEW T, NEW m \in Nat, NEW n \in Nat, m <= n, NEW g, NEW h,
         IsFilter(s, T, m, g), IsFilter(s, T, n, h)
  PROVE  g[m] = h[m]
  <1> DEFINE Bad == {k \in 0..m : g[k] # h[k]}
  <1> SUFFICES ASSUME Bad # {} PROVE FALSE
    OBVIOUS
  <1>1. PICK k \in Bad : \A l \in Bad : k <= l
    <2>1. Bad \in SUBSET Nat
      OBVIOUS
    <2> HIDE DEF Bad
    <2> QED BY <2>1, LeastNumber
  <1>2. k \in 0..m /\ k \in 0..n /\ (k # 0 => k - 1 \in 0..m /\ k - 1 \notin Bad)
    BY <1>1
  <1>3. k # 0 => g[k - 1] = h[k - 1]
    BY <1>2
  <1>4. g[k] = IF k = 0 THEN <<>> ELSE IF s[k] \in T THEN Append(g[k - 1], s[k]) ELSE g[k - 1]
    BY <1>2 DEF IsFilter
  <1>5. h[k] = IF k = 0 THEN <<>> ELSE IF s[k] \in T THEN Append(h[k - 1], s[k]) ELSE h[k - 1]
    BY <1>2 DEF IsFilter
  <1> QED BY <1>1, <1>3, <1>4, <1>5

Args == Seq(Ids) \X (SUBSET Ids) \X Nat

\* The recursive function is defined: it maps each n to the filter of the first n.
LEMMA TakenDef ==
  ASSUME NEW s \in Seq(Ids), NEW T \in SUBSET Ids, NEW n \in Nat
  PROVE  Taken[<<s, T, n>>] = IF n = 0 THEN <<>>
                              ELSE IF s[n] \in T THEN Append(Taken[<<s, T, n - 1>>], s[n])
                                                 ELSE Taken[<<s, T, n - 1>>]
  <1> DEFINE G(u, U, m) == CHOOSE g : IsFilter(u, U, m, g)
             F == [q \in Args |-> G(q[1], q[2], q[3])[q[3]]]
             Val(f, q) == IF q[3] = 0 THEN <<>>
                          ELSE IF q[1][q[3]] \in q[2]
                               THEN Append(f[<<q[1], q[2], q[3] - 1>>], q[1][q[3]])
                               ELSE f[<<q[1], q[2], q[3] - 1>>]
             IsTaken(f) == f = [q \in Args |-> Val(f, q)]
  <1>1. \A u, U : \A m \in Nat : IsFilter(u, U, m, G(u, U, m))
    BY FilterExists
  <1>2. \A q \in Args : F[q] = G(q[1], q[2], q[3])[q[3]]
    OBVIOUS
  <1>3. F = [q \in Args |-> F[q]]
    OBVIOUS
  <1> HIDE DEF F, G
  <1>4. ASSUME NEW q \in Args
        PROVE  F[q] = Val(F, q)
    <2>1. PICK u \in Seq(Ids), U \in SUBSET Ids, m \in Nat : q = <<u, U, m>>
      BY DEF Args
    <2>2. q[1] = u /\ q[2] = U /\ q[3] = m
      BY <2>1
    <2>3. IsFilter(u, U, m, G(u, U, m)) /\ m \in 0..m
      BY <1>1
    <2>4. F[q] = G(u, U, m)[m]
      BY <1>2, <2>2
    <2>5. CASE m = 0
      BY <2>2, <2>3, <2>4, <2>5 DEF IsFilter
    <2>6. CASE m # 0
      <3>1. m - 1 \in Nat /\ m - 1 <= m /\ <<u, U, m - 1>> \in Args
        BY <2>6 DEF Args
      <3>2. F[<<u, U, m - 1>>] = G(u, U, m - 1)[m - 1]
        BY <1>2, <3>1
      <3>3. IsFilter(u, U, m - 1, G(u, U, m - 1))
        BY <1>1, <3>1
      <3>4. G(u, U, m - 1)[m - 1] = G(u, U, m)[m - 1]
        BY <2>3, <3>1, <3>3, FilterUnique
      <3>5. G(u, U, m)[m] = IF u[m] \in U THEN Append(G(u, U, m)[m - 1], u[m])
                                          ELSE G(u, U, m)[m - 1]
        BY <2>3, <2>6 DEF IsFilter
      <3> QED BY <2>2, <2>4, <2>6, <3>2, <3>4, <3>5
    <2> QED BY <2>5, <2>6
  <1>5. IsTaken(F)
    <2> HIDE DEF Val
    <2> QED BY <1>3, <1>4
  <1>6. Taken = CHOOSE f : IsTaken(f)
    BY DEF Taken, Args
  <1>7. IsTaken(Taken)
    <2> HIDE DEF IsTaken
    <2> QED BY <1>5, <1>6
  <1>8. <<s, T, n>> \in Args
    BY DEF Args
  <1>9. Taken[<<s, T, n>>] = Val(Taken, <<s, T, n>>)
    <2> HIDE DEF Val
    <2> QED BY <1>7, <1>8
  <1> QED BY <1>9

Elems(s) == {s[k] : k \in DOMAIN s}

\* The empty sequence has no elements.
LEMMA EmptyElems == Elems(<<>>) = {}
  BY DEF Elems

\* The elements of a sequence over S are in S.
LEMMA SeqElems ==
  ASSUME NEW S, NEW s \in Seq(S)
  PROVE  Elems(s) \subseteq S
  BY DEF Elems

\* Append adds one element.
LEMMA AppendElems ==
  ASSUME NEW S, NEW s \in Seq(S), NEW x \in S
  PROVE  Append(s, x) \in Seq(S) /\ Elems(Append(s, x)) = Elems(s) \cup {x}
  <1>1. Append(s, x) \in Seq(S) /\ Len(Append(s, x)) = Len(s) + 1
    OBVIOUS
  <1>2. \A k \in 1..Len(s) + 1 : Append(s, x)[k] = IF k = Len(s) + 1 THEN x ELSE s[k]
    OBVIOUS
  <1>3. DOMAIN s = 1..Len(s) /\ DOMAIN Append(s, x) = 1..Len(s) + 1
    BY <1>1
  <1> DEFINE t == Append(s, x)
  <1>4. Elems(t) \subseteq Elems(s) \cup {x}
    BY <1>2, <1>3 DEF Elems
  <1>5. Elems(s) \subseteq Elems(t)
    <2> SUFFICES ASSUME NEW k \in 1..Len(s) PROVE s[k] \in Elems(t)
      BY <1>3 DEF Elems
    <2>1. k \in 1..Len(s) + 1 /\ t[k] = s[k]
      BY <1>2
    <2> QED BY <1>3, <2>1 DEF Elems
  <1>6. x \in Elems(t)
    <2>1. Len(s) + 1 \in 1..Len(s) + 1 /\ t[Len(s) + 1] = x
      BY <1>2
    <2> QED BY <1>3, <2>1 DEF Elems
  <1> QED BY <1>1, <1>4, <1>5, <1>6

\* Where(s, T) holds the elements of s that are in T, and nothing else.
LEMMA WhereElems ==
  ASSUME NEW s \in Seq(Ids), NEW T \in SUBSET Ids
  PROVE  /\ Where(s, T) \in Seq(Ids)
         /\ Elems(Where(s, T)) = Elems(s) \cap T
  <1> DEFINE P(n) == Taken[<<s, T, n>>]
             First(n) == {s[k] : k \in 1..n}
             Right(n) == P(n) \in Seq(Ids) /\ Elems(P(n)) = First(n) \cap T
             Bad == {n \in 0..Len(s) : ~Right(n)}
  <1>1. \A n \in Nat : P(n) = IF n = 0 THEN <<>>
                              ELSE IF s[n] \in T THEN Append(P(n - 1), s[n]) ELSE P(n - 1)
    BY TakenDef
  <1>2. ASSUME Bad # {}
        PROVE  FALSE
    <2>1. PICK n \in Bad : \A m \in Bad : n <= m
      <3>1. Bad \in SUBSET Nat
        OBVIOUS
      <3> HIDE DEF Bad
      <3> QED BY <1>2, <3>1, LeastNumber
    <2>2. n \in 0..Len(s) /\ ~Right(n) /\ (n # 0 => n - 1 \in 0..Len(s) /\ n - 1 \notin Bad)
      <3> HIDE DEF Right
      <3> QED BY <2>1
    <2>3. n # 0
      <3>1. P(0) = <<>>
        BY <1>1
      <3>2. First(0) = {}
        OBVIOUS
      <3> HIDE DEF P, First
      <3>3. Right(0)
        <4>1. <<>> \in Seq(Ids)
          OBVIOUS
        <4>2. P(0) \in Seq(Ids)
          BY <3>1, <4>1
        <4>3. Elems(P(0)) = {}
          BY <3>1, EmptyElems
        <4> QED BY <3>2, <4>2, <4>3
      <3> QED BY <2>2, <3>3
    <2>4. Right(n - 1)
      BY <2>2, <2>3
    <2>5. P(n) = IF s[n] \in T THEN Append(P(n - 1), s[n]) ELSE P(n - 1)
      BY <1>1, <2>2, <2>3
    <2>6. s[n] \in Ids /\ First(n) = First(n - 1) \cup {s[n]}
      BY <2>2, <2>3
    <2> HIDE DEF P, First
    <2>7. CASE s[n] \in T
      <3>1. Elems(P(n)) = Elems(P(n - 1)) \cup {s[n]}
        BY <2>4, <2>5, <2>6, <2>7, AppendElems
      <3> QED BY <2>2, <2>4, <2>5, <2>6, <2>7, <3>1
    <2>8. CASE s[n] \notin T
      BY <2>2, <2>4, <2>5, <2>6, <2>8
    <2> QED BY <2>7, <2>8
  <1>3. Right(Len(s))
    <2> HIDE DEF Right
    <2> QED BY <1>2
  <1>4. First(Len(s)) = Elems(s)
    BY DEF Elems
  <1> HIDE DEF First
  <1> QED BY <1>3, <1>4 DEF Where

\* A prefix of a sequence has elements of it.
LEMMA FirstNElems ==
  ASSUME NEW S, NEW s \in Seq(S), NEW n \in Nat
  PROVE  /\ FirstN(s, n) \in Seq(S)
         /\ Elems(FirstN(s, n)) \subseteq Elems(s)
         /\ Len(s) <= n => FirstN(s, n) = s
         /\ n # 0 /\ s # <<>> => FirstN(s, n) # <<>>
  <1> DEFINE m == IF Len(s) < n THEN Len(s) ELSE n
  <1>1. m \in 0..Len(s) /\ (Len(s) <= n => m = Len(s)) /\ (n # 0 /\ s # <<>> => m # 0)
    OBVIOUS
  <1>2. FirstN(s, n) = SubSeq(s, 1, m)
    BY DEF FirstN
  <1> HIDE DEF m
  <1>3. SubSeq(s, 1, m) = [k \in 1..m |-> s[k]] /\ SubSeq(s, 1, m) \in Seq(S)
    BY <1>1
  <1>4. Len(s) <= n => SubSeq(s, 1, m) = s
    BY <1>1, <1>3
  <1>5. m # 0 => SubSeq(s, 1, m) # <<>>
    <2>1. Len(SubSeq(s, 1, m)) = m
      BY <1>1
    <2> QED BY <2>1
  <1> QED BY <1>1, <1>2, <1>3, <1>4, <1>5 DEF Elems

\* Types.  An undelivered entry has a body, and a body belongs to a job.
Items == [id : Ids, job : Jobs]
EntrySet ==
  {e \in [job : Jobs \cup {NoJob}, body : BOOLEAN, new : BOOLEAN, cnt : Nat] :
     (e.new => e.body) /\ (e.body => e.job \in Jobs)}
WorkSet == [pc : {"idle", "run", "xack", "xdel"}, todo : Seq(Items)]
JanSet ==
  [pc : {"docs", "claim", "decide", "xack", "xdel", "info", "tail", "pel", "sweep"},
   todo : Seq(Items), quar : SUBSET Jobs, want : SUBSET Jobs, old : SUBSET Ids,
   live : SUBSET Jobs, keys : SUBSET Jobs]

\* A process that is at an entry has one.
StreamTypeOK ==
  /\ {recorded, sent, done, dropped, dlq} \subseteq SUBSET Jobs
  /\ log \in Seq(Ids) /\ ent \in [Ids -> EntrySet]
  /\ work \in [Workers -> WorkSet]
  /\ \A w \in Workers : work[w].pc # "idle" => work[w].todo # <<>>
  /\ jan \in JanSet /\ (jan.pc \in {"xack", "xdel"} => jan.todo # <<>>)
  /\ faults \in 0..MaxFaults

\* What a process remembers of an entry is what the stream holds, unless it is gone.
Faithful(x) == x.job \in sent /\ (ent[x.id].body => ent[x.id].job = x.job)

\* Another entry than i will still bring job j.
Elsewhere(i, j) == \E k \in Ids \ {i} : Live(k) /\ ent[k].job = j

WorkFaithful == \A w \in Workers : \A x \in Elems(work[w].todo) : Faithful(x)
JanFaithful == \A x \in Elems(jan.todo) : Faithful(x)
Settled(j) == j \in done \cup dropped

\* The entry a process is about to take off the stream is not needed any more.
WorkAcks == \A w \in Workers : work[w].pc \in {"xack", "xdel"} => Head(work[w].todo).job \in done
JanAcks ==
  jan.pc \in {"xack", "xdel"} =>
    LET x == Head(jan.todo) IN Settled(x.job) \/ Elsewhere(x.id, x.job)

Custody ==
  /\ \A i \in Ids : ent[i].body => ent[i].job \in sent
  /\ WorkFaithful /\ JanFaithful /\ WorkAcks /\ JanAcks
  /\ NoJobLost

\* The scan: a job that was live when it began is settled, or the next reads will meet it.
ScanInv ==
  /\ jan.live \subseteq sent
  /\ jan.pc = "tail" => \A i \in jan.old : ~ent[i].new
  /\ jan.pc = "pel" =>
       \A j \in jan.live : Settled(j) \/ j \in jan.keys
                           \/ \E i \in Ids : Live(i) /\ ent[i].cnt > 0 /\ ent[i].job = j
  /\ ScanComplete

-----------------------------------------------------------------------------
\* What a step does to the stream.  It takes nothing away but the ids of X ...
Loses(X) ==
  /\ log' \in Seq(Ids) /\ ent' \in [Ids -> EntrySet]
  /\ \A i \in Ids :
       /\ ent'[i].body => ent[i].body /\ ent'[i].job = ent[i].job
       /\ ent'[i].new => ent[i].new
       /\ Live(i)' => Live(i)
       /\ Live(i) /\ i \notin X => Live(i)' /\ (ent[i].cnt > 0 => ent'[i].cnt > 0)

\* ... or it adds one entry, in place i.
Adds(i, j) ==
  /\ i \in Free
  /\ log' \in Seq(Ids) /\ ent' \in [Ids -> EntrySet]
  /\ Live(i)' /\ ~Live(i) /\ ent'[i].job = j /\ ent'[i].body
  /\ \A k \in Ids \ {i} : ent'[k] = ent[k] /\ (Live(k)' <=> Live(k))

\* The listed ids are the elements of the log.
LEMMA ListedElems == Listed = Elems(log)
  BY DEF Listed, Elems

\* Update writes the entries and drops those without body and PEL record.
LEMMA UpdateMoves ==
  ASSUME log \in Seq(Ids), NEW e \in [Ids -> EntrySet], Update(e)
  PROVE  /\ log' \in Seq(Ids) /\ ent' \in [Ids -> EntrySet]
         /\ \A i \in Ids :
              /\ ent'[i] = IF e[i].body \/ e[i].cnt > 0 THEN e[i] ELSE NoEntry
              /\ i \in Listed' <=> i \in Listed /\ (e[i].body \/ e[i].cnt > 0)
  <1> DEFINE T == {i \in Ids : e[i].body \/ e[i].cnt > 0}
  <1>1. log' = Where(log, T) /\ T \in SUBSET Ids
    BY DEF Update
  <1>2. log' \in Seq(Ids) /\ Elems(log') = Elems(log) \cap T
    <2> HIDE DEF T
    <2> QED BY <1>1, WhereElems
  <1>3. Listed = Elems(log) /\ Listed' = Elems(log')
    BY DEF Listed, Elems
  <1>4. ent' = [i \in Ids |-> IF e[i].body \/ e[i].cnt > 0 THEN e[i] ELSE NoEntry]
    BY DEF Update
  <1>5. NoEntry \in EntrySet
    BY DEF NoEntry, EntrySet
  <1>6. ent' \in [Ids -> EntrySet]
    BY <1>4, <1>5
  <1> QED BY <1>2, <1>3, <1>4, <1>6

\* A step that leaves the stream alone loses nothing.
LEMMA UnchangedLoses ==
  ASSUME StreamTypeOK, UNCHANGED <<log, ent>>
  PROVE  \A X : Loses(X)
  <1>1. Listed' = Listed
    BY DEF Listed
  <1>2. \A i \in Ids : Live(i)' = Live(i)
    BY <1>1 DEF Live
  <1> QED BY <1>2 DEF Loses, StreamTypeOK

\* XACK can end the life of its entry only.
LEMMA XAckLoses ==
  ASSUME StreamTypeOK, NEW i \in Ids, XAck(i)
  PROVE  Loses({i})
  <1> DEFINE e == [ent EXCEPT ![i].cnt = 0]
  <1>1. log \in Seq(Ids) /\ ent \in [Ids -> EntrySet]
    BY DEF StreamTypeOK
  <1>2. /\ e[i].cnt = 0 /\ e[i].body = ent[i].body /\ e[i].new = ent[i].new /\ e[i].job = ent[i].job
        /\ e \in [Ids -> EntrySet] /\ \A k \in Ids \ {i} : e[k] = ent[k]
    BY <1>1 DEF EntrySet
  <1>3. Update(e)
    BY DEF XAck
  <1> HIDE DEF e
  <1>4. log' \in Seq(Ids) /\ ent' \in [Ids -> EntrySet]
    BY <1>1, <1>2, <1>3, UpdateMoves
  <1>5. ASSUME NEW k \in Ids
        PROVE  /\ ent'[k] = IF e[k].body \/ e[k].cnt > 0 THEN e[k] ELSE NoEntry
               /\ k \in Listed' <=> k \in Listed /\ (e[k].body \/ e[k].cnt > 0)
    BY <1>1, <1>2, <1>3, UpdateMoves
  <1>6. ASSUME NEW k \in Ids
        PROVE  /\ ent'[k].body => ent[k].body /\ ent'[k].job = ent[k].job
               /\ ent'[k].new => ent[k].new
               /\ Live(k)' => Live(k)
               /\ Live(k) /\ k # i => Live(k)' /\ (ent[k].cnt > 0 => ent'[k].cnt > 0)
    BY <1>1, <1>2, <1>5 DEF NoEntry, Live, EntrySet
  <1> QED BY <1>4, <1>6 DEF Loses

\* So can XDEL.
LEMMA XDelLoses ==
  ASSUME StreamTypeOK, NEW i \in Ids, XDel(i)
  PROVE  Loses({i})
  <1> DEFINE d == [ent EXCEPT ![i].body = FALSE]
             e == [d EXCEPT ![i].new = FALSE]
  <1>1. log \in Seq(Ids) /\ ent \in [Ids -> EntrySet]
    BY DEF StreamTypeOK
  <1>2. /\ ~e[i].body /\ ~e[i].new /\ e[i].cnt = ent[i].cnt /\ e[i].job = ent[i].job
        /\ e \in [Ids -> EntrySet] /\ \A k \in Ids \ {i} : e[k] = ent[k]
    BY <1>1 DEF EntrySet
  <1>3. Update(e)
    BY DEF XDel
  <1> HIDE DEF e, d
  <1>4. log' \in Seq(Ids) /\ ent' \in [Ids -> EntrySet]
    BY <1>1, <1>2, <1>3, UpdateMoves
  <1>5. ASSUME NEW k \in Ids
        PROVE  /\ ent'[k] = IF e[k].body \/ e[k].cnt > 0 THEN e[k] ELSE NoEntry
               /\ k \in Listed' <=> k \in Listed /\ (e[k].body \/ e[k].cnt > 0)
    BY <1>1, <1>2, <1>3, UpdateMoves
  <1>6. ASSUME NEW k \in Ids
        PROVE  /\ ent'[k].body => ent[k].body /\ ent'[k].job = ent[k].job
               /\ ent'[k].new => ent[k].new
               /\ Live(k)' => Live(k)
               /\ Live(k) /\ k # i => Live(k)' /\ (ent[k].cnt > 0 => ent'[k].cnt > 0)
    BY <1>1, <1>2, <1>5 DEF NoEntry, Live, EntrySet
  <1> QED BY <1>4, <1>6 DEF Loses

\* A reader copies the ids and jobs of the entries it is given.
LEMMA EntriesElems ==
  ASSUME ent \in [Ids -> EntrySet], NEW s \in Seq(Ids), \A i \in Elems(s) : ent[i].body
  PROVE  /\ Entries(s) \in Seq(Items) /\ (s # <<>> => Entries(s) # <<>>)
         /\ \A x \in Elems(Entries(s)) : x.id \in Elems(s) /\ x.job = ent[x.id].job
  <1>1. \A k \in 1..Len(s) : s[k] \in Ids /\ s[k] \in Elems(s)
    BY DEF Elems
  <1>2. \A k \in 1..Len(s) : [id |-> s[k], job |-> ent[s[k]].job] \in Items
    BY <1>1 DEF Items, EntrySet
  <1>3. Entries(s) = [k \in 1..Len(s) |-> [id |-> s[k], job |-> ent[s[k]].job]]
    BY DEF Entries
  <1>4. Entries(s) \in Seq(Items) /\ Len(Entries(s)) = Len(s)
    BY <1>2, <1>3
  <1>5. s # <<>> => Entries(s) # <<>>
    BY <1>4
  <1> QED BY <1>1, <1>3, <1>4, <1>5 DEF Elems

\* What an entry is.
LEMMA EntryShape ==
  ASSUME NEW e \in EntrySet
  PROVE  e.cnt \in Nat /\ e.body \in BOOLEAN /\ e.new \in BOOLEAN /\ e.job \in Jobs \cup {NoJob}
         /\ (e.new => e.body) /\ (e.body => e.job \in Jobs)
  BY DEF EntrySet

\* Changing a delivery count keeps the rest of the entry.
LEMMA SetCnt ==
  ASSUME NEW e \in EntrySet, NEW n \in Nat, NEW d, d = [e EXCEPT !.cnt = n]
  PROVE  d \in EntrySet /\ d.cnt = n /\ d.body = e.body /\ d.new = e.new /\ d.job = e.job
  BY DEF EntrySet

\* So does handing an entry out.
LEMMA SetOld ==
  ASSUME NEW e \in EntrySet, NEW d, d = [e EXCEPT !.new = FALSE]
  PROVE  d \in EntrySet /\ d.cnt = e.cnt /\ d.body = e.body /\ ~d.new /\ d.job = e.job
  BY DEF EntrySet

\* ReadJobs hands out undelivered entries and keeps them in the PEL.
LEMMA ReadJobsLoses ==
  ASSUME StreamTypeOK, NEW w \in Workers, ReadJobs(w)
  PROVE  /\ \A X : Loses(X)
         /\ work'[w].pc = "run" /\ work'[w].todo \in Seq(Items) /\ work'[w].todo # <<>>
         /\ \A x \in Elems(work'[w].todo) : ent[x.id].body /\ x.job = ent[x.id].job
         /\ work' = [work EXCEPT ![w] = work'[w]]
  <1> DEFINE T == {i \in Ids : ent[i].new}
             fresh == Where(log, T)
             batch == FirstN(fresh, Prefetch)
             taken == {batch[k] : k \in DOMAIN batch}
  <1>1. log \in Seq(Ids) /\ ent \in [Ids -> EntrySet] /\ work \in [Workers -> WorkSet]
    BY DEF StreamTypeOK
  <1>2. fresh \in Seq(Ids) /\ Elems(fresh) = Elems(log) \cap T /\ T \in SUBSET Ids
    <2>1. T \in SUBSET Ids
      OBVIOUS
    <2> HIDE DEF T
    <2> QED BY <1>1, <2>1, WhereElems
  <1>3. fresh # <<>>
    BY DEF ReadJobs
  <1>4. ent' = [i \in Ids |-> IF i \in taken THEN [ent[i] EXCEPT !.new = FALSE, !.cnt = 1] ELSE ent[i]]
    BY DEF ReadJobs
  <1>5. work' = [work EXCEPT ![w] = [pc |-> "run", todo |-> Entries(batch)]] /\ log' = log
    BY DEF ReadJobs
  <1>6. Prefetch \in Nat \ {0}
    BY StreamAssumption
  <1>7. taken = Elems(batch)
    BY DEF Elems
  <1> HIDE DEF fresh
  <1>8. batch \in Seq(Ids) /\ taken \subseteq Elems(fresh) /\ batch # <<>>
    <2>1. FirstN(fresh, Prefetch) \in Seq(Ids) /\ Elems(FirstN(fresh, Prefetch)) \subseteq Elems(fresh)
      BY <1>2, <1>6, FirstNElems
    <2>2. FirstN(fresh, Prefetch) # <<>>
      BY <1>2, <1>3, <1>6, FirstNElems
    <2> QED BY <1>7, <2>1, <2>2
  <1> HIDE DEF batch, taken
  <1>9. \A i \in taken : i \in Ids /\ ent[i].new /\ ent[i].body
    <2>1. \A i \in Ids : ent[i].new => ent[i].body
      BY <1>1 DEF EntrySet
    <2>2. \A i \in taken : i \in T
      BY <1>2, <1>8
    <2> QED BY <2>1, <2>2
  <1>10. ASSUME NEW i \in Ids
         PROVE  /\ ent'[i] \in EntrySet
                /\ ent'[i].body = ent[i].body /\ ent'[i].job = ent[i].job
                /\ i \notin taken => ent'[i] = ent[i]
                /\ i \in taken => ~ent'[i].new /\ ent'[i].cnt = 1
    <2>1. CASE i \in taken
      <3>1. ent'[i] = [ent[i] EXCEPT !.new = FALSE, !.cnt = 1]
        BY <1>4, <2>1
      <3> DEFINE d == [ent[i] EXCEPT !.new = FALSE]
      <3>2. ent'[i] = [d EXCEPT !.cnt = 1]
        BY <3>1
      <3>3. d \in EntrySet /\ d.body = ent[i].body /\ ~d.new /\ d.job = ent[i].job
        BY <1>1, SetOld
      <3> HIDE DEF d
      <3> QED BY <2>1, <3>2, <3>3, SetCnt
    <2>2. CASE i \notin taken
      BY <1>1, <1>4, <2>2
    <2> QED BY <2>1, <2>2
  <1>11. ent' \in [Ids -> EntrySet]
    BY <1>4, <1>10
  <1>12. Listed' = Listed
    BY <1>5 DEF Listed
  <1>13. ASSUME NEW i \in Ids
         PROVE  (Live(i)' <=> Live(i)) /\ (ent'[i].new => ent[i].new) /\ (ent[i].cnt > 0 => ent'[i].cnt > 0)
    BY <1>9, <1>10, <1>12 DEF Live
  <1>14. \A X : Loses(X)
    BY <1>1, <1>5, <1>10, <1>11, <1>13 DEF Loses
  <1>15. /\ Entries(batch) \in Seq(Items) /\ Entries(batch) # <<>>
         /\ \A x \in Elems(Entries(batch)) : x.id \in Elems(batch) /\ x.job = ent[x.id].job
    BY <1>1, <1>7, <1>8, <1>9, EntriesElems
  <1> QED BY <1>1, <1>5, <1>7, <1>9, <1>14, <1>15

\* ClaimStale takes the entries without a body out of the PEL and keeps the others in it.
LEMMA ClaimStaleLoses ==
  ASSUME StreamTypeOK, ClaimStale
  PROVE  /\ \A X : Loses(X)
         /\ jan.pc = "claim" /\ jan'.todo \in Seq(Items)
         /\ \A x \in Elems(jan'.todo) : ent[x.id].body /\ x.job = ent[x.id].job
         /\ jan' = [jan EXCEPT !.pc = "decide", !.todo = jan'.todo]
  <1> DEFINE T(slow) == {i \in Ids : ent[i].cnt > 0 /\ (i \notin Held \/ i \in slow)}
             B == {i \in Ids : ent[i].body}
             idle(slow) == Where(log, T(slow))
             bat(slow) == FirstN(idle(slow), ClaimBatch)
             tak(slow) == {bat(slow)[k] : k \in DOMAIN bat(slow)}
             upd(slow) == [i \in Ids |-> IF i \in tak(slow)
                 THEN [ent[i] EXCEPT !.cnt = IF ent[i].body THEN @ + 1 ELSE 0] ELSE ent[i]]
  <1>1. PICK slow \in SUBSET Held :
          /\ jan.pc = "claim"
          /\ Update(upd(slow))
          /\ jan' = [jan EXCEPT !.pc = "decide", !.todo = Entries(Where(bat(slow), B))]
    BY DEF ClaimStale
  <1>2. log \in Seq(Ids) /\ ent \in [Ids -> EntrySet] /\ jan \in JanSet
    BY DEF StreamTypeOK
  <1>3. ClaimBatch \in Nat
    BY StreamAssumption
  <1> DEFINE batch == bat(slow)
             taken == Elems(batch)
             e == upd(slow)
             got == Where(batch, B)
  <1>4. idle(slow) \in Seq(Ids) /\ \A i \in Elems(idle(slow)) : i \in Ids /\ ent[i].cnt > 0
    <2>1. T(slow) \in SUBSET Ids /\ \A i \in T(slow) : ent[i].cnt > 0
      OBVIOUS
    <2> HIDE DEF T
    <2> QED BY <1>2, <2>1, WhereElems
  <1>5. batch \in Seq(Ids) /\ \A i \in taken : i \in Ids /\ ent[i].cnt > 0
    <2> HIDE DEF idle
    <2> QED BY <1>3, <1>4, FirstNElems
  <1>6. e = [i \in Ids |-> IF i \in taken
               THEN [ent[i] EXCEPT !.cnt = IF ent[i].body THEN @ + 1 ELSE 0] ELSE ent[i]]
    BY DEF Elems
  <1>7. Update(e) /\ jan' = [jan EXCEPT !.pc = "decide", !.todo = Entries(got)]
    BY <1>1
  <1>8. got \in Seq(Ids) /\ \A i \in Elems(got) : i \in taken /\ ent[i].body
    <2>1. B \in SUBSET Ids /\ \A i \in B : ent[i].body
      OBVIOUS
    <2> HIDE DEF B, bat
    <2> QED BY <1>5, <2>1, WhereElems
  <1> HIDE DEF batch, taken, e, got, bat, upd
  <1>9. ASSUME NEW i \in Ids
        PROVE  /\ e[i] \in EntrySet
               /\ e[i].body = ent[i].body /\ e[i].new = ent[i].new /\ e[i].job = ent[i].job
               /\ ent[i].body => (ent[i].cnt > 0 <=> e[i].cnt > 0)
    <2>1. CASE i \in taken
      <3> DEFINE n == IF ent[i].body THEN ent[i].cnt + 1 ELSE 0
      <3>1. e[i] = [ent[i] EXCEPT !.cnt = n]
        BY <1>6, <2>1
      <3>2. ent[i] \in EntrySet /\ ent[i].cnt \in Nat /\ ent[i].cnt > 0
        BY <1>2, <1>5, <2>1, EntryShape
      <3>3. n \in Nat /\ (ent[i].body => n > 0)
        BY <3>2
      <3> HIDE DEF n
      <3> QED BY <3>1, <3>2, <3>3, SetCnt
    <2>2. CASE i \notin taken
      BY <1>2, <1>6, <2>2
    <2> QED BY <2>1, <2>2
  <1>10. e \in [Ids -> EntrySet]
    BY <1>6, <1>9
  <1>11. log' \in Seq(Ids) /\ ent' \in [Ids -> EntrySet]
    BY <1>2, <1>7, <1>10, UpdateMoves
  <1>12. ASSUME NEW i \in Ids
         PROVE  /\ ent'[i] = IF e[i].body \/ e[i].cnt > 0 THEN e[i] ELSE NoEntry
                /\ i \in Listed' <=> i \in Listed /\ (e[i].body \/ e[i].cnt > 0)
    BY <1>2, <1>7, <1>10, UpdateMoves
  <1>13. ASSUME NEW i \in Ids
         PROVE  /\ ent'[i].body => ent[i].body /\ ent'[i].job = ent[i].job
                /\ ent'[i].new => ent[i].new
                /\ Live(i)' => Live(i)
                /\ Live(i) => Live(i)' /\ (ent[i].cnt > 0 => ent'[i].cnt > 0)
    BY <1>9, <1>12 DEF NoEntry, Live
  <1>14. \A X : Loses(X)
    BY <1>11, <1>13 DEF Loses
  <1>15. /\ Entries(got) \in Seq(Items)
         /\ \A x \in Elems(Entries(got)) : x.id \in Elems(got) /\ x.job = ent[x.id].job
    BY <1>2, <1>8, EntriesElems
  <1>16. jan'.todo = Entries(got)
    BY <1>2, <1>7 DEF JanSet
  <1> QED BY <1>1, <1>7, <1>8, <1>14, <1>15, <1>16

\* Put, in a place that nobody remembers.
LEMMA PutAdds ==
  ASSUME StreamTypeOK, NEW j \in Jobs, Put(j)
  PROVE  \E i \in Ids : Adds(i, j)
  <1> DEFINE new == [job |-> j, body |-> TRUE, new |-> TRUE, cnt |-> 0]
  <1>1. PICK i \in Free : log' = Append(log, i) /\ ent' = [ent EXCEPT ![i] = new]
    BY DEF Put
  <1>2. i \in Ids /\ i \notin Listed
    BY DEF Free
  <1>3. log \in Seq(Ids) /\ ent \in [Ids -> EntrySet]
    BY DEF StreamTypeOK
  <1>4. log' \in Seq(Ids) /\ Elems(log') = Elems(log) \cup {i}
    BY <1>1, <1>2, <1>3, AppendElems
  <1>5. Listed = Elems(log) /\ Listed' = Elems(log')
    BY DEF Listed, Elems
  <1>6. new \in EntrySet
    BY DEF EntrySet
  <1>7. ent' \in [Ids -> EntrySet] /\ ent'[i] = new /\ \A k \in Ids \ {i} : ent'[k] = ent[k]
    <2> HIDE DEF new
    <2> QED BY <1>1, <1>2, <1>3, <1>6
  <1>8. Live(i)' /\ ~Live(i)
    BY <1>2, <1>4, <1>5, <1>7 DEF Live
  <1>9. \A k \in Ids \ {i} : Live(k)' <=> Live(k)
    BY <1>4, <1>5, <1>7 DEF Live
  <1> QED BY <1>1, <1>2, <1>4, <1>7, <1>8, <1>9 DEF Adds

-----------------------------------------------------------------------------
\* What the steps do to the consumers and to the janitor.

\* The head of a batch is one of its entries.
LEMMA HeadElem ==
  ASSUME NEW S, NEW t \in Seq(S), t # <<>>
  PROVE  Head(t) \in S /\ Head(t) \in Elems(t) /\ Tail(t) \in Seq(S) /\ Elems(Tail(t)) \subseteq Elems(t)
  <1>1. Head(t) = t[1] /\ 1 \in DOMAIN t /\ t[1] \in S
    OBVIOUS
  <1>2. Tail(t) \in Seq(S) /\ DOMAIN Tail(t) = 1..Len(t) - 1
    OBVIOUS
  <1>3. \A k \in 1..Len(t) - 1 : Tail(t)[k] = t[k + 1] /\ k + 1 \in DOMAIN t
    OBVIOUS
  <1> QED BY <1>1, <1>2, <1>3 DEF Elems

\* A batch of more than one entry has a rest.
LEMMA TailLong ==
  ASSUME NEW S, NEW t \in Seq(S), t # <<>>, Len(t) # 1
  PROVE  Tail(t) # <<>>
  <1>1. Len(t) \in Nat /\ Len(t) # 0
    OBVIOUS
  <1>2. Len(Tail(t)) = Len(t) - 1
    OBVIOUS
  <1>3. Len(Tail(t)) # 0 /\ Len(<<>>) = 0
    BY <1>1, <1>2
  <1> QED BY <1>3, Zenon

\* A consumer that is through with an entry goes on to the next, or is idle.
LEMMA RestMoves ==
  ASSUME StreamTypeOK, NEW w \in Workers, work[w].pc # "idle"
  PROVE  /\ Rest(w) \in WorkSet /\ Rest(w).pc \in {"idle", "run"}
         /\ Rest(w).pc # "idle" => Rest(w).todo # <<>>
         /\ Elems(Rest(w).todo) \subseteq Elems(work[w].todo)
  <1> DEFINE t == work[w].todo
  <1>1. t \in Seq(Items) /\ t # <<>>
    BY DEF StreamTypeOK, WorkSet
  <1>2. CASE Len(t) = 1
    <2>1. Rest(w) = IdleWork /\ <<>> \in Seq(Items)
      BY <1>2 DEF Rest
    <2> QED BY <2>1, EmptyElems DEF IdleWork, WorkSet
  <1>3. CASE Len(t) # 1
    <2>1. Rest(w) = [pc |-> "run", todo |-> Tail(t)]
      BY <1>3 DEF Rest
    <2> HIDE DEF t
    <2>2. Tail(t) \in Seq(Items) /\ Elems(Tail(t)) \subseteq Elems(t)
      BY <1>1, HeadElem
    <2>3. Tail(t) # <<>>
      BY <1>1, <1>3, TailLong
    <2> QED BY <2>1, <2>2, <2>3 DEF WorkSet, t
  <1> QED BY <1>2, <1>3

\* The entry a consumer is at.
LEMMA WorkHead ==
  ASSUME StreamTypeOK, NEW w \in Workers, work[w].pc # "idle"
  PROVE  LET x == Head(work[w].todo) IN
         x \in Elems(work[w].todo) /\ x \in Items /\ x.id \in Ids /\ x.job \in Jobs
  <1>1. work[w].todo \in Seq(Items) /\ work[w].todo # <<>>
    BY DEF StreamTypeOK, WorkSet
  <1>2. Head(work[w].todo) \in Items /\ Head(work[w].todo) \in Elems(work[w].todo)
    BY <1>1, HeadElem
  <1> QED BY <1>2 DEF Items

\* The entry the janitor is at.
LEMMA JanHead ==
  ASSUME StreamTypeOK, jan.todo # <<>>
  PROVE  LET x == Head(jan.todo) IN
         /\ x \in Elems(jan.todo) /\ x \in Items /\ x.id \in Ids /\ x.job \in Jobs
         /\ Tail(jan.todo) \in Seq(Items) /\ Elems(Tail(jan.todo)) \subseteq Elems(jan.todo)
  <1>1. jan.todo \in Seq(Items)
    BY DEF StreamTypeOK, JanSet
  <1>2. /\ Head(jan.todo) \in Items /\ Head(jan.todo) \in Elems(jan.todo)
        /\ Tail(jan.todo) \in Seq(Items) /\ Elems(Tail(jan.todo)) \subseteq Elems(jan.todo)
    BY <1>1, HeadElem
  <1> QED BY <1>2 DEF Items

\* The jobs of live entries, and of every entry with a body, are jobs.
LEMMA BodyJobs ==
  ASSUME StreamTypeOK
  PROVE  LiveJobs \subseteq Jobs /\ \A i \in Ids : ent[i].body => ent[i].job \in Jobs
  <1>1. \A i \in Ids : ent[i].body => ent[i].job \in Jobs
    BY EntryShape DEF StreamTypeOK
  <1> QED BY <1>1 DEF LiveJobs, Live

\* What the janitor holds.
LEMMA JanShape ==
  ASSUME StreamTypeOK
  PROVE  /\ jan.pc \in {"docs", "claim", "decide", "xack", "xdel", "info", "tail", "pel", "sweep"}
         /\ jan.todo \in Seq(Items) /\ jan.quar \subseteq Jobs /\ jan.want \subseteq Jobs
         /\ jan.old \subseteq Ids /\ jan.live \subseteq Jobs /\ jan.keys \subseteq Jobs
  BY DEF StreamTypeOK, JanSet

\* Faults are bounded.
LEMMA FaultTypes ==
  ASSUME StreamTypeOK, NEW kind, Fault(kind)
  PROVE  faults' \in 0..MaxFaults
  BY StreamAssumption DEF Fault, StreamTypeOK

\* The types of log and ent, after any of the changes above.
LEMMA EntTypes ==
  ASSUME (\E X : Loses(X)) \/ (\E i, j : Adds(i, j))
  PROVE  log' \in Seq(Ids) /\ ent' \in [Ids -> EntrySet]
  BY DEF Loses, Adds

\* ReclaimXAck, ReclaimXDel, AckXAck and AckXDel, the call made or refused.
LEMMA OneLost ==
  ASSUME StreamTypeOK, NEW i \in Ids,
         \/ XAck(i) \/ XDel(i) \/ UNCHANGED <<log, ent>>
  PROVE  Loses({i})
  BY XAckLoses, XDelLoses, UnchangedLoses

\* What each action of a consumer does.
LEMMA WorkMoves ==
  ASSUME StreamTypeOK, NEW w \in Workers,
         WorkStep(w) \/ HandlerFails(w) \/ WorkerDies(w)
  PROVE  \E v \in WorkSet :
           /\ work' = [work EXCEPT ![w] = v] /\ (v.pc # "idle" => v.todo # <<>>)
           /\ jan' = jan /\ sent' = sent /\ recorded' = recorded
           /\ dropped' = dropped /\ dlq' = dlq /\ faults' \in 0..MaxFaults
           /\ \/ /\ \A X : Loses(X)
                 /\ done' = done /\ v.pc = "run"
                 /\ \A x \in Elems(v.todo) : ent[x.id].body /\ x.job = ent[x.id].job
              \/ /\ work[w].pc = "run" /\ v.pc = "xack" /\ v.todo = work[w].todo
                 /\ done' = done \cup {Head(v.todo).job}
                 /\ UNCHANGED <<log, ent>>
              \/ /\ v.pc \in {"idle", "run"} /\ Elems(v.todo) \subseteq Elems(work[w].todo)
                 /\ done' = done /\ UNCHANGED <<log, ent>>
              \/ /\ work[w].pc = "xack" /\ v.pc = "xdel" /\ v.todo = work[w].todo
                 /\ done' = done /\ Loses({Head(work[w].todo).id})
              \/ /\ work[w].pc = "xdel" /\ v.pc \in {"idle", "run"}
                 /\ Elems(v.todo) \subseteq Elems(work[w].todo)
                 /\ done' = done /\ Loses({Head(work[w].todo).id})
  <1> DEFINE u == work[w]
  <1>1. work \in [Workers -> WorkSet] /\ u \in WorkSet /\ (u.pc # "idle" => u.todo # <<>>)
        /\ faults \in 0..MaxFaults
    BY DEF StreamTypeOK
  <1>2. CASE ReadJobs(w)
    <2> DEFINE v == work'[w]
    <2>1. /\ \A X : Loses(X)
          /\ v.pc = "run" /\ v.todo \in Seq(Items) /\ v.todo # <<>>
          /\ \A x \in Elems(v.todo) : ent[x.id].body /\ x.job = ent[x.id].job
          /\ work' = [work EXCEPT ![w] = v]
      BY <1>2, ReadJobsLoses
    <2>2. v = [pc |-> "run", todo |-> v.todo]
      BY <1>1, <1>2 DEF ReadJobs
    <2> HIDE DEF v
    <2>3. v \in WorkSet
      BY <2>1, <2>2 DEF WorkSet
    <2> QED BY <1>1, <1>2, <2>1, <2>3 DEF ReadJobs
  <1>3. CASE HandlerOk(w)
    <2> DEFINE v == [u EXCEPT !.pc = "xack"]
    <2>1. v \in WorkSet /\ v.pc = "xack" /\ v.todo = u.todo
      BY <1>1 DEF WorkSet
    <2>2. work' = [work EXCEPT ![w] = v] /\ u.pc = "run" /\ done' = done \cup {Head(u.todo).job}
      BY <1>3 DEF HandlerOk
    <2> HIDE DEF v, u
    <2> QED BY <1>1, <1>3, <2>1, <2>2 DEF HandlerOk, u
  <1>4. CASE HandlerFails(w)
    <2>1. work' = [work EXCEPT ![w] = Rest(w)] /\ u.pc = "run" /\ UNCHANGED <<log, ent, done>>
      BY <1>4 DEF HandlerFails
    <2>2. faults' \in 0..MaxFaults
      BY <1>1, <1>4, FaultTypes DEF HandlerFails
    <2>3. /\ Rest(w) \in WorkSet /\ Rest(w).pc \in {"idle", "run"}
          /\ Rest(w).pc # "idle" => Rest(w).todo # <<>>
          /\ Elems(Rest(w).todo) \subseteq Elems(work[w].todo)
      BY <2>1, RestMoves
    <2> QED BY <1>4, <2>1, <2>2, <2>3 DEF HandlerFails
  <1>5. CASE AckXAck(w)
    <2> DEFINE v == [u EXCEPT !.pc = "xdel"]
    <2>1. v \in WorkSet /\ v.pc = "xdel" /\ v.todo = u.todo
      BY <1>1 DEF WorkSet
    <2>2. work' = [work EXCEPT ![w] = v] /\ u.pc = "xack"
      BY <1>5 DEF AckXAck
    <2>3. faults' \in 0..MaxFaults
      BY <1>1, <1>5, FaultTypes DEF AckXAck
    <2>4. Head(u.todo).id \in Ids
      BY <2>2, WorkHead
    <2>5. Loses({Head(u.todo).id})
      BY <1>5, <2>4, OneLost DEF AckXAck
    <2> HIDE DEF v
    <2> QED BY <1>1, <1>5, <2>1, <2>2, <2>3, <2>5 DEF AckXAck
  <1>6. CASE AckXDel(w)
    <2>1. work' = [work EXCEPT ![w] = Rest(w)] /\ u.pc = "xdel"
      BY <1>6 DEF AckXDel
    <2>2. faults' \in 0..MaxFaults
      BY <1>1, <1>6, FaultTypes DEF AckXDel
    <2>3. Head(u.todo).id \in Ids
      BY <2>1, WorkHead
    <2>4. Loses({Head(u.todo).id})
      BY <1>6, <2>3, OneLost DEF AckXDel
    <2>5. /\ Rest(w) \in WorkSet /\ Rest(w).pc \in {"idle", "run"}
          /\ Rest(w).pc # "idle" => Rest(w).todo # <<>>
          /\ Elems(Rest(w).todo) \subseteq Elems(work[w].todo)
      BY <2>1, RestMoves
    <2> QED BY <1>6, <2>1, <2>2, <2>4, <2>5 DEF AckXDel
  <1>7. CASE WorkerDies(w)
    <2>1. IdleWork \in WorkSet /\ IdleWork.pc = "idle" /\ Elems(IdleWork.todo) = {}
      BY EmptyElems DEF IdleWork, WorkSet
    <2>2. faults' \in 0..MaxFaults
      BY <1>7, FaultTypes DEF WorkerDies
    <2> QED BY <1>7, <2>1, <2>2 DEF WorkerDies
  <1> QED BY <1>2, <1>3, <1>4, <1>5, <1>6, <1>7 DEF WorkStep

Idle(v) == v.pc \in {"docs", "claim", "info"} /\ v.live \in {jan.live, {}}
           /\ Elems(v.todo) \subseteq Elems(jan.todo)

Scanned == {ent[i].job : i \in {i \in Listed \ jan.old : ent[i].body}}
Page == FirstN(Pel, ScanPage)
Paged == {ent[Page[k]].job : k \in {k \in DOMAIN Page : ent[Page[k]].body}}

\* The PEL is the delivered part of the log, and its page is all of it if it fits.
LEMMA PelElems ==
  ASSUME StreamTypeOK
  PROVE  /\ Pel \in Seq(Ids) /\ Elems(Pel) = {i \in Listed : ent[i].cnt > 0}
         /\ Page \in Seq(Ids) /\ (Len(Pel) <= ScanPage => Page = Pel)
         /\ Listed \subseteq Ids
  <1> DEFINE T == {i \in Ids : ent[i].cnt > 0}
  <1>1. log \in Seq(Ids)
    BY DEF StreamTypeOK
  <1>2. T \in SUBSET Ids /\ Pel = Where(log, T)
    BY DEF Pel
  <1>3. Pel \in Seq(Ids) /\ Elems(Pel) = Elems(log) \cap T
    <2> HIDE DEF T
    <2> QED BY <1>1, <1>2, WhereElems
  <1>4. Listed \subseteq Ids
    BY <1>1 DEF Listed
  <1>5. Page \in Seq(Ids) /\ (Len(Pel) <= ScanPage => Page = Pel)
    <2>1. ScanPage \in Nat
      BY StreamAssumption
    <2> QED BY <1>3, <2>1, FirstNElems DEF Page
  <1> QED BY <1>3, <1>4, <1>5, ListedElems

\* The scan reads jobs.
LEMMA ScannedJobs ==
  ASSUME StreamTypeOK
  PROVE  Scanned \subseteq Jobs /\ Paged \subseteq Jobs
  <1>1. Scanned \subseteq Jobs
    BY PelElems, BodyJobs DEF Scanned
  <1>2. \A k \in DOMAIN Page : Page[k] \in Ids
    BY PelElems
  <1> QED BY <1>1, <1>2, BodyJobs DEF Paged

\* What each action of the janitor does.
LEMMA JanMoves ==
  ASSUME StreamTypeOK, JanStep \/ JanitorDies
  PROVE  \E v \in JanSet :
           /\ jan' = v /\ (v.pc \in {"xack", "xdel"} => v.todo # <<>>)
           /\ work' = work /\ recorded' = recorded /\ done' = done
           /\ dlq' \subseteq Jobs /\ faults' \in 0..MaxFaults
           /\ \/ Idle(v) /\ UNCHANGED <<log, ent, sent, dropped>>
              \/ /\ v.pc = "decide" /\ v.live = jan.live /\ UNCHANGED <<sent, dropped>>
                 /\ \A X : Loses(X)
                 /\ \A x \in Elems(v.todo) : ent[x.id].body /\ x.job = ent[x.id].job
              \/ /\ v.pc = "xack" /\ v.live = jan.live /\ v.todo = jan.todo
                 /\ jan.pc = "decide" /\ jan.todo # <<>> /\ UNCHANGED sent
                 /\ \/ dropped' = dropped \cup {Head(v.todo).job} /\ UNCHANGED <<log, ent>>
                    \/ dropped' = dropped /\ \E i \in Ids : Adds(i, Head(v.todo).job)
              \/ /\ jan.pc = "xack" /\ v.pc = "xdel" /\ v.live = jan.live /\ v.todo = jan.todo
                 /\ Loses({Head(jan.todo).id}) /\ UNCHANGED <<sent, dropped>>
              \/ /\ jan.pc = "xdel" /\ v.pc = "decide" /\ v.live = jan.live
                 /\ Elems(v.todo) \subseteq Elems(jan.todo)
                 /\ Loses({Head(jan.todo).id}) /\ UNCHANGED <<sent, dropped>>
              \/ /\ v.pc \in {"tail", "pel", "sweep"} /\ v.todo = jan.todo
                 /\ UNCHANGED <<log, ent, sent, dropped>>
                 /\ \/ v.pc = "tail" /\ v.live = LiveJobs /\ v.old = {i \in Listed : ~ent[i].new}
                    \/ jan.pc = "tail" /\ v.pc = "pel" /\ v.live = jan.live /\ v.keys = Scanned
                    \/ /\ jan.pc = "pel" /\ v.pc = "sweep" /\ v.live = jan.live
                       /\ v.keys = jan.keys \cup Paged
              \/ /\ jan.pc = "sweep" /\ v.pc = "sweep" /\ v.todo = jan.todo /\ v.live = jan.live
                 /\ v.keys = jan.keys /\ UNCHANGED dropped
                 /\ \E j \in Jobs : sent' = sent \cup {j} /\ \E i \in Ids : Adds(i, j)
  <1>1. jan \in JanSet /\ faults \in 0..MaxFaults /\ dlq \subseteq Jobs /\ recorded \subseteq Jobs
        /\ (jan.pc \in {"xack", "xdel"} => jan.todo # <<>>)
    BY DEF StreamTypeOK
  <1>2. IdleJan \in JanSet /\ Idle(IdleJan)
    BY EmptyElems DEF IdleJan, JanSet, Idle
  <1>3. CASE NonTerminalDocs
    <2> DEFINE v == [jan EXCEPT !.pc = "claim", !.want = recorded \ done]
    <2>1. v \in JanSet /\ v.pc = "claim" /\ v.live = jan.live /\ v.todo = jan.todo
      BY <1>1 DEF JanSet
    <2>2. jan' = v
      BY <1>3 DEF NonTerminalDocs
    <2> HIDE DEF v
    <2> QED BY <1>1, <1>3, <2>1, <2>2 DEF NonTerminalDocs, Idle
  <1>4. CASE ClaimStale
    <2>1. /\ \A X : Loses(X)
          /\ jan'.todo \in Seq(Items)
          /\ \A x \in Elems(jan'.todo) : ent[x.id].body /\ x.job = ent[x.id].job
          /\ jan' = [jan EXCEPT !.pc = "decide", !.todo = jan'.todo]
      BY <1>4, ClaimStaleLoses
    <2> DEFINE t == jan'.todo
               v == [jan EXCEPT !.pc = "decide", !.todo = t]
    <2>2. jan' = v /\ t \in Seq(Items)
      BY <2>1
    <2> HIDE DEF t
    <2>3. v \in JanSet /\ v.pc = "decide" /\ v.live = jan.live
      BY <1>1, <2>2 DEF JanSet
    <2>4. faults' \in 0..MaxFaults
      BY <1>1, <1>4, FaultTypes DEF ClaimStale
    <2> HIDE DEF v
    <2> QED BY <1>1, <1>4, <2>1, <2>2, <2>3, <2>4 DEF ClaimStale
  <1>5. CASE DecideQuarantine
    <2> DEFINE x == Head(jan.todo)
               v == [jan EXCEPT !.pc = "xack", !.quar = @ \cup {x.job}]
    <2>1. jan.todo # <<>> /\ x.job \in Jobs
      BY <1>5, JanHead DEF DecideQuarantine
    <2>2. jan' = v /\ jan.pc = "decide" /\ dropped' = dropped \cup {x.job}
      BY <1>5 DEF DecideQuarantine
    <2> HIDE DEF x
    <2>3. v \in JanSet /\ v.pc = "xack" /\ v.live = jan.live /\ v.todo = jan.todo
      BY <1>1, <2>1 DEF JanSet
    <2> HIDE DEF v
    <2> QED BY <1>1, <1>5, <2>1, <2>2, <2>3 DEF DecideQuarantine, x
  <1>6. CASE DecideReadd
    <2> DEFINE x == Head(jan.todo)
               v == [jan EXCEPT !.pc = "xack"]
    <2>1. jan.todo # <<>> /\ x.job \in Jobs
      BY <1>6, JanHead DEF DecideReadd
    <2>2. jan' = v /\ jan.pc = "decide" /\ Put(x.job)
      BY <1>6 DEF DecideReadd
    <2>3. \E i \in Ids : Adds(i, x.job)
      BY <2>1, <2>2, PutAdds
    <2> HIDE DEF x
    <2>4. v \in JanSet /\ v.pc = "xack" /\ v.live = jan.live /\ v.todo = jan.todo
      BY <1>1, <2>1 DEF JanSet
    <2> HIDE DEF v
    <2> QED BY <1>1, <1>6, <2>1, <2>2, <2>3, <2>4 DEF DecideReadd, x
  <1>7. CASE ReclaimXAck
    <2> DEFINE v == [jan EXCEPT !.pc = "xdel"]
    <2>1. jan' = v /\ jan.pc = "xack"
      BY <1>7 DEF ReclaimXAck
    <2>2. Head(jan.todo).id \in Ids
      BY <1>1, <2>1, JanHead
    <2>3. Loses({Head(jan.todo).id})
      BY <1>7, <2>2, OneLost DEF ReclaimXAck
    <2>4. v \in JanSet /\ v.pc = "xdel" /\ v.live = jan.live /\ v.todo = jan.todo
      BY <1>1 DEF JanSet
    <2>5. faults' \in 0..MaxFaults
      BY <1>1, <1>7, FaultTypes DEF ReclaimXAck
    <2> HIDE DEF v
    <2> QED BY <1>1, <1>7, <2>1, <2>3, <2>4, <2>5 DEF ReclaimXAck
  <1>8. CASE ReclaimXDel
    <2> DEFINE t == Tail(jan.todo)
               v == [jan EXCEPT !.pc = "decide", !.todo = t]
    <2>1. jan' = v /\ jan.pc = "xdel"
      BY <1>8 DEF ReclaimXDel
    <2>2. Head(jan.todo).id \in Ids /\ t \in Seq(Items) /\ Elems(t) \subseteq Elems(jan.todo)
      BY <1>1, <2>1, JanHead
    <2>3. Loses({Head(jan.todo).id})
      BY <1>8, <2>2, OneLost DEF ReclaimXDel
    <2> HIDE DEF t
    <2>4. v \in JanSet /\ v.pc = "decide" /\ v.live = jan.live /\ v.todo = t
      BY <1>1, <2>2 DEF JanSet
    <2>5. faults' \in 0..MaxFaults
      BY <1>1, <1>8, FaultTypes DEF ReclaimXDel
    <2> HIDE DEF v
    <2> QED BY <1>1, <1>8, <2>1, <2>2, <2>3, <2>4, <2>5 DEF ReclaimXDel
  <1>9. CASE WriteQuarantines
    <2> DEFINE v == [jan EXCEPT !.pc = "info", !.quar = {}]
    <2>1. v \in JanSet /\ v.pc = "info" /\ v.live = jan.live /\ v.todo = jan.todo
      BY <1>1 DEF JanSet
    <2>2. jan' = v /\ dlq' \subseteq Jobs
      BY <1>1, <1>9 DEF WriteQuarantines, JanSet
    <2> HIDE DEF v
    <2> QED BY <1>1, <1>9, <2>1, <2>2 DEF WriteQuarantines, Idle
  <1>10. CASE ScanInfo
    <2> DEFINE L == LiveJobs
               O == {i \in Listed : ~ent[i].new}
               v == [jan EXCEPT !.pc = "tail", !.old = O, !.live = L]
    <2>1. jan' = v /\ O \subseteq Ids /\ L \subseteq Jobs
      BY <1>10, BodyJobs, PelElems DEF ScanInfo
    <2> HIDE DEF L, O
    <2>2. v \in JanSet /\ v.pc = "tail" /\ v.live = L /\ v.old = O /\ v.todo = jan.todo
      BY <1>1, <2>1 DEF JanSet
    <2> HIDE DEF v
    <2> QED BY <1>1, <1>10, <2>1, <2>2 DEF ScanInfo, L, O
  <1>11. CASE ScanTail
    <2> DEFINE v == [jan EXCEPT !.pc = "pel", !.old = {}, !.keys = Scanned]
    <2>1. jan' = v /\ jan.pc = "tail" /\ Scanned \subseteq Jobs
      BY <1>11, ScannedJobs DEF ScanTail, Scanned
    <2>2. v \in JanSet /\ v.pc = "pel" /\ v.live = jan.live /\ v.keys = Scanned /\ v.todo = jan.todo
      BY <1>1, <2>1 DEF JanSet
    <2> HIDE DEF v
    <2> QED BY <1>1, <1>11, <2>1, <2>2 DEF ScanTail
  <1>12. CASE ScanPel
    <2> DEFINE v == [jan EXCEPT !.pc = "sweep", !.keys = @ \cup Paged]
    <2>1. jan' = v /\ jan.pc = "pel" /\ Paged \subseteq Jobs
      BY <1>12, ScannedJobs DEF ScanPel, Paged, Page
    <2>2. v \in JanSet /\ v.pc = "sweep" /\ v.live = jan.live /\ v.todo = jan.todo
          /\ v.keys = jan.keys \cup Paged
      BY <1>1, <2>1 DEF JanSet
    <2> HIDE DEF v
    <2> QED BY <1>1, <1>12, <2>1, <2>2 DEF ScanPel
  <1>13. ASSUME NEW j \in Jobs, Sweep(j)
         PROVE  \E v \in JanSet :
                  /\ jan' = v /\ v.pc = "sweep" /\ v.todo = jan.todo /\ v.live = jan.live
                  /\ v.keys = jan.keys /\ jan.pc = "sweep"
                  /\ sent' = sent \cup {j} /\ \E i \in Ids : Adds(i, j)
    <2> DEFINE v == [jan EXCEPT !.want = @ \ {j}]
    <2>1. jan' = v /\ jan.pc = "sweep" /\ Put(j) /\ sent' = sent \cup {j}
      BY <1>13 DEF Sweep
    <2>2. v \in JanSet /\ v.pc = jan.pc /\ v.todo = jan.todo /\ v.live = jan.live /\ v.keys = jan.keys
      BY <1>1 DEF JanSet
    <2>3. \E i \in Ids : Adds(i, j)
      BY <2>1, PutAdds
    <2> HIDE DEF v
    <2> QED BY <2>1, <2>2, <2>3
  <1>14. CASE \E j \in Jobs : Sweep(j)
    <2>1. PICK j \in Jobs : Sweep(j)
      BY <1>14
    <2>2. UNCHANGED <<recorded, work, done, dropped, dlq, faults>>
      BY <2>1 DEF Sweep
    <2> QED BY <1>1, <1>13, <2>1, <2>2
  <1>15. CASE SweepEnds
    BY <1>1, <1>2, <1>15 DEF SweepEnds, Idle
  <1>16. CASE JanitorRefused
    BY <1>1, <1>2, <1>16 DEF JanitorRefused, Idle
  <1>17. CASE JanitorDies
    <2>1. faults' \in 0..MaxFaults
      BY <1>17, FaultTypes DEF JanitorDies
    <2> QED BY <1>1, <1>2, <1>17, <2>1 DEF JanitorDies, Idle
  <1> QED BY <1>3, <1>4, <1>5, <1>6, <1>7, <1>8, <1>9, <1>10, <1>11, <1>12, <1>14, <1>15, <1>16,
             <1>17 DEF JanStep

-----------------------------------------------------------------------------
\* Both effects on the stream keep its types.
LEMMA EntriesTyped ==
  ASSUME NEW X, NEW i, NEW j, Loses(X) \/ Adds(i, j)
  PROVE  log' \in Seq(Ids) /\ ent' \in [Ids -> EntrySet]
  BY DEF Loses, Adds

\* The empty stream is well formed.
LEMMA StreamInitTypes == Init => StreamTypeOK
  <1> SUFFICES ASSUME Init PROVE StreamTypeOK
    OBVIOUS
  <1>1. NoEntry \in EntrySet
    BY DEF NoEntry, EntrySet
  <1>2. ent \in [Ids -> EntrySet] /\ log \in Seq(Ids)
    BY <1>1 DEF Init
  <1>3. IdleWork \in WorkSet /\ IdleWork.pc = "idle"
    BY DEF IdleWork, WorkSet
  <1>4. IdleJan \in JanSet /\ IdleJan.pc = "docs"
    BY DEF IdleJan, JanSet
  <1> QED BY <1>2, <1>3, <1>4, StreamAssumption DEF Init, StreamTypeOK

\* Every call keeps the stream, the consumers and the janitor well formed.
LEMMA StreamNextTypes ==
  ASSUME StreamTypeOK, [Next]_vars
  PROVE  StreamTypeOK'
  <1>1. /\ {recorded, sent, done, dropped, dlq} \subseteq SUBSET Jobs
        /\ log \in Seq(Ids) /\ ent \in [Ids -> EntrySet] /\ work \in [Workers -> WorkSet]
        /\ \A w \in Workers : work[w].pc # "idle" => work[w].todo # <<>>
        /\ jan \in JanSet /\ (jan.pc \in {"xack", "xdel"} => jan.todo # <<>>)
        /\ faults \in 0..MaxFaults
    BY DEF StreamTypeOK
  <1>2. ASSUME NEW j \in Jobs, Record(j)
        PROVE  StreamTypeOK'
    BY <1>1, <1>2 DEF Record, StreamTypeOK
  <1>3. ASSUME NEW j \in Jobs, XAddJob(j)
        PROVE  StreamTypeOK'
    <2>1. Put(j)
      BY <1>3 DEF XAddJob
    <2>2. PICK i \in Ids : Adds(i, j)
      BY <2>1, PutAdds
    <2>3. log' \in Seq(Ids) /\ ent' \in [Ids -> EntrySet]
      BY <2>2 DEF Adds
    <2> QED BY <1>1, <1>3, <2>3 DEF XAddJob, StreamTypeOK
  <1>4. ASSUME NEW w \in Workers, WorkStep(w) \/ HandlerFails(w) \/ WorkerDies(w)
        PROVE  StreamTypeOK'
    <2>1. PICK v \in WorkSet :
            /\ work' = [work EXCEPT ![w] = v] /\ (v.pc # "idle" => v.todo # <<>>)
            /\ UNCHANGED <<jan, sent, recorded, dropped, dlq>> /\ faults' \in 0..MaxFaults
            /\ \/ done' = done
               \/ work[w].pc = "run" /\ v.todo = work[w].todo /\ done' = done \cup {Head(v.todo).job}
            /\ (\E X : Loses(X)) \/ UNCHANGED <<log, ent>>
      <3> HIDE DEF Loses
      <3> QED BY <1>4, WorkMoves
    <2>2. work' \in [Workers -> WorkSet]
          /\ \A u \in Workers : work'[u].pc # "idle" => work'[u].todo # <<>>
      BY <1>1, <2>1
    <2>3. done' \subseteq Jobs
      BY <1>1, <2>1, WorkHead
    <2>4. log' \in Seq(Ids) /\ ent' \in [Ids -> EntrySet]
      BY <1>1, <2>1 DEF Loses
    <2> QED BY <1>1, <2>1, <2>2, <2>3, <2>4 DEF StreamTypeOK
  <1>5. CASE JanStep \/ JanitorDies
    <2>1. PICK v \in JanSet :
            /\ jan' = v /\ (v.pc \in {"xack", "xdel"} => v.todo # <<>>)
            /\ UNCHANGED <<work, recorded, done>> /\ dlq' \subseteq Jobs /\ faults' \in 0..MaxFaults
            /\ sent' = sent \/ \E j \in Jobs : sent' = sent \cup {j}
            /\ \/ dropped' = dropped
               \/ v.todo = jan.todo /\ jan.todo # <<>> /\ dropped' = dropped \cup {Head(v.todo).job}
            /\ (\E X : Loses(X)) \/ (\E i, j : Adds(i, j)) \/ UNCHANGED <<log, ent>>
      <3> HIDE DEF Loses, Adds
      <3> QED BY <1>5, JanMoves
    <2>2. dropped' \subseteq Jobs
      BY <1>1, <2>1, JanHead
    <2>3. log' \in Seq(Ids) /\ ent' \in [Ids -> EntrySet]
      BY <1>1, <2>1 DEF Loses, Adds
    <2> QED BY <1>1, <2>1, <2>2, <2>3 DEF StreamTypeOK
  <1>6. CASE UNCHANGED vars
    BY <1>1, <1>6 DEF vars, StreamTypeOK
  <1> QED BY <1>2, <1>3, <1>4, <1>5, <1>6 DEF Next

\* The stream, the consumers and the janitor keep their shapes: no process is at an entry it
\* does not have, no undelivered entry is without its body.
THEOREM StreamTypes == Spec => []StreamTypeOK
  <1>1. Init => StreamTypeOK
    BY StreamInitTypes
  <1>2. StreamTypeOK /\ [Next]_vars => StreamTypeOK'
    BY StreamNextTypes
  <1> QED BY <1>1, <1>2, PTL DEF Spec

-----------------------------------------------------------------------------
\* No job is lost.

\* The entries a process remembers keep their places.
LEMMA Remembered ==
  ASSUME StreamTypeOK
  PROVE  /\ \A w \in Workers : \A x \in Elems(work[w].todo) :
              x \in Items /\ x.id \in Ids /\ x.id \notin Free
         /\ \A x \in Elems(jan.todo) : x \in Items /\ x.id \in Ids /\ x.id \notin Free
  <1>1. ASSUME NEW w \in Workers, NEW x \in Elems(work[w].todo)
        PROVE  x \in Items /\ x.id \in Ids /\ x.id \notin Free
    <2>1. work[w].todo \in Seq(Items)
      BY DEF StreamTypeOK, WorkSet
    <2>2. PICK k \in DOMAIN work[w].todo : x = work[w].todo[k]
      BY DEF Elems
    <2>3. x \in Items
      BY <2>1, <2>2
    <2>4. x.id \in Held
      BY <2>2 DEF Held
    <2> QED BY <2>3, <2>4 DEF Items, Free
  <1>2. ASSUME NEW x \in Elems(jan.todo)
        PROVE  x \in Items /\ x.id \in Ids /\ x.id \notin Free
    <2>1. jan.todo \in Seq(Items)
      BY DEF StreamTypeOK, JanSet
    <2>2. PICK k \in DOMAIN jan.todo : x = jan.todo[k]
      BY DEF Elems
    <2>3. x \in Items
      BY <2>1, <2>2
    <2>4. x.id \in Claimed
      BY <2>2 DEF Claimed
    <2> QED BY <2>3, <2>4 DEF Items, Free
  <1> QED BY <1>1, <1>2

\* Nothing that is settled is unsettled.
Grows == sent \subseteq sent' /\ done \subseteq done' /\ dropped \subseteq dropped'

\* An entry may go when its job is settled or has another entry.
LEMMA LosesKeeps ==
  ASSUME StreamTypeOK, Custody, Grows, NEW h \in Ids, Loses({h}), sent' = sent,
         Live(h) => Settled(ent[h].job) \/ Elsewhere(h, ent[h].job)
  PROVE  /\ \A i \in Ids : ent'[i].body => ent'[i].job \in sent'
         /\ \A x \in Items : Faithful(x) => Faithful(x)'
         /\ NoJobLost'
         /\ \A j : Elsewhere(h, j) => Elsewhere(h, j)'
  <1>1. \A i \in Ids :
          /\ ent'[i].body => ent[i].body /\ ent'[i].job = ent[i].job
          /\ Live(i) /\ i # h => Live(i)'
    BY DEF Loses
  <1>2. \A i \in Ids : Live(i)' => ent'[i].job = ent[i].job
    BY <1>1 DEF Live
  <1>3. \A i \in Ids : ent'[i].body => ent'[i].job \in sent'
    BY <1>1 DEF Custody
  <1>4. ASSUME NEW x \in Items, Faithful(x)
        PROVE  Faithful(x)'
    BY <1>1, <1>4 DEF Faithful, Items
  <1>5. ASSUME NEW j, Elsewhere(h, j)
        PROVE  Elsewhere(h, j)'
    BY <1>1, <1>2, <1>5 DEF Elsewhere
  <1>6. ASSUME NEW j \in sent
        PROVE  j \in LiveJobs' \/ j \in done' \cup dropped'
    <2>1. j \in LiveJobs \/ j \in done' \cup dropped'
      BY DEF Custody, NoJobLost, Grows
    <2>2. CASE j \in LiveJobs
      <3>1. PICK i \in Ids : Live(i) /\ ent[i].job = j
        BY <2>2 DEF LiveJobs
      <3>2. CASE i # h
        BY <1>1, <1>2, <3>1, <3>2 DEF LiveJobs
      <3>3. CASE i = h /\ Settled(j)
        BY <3>3 DEF Settled, Grows
      <3>4. CASE i = h /\ Elsewhere(h, j)
        BY <1>1, <1>2, <3>4 DEF Elsewhere, LiveJobs
      <3> QED BY <3>1, <3>2, <3>3, <3>4
    <2> QED BY <2>1, <2>2
  <1>7. NoJobLost'
    BY <1>6 DEF NoJobLost
  <1> QED BY <1>3, <1>4, <1>5, <1>7

\* The same for any number of entries whose jobs are settled.
LEMMA SettledKeeps ==
  ASSUME StreamTypeOK, Custody, Grows, NEW X, Loses(X), sent' = sent,
         \A h \in X \cap Ids : Live(h) => Settled(ent[h].job)
  PROVE  /\ \A i \in Ids : ent'[i].body => ent'[i].job \in sent'
         /\ \A x \in Items : Faithful(x) => Faithful(x)'
         /\ NoJobLost'
         /\ \A i, j : Settled(j) \/ Elsewhere(i, j) => Settled(j)' \/ Elsewhere(i, j)'
  <1>1. \A i \in Ids :
          /\ ent'[i].body => ent[i].body /\ ent'[i].job = ent[i].job
          /\ Live(i) /\ i \notin X => Live(i)'
    BY DEF Loses
  <1>2. \A i \in Ids : Live(i)' => ent'[i].job = ent[i].job
    BY <1>1 DEF Live
  <1>3. \A i \in Ids : ent'[i].body => ent'[i].job \in sent'
    BY <1>1 DEF Custody
  <1>4. ASSUME NEW x \in Items, Faithful(x)
        PROVE  Faithful(x)'
    BY <1>1, <1>4 DEF Faithful, Items
  <1>5. \A j : Settled(j) => Settled(j)'
    BY DEF Settled, Grows
  <1>6. ASSUME NEW k \in Ids, Live(k)
        PROVE  Settled(ent[k].job) \/ (Live(k)' /\ ent'[k].job = ent[k].job)
    BY <1>1, <1>2, <1>6
  <1>7. ASSUME NEW i, NEW j, Elsewhere(i, j)
        PROVE  Settled(j) \/ Elsewhere(i, j)'
    BY <1>6, <1>7 DEF Elsewhere
  <1>8. ASSUME NEW j \in sent
        PROVE  j \in LiveJobs' \/ Settled(j)'
    <2>1. j \in LiveJobs \/ Settled(j)
      BY DEF Custody, NoJobLost, Settled
    <2> QED BY <1>5, <1>6, <2>1 DEF LiveJobs
  <1>9. NoJobLost'
    BY <1>8 DEF NoJobLost, Settled
  <1> QED BY <1>3, <1>4, <1>5, <1>7, <1>9

\* An entry more loses nothing.
LEMMA AddsKeeps ==
  ASSUME StreamTypeOK, Custody, Grows, NEW a \in Ids, NEW j, Adds(a, j), sent' = sent \cup {j}
  PROVE  /\ \A i \in Ids : ent'[i].body => ent'[i].job \in sent'
         /\ \A x \in Items : x.id # a /\ Faithful(x) => Faithful(x)'
         /\ NoJobLost'
         /\ \A i, k : Settled(k) \/ Elsewhere(i, k) => Settled(k)' \/ Elsewhere(i, k)'
         /\ \A i \in Ids \ {a} : Elsewhere(i, j)'
  <1>1. /\ Live(a)' /\ ~Live(a) /\ ent'[a].job = j /\ ent'[a].body
        /\ \A k \in Ids \ {a} : ent'[k] = ent[k] /\ (Live(k)' <=> Live(k))
    BY DEF Adds
  <1>2. \A i \in Ids : ent'[i].body => ent'[i].job \in sent'
    BY <1>1 DEF Custody
  <1>3. ASSUME NEW x \in Items, x.id # a, Faithful(x)
        PROVE  Faithful(x)'
    BY <1>1, <1>3 DEF Faithful, Items
  <1>4. ASSUME NEW i, NEW k, Elsewhere(i, k)
        PROVE  Elsewhere(i, k)'
    BY <1>1, <1>4 DEF Elsewhere
  <1>5. \A k : Settled(k) => Settled(k)'
    BY DEF Settled, Grows
  <1>6. \A i \in Ids \ {a} : Elsewhere(i, j)'
    BY <1>1 DEF Elsewhere
  <1>7. LiveJobs \cup {j} \subseteq LiveJobs'
    BY <1>1 DEF LiveJobs
  <1>8. NoJobLost'
    BY <1>7 DEF NoJobLost, Custody, Grows
  <1> QED BY <1>2, <1>3, <1>4, <1>5, <1>6, <1>8

\* At first nothing is sent.
LEMMA CustodyInit == Init => Custody
  <1> SUFFICES ASSUME Init PROVE Custody
    OBVIOUS
  <1>1. \A w \in Workers : work[w].todo = <<>> /\ work[w].pc = "idle"
    BY DEF Init, IdleWork
  <1>2. jan.todo = <<>> /\ jan.pc = "docs"
    BY DEF Init, IdleJan
  <1>3. \A i \in Ids : ~ent[i].body
    BY DEF Init, NoEntry
  <1>4. WorkFaithful /\ JanFaithful
    BY <1>1, <1>2, EmptyElems DEF WorkFaithful, JanFaithful
  <1>5. WorkAcks /\ JanAcks /\ NoJobLost
    BY <1>1, <1>2 DEF Init, WorkAcks, JanAcks, NoJobLost
  <1> QED BY <1>3, <1>4, <1>5 DEF Custody

\* What a consumer takes off the stream it has completed.
LEMMA WorkLoses ==
  ASSUME StreamTypeOK, Custody, NEW w \in Workers,
         WorkStep(w) \/ HandlerFails(w) \/ WorkerDies(w)
  PROVE  /\ \E X : Loses(X) /\ \A h \in X \cap Ids : Live(h) => Settled(ent[h].job)
         /\ Grows /\ UNCHANGED <<jan, sent>>
  <1>1. /\ Grows /\ UNCHANGED <<jan, sent>>
        /\ \/ \A X : Loses(X)
           \/ UNCHANGED <<log, ent>>
           \/ work[w].pc \in {"xack", "xdel"} /\ Loses({Head(work[w].todo).id})
    <2>1. /\ UNCHANGED <<jan, sent, dropped>> /\ done \subseteq done'
          /\ \/ \A X : Loses(X)
             \/ UNCHANGED <<log, ent>>
             \/ work[w].pc = "xack" /\ Loses({Head(work[w].todo).id})
             \/ work[w].pc = "xdel" /\ Loses({Head(work[w].todo).id})
      <3> HIDE DEF Loses
      <3> QED BY WorkMoves
    <2> HIDE DEF Loses
    <2> QED BY <2>1 DEF Grows
  <1>2. (\A X : Loses(X)) \/ UNCHANGED <<log, ent>> => Loses({})
    BY UnchangedLoses
  <1>3. CASE work[w].pc \in {"xack", "xdel"} /\ Loses({Head(work[w].todo).id})
    <2> DEFINE x == Head(work[w].todo)
    <2>1. x \in Elems(work[w].todo) /\ x \in Items /\ x.id \in Ids
      BY <1>3, WorkHead
    <2>2. x.job \in done /\ (ent[x.id].body => ent[x.id].job = x.job)
      BY <1>3, <2>1 DEF Custody, WorkAcks, WorkFaithful, Faithful
    <2>3. Live(x.id) => Settled(ent[x.id].job)
      BY <2>2 DEF Live, Settled
    <2>4. Loses({x.id})
      BY <1>3
    <2> HIDE DEF x, Loses
    <2> QED BY <1>1, <2>3, <2>4
  <1> HIDE DEF Loses
  <1> QED BY <1>1, <1>2, <1>3

\* A consumer acks and deletes only what it finished.
LEMMA CustodyWork ==
  ASSUME StreamTypeOK, Custody, NEW w \in Workers,
         WorkStep(w) \/ HandlerFails(w) \/ WorkerDies(w)
  PROVE  Custody'
  <1>1. PICK v \in WorkSet :
           /\ work' = [work EXCEPT ![w] = v] /\ (v.pc # "idle" => v.todo # <<>>)
           /\ UNCHANGED <<jan, sent, dropped>>
           /\ \/ /\ \A X : Loses(X)
                 /\ done' = done /\ v.pc = "run"
                 /\ \A x \in Elems(v.todo) : ent[x.id].body /\ x.job = ent[x.id].job
              \/ /\ work[w].pc = "run" /\ v.pc = "xack" /\ v.todo = work[w].todo
                 /\ done' = done \cup {Head(v.todo).job}
                 /\ UNCHANGED <<log, ent>>
              \/ /\ v.pc \in {"idle", "run"} /\ Elems(v.todo) \subseteq Elems(work[w].todo)
                 /\ done' = done /\ UNCHANGED <<log, ent>>
              \/ /\ work[w].pc = "xack" /\ v.pc = "xdel" /\ v.todo = work[w].todo
                 /\ done' = done /\ Loses({Head(work[w].todo).id})
              \/ /\ work[w].pc = "xdel" /\ v.pc \in {"idle", "run"}
                 /\ Elems(v.todo) \subseteq Elems(work[w].todo)
                 /\ done' = done /\ Loses({Head(work[w].todo).id})
    <2> HIDE DEF Loses
    <2> QED BY WorkMoves
  <1>2. work'[w] = v /\ \A u \in Workers \ {w} : work'[u] = work[u]
    BY <1>1 DEF StreamTypeOK
  <1>3. Grows /\ sent' = sent
    BY <1>1 DEF Grows
  <1>4. /\ \A u \in Workers : \A x \in Elems(work[u].todo) : x \in Items /\ Faithful(x)
        /\ \A x \in Elems(jan.todo) : x \in Items /\ Faithful(x)
    BY Remembered DEF Custody, WorkFaithful, JanFaithful
  <1>5. \E X : Loses(X) /\ \A h \in X \cap Ids : Live(h) => Settled(ent[h].job)
    BY WorkLoses
  <1>6. /\ \A i \in Ids : ent'[i].body => ent'[i].job \in sent'
        /\ \A x \in Items : Faithful(x) => Faithful(x)'
        /\ NoJobLost'
        /\ \A i, j : Settled(j) \/ Elsewhere(i, j) => Settled(j)' \/ Elsewhere(i, j)'
    BY <1>3, <1>5, SettledKeeps
  <1>7. JanFaithful' /\ JanAcks'
    <2>1. JanFaithful'
      BY <1>1, <1>4, <1>6 DEF JanFaithful
    <2>2. JanAcks'
      BY <1>1, <1>6 DEF JanAcks, Custody
    <2> QED BY <2>1, <2>2
  <1>8. \A x \in Elems(v.todo) : Faithful(x)'
    <2>1. CASE Elems(v.todo) \subseteq Elems(work[w].todo)
      BY <1>4, <1>6, <2>1
    <2>2. CASE \A x \in Elems(v.todo) : ent[x.id].body /\ x.job = ent[x.id].job
      <3>1. \A x \in Elems(v.todo) : x \in Items /\ x.id \in Ids
        <4>1. v.todo \in Seq(Items)
          BY DEF WorkSet
        <4> QED BY <4>1, SeqElems DEF Items
      <3>2. \A x \in Elems(v.todo) : Faithful(x)
        BY <2>2, <3>1 DEF Custody, Faithful
      <3> QED BY <1>6, <3>1, <3>2
    <2> QED BY <1>1, <2>1, <2>2
  <1>9. WorkFaithful'
    BY <1>2, <1>4, <1>6, <1>8 DEF WorkFaithful
  <1>10. v.pc \in {"xack", "xdel"} => Head(v.todo).job \in done'
    BY <1>1 DEF Custody, WorkAcks
  <1>11. WorkAcks'
    BY <1>2, <1>3, <1>10 DEF Custody, WorkAcks, Grows
  <1> QED BY <1>6, <1>7, <1>9, <1>11 DEF Custody

\* The janitor adds the fresh copy before it lets the claimed entry go.
LEMMA CustodyJan ==
  ASSUME StreamTypeOK, Custody, JanStep \/ JanitorDies
  PROVE  Custody'
  <1>1. PICK v \in JanSet :
           /\ jan' = v /\ (v.pc \in {"xack", "xdel"} => v.todo # <<>>)
           /\ work' = work /\ done' = done
           /\ \/ Idle(v) /\ UNCHANGED <<log, ent, sent, dropped>>
              \/ /\ v.pc = "decide" /\ v.live = jan.live /\ UNCHANGED <<sent, dropped>>
                 /\ \A X : Loses(X)
                 /\ \A x \in Elems(v.todo) : ent[x.id].body /\ x.job = ent[x.id].job
              \/ /\ v.pc = "xack" /\ v.live = jan.live /\ v.todo = jan.todo
                 /\ jan.pc = "decide" /\ jan.todo # <<>> /\ UNCHANGED sent
                 /\ \/ dropped' = dropped \cup {Head(v.todo).job} /\ UNCHANGED <<log, ent>>
                    \/ dropped' = dropped /\ \E i \in Ids : Adds(i, Head(v.todo).job)
              \/ /\ jan.pc = "xack" /\ v.pc = "xdel" /\ v.live = jan.live /\ v.todo = jan.todo
                 /\ Loses({Head(jan.todo).id}) /\ UNCHANGED <<sent, dropped>>
              \/ /\ jan.pc = "xdel" /\ v.pc = "decide" /\ v.live = jan.live
                 /\ Elems(v.todo) \subseteq Elems(jan.todo)
                 /\ Loses({Head(jan.todo).id}) /\ UNCHANGED <<sent, dropped>>
              \/ /\ v.pc \in {"tail", "pel", "sweep"} /\ v.todo = jan.todo
                 /\ UNCHANGED <<log, ent, sent, dropped>>
              \/ /\ jan.pc = "sweep" /\ v.pc = "sweep" /\ v.todo = jan.todo /\ v.live = jan.live
                 /\ UNCHANGED dropped
                 /\ \E j \in Jobs : sent' = sent \cup {j} /\ \E i \in Ids : Adds(i, j)
    <2> HIDE DEF Loses, Adds, Idle
    <2> QED BY JanMoves
  <1>2. /\ \A u \in Workers : \A x \in Elems(work[u].todo) :
             x \in Items /\ x.id \in Ids /\ x.id \notin Free /\ Faithful(x)
        /\ \A x \in Elems(jan.todo) :
             x \in Items /\ x.id \in Ids /\ x.id \notin Free /\ Faithful(x)
    BY Remembered DEF Custody, WorkFaithful, JanFaithful
  <1>3. Grows
    BY <1>1 DEF Grows
  <1> DEFINE Kept ==
        /\ \A i \in Ids : ent'[i].body => ent'[i].job \in sent'
        /\ \A x \in Items : x.id \notin Free /\ Faithful(x) => Faithful(x)'
        /\ NoJobLost'
  <1>4. ASSUME Kept, \A x \in Elems(v.todo) : Faithful(x)',
               v.pc \in {"xack", "xdel"} =>
                 Settled(Head(v.todo).job)' \/ Elsewhere(Head(v.todo).id, Head(v.todo).job)'
        PROVE  Custody'
    <2>1. WorkFaithful' /\ JanFaithful'
      BY <1>1, <1>2, <1>4 DEF WorkFaithful, JanFaithful
    <2>2. WorkAcks'
      BY <1>1 DEF WorkAcks, Custody
    <2>3. JanAcks'
      BY <1>1, <1>4 DEF JanAcks
    <2> QED BY <1>4, <2>1, <2>2, <2>3 DEF Custody
  <1>5. ASSUME Kept, Elems(v.todo) \subseteq Elems(jan.todo)
        PROVE  \A x \in Elems(v.todo) : Faithful(x)'
    BY <1>2, <1>5
  <1>6. ASSUME NEW X, Loses(X), X = {}, sent' = sent
        PROVE  Kept
    <2>1. \A h \in X \cap Ids : Live(h) => Settled(ent[h].job)
      BY <1>6
    <2> HIDE DEF Kept
    <2>2. /\ \A i \in Ids : ent'[i].body => ent'[i].job \in sent'
          /\ \A x \in Items : Faithful(x) => Faithful(x)'
          /\ NoJobLost'
      BY <1>3, <1>6, <2>1, SettledKeeps
    <2> QED BY <2>2 DEF Kept
  <1>7. ASSUME NEW a \in Ids, NEW j, Adds(a, j), sent' = sent \cup {j}
        PROVE  Kept /\ \A i \in Ids \ {a} : Elsewhere(i, j)'
    <2>1. a \in Free
      BY <1>7 DEF Adds
    <2>2. /\ \A i \in Ids : ent'[i].body => ent'[i].job \in sent'
          /\ \A x \in Items : x.id # a /\ Faithful(x) => Faithful(x)'
          /\ NoJobLost'
          /\ \A i \in Ids \ {a} : Elsewhere(i, j)'
      BY <1>3, <1>7, AddsKeeps
    <2> QED BY <2>1, <2>2
  <1>8. UNCHANGED <<log, ent>> => Loses({})
    BY UnchangedLoses
  <1>9. CASE Idle(v) /\ UNCHANGED <<log, ent, sent, dropped>>
    <2>1. Kept
      BY <1>6, <1>8, <1>9
    <2>2. Elems(v.todo) \subseteq Elems(jan.todo) /\ v.pc \notin {"xack", "xdel"}
      BY <1>9 DEF Idle
    <2> HIDE DEF Kept
    <2> QED BY <1>4, <1>5, <2>1, <2>2
  <1>10. CASE /\ v.pc = "decide" /\ UNCHANGED <<sent, dropped>> /\ \A X : Loses(X)
              /\ \A x \in Elems(v.todo) : ent[x.id].body /\ x.job = ent[x.id].job
    <2>1. Kept
      BY <1>6, <1>10
    <2>2. \A x \in Elems(v.todo) : x \in Items /\ x.id \in Ids
      <3>1. v.todo \in Seq(Items)
        BY DEF JanSet
      <3> QED BY <3>1, SeqElems DEF Items
    <2>3. \A x \in Elems(v.todo) : Faithful(x)
      BY <1>10, <2>2 DEF Custody, Faithful
    <2>4. Loses({})
      BY <1>10
    <2>5. \A x \in Elems(v.todo) : Faithful(x)'
      BY <1>10, <2>2, <2>3, <2>4 DEF Loses, Faithful
    <2> HIDE DEF Kept
    <2> QED BY <1>4, <1>10, <2>1, <2>5
  <1>11. CASE /\ v.pc = "xack" /\ v.todo = jan.todo /\ jan.todo # <<>> /\ UNCHANGED sent
              /\ \/ dropped' = dropped \cup {Head(v.todo).job} /\ UNCHANGED <<log, ent>>
                 \/ dropped' = dropped /\ \E i \in Ids : Adds(i, Head(v.todo).job)
    <2> DEFINE x == Head(v.todo)
    <2>1. x \in Elems(jan.todo)
      BY <1>11, JanHead
    <2>2. x.id \in Ids /\ x.id \notin Free /\ x.job \in sent
      BY <1>2, <2>1 DEF Faithful
    <2>3. Head(v.todo) = x
      OBVIOUS
    <2> HIDE DEF x
    <2>4. CASE dropped' = dropped \cup {x.job} /\ UNCHANGED <<log, ent>>
      <3>1. Kept
        BY <1>6, <1>8, <1>11, <2>4
      <3>2. Settled(x.job)'
        BY <2>4 DEF Settled
      <3> HIDE DEF Kept
      <3> QED BY <1>4, <1>5, <1>11, <2>3, <3>1, <3>2
    <2>5. ASSUME NEW i \in Ids, Adds(i, x.job)
          PROVE  Custody'
      <3>1. sent' = sent \cup {x.job}
        BY <1>11, <2>2
      <3>2. Kept /\ \A k \in Ids \ {i} : Elsewhere(k, x.job)'
        BY <1>7, <2>5, <3>1
      <3>3. x.id # i
        BY <2>2, <2>5 DEF Adds
      <3> HIDE DEF Kept
      <3> QED BY <1>4, <1>5, <1>11, <2>2, <2>3, <3>2, <3>3
    <2> QED BY <1>11, <2>3, <2>4, <2>5
  <1>12. CASE /\ jan.pc \in {"xack", "xdel"} /\ UNCHANGED <<sent, dropped>>
              /\ Loses({Head(jan.todo).id}) /\ Elems(v.todo) \subseteq Elems(jan.todo)
              /\ v.pc \in {"xack", "xdel"} => v.todo = jan.todo
    <2>1. PICK x \in Elems(jan.todo) : x = Head(jan.todo)
      BY <1>12, JanHead DEF StreamTypeOK
    <2>2. x.id \in Ids /\ Faithful(x)
      BY <1>2
    <2>3. Settled(x.job) \/ Elsewhere(x.id, x.job)
      BY <1>12, <2>1 DEF Custody, JanAcks
    <2>4. Loses({x.id}) /\ (v.pc \in {"xack", "xdel"} => Head(v.todo) = x)
      BY <1>12, <2>1
    <2>5. Live(x.id) => Settled(ent[x.id].job) \/ Elsewhere(x.id, ent[x.id].job)
      BY <2>2, <2>3 DEF Faithful, Live
    <2>6. /\ \A i \in Ids : ent'[i].body => ent'[i].job \in sent'
          /\ \A y \in Items : Faithful(y) => Faithful(y)'
          /\ NoJobLost'
          /\ \A j : Elsewhere(x.id, j) => Elsewhere(x.id, j)'
      BY <1>3, <1>12, <2>2, <2>4, <2>5, LosesKeeps
    <2>7. Settled(x.job)' \/ Elsewhere(x.id, x.job)'
      BY <1>3, <2>3, <2>6 DEF Settled, Grows
    <2>8. Kept
      BY <2>6
    <2> HIDE DEF Kept
    <2> QED BY <1>4, <1>5, <1>12, <2>4, <2>7, <2>8
  <1>13. CASE v.pc \in {"tail", "pel", "sweep"} /\ v.todo = jan.todo /\ UNCHANGED <<log, ent, sent>>
    <2>1. Kept
      BY <1>6, <1>8, <1>13
    <2> HIDE DEF Kept
    <2> QED BY <1>4, <1>5, <1>13, <2>1
  <1>14. CASE /\ v.pc = "sweep" /\ v.todo = jan.todo
              /\ \E j \in Jobs : sent' = sent \cup {j} /\ \E i \in Ids : Adds(i, j)
    <2>1. Kept
      BY <1>7, <1>14
    <2> HIDE DEF Kept
    <2> QED BY <1>4, <1>5, <1>14, <2>1
  <1> HIDE DEF Loses, Adds, Idle, Kept
  <1> QED BY <1>1, <1>9, <1>10, <1>11, <1>12, <1>13, <1>14

\* No step takes the last entry of a job out of custody.
LEMMA CustodyNext ==
  ASSUME StreamTypeOK, Custody, [Next]_vars
  PROVE  Custody'
  <1>1. ASSUME NEW j \in Jobs, Record(j)
        PROVE  Custody'
    <2>1. UNCHANGED <<sent, log, ent, work, jan, done, dropped>>
      BY <1>1 DEF Record
    <2> QED BY <2>1 DEF Custody, WorkFaithful, JanFaithful, WorkAcks, JanAcks, NoJobLost, Faithful,
                        Settled, Elsewhere, Live, LiveJobs, Listed
  <1>2. ASSUME NEW j \in Jobs, XAddJob(j)
        PROVE  Custody'
    <2>1. Put(j) /\ sent' = sent \cup {j} /\ UNCHANGED <<work, jan, done, dropped>>
      BY <1>2 DEF XAddJob
    <2>2. PICK a \in Ids : Adds(a, j)
      BY <2>1, PutAdds
    <2>3. a \in Free
      BY <2>2 DEF Adds
    <2>4. Grows
      BY <2>1 DEF Grows
    <2>5. /\ \A i \in Ids : ent'[i].body => ent'[i].job \in sent'
          /\ \A x \in Items : x.id # a /\ Faithful(x) => Faithful(x)'
          /\ NoJobLost'
          /\ \A i, k : Settled(k) \/ Elsewhere(i, k) => Settled(k)' \/ Elsewhere(i, k)'
      BY <2>1, <2>2, <2>4, AddsKeeps
    <2>6. WorkFaithful' /\ JanFaithful'
      BY <2>1, <2>3, <2>5, Remembered DEF WorkFaithful, JanFaithful, Custody
    <2>7. WorkAcks' /\ JanAcks'
      BY <2>1, <2>5 DEF WorkAcks, JanAcks, Custody
    <2> QED BY <2>5, <2>6, <2>7 DEF Custody
  <1>3. ASSUME NEW w \in Workers, WorkStep(w) \/ HandlerFails(w) \/ WorkerDies(w)
        PROVE  Custody'
    BY <1>3, CustodyWork
  <1>4. CASE JanStep \/ JanitorDies
    BY <1>4, CustodyJan
  <1>5. CASE UNCHANGED vars
    <2>1. UNCHANGED <<sent, log, ent, work, jan, done, dropped>>
      BY <1>5 DEF vars
    <2> QED BY <2>1 DEF Custody, WorkFaithful, JanFaithful, WorkAcks, JanAcks, NoJobLost, Faithful,
                        Settled, Elsewhere, Live, LiveJobs, Listed
  <1> QED BY <1>1, <1>2, <1>3, <1>4, <1>5 DEF Next

\* Custody is an invariant.
LEMMA CustodyAlways == Spec => []Custody
  <1>1. StreamTypeOK /\ Custody /\ [Next]_vars => Custody'
    BY CustodyNext
  <1> QED BY <1>1, CustodyInit, StreamTypes, PTL DEF Spec

\* No job is lost: whatever dies, is refused or claimed early, a job that was sent is finished,
\* given up, or has an entry that a consumer or the janitor will still meet.
THEOREM NothingIsLost == Spec => []NoJobLost
  <1>1. Custody => NoJobLost
    BY DEF Custody
  <1> QED BY <1>1, CustodyAlways, PTL
-----------------------------------------------------------------------------
\* The stream implements at-least-once dispatch: every step is one of the queue, or none.

\* A job that stops being live had its entry lost.
LEMMA LiveJobsLoses ==
  ASSUME StreamTypeOK, NEW X, Loses(X)
  PROVE  /\ LiveJobs' \subseteq LiveJobs
         /\ \A j \in LiveJobs \ LiveJobs' : \E h \in X : h \in Ids /\ Live(h) /\ ent[h].job = j
  <1>1. \A i \in Ids :
          /\ ent'[i].body => ent[i].body /\ ent'[i].job = ent[i].job
          /\ Live(i)' => Live(i)
          /\ Live(i) /\ i \notin X => Live(i)'
    BY DEF Loses
  <1>2. \A i \in Ids : Live(i)' => ent'[i].job = ent[i].job
    BY <1>1 DEF Live
  <1>3. LiveJobs' \subseteq LiveJobs
    BY <1>1, <1>2 DEF LiveJobs
  <1>4. ASSUME NEW j \in LiveJobs \ LiveJobs'
        PROVE  \E h \in X : h \in Ids /\ Live(h) /\ ent[h].job = j
    <2>1. PICK i \in Ids : Live(i) /\ ent[i].job = j
      BY DEF LiveJobs
    <2>2. i \in X
      BY <1>1, <1>2, <1>4, <2>1 DEF LiveJobs
    <2> QED BY <2>1, <2>2
  <1> QED BY <1>3, <1>4

\* XADD makes its job live.
LEMMA LiveJobsAdds ==
  ASSUME StreamTypeOK, NEW a \in Ids, NEW j, Adds(a, j)
  PROVE  LiveJobs' = LiveJobs \cup {j}
  <1>1. /\ Live(a)' /\ ~Live(a) /\ ent'[a].job = j
        /\ \A k \in Ids \ {a} : ent'[k] = ent[k] /\ (Live(k)' <=> Live(k))
    BY DEF Adds
  <1>2. LiveJobs' \subseteq LiveJobs \cup {j}
    BY <1>1 DEF LiveJobs
  <1>3. LiveJobs \cup {j} \subseteq LiveJobs'
    BY <1>1 DEF LiveJobs
  <1> QED BY <1>2, <1>3

Still == UNCHANGED <<sent, LiveJobs, done \cup dropped>>

\* The step that takes an entry of a settled job away forgets it, or leaves another entry.
LEMMA ForgetStep ==
  ASSUME StreamTypeOK, NEW h \in Ids, Loses({h}), UNCHANGED <<sent, done, dropped>>,
         Live(h) => Settled(ent[h].job) \/ Elsewhere(h, ent[h].job)
  PROVE  Still \/ \E j \in Jobs : Queue!Forget(j)
  <1>1. /\ LiveJobs' \subseteq LiveJobs
        /\ \A j \in LiveJobs \ LiveJobs' : Live(h) /\ ent[h].job = j
    BY LiveJobsLoses
  <1>2. CASE LiveJobs' = LiveJobs
    BY <1>2 DEF Still
  <1>3. ASSUME NEW j \in LiveJobs \ LiveJobs'
        PROVE  Queue!Forget(j) /\ j \in Jobs
    <2>1. Live(h) /\ ent[h].job = j
      BY <1>1
    <2>2. LiveJobs' = LiveJobs \ {j}
      BY <1>1, <1>3
    <2>3. ~Elsewhere(h, j)
      <3> SUFFICES ASSUME Elsewhere(h, j) PROVE FALSE
        OBVIOUS
      <3>1. PICK k \in Ids \ {h} : Live(k) /\ ent[k].job = j
        BY DEF Elsewhere
      <3>2. Live(k)' /\ (ent'[k].body => ent'[k].job = j)
        BY <3>1 DEF Loses
      <3>3. j \in LiveJobs'
        BY <3>2 DEF LiveJobs, Live
      <3> QED BY <1>3, <3>3
    <2>4. Settled(j)
      BY <2>1, <2>3
    <2>5. j \in Jobs
      BY BodyJobs
    <2> QED BY <2>2, <2>4, <2>5 DEF Queue!Forget, Settled
  <1> QED BY <1>1, <1>2, <1>3

\* A run of the handler, or a quarantine, finishes the job.
LEMMA FinishStep ==
  ASSUME StreamTypeOK, Custody, NEW j \in Jobs, j \in sent, UNCHANGED <<sent, log, ent>>,
         done' \cup dropped' = done \cup dropped \cup {j}
  PROVE  Still \/ Queue!Finish(j)
  <1>1. LiveJobs' = LiveJobs
    BY DEF LiveJobs, Live, Listed
  <1>2. CASE j \in LiveJobs
    BY <1>1, <1>2 DEF Queue!Finish
  <1>3. CASE j \notin LiveJobs
    BY <1>1, <1>3 DEF Still, Custody, NoJobLost
  <1> QED BY <1>2, <1>3

\* An XADD sends the job, again if it was sent before.
LEMMA SendStep ==
  ASSUME StreamTypeOK, NEW a \in Ids, NEW j, Adds(a, j), sent' = sent \cup {j},
         UNCHANGED <<done, dropped>>
  PROVE  Queue!Send(j)
  BY LiveJobsAdds DEF Queue!Send

\* A step that leaves the stream and the results alone is a stutter of the queue.
LEMMA StillStep ==
  ASSUME UNCHANGED <<sent, log, ent, done, dropped>>
  PROVE  Still
  BY DEF Still, LiveJobs, Live, Listed

\* A step that keeps every live entry.
LEMMA KeepStep ==
  ASSUME StreamTypeOK, \A X : Loses(X), UNCHANGED <<sent, done, dropped>>
  PROVE  Still
  <1>1. Loses({})
    OBVIOUS
  <1>2. LiveJobs' = LiveJobs
    BY <1>1, LiveJobsLoses
  <1> QED BY <1>2 DEF Still

\* Every step is a step of the queue, or a stutter.
LEMMA QueueNext ==
  ASSUME StreamTypeOK, Custody, [Next]_vars
  PROVE  Still \/ Queue!Next
  <1>1. ASSUME NEW j \in Jobs, Record(j)
        PROVE  Still
    BY <1>1, StillStep DEF Record
  <1>2. ASSUME NEW j \in Jobs, XAddJob(j)
        PROVE  Queue!Send(j)
    <2>1. \E a \in Ids : Adds(a, j)
      BY <1>2, PutAdds DEF XAddJob
    <2> QED BY <1>2, <2>1, SendStep DEF XAddJob
  <1>3. ASSUME NEW w \in Workers, WorkStep(w) \/ HandlerFails(w) \/ WorkerDies(w)
        PROVE  Still \/ Queue!Next
    <2> DEFINE x == Head(work[w].todo)
    <2>1. /\ sent' = sent /\ dropped' = dropped
          /\ \/ (\A X : Loses(X)) /\ done' = done
             \/ work[w].pc = "run" /\ done' = done \cup {x.job} /\ UNCHANGED <<log, ent>>
             \/ done' = done /\ UNCHANGED <<log, ent>>
             \/ work[w].pc \in {"xack", "xdel"} /\ done' = done /\ Loses({x.id})
      <3>1. \E v \in WorkSet :
           /\ sent' = sent /\ dropped' = dropped
           /\ \/ (\A X : Loses(X)) /\ done' = done
              \/ /\ work[w].pc = "run" /\ v.todo = work[w].todo
                 /\ done' = done \cup {Head(v.todo).job}
                 /\ UNCHANGED <<log, ent>>
              \/ done' = done /\ UNCHANGED <<log, ent>>
              \/ work[w].pc = "xack" /\ done' = done /\ Loses({Head(work[w].todo).id})
              \/ work[w].pc = "xdel" /\ done' = done /\ Loses({Head(work[w].todo).id})
        <4> HIDE DEF Loses
        <4> QED BY <1>3, WorkMoves
      <3> HIDE DEF Loses
      <3> QED BY <3>1
    <2>2. CASE (\A X : Loses(X)) /\ done' = done
      BY <2>1, <2>2, KeepStep
    <2>3. CASE work[w].pc = "run" /\ done' = done \cup {x.job} /\ UNCHANGED <<log, ent>>
      <3>1. x.job \in Jobs /\ x \in Elems(work[w].todo)
        BY <2>3, WorkHead
      <3>2. x.job \in sent
        BY <3>1 DEF Custody, WorkFaithful, Faithful
      <3>3. Still \/ Queue!Finish(x.job)
        BY <2>1, <2>3, <3>1, <3>2, FinishStep
      <3> QED BY <3>1, <3>3 DEF Queue!Next
    <2>4. CASE done' = done /\ UNCHANGED <<log, ent>>
      BY <2>1, <2>4, StillStep
    <2>5. CASE work[w].pc \in {"xack", "xdel"} /\ done' = done /\ Loses({x.id})
      <3>1. x.id \in Ids /\ x \in Elems(work[w].todo)
        BY <2>5, WorkHead
      <3>2. x.job \in done /\ (ent[x.id].body => ent[x.id].job = x.job)
        BY <2>5, <3>1 DEF Custody, WorkFaithful, WorkAcks, Faithful
      <3>3. Live(x.id) => Settled(ent[x.id].job)
        BY <3>2 DEF Live, Settled
      <3> HIDE DEF x
      <3>4. Still \/ \E j \in Jobs : Queue!Forget(j)
        BY <2>1, <2>5, <3>1, <3>3, ForgetStep
      <3> QED BY <3>4 DEF Queue!Next
    <2> HIDE DEF x
    <2> QED BY <2>1, <2>2, <2>3, <2>4, <2>5
  <1>4. CASE JanStep \/ JanitorDies
    <2> DEFINE x == Head(jan.todo)
    <2>1. /\ done' = done
          /\ \/ UNCHANGED <<log, ent, sent, dropped>>
             \/ UNCHANGED <<sent, dropped>> /\ \A X : Loses(X)
             \/ /\ jan.todo # <<>> /\ UNCHANGED sent
                /\ \/ dropped' = dropped \cup {x.job} /\ UNCHANGED <<log, ent>>
                   \/ dropped' = dropped /\ \E i \in Ids : Adds(i, x.job)
             \/ jan.pc \in {"xack", "xdel"} /\ Loses({x.id}) /\ UNCHANGED <<sent, dropped>>
             \/ /\ UNCHANGED dropped
                /\ \E j \in Jobs : sent' = sent \cup {j} /\ \E i \in Ids : Adds(i, j)
      <3>1. \E v \in JanSet :
              /\ done' = done
              /\ \/ UNCHANGED <<log, ent, sent, dropped>>
                 \/ UNCHANGED <<sent, dropped>> /\ \A X : Loses(X)
                 \/ /\ v.todo = jan.todo /\ jan.todo # <<>> /\ UNCHANGED sent
                    /\ \/ dropped' = dropped \cup {Head(v.todo).job} /\ UNCHANGED <<log, ent>>
                       \/ dropped' = dropped /\ \E i \in Ids : Adds(i, Head(v.todo).job)
                 \/ jan.pc = "xack" /\ Loses({Head(jan.todo).id}) /\ UNCHANGED <<sent, dropped>>
                 \/ jan.pc = "xdel" /\ Loses({Head(jan.todo).id}) /\ UNCHANGED <<sent, dropped>>
                 \/ /\ UNCHANGED dropped
                    /\ \E j \in Jobs : sent' = sent \cup {j} /\ \E i \in Ids : Adds(i, j)
        <4> HIDE DEF Loses, Adds
        <4> QED BY <1>4, JanMoves
      <3> HIDE DEF Loses, Adds
      <3> QED BY <3>1
    <2>2. jan.pc \in {"xack", "xdel"} => jan.todo # <<>>
      BY DEF StreamTypeOK
    <2>3. jan.todo # <<>> => /\ x.job \in Jobs /\ x.id \in Ids /\ x.job \in sent
                             /\ ent[x.id].body => ent[x.id].job = x.job
      BY JanHead DEF Custody, JanFaithful, Faithful
    <2>4. jan.pc \in {"xack", "xdel"} => Settled(x.job) \/ Elsewhere(x.id, x.job)
      BY DEF Custody, JanAcks
    <2> HIDE DEF x
    <2>5. CASE UNCHANGED <<log, ent, sent, dropped>>
      BY <2>1, <2>5, StillStep
    <2>6. CASE UNCHANGED <<sent, dropped>> /\ \A X : Loses(X)
      BY <2>1, <2>6, KeepStep
    <2>7. CASE jan.todo # <<>> /\ UNCHANGED sent /\ dropped' = dropped \cup {x.job}
               /\ UNCHANGED <<log, ent>>
      <3>1. done' \cup dropped' = done \cup dropped \cup {x.job}
        BY <2>1, <2>7
      <3>2. Still \/ Queue!Finish(x.job)
        BY <2>3, <2>7, <3>1, FinishStep
      <3> QED BY <2>3, <2>7, <3>2 DEF Queue!Next
    <2>8. CASE jan.todo # <<>> /\ UNCHANGED sent /\ dropped' = dropped /\ \E i \in Ids : Adds(i, x.job)
      <3>1. sent' = sent \cup {x.job}
        BY <2>3, <2>8
      <3>2. Queue!Send(x.job)
        BY <2>1, <2>8, <3>1, SendStep
      <3> QED BY <2>3, <2>8, <3>2 DEF Queue!Next
    <2>9. CASE jan.pc \in {"xack", "xdel"} /\ Loses({x.id}) /\ UNCHANGED <<sent, dropped>>
      <3>1. Live(x.id) => Settled(ent[x.id].job) \/ Elsewhere(x.id, ent[x.id].job)
        BY <2>2, <2>3, <2>4, <2>9 DEF Live
      <3>2. Still \/ \E j \in Jobs : Queue!Forget(j)
        BY <2>1, <2>2, <2>3, <2>9, <3>1, ForgetStep
      <3> QED BY <3>2 DEF Queue!Next
    <2>10. CASE UNCHANGED dropped /\ \E j \in Jobs : sent' = sent \cup {j} /\ \E i \in Ids : Adds(i, j)
      <3>1. PICK j \in Jobs : sent' = sent \cup {j} /\ \E i \in Ids : Adds(i, j)
        BY <2>10
      <3>2. Queue!Send(j)
        BY <2>1, <2>10, <3>1, SendStep
      <3> QED BY <3>2 DEF Queue!Next
    <2> HIDE DEF Loses, Adds
    <2> QED BY <2>1, <2>5, <2>6, <2>7, <2>8, <2>9, <2>10
  <1>5. CASE UNCHANGED vars
    BY <1>5, StillStep DEF vars
  <1> QED BY <1>1, <1>2, <1>3, <1>4, <1>5 DEF Next, Queue!Next

\* The stream with its consumers and its janitor implements JobQueue: a sent job stays open
\* until it is finished, and may be handed out and finished again.
THEOREM StreamIsQueue == Spec => AtLeastOnce
  <1>1. Init => Queue!Init
    <2> SUFFICES ASSUME Init PROVE Queue!Init
      OBVIOUS
    <2>1. \A i \in Ids : ~ent[i].body
      BY DEF Init, NoEntry
    <2> QED BY <2>1 DEF Init, Queue!Init, LiveJobs, Live
  <1>2. StreamTypeOK /\ Custody /\ [Next]_vars => [Queue!Next]_<<sent, LiveJobs, done \cup dropped>>
    BY QueueNext DEF Still
  <1> QED BY <1>1, <1>2, CustodyAlways, StreamTypes, PTL DEF Spec, AtLeastOnce, Queue!Spec

-----------------------------------------------------------------------------
\* The dedup scan misses nothing, while the PEL fits the page that is read.

\* What consumers take from under the scan, they finished.
LEMMA ScanWork ==
  ASSUME StreamTypeOK, Custody, ScanInv, NEW w \in Workers,
         WorkStep(w) \/ HandlerFails(w) \/ WorkerDies(w)
  PROVE  ScanInv'
  <1>1. PICK X : Loses(X) /\ \A h \in X \cap Ids : Live(h) => Settled(ent[h].job)
    BY WorkLoses
  <1>2. Grows /\ UNCHANGED <<jan, sent>>
    BY WorkLoses
  <1>3. \A j : Settled(j) => Settled(j)'
    BY <1>2 DEF Settled, Grows
  <1>4. jan.pc = "tail" => \A i \in jan.old : ~ent'[i].new
    <2>1. jan.old \subseteq Ids
      BY JanShape
    <2>2. \A i \in Ids : ent'[i].new => ent[i].new
      BY <1>1 DEF Loses
    <2> QED BY <2>1, <2>2 DEF ScanInv
  <1>5. ASSUME NEW i \in Ids, Live(i), ent[i].cnt > 0
        PROVE  Settled(ent[i].job) \/ (Live(i)' /\ ent'[i].cnt > 0 /\ ent'[i].job = ent[i].job)
    <2>1. CASE i \in X
      BY <1>1, <1>5, <2>1
    <2>2. CASE i \notin X
      <3>1. Live(i)' /\ ent'[i].cnt > 0 /\ (ent'[i].body => ent'[i].job = ent[i].job)
        BY <1>1, <1>5, <2>2 DEF Loses
      <3> QED BY <3>1 DEF Live
    <2> QED BY <2>1, <2>2
  <1>6. ASSUME jan.pc = "pel", NEW j \in jan.live
        PROVE  Settled(j)' \/ j \in jan.keys
               \/ \E i \in Ids : Live(i)' /\ ent'[i].cnt > 0 /\ ent'[i].job = j
    <2>1. Settled(j) \/ j \in jan.keys \/ \E i \in Ids : Live(i) /\ ent[i].cnt > 0 /\ ent[i].job = j
      BY <1>6 DEF ScanInv
    <2> QED BY <1>3, <1>5, <2>1
  <1>7. ScanComplete'
    BY <1>2 DEF ScanInv, ScanComplete, Grows
  <1> QED BY <1>2, <1>4, <1>6, <1>7 DEF ScanInv

\* A job that comes during the scan is a job more.
LEMMA ScanAdds ==
  ASSUME StreamTypeOK, ScanInv, Grows, NEW a \in Ids, NEW j, Adds(a, j),
         jan'.pc = jan.pc, jan'.live = jan.live, jan'.keys = jan.keys,
         jan'.old = jan.old \/ jan.pc = "sweep"
  PROVE  ScanInv'
  <1>1. /\ a \in Free /\ Live(a)' /\ ~Live(a)
        /\ \A k \in Ids \ {a} : ent'[k] = ent[k] /\ (Live(k)' <=> Live(k))
    BY DEF Adds
  <1>2. jan.old \subseteq Ids /\ a \notin jan.old
    BY <1>1, JanShape DEF Free
  <1>3. (jan.pc = "tail" => \A i \in jan.old : ~ent[i].new)'
    BY <1>1, <1>2 DEF ScanInv
  <1>4. ASSUME jan.pc = "pel", NEW k \in jan.live
        PROVE  Settled(k)' \/ k \in jan.keys
               \/ \E i \in Ids : Live(i)' /\ ent'[i].cnt > 0 /\ ent'[i].job = k
    <2>1. Settled(k) \/ k \in jan.keys \/ \E i \in Ids : Live(i) /\ ent[i].cnt > 0 /\ ent[i].job = k
      BY <1>4 DEF ScanInv
    <2>2. Settled(k) => Settled(k)'
      BY DEF Settled, Grows
    <2> QED BY <1>1, <2>1, <2>2
  <1>5. ScanComplete' /\ jan.live \subseteq sent'
    BY DEF ScanInv, ScanComplete, Grows
  <1> QED BY <1>3, <1>4, <1>5 DEF ScanInv

\* What the tail read leaves is in the PEL, and the page holds all of the PEL.
LEMMA ScanReads ==
  ASSUME StreamTypeOK, Custody, ScanInv, Len(Pel) <= ScanPage
  PROVE  /\ LiveJobs \subseteq sent
         /\ jan.pc = "tail" =>
              \A j \in jan.live : Settled(j) \/ j \in Scanned
                 \/ \E i \in Ids : Live(i) /\ ent[i].cnt > 0 /\ ent[i].job = j
         /\ jan.pc = "pel" => \A j \in jan.live : Settled(j) \/ j \in jan.keys \cup Paged
  <1>1. LiveJobs \subseteq sent
    BY DEF LiveJobs, Live, Custody
  <1>2. ASSUME jan.pc = "tail", NEW j \in jan.live
        PROVE  Settled(j) \/ j \in Scanned \/ \E i \in Ids : Live(i) /\ ent[i].cnt > 0 /\ ent[i].job = j
    <2>1. j \in LiveJobs \/ Settled(j)
      BY DEF ScanInv, Custody, NoJobLost, Settled
    <2>2. ASSUME NEW i \in Ids, Live(i), ent[i].job = j
          PROVE  j \in Scanned \/ ent[i].cnt > 0
      <3>1. i \in Listed /\ ent[i].body /\ (ent[i].new \/ ent[i].cnt > 0)
        BY <2>2 DEF Live
      <3>2. i \in jan.old => ~ent[i].new
        BY <1>2 DEF ScanInv
      <3>3. i \notin jan.old => j \in Scanned
        BY <2>2, <3>1 DEF Scanned
      <3> QED BY <3>1, <3>2, <3>3
    <2> QED BY <2>1, <2>2 DEF LiveJobs
  <1>3. ASSUME jan.pc = "pel", NEW i \in Ids, Live(i), ent[i].cnt > 0
        PROVE  ent[i].job \in Paged
    <2>1. i \in Elems(Pel) /\ Page = Pel /\ ent[i].body
      BY <1>3, PelElems DEF Live
    <2>2. PICK k \in DOMAIN Page : Page[k] = i
      BY <2>1 DEF Elems
    <2> QED BY <2>1, <2>2 DEF Paged
  <1>4. ASSUME jan.pc = "pel", NEW j \in jan.live
        PROVE  Settled(j) \/ j \in jan.keys \cup Paged
    <2>1. Settled(j) \/ j \in jan.keys \/ \E i \in Ids : Live(i) /\ ent[i].cnt > 0 /\ ent[i].job = j
      BY <1>4 DEF ScanInv
    <2> QED BY <1>3, <1>4, <2>1
  <1> QED BY <1>1, <1>2, <1>4

\* The three calls of the scan together read every live entry.
LEMMA ScanJan ==
  ASSUME StreamTypeOK, Custody, ScanInv, Len(Pel) <= ScanPage, JanStep \/ JanitorDies
  PROVE  ScanInv'
  <1>1. \E v \in JanSet :
          /\ jan' = v /\ done' = done
          /\ \/ Idle(v) /\ UNCHANGED sent
             \/ v.pc \in {"decide", "xack", "xdel"} /\ v.live = jan.live /\ UNCHANGED sent
             \/ /\ UNCHANGED <<log, ent, sent, dropped>>
                /\ \/ v.pc = "tail" /\ v.live = LiveJobs /\ v.old = {i \in Listed : ~ent[i].new}
                   \/ jan.pc = "tail" /\ v.pc = "pel" /\ v.live = jan.live /\ v.keys = Scanned
                   \/ /\ jan.pc = "pel" /\ v.pc = "sweep" /\ v.live = jan.live
                      /\ v.keys = jan.keys \cup Paged
             \/ /\ jan.pc = "sweep" /\ v.pc = "sweep" /\ v.live = jan.live
                /\ v.keys = jan.keys /\ UNCHANGED dropped
                /\ \E j \in Jobs : sent' = sent \cup {j} /\ \E i \in Ids : Adds(i, j)
    <2> HIDE DEF Loses, Adds, Idle, Scanned, Paged
    <2> QED BY JanMoves
  <1>2. /\ \/ jan'.pc \in {"docs", "claim", "info"} /\ jan'.live \in {jan.live, {}} /\ UNCHANGED sent
           \/ jan'.pc \in {"decide", "xack", "xdel"} /\ jan'.live = jan.live /\ UNCHANGED sent
           \/ /\ UNCHANGED <<log, ent, sent, dropped, done>>
              /\ \/ jan'.pc = "tail" /\ jan'.live = LiveJobs /\ jan'.old = {i \in Listed : ~ent[i].new}
                 \/ jan.pc = "tail" /\ jan'.pc = "pel" /\ jan'.live = jan.live /\ jan'.keys = Scanned
                 \/ /\ jan.pc = "pel" /\ jan'.pc = "sweep" /\ jan'.live = jan.live
                    /\ jan'.keys = jan.keys \cup Paged
           \/ /\ jan.pc = "sweep" /\ jan'.pc = "sweep" /\ jan'.live = jan.live
              /\ jan'.keys = jan.keys /\ UNCHANGED <<done, dropped>>
              /\ \E j \in Jobs : sent' = sent \cup {j} /\ \E i \in Ids : Adds(i, j)
    <2> HIDE DEF Adds, Scanned, Paged
    <2> QED BY <1>1 DEF Idle
  <1>3. jan.live \subseteq sent
    BY DEF ScanInv
  <1>4. CASE jan'.pc \notin {"tail", "pel", "sweep"} /\ jan'.live \in {jan.live, {}} /\ UNCHANGED sent
    BY <1>3, <1>4 DEF ScanInv, ScanComplete
  <1>5. CASE UNCHANGED <<log, ent, sent, dropped, done>>
             /\ jan'.pc = "tail" /\ jan'.live = LiveJobs /\ jan'.old = {i \in Listed : ~ent[i].new}
    BY <1>5, ScanReads DEF ScanInv, ScanComplete
  <1>6. CASE UNCHANGED <<log, ent, sent, dropped, done>>
             /\ jan.pc = "tail" /\ jan'.pc = "pel" /\ jan'.live = jan.live /\ jan'.keys = Scanned
    <2>1. \A i : Live(i)' = Live(i)
      BY <1>6 DEF Live, Listed
    <2>2. \A j : Settled(j)' = Settled(j)
      BY <1>6 DEF Settled
    <2>3. \A j \in jan.live : Settled(j) \/ j \in Scanned
                 \/ \E i \in Ids : Live(i) /\ ent[i].cnt > 0 /\ ent[i].job = j
      BY <1>6, ScanReads
    <2> QED BY <1>3, <1>6, <2>1, <2>2, <2>3 DEF ScanInv, ScanComplete
  <1>7. CASE UNCHANGED <<log, ent, sent, dropped, done>>
             /\ jan.pc = "pel" /\ jan'.pc = "sweep" /\ jan'.live = jan.live
             /\ jan'.keys = jan.keys \cup Paged
    <2>1. \A j \in jan.live : j \in done \cup dropped \/ j \in jan.keys \cup Paged
      BY <1>7, ScanReads DEF Settled
    <2> QED BY <1>3, <1>7, <2>1 DEF ScanInv, ScanComplete
  <1>8. CASE /\ jan.pc = "sweep" /\ jan'.pc = "sweep" /\ jan'.live = jan.live
             /\ jan'.keys = jan.keys /\ UNCHANGED <<done, dropped>>
             /\ \E j \in Jobs : sent' = sent \cup {j} /\ \E i \in Ids : Adds(i, j)
    <2>1. Grows
      BY <1>8 DEF Grows
    <2> QED BY <1>8, <2>1, ScanAdds
  <1> HIDE DEF Adds, Scanned, Paged
  <1> QED BY <1>2, <1>4, <1>5, <1>6, <1>7, <1>8

\* No step makes the scan miss a job.
LEMMA ScanNext ==
  ASSUME StreamTypeOK, Custody, ScanInv, Len(Pel) <= ScanPage, [Next]_vars
  PROVE  ScanInv'
  <1>1. ASSUME NEW j \in Jobs, Record(j)
        PROVE  ScanInv'
    BY <1>1 DEF Record, ScanInv, ScanComplete, Settled, Live, Listed
  <1>2. ASSUME NEW j \in Jobs, XAddJob(j)
        PROVE  ScanInv'
    <2>1. PICK a \in Ids : Adds(a, j)
      BY <1>2, PutAdds DEF XAddJob
    <2>2. Grows /\ jan' = jan
      BY <1>2 DEF XAddJob, Grows
    <2> QED BY <2>1, <2>2, ScanAdds
  <1>3. ASSUME NEW w \in Workers, WorkStep(w) \/ HandlerFails(w) \/ WorkerDies(w)
        PROVE  ScanInv'
    BY <1>3, ScanWork
  <1>4. CASE JanStep \/ JanitorDies
    BY <1>4, ScanJan
  <1>5. CASE UNCHANGED vars
    BY <1>5 DEF vars, ScanInv, ScanComplete, Settled, Live, Listed
  <1> QED BY <1>1, <1>2, <1>3, <1>4, <1>5 DEF Next

\* PendingJobKeys misses no job that was on the stream when it began, although consumers read
\* and ack between its three calls, as long as the PEL fits the one page it reads.
THEOREM ScanMissesNothing == Spec /\ [](Len(Pel) <= ScanPage) => []ScanComplete
  <1>1. Init => ScanInv
    BY DEF Init, IdleJan, ScanInv, ScanComplete
  <1>2. StreamTypeOK /\ Custody /\ Len(Pel) <= ScanPage /\ ScanInv /\ [Next]_vars => ScanInv'
    BY ScanNext
  <1>3. ScanInv => ScanComplete
    BY DEF ScanInv
  <1> QED BY <1>1, <1>2, <1>3, StreamTypes, CustodyAlways, PTL DEF Spec

=============================================================================

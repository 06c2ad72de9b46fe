--------------------------- MODULE RegistryProofs ---------------------------
(***************************************************************************)
(* What the constraints of the tables and the advisory lock guarantee, for *)
(* any number of requests and booting processes, any models, collections   *)
(* and dimensions.                                                          *)
(***************************************************************************)
EXTENDS Registry, TLAPS

\* A model row, which no absent row is.
IsModel(m) == m = [name |-> m.name, provider |-> m.provider, key |-> m.key, dim |-> m.dim]

IsRq(x) ==
  /\ x = [pc |-> x.pc, op |-> x.op, kind |-> x.kind, id |-> x.id, col |-> x.col,
          body |-> x.body, row |-> x.row, tries |-> x.tries]
  /\ x.kind \in Kinds

RqShape == rq = [r \in RgReqs |-> rq[r]] /\ \A r \in RgReqs : IsRq(rq[r])

\* The other requests.
OthersStay(r) == \A q \in RgReqs : q # r => rq'[q] = rq[q]

\* A model row is no absent row.
LEMMA ModelIsModel == \A m : IsModel(m) => m # NoModel
  <1> SUFFICES ASSUME NEW m, IsModel(m), m = NoModel PROVE FALSE
    OBVIOUS
  <1>1. DOMAIN [name |-> m.name, provider |-> m.provider, key |-> m.key, dim |-> m.dim] = DOMAIN [name |-> "none"]
    BY DEF IsModel, NoModel
  <1> QED BY <1>1

\* The row of an update has the fields of the body and of the stored row.
LEMMA MergeIsModel ==
  ASSUME NEW b, IsModel(b), NEW n, NEW p, NEW d
  PROVE  LET m == [b EXCEPT !.name = n, !.provider = p, !.dim = d] IN IsModel(m) /\ m.dim = d
  <1> DEFINE m == [b EXCEPT !.name = n, !.provider = p, !.dim = d]
             y == [b EXCEPT !.name = n]
             z == [y EXCEPT !.provider = p]
  <1>1. y = [name |-> n, provider |-> b.provider, key |-> b.key, dim |-> b.dim]
    BY DEF IsModel
  <1>2. m = [z EXCEPT !.dim = d]
    BY ZenonT(20)
  <1> HIDE DEF y
  <1>3. z = [name |-> n, provider |-> p, key |-> b.key, dim |-> b.dim]
    BY <1>1
  <1> HIDE DEF z
  <1>4. m = [name |-> n, provider |-> p, key |-> b.key, dim |-> d]
    BY <1>2, <1>3
  <1> HIDE DEF m
  <1>5. IsModel(m) /\ m.dim = d
    BY <1>4 DEF IsModel
  <1> QED BY <1>5 DEF m

\* Setting the key of a model leaves its dimension.
LEMMA KeyIsModel ==
  ASSUME NEW b, IsModel(b), NEW k
  PROVE  IsModel([b EXCEPT !.key = k]) /\ [b EXCEPT !.key = k].dim = b.dim
  <1> DEFINE m == [b EXCEPT !.key = k]
  <1>1. m = [name |-> b.name, provider |-> b.provider, key |-> k, dim |-> b.dim]
    BY DEF IsModel
  <1> HIDE DEF m
  <1>2. IsModel(m) /\ m.dim = b.dim
    BY <1>1 DEF IsModel
  <1> QED BY <1>2 DEF m

\* A request that is not begun is well formed.
LEMMA IdleShape == IsRq(RgIdle)
  BY DEF IsRq, RgIdle, Kinds

\* A request goes on.
LEMMA StepMoves ==
  ASSUME RqShape, NEW r \in RgReqs, NEW pc, Step(r, pc)
  PROVE  /\ RqShape' /\ OthersStay(r)
         /\ rq'[r].pc = pc /\ rq'[r].op = rq[r].op /\ rq'[r].kind = rq[r].kind
         /\ rq'[r].body = rq[r].body /\ rq'[r].row = rq[r].row
  <1> DEFINE x == rq[r]
             w == [x EXCEPT !.pc = pc]
  <1>1. IsRq(x) /\ rq' = [rq EXCEPT ![r] = w] /\ rq = [q \in RgReqs |-> rq[q]]
    BY DEF RqShape, Step
  <1>2. w = [pc |-> pc, op |-> x.op, kind |-> x.kind, id |-> x.id, col |-> x.col,
             body |-> x.body, row |-> x.row, tries |-> x.tries]
    BY <1>1 DEF IsRq
  <1> HIDE DEF w
  <1>3. IsRq(w)
    BY <1>1, <1>2 DEF IsRq
  <1>4. RqShape' /\ OthersStay(r) /\ rq'[r] = w
    BY <1>1, <1>3 DEF RqShape, OthersStay
  <1> QED BY <1>2, <1>4

\* A request is answered, and its slot is free.
LEMMA AnswerMoves ==
  ASSUME RqShape, NEW r \in RgReqs, Answer(r)
  PROVE  RqShape' /\ OthersStay(r) /\ rq'[r].pc = "idle" /\ rq'[r].op = "none" /\ rq'[r].kind = "emb"
  <1>1. RqShape' /\ OthersStay(r) /\ rq'[r] = RgIdle
    BY IdleShape DEF Answer, RqShape, OthersStay
  <1> QED BY <1>1 DEF RgIdle

\* The write of an embedding row sends its request to the index of a dimension.
LEMMA WrittenMoves ==
  ASSUME RqShape, NEW r \in RgReqs, NEW d, Written(r, d), rq[r].kind = "emb"
  PROVE  /\ RqShape' /\ OthersStay(r)
         /\ rq'[r].pc = "lock" /\ rq'[r].op = rq[r].op /\ rq'[r].kind = "emb" /\ rq'[r].row.dim = d
  <1> DEFINE x == rq[r]
             w == [x EXCEPT !.pc = "lock", !.row = [dim |-> d], !.tries = 0]
  <1>1. IsRq(x) /\ rq = [q \in RgReqs |-> rq[q]]
    BY DEF RqShape
  <1>2. w = [pc |-> "lock", op |-> x.op, kind |-> x.kind, id |-> x.id, col |-> x.col,
           body |-> x.body, row |-> [dim |-> d], tries |-> 0]
  <2> DEFINE y1 == [x EXCEPT !.pc = "lock"]
             y2 == [y1 EXCEPT !.row = [dim |-> d]]
  <2>1. y1 = [pc |-> "lock", op |-> x.op, kind |-> x.kind, id |-> x.id, col |-> x.col,
             body |-> x.body, row |-> x.row, tries |-> x.tries]
    BY <1>1 DEF IsRq
  <2>2. w = [y2 EXCEPT !.tries = 0]
    BY ZenonT(20)
  <2> HIDE DEF y1
  <2>3. y2 = [pc |-> "lock", op |-> x.op, kind |-> x.kind, id |-> x.id, col |-> x.col,
             body |-> x.body, row |-> [dim |-> d], tries |-> x.tries]
    BY <2>1
  <2> HIDE DEF y2
  <2> QED BY <2>2, <2>3
  <1>3. rq' = [rq EXCEPT ![r] = w]
    BY <1>1 DEF Written
  <1> HIDE DEF w
  <1>4. IsRq(w)
    BY <1>1, <1>2 DEF IsRq, Kinds
  <1>5. RqShape' /\ OthersStay(r) /\ rq'[r] = w
    BY <1>1, <1>3, <1>4 DEF RqShape, OthersStay
  <1> QED BY <1>2, <1>5

\* Another attempt at the lock.
LEMMA LockAgain ==
  ASSUME RqShape, NEW r \in RgReqs,
         rq' = [rq EXCEPT ![r].pc = "lock", ![r].tries = @ + 1]
  PROVE  /\ RqShape' /\ OthersStay(r)
         /\ rq'[r].pc = "lock" /\ rq'[r].op = rq[r].op /\ rq'[r].row = rq[r].row
  <1> DEFINE x == rq[r]
             w == [x EXCEPT !.pc = "lock", !.tries = x.tries + 1]
  <1>1. IsRq(x) /\ rq = [q \in RgReqs |-> rq[q]]
    BY DEF RqShape
  <1>2. w = [pc |-> "lock", op |-> x.op, kind |-> x.kind, id |-> x.id, col |-> x.col,
           body |-> x.body, row |-> x.row, tries |-> x.tries + 1]
  <2> DEFINE y1 == [x EXCEPT !.pc = "lock"]
  <2>1. y1 = [pc |-> "lock", op |-> x.op, kind |-> x.kind, id |-> x.id, col |-> x.col,
             body |-> x.body, row |-> x.row, tries |-> x.tries]
    BY <1>1 DEF IsRq
  <2>2. w = [y1 EXCEPT !.tries = x.tries + 1]
    BY ZenonT(20)
  <2> HIDE DEF y1
  <2> QED BY <2>2, <2>1
  <1>3. rq' = [rq EXCEPT ![r] = w]
    BY <1>1 DEF x
  <1> HIDE DEF w
  <1>4. IsRq(w)
    BY <1>1, <1>2 DEF IsRq, Kinds
  <1>5. RqShape' /\ OthersStay(r) /\ rq'[r] = w
    BY <1>1, <1>3, <1>4 DEF RqShape, OthersStay
  <1> QED BY <1>2, <1>5

\* The row of an update is put together.
LEMMA MergeMoves ==
  ASSUME RqShape, NEW r \in RgReqs, NEW pc, NEW m,
         rq' = [rq EXCEPT ![r].pc = pc, ![r].row = m]
  PROVE  /\ RqShape' /\ OthersStay(r)
         /\ rq'[r].pc = pc /\ rq'[r].op = rq[r].op /\ rq'[r].row = m
  <1> DEFINE x == rq[r]
             w == [x EXCEPT !.pc = pc, !.row = m]
  <1>1. IsRq(x) /\ rq = [q \in RgReqs |-> rq[q]]
    BY DEF RqShape
  <1>2. w = [pc |-> pc, op |-> x.op, kind |-> x.kind, id |-> x.id, col |-> x.col,
           body |-> x.body, row |-> m, tries |-> x.tries]
  <2> DEFINE y1 == [x EXCEPT !.pc = pc]
  <2>1. y1 = [pc |-> pc, op |-> x.op, kind |-> x.kind, id |-> x.id, col |-> x.col,
             body |-> x.body, row |-> x.row, tries |-> x.tries]
    BY <1>1 DEF IsRq
  <2>2. w = [y1 EXCEPT !.row = m]
    BY ZenonT(20)
  <2> HIDE DEF y1
  <2> QED BY <2>2, <2>1
  <1>3. rq' = [rq EXCEPT ![r] = w]
    BY <1>1 DEF x
  <1> HIDE DEF w
  <1>4. IsRq(w)
    BY <1>1, <1>2 DEF IsRq, Kinds
  <1>5. RqShape' /\ OthersStay(r) /\ rq'[r] = w
    BY <1>1, <1>3, <1>4 DEF RqShape, OthersStay
  <1> QED BY <1>2, <1>5

\* The schema is there; the catalogues are next.
LEMMA SchemaMoves ==
  ASSUME RqShape, NEW r \in RgReqs, rq' = [rq EXCEPT ![r].pc = "look", ![r].op = "seed"]
  PROVE  RqShape' /\ OthersStay(r) /\ rq'[r].pc = "look" /\ rq'[r].op = "seed"
  <1> DEFINE x == rq[r]
             w == [x EXCEPT !.pc = "look", !.op = "seed"]
  <1>1. IsRq(x) /\ rq = [q \in RgReqs |-> rq[q]]
    BY DEF RqShape
  <1>2. w = [pc |-> "look", op |-> "seed", kind |-> x.kind, id |-> x.id, col |-> x.col,
           body |-> x.body, row |-> x.row, tries |-> x.tries]
  <2> DEFINE y1 == [x EXCEPT !.pc = "look"]
  <2>1. y1 = [pc |-> "look", op |-> x.op, kind |-> x.kind, id |-> x.id, col |-> x.col,
             body |-> x.body, row |-> x.row, tries |-> x.tries]
    BY <1>1 DEF IsRq
  <2>2. w = [y1 EXCEPT !.op = "seed"]
    BY ZenonT(20)
  <2> HIDE DEF y1
  <2> QED BY <2>2, <2>1
  <1>3. rq' = [rq EXCEPT ![r] = w]
    BY <1>1 DEF x
  <1> HIDE DEF w
  <1>4. IsRq(w)
    BY <1>1, <1>2 DEF IsRq, Kinds
  <1>5. RqShape' /\ OthersStay(r) /\ rq'[r] = w
    BY <1>1, <1>3, <1>4 DEF RqShape, OthersStay
  <1> QED BY <1>2, <1>5

\* A booting process goes on with the rerankers.
LEMMA RerankersNext ==
  ASSUME RqShape, NEW r \in RgReqs, rq' = [rq EXCEPT ![r].pc = "look", ![r].kind = "rr"]
  PROVE  RqShape' /\ OthersStay(r) /\ rq'[r].pc = "look" /\ rq'[r].op = rq[r].op
  <1> DEFINE x == rq[r]
             w == [x EXCEPT !.pc = "look", !.kind = "rr"]
  <1>1. IsRq(x) /\ rq = [q \in RgReqs |-> rq[q]]
    BY DEF RqShape
  <1>2. w = [pc |-> "look", op |-> x.op, kind |-> "rr", id |-> x.id, col |-> x.col,
           body |-> x.body, row |-> x.row, tries |-> x.tries]
  <2> DEFINE y1 == [x EXCEPT !.pc = "look"]
  <2>1. y1 = [pc |-> "look", op |-> x.op, kind |-> x.kind, id |-> x.id, col |-> x.col,
             body |-> x.body, row |-> x.row, tries |-> x.tries]
    BY <1>1 DEF IsRq
  <2>2. w = [y1 EXCEPT !.kind = "rr"]
    BY ZenonT(20)
  <2> HIDE DEF y1
  <2> QED BY <2>2, <2>1
  <1>3. rq' = [rq EXCEPT ![r] = w]
    BY <1>1 DEF x
  <1> HIDE DEF w
  <1>4. IsRq(w)
    BY <1>1, <1>2 DEF IsRq, Kinds
  <1>5. RqShape' /\ OthersStay(r) /\ rq'[r] = w
    BY <1>1, <1>3, <1>4 DEF RqShape, OthersStay
  <1> QED BY <1>2, <1>5

\* A model is created.
LEMMA CreateMoves ==
  ASSUME RqShape, NEW r \in RgReqs, NEW k \in Kinds, NEW b, CreateBegin(r, k, b)
  PROVE  RqShape' /\ OthersStay(r) /\ rq'[r].pc \in {"probe", "write"} /\ rq'[r].op = "create" /\ rq'[r].row = b
  <1> DEFINE w == [RgIdle EXCEPT !.pc = IF k = "emb" THEN "probe" ELSE "write",
                                 !.op = "create", !.kind = k, !.row = b]
  <1>1. rq' = [rq EXCEPT ![r] = w] /\ rq = [q \in RgReqs |-> rq[q]]
    BY DEF CreateBegin, RgBegin, RqShape
  <1>2. w = [pc |-> IF k = "emb" THEN "probe" ELSE "write", op |-> "create", kind |-> k, id |-> 0, col |-> 0,
           body |-> NoModel, row |-> b, tries |-> 0]
  <2> DEFINE y1 == [RgIdle EXCEPT !.pc = IF k = "emb" THEN "probe" ELSE "write"]
             y2 == [y1 EXCEPT !.op = "create"]
             y3 == [y2 EXCEPT !.kind = k]
  <2>1. y1 = [pc |-> IF k = "emb" THEN "probe" ELSE "write", op |-> "none", kind |-> "emb", id |-> 0, col |-> 0,
             body |-> NoModel, row |-> NoModel, tries |-> 0]
    BY DEF RgIdle
  <2>2. w = [y3 EXCEPT !.row = b]
    BY ZenonT(20)
  <2> HIDE DEF y1
  <2>3. y2 = [pc |-> IF k = "emb" THEN "probe" ELSE "write", op |-> "create", kind |-> "emb", id |-> 0, col |-> 0,
             body |-> NoModel, row |-> NoModel, tries |-> 0]
    BY <2>1
  <2> HIDE DEF y2
  <2>4. y3 = [pc |-> IF k = "emb" THEN "probe" ELSE "write", op |-> "create", kind |-> k, id |-> 0, col |-> 0,
             body |-> NoModel, row |-> NoModel, tries |-> 0]
    BY <2>3
  <2> HIDE DEF y3
  <2> QED BY <2>2, <2>4
  <1> HIDE DEF w
  <1>3. IsRq(w)
    BY <1>2 DEF IsRq, Kinds
  <1>4. RqShape' /\ OthersStay(r) /\ rq'[r] = w
    BY <1>1, <1>3 DEF RqShape, OthersStay
  <1> QED BY <1>2, <1>4

\* A model is updated.
LEMMA UpdateMoves ==
  ASSUME RqShape, NEW r \in RgReqs, NEW k \in Kinds, NEW i, NEW b, UpdateBegin(r, k, i, b)
  PROVE  RqShape' /\ OthersStay(r) /\ rq'[r].pc = "get" /\ rq'[r].op = "update" /\ rq'[r].body = b
  <1> DEFINE w == [RgIdle EXCEPT !.pc = "get", !.op = "update", !.kind = k, !.id = i, !.body = b]
  <1>1. rq' = [rq EXCEPT ![r] = w] /\ rq = [q \in RgReqs |-> rq[q]]
    BY DEF UpdateBegin, RgBegin, RqShape
  <1>2. w = [pc |-> "get", op |-> "update", kind |-> k, id |-> i, col |-> 0,
           body |-> b, row |-> NoModel, tries |-> 0]
  <2> DEFINE y1 == [RgIdle EXCEPT !.pc = "get"]
             y2 == [y1 EXCEPT !.op = "update"]
             y3 == [y2 EXCEPT !.kind = k]
             y4 == [y3 EXCEPT !.id = i]
  <2>1. y1 = [pc |-> "get", op |-> "none", kind |-> "emb", id |-> 0, col |-> 0,
             body |-> NoModel, row |-> NoModel, tries |-> 0]
    BY DEF RgIdle
  <2>2. w = [y4 EXCEPT !.body = b]
    BY ZenonT(20)
  <2> HIDE DEF y1
  <2>3. y2 = [pc |-> "get", op |-> "update", kind |-> "emb", id |-> 0, col |-> 0,
             body |-> NoModel, row |-> NoModel, tries |-> 0]
    BY <2>1
  <2> HIDE DEF y2
  <2>4. y3 = [pc |-> "get", op |-> "update", kind |-> k, id |-> 0, col |-> 0,
             body |-> NoModel, row |-> NoModel, tries |-> 0]
    BY <2>3
  <2> HIDE DEF y3
  <2>5. y4 = [pc |-> "get", op |-> "update", kind |-> k, id |-> i, col |-> 0,
             body |-> NoModel, row |-> NoModel, tries |-> 0]
    BY <2>4
  <2> HIDE DEF y4
  <2> QED BY <2>2, <2>5
  <1> HIDE DEF w
  <1>3. IsRq(w)
    BY <1>2 DEF IsRq, Kinds
  <1>4. RqShape' /\ OthersStay(r) /\ rq'[r] = w
    BY <1>1, <1>3 DEF RqShape, OthersStay
  <1> QED BY <1>2, <1>4

\* A model is deleted.
LEMMA DeleteMoves ==
  ASSUME RqShape, NEW r \in RgReqs, NEW k \in Kinds, NEW i, DeleteBegin(r, k, i)
  PROVE  RqShape' /\ OthersStay(r) /\ rq'[r].pc = "count" /\ rq'[r].op = "delete"
  <1> DEFINE w == [RgIdle EXCEPT !.pc = "count", !.op = "delete", !.kind = k, !.id = i]
  <1>1. rq' = [rq EXCEPT ![r] = w] /\ rq = [q \in RgReqs |-> rq[q]]
    BY DEF DeleteBegin, RgBegin, RqShape
  <1>2. w = [pc |-> "count", op |-> "delete", kind |-> k, id |-> i, col |-> 0,
           body |-> NoModel, row |-> NoModel, tries |-> 0]
  <2> DEFINE y1 == [RgIdle EXCEPT !.pc = "count"]
             y2 == [y1 EXCEPT !.op = "delete"]
             y3 == [y2 EXCEPT !.kind = k]
  <2>1. y1 = [pc |-> "count", op |-> "none", kind |-> "emb", id |-> 0, col |-> 0,
             body |-> NoModel, row |-> NoModel, tries |-> 0]
    BY DEF RgIdle
  <2>2. w = [y3 EXCEPT !.id = i]
    BY ZenonT(20)
  <2> HIDE DEF y1
  <2>3. y2 = [pc |-> "count", op |-> "delete", kind |-> "emb", id |-> 0, col |-> 0,
             body |-> NoModel, row |-> NoModel, tries |-> 0]
    BY <2>1
  <2> HIDE DEF y2
  <2>4. y3 = [pc |-> "count", op |-> "delete", kind |-> k, id |-> 0, col |-> 0,
             body |-> NoModel, row |-> NoModel, tries |-> 0]
    BY <2>3
  <2> HIDE DEF y3
  <2> QED BY <2>2, <2>4
  <1> HIDE DEF w
  <1>3. IsRq(w)
    BY <1>2 DEF IsRq, Kinds
  <1>4. RqShape' /\ OthersStay(r) /\ rq'[r] = w
    BY <1>1, <1>3 DEF RqShape, OthersStay
  <1> QED BY <1>2, <1>4

\* A collection is created or bound.
LEMMA BindMoves ==
  ASSUME RqShape, NEW r \in RgReqs, NEW k \in Kinds, NEW i, NEW c, NEW op \in {"bind", "createcol"},
         BindBegin(r, k, i, c, op)
  PROVE  RqShape' /\ OthersStay(r) /\ rq'[r].pc = op /\ rq'[r].op = op
  <1> DEFINE w == [RgIdle EXCEPT !.pc = op, !.op = op, !.kind = k, !.id = i, !.col = c, !.row = models[k][i]]
  <1>1. rq' = [rq EXCEPT ![r] = w] /\ rq = [q \in RgReqs |-> rq[q]]
    BY DEF BindBegin, RgBegin, RqShape
  <1>2. w = [pc |-> op, op |-> op, kind |-> k, id |-> i, col |-> c,
           body |-> NoModel, row |-> models[k][i], tries |-> 0]
  <2> DEFINE y1 == [RgIdle EXCEPT !.pc = op]
             y2 == [y1 EXCEPT !.op = op]
             y3 == [y2 EXCEPT !.kind = k]
             y4 == [y3 EXCEPT !.id = i]
             y5 == [y4 EXCEPT !.col = c]
  <2>1. y1 = [pc |-> op, op |-> "none", kind |-> "emb", id |-> 0, col |-> 0,
             body |-> NoModel, row |-> NoModel, tries |-> 0]
    BY DEF RgIdle
  <2>2. w = [y5 EXCEPT !.row = models[k][i]]
    BY ZenonT(20)
  <2> HIDE DEF y1
  <2>3. y2 = [pc |-> op, op |-> op, kind |-> "emb", id |-> 0, col |-> 0,
             body |-> NoModel, row |-> NoModel, tries |-> 0]
    BY <2>1
  <2> HIDE DEF y2
  <2>4. y3 = [pc |-> op, op |-> op, kind |-> k, id |-> 0, col |-> 0,
             body |-> NoModel, row |-> NoModel, tries |-> 0]
    BY <2>3
  <2> HIDE DEF y3
  <2>5. y4 = [pc |-> op, op |-> op, kind |-> k, id |-> i, col |-> 0,
             body |-> NoModel, row |-> NoModel, tries |-> 0]
    BY <2>4
  <2> HIDE DEF y4
  <2>6. y5 = [pc |-> op, op |-> op, kind |-> k, id |-> i, col |-> c,
             body |-> NoModel, row |-> NoModel, tries |-> 0]
    BY <2>5
  <2> HIDE DEF y5
  <2> QED BY <2>2, <2>6
  <1> HIDE DEF w
  <1>3. IsRq(w)
    BY <1>2 DEF IsRq, Kinds
  <1>4. RqShape' /\ OthersStay(r) /\ rq'[r] = w
    BY <1>1, <1>3 DEF RqShape, OthersStay
  <1> QED BY <1>2, <1>4

\* A reranker is unbound.
LEMMA UnbindMoves ==
  ASSUME RqShape, NEW r \in RgReqs, NEW c, UnbindBegin(r, c)
  PROVE  RqShape' /\ OthersStay(r) /\ rq'[r].pc = "bind" /\ rq'[r].op = "bind"
  <1> DEFINE w == [RgIdle EXCEPT !.pc = "bind", !.op = "bind", !.kind = "rr", !.col = c]
  <1>1. rq' = [rq EXCEPT ![r] = w] /\ rq = [q \in RgReqs |-> rq[q]]
    BY DEF UnbindBegin, RgBegin, RqShape
  <1>2. w = [pc |-> "bind", op |-> "bind", kind |-> "rr", id |-> 0, col |-> c,
           body |-> NoModel, row |-> NoModel, tries |-> 0]
  <2> DEFINE y1 == [RgIdle EXCEPT !.pc = "bind"]
             y2 == [y1 EXCEPT !.op = "bind"]
             y3 == [y2 EXCEPT !.kind = "rr"]
  <2>1. y1 = [pc |-> "bind", op |-> "none", kind |-> "emb", id |-> 0, col |-> 0,
             body |-> NoModel, row |-> NoModel, tries |-> 0]
    BY DEF RgIdle
  <2>2. w = [y3 EXCEPT !.col = c]
    BY ZenonT(20)
  <2> HIDE DEF y1
  <2>3. y2 = [pc |-> "bind", op |-> "bind", kind |-> "emb", id |-> 0, col |-> 0,
             body |-> NoModel, row |-> NoModel, tries |-> 0]
    BY <2>1
  <2> HIDE DEF y2
  <2>4. y3 = [pc |-> "bind", op |-> "bind", kind |-> "rr", id |-> 0, col |-> 0,
             body |-> NoModel, row |-> NoModel, tries |-> 0]
    BY <2>3
  <2> HIDE DEF y3
  <2> QED BY <2>2, <2>4
  <1> HIDE DEF w
  <1>3. IsRq(w)
    BY <1>2 DEF IsRq, Kinds
  <1>4. RqShape' /\ OthersStay(r) /\ rq'[r] = w
    BY <1>1, <1>3 DEF RqShape, OthersStay
  <1> QED BY <1>2, <1>4

\* A process boots.
LEMMA BootMoves ==
  ASSUME RqShape, NEW r \in RgReqs, Boot(r)
  PROVE  RqShape' /\ OthersStay(r) /\ rq'[r].pc = "lock" /\ rq'[r].op = "boot"
  <1> DEFINE w == [RgIdle EXCEPT !.pc = "lock", !.op = "boot"]
  <1>1. rq' = [rq EXCEPT ![r] = w] /\ rq = [q \in RgReqs |-> rq[q]]
    BY DEF Boot, RgBegin, RqShape
  <1>2. w = [pc |-> "lock", op |-> "boot", kind |-> "emb", id |-> 0, col |-> 0,
           body |-> NoModel, row |-> NoModel, tries |-> 0]
  <2> DEFINE y1 == [RgIdle EXCEPT !.pc = "lock"]
  <2>1. y1 = [pc |-> "lock", op |-> "none", kind |-> "emb", id |-> 0, col |-> 0,
             body |-> NoModel, row |-> NoModel, tries |-> 0]
    BY DEF RgIdle
  <2>2. w = [y1 EXCEPT !.op = "boot"]
    BY ZenonT(20)
  <2> HIDE DEF y1
  <2> QED BY <2>2, <2>1
  <1> HIDE DEF w
  <1>3. IsRq(w)
    BY <1>2 DEF IsRq, Kinds
  <1>4. RqShape' /\ OthersStay(r) /\ rq'[r] = w
    BY <1>1, <1>3 DEF RqShape, OthersStay
  <1> QED BY <1>2, <1>4

-----------------------------------------------------------------------------
\* The steps of a request, side by side.
RgStepOf(r) ==
  \/ InsertModel(r) \/ GetForUpdate(r) \/ UpdateModel(r) \/ CountRefs(r) \/ DeleteModel(r)
  \/ BindCollection(r) \/ LookCollection(r) \/ InsertCollection(r)
  \/ ApplySchema(r) \/ SeedLook(r) \/ SeedInsert(r)
  \/ LockDdl(r) \/ LockTimesOut(r) \/ IndexExists(r) \/ CreateIndex(r)
  \/ DdlFails(r) \/ RgDies(r) \/ Boot(r)
  \/ \E d : ConfirmDim(r, d)
  \/ \E k \in Kinds : \E b \in ModelBodies : CreateBegin(r, k, b)
  \/ \E k \in Kinds : \E i : DeleteBegin(r, k, i)
  \/ \E k \in Kinds : \E i : \E b \in ModelBodies : UpdateBegin(r, k, i, b)
  \/ \E k \in Kinds, op \in {"bind", "createcol"} : \E i, c : BindBegin(r, k, i, c, op)
  \/ \E c : UnbindBegin(r, c)

\* A step is one of some request, or none.
LEMMA RgCases ==
  ASSUME [RgNext]_rgvars
  PROVE  UNCHANGED rgvars \/ \E r \in RgReqs : RgStepOf(r)
  <1> SUFFICES ASSUME RgNext PROVE \E r \in RgReqs : RgStepOf(r)
    OBVIOUS
  <1>1. PICK r \in RgReqs :
          \/ RgStep(r) \/ DdlFails(r) \/ RgDies(r)
          \/ Boot(r)
          \/ \E k \in Kinds : \/ \E b \in ModelBodies : CreateBegin(r, k, b)
                              \/ \E i \in ModelIds :
                                   \/ DeleteBegin(r, k, i)
                                   \/ \E b \in ModelBodies : UpdateBegin(r, k, i, b)
                                   \/ \E c \in ColIds, op \in {"bind", "createcol"} :
                                        BindBegin(r, k, i, c, op)
          \/ \E c \in ColIds : UnbindBegin(r, c)
    BY DEF RgNext
  <1>2. CASE RgStep(r) \/ DdlFails(r) \/ RgDies(r) \/ Boot(r)
    BY <1>2 DEF RgStep, RgStepOf
  <1>3. ASSUME NEW k \in Kinds, NEW b \in ModelBodies, CreateBegin(r, k, b) PROVE RgStepOf(r)
    BY <1>3 DEF RgStepOf
  <1>4. ASSUME NEW k \in Kinds, NEW i \in ModelIds,
               DeleteBegin(r, k, i) \/ \E b \in ModelBodies : UpdateBegin(r, k, i, b)
        PROVE  RgStepOf(r)
    BY <1>4 DEF RgStepOf
  <1>5. ASSUME NEW k \in Kinds, NEW i \in ModelIds, NEW c \in ColIds, NEW op \in {"bind", "createcol"},
               BindBegin(r, k, i, c, op)
        PROVE  RgStepOf(r)
    BY <1>5 DEF RgStepOf
  <1>6. ASSUME NEW c \in ColIds, UnbindBegin(r, c) PROVE RgStepOf(r)
    BY <1>6 DEF RgStepOf
  <1> QED BY <1>1, <1>2, <1>3, <1>4, <1>5, <1>6
-----------------------------------------------------------------------------
(* One index for each dimension                                            *)

\* Whoever looks for an index or builds it holds the lock, and builds what is not
\* there.
LockHeld(r) ==
  /\ rq[r].pc \in {"schema", "exists", "build"} => advisory = r
  /\ rq[r].pc = "build" => rq[r].row.dim \notin index

BuildAlone == RqShape /\ \A r \in RgReqs : LockHeld(r)

\* A step that leaves the lock to its holder, and the indexes too.
LEMMA LockStays ==
  ASSUME BuildAlone, NEW r \in RgReqs, RqShape', OthersStay(r), LockHeld(r)',
         advisory' = advisory \/ advisory \in {r, Free}, index' = index \/ advisory = r
  PROVE  BuildAlone'
  <1> SUFFICES ASSUME NEW q \in RgReqs, q # r PROVE LockHeld(q)'
    BY DEF BuildAlone
  <1>1. LockHeld(q) /\ rq'[q] = rq[q] /\ q # Free
    BY RegistryAssumption DEF BuildAlone, OthersStay
  <1> QED BY <1>1 DEF LockHeld

\* ... because the request is done with both.
LEMMA LockLeft ==
  ASSUME BuildAlone, NEW r \in RgReqs, RqShape', OthersStay(r),
         rq'[r].pc \notin {"schema", "exists", "build"},
         advisory' \in {advisory, Unlocked(r)}, index' = index \/ advisory = r
  PROVE  BuildAlone'
  <1>1. LockHeld(r)' /\ (advisory' = advisory \/ advisory \in {r, Free})
    BY DEF LockHeld, Unlocked
  <1> QED BY <1>1, LockStays

\* After a lock timeout a request tries again or gives up.
LEMMA RetryMoves ==
  ASSUME RqShape, NEW r \in RgReqs, Retry(r)
  PROVE  /\ RqShape' /\ OthersStay(r) /\ advisory' = Unlocked(r)
         /\ \/ /\ rq'[r].pc = "lock" /\ rq'[r].op = rq[r].op /\ rq'[r].row = rq[r].row
               /\ UNCHANGED unindexed
            \/ /\ rq'[r].pc = "idle" /\ rq'[r].op = "none"
               /\ unindexed' = IF rq[r].op = "boot" THEN unindexed ELSE unindexed \cup {rq[r].row.dim}
  <1> DEFINE again == rq[r].tries + 1 < (IF rq[r].op = "boot" THEN BootAttempts ELSE DdlAttempts)
  <1> HIDE DEF again
  <1>1. /\ IF again THEN /\ rq' = [rq EXCEPT ![r].pc = "lock", ![r].tries = @ + 1]
                         /\ UNCHANGED unindexed
           ELSE GiveUp(r)
        /\ advisory' = Unlocked(r)
    BY DEF Retry, again
  <1>2. CASE again
    BY <1>1, <1>2, LockAgain
  <1>3. CASE ~again
    BY <1>1, <1>3, AnswerMoves DEF GiveUp
  <1> QED BY <1>2, <1>3

\* With its index a request answers, and the seed of the models goes on with the reranker.
LEMMA EnsuredMoves ==
  ASSUME RqShape, NEW r \in RgReqs, Ensured(r)
  PROVE  /\ RqShape' /\ OthersStay(r)
         /\ rq'[r].pc \in {"idle", "look"} /\ (rq'[r].pc = "idle" => rq'[r].op = "none")
         /\ (rq'[r].pc = "look" => rq'[r].op = rq[r].op)
  BY AnswerMoves, RerankersNext DEF Ensured

\* The write of a row, of whichever kind.
LEMMA WriteMoves ==
  ASSUME RqShape, NEW r \in RgReqs, NEW d, Written(r, d)
  PROVE  /\ RqShape' /\ OthersStay(r)
         /\ \/ rq[r].kind = "emb" /\ rq'[r].pc = "lock" /\ rq'[r].op = rq[r].op /\ rq'[r].row.dim = d
            \/ rq[r].kind # "emb" /\ rq'[r].pc = "idle" /\ rq'[r].op = "none"
  <1>1. CASE rq[r].kind = "emb"
    BY <1>1, WrittenMoves
  <1>2. CASE rq[r].kind # "emb"
    BY <1>2, AnswerMoves DEF Written
  <1> QED BY <1>1, <1>2

\* Only the holder of the advisory lock looks for the index and builds it.
LEMMA BuildAloneStep == BuildAlone /\ [RgNext]_rgvars => BuildAlone'
  <1> SUFFICES ASSUME BuildAlone, [RgNext]_rgvars PROVE BuildAlone'
    OBVIOUS
  <1>1. CASE UNCHANGED rgvars
    BY <1>1 DEF rgvars, BuildAlone, RqShape, IsRq, LockHeld
  <1>2. ASSUME NEW r \in RgReqs, RgStepOf(r) PROVE BuildAlone'
    <2>1. RqShape /\ LockHeld(r) /\ r # Free
      BY RegistryAssumption DEF BuildAlone
    <2>2. ASSUME RqShape', OthersStay(r), UNCHANGED <<index, advisory>>,
                 rq'[r].pc \notin {"schema", "exists", "build"}
          PROVE  BuildAlone'
      BY <2>2, LockLeft
    <2>3. ASSUME Answer(r), UNCHANGED <<index, advisory>> PROVE BuildAlone'
      BY <2>1, <2>2, <2>3, AnswerMoves
    <2>4. ASSUME NEW pc, pc \notin {"schema", "exists", "build"}, Step(r, pc),
                 UNCHANGED <<index, advisory>>
          PROVE  BuildAlone'
      BY <2>1, <2>2, <2>4, StepMoves
    <2>5. ASSUME NEW d, Written(r, d), UNCHANGED <<index, advisory>> PROVE BuildAlone'
      BY <2>1, <2>2, <2>5, WriteMoves
    <2>6. CASE InsertModel(r)
      BY <2>3, <2>5, <2>6 DEF InsertModel
    <2>7. CASE GetForUpdate(r)
      <3> DEFINE old == models[rq[r].kind][rq[r].id]
                 new == [rq[r].body EXCEPT !.name = IF @ = Keep THEN old.name ELSE @,
                                           !.provider = IF @ = Keep THEN old.provider ELSE @,
                                           !.dim = IF @ = 0 THEN old.dim ELSE @]
                 pc  == IF rq[r].kind = "emb" THEN "probe" ELSE "write"
      <3>1. pc \notin {"schema", "exists", "build"} /\ UNCHANGED <<index, advisory>>
            /\ (Answer(r) \/ rq' = [rq EXCEPT ![r].pc = pc, ![r].row = new])
        BY <2>7 DEF GetForUpdate
      <3> HIDE DEF new, pc
      <3> QED BY <2>1, <2>2, <2>3, <3>1, MergeMoves
    <2>8. CASE UpdateModel(r)
      BY <2>3, <2>5, <2>8 DEF UpdateModel
    <2>9. CASE CountRefs(r) \/ DeleteModel(r) \/ LookCollection(r)
      BY <2>3, <2>4, <2>9 DEF CountRefs, DeleteModel, LookCollection
    <2>10. CASE BindCollection(r) \/ InsertCollection(r)
      BY <2>3, <2>5, <2>10 DEF BindCollection, InsertCollection
    <2>11. CASE SeedLook(r) \/ SeedInsert(r)
      BY <2>3, <2>4, <2>5, <2>11 DEF SeedLook, SeedInsert
    <2>12. ASSUME NEW d, ConfirmDim(r, d) PROVE BuildAlone'
      BY <2>3, <2>4, <2>12 DEF ConfirmDim
    <2>13. CASE ApplySchema(r)
      <3>1. advisory = r /\ advisory' = Free /\ UNCHANGED index
        BY <2>1, <2>13 DEF ApplySchema, LockHeld
      <3>2. RqShape' /\ OthersStay(r) /\ rq'[r].pc = "look"
        BY <2>1, <2>13, SchemaMoves DEF ApplySchema
      <3>3. LockHeld(r)'
        BY <3>2 DEF LockHeld
      <3> QED BY <3>1, <3>2, <3>3, LockStays
    <2>14. CASE LockDdl(r)
      <3> DEFINE pc == IF rq[r].op = "boot" THEN "schema" ELSE "exists"
      <3>1. advisory = Free /\ advisory' = r /\ UNCHANGED index /\ Step(r, pc) /\ pc # "build"
        BY <2>14 DEF LockDdl
      <3> HIDE DEF pc
      <3>2. RqShape' /\ OthersStay(r) /\ rq'[r].pc = pc
        BY <2>1, <3>1, StepMoves
      <3>3. LockHeld(r)'
        BY <3>1, <3>2 DEF LockHeld
      <3> QED BY <3>1, <3>2, <3>3, LockStays
    <2>15. CASE LockTimesOut(r) \/ DdlFails(r)
      <3>1. Retry(r) /\ UNCHANGED index
        BY <2>15 DEF LockTimesOut, DdlFails
      <3>2. RqShape' /\ OthersStay(r) /\ advisory' = Unlocked(r) /\ rq'[r].pc \in {"lock", "idle"}
        BY <2>1, <3>1, RetryMoves
      <3> QED BY <3>1, <3>2, LockLeft
    <2>16. CASE IndexExists(r)
      <3>1. CASE rq[r].row.dim \in index
        <4>1. Ensured(r) /\ advisory' = Unlocked(r) /\ UNCHANGED index
          BY <2>16, <3>1 DEF IndexExists
        <4>2. RqShape' /\ OthersStay(r) /\ rq'[r].pc \in {"idle", "look"}
          BY <2>1, <4>1, EnsuredMoves
        <4> QED BY <4>1, <4>2, LockLeft
      <3>2. CASE rq[r].row.dim \notin index
        <4>1. Step(r, "build") /\ UNCHANGED <<index, advisory>> /\ advisory = r
          BY <2>1, <2>16, <3>2 DEF IndexExists, LockHeld
        <4>2. RqShape' /\ OthersStay(r) /\ rq'[r].row = rq[r].row
          BY <2>1, <4>1, StepMoves
        <4>3. LockHeld(r)'
          BY <3>2, <4>1, <4>2 DEF LockHeld
        <4> QED BY <4>1, <4>2, <4>3, LockStays
      <3> QED BY <3>1, <3>2
    <2>17. CASE CreateIndex(r)
      <3>1. Ensured(r) /\ advisory = r /\ advisory' = Unlocked(r)
        BY <2>1, <2>17 DEF CreateIndex, LockHeld
      <3>2. RqShape' /\ OthersStay(r) /\ rq'[r].pc \in {"idle", "look"}
        BY <2>1, <3>1, EnsuredMoves
      <3> QED BY <3>1, <3>2, LockLeft
    <2>18. CASE RgDies(r)
      <3>1. Answer(r) /\ advisory' = Unlocked(r) /\ UNCHANGED index
        BY <2>18 DEF RgDies, GiveUp
      <3>2. RqShape' /\ OthersStay(r) /\ rq'[r].pc = "idle"
        BY <2>1, <3>1, AnswerMoves
      <3> QED BY <3>1, <3>2, LockLeft
    <2>19. CASE \/ Boot(r) \/ (\E c : UnbindBegin(r, c))
                \/ (\E k \in Kinds : \E b \in ModelBodies : CreateBegin(r, k, b))
                \/ (\E k \in Kinds : \E i : DeleteBegin(r, k, i))
                \/ (\E k \in Kinds : \E i : \E b \in ModelBodies : UpdateBegin(r, k, i, b))
                \/ (\E k \in Kinds, op \in {"bind", "createcol"} : \E i, c : BindBegin(r, k, i, c, op))
      <3>1. UNCHANGED <<index, advisory>>
        BY <2>19 DEF Boot, UnbindBegin, CreateBegin, DeleteBegin, UpdateBegin, BindBegin, RgBegin
      <3>2. /\ RqShape' /\ OthersStay(r)
            /\ rq'[r].pc \in {"lock", "bind", "createcol", "get", "count", "probe", "write"}
        BY <2>1, <2>19, BootMoves, UnbindMoves, CreateMoves, DeleteMoves, UpdateMoves, BindMoves
      <3> QED BY <2>2, <3>1, <3>2
    <2> QED BY <1>2, <2>6, <2>7, <2>8, <2>9, <2>10, <2>11, <2>12, <2>13, <2>14, <2>15, <2>16, <2>17,
               <2>18, <2>19 DEF RgStepOf
  <1> QED BY <1>1, <1>2, RgCases

\* Nothing is locked or built at first.
LEMMA BuildAloneInit == RgInit => BuildAlone
  BY IdleShape DEF RgInit, BuildAlone, RqShape, LockHeld, RgIdle

\* However many requests find the index of a dimension missing, one of them builds
\* it: the look and the CREATE INDEX are under one hold of the advisory lock
\* (EnsureDimIndex).
THEOREM IndexBuiltOnce == RgSpec => []NoDuplicateIndex
  <1>1. BuildAlone => NoDuplicateIndex
    BY DEF BuildAlone, LockHeld, NoDuplicateIndex
  <1> QED BY <1>1, BuildAloneInit, BuildAloneStep, PTL DEF RgSpec
-----------------------------------------------------------------------------
(* Bindings and dimensions                                                 *)

\* A request that may write has a model row, one that merges has a body; a booting
\* process holds the lock for the schema only.
RequestFits(r) ==
  /\ rq[r].pc \in {"probe", "write"} => IsModel(rq[r].row)
  /\ rq[r].pc = "get" => IsModel(rq[r].body)
  /\ rq[r].op = "boot" => rq[r].pc \in {"lock", "schema"}

\* The requests on their way to the index of a dimension.
OnItsWay(r) == rq[r].op # "boot" /\ rq[r].pc \in {"lock", "exists", "build"}

Indexed(d) == d \in index \cup unindexed \/ \E r \in RgReqs : OnItsWay(r) /\ rq[r].row.dim = d

TablesShape ==
  /\ models = [k \in Kinds |-> [i \in ModelIds |-> models[k][i]]]
  /\ cols = [c \in ColIds |-> [emb |-> cols[c].emb, rr |-> cols[c].rr, dim |-> cols[c].dim,
                               there |-> cols[c].there]]

\* Bindings are of collections that are there, to models that are.
Bound == \A c \in ColIds, k \in Kinds : cols[c][k] # 0 => cols[c][k] \in Registered(k) /\ cols[c].there

DimsIndexed == \A i \in Registered("emb") : Indexed(models["emb"][i].dim)

RegistryInv ==
  /\ RqShape /\ \A r \in RgReqs : RequestFits(r)
  /\ TablesShape /\ Bound /\ DimsIndexed

\* What a step of a request leaves of the dimensions that have an index, or will.
Advances(r) ==
  /\ RqShape' /\ OthersStay(r) /\ RequestFits(r)'
  /\ index \subseteq index' /\ unindexed \subseteq unindexed'
  /\ OnItsWay(r) => \/ OnItsWay(r)' /\ rq'[r].row.dim = rq[r].row.dim
                    \/ rq[r].row.dim \in index' \cup unindexed'

\* A dimension that is served stays served.
LEMMA IndexedStays ==
  ASSUME NEW r \in RgReqs, Advances(r)
  PROVE  \A d : Indexed(d) => Indexed(d)'
  <1> SUFFICES ASSUME NEW d, Indexed(d) PROVE Indexed(d)'
    OBVIOUS
  <1>1. CASE d \in index \cup unindexed
    BY <1>1 DEF Indexed, Advances
  <1>2. ASSUME NEW q \in RgReqs, OnItsWay(q), rq[q].row.dim = d PROVE Indexed(d)'
    <2>1. CASE q = r
      BY <1>2, <2>1 DEF Indexed, Advances
    <2>2. CASE q # r
      BY <1>2, <2>2 DEF Indexed, Advances, OthersStay, OnItsWay
    <2> QED BY <2>1, <2>2
  <1> QED BY <1>1, <1>2 DEF Indexed

\* A request keeps what it read.
LEMMA FitsStays ==
  ASSUME RegistryInv, NEW r \in RgReqs, Advances(r)
  PROVE  RqShape' /\ \A q \in RgReqs : RequestFits(q)'
  BY DEF RegistryInv, Advances, OthersStay, RequestFits

\* A step that leaves the tables alone.
LEMMA TablesStay ==
  ASSUME RegistryInv, NEW r \in RgReqs, Advances(r), UNCHANGED <<models, cols>>
  PROVE  RegistryInv'
  <1>1. TablesShape' /\ Bound'
    BY DEF RegistryInv, TablesShape, Bound, Registered
  <1>2. DimsIndexed'
    BY IndexedStays DEF RegistryInv, DimsIndexed, Registered
  <1> QED BY <1>1, <1>2, FitsStays DEF RegistryInv

\* A row is written, and its dimension is on its way to an index.
LEMMA RowWritten ==
  ASSUME RegistryInv, NEW r \in RgReqs, Advances(r), UNCHANGED cols,
         NEW k \in Kinds, NEW i \in ModelIds, NEW m, IsModel(m),
         models' = [models EXCEPT ![k][i] = m],
         k = "emb" => Indexed(m.dim)'
  PROVE  RegistryInv'
  <1>1. m # NoModel
    BY ModelIsModel
  <1>2. /\ models'[k][i] = m
        /\ \A l \in Kinds, j \in ModelIds : l # k \/ j # i => models'[l][j] = models[l][j]
    BY DEF RegistryInv, TablesShape
  <1>3. TablesShape'
    BY DEF RegistryInv, TablesShape
  <1>4. \A l \in Kinds : Registered(l) \subseteq Registered(l)'
    BY <1>1, <1>2 DEF Registered
  <1>5. Bound'
    BY <1>4 DEF RegistryInv, Bound
  <1>6. DimsIndexed'
    <2> SUFFICES ASSUME NEW j \in ModelIds, models'["emb"][j] # NoModel
                 PROVE  Indexed(models["emb"][j].dim)'
      BY DEF DimsIndexed, Registered
    <2>1. CASE k = "emb" /\ j = i
      BY <1>2, <2>1
    <2>2. CASE ~(k = "emb" /\ j = i)
      <3>1. models'["emb"][j] = models["emb"][j]
        BY <1>2, <2>2 DEF Kinds
      <3>2. Indexed(models["emb"][j].dim)
        BY <3>1 DEF RegistryInv, DimsIndexed, Registered
      <3> QED BY <3>1, <3>2, IndexedStays
    <2> QED BY <2>1, <2>2
  <1> QED BY <1>3, <1>5, <1>6, FitsStays DEF RegistryInv

\* A row without references is deleted.
LEMMA RowDeleted ==
  ASSUME RegistryInv, NEW r \in RgReqs, Advances(r), UNCHANGED cols,
         NEW k \in Kinds, NEW i, Refs(k, i) = {},
         models' = [models EXCEPT ![k][i] = NoModel]
  PROVE  RegistryInv'
  <1>1. \A l \in Kinds, j \in ModelIds :
          models'[l][j] = models[l][j] \/ (models'[l][j] = NoModel /\ l = k /\ j = i)
    BY DEF RegistryInv, TablesShape
  <1>2. TablesShape'
    BY DEF RegistryInv, TablesShape
  <1>3. Bound'
    <2> SUFFICES ASSUME NEW c \in ColIds, NEW l \in Kinds, cols[c][l] # 0
                 PROVE  cols[c][l] \in Registered(l)' /\ cols[c].there
      BY DEF Bound
    <2>1. cols[c][l] \in Registered(l) /\ cols[c].there
      BY DEF RegistryInv, Bound
    <2>2. ~(l = k /\ cols[c][l] = i)
      BY <2>1 DEF Refs
    <2> QED BY <1>1, <2>1, <2>2 DEF Registered
  <1>4. DimsIndexed'
    <2> SUFFICES ASSUME NEW j \in ModelIds, models'["emb"][j] # NoModel
                 PROVE  Indexed(models["emb"][j].dim)'
      BY DEF DimsIndexed, Registered
    <2>1. models'["emb"][j] = models["emb"][j]
      BY <1>1 DEF Kinds
    <2>2. Indexed(models["emb"][j].dim)
      BY <2>1 DEF RegistryInv, DimsIndexed, Registered
    <2> QED BY <2>1, <2>2, IndexedStays
  <1> QED BY <1>2, <1>3, <1>4, FitsStays DEF RegistryInv

\* A collection is written with bindings to models that are there.
LEMMA ColWritten ==
  ASSUME RegistryInv, NEW r \in RgReqs, Advances(r), UNCHANGED models,
         NEW c, NEW e, NEW w, NEW d, NEW t, t,
         cols' = [cols EXCEPT ![c] = [emb |-> e, rr |-> w, dim |-> d, there |-> t]],
         c \in ColIds => (e = 0 \/ e \in Registered("emb")) /\ (w = 0 \/ w \in Registered("rr"))
  PROVE  RegistryInv'
  <1>1. TablesShape'
    BY DEF RegistryInv, TablesShape
  <1>2. \A b \in ColIds :
          IF b = c THEN cols'[b] = [emb |-> e, rr |-> w, dim |-> d, there |-> t] ELSE cols'[b] = cols[b]
    BY DEF RegistryInv, TablesShape
  <1>3. Bound'
    <2> SUFFICES ASSUME NEW b \in ColIds, NEW k \in Kinds, cols'[b][k] # 0
                 PROVE  cols'[b][k] \in Registered(k)' /\ cols'[b].there
      BY DEF Bound
    <2>1. CASE b = c
      BY <1>2, <2>1 DEF Kinds, Registered
    <2>2. CASE b # c
      BY <1>2, <2>2 DEF RegistryInv, Bound, Registered
    <2> QED BY <2>1, <2>2
  <1>4. DimsIndexed'
    BY IndexedStays DEF RegistryInv, DimsIndexed, Registered
  <1> QED BY <1>1, <1>3, <1>4, FitsStays DEF RegistryInv

\* An answer, or a step to a place before the write, keeps the dimensions as they are.
LEMMA AnswerAdvances ==
  ASSUME RegistryInv, NEW r \in RgReqs, Answer(r), index \subseteq index', unindexed \subseteq unindexed',
         OnItsWay(r) => rq[r].row.dim \in index' \cup unindexed'
  PROVE  Advances(r)
  <1>1. RqShape' /\ OthersStay(r) /\ rq'[r].pc = "idle" /\ rq'[r].op = "none"
    BY AnswerMoves DEF RegistryInv
  <1> QED BY <1>1 DEF Advances, RequestFits

\* A request that only goes on, without writing, advances.
LEMMA StepAdvances ==
  ASSUME RegistryInv, NEW r \in RgReqs, NEW pc, Step(r, pc), UNCHANGED <<index, unindexed>>,
         OnItsWay(r) => pc \in {"lock", "exists", "build"},
         pc \in {"probe", "write"} => rq[r].pc \in {"probe", "write"}, pc # "get",
         rq[r].op = "boot" => pc \in {"lock", "schema"}
  PROVE  Advances(r)
  <1>1. /\ RqShape' /\ OthersStay(r) /\ rq'[r].pc = pc /\ rq'[r].op = rq[r].op
        /\ rq'[r].row = rq[r].row
    BY StepMoves DEF RegistryInv
  <1>2. RequestFits(r)
    BY DEF RegistryInv
  <1> QED BY <1>1, <1>2 DEF Advances, RequestFits, OnItsWay

\* The write of an embedding row puts its dimension on its way.
LEMMA WriteAdvances ==
  ASSUME RegistryInv, NEW r \in RgReqs, NEW d, Written(r, d), UNCHANGED <<index, unindexed>>,
         rq[r].pc \notin {"lock", "schema", "exists", "build"}
  PROVE  Advances(r) /\ (rq[r].kind = "emb" => Indexed(d)')
  <1>1. RqShape /\ RequestFits(r)
    BY DEF RegistryInv
  <1>2. /\ RqShape' /\ OthersStay(r)
        /\ \/ rq[r].kind = "emb" /\ rq'[r].pc = "lock" /\ rq'[r].op = rq[r].op /\ rq'[r].row.dim = d
           \/ rq[r].kind # "emb" /\ rq'[r].pc = "idle" /\ rq'[r].op = "none"
    BY <1>1, WriteMoves
  <1>3. rq[r].op # "boot"
    BY <1>1 DEF RequestFits
  <1>4. Advances(r)
    BY <1>2, <1>3 DEF Advances, RequestFits, OnItsWay
  <1>5. rq[r].kind = "emb" => Indexed(d)'
    BY <1>2, <1>3 DEF Indexed, OnItsWay
  <1> QED BY <1>4, <1>5

\* A failed attempt goes back to the lock, or leaves the dimension to the history.
LEMMA RetryAdvances ==
  ASSUME RegistryInv, NEW r \in RgReqs, Retry(r), index' = index,
         rq[r].pc \in {"lock", "schema", "exists", "build"}
  PROVE  Advances(r)
  <1>1. RqShape /\ RequestFits(r)
    BY DEF RegistryInv
  <1>2. /\ RqShape' /\ OthersStay(r)
        /\ \/ /\ rq'[r].pc = "lock" /\ rq'[r].op = rq[r].op /\ rq'[r].row = rq[r].row
              /\ UNCHANGED unindexed
           \/ /\ rq'[r].pc = "idle" /\ rq'[r].op = "none"
              /\ unindexed' = IF rq[r].op = "boot" THEN unindexed ELSE unindexed \cup {rq[r].row.dim}
    BY <1>1, RetryMoves
  <1> QED BY <1>1, <1>2 DEF Advances, RequestFits, OnItsWay

\* An index that is there ends the way to it.
LEMMA EnsuredAdvances ==
  ASSUME RegistryInv, NEW r \in RgReqs, Ensured(r), unindexed' = unindexed, index \subseteq index',
         rq[r].row.dim \in index', rq[r].pc \in {"exists", "build"}
  PROVE  Advances(r)
  <1>1. RqShape /\ RequestFits(r)
    BY DEF RegistryInv
  <1>2. /\ RqShape' /\ OthersStay(r) /\ rq'[r].pc \in {"idle", "look"}
        /\ (rq'[r].pc = "idle" => rq'[r].op = "none") /\ (rq'[r].pc = "look" => rq'[r].op = rq[r].op)
    BY <1>1, EnsuredMoves
  <1> QED BY <1>1, <1>2 DEF Advances, RequestFits

\* A request begins.
LEMMA BeginAdvances ==
  ASSUME RegistryInv, NEW r \in RgReqs,
         \/ Boot(r) \/ (\E c : UnbindBegin(r, c))
         \/ (\E k \in Kinds : \E b \in ModelBodies : CreateBegin(r, k, b))
         \/ (\E k \in Kinds : \E i : DeleteBegin(r, k, i))
         \/ (\E k \in Kinds : \E i : \E b \in ModelBodies : UpdateBegin(r, k, i, b))
         \/ (\E k \in Kinds, op \in {"bind", "createcol"} : \E i, c : BindBegin(r, k, i, c, op))
  PROVE  RegistryInv'
  <1>1. RqShape
    BY DEF RegistryInv
  <1>2. UNCHANGED <<models, cols, index, unindexed>> /\ rq[r].pc = "idle"
    BY DEF Boot, UnbindBegin, CreateBegin, DeleteBegin, UpdateBegin, BindBegin, RgBegin
  <1>3. \A b \in ModelBodies : IsModel(b)
    BY RegistryAssumption DEF IsModel
  <1>4. CASE Boot(r) \/ \E c : UnbindBegin(r, c)
    <2>1. /\ RqShape' /\ OthersStay(r)
          /\ \/ rq'[r].pc = "lock" /\ rq'[r].op = "boot"
             \/ rq'[r].pc = "bind" /\ rq'[r].op = "bind"
      BY <1>1, <1>4, BootMoves, UnbindMoves
    <2>2. Advances(r)
      BY <1>2, <2>1 DEF Advances, RequestFits, OnItsWay
    <2> QED BY <1>2, <2>2, TablesStay
  <1>5. ASSUME NEW k \in Kinds, NEW b \in ModelBodies, CreateBegin(r, k, b) PROVE RegistryInv'
    <2>1. RqShape' /\ OthersStay(r) /\ rq'[r].pc \in {"probe", "write"} /\ rq'[r].op = "create" /\ rq'[r].row = b
      BY <1>1, <1>5, CreateMoves
    <2>2. Advances(r)
      BY <1>2, <1>3, <2>1 DEF Advances, RequestFits, OnItsWay
    <2> QED BY <1>2, <2>2, TablesStay
  <1>6. ASSUME NEW k \in Kinds, NEW i, NEW b \in ModelBodies, UpdateBegin(r, k, i, b) PROVE RegistryInv'
    <2>1. RqShape' /\ OthersStay(r) /\ rq'[r].pc = "get" /\ rq'[r].op = "update" /\ rq'[r].body = b
      BY <1>1, <1>6, UpdateMoves
    <2>2. Advances(r)
      BY <1>2, <1>3, <2>1 DEF Advances, RequestFits, OnItsWay
    <2> QED BY <1>2, <2>2, TablesStay
  <1>7. ASSUME NEW k \in Kinds, NEW i, DeleteBegin(r, k, i) PROVE RegistryInv'
    <2>1. RqShape' /\ OthersStay(r) /\ rq'[r].pc = "count" /\ rq'[r].op = "delete"
      BY <1>1, <1>7, DeleteMoves
    <2>2. Advances(r)
      BY <1>2, <2>1 DEF Advances, RequestFits, OnItsWay
    <2> QED BY <1>2, <2>2, TablesStay
  <1>8. ASSUME NEW k \in Kinds, NEW op \in {"bind", "createcol"}, NEW i, NEW c, BindBegin(r, k, i, c, op)
        PROVE  RegistryInv'
    <2>1. RqShape' /\ OthersStay(r) /\ rq'[r].pc = op /\ rq'[r].op = op
      BY <1>1, <1>8, BindMoves
    <2>2. Advances(r)
      BY <1>2, <2>1 DEF Advances, RequestFits, OnItsWay
    <2> QED BY <1>2, <2>2, TablesStay
  <1> QED BY <1>4, <1>5, <1>6, <1>7, <1>8

\* A binding to a reranker keeps the other fields.
LEMMA BindRrWrites ==
  ASSUME RegistryInv, NEW c \in ColIds, NEW i, cols' = [cols EXCEPT ![c].rr = i, ![c].dim = @]
  PROVE  cols' = [cols EXCEPT ![c] = [emb |-> cols[c].emb, rr |-> i, dim |-> cols[c].dim, there |-> cols[c].there]]
  <1> DEFINE x == cols[c]
             d == x.dim
             w == [x EXCEPT !.rr = i, !.dim = d]
             y == [x EXCEPT !.rr = i]
  <1>1. x = [emb |-> x.emb, rr |-> x.rr, dim |-> d, there |-> x.there]
        /\ cols = [b \in ColIds |-> cols[b]]
    BY DEF RegistryInv, TablesShape
  <1>2. cols' = [cols EXCEPT ![c] = w]
    BY <1>1
  <1> HIDE DEF d
  <1>3. y = [emb |-> x.emb, rr |-> i, dim |-> d, there |-> x.there]
    BY <1>1
  <1>4. w = [y EXCEPT !.dim = d]
    BY ZenonT(20)
  <1> HIDE DEF y
  <1>5. w = [emb |-> x.emb, rr |-> i, dim |-> d, there |-> x.there]
    BY <1>3, <1>4
  <1> HIDE DEF w
  <1> QED BY <1>2, <1>5 DEF d

\* A bind commits only while the model it names is there.
LEMMA BindStep ==
  ASSUME RegistryInv, NEW r \in RgReqs, BindCollection(r)
  PROVE  RegistryInv'
  <1> DEFINE k == rq[r].kind
             c == rq[r].col
             i == rq[r].id
             d == rq[r].row.dim
  <1>1. RqShape /\ k \in Kinds /\ rq[r].pc = "bind" /\ UNCHANGED <<models, index, unindexed>>
    BY DEF RegistryInv, RqShape, IsRq, BindCollection
  <1>2. CASE cols[c].there /\ Bindable(k, i)
    <2>1. cols' = [cols EXCEPT ![c][k] = i, ![c].dim = IF k = "emb" THEN d ELSE @]
          /\ IF k = "emb" THEN Written(r, d) ELSE Answer(r)
      BY <1>2 DEF BindCollection
    <2>2. Advances(r)
      <3>1. CASE k = "emb"
        BY <1>1, <2>1, <3>1, WriteAdvances
      <3>2. CASE k # "emb"
        BY <1>1, <2>1, <3>2, AnswerAdvances DEF OnItsWay
      <3> QED BY <3>1, <3>2
    <2>3. CASE c \notin ColIds
      <3>1. cols' = cols
        BY <2>1, <2>3 DEF RegistryInv, TablesShape
      <3> QED BY <1>1, <2>2, <3>1, TablesStay
    <2>4. CASE c \in ColIds
      <3>1. \A l \in Kinds : cols[c][l] # 0 => cols[c][l] \in Registered(l) /\ cols[c].there
        BY <2>4 DEF RegistryInv, Bound
      <3>2. (cols[c].emb = 0 \/ cols[c].emb \in Registered("emb"))
            /\ (cols[c].rr = 0 \/ cols[c].rr \in Registered("rr"))
        BY <3>1 DEF Kinds
      <3> HIDE DEF c, d, i
      <3>3. CASE k = "emb"
        <4>1. cols' = [cols EXCEPT ![c].emb = i, ![c].dim = d]
          BY <2>1, <3>3
        <4>2. cols' = [cols EXCEPT ![c] = [emb |-> i, rr |-> cols[c].rr, dim |-> d, there |-> cols[c].there]]
          <5> DEFINE x == cols[c]
                     w == [x EXCEPT !.emb = i, !.dim = d]
                     y == [x EXCEPT !.emb = i]
          <5>1. x = [emb |-> x.emb, rr |-> x.rr, dim |-> x.dim, there |-> x.there]
                /\ cols = [b \in ColIds |-> cols[b]]
            BY <2>4 DEF RegistryInv, TablesShape
          <5>2. cols' = [cols EXCEPT ![c] = w]
            BY <2>4, <4>1, <5>1
          <5>3. y = [emb |-> i, rr |-> x.rr, dim |-> x.dim, there |-> x.there]
            BY <5>1
          <5>4. w = [y EXCEPT !.dim = d]
            BY ZenonT(20)
          <5> HIDE DEF y
          <5>5. w = [emb |-> i, rr |-> x.rr, dim |-> d, there |-> x.there]
            BY <5>3, <5>4
          <5> HIDE DEF w
          <5> QED BY <5>2, <5>5
        <4> QED BY <1>1, <1>2, <2>2, <3>2, <3>3, <4>2, ColWritten DEF Bindable
      <3>4. CASE k = "rr"
        <4>1. cols' = [cols EXCEPT ![c].rr = i, ![c].dim = @]
          BY <2>1, <3>4
        <4>2. cols' = [cols EXCEPT ![c] = [emb |-> cols[c].emb, rr |-> i, dim |-> cols[c].dim,
                                           there |-> cols[c].there]]
          BY <2>4, <4>1, BindRrWrites
        <4> QED BY <1>1, <1>2, <2>2, <3>2, <3>4, <4>2, ColWritten DEF Bindable
      <3> QED BY <1>1, <3>3, <3>4 DEF Kinds
    <2> QED BY <2>3, <2>4
  <1>3. CASE ~(cols[c].there /\ Bindable(k, i))
    <2>1. Answer(r) /\ UNCHANGED cols
      BY <1>3 DEF BindCollection
    <2>2. Advances(r)
      BY <1>1, <2>1, AnswerAdvances DEF OnItsWay
    <2> QED BY <1>1, <2>1, <2>2, TablesStay
  <1> QED BY <1>2, <1>3

\* A collection is created with the model it was given, if that is still there.
LEMMA InsertColStep ==
  ASSUME RegistryInv, NEW r \in RgReqs, InsertCollection(r)
  PROVE  RegistryInv'
  <1> DEFINE c == rq[r].col
             i == rq[r].id
             d == rq[r].row.dim
  <1>1. rq[r].pc = "insertcol" /\ UNCHANGED <<models, index, unindexed>>
    BY DEF InsertCollection
  <1>2. CASE ~cols[c].there /\ Bindable("emb", i)
    <2>1. cols' = [cols EXCEPT ![c] = [emb |-> i, rr |-> 0, dim |-> d, there |-> TRUE]] /\ Written(r, d)
      BY <1>2 DEF InsertCollection
    <2>2. Advances(r)
      BY <1>1, <2>1, WriteAdvances
    <2> HIDE DEF c, d, i
    <2> QED BY <1>1, <1>2, <2>1, <2>2, ColWritten DEF Bindable
  <1>3. CASE ~(~cols[c].there /\ Bindable("emb", i))
    <2>1. Answer(r) /\ UNCHANGED cols
      BY <1>3 DEF InsertCollection
    <2>2. Advances(r)
      BY <1>1, <2>1, AnswerAdvances DEF OnItsWay
    <2> QED BY <1>1, <2>1, <2>2, TablesStay
  <1> QED BY <1>2, <1>3

\* The rows that requests and boots write.
LEMMA ModelStep ==
  ASSUME RegistryInv, NEW r \in RgReqs, InsertModel(r) \/ UpdateModel(r) \/ SeedInsert(r) \/ DeleteModel(r)
  PROVE  RegistryInv'
  <1> DEFINE k == rq[r].kind
  <1>1. RqShape /\ RequestFits(r) /\ k \in Kinds /\ UNCHANGED <<cols, index, unindexed>>
    BY DEF RegistryInv, RqShape, IsRq, InsertModel, UpdateModel, SeedInsert, DeleteModel
  <1>2. rq[r].pc \in {"write", "seed", "delete"}
    BY DEF InsertModel, UpdateModel, SeedInsert, DeleteModel
  <1>3. ASSUME Answer(r), UNCHANGED models PROVE RegistryInv'
    BY <1>1, <1>2, <1>3, AnswerAdvances, TablesStay DEF OnItsWay
  <1>4. ASSUME NEW i \in ModelIds, NEW m, IsModel(m), models' = [models EXCEPT ![k][i] = m], Written(r, m.dim)
        PROVE  RegistryInv'
    <2>1. Advances(r) /\ (k = "emb" => Indexed(m.dim)')
      BY <1>1, <1>2, <1>4, WriteAdvances
    <2> QED BY <1>1, <1>4, <2>1, RowWritten
  <1>5. CASE InsertModel(r)
    <2>1. PICK i \in ModelIds :
            IF NameFree(k, i, rq[r].row.name)
            THEN models' = [models EXCEPT ![k][i] = rq[r].row] /\ Written(r, rq[r].row.dim)
            ELSE Answer(r) /\ UNCHANGED models
      BY <1>5 DEF InsertModel
    <2>2. IsModel(rq[r].row)
      BY <1>1, <1>5 DEF InsertModel, RequestFits
    <2> QED BY <1>3, <1>4, <2>1, <2>2
  <1>6. CASE UpdateModel(r)
    <2> DEFINE i   == rq[r].id
               key == StoredKey(models[k][i].key, rq[r].body.key)
               m   == [rq[r].row EXCEPT !.key = key]
    <2>1. IsModel(rq[r].row)
      BY <1>1, <1>6 DEF UpdateModel, RequestFits
    <2> HIDE DEF key
    <2>2. IsModel(m) /\ m.dim = rq[r].row.dim
      BY <2>1, KeyIsModel
    <2> HIDE DEF m
    <2>3. IF i \in Registered(k) /\ NameFree(k, i, rq[r].row.name)
          THEN models' = [models EXCEPT ![k][i] = m] /\ Written(r, m.dim)
          ELSE Answer(r) /\ UNCHANGED models
      BY <1>6, <2>2 DEF UpdateModel, IndexedDim, key, m
    <2> HIDE DEF i
    <2> QED BY <1>3, <1>4, <2>2, <2>3 DEF Registered
  <1>7. CASE SeedInsert(r)
    <2>1. PICK i \in ModelIds :
            IF NameFree(k, i, "seed")
            THEN models' = [models EXCEPT ![k][i] = SeedRow] /\ Written(r, SeedDim)
            ELSE Answer(r) /\ UNCHANGED models
      BY <1>7 DEF SeedInsert
    <2>2. IsModel(SeedRow) /\ SeedRow.dim = SeedDim
      BY DEF SeedRow, IsModel
    <2> QED BY <1>3, <1>4, <2>1, <2>2
  <1>8. CASE DeleteModel(r)
    <2>1. Answer(r)
      BY <1>8 DEF DeleteModel
    <2>2. CASE Deletable(k, rq[r].id)
      <3>1. models' = [models EXCEPT ![k][rq[r].id] = NoModel] /\ Refs(k, rq[r].id) = {}
        BY <1>8, <2>2 DEF DeleteModel, Deletable
      <3>2. Advances(r)
        BY <1>1, <1>2, <2>1, AnswerAdvances DEF OnItsWay
      <3> QED BY <1>1, <3>1, <3>2, RowDeleted
    <2>3. CASE ~Deletable(k, rq[r].id)
      BY <1>3, <1>8, <2>1, <2>3 DEF DeleteModel
    <2> QED BY <2>2, <2>3
  <1> QED BY <1>5, <1>6, <1>7, <1>8

\* The row of an update is merged from what was read.
LEMMA MergeStep ==
  ASSUME RegistryInv, NEW r \in RgReqs, GetForUpdate(r)
  PROVE  RegistryInv'
  <1> DEFINE old == models[rq[r].kind][rq[r].id]
             b   == rq[r].body
             n   == IF b.name = Keep THEN old.name ELSE b.name
             p   == IF b.provider = Keep THEN old.provider ELSE b.provider
             d   == IF b.dim = 0 THEN old.dim ELSE b.dim
             m   == [b EXCEPT !.name = n, !.provider = p, !.dim = d]
             new == [b EXCEPT !.name = IF @ = Keep THEN old.name ELSE @,
                              !.provider = IF @ = Keep THEN old.provider ELSE @,
                              !.dim = IF @ = 0 THEN old.dim ELSE @]
             pc  == IF rq[r].kind = "emb" THEN "probe" ELSE "write"
  <1>1. RqShape /\ RequestFits(r) /\ rq[r].pc = "get" /\ UNCHANGED <<models, cols, index, unindexed>>
    BY DEF RegistryInv, GetForUpdate
  <1>2. IsModel(b)
    BY <1>1 DEF RequestFits
  <1>3. new = m
    BY ZenonT(20)
  <1>4. pc \in {"probe", "write"} /\ (Answer(r) \/ rq' = [rq EXCEPT ![r].pc = pc, ![r].row = new])
    BY DEF GetForUpdate
  <1>5. IsModel(m)
    <2> HIDE DEF n, p, d, b
    <2> QED BY <1>2, MergeIsModel
  <1> HIDE DEF new, m, pc
  <1>6. CASE Answer(r)
    BY <1>1, <1>6, AnswerAdvances, TablesStay DEF OnItsWay
  <1>7. CASE rq' = [rq EXCEPT ![r].pc = pc, ![r].row = new]
    <2>1. RqShape' /\ OthersStay(r) /\ rq'[r].pc = pc /\ rq'[r].op = rq[r].op /\ rq'[r].row = m
      BY <1>1, <1>3, <1>7, MergeMoves
    <2>2. Advances(r)
      BY <1>1, <1>4, <1>5, <2>1 DEF Advances, RequestFits, OnItsWay
    <2> QED BY <1>1, <2>2, TablesStay
  <1> QED BY <1>4, <1>6, <1>7

\* Every step keeps the catalogues and the indexes in agreement.
LEMMA RegistryStep == RegistryInv /\ [RgNext]_rgvars => RegistryInv'
  <1> SUFFICES ASSUME RegistryInv, [RgNext]_rgvars PROVE RegistryInv'
    OBVIOUS
  <1>1. CASE UNCHANGED rgvars
    BY <1>1 DEF rgvars, RegistryInv, RqShape, IsRq, RequestFits, TablesShape, Bound, Registered, DimsIndexed,
                Indexed, OnItsWay
  <1>2. ASSUME NEW r \in RgReqs, RgStepOf(r) PROVE RegistryInv'
    <2>1. RqShape /\ RequestFits(r)
      BY DEF RegistryInv
    <2>2. ASSUME Advances(r), UNCHANGED <<models, cols>> PROVE RegistryInv'
      BY <2>2, TablesStay
    <2>3. CASE CountRefs(r) \/ LookCollection(r)
      <3>1. CASE Answer(r)
        BY <2>2, <2>3, <3>1, AnswerAdvances DEF CountRefs, LookCollection, OnItsWay
      <3>2. ASSUME NEW pc \in {"delete", "insertcol"}, Step(r, pc) PROVE RegistryInv'
        <4>1. rq[r].op # "boot" /\ rq[r].pc \in {"count", "createcol"}
              /\ UNCHANGED <<models, cols, index, unindexed>>
          BY <2>1, <2>3 DEF CountRefs, LookCollection, RequestFits
        <4>2. Advances(r)
          BY <3>2, <4>1, StepAdvances DEF OnItsWay
        <4> QED BY <2>2, <4>1, <4>2
      <3> QED BY <2>3, <3>1, <3>2 DEF CountRefs, LookCollection
    <2>4. ASSUME NEW d, ConfirmDim(r, d) PROVE RegistryInv'
      <3>1. rq[r].op # "boot" /\ rq[r].pc = "probe" /\ UNCHANGED <<models, cols, index, unindexed>>
            /\ (Answer(r) \/ Step(r, "write"))
        BY <2>1, <2>4 DEF ConfirmDim, RequestFits
      <3>2. Advances(r)
        BY <3>1, AnswerAdvances, StepAdvances DEF OnItsWay
      <3> QED BY <2>2, <3>1, <3>2
    <2>5. CASE ApplySchema(r)
      <3>1. RqShape' /\ OthersStay(r) /\ rq'[r].pc = "look" /\ rq'[r].op = "seed"
            /\ rq[r].pc = "schema" /\ UNCHANGED <<models, cols, index, unindexed>>
        BY <2>1, <2>5, SchemaMoves DEF ApplySchema
      <3>2. Advances(r)
        BY <3>1 DEF Advances, RequestFits, OnItsWay
      <3> QED BY <2>2, <3>1, <3>2
    <2>6. CASE SeedLook(r)
      <3>1. rq[r].op # "boot" /\ rq[r].pc = "look" /\ UNCHANGED <<models, cols, index, unindexed>>
            /\ (Written(r, SeedDim) \/ Step(r, "seed"))
        BY <2>1, <2>6 DEF SeedLook, RequestFits
      <3>2. Advances(r)
        BY <3>1, WriteAdvances, StepAdvances DEF OnItsWay
      <3> QED BY <2>2, <3>1, <3>2
    <2>7. CASE LockDdl(r)
      <3> DEFINE pc == IF rq[r].op = "boot" THEN "schema" ELSE "exists"
      <3>1. rq[r].pc = "lock" /\ UNCHANGED <<models, cols, index, unindexed>> /\ Step(r, pc)
            /\ pc \in {"schema", "exists"} /\ (rq[r].op = "boot" <=> pc = "schema")
        BY <2>7 DEF LockDdl
      <3> HIDE DEF pc
      <3>2. Advances(r)
        BY <3>1, StepAdvances DEF OnItsWay
      <3> QED BY <2>2, <3>1, <3>2
    <2>8. CASE LockTimesOut(r) \/ DdlFails(r)
      <3>1. Retry(r) /\ rq[r].pc \in {"lock", "schema", "exists", "build"} /\ UNCHANGED <<models, cols, index>>
        BY <2>8 DEF LockTimesOut, DdlFails
      <3> QED BY <2>2, <3>1, RetryAdvances
    <2>9. CASE IndexExists(r)
      <3>1. rq[r].pc = "exists" /\ UNCHANGED <<models, cols, index, unindexed>>
            /\ (Step(r, "build") \/ (rq[r].row.dim \in index /\ Ensured(r)))
        BY <2>9 DEF IndexExists
      <3>2. rq[r].op # "boot"
        BY <2>1, <3>1 DEF RequestFits
      <3>3. Advances(r)
        BY <3>1, <3>2, StepAdvances, EnsuredAdvances DEF OnItsWay
      <3> QED BY <2>2, <3>1, <3>3
    <2>10. CASE CreateIndex(r)
      <3>1. rq[r].pc = "build" /\ Ensured(r) /\ UNCHANGED <<models, cols, unindexed>>
            /\ index \subseteq index' /\ rq[r].row.dim \in index'
        BY <2>10 DEF CreateIndex
      <3> QED BY <2>2, <3>1, EnsuredAdvances
    <2>11. CASE RgDies(r)
      <3>1. Answer(r) /\ UNCHANGED <<models, cols, index>> /\ unindexed \subseteq unindexed'
            /\ (OnItsWay(r) => rq[r].row.dim \in unindexed')
        BY <2>11 DEF RgDies, GiveUp, OnItsWay
      <3>2. Advances(r)
        BY <3>1, AnswerAdvances
      <3> QED BY <2>2, <3>1, <3>2
    <2> QED BY <1>2, <2>3, <2>4, <2>5, <2>6, <2>7, <2>8, <2>9, <2>10, <2>11, BeginAdvances, BindStep,
               InsertColStep, ModelStep, MergeStep DEF RgStepOf
  <1> QED BY <1>1, <1>2, RgCases

\* They agree before the first boot.
LEMMA RegistryInit == RgInit => RegistryInv
  <1> SUFFICES ASSUME RgInit PROVE RegistryInv
    OBVIOUS
  <1>1. \A r \in RgReqs : rq[r] = RgIdle
    BY DEF RgInit
  <1>2. RqShape /\ \A r \in RgReqs : RequestFits(r)
    BY <1>1, IdleShape DEF RgInit, RqShape, RequestFits, RgIdle
  <1>3. TablesShape /\ Bound /\ DimsIndexed
    BY DEF RgInit, TablesShape, Bound, DimsIndexed, Registered, NoCol, Kinds
  <1> QED BY <1>2, <1>3 DEF RegistryInv

\* No collection is ever bound to a model that is gone, and no registered dimension
\* is without index unless its request is on its way to it or was given up, however
\* creates, updates, deletes, binds and boots interleave between their reads and
\* their writes (DeleteEmbeddingModel, BindCollectionModel, EnsureDimIndex).
THEOREM BindingsAreServed == RgSpec => []BindingsServed
  <1>1. RegistryInv => BindingsServed
    <2> SUFFICES ASSUME RegistryInv PROVE BindingsServed
      OBVIOUS
    <2>1. \A i \in Registered("emb") :
       models["emb"][i].dim \in index \cup unindexed \cup
         {rq[r].row.dim : r \in {r \in RgReqs : /\ rq[r].op # "boot"
                                              /\ rq[r].pc \in {"lock", "exists", "build"}}}
      BY DEF RegistryInv, DimsIndexed, Indexed, OnItsWay
    <2> QED BY <2>1 DEF RegistryInv, Bound, BindingsServed
  <1> QED BY <1>1, RegistryInit, RegistryStep, PTL DEF RgSpec
=============================================================================

------------------------------ MODULE Registry ------------------------------
(***************************************************************************)
(* The catalogues of embedding models and of rerankers, the collections    *)
(* that bind to them, and the vector index every dimension needs.  Each    *)
(* SQL statement is a step: a handler reads a row on one connection and    *)
(* writes on another, and only the constraints of the tables protect what  *)
(* it read.  EnsureDimIndex follows the write on a connection of its own,   *)
(* under the advisory lock that serialises DDL.                             *)
(***************************************************************************)
EXTENDS Integers, FiniteSets

CONSTANTS
  RgReqs,        \* requests and booting processes in progress together
  ModelIds, ColIds,
  ModelBodies,        \* what a create or an update may send
  SeedDim,       \* EMBED_DIM of the environment
  SeedReranker,  \* RERANK_ENABLED
  BootAttempts,  \* bootstrapAttempts
  DdlAttempts,   \* ensureDimIndexAttempts
  MaxOps,        \* bound: requests
  MaxDdlFaults   \* bound: deaths and transient errors

Kinds == {"emb", "rr"}
Keep    == "keep"   \* a field the body of an update leaves out; 0 for the dimension
NoModel == [name |-> "none"]
NoCol   == [emb |-> 0, rr |-> 0, dim |-> 0, there |-> FALSE]
Free    == "free"

ASSUME RegistryAssumption ==
  /\ ModelIds \subseteq Nat \ {0} /\ {BootAttempts, DdlAttempts} \subseteq Nat \ {0}
  /\ {MaxOps, MaxDdlFaults} \subseteq Nat /\ SeedReranker \in BOOLEAN /\ Free \notin RgReqs
  /\ \A b \in ModelBodies : b = [name |-> b.name, provider |-> b.provider, key |-> b.key, dim |-> b.dim]
  /\ \A b \in ModelBodies : b.dim \in 0..2000 /\ b.key \in BOOLEAN /\ b.provider \in {Keep, "tei", "openai"}

VARIABLES
  models,    \* per kind and id: a row of embedding_models or rerank_models
  cols,      \* collections: the two bindings and the legacy vector_dim
  index,     \* dimensions that have their HNSW index
  advisory,  \* who holds pg_advisory_lock(918273645)
  rq,        \* the requests
  rgOps, rgFaults,
  unindexed  \* history: dimensions whose EnsureDimIndex did not get to its end

rgvars == <<models, cols, index, advisory, rq, rgOps, rgFaults, unindexed>>

RgIdle == [pc |-> "idle", op |-> "none", kind |-> "emb", id |-> 0, col |-> 0,
           body |-> NoModel, row |-> NoModel, tries |-> 0]

RgInit ==
  /\ models = [k \in Kinds |-> [i \in ModelIds |-> NoModel]]
  /\ cols = [c \in ColIds |-> NoCol]
  /\ index = {} /\ advisory = Free /\ unindexed = {}
  /\ rq = [r \in RgReqs |-> RgIdle] /\ rgOps = 0 /\ rgFaults = 0

Registered(k) == {i \in ModelIds : models[k][i] # NoModel}
Refs(k, i) == {c \in ColIds : cols[c].there /\ cols[c][k] = i}

\* UNIQUE (name), against every row but the one that is written
NameFree(k, i, name) == \A j \in Registered(k) \ {i} : models[k][j].name # name

\* The request at pc with row, or back to idle with an answer.
Step(r, pc) == rq' = [rq EXCEPT ![r].pc = pc]
Answer(r)   == rq' = [rq EXCEPT ![r] = RgIdle]

\* After the write of an embedding row: EnsureDimIndex, with the dimension the
\* handler holds.  Rerankers have no vectors.
Written(r, d) ==
  IF rq[r].kind = "emb"
  THEN rq' = [rq EXCEPT ![r].pc = "lock", ![r].row = [dim |-> d], ![r].tries = 0]
  ELSE Answer(r)

RgBegin(r, record) ==
  /\ rq[r].pc = "idle" /\ rgOps < MaxOps /\ rgOps' = rgOps + 1
  /\ rq' = [rq EXCEPT ![r] = record]
  /\ UNCHANGED <<models, cols, index, advisory, rgFaults, unindexed>>
-----------------------------------------------------------------------------
\* Create

\* validateModelCreate, validateRerankCreate.  A refused create changes nothing.
ValidCreate(b) ==
  Keep \notin {b.name, b.provider} /\ b.dim > 0 /\ (b.provider = "openai" => b.key)

CreateBegin(r, k, b) ==
  /\ ValidCreate(b)
  /\ RgBegin(r, [RgIdle EXCEPT !.pc = IF k = "emb" THEN "probe" ELSE "write", !.op = "create",
                             !.kind = k, !.row = b])

\* confirmDim: an unreachable model is taken at its word.
ConfirmDim(r, detected) ==
  /\ rq[r].pc = "probe"
  /\ IF detected \in {0, rq[r].row.dim} THEN Step(r, "write") ELSE Answer(r)
  /\ UNCHANGED <<models, cols, index, advisory, rgOps, rgFaults, unindexed>>

\* InsertEmbeddingModel, InsertRerankModel
InsertModel(r) ==
  LET k == rq[r].kind IN
  /\ rq[r].pc = "write" /\ rq[r].op = "create"
  /\ \E i \in ModelIds \ Registered(k) :
       /\ \A j \in ModelIds \ Registered(k) : i <= j
       /\ IF NameFree(k, i, rq[r].row.name)
          THEN models' = [models EXCEPT ![k][i] = rq[r].row] /\ Written(r, rq[r].row.dim)
          ELSE Answer(r) /\ UNCHANGED models
  /\ UNCHANGED <<cols, index, advisory, rgOps, rgFaults, unindexed>>
-----------------------------------------------------------------------------
\* Update: the body names some of the fields, the others are taken from the row
\* that was read, and all of them are written.

UpdateBegin(r, k, i, b) ==
  RgBegin(r, [RgIdle EXCEPT !.pc = "get", !.op = "update", !.kind = k, !.id = i, !.body = b])

\* The merged row is validated as a create without a key.
ValidMerge(row) == ValidCreate([row EXCEPT !.key = FALSE])

\* handleUpdateModel and handleUpdateRerankModel up to their write
GetForUpdate(r) ==
  LET old == models[rq[r].kind][rq[r].id]
      new == [rq[r].body EXCEPT !.name = IF @ = Keep THEN old.name ELSE @,
                                !.provider = IF @ = Keep THEN old.provider ELSE @,
                                !.dim = IF @ = 0 THEN old.dim ELSE @]
  IN
  /\ rq[r].pc = "get" /\ rq[r].op = "update"
  /\ IF old # NoModel /\ ValidMerge(new)
     THEN rq' = [rq EXCEPT ![r].pc = IF rq[r].kind = "emb" THEN "probe" ELSE "write", ![r].row = new]
     ELSE Answer(r)
  /\ UNCHANGED <<models, cols, index, advisory, rgOps, rgFaults, unindexed>>

\* Mutant: the index is that of the dimension before the update.
StoredKey(old, sent)         == old \/ sent
IndexedDimOld(r)             == models[rq[r].kind][rq[r].id].dim
IndexedDim(r)                == rq[r].row.dim

\* UpdateEmbeddingModel, UpdateRerankModel: COALESCE keeps the key.
UpdateModel(r) ==
  LET k == rq[r].kind
      i == rq[r].id
  IN
  /\ rq[r].pc = "write" /\ rq[r].op = "update"
  /\ IF i \in Registered(k) /\ NameFree(k, i, rq[r].row.name)
     THEN /\ models' = [models EXCEPT ![k][i] =
                          [rq[r].row EXCEPT !.key = StoredKey(models[k][i].key, rq[r].body.key)]]
          /\ Written(r, IndexedDim(r))
     ELSE Answer(r) /\ UNCHANGED models
  /\ UNCHANGED <<cols, index, advisory, rgOps, rgFaults, unindexed>>
-----------------------------------------------------------------------------
\* Delete: Get, then CountCollectionRefs, then DELETE, three connections.

DeleteBegin(r, k, i) ==
  /\ i \in Registered(k)
  /\ RgBegin(r, [RgIdle EXCEPT !.pc = "count", !.op = "delete", !.kind = k, !.id = i])

CountRefs(r) ==
  /\ rq[r].pc = "count"
  /\ IF Refs(rq[r].kind, rq[r].id) = {} THEN Step(r, "delete") ELSE Answer(r)
  /\ UNCHANGED <<models, cols, index, advisory, rgOps, rgFaults, unindexed>>

\* REFERENCES without ON DELETE
Deletable(k, i) == Refs(k, i) = {}

DeleteModel(r) ==
  /\ rq[r].pc = "delete" /\ Answer(r)
  /\ models' = IF Deletable(rq[r].kind, rq[r].id)
               THEN [models EXCEPT ![rq[r].kind][rq[r].id] = NoModel] ELSE models
  /\ UNCHANGED <<cols, index, advisory, rgOps, rgFaults, unindexed>>
-----------------------------------------------------------------------------
\* Collections: the model is read first, the binding written with what was read.

BindBegin(r, k, i, c, op) ==
  /\ i \in Registered(k)
  /\ op = "createcol" => k = "emb"
  /\ RgBegin(r, [RgIdle EXCEPT !.pc = op, !.op = op, !.kind = k, !.id = i, !.col = c,
                             !.row = models[k][i]])

\* A null reranker clears the binding without a look at any model.
UnbindBegin(r, c) ==
  RgBegin(r, [RgIdle EXCEPT !.pc = "bind", !.op = "bind", !.kind = "rr", !.col = c])

\* The foreign keys of collections, checked by the write
Bindable(k, i) == i = 0 \/ i \in Registered(k)

\* BindCollectionModel, BindCollectionReranker: an unknown collection is a 404.
BindCollection(r) ==
  LET k == rq[r].kind
      c == rq[r].col
  IN
  /\ rq[r].pc = "bind"
  /\ IF cols[c].there /\ Bindable(k, rq[r].id)
     THEN /\ cols' = [cols EXCEPT ![c][k] = rq[r].id,
                                  ![c].dim = IF k = "emb" THEN rq[r].row.dim ELSE @]
          /\ IF k = "emb" THEN Written(r, rq[r].row.dim) ELSE Answer(r)
     ELSE Answer(r) /\ UNCHANGED cols
  /\ UNCHANGED <<models, index, advisory, rgOps, rgFaults, unindexed>>

\* handleCreateCollection: GetCollection first, then InsertCollection, which the
\* primary key and the foreign key may still refuse.
LookCollection(r) ==
  /\ rq[r].pc = "createcol"
  /\ IF cols[rq[r].col].there THEN Answer(r) ELSE Step(r, "insertcol")
  /\ UNCHANGED <<models, cols, index, advisory, rgOps, rgFaults, unindexed>>

InsertCollection(r) ==
  LET c == rq[r].col IN
  /\ rq[r].pc = "insertcol"
  /\ IF ~cols[c].there /\ Bindable("emb", rq[r].id)
     THEN /\ cols' = [cols EXCEPT ![c] = [emb |-> rq[r].id, rr |-> 0, dim |-> rq[r].row.dim,
                                          there |-> TRUE]]
          /\ Written(r, rq[r].row.dim)
     ELSE Answer(r) /\ UNCHANGED cols
  /\ UNCHANGED <<models, index, advisory, rgOps, rgFaults, unindexed>>
-----------------------------------------------------------------------------
\* Boot: NewPool applies the schema under the lock, infra seeds the catalogues
\* that are empty; several processes boot together.

Boot(r) == RgBegin(r, [RgIdle EXCEPT !.pc = "lock", !.op = "boot"])

ApplySchema(r) ==
  /\ rq[r].pc = "schema" /\ advisory' = Free
  /\ rq' = [rq EXCEPT ![r].pc = "look", ![r].op = "seed"]
  /\ UNCHANGED <<models, cols, index, rgOps, rgFaults, unindexed>>

SeedRow == [name |-> "seed", provider |-> "tei", key |-> FALSE, dim |-> SeedDim]

\* The snapshot of INSERT ... WHERE NOT EXISTS
SeedLook(r) ==
  LET k == rq[r].kind IN
  /\ rq[r].pc = "look"
  /\ IF Registered(k) = {} THEN Step(r, "seed") ELSE Written(r, SeedDim)
  /\ UNCHANGED <<models, cols, index, advisory, rgOps, rgFaults, unindexed>>

\* Its insert: a process that lost the race fails on the name and does not boot.
SeedInsert(r) ==
  LET k == rq[r].kind IN
  /\ rq[r].pc = "seed"
  /\ \E i \in ModelIds \ Registered(k) :
       /\ \A j \in ModelIds \ Registered(k) : i <= j
       /\ IF NameFree(k, i, "seed")
          THEN models' = [models EXCEPT ![k][i] = SeedRow] /\ Written(r, SeedDim)
          ELSE Answer(r) /\ UNCHANGED models
  /\ UNCHANGED <<cols, index, advisory, rgOps, rgFaults, unindexed>>
-----------------------------------------------------------------------------
\* EnsureDimIndex, and the lock of the bootstrap

GiveUp(r) ==
  /\ Answer(r)
  /\ unindexed' = IF rq[r].op = "boot" THEN unindexed ELSE unindexed \cup {rq[r].row.dim}

\* The index is there; a booting process goes on with the rerankers.
Ensured(r) ==
  IF rq[r].op = "seed" /\ SeedReranker THEN rq' = [rq EXCEPT ![r].pc = "look", ![r].kind = "rr"]
  ELSE Answer(r)

Unlocked(r) == IF advisory = r THEN Free ELSE advisory

\* Mutant: the index is looked for before the lock is held.
LockDdlUnheld(r) ==
  /\ rq[r].pc = "lock" /\ Step(r, IF rq[r].op = "boot" THEN "schema" ELSE "exists")
  /\ UNCHANGED <<models, cols, index, advisory, rgOps, rgFaults, unindexed>>

LockDdl(r) ==
  /\ rq[r].pc = "lock" /\ advisory = Free
  /\ advisory' = r /\ Step(r, IF rq[r].op = "boot" THEN "schema" ELSE "exists")
  /\ UNCHANGED <<models, cols, index, rgOps, rgFaults, unindexed>>

\* One more attempt, or the last one was it.
Retry(r) ==
  /\ IF rq[r].tries + 1 < (IF rq[r].op = "boot" THEN BootAttempts ELSE DdlAttempts)
     THEN /\ rq' = [rq EXCEPT ![r].pc = "lock", ![r].tries = @ + 1]
          /\ UNCHANGED unindexed
     ELSE GiveUp(r)
  /\ advisory' = Unlocked(r)

\* lock_timeout while another process builds an index (55P03)
LockTimesOut(r) ==
  /\ rq[r].pc = "lock" /\ advisory \notin {Free, r} /\ Retry(r)
  /\ UNCHANGED <<models, cols, index, rgOps, rgFaults>>

IndexExists(r) ==
  /\ rq[r].pc = "exists"
  /\ IF rq[r].row.dim \in index THEN Ensured(r) /\ advisory' = Unlocked(r)
     ELSE Step(r, "build") /\ UNCHANGED advisory
  /\ UNCHANGED <<models, cols, index, rgOps, rgFaults, unindexed>>

CreateIndex(r) ==
  /\ rq[r].pc = "build" /\ Ensured(r)
  /\ index' = index \cup {rq[r].row.dim} /\ advisory' = Unlocked(r)
  /\ UNCHANGED <<models, cols, rgOps, rgFaults, unindexed>>

DdlFault == rgFaults < MaxDdlFaults /\ rgFaults' = rgFaults + 1

\* A deadlock with a writer of chunks (40P01), or its lock_timeout
DdlFails(r) ==
  /\ rq[r].pc \in {"schema", "exists", "build"} /\ DdlFault /\ Retry(r)
  /\ UNCHANGED <<models, cols, index, rgOps>>

\* The process dies; Postgres releases the lock of its session.
RgDies(r) ==
  /\ rq[r].pc # "idle" /\ DdlFault /\ advisory' = Unlocked(r)
  /\ IF rq[r].pc \in {"lock", "exists", "build"} THEN GiveUp(r) ELSE Answer(r) /\ UNCHANGED unindexed
  /\ UNCHANGED <<models, cols, index, rgOps>>
-----------------------------------------------------------------------------
RgStep(r) ==
  \/ InsertModel(r) \/ GetForUpdate(r) \/ UpdateModel(r) \/ CountRefs(r) \/ DeleteModel(r)
  \/ BindCollection(r) \/ LookCollection(r) \/ InsertCollection(r)
  \/ ApplySchema(r) \/ SeedLook(r) \/ SeedInsert(r)
  \/ LockDdl(r) \/ LockTimesOut(r) \/ IndexExists(r) \/ CreateIndex(r)
  \/ \E d \in {b.dim : b \in ModelBodies} : ConfirmDim(r, d)

RgNext ==
  \E r \in RgReqs :
    \/ RgStep(r) \/ DdlFails(r) \/ RgDies(r)
    \/ Boot(r)
    \/ \E k \in Kinds : \/ \E b \in ModelBodies : CreateBegin(r, k, b)
                        \/ \E i \in ModelIds :
                             \/ DeleteBegin(r, k, i)
                             \/ \E b \in ModelBodies : UpdateBegin(r, k, i, b)
                             \/ \E c \in ColIds, op \in {"bind", "createcol"} :
                                  BindBegin(r, k, i, c, op)
    \/ \E c \in ColIds : UnbindBegin(r, c)

RgSpec == RgInit /\ [][RgNext]_rgvars
-----------------------------------------------------------------------------
\* Every binding can be served: a collection is never bound to a model that is
\* gone, although binding reads the model and deleting counts the bindings before
\* either of them writes; and the dimension of a registered embedding model has its
\* index, unless the request that wrote it is on its way there or did not get there.
BindingsServed ==
  /\ \A c \in ColIds, k \in Kinds : cols[c][k] # 0 => cols[c][k] \in Registered(k)
  /\ \A i \in Registered("emb") :
       models["emb"][i].dim \in index \cup unindexed \cup
         {rq[r].row.dim : r \in {r \in RgReqs : /\ rq[r].op # "boot"
                                              /\ rq[r].pc \in {"lock", "exists", "build"}}}

\* CREATE INDEX has no IF NOT EXISTS: it is only reached for an index that is
\* not there, however the requests for one dimension are interleaved.
NoDuplicateIndex == \A r \in RgReqs : rq[r].pc = "build" => rq[r].row.dim \notin index
=============================================================================

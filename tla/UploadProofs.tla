---------------------------- MODULE UploadProofs ----------------------------
(***************************************************************************)
(* What the three ways into the system guarantee, for any number of        *)
(* requests in progress, any feed, any collections and any backlog cap.    *)
(***************************************************************************)
EXTENDS Upload, FiniteSetTheorems, SequenceTheorems, TLAPS

\* A request has the fields of a request, and its answers are answers.
IsRequest(x) ==
  /\ x = [pc |-> x.pc, kind |-> x.kind, col |-> x.col, id |-> x.id,
          claim |-> x.claim, todo |-> x.todo, out |-> x.out]
  /\ x.out \in Seq({"rejected", "duplicate", "accepted"})
  /\ x.id \in Nat

ReqShape == req = [r \in Requests |-> req[r]] /\ \A r \in Requests : IsRequest(req[r])

\* The other requests.
OthersStay(r) == \A q \in Requests : q # r => req'[q] = req[q]

\* The request goes on, with its collection and its claim.
Moves(r, pc) ==
  /\ req'[r].pc = pc /\ req'[r].kind = req[r].kind /\ req'[r].col = req[r].col
  /\ req'[r].id = req[r].id /\ req'[r].claim = req[r].claim
  /\ req'[r].todo = req[r].todo /\ req'[r].out = req[r].out

\* A new request.
LEMMA IdleShape == IsRequest(Idle)
  BY EmptySeq DEF IsRequest, Idle

\* Several fields of a request updated together: one after the other.
LEMMA PcAndClaim ==
  ASSUME NEW x, IsRequest(x), NEW p, NEW c
  PROVE  [x EXCEPT !.pc = p, !.claim = c]
           = [pc |-> p, kind |-> x.kind, col |-> x.col, id |-> x.id, claim |-> c, todo |-> x.todo, out |-> x.out]
  <1> DEFINE y == [x EXCEPT !.pc = p]
  <1>1. y = [pc |-> p, kind |-> x.kind, col |-> x.col, id |-> x.id, claim |-> x.claim, todo |-> x.todo, out |-> x.out]
    BY DEF IsRequest
  <1>2. [x EXCEPT !.pc = p, !.claim = c] = [y EXCEPT !.claim = c]
    BY ZenonT(20)
  <1> HIDE DEF y
  <1> QED BY <1>1, <1>2

\* Two fields of a request at once.
LEMMA PcAndId ==
  ASSUME NEW x, IsRequest(x), NEW p, NEW i
  PROVE  [x EXCEPT !.pc = p, !.id = i]
           = [pc |-> p, kind |-> x.kind, col |-> x.col, id |-> i, claim |-> x.claim, todo |-> x.todo, out |-> x.out]
  <1> DEFINE y == [x EXCEPT !.pc = p]
  <1>1. y = [pc |-> p, kind |-> x.kind, col |-> x.col, id |-> x.id, claim |-> x.claim, todo |-> x.todo, out |-> x.out]
    BY DEF IsRequest
  <1>2. [x EXCEPT !.pc = p, !.id = i] = [y EXCEPT !.id = i]
    BY ZenonT(20)
  <1> HIDE DEF y
  <1> QED BY <1>1, <1>2

\* Go changes where a request is and nothing else.
LEMMA GoMoves ==
  ASSUME ReqShape, NEW r \in Requests, NEW pc, Go(r, pc)
  PROVE  ReqShape' /\ OthersStay(r) /\ Moves(r, pc)
  <1> DEFINE x == req[r]
             w == [x EXCEPT !.pc = pc]
  <1>1. IsRequest(x) /\ req' = [req EXCEPT ![r] = w] /\ req = [q \in Requests |-> req[q]]
    BY DEF ReqShape, Go
  <1>2. w = [pc |-> pc, kind |-> x.kind, col |-> x.col, id |-> x.id,
             claim |-> x.claim, todo |-> x.todo, out |-> x.out]
    BY <1>1 DEF IsRequest
  <1> HIDE DEF w
  <1>3. req'[r] = w /\ OthersStay(r) /\ req' = [q \in Requests |-> req'[q]]
    BY <1>1 DEF OthersStay
  <1>4. IsRequest(w)
    BY <1>1, <1>2 DEF IsRequest
  <1>5. ReqShape'
    BY <1>3, <1>4 DEF ReqShape, OthersStay
  <1> QED BY <1>2, <1>3, <1>5 DEF Moves

\* A request has its result, or goes on with the next file.
LEMMA FinishMoves ==
  ASSUME ReqShape, NEW r \in Requests, NEW s \in {"rejected", "duplicate", "accepted"}, Finish(r, s)
  PROVE  /\ ReqShape' /\ OthersStay(r)
         /\ req'[r].pc \in {"fetch", "done"} /\ req'[r].kind = req[r].kind
         /\ req'[r].col = req[r].col /\ req'[r].id = req[r].id /\ req'[r].claim = req[r].claim
         /\ req'[r].out # <<>> /\ Last(req'[r].out) = s
  <1> DEFINE x  == req[r]
             o  == Append(x.out, s)
             t  == IF x.todo = <<>> THEN x.todo ELSE Tail(x.todo)
             pc == IF Len(x.todo) > 1 THEN "fetch" ELSE "done"
             w  == [x EXCEPT !.out = o, !.todo = t, !.pc = pc]
  <1>1. IsRequest(x) /\ req = [q \in Requests |-> req[q]]
    BY DEF ReqShape
  <1>2. o \in Seq({"rejected", "duplicate", "accepted"}) /\ o # <<>> /\ Last(o) = s
    BY <1>1 DEF IsRequest, Last
  <1>3. pc \in {"fetch", "done"}
    OBVIOUS
  <1> HIDE DEF o, t, pc
  <1>4. w = [pc |-> pc, kind |-> x.kind, col |-> x.col, id |-> x.id,
             claim |-> x.claim, todo |-> t, out |-> o]
    <2> DEFINE y == [x EXCEPT !.out = o]
               z == [y EXCEPT !.todo = t]
    <2>1. y = [pc |-> x.pc, kind |-> x.kind, col |-> x.col, id |-> x.id, claim |-> x.claim, todo |-> x.todo, out |-> o]
      BY <1>1 DEF IsRequest
    <2>2. w = [z EXCEPT !.pc = pc]
      BY ZenonT(20)
    <2> HIDE DEF y
    <2>3. z = [pc |-> x.pc, kind |-> x.kind, col |-> x.col, id |-> x.id, claim |-> x.claim, todo |-> t, out |-> o]
      BY <2>1
    <2> HIDE DEF z
    <2> QED BY <2>2, <2>3
  <1>5. req' = [req EXCEPT ![r] = w]
    BY <1>1 DEF Finish, o, t, pc
  <1> HIDE DEF w
  <1>6. req'[r] = w /\ OthersStay(r) /\ req' = [q \in Requests |-> req'[q]]
    BY <1>1, <1>5 DEF OthersStay
  <1>7. IsRequest(w)
    BY <1>1, <1>2, <1>4 DEF IsRequest
  <1>8. ReqShape'
    BY <1>1, <1>6, <1>7 DEF ReqShape, OthersStay
  <1> QED BY <1>2, <1>3, <1>4, <1>6, <1>8

\* A request begins.
LEMMA CommitMoves ==
  ASSUME ReqShape, NEW r \in Requests, NEW i \in Ids, NEW c, NEW h, NEW case, CommitBegin(r, i, c, h, case)
  PROVE  /\ ReqShape' /\ OthersStay(r)
         /\ req'[r].pc = "gate" /\ req'[r].kind = "commit" /\ req'[r].claim = [hash |-> h, case |-> case]
         /\ req'[r].id = i /\ req'[r].out = <<>>
  <1> DEFINE w == [Idle EXCEPT !.pc = "gate", !.kind = "commit", !.col = c, !.id = i,
                               !.claim = [hash |-> h, case |-> case]]
  <1>1. w = [pc |-> "gate", kind |-> "commit", col |-> c, id |-> i, claim |-> [hash |-> h, case |-> case],
             todo |-> <<>>, out |-> <<>>]
    <2> DEFINE cl == [hash |-> h, case |-> case]
               y  == [Idle EXCEPT !.pc = "gate"]
               z  == [y EXCEPT !.kind = "commit"]
               u  == [z EXCEPT !.col = c]
               v  == [u EXCEPT !.id = i]
    <2>1. y = [pc |-> "gate", kind |-> "none", col |-> "none", id |-> 0,
               claim |-> [hash |-> 0, case |-> "lower"], todo |-> <<>>, out |-> <<>>]
      BY DEF Idle
    <2> HIDE DEF cl
    <2>2. w = [v EXCEPT !.claim = cl]
      BY ZenonT(20) DEF cl
    <2> HIDE DEF y
    <2>3. z = [pc |-> "gate", kind |-> "commit", col |-> "none", id |-> 0,
               claim |-> [hash |-> 0, case |-> "lower"], todo |-> <<>>, out |-> <<>>]
      BY <2>1
    <2> HIDE DEF z
    <2>4. u = [pc |-> "gate", kind |-> "commit", col |-> c, id |-> 0,
               claim |-> [hash |-> 0, case |-> "lower"], todo |-> <<>>, out |-> <<>>]
      BY <2>3
    <2> HIDE DEF u
    <2>5. v = [pc |-> "gate", kind |-> "commit", col |-> c, id |-> i,
               claim |-> [hash |-> 0, case |-> "lower"], todo |-> <<>>, out |-> <<>>]
      BY <2>4
    <2> HIDE DEF v
    <2>6. [v EXCEPT !.claim = cl] = [pc |-> "gate", kind |-> "commit", col |-> c, id |-> i,
               claim |-> cl, todo |-> <<>>, out |-> <<>>]
      BY <2>5
    <2> QED BY <2>2, <2>6 DEF cl
  <1>2. IsRequest(w)
    <2> HIDE DEF w
    <2> QED BY <1>1, UploadAssumption, EmptySeq DEF IsRequest, Ids
  <1>3. req' = [req EXCEPT ![r] = w]
    BY DEF CommitBegin, Begin
  <1> HIDE DEF w
  <1>4. ReqShape' /\ OthersStay(r) /\ req'[r] = w
    BY <1>2, <1>3 DEF ReqShape, OthersStay
  <1> QED BY <1>1, <1>4

\* A fetch or a feed begins with files and without a claim.
LEMMA StreamMoves ==
  ASSUME ReqShape, NEW r \in Requests, NEW c, NEW files, StreamBegin(r, c, files)
  PROVE  /\ ReqShape' /\ OthersStay(r)
         /\ req'[r].pc = "fetch" /\ req'[r].kind = "stream" /\ req'[r].out = <<>>
         /\ req'[r].claim = [hash |-> 0, case |-> "lower"]
  <1> DEFINE w == [Idle EXCEPT !.pc = "fetch", !.kind = "stream", !.col = c, !.todo = files]
  <1>1. w = [pc |-> "fetch", kind |-> "stream", col |-> c, id |-> 0, claim |-> [hash |-> 0, case |-> "lower"],
             todo |-> files, out |-> <<>>]
    <2> DEFINE y  == [Idle EXCEPT !.pc = "fetch"]
               z  == [y EXCEPT !.kind = "stream"]
               u  == [z EXCEPT !.col = c]
    <2>1. y = [pc |-> "fetch", kind |-> "none", col |-> "none", id |-> 0,
               claim |-> [hash |-> 0, case |-> "lower"], todo |-> <<>>, out |-> <<>>]
      BY DEF Idle
    <2>2. w = [u EXCEPT !.todo = files]
      BY ZenonT(20)
    <2> HIDE DEF y
    <2>3. z = [pc |-> "fetch", kind |-> "stream", col |-> "none", id |-> 0,
               claim |-> [hash |-> 0, case |-> "lower"], todo |-> <<>>, out |-> <<>>]
      BY <2>1
    <2> HIDE DEF z
    <2>4. u = [pc |-> "fetch", kind |-> "stream", col |-> c, id |-> 0,
               claim |-> [hash |-> 0, case |-> "lower"], todo |-> <<>>, out |-> <<>>]
      BY <2>3
    <2> HIDE DEF u
    <2> QED BY <2>2, <2>4
  <1>2. IsRequest(w)
    <2> HIDE DEF w
    <2> QED BY <1>1, EmptySeq DEF IsRequest
  <1>3. req' = [req EXCEPT ![r] = w]
    BY DEF StreamBegin, Begin
  <1> HIDE DEF w
  <1>4. ReqShape' /\ OthersStay(r) /\ req'[r] = w
    BY <1>2, <1>3 DEF ReqShape, OthersStay
  <1> QED BY <1>1, <1>4

\* A file is hashed and verified, or refused.
LEMMA FetchMoves ==
  ASSUME ReqShape, NEW r \in Requests, Fetch(r)
  PROVE  /\ ReqShape' /\ OthersStay(r) /\ req'[r].kind = req[r].kind
         /\ req'[r].id = req[r].id /\ req'[r].col = req[r].col
         /\ \/ /\ req'[r].pc \in {"fetch", "done"} /\ req'[r].claim = req[r].claim
               /\ req'[r].out # <<>> /\ Last(req'[r].out) = "rejected"
            \/ /\ req'[r].pc = "gate" /\ req'[r].todo = req[r].todo /\ StreamAccepts(Head(req[r].todo))
               /\ req'[r].claim = [hash |-> Head(req[r].todo).hash, case |-> "lower"]
  <1> DEFINE x == req[r]
             c == [hash |-> Head(x.todo).hash, case |-> "lower"]
             w == [x EXCEPT !.pc = "gate", !.claim = c]
  <1>1. IsRequest(x) /\ req = [q \in Requests |-> req[q]]
    BY DEF ReqShape
  <1> HIDE DEF c
  <1>2. w = [pc |-> "gate", kind |-> x.kind, col |-> x.col, id |-> x.id, claim |-> c, todo |-> x.todo, out |-> x.out]
    BY <1>1, PcAndClaim
  <1>3. IsRequest(w)
    <2> HIDE DEF w
    <2> QED BY <1>1, <1>2 DEF IsRequest
  <1>4. CASE StreamAccepts(Head(x.todo))
    <2>1. req' = [req EXCEPT ![r] = w]
      BY <1>1, <1>4 DEF Fetch, c
    <2> HIDE DEF w
    <2>2. ReqShape' /\ OthersStay(r) /\ req'[r] = w
      BY <1>3, <2>1 DEF ReqShape, OthersStay
    <2> QED BY <1>2, <1>4, <2>2 DEF c
  <1>5. CASE ~StreamAccepts(Head(x.todo))
    BY <1>5, FinishMoves DEF Fetch
  <1> QED BY <1>4, <1>5

\* A file is stored under a new id.
LEMMA StoreMoves ==
  ASSUME ReqShape, next \in Nat, NEW r \in Requests, Store(r)
  PROVE  /\ ReqShape' /\ OthersStay(r)
         /\ req'[r].pc = "insert" /\ req'[r].id = next /\ req'[r].claim = req[r].claim
         /\ req'[r].col = req[r].col /\ req'[r].kind = req[r].kind /\ req'[r].out = req[r].out
  <1> DEFINE x == req[r]
             w == [x EXCEPT !.pc = "insert", !.id = next]
  <1>1. IsRequest(x) /\ req = [q \in Requests |-> req[q]]
    BY DEF ReqShape
  <1>2. w = [pc |-> "insert", kind |-> x.kind, col |-> x.col, id |-> next, claim |-> x.claim,
             todo |-> x.todo, out |-> x.out]
    BY <1>1, PcAndId
  <1>3. IsRequest(w)
    <2> HIDE DEF w
    <2> QED BY <1>1, <1>2 DEF IsRequest
  <1>4. req' = [req EXCEPT ![r] = w]
    BY <1>1 DEF Store
  <1> HIDE DEF w
  <1>5. ReqShape' /\ OthersStay(r) /\ req'[r] = w
    BY <1>3, <1>4 DEF ReqShape, OthersStay
  <1> QED BY <1>2, <1>5

\* The request is over, or its connection or process is.
LEMMA EndMoves ==
  ASSUME ReqShape, NEW r \in Requests, req' = [req EXCEPT ![r] = Idle]
  PROVE  ReqShape' /\ OthersStay(r) /\ req'[r] = Idle
  BY IdleShape DEF ReqShape, OthersStay
-----------------------------------------------------------------------------
\* The types.  A request that verifies came by the commit; whoever may insert or
\* send names an id that was handed out.
UploadTypeOK ==
  /\ ReqShape /\ next \in Nat \ {0} /\ depth \in {0, MaxBacklog + 1}
  /\ docs = [i \in Ids |-> docs[i]] /\ raw = [i \in Ids |-> raw[i]]
  /\ jobs \in [Ids -> Nat] /\ answered \in [Ids -> Nat] /\ inserted \in [Ids -> Nat]
  /\ over \in [Requests -> Nat]
  /\ \A r \in Requests :
       /\ req[r].pc = "verify" => req[r].kind = "commit"
       /\ req[r].kind = "commit" \/ req[r].pc \in {"insert", "send"}
            => req[r].id \in Ids /\ req[r].id < next

\* Next, with its alternatives side by side.
SideStep ==
  \/ Presign \/ \E d \in {0, MaxBacklog + 1} : Backlog(d)
  \/ \E i \in Ids : Delete(i) \/ \E b \in Bodies : Put(i, b)

\* A step of a request.
StepOf(r) ==
  \/ Fetch(r) \/ FetchFails(r) \/ Gate(r) \/ FindDuplicate(r) \/ Verify(r)
  \/ Store(r) \/ StoreFails(r) \/ Insert(r) \/ Send(r) \/ SendFails(r) \/ Dies(r) \/ Close(r)
  \/ \E c, h : \E i \in Ids, case \in ClientCases : CommitBegin(r, i, c, h, case)
  \/ \E c, files : StreamBegin(r, c, files)

\* A step is one of a request, or of the client and the operator.
LEMMA NextCases ==
  ASSUME [Next]_vars
  PROVE  UNCHANGED vars \/ SideStep \/ \E r \in Requests : StepOf(r)
  <1>1. CASE UNCHANGED vars
    BY <1>1
  <1>2. CASE Presign \/ (\E d \in {0, MaxBacklog + 1} : Backlog(d))
             \/ (\E i \in Ids : Delete(i) \/ \E b \in Bodies : Put(i, b))
    BY <1>2 DEF SideStep
  <1>3. ASSUME NEW r \in Requests,
               \/ RequestStep(r) \/ FetchFails(r) \/ StoreFails(r) \/ SendFails(r) \/ Dies(r)
               \/ \E c \in Collections :
                    \/ \E i \in Ids, b \in Bodies, case \in ClientCases : CommitBegin(r, i, c, b.hash, case)
                    \/ \E b \in Bodies : StreamBegin(r, c, <<b>>)
                    \/ \E f \in Feeds : \/ StreamBegin(r, c, SyncRefs(f))
                                      \/ \E e \in DOMAIN f : \E l \in ToSet(Browse(f)[e]) :
                                           StreamBegin(r, c, <<l.body>>)
        PROVE  StepOf(r)
    <2>1. CASE RequestStep(r) \/ FetchFails(r) \/ StoreFails(r) \/ SendFails(r) \/ Dies(r)
      BY <2>1 DEF RequestStep, StepOf
    <2>2. ASSUME NEW c \in Collections, NEW i \in Ids, NEW b \in Bodies, NEW case \in ClientCases,
                 CommitBegin(r, i, c, b.hash, case)
          PROVE  StepOf(r)
      BY <2>2 DEF StepOf
    <2>3. ASSUME NEW c, NEW files, StreamBegin(r, c, files) PROVE StepOf(r)
      BY <2>3 DEF StepOf
    <2> QED BY <1>3, <2>1, <2>2, <2>3
  <1> QED BY <1>1, <1>2, <1>3 DEF Next

\* What a step must leave of the request that takes it.
IdHeld(r) ==
  /\ req[r].pc = "verify" => req[r].kind = "commit"
  /\ req[r].kind = "commit" \/ req[r].pc \in {"insert", "send"} => req[r].id \in Ids /\ req[r].id < next

\* Ids given out to others stay theirs.
LEMMA IdsStay ==
  ASSUME UploadTypeOK, NEW r \in Requests, OthersStay(r), IdHeld(r)', next' \in Nat, next <= next'
  PROVE  \A q \in Requests : IdHeld(q)'
  <1>1. SUFFICES ASSUME NEW q \in Requests, q # r PROVE IdHeld(q)'
    OBVIOUS
  <1>2. req'[q] = req[q] /\ IdHeld(q) /\ next \in Nat /\ (req[q].id \in Ids => req[q].id \in Nat)
    BY <1>1, UploadAssumption DEF OthersStay, UploadTypeOK, IdHeld, Ids
  <1> QED BY <1>2 DEF IdHeld

\* A step that only moves a request.
LEMMA QuietType ==
  ASSUME UploadTypeOK, NEW r \in Requests, ReqShape', OthersStay(r), IdHeld(r)',
         UNCHANGED <<next, docs, raw, jobs, depth, answered, inserted, over>>
  PROVE  UploadTypeOK'
  <1>1. next' \in Nat /\ next <= next'
    BY DEF UploadTypeOK
  <1>2. \A q \in Requests : IdHeld(q)'
    BY <1>1, IdsStay
  <1> QED BY <1>2 DEF UploadTypeOK, IdHeld

\* What clients and operators do keeps the types.
LEMMA SideType ==
  ASSUME UploadTypeOK, SideStep
  PROVE  UploadTypeOK'
  <1> USE UploadAssumption
  <1>1. CASE Presign
    BY <1>1 DEF Presign, UploadTypeOK, ReqShape, IsRequest, Ids
  <1>2. ASSUME NEW d \in {0, MaxBacklog + 1}, Backlog(d) PROVE UploadTypeOK'
    <2>1. over' \in [Requests -> Nat] /\ depth' \in {0, MaxBacklog + 1}
      BY <1>2 DEF Backlog, UploadTypeOK
    <2> QED BY <1>2, <2>1 DEF Backlog, UploadTypeOK, ReqShape, IsRequest
  <1>3. ASSUME NEW i \in Ids, Delete(i) PROVE UploadTypeOK'
    <2>1. docs' = [j \in Ids |-> docs'[j]]
      BY <1>3 DEF Delete, UploadTypeOK
    <2> QED BY <1>3, <2>1 DEF Delete, UploadTypeOK, ReqShape, IsRequest, Fault
  <1>4. ASSUME NEW i \in Ids, NEW b \in Bodies, Put(i, b) PROVE UploadTypeOK'
    <2>1. raw' = [j \in Ids |-> raw'[j]]
      BY <1>4 DEF Put, UploadTypeOK
    <2> QED BY <1>4, <2>1 DEF Put, UploadTypeOK, ReqShape, IsRequest
  <1> QED BY <1>1, <1>2, <1>3, <1>4 DEF SideStep

\* What requests do keeps the types.
LEMMA RequestType ==
  ASSUME UploadTypeOK, NEW r \in Requests, StepOf(r)
  PROVE  UploadTypeOK'
  <1> USE UploadAssumption
  <1>1. ReqShape /\ IdHeld(r)
    BY DEF UploadTypeOK, IdHeld
  <1>2. ASSUME NEW s \in {"rejected", "duplicate", "accepted"}, Finish(r, s), next' = next
        PROVE  ReqShape' /\ OthersStay(r) /\ IdHeld(r)'
    BY <1>1, <1>2, FinishMoves DEF IdHeld
  <1>3. ASSUME NEW pc, Go(r, pc), pc \in {"insert", "send"} => req[r].kind = "commit" \/ req[r].pc = "insert",
               pc = "verify" => req[r].kind = "commit", next' = next
        PROVE  ReqShape' /\ OthersStay(r) /\ IdHeld(r)'
    BY <1>1, <1>3, GoMoves DEF IdHeld, Moves
  <1>4. CASE Fetch(r) \/ FetchFails(r) \/ StoreFails(r) \/ SendFails(r)
    <2>1. UNCHANGED <<next, docs, raw, jobs, depth, answered, inserted, over>>
      BY <1>4 DEF Fetch, FetchFails, StoreFails, SendFails
    <2>2. CASE Fetch(r)
      <3>1. ReqShape' /\ OthersStay(r) /\ req'[r].kind = req[r].kind
            /\ req'[r].pc \in {"fetch", "done", "gate"} /\ req'[r].id = req[r].id
        BY <1>1, <2>2, FetchMoves
      <3> QED BY <1>1, <2>1, <3>1, QuietType DEF IdHeld
    <2>3. CASE FetchFails(r) \/ StoreFails(r) \/ SendFails(r)
      <3>1. Finish(r, "rejected")
        BY <2>3 DEF FetchFails, StoreFails, SendFails
      <3> QED BY <1>2, <2>1, <3>1, QuietType
    <2> QED BY <1>4, <2>2, <2>3
  <1>5. CASE Gate(r) \/ FindDuplicate(r) \/ Verify(r)
    <2>1. UNCHANGED <<next, docs, raw, jobs, depth, answered, inserted, over>>
      BY <1>5 DEF Gate, FindDuplicate, Verify
    <2>2. \/ \E s \in {"rejected", "duplicate", "accepted"} : Finish(r, s)
          \/ Go(r, "dup") \/ (req[r].kind = "commit" /\ Go(r, "verify")) \/ Go(r, "store")
          \/ (req[r].kind = "commit" /\ Go(r, "insert"))
      BY <1>1, <1>5 DEF Gate, FindDuplicate, Verify, IdHeld
    <2>3. ReqShape' /\ OthersStay(r) /\ IdHeld(r)'
      BY <1>2, <1>3, <2>1, <2>2
    <2> QED BY <2>1, <2>3, QuietType
  <1>6. CASE Store(r)
    <2>1. next \in Nat /\ next > 0 /\ next \in Ids /\ next' = next + 1
      BY <1>6 DEF Store, UploadTypeOK, Ids
    <2>2. ReqShape' /\ OthersStay(r) /\ req'[r].pc = "insert" /\ req'[r].id = next
      BY <1>1, <1>6, <2>1, StoreMoves
    <2>3. IdHeld(r)' /\ next' \in Nat /\ next <= next' /\ next' # 0
      BY <2>1, <2>2 DEF IdHeld
    <2>4. \A q \in Requests : IdHeld(q)'
      BY <2>2, <2>3, IdsStay
    <2>5. raw' = [j \in Ids |-> raw'[j]]
      BY <1>6 DEF Store, UploadTypeOK
    <2> QED BY <1>6, <2>2, <2>3, <2>4, <2>5 DEF Store, UploadTypeOK, IdHeld
  <1>7. CASE Insert(r)
    <2>1. ReqShape' /\ OthersStay(r) /\ IdHeld(r)'
      BY <1>2, <1>3, <1>7 DEF Insert
    <2>2. next' \in Nat /\ next <= next' /\ next' = next /\ next # 0
      BY <1>7 DEF Insert, UploadTypeOK
    <2>3. \A q \in Requests : IdHeld(q)'
      BY <2>1, <2>2, IdsStay
    <2>4. docs' = [j \in Ids |-> docs'[j]] /\ inserted' \in [Ids -> Nat] /\ over' \in [Requests -> Nat]
      BY <1>7 DEF Insert, UploadTypeOK
    <2> QED BY <1>7, <2>1, <2>2, <2>3, <2>4 DEF Insert, UploadTypeOK, IdHeld
  <1>8. CASE Send(r)
    <2>1. ReqShape' /\ OthersStay(r) /\ IdHeld(r)'
      BY <1>2, <1>8 DEF Send
    <2>2. next' \in Nat /\ next <= next' /\ next' = next /\ next # 0
      BY <1>8 DEF Send, UploadTypeOK
    <2>3. \A q \in Requests : IdHeld(q)'
      BY <2>1, <2>2, IdsStay
    <2>4. jobs' \in [Ids -> Nat] /\ answered' \in [Ids -> Nat]
      BY <1>8 DEF Send, UploadTypeOK
    <2> QED BY <1>8, <2>1, <2>2, <2>3, <2>4 DEF Send, UploadTypeOK, IdHeld
  <1>9. CASE Dies(r) \/ Close(r)
    <2>1. ReqShape' /\ OthersStay(r) /\ req'[r] = Idle
      BY <1>1, <1>9, EndMoves DEF Dies, Close
    <2>2. UNCHANGED <<next, docs, raw, jobs, depth, answered, inserted, over>>
      BY <1>9 DEF Dies, Close
    <2>3. IdHeld(r)'
      BY <2>1 DEF IdHeld, Idle
    <2> QED BY <2>1, <2>2, <2>3, QuietType
  <1>10. ASSUME NEW i \in Ids, NEW c, NEW h, NEW case \in ClientCases, CommitBegin(r, i, c, h, case)
         PROVE  UploadTypeOK'
    <2>1. ReqShape' /\ OthersStay(r) /\ req'[r].pc = "gate" /\ req'[r].id = i /\ i < next
      BY <1>1, <1>10, CommitMoves DEF CommitBegin
    <2>2. UNCHANGED <<next, docs, raw, jobs, depth, answered, inserted, over>>
      BY <1>10 DEF CommitBegin, Begin
    <2>3. IdHeld(r)'
      BY <2>1, <2>2 DEF IdHeld
    <2> QED BY <2>1, <2>2, <2>3, QuietType
  <1>11. ASSUME NEW c, NEW files, StreamBegin(r, c, files)
         PROVE  UploadTypeOK'
    <2>1. ReqShape' /\ OthersStay(r) /\ req'[r].pc = "fetch" /\ req'[r].kind = "stream"
      BY <1>1, <1>11, StreamMoves
    <2>2. UNCHANGED <<next, docs, raw, jobs, depth, answered, inserted, over>>
      BY <1>11 DEF StreamBegin, Begin
    <2>3. IdHeld(r)'
      BY <2>1 DEF IdHeld
    <2> QED BY <2>1, <2>2, <2>3, QuietType
  <1> QED BY <1>4, <1>5, <1>6, <1>7, <1>8, <1>9, <1>10, <1>11 DEF StepOf

\* Nothing is uploaded at first.
LEMMA UploadTypeInit == Init => UploadTypeOK
  <1> SUFFICES ASSUME Init PROVE UploadTypeOK
    OBVIOUS
  <1>1. \A r \in Requests : req[r] = Idle
    BY DEF Init
  <1>2. ReqShape
    BY <1>1, IdleShape DEF Init, ReqShape
  <1>3. \A r \in Requests : req[r].pc = "idle" /\ req[r].kind = "none"
    BY <1>1 DEF Idle
  <1> QED BY <1>2, <1>3, UploadAssumption DEF Init, UploadTypeOK

\* Every step keeps the types.
LEMMA UploadTypeStep == UploadTypeOK /\ [Next]_vars => UploadTypeOK'
  <1> SUFFICES ASSUME UploadTypeOK, [Next]_vars PROVE UploadTypeOK'
    OBVIOUS
  <1>1. CASE UNCHANGED vars
    BY <1>1 DEF vars, UploadTypeOK, ReqShape, IsRequest
  <1> QED BY <1>1, NextCases, SideType, RequestType
-----------------------------------------------------------------------------
(* The overshoot                                                           *)

\* A request that got a document in over the cap is past its insert: it meets
\* the gate before the next one, and the gate is closed while the backlog is
\* over the cap.
AtMostOne(r) ==
  over[r] = 0 \/ (over[r] = 1 /\ depth > MaxBacklog /\ req[r].pc \in {"idle", "fetch", "gate", "send", "done"})

OvershootInv == \A r \in Requests : AtMostOne(r)

\* A request is past the gate with one file at a time.
LEMMA OvershootStep == UploadTypeOK /\ OvershootInv /\ [Next]_vars => OvershootInv'
  <1> SUFFICES ASSUME UploadTypeOK, OvershootInv, [Next]_vars PROVE OvershootInv'
    OBVIOUS
  <1> USE UploadAssumption
  <1>1. CASE UNCHANGED vars
    BY <1>1 DEF vars, OvershootInv, AtMostOne
  <1>2. CASE SideStep
    <2>1. ASSUME NEW d \in {0, MaxBacklog + 1}, Backlog(d) PROVE OvershootInv'
      BY <2>1 DEF Backlog, OvershootInv, AtMostOne, UploadTypeOK
    <2>2. CASE UNCHANGED <<req, depth, over>>
      BY <2>2 DEF OvershootInv, AtMostOne
    <2> QED BY <1>2, <2>1, <2>2 DEF SideStep, Presign, Delete, Put
  <1>3. ASSUME NEW r \in Requests, StepOf(r) PROVE OvershootInv'
    <2>1. ReqShape /\ AtMostOne(r) /\ depth \in Nat /\ over[r] \in Nat
      BY DEF UploadTypeOK, OvershootInv
    <2>2. depth' = depth
      BY <1>3 DEF StepOf, Fetch, FetchFails, Gate, FindDuplicate, Verify, Store, StoreFails, Insert,
                  Send, SendFails, Dies, Close, CommitBegin, StreamBegin, Begin
    <2>3. ASSUME OthersStay(r), AtMostOne(r)', \A q \in Requests : q # r => over'[q] = over[q]
          PROVE  OvershootInv'
      BY <2>2, <2>3 DEF OvershootInv, AtMostOne, OthersStay
    <2>4. CASE Fetch(r) \/ FetchFails(r) \/ StoreFails(r) \/ Send(r) \/ SendFails(r)
      <3>1. OthersStay(r) /\ over' = over /\ req'[r].pc \in {"fetch", "done", "gate"}
        BY <2>1, <2>4, FinishMoves, FetchMoves DEF Fetch, FetchFails, StoreFails, Send, SendFails
      <3> QED BY <2>1, <2>2, <2>3, <3>1 DEF AtMostOne
    <2>5. CASE Gate(r)
      <3>1. OthersStay(r) /\ over' = over /\ (depth <= MaxBacklog \/ req'[r].pc \in {"fetch", "done"})
        BY <2>1, <2>5, FinishMoves, GoMoves DEF Gate
      <3> QED BY <2>1, <2>2, <2>3, <3>1 DEF AtMostOne
    <2>6. CASE FindDuplicate(r) \/ Verify(r) \/ Store(r)
      <3>1. over[r] = 0 /\ over' = over
        BY <2>1, <2>6 DEF AtMostOne, FindDuplicate, Verify, Store
      <3>2. OthersStay(r)
        BY <2>1, <2>6, FinishMoves, GoMoves, StoreMoves DEF FindDuplicate, Verify, UploadTypeOK
      <3> QED BY <2>3, <3>1, <3>2 DEF AtMostOne
    <2>7. CASE Insert(r)
      <3>1. over[r] = 0
        BY <2>1, <2>7 DEF AtMostOne, Insert
      <3>2. OthersStay(r) /\ (over'[r] = 0 \/ (over'[r] = 1 /\ depth > MaxBacklog /\ req'[r].pc = "send"))
            /\ \A q \in Requests : q # r => over'[q] = over[q]
        BY <2>1, <2>7, <3>1, FinishMoves, GoMoves DEF Insert, UploadTypeOK, Moves
      <3> QED BY <2>2, <2>3, <3>2 DEF AtMostOne
    <2>8. CASE Dies(r) \/ Close(r)
      <3>1. OthersStay(r) /\ over' = over /\ req'[r].pc = "idle"
        BY <2>1, <2>8, EndMoves DEF Dies, Close, Idle
      <3> QED BY <2>1, <2>2, <2>3, <3>1 DEF AtMostOne
    <2>9. ASSUME NEW i \in Ids, NEW c, NEW h, NEW case \in ClientCases, CommitBegin(r, i, c, h, case)
          PROVE  OvershootInv'
      <3>1. OthersStay(r) /\ over' = over /\ req'[r].pc = "gate"
        BY <2>1, <2>9, CommitMoves DEF CommitBegin, Begin
      <3> QED BY <2>1, <2>2, <2>3, <3>1 DEF AtMostOne
    <2>10. ASSUME NEW c, NEW files, StreamBegin(r, c, files) PROVE OvershootInv'
      <3>1. OthersStay(r) /\ over' = over /\ req'[r].pc = "fetch"
        BY <2>1, <2>10, StreamMoves DEF StreamBegin, Begin
      <3> QED BY <2>1, <2>2, <2>3, <3>1 DEF AtMostOne
    <2> QED BY <1>3, <2>4, <2>5, <2>6, <2>7, <2>8, <2>9, <2>10 DEF StepOf
  <1> QED BY <1>1, <1>2, <1>3, NextCases

\* However the backlog moves between the gate of a request and its insert, no
\* request, however many files its feed has, gets more than one document in while
\* the backlog stays over the cap (handleCommit, ingestFromStream).
THEOREM OvershootBounded == Spec => []BoundedOvershoot
  <1>1. Init => OvershootInv
    BY DEF Init, OvershootInv, AtMostOne
  <1>2. UploadTypeOK /\ OvershootInv => BoundedOvershoot
    BY DEF OvershootInv, AtMostOne, BoundedOvershoot
  <1> QED BY <1>1, <1>2, UploadTypeInit, UploadTypeStep, OvershootStep, PTL DEF Spec
-----------------------------------------------------------------------------
(* One job and one answer for each row                                     *)

\* The requests that inserted the row i and have not sent its job yet.
Pending(i) == {r \in Requests : req[r].pc = "send" /\ req[r].id = i}

\* A row pays for the job and the answer of the request that inserted it.
JobsPaid ==
  \A i \in Ids :
    /\ IsFiniteSet(Pending(i))
    /\ answered[i] <= jobs[i] /\ jobs[i] + Cardinality(Pending(i)) <= inserted[i]

\* The requests about to send when one of them takes a step.
LEMMA PendingDrops ==
  ASSUME NEW r \in Requests, OthersStay(r), req'[r].pc # "send"
  PROVE  \A i \in Ids : Pending(i)' = Pending(i) \ {r}
  BY DEF Pending, OthersStay

\* Inserts that are given up owe no job any more.
LEMMA PendingShrinks ==
  ASSUME JobsPaid, UploadTypeOK, \A i \in Ids : Pending(i)' \subseteq Pending(i),
         UNCHANGED <<jobs, answered, inserted>>
  PROVE  JobsPaid'
  <1>1. SUFFICES ASSUME NEW i \in Ids
                 PROVE  /\ IsFiniteSet(Pending(i)') /\ answered[i] <= jobs[i]
                        /\ jobs[i] + Cardinality(Pending(i)') <= inserted[i]
    BY DEF JobsPaid
  <1> DEFINE P == Pending(i)
             Q == Pending(i)'
  <1>2. IsFiniteSet(P) /\ answered[i] <= jobs[i] /\ jobs[i] + Cardinality(P) <= inserted[i] /\ Q \subseteq P
    BY <1>1 DEF JobsPaid
  <1>3. jobs[i] \in Nat /\ inserted[i] \in Nat
    BY <1>1 DEF UploadTypeOK
  <1> HIDE DEF P, Q
  <1>4. IsFiniteSet(Q) /\ Cardinality(Q) <= Cardinality(P) /\ Cardinality(Q) \in Nat /\ Cardinality(P) \in Nat
    BY <1>2, FS_Subset, FS_CardinalityType
  <1>5. IsFiniteSet(Q) /\ answered[i] <= jobs[i] /\ jobs[i] + Cardinality(Q) <= inserted[i]
    BY <1>2, <1>3, <1>4
  <1> QED BY <1>5 DEF Q

\* The insert adds the request to those that must send.
LEMMA InsertPays ==
  ASSUME JobsPaid, UploadTypeOK, NEW r \in Requests, OthersStay(r), req[r].pc = "insert",
         req'[r].pc = "send", req'[r].id = req[r].id, UNCHANGED <<jobs, answered>>,
         inserted' = [inserted EXCEPT ![req[r].id] = @ + 1]
  PROVE  JobsPaid'
  <1>1. SUFFICES ASSUME NEW i \in Ids
                 PROVE  /\ IsFiniteSet(Pending(i)') /\ answered[i] <= jobs[i]
                        /\ jobs[i] + Cardinality(Pending(i)') <= inserted'[i]
    BY DEF JobsPaid
  <1> DEFINE P == Pending(i)
             Q == Pending(i)'
  <1>2. IsFiniteSet(P) /\ answered[i] <= jobs[i] /\ jobs[i] + Cardinality(P) <= inserted[i]
    BY <1>1 DEF JobsPaid
  <1>3. jobs[i] \in Nat /\ inserted[i] \in Nat
    BY <1>1 DEF UploadTypeOK
  <1>4. r \notin P
    BY DEF Pending
  <1>5. CASE req[r].id = i
    <2>1. Q = P \cup {r}
      BY <1>5 DEF Pending, OthersStay
    <2>2. inserted'[i] = inserted[i] + 1
      BY <1>1, <1>5 DEF UploadTypeOK
    <2> HIDE DEF P, Q
    <2>3. IsFiniteSet(Q) /\ Cardinality(Q) = Cardinality(P) + 1 /\ Cardinality(P) \in Nat
      BY <1>2, <1>4, <2>1, FS_AddElement, FS_CardinalityType
    <2>4. jobs[i] + Cardinality(Q) <= inserted'[i]
      BY <1>2, <1>3, <2>2, <2>3
    <2> QED BY <1>2, <2>3, <2>4 DEF Q
  <1>6. CASE req[r].id # i
    <2>1. Q = P
      BY <1>6 DEF Pending, OthersStay
    <2>2. inserted'[i] = inserted[i]
      BY <1>1, <1>6 DEF UploadTypeOK
    <2> HIDE DEF P
    <2> QED BY <1>2, <2>1, <2>2
  <1> QED BY <1>5, <1>6

\* The job and the answer take the place of the request.
LEMMA SendPays ==
  ASSUME JobsPaid, UploadTypeOK, NEW r \in Requests, OthersStay(r), req[r].pc = "send",
         req'[r].pc # "send", UNCHANGED inserted,
         jobs' = [jobs EXCEPT ![req[r].id] = @ + 1], answered' = [answered EXCEPT ![req[r].id] = @ + 1]
  PROVE  JobsPaid'
  <1>1. SUFFICES ASSUME NEW i \in Ids
                 PROVE  /\ IsFiniteSet(Pending(i)') /\ answered'[i] <= jobs'[i]
                        /\ jobs'[i] + Cardinality(Pending(i)') <= inserted[i]
    BY DEF JobsPaid
  <1> DEFINE P == Pending(i)
             Q == Pending(i)'
  <1>2. IsFiniteSet(P) /\ answered[i] <= jobs[i] /\ jobs[i] + Cardinality(P) <= inserted[i]
    BY <1>1 DEF JobsPaid
  <1>3. jobs[i] \in Nat /\ inserted[i] \in Nat /\ answered[i] \in Nat
    BY <1>1 DEF UploadTypeOK
  <1>4. Q = P \ {r}
    BY <1>1, PendingDrops
  <1>5. CASE req[r].id = i
    <2>1. r \in P
      BY <1>5 DEF Pending
    <2>2. jobs'[i] = jobs[i] + 1 /\ answered'[i] = answered[i] + 1
      BY <1>1, <1>5 DEF UploadTypeOK
    <2> HIDE DEF P, Q
    <2>3. IsFiniteSet(Q) /\ Cardinality(Q) = Cardinality(P) - 1 /\ Cardinality(P) \in Nat
      BY <1>2, <1>4, <2>1, FS_RemoveElement, FS_CardinalityType
    <2>4. jobs'[i] + Cardinality(Q) <= inserted[i] /\ answered'[i] <= jobs'[i]
      BY <1>2, <1>3, <2>2, <2>3
    <2> QED BY <2>3, <2>4 DEF Q
  <1>6. CASE req[r].id # i
    <2>1. Q = P
      BY <1>4, <1>6 DEF Pending
    <2>2. jobs'[i] = jobs[i] /\ answered'[i] = answered[i]
      BY <1>1, <1>6 DEF UploadTypeOK
    <2> HIDE DEF P
    <2> QED BY <1>2, <2>1, <2>2
  <1> QED BY <1>5, <1>6

\* Each insert sends one job at most, and each answer has had its own.
LEMMA JobsPaidStep == UploadTypeOK /\ JobsPaid /\ [Next]_vars => JobsPaid'
  <1> SUFFICES ASSUME UploadTypeOK, JobsPaid, [Next]_vars PROVE JobsPaid'
    OBVIOUS
  <1>1. CASE UNCHANGED <<req, jobs, answered, inserted>>
    BY <1>1, PendingShrinks DEF Pending
  <1>2. UNCHANGED vars \/ SideStep => UNCHANGED <<req, jobs, answered, inserted>>
    BY DEF vars, SideStep, Presign, Backlog, Delete, Put
  <1>3. ASSUME NEW r \in Requests, StepOf(r) PROVE JobsPaid'
    <2>1. ReqShape
      BY DEF UploadTypeOK
    <2>2. ASSUME OthersStay(r), req'[r].pc # "send", UNCHANGED <<jobs, answered, inserted>>
          PROVE  JobsPaid'
      BY <2>2, PendingDrops, PendingShrinks
    <2>3. CASE Fetch(r) \/ FetchFails(r) \/ StoreFails(r) \/ SendFails(r) \/ Gate(r) \/ FindDuplicate(r)
               \/ Verify(r) \/ Store(r)
      <3>1. OthersStay(r) /\ req'[r].pc # "send"
        <4>1. CASE Fetch(r)
          BY <2>1, <4>1, FetchMoves
        <4>2. CASE Store(r)
          BY <2>1, <4>2, StoreMoves DEF UploadTypeOK
        <4>3. ASSUME NEW s \in {"rejected", "duplicate", "accepted"}, Finish(r, s)
              PROVE  OthersStay(r) /\ req'[r].pc # "send"
          BY <2>1, <4>3, FinishMoves
        <4>4. ASSUME NEW pc, Go(r, pc), pc # "send" PROVE OthersStay(r) /\ req'[r].pc # "send"
          BY <2>1, <4>4, GoMoves DEF Moves
        <4> QED BY <2>3, <4>1, <4>2, <4>3, <4>4
                DEF FetchFails, StoreFails, SendFails, Gate, FindDuplicate, Verify
      <3> QED BY <2>2, <2>3, <3>1
              DEF Fetch, FetchFails, StoreFails, SendFails, Gate, FindDuplicate, Verify, Store
    <2>4. CASE Insert(r)
      <3>1. CASE Admits(r)
        <4>1. Go(r, "send") /\ inserted' = [inserted EXCEPT ![req[r].id] = @ + 1]
              /\ req[r].pc = "insert" /\ UNCHANGED <<jobs, answered>>
          BY <2>4, <3>1 DEF Insert
        <4>2. OthersStay(r) /\ req'[r].pc = "send" /\ req'[r].id = req[r].id
          BY <2>1, <4>1, GoMoves DEF Moves
        <4> QED BY <4>1, <4>2, InsertPays
      <3>2. CASE ~Admits(r)
        <4>1. Finish(r, "rejected") /\ UNCHANGED <<jobs, answered, inserted>>
          BY <2>4, <3>2 DEF Insert
        <4>2. OthersStay(r) /\ req'[r].pc # "send"
          BY <2>1, <4>1, FinishMoves
        <4> QED BY <2>2, <4>1, <4>2
      <3> QED BY <3>1, <3>2
    <2>5. CASE Send(r)
      <3>1. OthersStay(r) /\ req'[r].pc # "send"
        BY <2>1, <2>5, FinishMoves DEF Send
      <3>2. /\ req[r].pc = "send" /\ UNCHANGED inserted
            /\ jobs' = [jobs EXCEPT ![req[r].id] = @ + 1] /\ answered' = [answered EXCEPT ![req[r].id] = @ + 1]
        BY <2>5 DEF Send
      <3> QED BY <3>1, <3>2, SendPays
    <2>6. CASE Dies(r) \/ Close(r)
      <3>1. OthersStay(r) /\ req'[r].pc # "send"
        BY <2>1, <2>6, EndMoves DEF Dies, Close, Idle
      <3> QED BY <2>2, <2>6, <3>1 DEF Dies, Close
    <2>7. ASSUME NEW i \in Ids, NEW c, NEW h, NEW case \in ClientCases, CommitBegin(r, i, c, h, case)
          PROVE  JobsPaid'
      <3>1. OthersStay(r) /\ req'[r].pc # "send" /\ UNCHANGED <<jobs, answered, inserted>>
        BY <2>1, <2>7, CommitMoves DEF CommitBegin, Begin
      <3> QED BY <2>2, <3>1
    <2>8. ASSUME NEW c, NEW files, StreamBegin(r, c, files) PROVE JobsPaid'
      <3>1. OthersStay(r) /\ req'[r].pc # "send" /\ UNCHANGED <<jobs, answered, inserted>>
        BY <2>1, <2>8, StreamMoves DEF StreamBegin, Begin
      <3> QED BY <2>2, <3>1
    <2> QED BY <1>3, <2>3, <2>4, <2>5, <2>6, <2>7, <2>8 DEF StepOf
  <1> QED BY <1>1, <1>2, <1>3, NextCases

\* A document's commits may race and be repeated: no 202 without a job of its own,
\* no job without an insert of its own, whatever fails and whoever deletes
\* (handleCommit, ingestFromStream: the job is sent by the request that inserted).
THEOREM OneJobPerRow == Spec => []AcceptedOnce
  <1>1. Init => JobsPaid
    <2> SUFFICES ASSUME Init, NEW i \in Ids
                 PROVE  IsFiniteSet(Pending(i)) /\ answered[i] <= jobs[i]
                        /\ jobs[i] + Cardinality(Pending(i)) <= inserted[i]
      BY DEF JobsPaid
    <2>1. \A r \in Requests : req[r].pc # "send"
      BY DEF Init, Idle
    <2>2. Pending(i) = {}
      BY <2>1 DEF Pending
    <2>3. answered[i] = 0 /\ jobs[i] = 0 /\ inserted[i] = 0
      BY DEF Init
    <2> QED BY <2>2, <2>3, FS_EmptySet
  <1>2. UploadTypeOK /\ JobsPaid => AcceptedOnce
    <2> SUFFICES ASSUME UploadTypeOK, JobsPaid, NEW i \in Ids
                 PROVE  answered[i] <= jobs[i] /\ jobs[i] <= inserted[i]
      BY DEF AcceptedOnce
    <2>1. IsFiniteSet(Pending(i)) /\ jobs[i] \in Nat /\ inserted[i] \in Nat
      BY DEF JobsPaid, UploadTypeOK
    <2>2. Cardinality(Pending(i)) \in Nat
      BY <2>1, FS_CardinalityType
    <2> QED BY <2>1, <2>2 DEF JobsPaid
  <1> QED BY <1>1, <1>2, UploadTypeInit, UploadTypeStep, JobsPaidStep, PTL DEF Spec
-----------------------------------------------------------------------------
(* What an answer promises                                                 *)

\* The books of the collections, and those deleted from them.
Held == gone \cup {[col |-> w.col, hash |-> w.sha.hash] : w \in Rows}

Book(r) == [col |-> req[r].col, hash |-> req[r].claim.hash]

\* The requests that promise their book: one that inserted, and one that said so.
Promises(r) ==
  req[r].pc = "send" \/ (req[r].pc = "done" /\ req[r].out # <<>> /\ Last(req[r].out) # "rejected")

PromisesHeld == \A r \in Requests : Promises(r) => Book(r) \in Held

\* A row is no absent row.
LEMMA RowIsRow == \A c, h : [col |-> c, sha |-> h] # NoRow
  <1> SUFFICES ASSUME NEW c, NEW h, [col |-> c, sha |-> h] = NoRow PROVE FALSE
    OBVIOUS
  <1>1. DOMAIN [col |-> c, sha |-> h] = DOMAIN [col |-> "none"]
    BY DEF NoRow
  <1> QED BY <1>1

\* A row holds its content.
LEMMA RowsHold ==
  ASSUME NEW i \in Ids, docs[i] # NoRow
  PROVE  [col |-> docs[i].col, hash |-> docs[i].sha.hash] \in Held
  BY DEF Held, Rows

\* A row leaves only by a delete, which the history records.
LEMMA HeldGrows ==
  ASSUME gone \subseteq gone',
         \A i \in Ids : docs[i] # NoRow /\ docs'[i] # docs[i]
           => [col |-> docs[i].col, hash |-> docs[i].sha.hash] \in gone'
  PROVE  Held \subseteq Held'
  <1> SUFFICES ASSUME NEW b \in Held PROVE b \in Held'
    OBVIOUS
  <1>1. CASE b \in gone
    BY <1>1 DEF Held
  <1>2. CASE b \notin gone
    <2>1. PICK i \in Ids : docs[i] # NoRow /\ b = [col |-> docs[i].col, hash |-> docs[i].sha.hash]
      BY <1>2 DEF Held, Rows
    <2>2. CASE docs'[i] = docs[i]
      BY <2>1, <2>2 DEF Held, Rows
    <2>3. CASE docs'[i] # docs[i]
      BY <2>1, <2>3 DEF Held
    <2> QED BY <2>2, <2>3
  <1> QED BY <1>1, <1>2

\* What was held stays held or is recorded as deleted.
LEMMA StepGrows ==
  ASSUME UploadTypeOK, [Next]_vars
  PROVE  Held \subseteq Held'
  <1>1. CASE UNCHANGED <<docs, gone>>
    BY <1>1, HeldGrows
  <1>2. UNCHANGED vars => UNCHANGED <<docs, gone>>
    BY DEF vars
  <1>3. ASSUME NEW i \in Ids, Delete(i) PROVE Held \subseteq Held'
    <2>1. \A j \in Ids : j # i => docs'[j] = docs[j]
      BY <1>3 DEF Delete, UploadTypeOK
    <2>2. gone' = gone \cup {[col |-> docs[i].col, hash |-> docs[i].sha.hash]}
      BY <1>3 DEF Delete
    <2> QED BY <2>1, <2>2, HeldGrows
  <1>4. CASE SideStep
    <2>1. (\E i \in Ids : Delete(i)) \/ UNCHANGED <<docs, gone>>
      BY <1>4 DEF SideStep, Presign, Backlog, Put
    <2> QED BY <1>1, <1>3, <2>1
  <1>5. ASSUME NEW r \in Requests, Insert(r) PROVE Held \subseteq Held'
    <2>1. CASE ~Admits(r)
      BY <1>1, <1>5, <2>1 DEF Insert
    <2>2. CASE Admits(r)
      <3>1. gone' = gone /\ docs' = [docs EXCEPT ![req[r].id] = RowOf(r)] /\ docs[req[r].id] = NoRow
        BY <1>5, <2>2 DEF Insert, Admits
      <3>2. \A j \in Ids : j # req[r].id => docs'[j] = docs[j]
        BY <3>1 DEF UploadTypeOK
      <3> QED BY <3>1, <3>2, HeldGrows
    <2> QED BY <2>1, <2>2
  <1>6. ASSUME NEW r \in Requests, StepOf(r) PROVE Held \subseteq Held'
    <2>1. Insert(r) \/ UNCHANGED <<docs, gone>>
      BY <1>6 DEF StepOf, Fetch, FetchFails, Gate, FindDuplicate, Verify, Store, StoreFails,
                  Send, SendFails, Dies, Close, CommitBegin, StreamBegin, Begin
    <2> QED BY <1>1, <1>5, <2>1
  <1> QED BY <1>1, <1>2, <1>4, <1>6, NextCases

\* An answer is given only for a content that is held.
LEMMA PromisesStep == UploadTypeOK /\ PromisesHeld /\ [Next]_vars => PromisesHeld'
  <1> SUFFICES ASSUME UploadTypeOK, PromisesHeld, [Next]_vars PROVE PromisesHeld'
    OBVIOUS
  <1>1. Held \subseteq Held'
    BY StepGrows
  <1> HIDE DEF Held
  <1>2. CASE UNCHANGED req
    BY <1>1, <1>2 DEF PromisesHeld, Promises, Book
  <1>3. UNCHANGED vars \/ SideStep => UNCHANGED req
    BY DEF vars, SideStep, Presign, Backlog, Delete, Put
  <1>4. ASSUME NEW r \in Requests, StepOf(r) PROVE PromisesHeld'
    <2>1. ReqShape
      BY DEF UploadTypeOK
    <2>2. ASSUME OthersStay(r), Promises(r)' => Book(r)' \in Held'
          PROVE  PromisesHeld'
      <3> SUFFICES ASSUME NEW q \in Requests, Promises(q)' PROVE Book(q)' \in Held'
        BY DEF PromisesHeld
      <3>1. CASE q = r
        BY <2>2, <3>1
      <3>2. CASE q # r
        BY <1>1, <2>2, <3>2 DEF OthersStay, PromisesHeld, Promises, Book
      <3> QED BY <3>1, <3>2
    <2>3. ASSUME Finish(r, "rejected") PROVE PromisesHeld'
      <3>1. OthersStay(r) /\ ~Promises(r)'
        BY <2>1, <2>3, FinishMoves DEF Promises
      <3> QED BY <2>2, <3>1
    <2>4. ASSUME NEW pc \in {"dup", "verify", "store", "insert"}, Go(r, pc) PROVE PromisesHeld'
      <3>1. OthersStay(r) /\ ~Promises(r)'
        BY <2>1, <2>4, GoMoves DEF Promises, Moves
      <3> QED BY <2>2, <3>1
    <2>5. ASSUME NEW s \in {"duplicate", "accepted"}, Finish(r, s), Book(r) \in Held' PROVE PromisesHeld'
      <3>1. OthersStay(r) /\ Book(r)' = Book(r)
        BY <2>1, <2>5, FinishMoves DEF Book
      <3> QED BY <2>2, <2>5, <3>1
    <2>6. CASE Fetch(r)
      <3>1. OthersStay(r) /\ ~Promises(r)'
        BY <2>1, <2>6, FetchMoves DEF Promises
      <3> QED BY <2>2, <3>1
    <2>7. CASE FetchFails(r) \/ StoreFails(r) \/ SendFails(r) \/ Gate(r) \/ Verify(r)
      BY <2>3, <2>4, <2>7 DEF FetchFails, StoreFails, SendFails, Gate, Verify
    <2>8. CASE FindDuplicate(r)
      <3>1. CASE Duplicate(r)
        <4>1. PICK i \in Ids : docs[i] = RowOf(r)
          BY <3>1 DEF Duplicate
        <4>2. docs[i] # NoRow /\ docs[i].col = req[r].col /\ docs[i].sha = req[r].claim
          BY <4>1, RowIsRow DEF RowOf
        <4>3. Book(r) \in Held
          BY <4>2, RowsHold DEF Book
        <4> QED BY <1>1, <2>5, <2>8, <3>1, <4>3 DEF FindDuplicate
      <3>2. CASE ~Duplicate(r)
        BY <2>4, <2>8, <3>2 DEF FindDuplicate
      <3> QED BY <3>1, <3>2
    <2>9. CASE Store(r)
      <3>1. OthersStay(r) /\ ~Promises(r)'
        BY <2>1, <2>9, StoreMoves DEF Promises, UploadTypeOK
      <3> QED BY <2>2, <3>1
    <2>10. CASE Insert(r)
      <3>1. CASE Admits(r)
        <4>1. Go(r, "send") /\ docs' = [docs EXCEPT ![req[r].id] = RowOf(r)] /\ req[r].id \in Ids
          BY <2>10, <3>1 DEF Insert, UploadTypeOK
        <4>2. OthersStay(r) /\ Book(r)' = Book(r)
          BY <2>1, <4>1, GoMoves DEF Moves, Book
        <4>3. docs'[req[r].id] = RowOf(r)
          BY <4>1 DEF UploadTypeOK
        <4> DEFINE w == docs'[req[r].id]
        <4>4. w # NoRow /\ w.col = req[r].col /\ w.sha = req[r].claim
          BY <4>3, RowIsRow DEF RowOf
        <4>5. w \in Rows'
          BY <4>1, <4>4 DEF Rows
        <4> HIDE DEF w
        <4>6. Book(r) \in Held'
          BY <4>4, <4>5 DEF Held, Book
        <4> QED BY <2>2, <4>2, <4>6
      <3>2. CASE ~Admits(r)
        BY <2>3, <2>10, <3>2 DEF Insert
      <3> QED BY <3>1, <3>2
    <2>11. CASE Send(r)
      <3>1. Promises(r) /\ Finish(r, "accepted")
        BY <2>11 DEF Send, Promises
      <3>2. Book(r) \in Held
        BY <3>1 DEF PromisesHeld
      <3> QED BY <1>1, <2>5, <3>1, <3>2
    <2>12. CASE Dies(r) \/ Close(r)
      <3>1. OthersStay(r) /\ ~Promises(r)'
        BY <2>1, <2>12, EndMoves DEF Dies, Close, Idle, Promises
      <3> QED BY <2>2, <3>1
    <2>13. ASSUME NEW i \in Ids, NEW c, NEW h, NEW case \in ClientCases, CommitBegin(r, i, c, h, case)
           PROVE  PromisesHeld'
      <3>1. OthersStay(r) /\ ~Promises(r)'
        BY <2>1, <2>13, CommitMoves DEF Promises
      <3> QED BY <2>2, <3>1
    <2>14. ASSUME NEW c, NEW files, StreamBegin(r, c, files) PROVE PromisesHeld'
      <3>1. OthersStay(r) /\ ~Promises(r)'
        BY <2>1, <2>14, StreamMoves DEF Promises
      <3> QED BY <2>2, <3>1
    <2> QED BY <1>4, <2>6, <2>7, <2>8, <2>9, <2>10, <2>11, <2>12, <2>13, <2>14 DEF StepOf
  <1> QED BY <1>2, <1>3, <1>4, NextCases

\* However requests, deletes and failures interleave between the duplicate test,
\* the insert and the answer: who is told "accepted" or "duplicate" finds the book
\* in the collection, unless a delete took it out again (handleCommit,
\* ingestFromStream, handleDeleteDocument).
THEOREM AnswersHold == Spec => []AnswerHolds
  <1>1. Init => PromisesHeld
    BY DEF Init, Idle, PromisesHeld, Promises
  <1>2. PromisesHeld => AnswerHolds
    BY DEF PromisesHeld, Promises, Book, Held, AnswerHolds
  <1> QED BY <1>1, <1>2, UploadTypeInit, UploadTypeStep, PromisesStep, PTL DEF Spec
-----------------------------------------------------------------------------
(* Rows and the objects they name                                          *)

Lower(c) == c = [hash |-> c.hash, case |-> "lower"]

\* A row has its object, under an id that was handed out.
RowFits(i) ==
  /\ i < next /\ docs[i] = [col |-> docs[i].col, sha |-> docs[i].sha] /\ Lower(docs[i].sha)
  /\ raw[i] # NoBody /\ raw[i].hash = docs[i].sha.hash

\* A request claims the hash of the file it took, and of the object it has verified
\* or stored.
ClaimFits(r) ==
  /\ Lower(req[r].claim)
  /\ req[r].pc = "insert" => raw[req[r].id] # NoBody /\ raw[req[r].id].hash = req[r].claim.hash
  /\ req[r].pc \in {"gate", "dup", "store"} /\ req[r].kind # "commit"
       => StreamAccepts(Head(req[r].todo)) /\ req[r].claim.hash = Head(req[r].todo).hash
  /\ req[r].pc = "store" => req[r].kind # "commit"

RowsFit == \A i \in Ids : docs[i] # NoRow => RowFits(i)

HeldOnce ==
  \A i, j \in Ids :
    docs[i] # NoRow /\ docs[j] # NoRow /\ docs[i].col = docs[j].col /\ docs[i].sha.hash = docs[j].sha.hash => i = j

ClaimsFit == \A r \in Requests : ClaimFits(r)

Contents == RowsFit /\ HeldOnce /\ ClaimsFit

\* What the pipeline accepts from a remote is a file.
LEMMA AcceptedIsBody == \A b : StreamAccepts(b) => b # NoBody
  BY DEF StreamAccepts, DetectFormat, NoBody

\* A step of one request that leaves rows and objects alone.
LEMMA QuietContents ==
  ASSUME Contents, NEW r \in Requests, OthersStay(r), UNCHANGED <<next, docs, raw>>, ClaimFits(r)'
  PROVE  Contents'
  <1>1. \A q \in Requests : ClaimFits(q)'
    BY DEF Contents, ClaimsFit, ClaimFits, OthersStay
  <1>2. RowsFit' /\ HeldOnce'
    BY DEF Contents, RowsFit, RowFits, HeldOnce
  <1> QED BY <1>1, <1>2 DEF Contents, ClaimsFit

\* Clients that do not PUT again leave the objects of rows alone.
LEMMA SideContents ==
  ASSUME ~LatePut, UploadTypeOK, Contents, SideStep
  PROVE  Contents'
  <1> USE DEF Contents
  <1>1. CASE UNCHANGED <<docs, raw, req>> /\ next' \in Nat /\ next <= next'
    <2>1. RowsFit'
      <3> SUFFICES ASSUME NEW i \in Ids, docs'[i] # NoRow PROVE RowFits(i)'
        BY DEF RowsFit
      <3>1. i \in Nat /\ next \in Nat /\ RowFits(i)
        BY <1>1, UploadAssumption DEF Ids, UploadTypeOK, RowsFit
      <3> QED BY <1>1, <3>1 DEF RowFits
    <2>2. HeldOnce' /\ ClaimsFit'
      BY <1>1 DEF HeldOnce, ClaimsFit, ClaimFits
    <2> QED BY <2>1, <2>2
  <1>2. ASSUME NEW i \in Ids, Delete(i) PROVE Contents'
    <2>1. UNCHANGED <<next, raw, req>> /\ \A j \in Ids : docs'[j] = docs[j] \/ docs'[j] = NoRow
      BY <1>2 DEF Delete, UploadTypeOK
    <2>2. RowsFit'
      BY <2>1 DEF RowsFit, RowFits
    <2>3. HeldOnce'
      BY <2>1 DEF HeldOnce
    <2>4. ClaimsFit'
      BY <2>1 DEF ClaimsFit, ClaimFits
    <2> QED BY <2>2, <2>3, <2>4
  <1>3. ASSUME NEW i \in Ids, NEW b \in Bodies, Put(i, b) PROVE Contents'
    <2>1. docs[i] = NoRow /\ (\A r \in Requests : req[r].pc = "insert" => req[r].id # i)
      BY <1>3 DEF Put, Committed
    <2>2. UNCHANGED <<next, docs, req>> /\ (\A j \in Ids : j # i => raw'[j] = raw[j])
      BY <1>3 DEF Put, UploadTypeOK
    <2>3. RowsFit' /\ HeldOnce'
      BY <2>1, <2>2 DEF RowsFit, RowFits, HeldOnce
    <2>4. ClaimsFit'
      BY <2>1, <2>2 DEF ClaimsFit, ClaimFits, UploadTypeOK
    <2> QED BY <2>3, <2>4
  <1>4. CASE Presign \/ \E d \in {0, MaxBacklog + 1} : Backlog(d)
    <2>1. UNCHANGED <<docs, raw, req>> /\ next' \in Nat /\ next <= next'
      BY <1>4 DEF Presign, Backlog, UploadTypeOK
    <2> QED BY <1>1, <2>1
  <1> QED BY <1>2, <1>3, <1>4 DEF SideStep

\* The object is stored under an id that no row and no other request has.
LEMMA StoreContents ==
  ASSUME UploadTypeOK, Contents, NEW r \in Requests, Store(r)
  PROVE  Contents'
  <1> DEFINE b == Head(req[r].todo)
  <1>1. ReqShape /\ next \in Nat /\ next \in Ids /\ req[r].pc = "store"
    BY UploadAssumption DEF Store, UploadTypeOK, Ids
  <1>2. OthersStay(r) /\ req'[r].pc = "insert" /\ req'[r].id = next /\ req'[r].claim = req[r].claim
    BY <1>1, StoreMoves
  <1>3. next' = next + 1 /\ docs' = docs /\ raw'[next] = b /\ \A i \in Ids : i # next => raw'[i] = raw[i]
    BY <1>1 DEF Store, UploadTypeOK
  <1>4. Lower(req[r].claim) /\ b # NoBody /\ req[r].claim.hash = b.hash
    BY <1>1, AcceptedIsBody DEF Contents, ClaimsFit, ClaimFits
  <1>5. \A i \in Ids : i \in Nat
    BY UploadAssumption DEF Ids
  <1> HIDE DEF b
  <1>6. RowsFit'
    <2> SUFFICES ASSUME NEW i \in Ids, docs[i] # NoRow PROVE RowFits(i)'
      BY <1>3 DEF RowsFit
    <2>1. RowFits(i) /\ i \in Nat
      BY <1>5 DEF Contents, RowsFit
    <2>2. i # next /\ i < next'
      BY <1>1, <1>3, <2>1 DEF RowFits
    <2> QED BY <1>3, <2>1, <2>2 DEF RowFits
  <1>7. HeldOnce'
    BY <1>3 DEF Contents, HeldOnce
  <1>8. ASSUME NEW q \in Requests, q # r PROVE ClaimFits(q)'
    <2>1. ClaimFits(q) /\ req'[q] = req[q]
      BY <1>2, <1>8 DEF OthersStay, Contents, ClaimsFit
    <2>2. req[q].pc = "insert" => raw'[req[q].id] = raw[req[q].id]
      BY <1>1, <1>3, <1>5 DEF UploadTypeOK
    <2> QED BY <2>1, <2>2 DEF ClaimFits
  <1>9. ClaimFits(r)'
    BY <1>2, <1>3, <1>4 DEF ClaimFits
  <1> QED BY <1>6, <1>7, <1>8, <1>9 DEF Contents, ClaimsFit

\* The insert is refused where the content is held already; the hashes are
\* written alike, so the constraint sees it.
LEMMA InsertContents ==
  ASSUME UploadTypeOK, Contents, NEW r \in Requests, Insert(r), Admits(r)
  PROVE  Contents'
  <1> DEFINE k == req[r].id
             c == req[r].claim
  <1>1. ReqShape /\ k \in Ids /\ k < next /\ req[r].pc = "insert"
    BY DEF Insert, UploadTypeOK
  <1>2. Go(r, "send") /\ UNCHANGED <<next, raw>> /\ docs' = [docs EXCEPT ![k] = RowOf(r)]
    BY DEF Insert
  <1>3. OthersStay(r) /\ req'[r].pc = "send" /\ req'[r].claim = c
    BY <1>1, <1>2, GoMoves DEF Moves
  <1>4. docs'[k] = RowOf(r) /\ \A i \in Ids : i # k => docs'[i] = docs[i]
    BY <1>1, <1>2 DEF UploadTypeOK
  <1>5. Lower(c) /\ raw[k] # NoBody /\ raw[k].hash = c.hash
    BY <1>1 DEF Contents, ClaimsFit, ClaimFits
  <1>6. RowOf(r) = [col |-> req[r].col, sha |-> c] /\ RowOf(r) # NoRow
    BY RowIsRow DEF RowOf
  <1> HIDE DEF k, c
  <1>7. RowsFit'
    <2> SUFFICES ASSUME NEW i \in Ids, docs'[i] # NoRow PROVE RowFits(i)'
      BY DEF RowsFit
    <2>1. CASE i = k
      BY <1>1, <1>2, <1>4, <1>5, <1>6, <2>1 DEF RowFits
    <2>2. CASE i # k
      BY <1>2, <1>4, <2>2 DEF Contents, RowsFit, RowFits
    <2> QED BY <2>1, <2>2
  <1>8. ASSUME NEW i \in Ids, docs[i] # NoRow, docs[i].col = req[r].col, docs[i].sha.hash = c.hash
        PROVE  FALSE
    <2>1. docs[i] = [col |-> docs[i].col, sha |-> docs[i].sha] /\ Lower(docs[i].sha)
      BY <1>8 DEF Contents, RowsFit, RowFits
    <2>2. docs[i].sha = c
      BY <1>5, <1>8, <2>1 DEF Lower
    <2>3. docs[i] = RowOf(r)
      BY <1>6, <1>8, <2>1, <2>2
    <2> QED BY <2>3 DEF Admits, Duplicate
  <1>9. HeldOnce'
    <2> SUFFICES ASSUME NEW i \in Ids, NEW j \in Ids, docs'[i] # NoRow, docs'[j] # NoRow,
                        docs'[i].col = docs'[j].col, docs'[i].sha.hash = docs'[j].sha.hash
                 PROVE  i = j
      BY DEF HeldOnce
    <2>1. docs'[k].col = req[r].col /\ docs'[k].sha.hash = c.hash
      BY <1>4, <1>6
    <2>2. CASE i # k /\ j # k
      BY <1>4, <2>2 DEF Contents, HeldOnce
    <2>3. CASE i = k /\ j # k
      BY <1>4, <1>8, <2>1, <2>3
    <2>4. CASE i # k /\ j = k
      BY <1>4, <1>8, <2>1, <2>4
    <2> QED BY <2>2, <2>3, <2>4
  <1>10. ClaimsFit'
    <2>1. ASSUME NEW q \in Requests, q # r PROVE ClaimFits(q)'
      BY <1>2, <1>3, <2>1 DEF OthersStay, Contents, ClaimsFit, ClaimFits
    <2>2. ClaimFits(r)'
      BY <1>3, <1>5 DEF ClaimFits
    <2> QED BY <2>1, <2>2 DEF ClaimsFit
  <1> QED BY <1>7, <1>9, <1>10 DEF Contents

\* A request inserts what it verified.
LEMMA RequestContents ==
  ASSUME ClientCases \subseteq {"lower"}, UploadTypeOK, Contents, NEW r \in Requests, StepOf(r)
  PROVE  Contents'
  <1>1. ReqShape /\ ClaimFits(r)
    BY DEF UploadTypeOK, Contents, ClaimsFit
  <1>2. ASSUME NEW s \in {"rejected", "duplicate", "accepted"}, Finish(r, s), UNCHANGED <<next, docs, raw>>
        PROVE  Contents'
    <2>1. OthersStay(r) /\ ClaimFits(r)'
      BY <1>1, <1>2, FinishMoves DEF ClaimFits
    <2> QED BY <1>2, <2>1, QuietContents
  <1>3. CASE Fetch(r)
    <2>1. OthersStay(r) /\ ClaimFits(r)'
      <3> DEFINE h == Head(req[r].todo).hash
                 c == [hash |-> h, case |-> "lower"]
      <3> HIDE DEF h
      <3>1. Lower(c) /\ c.hash = h
        BY DEF Lower
      <3> HIDE DEF c
      <3>2. /\ OthersStay(r)
            /\ \/ req'[r].pc \in {"fetch", "done"} /\ req'[r].claim = req[r].claim
               \/ /\ req'[r].pc = "gate" /\ req'[r].todo = req[r].todo /\ StreamAccepts(Head(req[r].todo))
                  /\ req'[r].claim = c
        BY <1>1, <1>3, FetchMoves DEF c, h
      <3> QED BY <1>1, <3>1, <3>2 DEF ClaimFits, h
    <2> QED BY <1>3, <2>1, QuietContents DEF Fetch
  <1>4. CASE FetchFails(r) \/ StoreFails(r) \/ SendFails(r) \/ Send(r)
    BY <1>2, <1>4 DEF FetchFails, StoreFails, SendFails, Send
  <1>5. CASE Gate(r) \/ FindDuplicate(r) \/ Verify(r)
    <2>1. UNCHANGED <<next, docs, raw>>
      BY <1>5 DEF Gate, FindDuplicate, Verify
    <2>2. CASE \E s \in {"rejected", "duplicate", "accepted"} : Finish(r, s)
      BY <1>2, <2>1, <2>2
    <2>3. CASE Gate(r) /\ Go(r, "dup")
      <3>1. OthersStay(r) /\ ClaimFits(r)'
        BY <1>1, <2>3, GoMoves DEF Gate, ClaimFits, Moves
      <3> QED BY <2>1, <3>1, QuietContents
    <2>4. CASE FindDuplicate(r) /\ Go(r, IF req[r].kind = "commit" THEN "verify" ELSE "store")
      <3>1. OthersStay(r) /\ ClaimFits(r)'
        BY <1>1, <2>4, GoMoves DEF FindDuplicate, ClaimFits, Moves
      <3> QED BY <2>1, <3>1, QuietContents
    <2>5. CASE Verify(r) /\ VerifyRawObject(raw[req[r].id], req[r].claim) /\ Go(r, "insert")
      <3>1. raw[req[r].id] # NoBody /\ req[r].claim.hash = raw[req[r].id].hash
        BY <2>5 DEF VerifyRawObject
      <3>2. OthersStay(r) /\ ClaimFits(r)'
        BY <1>1, <2>1, <2>5, <3>1, GoMoves DEF ClaimFits, Moves
      <3> QED BY <2>1, <3>2, QuietContents
    <2> QED BY <1>5, <2>2, <2>3, <2>4, <2>5 DEF Gate, FindDuplicate, Verify
  <1>6. CASE Store(r)
    BY <1>6, StoreContents
  <1>7. CASE Insert(r)
    <2>1. CASE Admits(r)
      BY <1>7, <2>1, InsertContents
    <2>2. CASE ~Admits(r)
      BY <1>2, <1>7, <2>2 DEF Insert
    <2> QED BY <2>1, <2>2
  <1>8. CASE Dies(r) \/ Close(r)
    <2>1. OthersStay(r) /\ req'[r] = Idle
      BY <1>1, <1>8, EndMoves DEF Dies, Close
    <2>2. ClaimFits(r)'
      BY <2>1 DEF ClaimFits, Idle, Lower
    <2> QED BY <1>8, <2>1, <2>2, QuietContents DEF Dies, Close
  <1>9. ASSUME NEW i \in Ids, NEW c, NEW h, NEW case \in ClientCases, CommitBegin(r, i, c, h, case)
        PROVE  Contents'
    <2>1. OthersStay(r) /\ ClaimFits(r)'
      <3> DEFINE l == [hash |-> h, case |-> case]
      <3>1. Lower(l)
        BY <1>9 DEF Lower
      <3> HIDE DEF l
      <3>2. OthersStay(r) /\ req'[r].pc = "gate" /\ req'[r].kind = "commit" /\ req'[r].claim = l
        BY <1>1, <1>9, CommitMoves DEF l
      <3> QED BY <3>1, <3>2 DEF ClaimFits
    <2> QED BY <1>9, <2>1, QuietContents DEF CommitBegin, Begin
  <1>10. ASSUME NEW c, NEW files, StreamBegin(r, c, files)
         PROVE  Contents'
    <2>1. OthersStay(r) /\ ClaimFits(r)'
      BY <1>1, <1>10, StreamMoves DEF ClaimFits, Lower
    <2> QED BY <1>10, <2>1, QuietContents DEF StreamBegin, Begin
  <1> QED BY <1>3, <1>4, <1>5, <1>6, <1>7, <1>8, <1>9, <1>10 DEF StepOf

\* As long as clients do not PUT again behind a commit and write hashes in lower
\* case, as the web client does: whatever requests race, a row's hash is
\* that of the object its workers will read, and a collection holds a content once
\* (verifyRawObject, FindDuplicate, uq_doc_content).
THEOREM ContentsMatch ==
  ASSUME ~LatePut, ClientCases \subseteq {"lower"}
  PROVE  Spec => []RowsMatchContents
  <1>1. Init => Contents
    <2> SUFFICES ASSUME Init PROVE Contents
      OBVIOUS
    <2>1. (\A i \in Ids : docs[i] = NoRow) /\ \A r \in Requests : req[r] = Idle
      BY DEF Init
    <2>2. ClaimsFit
      BY <2>1 DEF ClaimsFit, ClaimFits, Idle, Lower
    <2> QED BY <2>1, <2>2 DEF Contents, RowsFit, HeldOnce
  <1>2. UploadTypeOK /\ Contents /\ [Next]_vars => Contents'
    <2> SUFFICES ASSUME UploadTypeOK, Contents, [Next]_vars PROVE Contents'
      OBVIOUS
    <2>1. CASE UNCHANGED vars
      BY <2>1 DEF vars, Contents, RowsFit, RowFits, HeldOnce, ClaimsFit, ClaimFits
    <2> QED BY <2>1, NextCases, SideContents, RequestContents
  <1>3. Contents => RowsMatchContents
    BY DEF Contents, RowsFit, RowFits, HeldOnce, RowsMatchContents
  <1> QED BY <1>1, <1>2, <1>3, UploadTypeInit, UploadTypeStep, PTL DEF Spec
=============================================================================

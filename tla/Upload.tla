------------------------------- MODULE Upload -------------------------------
(* How a document enters the system: presign, PUT and commit, a server-side  *)
(* fetch of a URL, and the sync of an OPDS feed.  All three end in the same  *)
(* tail: backlog gate, duplicate test, insert of the row, one split job.     *)
EXTENDS Integers, Sequences, FiniteSets, SequencesExt

CONSTANTS
  Requests,       \* HTTP requests that may be in progress together
  Collections,    \* collection ids a client may name
  Known,          \* the ones that exist
  Bodies,         \* file bodies
  Feeds,          \* OPDS feed pages, each a sequence of entries
  ClientCases,    \* how clients write a hash: a subset of {"lower", "upper"}
  LatePut,        \* clients may PUT to a presigned URL after the commit
  MaxIds,         \* bound: document ids
  MaxBacklog,     \* Settings.MaxParseBacklog
  MaxPages,       \* Settings.MaxDocumentPages
  MaxPdfSize,     \* MaxDocumentPages * 40 KiB
  MaxNonPdfSize,  \* Settings.MaxNonPdfBytes
  MaxFaults       \* bound: failures of S3, Redis, a remote or a request, and deletes

ASSUME UploadAssumption ==
  /\ Known \subseteq Collections
  /\ {MaxIds, MaxBacklog, MaxPages, MaxPdfSize, MaxNonPdfSize, MaxFaults} \subseteq Nat
  /\ LatePut \in BOOLEAN /\ ClientCases \subseteq {"lower", "upper"}

VARIABLES
  next,      \* the next document id (newUUID never repeats one)
  docs,      \* documents rows by id: collection and content_sha256
  raw,       \* objects of the raw bucket by id
  jobs,      \* split jobs sent, per id
  depth,     \* length of doc.parse
  req,       \* the requests
  answered,  \* history: 202 answers per id
  inserted,  \* history: rows inserted per id
  gone,      \* history: contents of deleted rows
  over,      \* history: inserts of each request since the backlog last came over the cap
  faults

vars == <<next, docs, raw, jobs, depth, req, answered, inserted, gone, over, faults>>

NoRow  == [col |-> "none"]
NoBody == [magic |-> "none"]
Ids    == 1..MaxIds
-----------------------------------------------------------------------------
\* Formats and verification

ZipExts  == {"epub", "docx", "pptx", "xlsx"}
TextExts == {"md", "html", "txt"}

\* DetectFormat, from the magic bytes and the extension of the name it is given.
DetectFormat(b, ext) ==
  CASE b.magic = "pdf"                                 -> "pdf"
    [] b.magic \in {"zip", "epub"} /\ ext \in ZipExts  -> ext
    [] b.magic = "epub"                                -> "epub"
    [] b.magic = "html"                                -> "html"
    [] b.magic = "text" /\ ext \in TextExts            -> ext
    [] b.magic = "text"                                -> "txt"
    [] OTHER                                           -> "unsupported"

TooLarge(b, f) == b.size > (IF f = "pdf" THEN MaxPdfSize ELSE MaxNonPdfSize)

\* The page count of a PDF, verifyNonPDF for the other formats.
Readable(b, f) == b.sound /\ (f = "pdf" => b.pages <= MaxPages)

\* ingestFromStream: the name is the one the remote gave.
StreamAccepts(b) ==
  LET f == DetectFormat(b, b.ext)
  IN  f # "unsupported" /\ ~TooLarge(b, f) /\ Readable(b, f)

\* RawKey names every raw object <id>.pdf.
RawExt == "pdf"

\* verifyRawObject: the hash is compared in lower case.
VerifyRawObject(b, claim) ==
  /\ b # NoBody
  /\ LET f == DetectFormat(b, RawExt)
     IN  f # "unsupported" /\ ~TooLarge(b, f) /\ claim.hash = b.hash /\ Readable(b, f)
-----------------------------------------------------------------------------
\* OPDS feeds: an entry is a sequence of links [rel, mime, href, body].

\* atomAcquisitionLinks
AcquisitionLinks(e) == SelectSeq(e, LAMBDA l : l.rel \/ l.mime)

\* opdsResolveHref drops what is empty, unparseable or not http(s).
Resolves(l) == l.href = "http"

\* What sync takes of an entry: its first acquisition link of a known type
\* that resolves.
SyncRef(e) == SelectSeq(AcquisitionLinks(e), LAMBDA l : l.mime /\ Resolves(l))

SyncRefs(feed) ==
  LET hit == SelectSeq(feed, LAMBDA e : SyncRef(e) # <<>>)
  IN  [i \in DOMAIN hit |-> Head(SyncRef(hit[i])).body]

\* What browse offers; an explicit selection is resolved the same way.
Browse(feed) ==
  [i \in DOMAIN feed |-> SelectSeq(AcquisitionLinks(feed[i]), Resolves)]
-----------------------------------------------------------------------------
Idle == [pc |-> "idle", kind |-> "none", col |-> "none", id |-> 0,
         claim |-> [hash |-> 0, case |-> "lower"], todo |-> <<>>, out |-> <<>>]

Init ==
  /\ next = 1 /\ docs = [i \in Ids |-> NoRow] /\ raw = [i \in Ids |-> NoBody]
  /\ jobs = [i \in Ids |-> 0] /\ depth = 0
  /\ req = [r \in Requests |-> Idle]
  /\ answered = [i \in Ids |-> 0] /\ inserted = [i \in Ids |-> 0] /\ gone = {} /\ over = [r \in Requests |-> 0] /\ faults = 0

Go(r, pc) == req' = [req EXCEPT ![r].pc = pc]

\* The request, or the item of a sync, has its result; a sync goes on with the
\* next item whatever the result was.
Finish(r, status) ==
  req' = [req EXCEPT ![r].out  = Append(@, status),
                     ![r].todo = IF @ = <<>> THEN @ ELSE Tail(@),
                     ![r].pc   = IF Len(req[r].todo) > 1 THEN "fetch" ELSE "done"]

Fault == faults < MaxFaults /\ faults' = faults + 1

\* handlePresign
Presign ==
  /\ next <= MaxIds /\ next' = next + 1
  /\ UNCHANGED <<docs, raw, jobs, depth, req, answered, inserted, gone, over, faults>>

\* The object of id is what some commit verified.
Committed(i) == docs[i] # NoRow \/ \E r \in Requests : req[r].id = i /\ req[r].pc \in {"insert", "send"}

\* A client uses its presigned URL.
Put(i, b) ==
  /\ i < next /\ (LatePut \/ ~Committed(i))
  /\ raw' = [raw EXCEPT ![i] = b]
  /\ UNCHANGED <<next, docs, jobs, depth, req, answered, inserted, gone, over, faults>>

Begin(r, record) ==
  /\ req[r].pc = "idle"
  /\ req' = [req EXCEPT ![r] = record]
  /\ UNCHANGED <<next, docs, raw, jobs, depth, answered, inserted, gone, over, faults>>

\* handleCommit looks up no collection: the insert refuses an unknown one.
CommitBegin(r, i, c, h, case) ==
  /\ i < next
  /\ Begin(r, [Idle EXCEPT !.pc = "gate", !.kind = "commit", !.col = c, !.id = i,
                           !.claim = [hash |-> h, case |-> case]])

\* handleFetchURL and handleOpdsSync look the collection up once, at the start,
\* and take the files one after the other: the one of a URL, those of a feed page,
\* or those selected from one.
StreamBegin(r, c, files) ==
  /\ c \in Known /\ files # <<>>
  /\ Begin(r, [Idle EXCEPT !.pc = "fetch", !.kind = "stream", !.col = c, !.todo = files])

\* Download, hash and verify one file.
Fetch(r) ==
  LET b == Head(req[r].todo) IN
  /\ req[r].pc = "fetch"
  /\ IF StreamAccepts(b)
     THEN req' = [req EXCEPT ![r].pc = "gate", ![r].claim = [hash |-> b.hash, case |-> "lower"]]
     ELSE Finish(r, "rejected")
  /\ UNCHANGED <<next, docs, raw, jobs, depth, answered, inserted, gone, over, faults>>

FetchFails(r) ==
  /\ req[r].pc = "fetch" /\ Fault /\ Finish(r, "rejected")
  /\ UNCHANGED <<next, docs, raw, jobs, depth, answered, inserted, gone, over>>

\* Mutant: a sync asks for the backlog with its first item only.
GateFirst(r) ==
  /\ req[r].pc = "gate"
  /\ IF depth > MaxBacklog /\ req[r].out = <<>> THEN Finish(r, "rejected") ELSE Go(r, "dup")
  /\ UNCHANGED <<next, docs, raw, jobs, depth, answered, inserted, gone, over, faults>>

\* QueueDepth of doc.parse over the cap: 429.
Gate(r) ==
  /\ req[r].pc = "gate"
  /\ IF depth > MaxBacklog THEN Finish(r, "rejected") ELSE Go(r, "dup")
  /\ UNCHANGED <<next, docs, raw, jobs, depth, answered, inserted, gone, over, faults>>

RowOf(r) == [col |-> req[r].col, sha |-> req[r].claim]

\* FindDuplicate, on the pool, before the insert
Duplicate(r) == \E i \in Ids : docs[i] = RowOf(r)

FindDuplicate(r) ==
  /\ req[r].pc = "dup"
  /\ IF Duplicate(r) THEN Finish(r, "duplicate")
     ELSE Go(r, IF req[r].kind = "commit" THEN "verify" ELSE "store")
  /\ UNCHANGED <<next, docs, raw, jobs, depth, answered, inserted, gone, over, faults>>

Verify(r) ==
  /\ req[r].pc = "verify"
  /\ IF VerifyRawObject(raw[req[r].id], req[r].claim) THEN Go(r, "insert")
     ELSE Finish(r, "rejected")
  /\ UNCHANGED <<next, docs, raw, jobs, depth, answered, inserted, gone, over, faults>>

\* UploadFile under a new id
Store(r) ==
  /\ req[r].pc = "store" /\ next <= MaxIds
  /\ raw' = [raw EXCEPT ![next] = Head(req[r].todo)]
  /\ req' = [req EXCEPT ![r].pc = "insert", ![r].id = next]
  /\ next' = next + 1
  /\ UNCHANGED <<docs, jobs, depth, answered, inserted, gone, over, faults>>

\* Mutant: the table has no unique constraint.
AdmitsTwins(r) == req[r].col \in Known /\ docs[req[r].id] = NoRow

\* The constraints of the table: the foreign key, the primary key and
\* uq_doc_content, on the hash as it is written.
Admits(r) == req[r].col \in Known /\ docs[req[r].id] = NoRow /\ ~Duplicate(r)

\* Mutant: every constraint error is read as a duplicate.
InsertConflicts(r) ==
  /\ req[r].pc = "insert"
  /\ IF Admits(r)
     THEN /\ docs' = [docs EXCEPT ![req[r].id] = RowOf(r)] /\ Go(r, "send")
          /\ inserted' = [inserted EXCEPT ![req[r].id] = @ + 1]
     ELSE Finish(r, "duplicate") /\ UNCHANGED <<docs, inserted>>
  /\ UNCHANGED <<next, raw, jobs, depth, answered, gone, over, faults>>

\* InsertDocument
Insert(r) ==
  /\ req[r].pc = "insert"
  /\ IF Admits(r)
     THEN /\ docs' = [docs EXCEPT ![req[r].id] = RowOf(r)] /\ Go(r, "send")
          /\ over' = IF depth > MaxBacklog THEN [over EXCEPT ![r] = @ + 1] ELSE over
          /\ inserted' = [inserted EXCEPT ![req[r].id] = @ + 1]
     ELSE Finish(r, "rejected") /\ UNCHANGED <<docs, over, inserted>>
  /\ UNCHANGED <<next, raw, jobs, depth, answered, gone, faults>>

\* XADD of the split job, then 202
Send(r) ==
  /\ req[r].pc = "send"
  /\ jobs' = [jobs EXCEPT ![req[r].id] = @ + 1]
  /\ answered' = [answered EXCEPT ![req[r].id] = @ + 1]
  /\ Finish(r, "accepted")
  /\ UNCHANGED <<next, docs, raw, depth, inserted, gone, over, faults>>

\* S3 refuses the upload: 500.
StoreFails(r) ==
  /\ req[r].pc = "store" /\ Fault /\ Finish(r, "rejected")
  /\ UNCHANGED <<next, docs, raw, jobs, depth, answered, inserted, gone, over>>

\* Mutant: the answer does not depend on the XADD.
SendFailsUnseen(r) ==
  /\ req[r].pc = "send" /\ Fault /\ Finish(r, "accepted")
  /\ answered' = [answered EXCEPT ![req[r].id] = @ + 1]
  /\ UNCHANGED <<next, docs, raw, jobs, depth, inserted, gone, over>>

\* Redis refuses the XADD: 500, and the row stays.
SendFails(r) ==
  /\ req[r].pc = "send" /\ Fault /\ Finish(r, "rejected")
  /\ UNCHANGED <<next, docs, raw, jobs, depth, answered, inserted, gone, over>>

\* The client went away or the server died: the request stops where it is.
Dies(r) ==
  /\ req[r].pc \notin {"idle", "done"} /\ Fault
  /\ req' = [req EXCEPT ![r] = Idle]
  /\ UNCHANGED <<next, docs, raw, jobs, depth, answered, inserted, gone, over>>

Close(r) ==
  /\ req[r].pc = "done" /\ req' = [req EXCEPT ![r] = Idle]
  /\ UNCHANGED <<next, docs, raw, jobs, depth, answered, inserted, gone, over, faults>>

\* The pipeline: its backlog moves.
Backlog(d) ==
  /\ d # depth /\ depth' = d
  /\ over' = IF d > MaxBacklog THEN over ELSE [r \in Requests |-> 0]
  /\ UNCHANGED <<next, docs, raw, jobs, req, answered, inserted, gone, faults>>

\* handleDeleteDocument removes the row and leaves the raw object.
Delete(i) ==
  /\ docs[i] # NoRow /\ Fault
  /\ docs' = [docs EXCEPT ![i] = NoRow]
  /\ gone' = gone \cup {[col |-> docs[i].col, hash |-> docs[i].sha.hash]}
  /\ UNCHANGED <<next, raw, jobs, depth, req, answered, inserted, over>>

RequestStep(r) ==
  \/ Fetch(r) \/ Gate(r) \/ FindDuplicate(r) \/ Verify(r)
  \/ Store(r) \/ Insert(r) \/ Send(r) \/ Close(r)

Next ==
  \/ Presign \/ \E d \in {0, MaxBacklog + 1} : Backlog(d)
  \/ \E i \in Ids : Delete(i) \/ \E b \in Bodies : Put(i, b)
  \/ \E r \in Requests :
       \/ RequestStep(r) \/ FetchFails(r) \/ StoreFails(r) \/ SendFails(r) \/ Dies(r)
       \/ \E c \in Collections :
            \/ \E i \in Ids, b \in Bodies, case \in ClientCases : CommitBegin(r, i, c, b.hash, case)
            \/ \E b \in Bodies : StreamBegin(r, c, <<b>>)
            \/ \E f \in Feeds : \/ StreamBegin(r, c, SyncRefs(f))
                              \/ \E e \in DOMAIN f : \E l \in ToSet(Browse(f)[e]) :
                                   StreamBegin(r, c, <<l.body>>)

Spec == Init /\ [][Next]_vars
-----------------------------------------------------------------------------
Rows == {docs[i] : i \in Ids} \ {NoRow}

\* A row's content_sha256 is the hash of the object its workers will read, as long
\* as clients do not PUT again behind the commit, and a collection holds a content
\* once, however the requests that look for the duplicate and those that insert are
\* interleaved.
RowsMatchContents ==
  /\ \A i \in Ids : docs[i] # NoRow => raw[i] # NoBody /\ raw[i].hash = docs[i].sha.hash
  /\ \A i, j \in Ids :
       docs[i] # NoRow /\ docs[j] # NoRow /\ docs[i].col = docs[j].col
         /\ docs[i].sha.hash = docs[j].sha.hash => i = j

\* Each 202 has a split job of its own, sent after a row of its own: a commit
\* that is repeated, or that races another one for the same id, is accepted
\* once.
AcceptedOnce == \A i \in Ids : answered[i] <= jobs[i] /\ jobs[i] <= inserted[i]

\* "accepted" and "duplicate" both mean that the collection holds the book when
\* the answer is given, unless the book was deleted meanwhile (for a feed: its
\* last book).
AnswerHolds ==
  \A r \in Requests : req[r].out # <<>> /\ Last(req[r].out) # "rejected" /\ req[r].pc = "done" =>
    LET book == [col |-> req[r].col, hash |-> req[r].claim.hash]
    IN  book \in gone \cup {[col |-> w.col, hash |-> w.sha.hash] : w \in Rows}

\* The gate reads the backlog well before the insert, so documents do get in over
\* the cap, but not more than one by each request, be it a whole feed.
BoundedOvershoot == \A r \in Requests : over[r] <= 1
=============================================================================

------------------------------- MODULE Stream -------------------------------
(***************************************************************************)
(* One Redis stream with its consumer group, as the workers and the        *)
(* janitor use it: XADD, XREADGROUP, XACK and XDEL by the consumers;       *)
(* XAUTOCLAIM, re-add or quarantine, and the dedup scan before a sweep by  *)
(* the janitor.  Every Redis call is a step, and a process may die between *)
(* any two of them.                                                        *)
(***************************************************************************)
EXTENDS Naturals, FiniteSets, Sequences

CONSTANTS
  Jobs, NoJob, \* dedup keys
  Poison,      \* jobs whose handler always fails
  Workers,     \* consumers
  Ids,         \* entry ids; the entries Redis has room for
  Prefetch,    \* entries per XREADGROUP
  ClaimBatch,  \* entries per XAUTOCLAIM (50)
  ScanPage,    \* entries per XPENDING page of the scan (500)
  DeliveryCap, \* max(5, MAX_SHARD_ATTEMPTS + 1)
  Faults,      \* what may go wrong
  MaxFaults    \* how often it may

ASSUME StreamAssumption ==
  /\ Poison \subseteq Jobs /\ NoJob \notin Jobs /\ Ids \subseteq Nat
  /\ {Prefetch, ClaimBatch, ScanPage, DeliveryCap} \subseteq Nat \ {0}
  /\ DeliveryCap >= 5
  /\ Faults \subseteq {"worker", "handler", "janitor", "redis", "slow"} /\ MaxFaults \in Nat

VARIABLES
  recorded,  \* jobs Postgres says are to be done
  sent,      \* jobs that were XADDed
  log,       \* the entries in id order
  ent,       \* per id: job, body (in the stream), new (undelivered), cnt (> 0: in the PEL)
  work,      \* per consumer: the rest of its batch and the next call
  jan,       \* the janitor's reclaim and scan
  done, dropped, dlq,  \* jobs completed, given up, and recorded as given up
  faults

vars == <<recorded, sent, log, ent, work, jan, done, dropped, dlq, faults>>

IdleWork == [pc |-> "idle", todo |-> <<>>]
IdleJan  == [pc |-> "docs", todo |-> <<>>, quar |-> {}, want |-> {}, old |-> {},
             live |-> {}, keys |-> {}]
NoEntry  == [job |-> NoJob, body |-> FALSE, new |-> FALSE, cnt |-> 0]

Fault(kind) == kind \in Faults /\ faults < MaxFaults /\ faults' = faults + 1

Listed  == {log[k] : k \in DOMAIN log}
Held    == UNION {{work[w].todo[k].id : k \in DOMAIN work[w].todo} : w \in Workers}
Claimed == {jan.todo[k].id : k \in DOMAIN jan.todo}
Free    == Ids \ (Listed \cup Held \cup Claimed \cup jan.old)

\* An entry some consumer will still be given: undelivered or in the PEL.
Live(i)  == i \in Listed /\ ent[i].body /\ (ent[i].new \/ ent[i].cnt > 0)
LiveJobs == {ent[i].job : i \in {i \in Ids : Live(i)}}

\* StreamEntry: what a consumer keeps of an entry it read.
Entries(s) == [k \in DOMAIN s |-> [id |-> s[k], job |-> ent[s[k]].job]]

\* The entries of s that are in T, in their order, and those among its first n.
Taken[q \in Seq(Ids) \X (SUBSET Ids) \X Nat] ==
  LET s == q[1]
      n == q[3]
  IN  IF n = 0 THEN <<>>
      ELSE LET t == Taken[<<s, q[2], n - 1>>] IN IF s[n] \in q[2] THEN Append(t, s[n]) ELSE t

Where(s, T) == Taken[<<s, T, Len(s)>>]

\* The PEL, in id order.
Pel == Where(log, {i \in Ids : ent[i].cnt > 0})

FirstN(s, k) == SubSeq(s, 1, IF Len(s) < k THEN Len(s) ELSE k)

\* XADD
Put(j) ==
  \E i \in Free :
    /\ \A k \in Free : i <= k
    /\ log' = Append(log, i)
    /\ ent' = [ent EXCEPT ![i] = [job |-> j, body |-> TRUE, new |-> TRUE, cnt |-> 0]]

\* An entry is gone once it has neither a body nor a place in the PEL.
Update(e) ==
  /\ ent' = [i \in Ids |-> IF e[i].body \/ e[i].cnt > 0 THEN e[i] ELSE NoEntry]
  /\ log' = Where(log, {i \in Ids : e[i].body \/ e[i].cnt > 0})

XAck(i) == Update([ent EXCEPT ![i].cnt = 0])
XDel(i) == Update([ent EXCEPT ![i].body = FALSE, ![i].new = FALSE])

Init ==
  /\ recorded = {} /\ sent = {} /\ log = <<>> /\ ent = [i \in Ids |-> NoEntry]
  /\ work = [w \in Workers |-> IdleWork] /\ jan = IdleJan
  /\ done = {} /\ dropped = {} /\ dlq = {} /\ faults = 0
-----------------------------------------------------------------------------
\* The producer: a row in Postgres first, then XAddJob, which may never come.

Record(j) ==
  /\ j \notin recorded
  /\ recorded' = recorded \cup {j}
  /\ UNCHANGED <<sent, log, ent, work, jan, done, dropped, dlq, faults>>

XAddJob(j) ==
  /\ j \in recorded \ sent
  /\ Put(j) /\ sent' = sent \cup {j}
  /\ UNCHANGED <<recorded, work, jan, done, dropped, dlq, faults>>
-----------------------------------------------------------------------------
\* RunConsumer

\* Mutant: NOACK, the entry never enters the PEL.
ReadJobsNoAck(w) ==
  LET fresh == Where(log, {i \in Ids : ent[i].new})
      batch == FirstN(fresh, Prefetch)
      taken == {batch[k] : k \in DOMAIN batch}
  IN
  /\ work[w].pc = "idle" /\ fresh # <<>>
  /\ ent' = [i \in Ids |-> IF i \in taken THEN [ent[i] EXCEPT !.new = FALSE] ELSE ent[i]]
  /\ work' = [work EXCEPT ![w] = [pc |-> "run", todo |-> Entries(batch)]]
  /\ UNCHANGED <<recorded, sent, log, jan, done, dropped, dlq, faults>>

\* ReadJobs
ReadJobs(w) ==
  LET fresh == Where(log, {i \in Ids : ent[i].new})
      batch == FirstN(fresh, Prefetch)
      taken == {batch[k] : k \in DOMAIN batch}
  IN
  /\ work[w].pc = "idle" /\ fresh # <<>>
  /\ ent' = [i \in Ids |-> IF i \in taken THEN [ent[i] EXCEPT !.new = FALSE, !.cnt = 1] ELSE ent[i]]
  /\ work' = [work EXCEPT ![w] = [pc |-> "run", todo |-> Entries(batch)]]
  /\ UNCHANGED <<recorded, sent, log, jan, done, dropped, dlq, faults>>

Rest(w) == IF Len(work[w].todo) = 1 THEN IdleWork
           ELSE [pc |-> "run", todo |-> Tail(work[w].todo)]

\* The handler's transactions commit.
HandlerOk(w) ==
  LET j == Head(work[w].todo).job IN
  /\ work[w].pc = "run" /\ j \notin Poison
  /\ done' = done \cup {j}
  /\ work' = [work EXCEPT ![w].pc = "xack"]
  /\ UNCHANGED <<recorded, sent, log, ent, jan, dropped, dlq, faults>>

\* The handler fails: the entry stays in the PEL, the batch goes on.
HandlerFails(w) ==
  /\ work[w].pc = "run"
  /\ IF Head(work[w].todo).job \in Poison THEN UNCHANGED faults ELSE Fault("handler")
  /\ work' = [work EXCEPT ![w] = Rest(w)]
  /\ UNCHANGED <<recorded, sent, log, ent, jan, done, dropped, dlq>>

\* Ack: XACK, then XDEL, the errors of both ignored.
AckXAck(w) ==
  /\ work[w].pc = "xack"
  /\ \/ XAck(Head(work[w].todo).id) /\ UNCHANGED faults
     \/ Fault("redis") /\ UNCHANGED <<log, ent>>
  /\ work' = [work EXCEPT ![w].pc = "xdel"]
  /\ UNCHANGED <<recorded, sent, jan, done, dropped, dlq>>

AckXDel(w) ==
  /\ work[w].pc = "xdel"
  /\ \/ XDel(Head(work[w].todo).id) /\ UNCHANGED faults
     \/ Fault("redis") /\ UNCHANGED <<log, ent>>
  /\ work' = [work EXCEPT ![w] = Rest(w)]
  /\ UNCHANGED <<recorded, sent, jan, done, dropped, dlq>>

WorkerDies(w) ==
  /\ work[w].pc # "idle" /\ Fault("worker")
  /\ work' = [work EXCEPT ![w] = IdleWork]
  /\ UNCHANGED <<recorded, sent, log, ent, jan, done, dropped, dlq>>
-----------------------------------------------------------------------------
\* Janitor.Pass, as far as one stream is concerned.

\* Mutant: only what was sent before is looked for.
NonTerminalSent ==
  /\ jan.pc = "docs"
  /\ jan' = [jan EXCEPT !.pc = "claim", !.want = sent \ done]
  /\ UNCHANGED <<recorded, sent, log, ent, work, done, dropped, dlq, faults>>

\* The unfinished documents are read before the reclaim and used after it.
NonTerminalDocs ==
  /\ jan.pc = "docs"
  /\ jan' = [jan EXCEPT !.pc = "claim", !.want = recorded \ done]
  /\ UNCHANGED <<recorded, sent, log, ent, work, done, dropped, dlq, faults>>

\* ClaimStale: the oldest entries that are idle.  The entry of a live consumer
\* is not, unless its job outlasts the min-idle.  Redis drops PEL entries whose
\* body is deleted.
ClaimStale ==
  \E slow \in SUBSET Held :
    LET idle  == Where(log, {i \in Ids : ent[i].cnt > 0 /\ (i \notin Held \/ i \in slow)})
        batch == FirstN(idle, ClaimBatch)
        taken == {batch[k] : k \in DOMAIN batch}
    IN
    /\ jan.pc = "claim"
    /\ IF slow = {} THEN UNCHANGED faults ELSE Fault("slow")
    /\ Update([i \in Ids |-> IF i \in taken
                 THEN [ent[i] EXCEPT !.cnt = IF ent[i].body THEN @ + 1 ELSE 0] ELSE ent[i]])
    /\ jan' = [jan EXCEPT !.pc = "decide",
                          !.todo = Entries(Where(batch, {i \in Ids : ent[i].body}))]
    /\ UNCHANGED <<recorded, sent, work, done, dropped, dlq>>

\* reclaimDecide at or over the cap: the descriptor is collected for later.
DecideQuarantine ==
  LET e == Head(jan.todo) IN
  /\ jan.pc = "decide" /\ jan.todo # <<>> /\ ent[e.id].cnt >= DeliveryCap
  /\ dropped' = dropped \cup {e.job}
  /\ jan' = [jan EXCEPT !.pc = "xack", !.quar = @ \cup {e.job}]
  /\ UNCHANGED <<recorded, sent, log, ent, work, done, dlq, faults>>

\* Mutant: the claimed entry is acked without a fresh copy.
DecideWithoutAdd ==
  /\ jan.pc = "decide" /\ jan.todo # <<>> /\ ent[Head(jan.todo).id].cnt < DeliveryCap
  /\ jan' = [jan EXCEPT !.pc = "xack"]
  /\ UNCHANGED <<recorded, sent, log, ent, work, done, dropped, dlq, faults>>

\* ... below it, or with no answer from XPENDING: a fresh copy is added.
DecideReadd ==
  LET e == Head(jan.todo) IN
  /\ jan.pc = "decide" /\ jan.todo # <<>> /\ ent[e.id].cnt < DeliveryCap
  /\ Put(e.job)
  /\ jan' = [jan EXCEPT !.pc = "xack"]
  /\ UNCHANGED <<recorded, sent, work, done, dropped, dlq, faults>>

ReclaimXAck ==
  /\ jan.pc = "xack"
  /\ \/ XAck(Head(jan.todo).id) /\ UNCHANGED faults
     \/ Fault("redis") /\ UNCHANGED <<log, ent>>
  /\ jan' = [jan EXCEPT !.pc = "xdel"]
  /\ UNCHANGED <<recorded, sent, work, done, dropped, dlq>>

ReclaimXDel ==
  /\ jan.pc = "xdel"
  /\ \/ XDel(Head(jan.todo).id) /\ UNCHANGED faults
     \/ Fault("redis") /\ UNCHANGED <<log, ent>>
  /\ jan' = [jan EXCEPT !.pc = "decide", !.todo = Tail(@)]
  /\ UNCHANGED <<recorded, sent, work, done, dropped, dlq>>

\* The events rows of the quarantined entries, in one transaction at the end.
WriteQuarantines ==
  /\ jan.pc = "decide" /\ jan.todo = <<>>
  /\ dlq' = dlq \cup jan.quar
  /\ jan' = [jan EXCEPT !.pc = "info", !.quar = {}]
  /\ UNCHANGED <<recorded, sent, log, ent, work, done, dropped, faults>>

\* PendingJobKeys: the group's last-delivered-id ...
ScanInfo ==
  /\ jan.pc = "info"
  /\ jan' = [jan EXCEPT !.pc = "tail", !.old = {i \in Listed : ~ent[i].new}, !.live = LiveJobs]
  /\ UNCHANGED <<recorded, sent, log, ent, work, done, dropped, dlq, faults>>

\* ... the entries after it ...
ScanTail ==
  /\ jan.pc = "tail"
  /\ jan' = [jan EXCEPT !.pc = "pel", !.old = {},
               !.keys = {ent[i].job : i \in {i \in Listed \ jan.old : ent[i].body}}]
  /\ UNCHANGED <<recorded, sent, log, ent, work, done, dropped, dlq, faults>>

\* Mutant: the PEL is not scanned.
ScanPelSkipped ==
  /\ jan.pc = "pel"
  /\ jan' = [jan EXCEPT !.pc = "sweep"]
  /\ UNCHANGED <<recorded, sent, log, ent, work, done, dropped, dlq, faults>>

\* ... and one page of the PEL.
ScanPel ==
  LET page == FirstN(Pel, ScanPage) IN
  /\ jan.pc = "pel"
  /\ jan' = [jan EXCEPT !.pc = "sweep",
       !.keys = @ \cup {ent[page[k]].job : k \in {k \in DOMAIN page : ent[page[k]].body}}]
  /\ UNCHANGED <<recorded, sent, log, ent, work, done, dropped, dlq, faults>>

\* The sweeps add what the scan did not see.
Sweep(j) ==
  /\ jan.pc = "sweep" /\ j \in jan.want \ jan.keys
  /\ Put(j) /\ sent' = sent \cup {j}
  /\ jan' = [jan EXCEPT !.want = @ \ {j}]
  /\ UNCHANGED <<recorded, work, done, dropped, dlq, faults>>

SweepEnds ==
  /\ jan.pc = "sweep" /\ jan.want \subseteq jan.keys
  /\ jan' = IdleJan
  /\ UNCHANGED <<recorded, sent, log, ent, work, done, dropped, dlq, faults>>

\* Redis is full and refuses the XADD: the error ends the pass.
JanitorRefused ==
  /\ \/ jan.pc = "decide" /\ jan.todo # <<>> /\ ent[Head(jan.todo).id].cnt < DeliveryCap
     \/ jan.pc = "sweep" /\ ~(jan.want \subseteq jan.keys)
  /\ Free = {}
  /\ jan' = IdleJan
  /\ UNCHANGED <<recorded, sent, log, ent, work, done, dropped, dlq, faults>>

JanitorDies ==
  /\ jan.pc # "docs" /\ Fault("janitor")
  /\ jan' = IdleJan
  /\ UNCHANGED <<recorded, sent, log, ent, work, done, dropped, dlq>>
-----------------------------------------------------------------------------
WorkStep(w) == ReadJobs(w) \/ HandlerOk(w) \/ AckXAck(w) \/ AckXDel(w)
JanStep == NonTerminalDocs \/ ClaimStale \/ DecideQuarantine \/ DecideReadd \/ ReclaimXAck
           \/ ReclaimXDel \/ WriteQuarantines \/ ScanInfo \/ ScanTail \/ ScanPel
           \/ (\E j \in Jobs : Sweep(j)) \/ SweepEnds \/ JanitorRefused

Next ==
  \/ \E j \in Jobs : Record(j) \/ XAddJob(j)
  \/ \E w \in Workers : WorkStep(w) \/ HandlerFails(w) \/ WorkerDies(w)
  \/ JanStep \/ JanitorDies

Spec == Init /\ [][Next]_vars

\* The processes run; nothing promises that a producer reaches its XADD, nor
\* that a failing handler succeeds.
FairSpec == /\ Spec /\ WF_vars(JanStep)
            /\ \A w \in Workers : WF_vars(WorkStep(w) \/ (HandlerFails(w) /\ faults' = faults))
-----------------------------------------------------------------------------
\* No job is lost: one that was sent and is neither completed nor given up has
\* an entry that is still to be delivered or in the PEL.  The fresh copy is
\* added before the claimed entry is acked.
NoJobLost == sent \subseteq LiveJobs \cup done \cup dropped

\* The dedup scan is complete although its three reads are not atomic: a job
\* that was on the stream when it began, and has not been finished since, is
\* among the keys, so the sweep does not add it again.
ScanComplete == jan.pc = "sweep" => jan.live \subseteq jan.keys \cup done \cup dropped

\* The stream gives at-least-once dispatch.
Queue == INSTANCE JobQueue WITH open <- LiveJobs, finished <- done \cup dropped
AtLeastOnce == Queue!Spec

\* Every recorded job whose handler can succeed is done in the end, even if its
\* producer died before the XADD: a sweep finds it.
Dispatched == \A j \in Jobs \ Poison : j \in recorded ~> j \in done
=============================================================================

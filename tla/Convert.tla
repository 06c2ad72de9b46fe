------------------------------ MODULE Convert ------------------------------
(***************************************************************************)
(* One shard's file becomes markdown: TwoTierParser.Parse picks a tier,    *)
(* and the docling client behind the last tier retries behind a circuit    *)
(* breaker.  A parser process has one parser and works on one job at a     *)
(* time, so there is one caller; the breaker outlives the call.            *)
(***************************************************************************)
EXTENDS Integers

CONSTANTS
  CvRetries,    \* maxRetries: attempts beyond the first
  CvThreshold,  \* breakerThreshold
  CvRefuseProbe \* TRUE when docling may refuse the file of a probe: 4xx, or 500

ASSUME ConvertAssumption ==
  CvRetries \in Nat /\ CvThreshold \in Nat \ {0} /\ CvRefuseProbe \in BOOLEAN

VARIABLES
  healthy,    \* external: docling-serve answers
  cvFailed,   \* consecutiveFailed, which only matters up to the threshold
  openedAt,   \* "never", "fresh", or "elapsed": the cooldown is over
  probing,
  call        \* where the call is, its attempt, and the engine of the last result

cvvars == <<healthy, cvFailed, openedAt, probing, call>>

CvIdle(engine) == [pc |-> "idle", attempt |-> 0, engine |-> engine]

CvInit ==
  /\ healthy = FALSE /\ cvFailed = 0 /\ openedAt = "never" /\ probing = FALSE
  /\ call = CvIdle("none")
-----------------------------------------------------------------------------
\* The formats of which the linked anydoc claims to read the content itself
AnyDocReads == {"pdf", "epub", "office"}

\* The in-process tiers: the bytes of a text are its markdown, anydoc reads what
\* it supports.  Either is taken when the yield per page suffices.
FastEngine(format) ==
  CASE format = "text" -> "text" [] format \in AnyDocReads -> "anydoc" [] format = "html" -> "none"

FastPath(format) ==
  /\ call.pc = "idle" /\ FastEngine(format) # "none"
  /\ call' = CvIdle(FastEngine(format))
  /\ UNCHANGED <<healthy, cvFailed, openedAt, probing>>

\* acquireOpen: a closed breaker admits, an open one a single probe after the
\* cooldown.
AcquireOpen == cvFailed < CvThreshold \/ (~probing /\ openedAt = "elapsed")

\* The call falls through to docling: html at once, the others after an error or
\* a low yield.  A refused entry is ErrCircuitOpen.
ConvertNamed ==
  /\ call.pc = "idle"
  /\ IF AcquireOpen
     THEN /\ call' = [call EXCEPT !.pc = "request"]
          /\ probing' = (probing \/ cvFailed >= CvThreshold)
     ELSE call' = CvIdle("open") /\ UNCHANGED probing
  /\ UNCHANGED <<healthy, cvFailed, openedAt>>

\* recordSuccess
Converted ==
  /\ call.pc = "request" /\ healthy
  /\ cvFailed' = 0 /\ openedAt' = "never" /\ probing' = FALSE
  /\ call' = CvIdle("docling")
  /\ UNCHANGED healthy

\* Mutant: a failed probe stays in flight.
ProbeAfterKept == probing

\* The probe has reported back.
ProbeAfter == FALSE

\* recordFailure on a transport error, 429, 503 or a broken body: from the
\* threshold on, every failure starts the cooldown anew, and the retries of the
\* ladder go on whether the breaker is open or not.
Unavailable ==
  /\ call.pc = "request" /\ ~healthy
  /\ cvFailed' = IF cvFailed < CvThreshold THEN cvFailed + 1 ELSE cvFailed
  /\ openedAt' = IF cvFailed' = CvThreshold THEN "fresh" ELSE openedAt
  /\ probing' = ProbeAfter
  /\ call' = IF call.attempt = CvRetries THEN CvIdle("failed")
             ELSE [call EXCEPT !.pc = "backoff"]
  /\ UNCHANGED healthy

Backoff ==
  /\ call.pc = "backoff" /\ call' = [call EXCEPT !.pc = "request", !.attempt = @ + 1]
  /\ UNCHANGED <<healthy, cvFailed, openedAt, probing>>

\* The job's context ends in a backoff.
Cancelled ==
  /\ call.pc = "backoff" /\ call' = CvIdle("failed")
  /\ UNCHANGED <<healthy, cvFailed, openedAt, probing>>

\* Any other 4xx or 5xx, or a file that cannot be read: returned at once, and
\* nothing is recorded.
Refused ==
  /\ call.pc = "request" /\ (probing => CvRefuseProbe) /\ call' = CvIdle("failed")
  /\ UNCHANGED <<healthy, cvFailed, openedAt, probing>>

\* The clock passes openedAt + breakerCooldown.
CooldownOver ==
  /\ openedAt = "fresh" /\ openedAt' = "elapsed"
  /\ UNCHANGED <<healthy, cvFailed, probing, call>>

\* docling-serve comes up, and stays up.
Heals ==
  /\ ~healthy /\ healthy' = TRUE
  /\ UNCHANGED <<cvFailed, openedAt, probing, call>>

CvStep == Converted \/ Unavailable \/ Backoff

CvNext ==
  \/ \E format \in {"text", "html"} \cup AnyDocReads : FastPath(format)
  \/ ConvertNamed \/ CvStep \/ Cancelled \/ Refused \/ CooldownOver \/ Heals

\* Calls get their answer or time out, time passes, shards that need docling keep
\* coming, and a docling that is up converts a file sooner or later.
CvFairness ==
  /\ WF_cvvars(CvStep) /\ WF_cvvars(CooldownOver) /\ SF_cvvars(Converted)
  /\ SF_cvvars(ConvertNamed /\ AcquireOpen)
-----------------------------------------------------------------------------
\* The circuit breaker never stays open against a healthy docling (the stall that
\* R-38 is about): once docling is up for good, some conversion closes it.
Recovers == healthy ~> cvFailed < CvThreshold
=============================================================================

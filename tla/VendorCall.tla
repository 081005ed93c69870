----------------------------- MODULE VendorCall -----------------------------
(***************************************************************************)
(* One invocation as the vendors see it: the adapters under                *)
(* account/adapters, the HTTP client and the dreamina CLI runner they call *)
(* through, and the loop of InvokeService.invoke that moves on to the next *)
(* candidate.                                                              *)
(*                                                                         *)
(* TaskLifecycle takes the outcome of an adapter call as given: rejected,  *)
(* unknown or accepted.  Here the call meets a vendor that may take a      *)
(* request late, after the client gave up, and whose answer may be lost,   *)
(* come from a proxy, be too large or be no JSON; and the question is what *)
(* each answer may be reported as.  A report of "rejected" lets the next   *)
(* candidate be tried, so a wrong one is paid for twice.                   *)
(*                                                                         *)
(* The ledger writes around a call and their failures are in TaskLifecycle.*)
(***************************************************************************)
EXTENDS Naturals, FiniteSets

CONSTANTS MaxFailover,     \* MAX_FAILOVER of invoke.service.ts, as far as there are candidates
          MaxRetries,      \* MAX_RETRIES of http-client.ts
          None

Candidates == 1 .. MaxFailover

\* bailian's synchronous image and asynchronous video calls, openai-compat's
\* invoke and stream, and the dreamina CLI.
Adapters == {"image", "video", "chat", "stream", "cli"}
Bailian == {"image", "video"}

VARIABLES adapter,    \* the adapter of the invocation's model
          cand,       \* the candidate being tried
          phase,      \* "prepare", "waiting", "answered" or "reported"
          request,    \* the request in hand: "submit", "query" or "cancel"
          tries,      \* how often httpJson has sent it
          answer,     \* what has come back for it
          wire,       \* candidates whose submission is under way to the vendor
          taken,      \* how often the vendor took each candidate's submission
          job,        \* the vendor's job for each candidate
          report,     \* what the adapter's call for each candidate ended as
          verdict     \* what the last status query ended as
http == <<phase, request, tries, answer>>
vendor == <<wire, taken, job>>
vars == <<adapter, cand, http, vendor, report, verdict>>

-----------------------------------------------------------------------------
(* The answers a vendor, or a proxy before it, gives to a write.           *)

\* With a job: its id or images; a body that is no JSON; one over the limit;
\* a 5xx.  Without: JSON that lacks the id or images (with the code of a bad
\* key, or not), the refusals, and whatever a proxy does on its own.
AnswersWithJob == {"content", "garbled", "huge", "down"}
AnswersWithoutJob ==
    {"bare", "bareKey", "garbled", "huge", "refused", "refusedKey", "badKey",
     "limited", "down", "redirect"}

\* No answer: a timeout, an abort of the Task's signal, or a lost connection.
Lost == "lost"
Answers == AnswersWithJob \cup AnswersWithoutJob \cup {Lost}

\* The client marks the status query and bailian's cancellation safe.
AnySafe(r) == TRUE                 \* mutant: a submission is repeated too
Safe(r) == r \in {"query", "cancel"}

\* once and mapStatus: the dispatch outcome of an error.  A request that is not
\* safe and may have been taken is not known to be rejected.
DispatchedIfSmall(r, a) ==         \* mutant: an answer that is too large
    IF ~Safe(r) /\ a \in {"down", "redirect", Lost} THEN "unknown" ELSE "rejected"
Dispatched(r, a) ==
    IF ~Safe(r) /\ a \in {"huge", "down", "redirect", Lost} THEN "unknown" ELSE "rejected"

\* httpJson: a safe request is tried again after the errors marked retryable.
MayRetry(r, n, a) ==
    /\ Safe(r)
    /\ a \in {"limited", "down", "redirect", Lost}
    /\ n <= MaxRetries

-----------------------------------------------------------------------------
(* What each adapter makes of an answer: the set of its possible reports.  *)

Report(outcome, failover, a) == [outcome |-> outcome, failover |-> failover, answer |-> a]

\* InvokeService: a rejected attempt moves on when it may be repeated or its
\* key was bad.  resolveBailianCode finds a bad key in any error body.
MovesOn(a) ==
    \/ a \in {"limited", "badKey"}
    \/ a \in {"refusedKey", "bareKey"} /\ adapter \in Bailian

Rejected(a) == Report("rejected", MovesOn(a), a)
HttpError(a) == Report(Dispatched("submit", a), MovesOn(a), a)

\* BailianDashscopeAdapter.invoke: an answer without an id or image is rejected;
\* once there are images, a failed download is reported as accepted.
ImageReports(a) ==
    CASE a = "content" -> {Report(o, FALSE, a) : o \in {"returned", "accepted"}}
      [] a \in {"bare", "bareKey", "garbled"} -> {Rejected(a)}
      [] OTHER -> {HttpError(a)}

VideoReports(a) ==
    CASE a = "content" -> {Report("running", FALSE, a)}
      [] a \in {"bare", "bareKey", "garbled"} -> {Rejected(a)}
      [] OTHER -> {HttpError(a)}

\* OpenAICompatAdapter.invoke: any 2xx answer succeeds, if need be without text.
ChatReports(a) ==
    IF a \in {"content", "bare", "bareKey", "garbled"}
    THEN {Report("returned", FALSE, a)}
    ELSE {HttpError(a)}

\* OpenAICompatAdapter.stream: it does not go through httpJson, and any status
\* other than 2xx leaves the dispatch outcome at its default.
StreamReports(a) ==
    CASE a \in {"content", "bare", "bareKey", "garbled"} -> {Report("returned", FALSE, a)}
      [] a \in {"huge", "redirect", Lost} -> {Report("unknown", FALSE, a)}
      [] OTHER -> {Report("rejected", FALSE, a)}

\* DreaminaCliAdapter.invoke: output with a submit_id, or a plain Error.
CliReports(a) ==
    {Report(IF a = "content" THEN "running" ELSE "unknown", FALSE, a)}

Reports(a) ==
    CASE adapter = "image"  -> ImageReports(a)
      [] adapter = "video"  -> VideoReports(a)
      [] adapter = "chat"   -> ChatReports(a)
      [] adapter = "stream" -> StreamReports(a)
      [] adapter = "cli"    -> CliReports(a)

-----------------------------------------------------------------------------
NoVerdict == [result |-> None, answer |-> None]

Init ==
    /\ adapter \in Adapters
    /\ cand = 1
    /\ phase = "prepare"
    /\ request = "submit"
    /\ tries = 0
    /\ answer = None
    /\ wire = {}
    /\ taken = [c \in Candidates |-> 0]
    /\ job = [c \in Candidates |-> None]
    /\ report = [c \in Candidates |-> None]
    /\ verdict = NoVerdict

\* Before a submission is sent: the key is missing, the CLI's media are not
\* trusted, or (not an AdapterError) one of its media files cannot be fetched.
PreparationReports ==
    IF adapter = "cli"
    THEN {Report(o, FALSE, None) : o \in {"rejected", "unknown"}}
    ELSE {Report("rejected", TRUE, None)}

FailToPrepare ==
    /\ phase = "prepare"
    /\ phase' = "reported"
    /\ \E r \in PreparationReports : report' = [report EXCEPT ![cand] = r]
    /\ UNCHANGED <<adapter, cand, request, tries, answer, vendor, verdict>>

\* once: one try of the request in hand.
SendOnce ==
    /\ phase' = "waiting"
    /\ tries' = tries + 1
    /\ answer' = None
    /\ wire' = IF request = "submit" THEN wire \cup {cand} ELSE wire

Submit ==
    /\ phase = "prepare"
    /\ SendOnce
    /\ UNCHANGED <<adapter, cand, request, taken, job, report, verdict>>

\* The vendor takes a submission, perhaps long after its sender gave up, and
\* answers whoever still waits.
VendorTakes(c, creates) ==
    /\ c \in wire
    /\ wire' = wire \ {c}
    /\ taken' = [taken EXCEPT ![c] = @ + 1]
    /\ job' = IF creates THEN [job EXCEPT ![c] = "running"] ELSE job
    /\ IF c = cand /\ phase = "waiting" /\ request = "submit" /\ answer = None
       THEN \E a \in IF creates THEN AnswersWithJob ELSE AnswersWithoutJob : answer' = a
       ELSE answer' = answer
    /\ UNCHANGED <<adapter, cand, phase, request, tries, report, verdict>>

\* A submission that never arrives.
SubmissionLost(c) ==
    /\ c \in wire
    /\ wire' = wire \ {c}
    /\ UNCHANGED <<adapter, cand, http, taken, job, report, verdict>>

\* The vendor's job ends.
JobEnds(c, s) ==
    /\ job[c] = "running"
    /\ job' = [job EXCEPT ![c] = s]
    /\ UNCHANGED <<adapter, cand, http, wire, taken, report, verdict>>

\* getTask and query_result read the job; cancelTask may end it.
VendorAnswers ==
    /\ phase = "waiting"
    /\ request \in {"query", "cancel"}
    /\ answer = None
    /\ \/ request = "query" /\ answer' = job[cand] /\ job' = job
       \/ /\ request = "cancel"
          /\ answer' = "content"
          /\ job' = [job EXCEPT ![cand] = IF @ = "running" THEN "failed" ELSE @]
       \/ answer' \in {"garbled", "huge", "refused", "badKey", "limited", "down", "redirect"}
          /\ job' = job
    /\ UNCHANGED <<adapter, cand, phase, request, tries, wire, taken, report, verdict>>

\* The client's timer or the Task's signal fires, or the connection breaks; an
\* answer on its way is not read.
GiveUp ==
    /\ phase = "waiting"
    /\ phase' = "answered"
    /\ answer' = Lost
    /\ UNCHANGED <<adapter, cand, request, tries, vendor, report, verdict>>

Receive ==
    /\ phase = "waiting"
    /\ answer # None
    /\ phase' = "answered"
    /\ UNCHANGED <<adapter, cand, request, tries, answer, vendor, report, verdict>>

\* The adapters that go through httpJson.
OverHttp == adapter \in {"image", "video", "chat"}

Retry ==
    /\ phase = "answered"
    /\ OverHttp
    /\ MayRetry(request, tries, answer)
    /\ SendOnce
    /\ UNCHANGED <<adapter, cand, request, taken, job, report, verdict>>

\* The last try has been answered.
Settled == phase = "answered" /\ ~(OverHttp /\ MayRetry(request, tries, answer))

ConcludeSubmission ==
    /\ Settled
    /\ request = "submit"
    /\ phase' = "reported"
    /\ \E r \in Reports(answer) : report' = [report EXCEPT ![cand] = r]
    /\ UNCHANGED <<adapter, cand, request, tries, answer, vendor, verdict>>

\* The loop of InvokeService.invoke; stream makes a single attempt.
Failover ==
    /\ phase = "reported"
    /\ adapter # "stream"
    /\ cand < MaxFailover
    /\ report[cand].outcome = "rejected"
    /\ report[cand].failover
    /\ cand' = cand + 1
    /\ phase' = "prepare"
    /\ tries' = 0
    /\ answer' = None
    /\ UNCHANGED <<adapter, request, vendor, report, verdict>>

\* poll and cancel of a job whose id was returned; the CLI cannot cancel.
Ask(r) ==
    /\ phase = "reported"
    /\ report[cand].outcome = "running"
    /\ verdict.result \notin {"succeeded", "failed"}
    /\ r = "cancel" => adapter = "video"
    /\ request' = r
    /\ phase' = "waiting"
    /\ tries' = 1
    /\ answer' = None
    /\ UNCHANGED <<adapter, cand, vendor, report, verdict>>

\* parseTaskStatus: whatever is not running or succeeded has failed, a body that
\* is no JSON included.  The CLI's unreadable output is an error.
Verdicts(a) ==
    CASE a = "running" -> {"running"}
      [] a = "succeeded" -> {"succeeded", "error"}
      [] a = "failed" -> {"failed"}
      [] a = "garbled" /\ adapter = "video" -> {"failed"}
      [] OTHER -> {"error"}

ConcludeQuery ==
    /\ Settled
    /\ request = "query"
    /\ phase' = "reported"
    /\ \E v \in Verdicts(answer) : verdict' = [result |-> v, answer |-> answer]
    /\ UNCHANGED <<adapter, cand, request, tries, answer, vendor, report>>

\* A failed cancellation is only logged.
ConcludeCancel ==
    /\ Settled
    /\ request = "cancel"
    /\ phase' = "reported"
    /\ UNCHANGED <<adapter, cand, request, tries, answer, vendor, report, verdict>>

Next ==
    \/ FailToPrepare \/ Submit \/ Retry \/ GiveUp \/ Receive
    \/ ConcludeSubmission \/ ConcludeQuery \/ ConcludeCancel \/ Failover
    \/ VendorAnswers
    \/ \E c \in Candidates :
          \/ \E creates \in BOOLEAN : VendorTakes(c, creates)
          \/ SubmissionLost(c)
          \/ \E s \in {"succeeded", "failed"} : JobEnds(c, s)
    \/ \E r \in {"query", "cancel"} : Ask(r)

Spec == Init /\ [][Next]_vars

-----------------------------------------------------------------------------
JobStates == {"running", "succeeded", "failed"}
AnswerType == Answers \cup JobStates \cup {None}
Outcomes == {"rejected", "unknown", "accepted", "returned", "running"}
ReportType == [outcome : Outcomes, failover : BOOLEAN, answer : AnswerType]
VerdictType == [result : JobStates \cup {"error", None}, answer : AnswerType]

TypeOK ==
    /\ adapter \in Adapters
    /\ cand \in Candidates
    /\ phase \in {"prepare", "waiting", "answered", "reported"}
    /\ request \in {"submit", "query", "cancel"}
    /\ tries \in 0 .. MaxRetries + 1
    /\ answer \in AnswerType
    /\ wire \subseteq Candidates
    /\ taken \in [Candidates -> Nat]
    /\ job \in [Candidates -> JobStates \cup {None}]
    /\ report \in [Candidates -> ReportType \cup {None}]
    /\ verdict \in VerdictType

\* However late the vendor takes a request and whatever becomes of its answers,
\* an invocation leaves at most one job behind: no submission is sent twice, and
\* no candidate is tried after one that may have been taken.
OneJobPerInvocation ==
    /\ \A c \in Candidates : taken[c] <= 1
    /\ Cardinality({c \in Candidates : job[c] # None}) <= 1

\* What is reported of the vendor is so.  An attempt reported as rejected has no
\* job and never gets one, and a job is reported finished only when it is and as
\* it did; except where the code cannot know: an answer of bailian's that is no
\* JSON, and the streaming call, whose 5xx answers count as rejections.
ReportsAreTrue ==
    /\ \A c \in Candidates :
          report[c] # None /\ report[c].outcome = "rejected"
              => \/ job[c] = None /\ c \notin wire
                 \/ report[c].answer = "garbled"
                 \/ adapter = "stream" /\ report[c].answer = "down"
    /\ verdict.result \in {"succeeded", "failed"}
          => verdict.result = job[cand] \/ verdict.answer = "garbled"
=============================================================================

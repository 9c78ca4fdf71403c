---------------------------- MODULE GitHubCalls ----------------------------
(***************************************************************************)
(* The github tools that write, and ci.trigger_ci, from the call of the    *)
(* loop to its answer, over a remote that may lose a reply: the boundary   *)
(* with its rate limit and retry (github_client.py, retry.py), the         *)
(* translation of failures, the review that degrades to a comment          *)
(* (github_tools.py), and the dispatch that reads back a run id            *)
(* (test_tools.py).  One call runs at a time: the loop is one thread.      *)
(***************************************************************************)
EXTENDS TokenBucket, FiniteSets

CONSTANTS
    MaxAttempts,   \* RetryPolicy.max_attempts
    BaseDelay,     \* RetryPolicy.base_delay_s, in ticks
    MaxDelay,      \* RetryPolicy.max_delay_s, in ticks
    MaxCalls,      \* calls in one behaviour (a bound)
    MaxFaulty,     \* transient failures stop after this many tokens (a bound)
    MaxLate,       \* by how much a sleep may overrun (a bound)
    MaxElapse,     \* by how much time passes at once (a bound)
    MaxTime        \* until when it does (a bound)

ASSUME CallsAssumption ==
    /\ MaxAttempts \in Nat \ {0}
    /\ BaseDelay \in Nat
    /\ MaxDelay \in Nat
    /\ MaxCalls \in Nat
    /\ {MaxFaulty, MaxLate, MaxElapse, MaxTime} \subseteq Nat

VARIABLES
    call,          \* the call in progress
    remote,        \* what the remote holds
    answers,       \* what the loop was told, call by call
    lost           \* per call, how many of its attempts failed once written

vars == <<call, remote, answers, lost, bucketVars>>
boundaryVars == <<call, remote, answers, lost>>

(* Approving and requesting changes are told apart by nothing here.        *)
Events == {"VERDICT", "COMMENT"}

(* Tools that only add, tools the remote takes once, reviews, and dispatch.*)
Writes == {"comment_issue", "create_pr", "merge_pr", "trigger_ci"}
Requests == [tool : Writes, event : {"none"}] \cup [tool : {"review"}, event : Events]

(* How a tool answers: refused is a NotFoundError or PermissionDeniedError, *)
(* malformed a MalformedInputError, gave_up the exhausted TransientError;  *)
(* escaped is any exception the boundary does not translate.               *)
Kinds == {"ok", "downgraded", "refused", "malformed", "gave_up", "escaped"}
Phases == {"idle", "acquire", "request", "follow", "backoff"}

Sent == Events \cup {"none"}
Entries == [by : Nat \ {0}, tool : Writes \cup {"review"}, event : Sent]
Answers == [request : Requests, kind : Kinds, event : Sent, attempts : 1 .. MaxAttempts]

CallsTypeOK ==
    /\ BucketTypeOK
    /\ call \in [request : Requests, event : Sent, attempt : 1 .. MaxAttempts, phase : Phases]
    /\ remote \in [own : BOOLEAN, pushed : BOOLEAN, written : Seq(Entries), runs : Seq(Nat)]
    /\ answers \in Seq(Answers)
    /\ lost \in Seq(Nat)

Current == Len(answers) + 1
WrittenBy(k) == {i \in DOMAIN remote.written : remote.written[i].by = k}
Holds(tool) == \E i \in DOMAIN remote.written : remote.written[i].tool = tool
Busy == call.phase # "idle"

(* The pull request under review may be the agent's own; the head branch   *)
(* may not be pushed yet; an older run may be listed for the ref.          *)
Init ==
    /\ BucketInit
    /\ call = [request |-> [tool |-> "create_pr", event |-> "none"], event |-> "none",
               attempt |-> 1, phase |-> "idle"]
    /\ remote \in [own : BOOLEAN, pushed : BOOLEAN, written : {<<>>}, runs : {<<>>, <<0>>}]
    /\ answers = <<>>
    /\ lost = <<>>

(* Faulty variant: the wait does not grow.                                 *)
FlatDelay(failed) == IF BaseDelay \in 0 .. MaxDelay THEN BaseDelay ELSE MaxDelay

(* Two to the power n.                                                     *)
Doubled[n \in Nat] == IF n = 0 THEN 1 ELSE 2 * Doubled[n - 1]

(* The wait after the given attempt failed: RetryPolicy.delay_for.         *)
Delay(failed) ==
    LET grown == BaseDelay * Doubled[failed - 1]
    IN  IF grown \in 0 .. MaxDelay THEN grown ELSE MaxDelay

(* What the remote refuses with a 405 or a 422: a pull request for a head  *)
(* that is not pushed or already has one, a second merge, and a verdict on *)
(* the author's own pull request.                                          *)
OwnBlock == call.request.tool = "review" /\ remote.own /\ call.event # "COMMENT"
Refused ==
    \/ call.request.tool = "create_pr" /\ (~remote.pushed \/ Holds("create_pr"))
    \/ call.request.tool = "merge_pr" /\ Holds("merge_pr")
    \/ OwnBlock

-----------------------------------------------------------------------------
(* The loop dispatches a tool: the boundary's first attempt is due.        *)
Invoke(request) ==
    /\ ~Busy /\ Len(answers) < MaxCalls
    /\ call' = [request |-> request, event |-> request.event, attempt |-> 1,
                phase |-> "acquire"]
    /\ lost' = Append(lost, 0)
    /\ UNCHANGED <<remote, answers, bucketVars>>

To(phase) == call' = [call EXCEPT !.phase = phase]

Answer(kind) ==
    /\ answers' = Append(answers, [request |-> call.request, kind |-> kind,
                                   event |-> call.event, attempts |-> call.attempt])
    /\ To("idle")

(* Faulty variant: an empty bucket is left for someone else to refill.     *)
AcquireIfReady(late) ==
    /\ call.phase = "acquire"
    /\ Refilled(tokens, last, now) >= Cost
    /\ Acquire(late)
    /\ To("request")
    /\ UNCHANGED <<remote, answers, lost>>

(* resilient_call.attempt: a token before every attempt, retries included. *)
AcquireToken(late) ==
    /\ call.phase = "acquire"
    /\ Acquire(late)
    /\ To("request")
    /\ UNCHANGED <<remote, answers, lost>>

MayFail == Len(admitted) <= MaxFaulty

(* Faulty variants: one attempt too few; giving up without raising.        *)
FailEarly ==
    IF call.attempt >= MaxAttempts - 1
    THEN Answer("gave_up")
    ELSE To("backoff") /\ UNCHANGED answers
FailSilently ==
    IF call.attempt >= MaxAttempts
    THEN Answer("ok")
    ELSE To("backoff") /\ UNCHANGED answers

(* An attempt failed with a transient error: back off, or give up.         *)
Fail ==
    IF call.attempt >= MaxAttempts
    THEN Answer("gave_up")
    ELSE To("backoff") /\ UNCHANGED answers

(* A rate limit, a 429 or 5xx, a dropped connection, at the reads before   *)
(* the write (the repository, the issue, the pull request, the workflow)   *)
(* or at the write: nothing was written, unless the request that failed is *)
(* the read back of a dispatched run.                                      *)
Transient ==
    /\ call.phase \in {"request", "follow"} /\ MayFail
    /\ Fail
    /\ lost' = IF call.phase = "follow"
               THEN [lost EXCEPT ![Current] = @ + 1] ELSE lost
    /\ UNCHANGED <<remote, bucketVars>>

Record == remote' = [remote EXCEPT !.written = Append(@,
    [by |-> Current, tool |-> call.request.tool, event |-> call.event])]

(* Faulty variant: a degraded review claims the verdict it was asked for.  *)
SucceedAsAsked ==
    /\ answers' = Append(answers, [request |-> call.request, kind |-> "ok",
                                   event |-> call.request.event, attempts |-> call.attempt])
    /\ To("idle")

(* What the tool returns once its write is acknowledged.                   *)
Succeed ==
    Answer(IF call.event # call.request.event THEN "downgraded" ELSE "ok")

(* The remote takes the write and the reply arrives.                       *)
Write ==
    /\ call.phase = "request" /\ ~Refused
    /\ Record
    /\ IF call.request.tool = "trigger_ci"
       THEN To("follow") /\ UNCHANGED answers
       ELSE Succeed
    /\ UNCHANGED <<lost, bucketVars>>

(* The remote takes the write and the reply is lost: a transient failure   *)
(* like any other.                                                         *)
LoseReply ==
    /\ call.phase = "request" /\ ~Refused /\ MayFail
    /\ Record
    /\ Fail
    /\ lost' = [lost EXCEPT ![Current] = @ + 1]
    /\ UNCHANGED bucketVars

(* A failure that is not transient is classified and never retried; read   *)
(* back or not, the write of a dispatch stays.                             *)
EndUnretried(kind, written) ==
    /\ Answer(kind)
    /\ lost' = IF written THEN [lost EXCEPT ![Current] = @ + 1] ELSE lost
    /\ UNCHANGED bucketVars

(* _classify: a 404, 401 or 403 to any request is refused, and any other   *)
(* status malformed: a verdict on one's own pull request may get a 422 for *)
(* another reason, too, which _submit_review raises again.                 *)
Reject ==
    /\ call.phase \in {"request", "follow"}
    /\ \E kind \in {"refused", "malformed"} : EndUnretried(kind, call.phase = "follow")
    /\ UNCHANGED remote

(* An exception that is neither a GithubException nor a dropped connection,*)
(* before or after the write is taken.                                     *)
Escape ==
    \/ /\ call.phase \in {"request", "follow"}
       /\ EndUnretried("escaped", call.phase = "follow")
       /\ UNCHANGED remote
    \/ /\ call.phase = "request" /\ ~Refused
       /\ EndUnretried("escaped", TRUE)
       /\ Record

(* _submit_review: a verdict refused on one's own pull request is          *)
(* submitted again as a comment, through the boundary from the start.      *)
Downgrade ==
    /\ call.phase = "request" /\ OwnBlock
    /\ call' = [call EXCEPT !.event = "COMMENT", !.attempt = 1, !.phase = "acquire"]
    /\ UNCHANGED <<remote, answers, lost, bucketVars>>

(* trigger_ci reads the newest run listed for the ref; no run listed is a  *)
(* StopIteration, which nothing translates.                                *)
ReadRun ==
    /\ call.phase = "follow"
    /\ Answer(IF remote.runs = <<>> THEN "escaped" ELSE "ok")
    /\ lost' = IF remote.runs = <<>>
               THEN [lost EXCEPT ![Current] = @ + 1] ELSE lost
    /\ UNCHANGED <<remote, bucketVars>>

(* time.sleep(delay_for(attempt)), then the next attempt.                  *)
BackOff ==
    /\ call.phase = "backoff"
    /\ call' = [call EXCEPT !.attempt = @ + 1, !.phase = "acquire"]
    /\ Elapse(Delay(call.attempt))
    /\ UNCHANGED <<remote, answers, lost>>

Work ==
    \/ \E late \in 0 .. MaxLate : AcquireToken(late)
    \/ Transient \/ Write \/ LoseReply \/ Reject \/ Escape
    \/ Downgrade \/ ReadRun \/ BackOff

(* A request in flight takes time; the loop's work up to the next call only*)
(* delays the next token as well, and is counted here.                     *)
TimePasses ==
    /\ call.phase = "request"
    /\ \E time \in 1 .. MaxElapse : now + time <= MaxTime /\ Elapse(time)
    /\ UNCHANGED boundaryVars

(* git.push, between two calls.                                            *)
Push ==
    /\ ~Busy /\ ~remote.pushed
    /\ remote' = [remote EXCEPT !.pushed = TRUE]
    /\ UNCHANGED <<call, answers, lost, bucketVars>>

(* A dispatched run starts to be listed, some time after its dispatch; it  *)
(* matters only once the runs are about to be read.                        *)
ListRun ==
    /\ call.phase = "follow"
    /\ \E i \in DOMAIN remote.written :
        /\ remote.written[i].tool = "trigger_ci"
        /\ \A j \in DOMAIN remote.runs : remote.runs[j] # remote.written[i].by
        /\ remote' = [remote EXCEPT !.runs = <<remote.written[i].by>> \o @]
    /\ UNCHANGED <<call, answers, lost, bucketVars>>

Next ==
    \/ \E request \in Requests : Invoke(request)
    \/ Work
    \/ TimePasses \/ Push \/ ListRun

Spec == Init /\ [][Next]_vars /\ WF_vars(Work)

-----------------------------------------------------------------------------
Succeeded(k) == answers[k].kind \in {"ok", "downgraded"}

(* Calls that add are not idempotent and a failed attempt is retried: the  *)
(* remote holds what a call wrote once if it succeeded, and once more for  *)
(* every attempt that failed after its write, and never anything else, so  *)
(* that a call no reply of which was lost has written exactly when it says *)
(* so (github_client.py:64-76, test_tools.py:310-317).                     *)
WritesAccounted ==
    \A k \in DOMAIN answers :
        Cardinality(WrittenBy(k)) = lost[k] + (IF Succeeded(k) THEN 1 ELSE 0)

(* A review reports what was posted: the verdict asked for, or a comment   *)
(* marked as a downgrade, and that only on the author's own pull request.  *)
(* However it ends, in an error after lost replies as well, the remote     *)
(* holds of it nothing but what was submitted last: never a verdict beside *)
(* the comment it degraded to (github_tools.py:421-454).                   *)
ReviewTruthful ==
    \A k \in DOMAIN answers :
        LET asked == answers[k].request.event
            sent == {remote.written[i].event : i \in WrittenBy(k)}
        IN  answers[k].request.tool = "review" =>
                /\ sent \subseteq {answers[k].event}
                /\ answers[k].kind = "ok" => sent = {asked}
                /\ answers[k].kind = "downgraded" =>
                        remote.own /\ asked # "COMMENT" /\ sent = {"COMMENT"}

(* A transient failure is given up on only after every attempt was made    *)
(* (retry.py:64-72).                                                       *)
GaveUpExhausted ==
    \A k \in DOMAIN answers :
        answers[k].kind = "gave_up" => answers[k].attempts = MaxAttempts

(* Two attempts of a call are as far apart as the backoff promises: the    *)
(* base delay doubled with every failure, never above the cap, whatever    *)
(* the rate limit adds (retry.py:35-50).                                   *)
Spacing[n \in 1 .. MaxAttempts] ==
    LET wait == IF n = 1 THEN BaseDelay ELSE 2 * Spacing[n - 1]
    IN  IF wait < MaxDelay THEN wait ELSE MaxDelay

AttemptsSpaced ==
    [][LET n == Len(admitted)
       IN  admitted' # admitted /\ call.attempt > 1 =>
               admitted'[n + 1] - admitted[n] >= Spacing[call.attempt - 1]]_vars

(* Whatever the remote answers or fails to, every call is answered.        *)
EveryCallAnswered == Busy ~> ~Busy
=============================================================================

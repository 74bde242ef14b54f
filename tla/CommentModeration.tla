-------------------------- MODULE CommentModeration --------------------------
(***************************************************************************)
(* Comments and their moderation: CommentsService, CommentsRepo, the       *)
(* moderation queue and its worker, the admin's retry of failed comments   *)
(* and the job that removes rejected and deleted ones.                     *)
(*                                                                         *)
(* HTTP requests, the queue worker and the jobs share the comment rows.    *)
(* The transactions read the row, decide, and write it: READ COMMITTED     *)
(* lets another transaction commit in between, so each is a step that      *)
(* reads and a step that writes.  Of a comment's text only the version     *)
(* matters: 1 is what was first posted, each edit adds one.                *)
(***************************************************************************)
EXTENDS Integers, FiniteSets

CONSTANTS
    Comments,    \* comment ids
    Deleters,    \* concurrent delete requests
    MaxVersion,  \* bound: versions of one comment's text
    MaxTries,    \* attempts of a moderation job
    MaxRequests, \* bound: requests and selections under way at a time
    MaxTally,    \* bound: no retry of a comment counted that often, or taken off
    Idle         \* no delete in progress

ASSUME BoundsAssumption ==
    /\ MaxVersion \in Nat \ {0}
    /\ MaxTries \in Nat \ {0}
    /\ MaxRequests \in Nat
    /\ MaxTally \in Nat

VARIABLES
    status,    \* Comment.status, "ABSENT" where there is no row
    verdict,   \* moderatorType, moderationReason and moderatedAt together
    version,   \* the version of Comment.content
    tally,     \* what the comment has added to Post.totalComments in total
    requests,  \* create, update and retry requests that still have to enqueue
    retries,   \* failed comments an admin's retry has selected
    job,       \* state of the queue's job for the comment
    jobText,   \* the version in that job
    tries,     \* attemptsMade of the job
    stalls,    \* how often its worker died
    worker,    \* what the worker on the job does, with what it has read
    deletes,   \* delete requests past their read
    sweep,     \* ids selected by the cleanup job
    judgedSafe, \* versions of the comment the agent called safe (auxiliary)
    crossed    \* versions submitted on the heels of another (auxiliary)

rowVars == <<status, verdict, version, tally>>
requestVars == <<requests, retries>>
jobVars == <<job, jobText, tries, stalls>>
noteVars == <<judgedSafe, crossed>>
vars == <<status, verdict, version, tally, requests, retries, job, jobText,
          tries, stalls, worker, deletes, sweep, judgedSafe, crossed>>

-----------------------------------------------------------------------------
CommentStatus == {"PENDING", "PROCESSING", "APPROVED", "REJECTED", "FAILED",
                  "DELETED"}
Versions == 1..MaxVersion

(***************************************************************************)
(* The columns moderatorType, moderationReason, moderatedAt are only ever  *)
(* written together: never ("none"), AGENT without a reason ("safe"),      *)
(* AGENT with a reason ("unsafe") or LOCAL with a reason ("unavailable").  *)
(***************************************************************************)
Verdicts == {"none", "safe", "unsafe", "unavailable"}

Request == [comment : Comments, version : Versions,
            setProcessing : BOOLEAN, step : {"enqueue", "process", "fail"}]
Selection == [comment : Comments, version : Versions]
JobStates == {"none", "waiting", "active", "failed"}
WorkerState == [step : {"idle", "approve", "reject", "done", "exhausted"},
                counted : BOOLEAN]
Delete == [comment : Comments, hard : BOOLEAN, counted : BOOLEAN]

Resting == [step |-> "idle", counted |-> FALSE]

Exists(c) == status[c] # "ABSENT"

\* isCountedComment: the comment is part of Post.totalComments.
IsCounted(c) == status[c] = "APPROVED" /\ verdict[c] = "safe"

One(b) == IF b THEN 1 ELSE 0

Init ==
    /\ status = [c \in Comments |-> "ABSENT"]
    /\ verdict = [c \in Comments |-> "none"]
    /\ version = [c \in Comments |-> 0]
    /\ tally = [c \in Comments |-> 0]
    /\ requests = {}
    /\ retries = {}
    /\ job = [c \in Comments |-> "none"]
    /\ jobText = [c \in Comments |-> 1]
    /\ tries = [c \in Comments |-> 0]
    /\ stalls = [c \in Comments |-> 0]
    /\ worker = [c \in Comments |-> Resting]
    /\ deletes = [d \in Deleters |-> Idle]
    /\ sweep = {}
    /\ judgedSafe = [c \in Comments |-> {}]
    /\ crossed = [c \in Comments |-> {}]

-----------------------------------------------------------------------------
(* Requests that ask for moderation *)

FewRequests == Cardinality(requests) + Cardinality(retries) < MaxRequests

\* A request or a retry of the comment has not ended, or a job of it has not.
UnderWay(c) ==
    \/ \E r \in requests \union retries : r.comment = c
    \/ job[c] \in {"waiting", "active"}

\* The row is written and the request goes on to enqueueOrThrow with a text;
\* the variant enqueues the text it read before its update.
SubmitBefore(c, v) ==
    /\ FewRequests
    /\ status' = [status EXCEPT ![c] = "PENDING"]
    /\ version' = [version EXCEPT ![c] = v]
    /\ requests' = requests \union
         {[comment |-> c, version |-> IF v = 1 THEN 1 ELSE version[c],
           setProcessing |-> TRUE, step |-> "enqueue"]}
    /\ crossed' = [crossed EXCEPT ![c] = IF UnderWay(c) THEN @ \union {v} ELSE @]
    /\ UNCHANGED <<verdict, tally, retries, jobVars, worker, deletes, sweep,
                   judgedSafe>>
Submit(c, v) ==
    /\ FewRequests
    /\ status' = [status EXCEPT ![c] = "PENDING"]
    /\ version' = [version EXCEPT ![c] = v]
    /\ requests' = requests \union
         {[comment |-> c, version |-> v, setProcessing |-> TRUE,
           step |-> "enqueue"]}
    /\ crossed' = [crossed EXCEPT ![c] = IF UnderWay(c) THEN @ \union {v} ELSE @]
    /\ UNCHANGED <<verdict, tally, retries, jobVars, worker, deletes, sweep,
                   judgedSafe>>

\* create: ids are never used again, so a comment is created once.
CreateComment(c) == version[c] = 0 /\ Submit(c, 1)

\* update: whatever the status, a counted comment stays counted.
UpdateComment(c) ==
    /\ Exists(c)
    /\ version[c] < MaxVersion
    /\ Submit(c, version[c] + 1)

\* The request moves on, or ends where step is "done".
Advance(r, step) ==
    requests' = (requests \ {r}) \union
                   (IF step = "done" THEN {} ELSE {[r EXCEPT !.step = step]})

(***************************************************************************)
(* queue.add under the job id of the comment: ignored while a job of that  *)
(* id is waiting, active or among the retained failures.                   *)
(***************************************************************************)
AddJob(c, v) ==
    IF job[c] = "none"
      THEN /\ job' = [job EXCEPT ![c] = "waiting"]
           /\ jobText' = [jobText EXCEPT ![c] = v]
           /\ tries' = [tries EXCEPT ![c] = 0]
           /\ stalls' = [stalls EXCEPT ![c] = 0]
      ELSE UNCHANGED jobVars

Enqueue(r) ==
    /\ r.step = "enqueue"
    /\ AddJob(r.comment, r.version)
    /\ Advance(r, IF r.setProcessing THEN "process" ELSE "done")
    /\ UNCHANGED <<rowVars, retries, worker, deletes, sweep, noteVars>>

\* All retries of the add fail; Redis may have taken the job all the same.
EnqueueFails(r) ==
    /\ r.step = "enqueue"
    /\ AddJob(r.comment, r.version) \/ UNCHANGED jobVars
    /\ Advance(r, "fail")
    /\ UNCHANGED <<rowVars, retries, worker, deletes, sweep, noteVars>>

\* setModerationProcessing: PROCESSING whatever the status is by now; with
\* the row gone the UPDATE fails and the request ends with nothing to mark.
SetProcessing(r) ==
    /\ r.step = "process"
    /\ status' = IF Exists(r.comment)
                   THEN [status EXCEPT ![r.comment] = "PROCESSING"]
                   ELSE status
    /\ Advance(r, "done")
    /\ UNCHANGED <<verdict, version, tally, retries, jobVars, worker, deletes,
                   sweep, noteVars>>

SetProcessingFails(r) ==
    /\ r.step = "process"
    /\ Advance(r, "fail")
    /\ UNCHANGED <<rowVars, retries, jobVars, worker, deletes, sweep,
                   noteVars>>

\* markModerationServiceUnavailable, and a variant that only sets the status.
StatusFailedOnly(c) ==
    /\ status' = IF Exists(c) THEN [status EXCEPT ![c] = "FAILED"] ELSE status
    /\ UNCHANGED <<verdict, version, tally>>
MarkUnavailable(c) ==
    /\ status' = IF Exists(c) THEN [status EXCEPT ![c] = "FAILED"] ELSE status
    /\ verdict' = IF Exists(c) THEN [verdict EXCEPT ![c] = "unavailable"]
                               ELSE verdict
    /\ UNCHANGED <<version, tally>>

\* markFailedAfterEnqueueError.
MarkFailed(r) ==
    /\ r.step = "fail"
    /\ MarkUnavailable(r.comment)
    /\ Advance(r, "done")
    /\ UNCHANGED <<retries, jobVars, worker, deletes, sweep, noteVars>>

\* The process stops, or the last write fails: the request is not resumed.
RequestDies(r) ==
    /\ Advance(r, "done")
    /\ UNCHANGED <<rowVars, retries, jobVars, worker, deletes, sweep,
                   noteVars>>

\* findFailedForRetry.
RetrySelect(c) ==
    /\ status[c] = "FAILED"
    /\ FewRequests
    /\ tally[c] \in (1 - MaxTally)..(MaxTally - 1)
    /\ retries' = retries \union {[comment |-> c, version |-> version[c]]}
    /\ UNCHANGED <<rowVars, requests, jobVars, worker, deletes, sweep,
                   noteVars>>

\* setModerationProcessingIfFailed, then enqueueOrThrow with what was selected.
RetryClaim(s) ==
    /\ retries' = retries \ {s}
    /\ IF status[s.comment] = "FAILED"
         THEN /\ status' = [status EXCEPT ![s.comment] = "PROCESSING"]
              /\ requests' = requests \union
                   {[comment |-> s.comment, version |-> s.version,
                     setProcessing |-> FALSE, step |-> "enqueue"]}
         ELSE UNCHANGED <<status, requests>>
    /\ UNCHANGED <<verdict, version, tally, jobVars, worker, deletes, sweep,
                   noteVars>>

-----------------------------------------------------------------------------
(* The worker *)

TakeJob(c) ==
    /\ job[c] = "waiting"
    /\ job' = [job EXCEPT ![c] = "active"]
    /\ UNCHANGED <<rowVars, requestVars, jobText, tries, stalls, worker,
                   deletes, sweep, noteVars>>

\* The attempt has committed what it had to; the queue does not know it yet.
EndAttempt(c) ==
    /\ worker' = [worker EXCEPT ![c] = [step |-> "done", counted |-> FALSE]]
    /\ UNCHANGED jobVars

\* removeOnComplete: the job and its id are gone.
CompleteJob(c) ==
    /\ worker[c].step = "done"
    /\ job' = [job EXCEPT ![c] = "none"]
    /\ worker' = [worker EXCEPT ![c] = Resting]
    /\ UNCHANGED <<rowVars, requestVars, jobText, tries, stalls, deletes, sweep,
                   noteVars>>

\* Two variants of FailAttempt: one attempt too many, and never the last one.
OneMoreTry(c) ==
    /\ UNCHANGED <<jobText, stalls>>
    /\ IF tries[c] < MaxTries
         THEN /\ job' = [job EXCEPT ![c] = "waiting"]
              /\ tries' = [tries EXCEPT ![c] = @ + 1]
              /\ worker' = [worker EXCEPT ![c] = Resting]
         ELSE /\ worker' = [worker EXCEPT ![c].step = "exhausted"]
              /\ UNCHANGED <<job, tries>>
RetryForever(c) ==
    /\ job' = [job EXCEPT ![c] = "waiting"]
    /\ worker' = [worker EXCEPT ![c] = Resting]
    /\ UNCHANGED <<jobText, tries, stalls>>

\* The attempt throws: another attempt, or the last one is used up.
FailAttempt(c) ==
    /\ UNCHANGED <<jobText, stalls>>
    /\ IF tries[c] + 1 < MaxTries
         THEN /\ job' = [job EXCEPT ![c] = "waiting"]
              /\ tries' = [tries EXCEPT ![c] = @ + 1]
              /\ worker' = [worker EXCEPT ![c] = Resting]
         ELSE /\ worker' = [worker EXCEPT ![c].step = "exhausted"]
              /\ UNCHANGED <<job, tries>>

\* Where markModeratedApproved returns early; the variant only asks for the row.
NoRow(c) == ~Exists(c)
NotApprovable(c) == status[c] \in {"ABSENT", "DELETED", "REJECTED"}

\* The agent calls the text safe; markModeratedApproved reads the row.
ApproveRead(c) ==
    /\ job[c] = "active"
    /\ worker[c] = Resting
    /\ judgedSafe' = [judgedSafe EXCEPT ![c] = @ \union {jobText[c]}]
    /\ IF NotApprovable(c)
         THEN EndAttempt(c)
         ELSE /\ worker' = [worker EXCEPT
                              ![c] = [step |-> "approve",
                                      counted |-> IsCounted(c)]]
              /\ UNCHANGED jobVars
    /\ UNCHANGED <<rowVars, requestVars, deletes, sweep, crossed>>

\* The verdict columns as markModeratedApproved leaves them; the variant keeps
\* an old moderationReason.
KeepReason(c) ==
    IF verdict[c] \in {"unsafe", "unavailable"} THEN verdict[c] ELSE "safe"
ClearReason(c) == "safe"

\* Its UPDATEs; with the row gone they throw.
ApproveWrite(c) ==
    /\ worker[c].step = "approve"
    /\ IF Exists(c)
         THEN /\ status' = [status EXCEPT ![c] = "APPROVED"]
              /\ verdict' = [verdict EXCEPT ![c] = ClearReason(c)]
              /\ tally' = [tally EXCEPT ![c] = @ + One(~worker[c].counted)]
              /\ EndAttempt(c)
         ELSE /\ FailAttempt(c)
              /\ UNCHANGED <<status, verdict, tally>>
    /\ UNCHANGED <<version, requestVars, deletes, sweep, noteVars>>

\* The agent calls the text unsafe; markModeratedRejected reads the row.
RejectRead(c) ==
    /\ job[c] = "active"
    /\ worker[c] = Resting
    /\ IF ~Exists(c)
         THEN EndAttempt(c)
         ELSE /\ worker' = [worker EXCEPT
                              ![c] = [step |-> "reject",
                                      counted |-> IsCounted(c)]]
              /\ UNCHANGED jobVars
    /\ UNCHANGED <<rowVars, requestVars, deletes, sweep, noteVars>>

RejectWrite(c) ==
    /\ worker[c].step = "reject"
    /\ IF Exists(c)
         THEN /\ status' = [status EXCEPT ![c] = "REJECTED"]
              /\ verdict' = [verdict EXCEPT ![c] = "unsafe"]
              /\ tally' = [tally EXCEPT ![c] = @ - One(worker[c].counted)]
              /\ EndAttempt(c)
         ELSE /\ FailAttempt(c)
              /\ UNCHANGED <<status, verdict, tally>>
    /\ UNCHANGED <<version, requestVars, deletes, sweep, noteVars>>

\* The agent, or a transaction of the attempt, fails.
AttemptFails(c) ==
    /\ job[c] = "active"
    /\ worker[c].step \notin {"done", "exhausted"}
    /\ FailAttempt(c)
    /\ UNCHANGED <<rowVars, requestVars, deletes, sweep, noteVars>>

\* After the last attempt: markUnavailableAfterRetries, which may itself fail,
\* and the job stays among the failed ones under its id.
GiveUp(c) ==
    /\ worker[c].step = "exhausted"
    /\ MarkUnavailable(c) \/ UNCHANGED rowVars
    /\ job' = [job EXCEPT ![c] = "failed"]
    /\ worker' = [worker EXCEPT ![c] = Resting]
    /\ UNCHANGED <<requestVars, jobText, tries, stalls, deletes, sweep,
                   noteVars>>

\* The worker dies.  The queue hands a stalled job out once more, then it
\* fails without any code of the processor.
WorkerDies(c) ==
    /\ job[c] = "active"
    /\ worker' = [worker EXCEPT ![c] = Resting]
    /\ IF stalls[c] = 0
         THEN /\ job' = [job EXCEPT ![c] = "waiting"]
              /\ stalls' = [stalls EXCEPT ![c] = 1]
         ELSE /\ job' = [job EXCEPT ![c] = "failed"]
              /\ UNCHANGED stalls
    /\ UNCHANGED <<rowVars, requestVars, jobText, tries, deletes, sweep,
                   noteVars>>

\* removeOnFail keeps the last 50 failures: later ones push this one out.
ForgetFailure(c) ==
    /\ job[c] = "failed"
    /\ job' = [job EXCEPT ![c] = "none"]
    /\ UNCHANGED <<rowVars, requestVars, jobText, tries, stalls, worker,
                   deletes, sweep, noteVars>>

-----------------------------------------------------------------------------
(* Deletion *)

\* delete (by its author) or hardDeleteMany (by a moderator) reads the row.
DeleteRead(d, c, hard) ==
    /\ deletes[d] = Idle
    /\ Exists(c)
    /\ deletes' = [deletes EXCEPT
                     ![d] = [comment |-> c, hard |-> hard,
                             counted |-> IsCounted(c)]]
    /\ UNCHANGED <<rowVars, requestVars, jobVars, worker, sweep, noteVars>>

\* delete: an UPDATE, which throws with the row gone.
SoftDelete(d) ==
    /\ deletes[d] # Idle
    /\ ~deletes[d].hard
    /\ LET c == deletes[d].comment IN
          IF Exists(c)
            THEN /\ status' = [status EXCEPT ![c] = "DELETED"]
                 /\ tally' = [tally EXCEPT ![c] = @ - One(deletes[d].counted)]
            ELSE UNCHANGED <<status, tally>>
    /\ deletes' = [deletes EXCEPT ![d] = Idle]
    /\ UNCHANGED <<verdict, version, requestVars, jobVars, worker, sweep,
                   noteVars>>

\* hardDeleteMany: a DELETE by id, and the decrement that was read before it.
HardDelete(d) ==
    /\ deletes[d] # Idle
    /\ deletes[d].hard
    /\ LET c == deletes[d].comment IN
          /\ status' = [status EXCEPT ![c] = "ABSENT"]
          /\ verdict' = [verdict EXCEPT ![c] = "none"]
          /\ tally' = [tally EXCEPT ![c] = @ - One(deletes[d].counted)]
    /\ deletes' = [deletes EXCEPT ![d] = Idle]
    /\ UNCHANGED <<version, requestVars, jobVars, worker, sweep, noteVars>>

\* RejectedDeletedCommentsCleanupJob selects a batch, then deletes by id.
SweepSelect ==
    /\ sweep = {}
    /\ \E batch \in SUBSET {c \in Comments : status[c] \in {"REJECTED", "DELETED"}} :
          /\ batch # {}
          /\ sweep' = batch
    /\ UNCHANGED <<rowVars, requestVars, jobVars, worker, deletes, noteVars>>

SweepDelete ==
    /\ sweep # {}
    /\ status' = [c \in Comments |-> IF c \in sweep THEN "ABSENT" ELSE status[c]]
    /\ verdict' = [c \in Comments |-> IF c \in sweep THEN "none" ELSE verdict[c]]
    /\ sweep' = {}
    /\ UNCHANGED <<version, tally, requestVars, jobVars, worker, deletes,
                   noteVars>>

-----------------------------------------------------------------------------
Authors ==
    \/ \E c \in Comments : CreateComment(c) \/ UpdateComment(c)
    \/ \E r \in requests :
          \/ Enqueue(r)
          \/ EnqueueFails(r)
          \/ SetProcessing(r)
          \/ SetProcessingFails(r)
          \/ MarkFailed(r)
          \/ RequestDies(r)

Admins ==
    \/ \E c \in Comments : RetrySelect(c)
    \/ \E s \in retries : RetryClaim(s)

Work(c) ==
    \/ TakeJob(c)
    \/ ApproveRead(c)
    \/ ApproveWrite(c)
    \/ RejectRead(c)
    \/ RejectWrite(c)
    \/ AttemptFails(c)
    \/ GiveUp(c)
    \/ CompleteJob(c)

Queue == \E c \in Comments : Work(c) \/ WorkerDies(c) \/ ForgetFailure(c)

Deletions ==
    \/ \E d \in Deleters, c \in Comments, hard \in BOOLEAN : DeleteRead(d, c, hard)
    \/ \E d \in Deleters : SoftDelete(d) \/ HardDelete(d)
    \/ SweepSelect
    \/ SweepDelete

Next == Authors \/ Admins \/ Queue \/ Deletions

Spec == Init /\ [][Next]_vars

\* Workers run: a job that waits is taken and a step that can go on does.
FairSpec == Spec /\ \A c \in Comments : WF_vars(Work(c))

-----------------------------------------------------------------------------
(* Properties *)

TypeOK ==
    /\ status \in [Comments -> CommentStatus \union {"ABSENT"}]
    /\ verdict \in [Comments -> Verdicts]
    /\ version \in [Comments -> 0..MaxVersion]
    /\ tally \in [Comments -> Int]
    /\ requests \subseteq Request
    /\ retries \subseteq Selection
    /\ job \in [Comments -> JobStates]
    /\ jobText \in [Comments -> Versions]
    /\ tries \in [Comments -> 0..(MaxTries - 1)]
    /\ stalls \in [Comments -> {0, 1}]
    /\ worker \in [Comments -> WorkerState]
    /\ deletes \in [Deleters -> Delete \union {Idle}]
    /\ sweep \subseteq Comments
    /\ judgedSafe \in [Comments -> SUBSET Versions]
    /\ crossed \in [Comments -> SUBSET Versions]

(***************************************************************************)
(* Status and verdict columns agree, though eight writers set one without  *)
(* the other: an APPROVED comment always carries the agent's approval (so  *)
(* isCountedComment asks no more than the status), a FAILED one always     *)
(* says that the service was unavailable.                                  *)
(***************************************************************************)
StatusMatchesVerdict ==
    \A c \in Comments :
        /\ status[c] = "APPROVED" => verdict[c] = "safe"
        /\ status[c] = "REJECTED" => verdict[c] = "unsafe"
        /\ status[c] = "FAILED" => verdict[c] = "unavailable"

(***************************************************************************)
(* The text that is shown is one the agent called safe: the very version   *)
(* an APPROVED comment has was judged, through failed attempts, second     *)
(* deliveries, retries and retained failures.  The exception is a version  *)
(* written while an earlier request, retry or job of the comment was under *)
(* way: its own job may be dropped for that one, and the verdict on the    *)
(* older text, with the same job id, approves it.                          *)
(***************************************************************************)
ApprovedWasJudged ==
    \A c \in Comments :
        status[c] = "APPROVED" => version[c] \in judgedSafe[c] \union crossed[c]

(***************************************************************************)
(* A rejection stands until the text is edited or the comment is deleted:  *)
(* a second delivery of the job, whose worker died after the first verdict *)
(* was committed, may get another verdict but does not turn REJECTED into  *)
(* APPROVED (the status test of markModeratedApproved, whose read another  *)
(* request's write may follow).                                            *)
(***************************************************************************)
RejectionStands ==
    [][\A c \in Comments :
          status[c] = "REJECTED" => status'[c] # "APPROVED"]_vars

\* Every moderation job ends, after at most MaxTries attempts.
JobsEnd ==
    \A c \in Comments :
        job[c] \in {"waiting", "active"} ~> job[c] \in {"none", "failed"}

=============================================================================

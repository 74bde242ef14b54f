--------------------------- MODULE DiscussionProofs ---------------------------
(***************************************************************************)
(* What people write under posts and to each other: CommentModeration and  *)
(* Messages, for any number of comments and messages, of requests at a     *)
(* time, edits, deletions and attempts.  The two have no state in common.  *)
(*                                                                         *)
(* A request on a message works statement by statement, so its invariant   *)
(* says of each statement what the ones before it have ensured, and of     *)
(* each message or page that is out of step which request will put it      *)
(* right.                                                                  *)
(***************************************************************************)
EXTENDS CommentModeration, Messages, TLAPS

-----------------------------------------------------------------------------
(* Comments: what a worker and the rows rely on. *)

\* A worker about to approve has no rejection to overwrite.
ApprovalsAreDue ==
    \A c \in Comments : worker[c].step = "approve" => status[c] # "REJECTED"

\* A row has the text it was posted with or a later one.
RowsHaveText == \A c \in Comments : Exists(c) => version[c] >= 1

IInv == TypeOK /\ RowsHaveText /\ StatusMatchesVerdict /\ ApprovalsAreDue

-----------------------------------------------------------------------------
LEMMA TypeInit == Init => TypeOK
  BY BoundsAssumption DEF Init, TypeOK, Resting, WorkerState, Versions,
       CommentStatus, JobStates, Verdicts

\* What the steps put into the record-valued variables.
LEMMA WorkerSteps ==
    /\ Resting \in WorkerState
    /\ \A b \in BOOLEAN :
          /\ [step |-> "approve", counted |-> b] \in WorkerState
          /\ [step |-> "reject", counted |-> b] \in WorkerState
          /\ [step |-> "done", counted |-> b] \in WorkerState
    /\ \A w \in WorkerState : [w EXCEPT !.step = "exhausted"] \in WorkerState
  BY DEF Resting, WorkerState

LEMMA RequestSteps ==
    /\ \A c \in Comments, v \in Versions, b \in BOOLEAN :
          [comment |-> c, version |-> v, setProcessing |-> b,
           step |-> "enqueue"] \in Request
    /\ \A r \in Request :
          /\ r.comment \in Comments
          /\ r.version \in Versions
          /\ r.setProcessing \in BOOLEAN
          /\ [r EXCEPT !.step = "process"] \in Request
          /\ [r EXCEPT !.step = "fail"] \in Request
    /\ \A c \in Comments, v \in Versions :
          [comment |-> c, version |-> v] \in Selection
    /\ \A s \in Selection : s.comment \in Comments /\ s.version \in Versions
  BY DEF Request, Selection

LEMMA DeleteSteps ==
    /\ \A c \in Comments, h, b \in BOOLEAN :
          [comment |-> c, hard |-> h, counted |-> b] \in Delete
    /\ \A d \in Delete : d.comment \in Comments
  BY DEF Delete

\* Where a request goes next.
LEMMA AdvanceType ==
    ASSUME TypeOK, NEW r \in requests,
           NEW step \in {"process", "fail", "done"}, Advance(r, step)
    PROVE  requests' \subseteq Request
  <1>1. r \in Request
    BY DEF TypeOK
  <1>2. requests' \subseteq
           requests \union {[r EXCEPT !.step = "process"], [r EXCEPT !.step = "fail"]}
    BY DEF Advance
  <1> QED
    BY <1>1, <1>2, RequestSteps DEF TypeOK

\* queue.add, or nothing.
LEMMA AddJobType ==
    ASSUME TypeOK, NEW c \in Comments, NEW v \in Versions,
           AddJob(c, v) \/ UNCHANGED jobVars
    PROVE  /\ job' \in [Comments -> JobStates]
           /\ jobText' \in [Comments -> Versions]
           /\ tries' \in [Comments -> 0..(MaxTries - 1)]
           /\ stalls' \in [Comments -> {0, 1}]
  BY BoundsAssumption DEF TypeOK, AddJob, jobVars, JobStates

LEMMA FailAttemptType ==
    ASSUME TypeOK, NEW c \in Comments, FailAttempt(c)
    PROVE  /\ job' \in [Comments -> JobStates]
           /\ jobText' \in [Comments -> Versions]
           /\ tries' \in [Comments -> 0..(MaxTries - 1)]
           /\ stalls' \in [Comments -> {0, 1}]
           /\ worker' \in [Comments -> WorkerState]
  BY BoundsAssumption, WorkerSteps DEF TypeOK, FailAttempt, JobStates

LEMMA EndAttemptType ==
    ASSUME TypeOK, NEW c \in Comments, EndAttempt(c)
    PROVE  /\ worker' \in [Comments -> WorkerState]
           /\ UNCHANGED jobVars
  BY WorkerSteps DEF TypeOK, EndAttempt

LEMMA MarkUnavailableType ==
    ASSUME TypeOK, NEW c \in Comments, MarkUnavailable(c) \/ UNCHANGED rowVars
    PROVE  /\ status' \in [Comments -> CommentStatus \union {"ABSENT"}]
           /\ verdict' \in [Comments -> Verdicts]
           /\ UNCHANGED <<version, tally>>
  BY DEF TypeOK, MarkUnavailable, rowVars, CommentStatus, Verdicts

LEMMA SubmitType ==
    ASSUME TypeOK, NEW c \in Comments, NEW v \in Versions, Submit(c, v)
    PROVE  TypeOK'
  <1>1. requests' \subseteq Request
    BY RequestSteps DEF TypeOK, Submit
  <1>2. /\ status' \in [Comments -> CommentStatus \union {"ABSENT"}]
        /\ version' \in [Comments -> 0..MaxVersion]
        /\ crossed' \in [Comments -> SUBSET Versions]
    BY BoundsAssumption DEF TypeOK, Submit, CommentStatus, Versions
  <1> QED
    BY <1>1, <1>2 DEF TypeOK, Submit, jobVars

LEMMA TypeStep == TypeOK /\ RowsHaveText /\ [Next]_vars => TypeOK'
<1> SUFFICES ASSUME TypeOK, RowsHaveText, [Next]_vars PROVE TypeOK'
  OBVIOUS
<1> USE BoundsAssumption
    DEF TypeOK, Verdicts, CommentStatus, JobStates, rowVars, requestVars, jobVars, noteVars
<1>1. CASE Authors
  <2>1. ASSUME NEW c \in Comments, CreateComment(c) PROVE TypeOK'
    BY <2>1, SubmitType DEF CreateComment, Versions
  <2>2. ASSUME NEW c \in Comments, UpdateComment(c) PROVE TypeOK'
    <3>1. version[c] + 1 \in Versions
      BY <2>2 DEF UpdateComment, Versions
    <3> QED
      BY <2>2, <3>1, SubmitType DEF UpdateComment
  <2>3. ASSUME NEW r \in requests, Enqueue(r) PROVE TypeOK'
    <3>1. /\ job' \in [Comments -> JobStates] /\ jobText' \in [Comments -> Versions]
          /\ tries' \in [Comments -> 0..(MaxTries - 1)] /\ stalls' \in [Comments -> {0, 1}]
      BY <2>3, RequestSteps, AddJobType DEF Enqueue
    <3>2. requests' \subseteq Request
      BY <2>3, AdvanceType DEF Enqueue
    <3> QED
      BY <2>3, <3>1, <3>2 DEF Enqueue
  <2>4. ASSUME NEW r \in requests, EnqueueFails(r) PROVE TypeOK'
    <3>1. /\ job' \in [Comments -> JobStates] /\ jobText' \in [Comments -> Versions]
          /\ tries' \in [Comments -> 0..(MaxTries - 1)] /\ stalls' \in [Comments -> {0, 1}]
      <4>1. r.comment \in Comments /\ r.version \in Versions
        BY RequestSteps
      <4>2. CASE AddJob(r.comment, r.version)
        BY <4>1, <4>2, AddJobType
      <4>3. CASE UNCHANGED jobVars
        BY <4>3
      <4> QED
        BY <2>4, <4>2, <4>3 DEF EnqueueFails
    <3>2. requests' \subseteq Request
      BY <2>4, AdvanceType DEF EnqueueFails
    <3> QED
      BY <2>4, <3>1, <3>2 DEF EnqueueFails
  <2>5. ASSUME NEW r \in requests, SetProcessing(r) PROVE TypeOK'
    BY <2>5, RequestSteps, AdvanceType DEF SetProcessing
  <2>6. ASSUME NEW r \in requests, SetProcessingFails(r) PROVE TypeOK'
    BY <2>6, AdvanceType DEF SetProcessingFails
  <2>7. ASSUME NEW r \in requests, MarkFailed(r) PROVE TypeOK'
    BY <2>7, RequestSteps, AdvanceType, MarkUnavailableType DEF MarkFailed
  <2>8. ASSUME NEW r \in requests, RequestDies(r) PROVE TypeOK'
    BY <2>8, AdvanceType DEF RequestDies
  <2> QED
    BY <1>1, <2>1, <2>2, <2>3, <2>4, <2>5, <2>6, <2>7, <2>8 DEF Authors
<1>2. CASE Admins
  <2>1. ASSUME NEW c \in Comments, RetrySelect(c) PROVE TypeOK'
    BY <2>1, RequestSteps DEF RetrySelect, RowsHaveText, Exists, Versions
  <2>2. ASSUME NEW s \in retries, RetryClaim(s) PROVE TypeOK'
    <3>1. s.comment \in Comments /\ s.version \in Versions
      BY RequestSteps
    <3>2. requests' \subseteq Request
      <4> DEFINE q == [comment |-> s.comment, version |-> s.version,
                       setProcessing |-> FALSE, step |-> "enqueue"]
      <4>1. q \in Request
        BY <3>1, RequestSteps
      <4>2. requests' = requests \/ requests' = requests \union {q}
        BY <2>2 DEF RetryClaim
      <4> HIDE DEF q
      <4> QED
        BY <4>1, <4>2
    <3>3. status' \in [Comments -> CommentStatus \union {"ABSENT"}]
      BY <2>2, <3>1 DEF RetryClaim
    <3> QED
      BY <2>2, <3>2, <3>3 DEF RetryClaim
  <2> QED
    BY <1>2, <2>1, <2>2 DEF Admins
<1>3. ASSUME NEW c \in Comments, Work(c) PROVE TypeOK'
  <2>1. ASSUME TakeJob(c) PROVE TypeOK'
    BY <2>1 DEF TakeJob
  <2>2. ASSUME ApproveRead(c) PROVE TypeOK'
    <3>1. judgedSafe' \in [Comments -> SUBSET Versions]
      BY <2>2 DEF ApproveRead
    <3>2. worker' \in [Comments -> WorkerState] /\ UNCHANGED jobVars
      BY <2>2, WorkerSteps, EndAttemptType DEF ApproveRead, IsCounted
    <3> QED
      BY <2>2, <3>1, <3>2 DEF ApproveRead
  <2>3. ASSUME ApproveWrite(c) PROVE TypeOK'
    BY <2>3, EndAttemptType, FailAttemptType DEF ApproveWrite, ClearReason, One
  <2>4. ASSUME RejectRead(c) PROVE TypeOK'
    BY <2>4, WorkerSteps, EndAttemptType DEF RejectRead, IsCounted
  <2>5. ASSUME RejectWrite(c) PROVE TypeOK'
    BY <2>5, EndAttemptType, FailAttemptType DEF RejectWrite, One
  <2>6. ASSUME AttemptFails(c) PROVE TypeOK'
    BY <2>6, FailAttemptType DEF AttemptFails
  <2>7. ASSUME GiveUp(c) PROVE TypeOK'
    BY <2>7, WorkerSteps, MarkUnavailableType DEF GiveUp
  <2>8. ASSUME CompleteJob(c) PROVE TypeOK'
    BY <2>8, WorkerSteps DEF CompleteJob
  <2> QED
    BY <1>3, <2>1, <2>2, <2>3, <2>4, <2>5, <2>6, <2>7, <2>8 DEF Work
<1>4. ASSUME NEW c \in Comments, WorkerDies(c) PROVE TypeOK'
  BY <1>4, WorkerSteps DEF WorkerDies
<1>5. ASSUME NEW c \in Comments, ForgetFailure(c) PROVE TypeOK'
  BY <1>5 DEF ForgetFailure
<1>6. CASE Deletions
  <2>1. ASSUME NEW d \in Deleters, NEW c \in Comments, NEW hard \in BOOLEAN,
               DeleteRead(d, c, hard)
        PROVE TypeOK'
    BY <2>1, DeleteSteps DEF DeleteRead, IsCounted
  <2>2. ASSUME NEW d \in Deleters, SoftDelete(d) PROVE TypeOK'
    BY <2>2, DeleteSteps DEF SoftDelete, One
  <2>3. ASSUME NEW d \in Deleters, HardDelete(d) PROVE TypeOK'
    BY <2>3, DeleteSteps DEF HardDelete, One
  <2>4. ASSUME SweepSelect PROVE TypeOK'
    BY <2>4 DEF SweepSelect
  <2>5. ASSUME SweepDelete PROVE TypeOK'
    BY <2>5 DEF SweepDelete
  <2> QED
    BY <1>6, <2>1, <2>2, <2>3, <2>4, <2>5 DEF Deletions
<1>7. CASE UNCHANGED vars
  BY <1>7 DEF vars
<1> QED
  BY <1>1, <1>2, <1>3, <1>4, <1>5, <1>6, <1>7 DEF Next, Queue

-----------------------------------------------------------------------------
(***************************************************************************)
(* The rest of IInv.  A step either leaves what IInv says of a comment     *)
(* alone, or is one of the writers handled by name.                        *)
(***************************************************************************)
RowInv == RowsHaveText /\ StatusMatchesVerdict /\ ApprovalsAreDue

\* The steps that write none of the variables RowInv reads.
LEMMA SameRows ==
    RowInv /\ UNCHANGED <<status, verdict, version, worker>> => RowInv'
  BY DEF RowInv, RowsHaveText, StatusMatchesVerdict, ApprovalsAreDue, Exists

\* The steps of a worker that write no row and do not go on to approve.
LEMMA WorkerMoves ==
    ASSUME TypeOK, RowInv, UNCHANGED <<status, verdict, version>>,
           \A c \in Comments : worker'[c] = worker[c] \/ worker'[c].step # "approve"
    PROVE  RowInv'
  BY DEF RowInv, RowsHaveText, StatusMatchesVerdict, ApprovalsAreDue, Exists

LEMMA FailAttemptMoves ==
    ASSUME TypeOK, NEW c \in Comments, FailAttempt(c)
    PROVE  \A x \in Comments : worker'[x] = worker[x] \/ worker'[x].step # "approve"
  <1>1. worker \in [Comments -> WorkerState]
    BY DEF TypeOK
  <1> QED
    BY <1>1 DEF FailAttempt, Resting, WorkerState

LEMMA RowInit == Init => RowInv
  BY DEF Init, RowInv, RowsHaveText, StatusMatchesVerdict, ApprovalsAreDue, Exists, Resting

\* A write that neither approves nor rejects.
LEMMA MarkUnavailableRow ==
    ASSUME TypeOK, RowInv, NEW c \in Comments, MarkUnavailable(c),
           \A x \in Comments : worker'[x] = worker[x] \/ worker'[x].step # "approve"
    PROVE  RowInv'
  BY DEF MarkUnavailable, TypeOK, RowInv, RowsHaveText, StatusMatchesVerdict, ApprovalsAreDue, Exists

LEMMA RowStep == TypeOK /\ RowInv /\ [Next]_vars => RowInv'
<1> SUFFICES ASSUME TypeOK, RowInv, [Next]_vars PROVE RowInv'
  OBVIOUS
<1> USE DEF rowVars, requestVars, jobVars, noteVars
<1>1. CASE Authors
  <2>1. ASSUME NEW c \in Comments, NEW v \in Versions, Submit(c, v) PROVE RowInv'
    BY <2>1 DEF Submit, TypeOK, RowInv, RowsHaveText, StatusMatchesVerdict, ApprovalsAreDue, Exists, Versions
  <2>2. ASSUME NEW c \in Comments, CreateComment(c) \/ UpdateComment(c)
        PROVE  RowInv'
    <3>1. 1 \in Versions /\ (UpdateComment(c) => version[c] + 1 \in Versions)
      BY BoundsAssumption DEF UpdateComment, Versions, TypeOK
    <3> QED
      BY <2>1, <2>2, <3>1 DEF CreateComment, UpdateComment
  <2>3. ASSUME NEW r \in requests, Enqueue(r) \/ EnqueueFails(r) PROVE RowInv'
    BY <2>3, SameRows DEF Enqueue, EnqueueFails
  <2>4. ASSUME NEW r \in requests, SetProcessing(r) PROVE RowInv'
    BY <2>4, RequestSteps
       DEF SetProcessing, TypeOK, RowInv, RowsHaveText, StatusMatchesVerdict, ApprovalsAreDue, Exists
  <2>5. ASSUME NEW r \in requests, SetProcessingFails(r) \/ RequestDies(r)
        PROVE  RowInv'
    BY <2>5, SameRows DEF SetProcessingFails, RequestDies
  <2>6. ASSUME NEW r \in requests, MarkFailed(r) PROVE RowInv'
    <3>1. r.comment \in Comments
      BY RequestSteps DEF TypeOK
    <3> QED
      BY <2>6, <3>1, MarkUnavailableRow DEF MarkFailed
  <2> QED
    BY <1>1, <2>2, <2>3, <2>4, <2>5, <2>6 DEF Authors
<1>2. CASE Admins
  <2>1. ASSUME NEW c \in Comments, RetrySelect(c) PROVE RowInv'
    BY <2>1, SameRows DEF RetrySelect
  <2>2. ASSUME NEW s \in retries, RetryClaim(s) PROVE RowInv'
    BY <2>2, RequestSteps
       DEF RetryClaim, TypeOK, RowInv, RowsHaveText, StatusMatchesVerdict, ApprovalsAreDue, Exists
  <2> QED
    BY <1>2, <2>1, <2>2 DEF Admins
<1>3. ASSUME NEW c \in Comments, Work(c) PROVE RowInv'
  <2>1. ASSUME TakeJob(c) PROVE RowInv'
    BY <2>1, SameRows DEF TakeJob
  <2>2. ASSUME ApproveRead(c) PROVE RowInv'
    <3>1. worker \in [Comments -> WorkerState] /\ UNCHANGED <<status, verdict, version>>
      BY <2>2 DEF ApproveRead, TypeOK
    <3>2. CASE NotApprovable(c)
      BY <2>2, <3>1, <3>2, WorkerMoves DEF ApproveRead, EndAttempt
    <3>3. CASE ~NotApprovable(c)
      <4>1. /\ status[c] # "REJECTED"
            /\ \A x \in Comments : x # c => worker'[x] = worker[x]
        BY <2>2, <3>1, <3>3 DEF ApproveRead, NotApprovable
      <4> QED
        BY <3>1, <4>1
           DEF RowInv, RowsHaveText, StatusMatchesVerdict, ApprovalsAreDue, Exists
    <3> QED
      BY <3>2, <3>3
  <2>3. ASSUME ApproveWrite(c) PROVE RowInv'
    <3>1. CASE Exists(c)
      BY <2>3, <3>1 DEF ApproveWrite, ClearReason, EndAttempt, TypeOK, RowInv,
                        RowsHaveText, StatusMatchesVerdict, ApprovalsAreDue, Exists
    <3>2. CASE ~Exists(c)
      BY <2>3, <3>2, WorkerMoves, FailAttemptMoves DEF ApproveWrite
    <3> QED
      BY <3>1, <3>2
  <2>4. ASSUME RejectRead(c) PROVE RowInv'
    BY <2>4, WorkerMoves DEF RejectRead, EndAttempt, TypeOK
  <2>5. ASSUME RejectWrite(c) PROVE RowInv'
    <3>1. CASE Exists(c)
      BY <2>5, <3>1 DEF RejectWrite, EndAttempt, TypeOK, RowInv,
                        RowsHaveText, StatusMatchesVerdict, ApprovalsAreDue, Exists
    <3>2. CASE ~Exists(c)
      BY <2>5, <3>2, WorkerMoves, FailAttemptMoves DEF RejectWrite
    <3> QED
      BY <3>1, <3>2
  <2>6. ASSUME AttemptFails(c) PROVE RowInv'
    BY <2>6, WorkerMoves, FailAttemptMoves DEF AttemptFails
  <2>7. ASSUME GiveUp(c) PROVE RowInv'
    <3>1. \A x \in Comments : worker'[x] = worker[x] \/ worker'[x].step # "approve"
      BY <2>7 DEF GiveUp, Resting, TypeOK
    <3> QED
      BY <2>7, <3>1, MarkUnavailableRow, WorkerMoves DEF GiveUp
  <2>8. ASSUME CompleteJob(c) PROVE RowInv'
    BY <2>8, WorkerMoves DEF CompleteJob, Resting, TypeOK
  <2> QED
    BY <1>3, <2>1, <2>2, <2>3, <2>4, <2>5, <2>6, <2>7, <2>8 DEF Work
<1>4. ASSUME NEW c \in Comments, WorkerDies(c) PROVE RowInv'
  BY <1>4, WorkerMoves DEF WorkerDies, Resting, TypeOK
<1>5. ASSUME NEW c \in Comments, ForgetFailure(c) PROVE RowInv'
  BY <1>5, SameRows DEF ForgetFailure
<1>6. CASE Deletions
  <2>1. ASSUME NEW d \in Deleters, NEW c \in Comments, NEW hard \in BOOLEAN,
               DeleteRead(d, c, hard)
        PROVE RowInv'
    BY <2>1, SameRows DEF DeleteRead
  <2>2. ASSUME NEW d \in Deleters, SoftDelete(d) PROVE RowInv'
    BY <2>2, DeleteSteps
       DEF SoftDelete, TypeOK, RowInv, RowsHaveText, StatusMatchesVerdict, ApprovalsAreDue, Exists
  <2>3. ASSUME NEW d \in Deleters, HardDelete(d) PROVE RowInv'
    BY <2>3, DeleteSteps
       DEF HardDelete, TypeOK, RowInv, RowsHaveText, StatusMatchesVerdict, ApprovalsAreDue, Exists
  <2>4. ASSUME SweepSelect PROVE RowInv'
    BY <2>4, SameRows DEF SweepSelect
  <2>5. ASSUME SweepDelete PROVE RowInv'
    BY <2>5 DEF SweepDelete, TypeOK, RowInv, RowsHaveText, StatusMatchesVerdict, ApprovalsAreDue, Exists
  <2> QED
    BY <1>6, <2>1, <2>2, <2>3, <2>4, <2>5 DEF Deletions
<1>7. CASE UNCHANGED vars
  BY <1>7, SameRows DEF vars
<1> QED
  BY <1>1, <1>2, <1>3, <1>4, <1>5, <1>6, <1>7 DEF Next, Queue

THEOREM Invariance == Spec => []IInv
<1>1. Init => IInv
  BY TypeInit, RowInit DEF IInv, RowInv
<1>2. IInv /\ [Next]_vars => IInv'
  BY TypeStep, RowStep DEF IInv, RowInv
<1> QED
  BY <1>1, <1>2, PTL DEF Spec

\* Every variable holds what its declaration says.
THEOREM TypeCorrect == Spec => []TypeOK
  BY Invariance, PTL DEF IInv

\* The status and the verdict columns of a comment agree.
THEOREM VerdictsMatch == Spec => []StatusMatchesVerdict
  BY Invariance, PTL DEF IInv

(***************************************************************************)
(* A rejection is not overwritten by a later verdict: only ApproveWrite    *)
(* approves, and ApprovalsAreDue says the row is not REJECTED then.        *)
(***************************************************************************)
THEOREM Rejections == Spec => RejectionStands
<1>1. TypeOK /\ ApprovalsAreDue /\ [Next]_vars =>
        [\A c \in Comments : status[c] = "REJECTED" => status'[c] # "APPROVED"]_vars
  <2> SUFFICES ASSUME TypeOK, ApprovalsAreDue, Next, NEW c \in Comments,
                      status[c] = "REJECTED", status'[c] = "APPROVED"
               PROVE  FALSE
    OBVIOUS
  <2> USE DEF TypeOK, rowVars
  <2>1. ASSUME Authors PROVE FALSE
    BY <2>1, RequestSteps
       DEF Authors, CreateComment, UpdateComment, Submit, Enqueue, EnqueueFails,
           SetProcessing, SetProcessingFails, MarkFailed, MarkUnavailable,
           RequestDies
  <2>2. ASSUME Admins PROVE FALSE
    BY <2>2, RequestSteps DEF Admins, RetrySelect, RetryClaim
  <2>3. ASSUME NEW x \in Comments, Work(x) PROVE FALSE
    BY <2>3 DEF Work, TakeJob, ApproveRead, ApproveWrite, RejectRead, RejectWrite,
                AttemptFails, GiveUp, MarkUnavailable, CompleteJob,
                ApprovalsAreDue
  <2>4. ASSUME NEW x \in Comments, WorkerDies(x) \/ ForgetFailure(x) PROVE FALSE
    BY <2>4 DEF WorkerDies, ForgetFailure
  <2>5. ASSUME Deletions PROVE FALSE
    BY <2>5, DeleteSteps
       DEF Deletions, DeleteRead, SoftDelete, HardDelete, SweepSelect, SweepDelete
  <2> QED
    BY <2>1, <2>2, <2>3, <2>4, <2>5 DEF Next, Queue
<1> QED
  BY <1>1, Invariance, PTL DEF IInv, Spec, RejectionStands

-----------------------------------------------------------------------------
(***************************************************************************)
(* How much of a job is left.  An attempt passes phases, and every failure *)
(* of an attempt or of a worker sends the job back to the first one at the *)
(* price of a try or of the one stall that is forgiven.                    *)
(***************************************************************************)
Unfinished(c) == job[c] \in {"waiting", "active"}

Phase(c) ==
    CASE job[c] = "waiting" -> 4
      [] job[c] # "waiting" /\ worker[c].step = "idle" -> 3
      [] job[c] # "waiting" /\ worker[c].step \in {"approve", "reject"} -> 2
      [] job[c] # "waiting" /\ worker[c].step \in {"done", "exhausted"} -> 1

Left(c) == 4 * ((MaxTries - tries[c]) + (1 - stalls[c])) + Phase(c)

\* The most that can be left of a job.
MaxLeft == 4 * (MaxTries + 1) + 4

\* A worker is at work on active jobs only.
WorkersHaveJobs == \A c \in Comments : job[c] # "active" => worker[c] = Resting

\* What a step does to a job that has not ended.
RunsDown(c) ==
    Unfinished(c) =>
        \/ ~Unfinished(c)'
        \/ /\ jobText'[c] = jobText[c]
           /\ \/ UNCHANGED <<job[c], tries[c], stalls[c], worker[c]>>
              \/ Left(c)' < Left(c)

LEMMA Phases ==
    ASSUME TypeOK, NEW c \in Comments
    PROVE  /\ Phase(c) \in 1..4
           /\ job[c] = "waiting" => Phase(c) = 4
           /\ job[c] # "waiting" =>
                 /\ worker[c].step = "idle" => Phase(c) = 3
                 /\ worker[c].step \in {"approve", "reject"} => Phase(c) = 2
                 /\ worker[c].step \in {"done", "exhausted"} => Phase(c) = 1
<1>1. worker[c].step \in {"idle", "approve", "reject", "done", "exhausted"}
  BY DEF TypeOK, WorkerState
<1> QED
  BY <1>1 DEF Phase

LEMMA PhasesNext ==
    ASSUME TypeOK', NEW c \in Comments
    PROVE  /\ Phase(c)' \in 1..4
           /\ job'[c] = "waiting" => Phase(c)' = 4
           /\ job'[c] # "waiting" =>
                 /\ worker'[c].step = "idle" => Phase(c)' = 3
                 /\ worker'[c].step \in {"approve", "reject"} => Phase(c)' = 2
                 /\ worker'[c].step \in {"done", "exhausted"} => Phase(c)' = 1
<1>1. worker'[c].step \in {"idle", "approve", "reject", "done", "exhausted"}
  BY DEF TypeOK, WorkerState
<1> QED
  BY <1>1 DEF Phase

LEMMA LeftBounded ==
    ASSUME TypeOK, NEW c \in Comments
    PROVE  Left(c) \in 1..MaxLeft
BY Phases, BoundsAssumption DEF Left, MaxLeft, TypeOK

\* A job goes on to a later phase ...
LEMMA PhaseFalls ==
    ASSUME TypeOK, TypeOK', NEW c \in Comments, Phase(c)' < Phase(c),
           tries'[c] = tries[c], stalls'[c] = stalls[c], jobText'[c] = jobText[c]
    PROVE  RunsDown(c)
<1>1. Phase(c) \in 1..4 /\ Phase(c)' \in 1..4
  BY Phases, PhasesNext
<1>2. tries[c] \in Nat /\ stalls[c] \in Nat /\ MaxTries \in Nat
  BY BoundsAssumption DEF TypeOK
<1> QED
  BY <1>1, <1>2 DEF RunsDown, Left

\* ... or back to the first, with a try or a stall less.
LEMMA BudgetFalls ==
    ASSUME TypeOK, TypeOK', NEW c \in Comments, jobText'[c] = jobText[c],
           tries'[c] + stalls'[c] = tries[c] + stalls[c] + 1
    PROVE  RunsDown(c)
<1>1. Phase(c) \in 1..4 /\ Phase(c)' \in 1..4
  BY Phases, PhasesNext
<1>2. /\ tries[c] \in Nat /\ stalls[c] \in Nat /\ MaxTries \in Nat
      /\ tries'[c] \in Nat /\ stalls'[c] \in Nat
  BY BoundsAssumption DEF TypeOK
<1> QED
  BY <1>1, <1>2 DEF RunsDown, Left

\* The jobs of other comments stay as they are.
LEMMA OtherJobs ==
    ASSUME NEW c \in Comments,
           UNCHANGED <<job[c], tries[c], stalls[c], worker[c], jobText[c]>>
    PROVE  RunsDown(c)
BY DEF RunsDown

LEMMA WorkersInit == Init => WorkersHaveJobs
BY DEF Init, WorkersHaveJobs

\* Everything but a worker leaves jobs alone, or adds one where there is none.
LEMMA JobsStay ==
    ASSUME TypeOK, WorkersHaveJobs, UNCHANGED worker,
           \/ UNCHANGED jobVars
           \/ \E c \in Comments, v \in Versions : AddJob(c, v)
    PROVE  WorkersHaveJobs' /\ \A c \in Comments : RunsDown(c)
<1>1. CASE UNCHANGED jobVars
  BY <1>1 DEF jobVars, WorkersHaveJobs, RunsDown
<1>2. CASE \E c \in Comments, v \in Versions : AddJob(c, v)
  <2>1. PICK c \in Comments, v \in Versions : AddJob(c, v)
    BY <1>2
  <2>2. CASE job[c] = "none"
    <3>1. \A x \in Comments : x # c =>
             job'[x] = job[x] /\ tries'[x] = tries[x] /\ stalls'[x] = stalls[x]
                /\ jobText'[x] = jobText[x]
      BY <2>1, <2>2 DEF AddJob, TypeOK
    <3>2. \A x \in Comments : RunsDown(x)
      BY <2>2, <3>1 DEF RunsDown, Unfinished
    <3>3. job'[c] = "waiting"
      BY <2>1, <2>2 DEF AddJob, TypeOK
    <3> QED
      BY <2>2, <3>1, <3>2, <3>3 DEF WorkersHaveJobs
  <2>3. CASE job[c] # "none"
    BY <1>1, <2>1, <2>3 DEF AddJob
  <2> QED
    BY <2>2, <2>3
<1> QED
  BY <1>1, <1>2

\* The worker goes on with job c, without an attempt that fails.
LEMMA PhaseStep ==
    ASSUME TypeOK, TypeOK', WorkersHaveJobs, NEW c \in Comments, NEW w,
           job[c] = "active", worker' = [worker EXCEPT ![c] = w], UNCHANGED jobVars,
           \/ worker[c].step = "idle" /\ w.step \in {"approve", "reject", "done", "exhausted"}
           \/ worker[c].step \in {"approve", "reject"} /\ w.step \in {"done", "exhausted"}
    PROVE  WorkersHaveJobs' /\ \A x \in Comments : RunsDown(x)
<1>1. worker'[c] = w /\ \A x \in Comments \ {c} : worker'[x] = worker[x]
  BY DEF TypeOK
<1>2. job' = job /\ tries' = tries /\ stalls' = stalls /\ jobText' = jobText
  BY DEF jobVars
<1>3. WorkersHaveJobs'
  BY <1>1, <1>2 DEF WorkersHaveJobs
<1>4. Phase(c)' < Phase(c)
  BY <1>1, <1>2, Phases, PhasesNext
<1>5. RunsDown(c)
  BY <1>2, <1>4, PhaseFalls
<1>6. \A x \in Comments \ {c} : RunsDown(x)
  BY <1>1, <1>2, OtherJobs
<1> QED
  BY <1>3, <1>5, <1>6

LEMMA EndAttemptRuns ==
    ASSUME TypeOK, TypeOK', WorkersHaveJobs, NEW c \in Comments, job[c] = "active",
           worker[c].step \in {"idle", "approve", "reject"}, EndAttempt(c)
    PROVE  WorkersHaveJobs' /\ \A x \in Comments : RunsDown(x)
<1>1. PICK w : w = [step |-> "done", counted |-> FALSE]
  OBVIOUS
<1>2. w.step = "done"
  BY <1>1
<1> QED
  BY <1>1, <1>2, PhaseStep DEF EndAttempt

LEMMA FailAttemptRuns ==
    ASSUME TypeOK, TypeOK', WorkersHaveJobs, NEW c \in Comments, job[c] = "active",
           worker[c].step \in {"idle", "approve", "reject"}, FailAttempt(c)
    PROVE  WorkersHaveJobs' /\ \A x \in Comments : RunsDown(x)
<1>1. CASE tries[c] + 1 < MaxTries
  <2>1. /\ job' = [job EXCEPT ![c] = "waiting"] /\ tries' = [tries EXCEPT ![c] = @ + 1]
        /\ worker' = [worker EXCEPT ![c] = Resting] /\ jobText' = jobText /\ stalls' = stalls
    BY <1>1 DEF FailAttempt
  <2>2. /\ job'[c] = "waiting" /\ tries'[c] = tries[c] + 1 /\ worker'[c] = Resting
        /\ \A x \in Comments \ {c} : job'[x] = job[x] /\ tries'[x] = tries[x]
                                        /\ worker'[x] = worker[x]
    BY <2>1 DEF TypeOK
  <2>3. WorkersHaveJobs'
    BY <2>2 DEF WorkersHaveJobs
  <2>4. tries[c] \in Nat /\ stalls[c] \in Nat
    BY DEF TypeOK
  <2>5. RunsDown(c)
    BY <2>1, <2>2, <2>4, BudgetFalls
  <2>6. \A x \in Comments \ {c} : RunsDown(x)
    BY <2>1, <2>2, OtherJobs
  <2> QED
    BY <2>3, <2>5, <2>6
<1>2. CASE ~(tries[c] + 1 < MaxTries)
  <2>1. PICK w : w = [worker[c] EXCEPT !.step = "exhausted"]
    OBVIOUS
  <2>2. w.step = "exhausted"
    BY <2>1 DEF TypeOK, WorkerState
  <2>3. worker' = [worker EXCEPT ![c] = w] /\ UNCHANGED jobVars
    BY <1>2, <2>1 DEF FailAttempt, jobVars, TypeOK
  <2> QED
    BY <2>2, <2>3, PhaseStep
<1> QED
  BY <1>1, <1>2

\* The job waits again or has ended: nobody works on it.
LEMMA JobLeavesWorker ==
    ASSUME TypeOK, WorkersHaveJobs, NEW c \in Comments, NEW s,
           job' = [job EXCEPT ![c] = s], worker' = [worker EXCEPT ![c] = Resting]
    PROVE  WorkersHaveJobs'
BY DEF TypeOK, WorkersHaveJobs

LEMMA WorkRuns ==
    ASSUME TypeOK, TypeOK', WorkersHaveJobs, NEW c \in Comments, Work(c)
    PROVE  WorkersHaveJobs' /\ \A x \in Comments : RunsDown(x)
<1>0. worker[c].step # "idle" => job[c] = "active"
  BY DEF WorkersHaveJobs, Resting
<1>1. CASE TakeJob(c)
  <2>1. /\ job[c] = "waiting" /\ job'[c] = "active"
        /\ \A x \in Comments \ {c} : job'[x] = job[x]
        /\ UNCHANGED <<tries, stalls, worker, jobText>>
    BY <1>1 DEF TakeJob, TypeOK
  <2>2. WorkersHaveJobs'
    BY <2>1 DEF WorkersHaveJobs
  <2>3. worker'[c].step = "idle"
    BY <2>1 DEF WorkersHaveJobs, Resting
  <2>4. Phase(c)' < Phase(c)
    BY <2>1, <2>3, Phases, PhasesNext
  <2>5. RunsDown(c)
    BY <2>1, <2>4, PhaseFalls
  <2>6. \A x \in Comments \ {c} : RunsDown(x)
    BY <2>1, OtherJobs
  <2> QED
    BY <2>2, <2>5, <2>6
<1>2. CASE ApproveRead(c)
  <2>0. job[c] = "active" /\ worker[c].step = "idle"
    BY <1>2 DEF ApproveRead, Resting
  <2>1. CASE NotApprovable(c)
    BY <1>2, <2>0, <2>1, EndAttemptRuns DEF ApproveRead
  <2>2. CASE ~NotApprovable(c)
    <3>1. PICK w : w = [step |-> "approve", counted |-> IsCounted(c)]
      OBVIOUS
    <3>2. w.step = "approve"
      BY <3>1
    <3>3. worker' = [worker EXCEPT ![c] = w] /\ UNCHANGED jobVars
      BY <1>2, <2>2, <3>1 DEF ApproveRead
    <3> QED
      BY <2>0, <3>2, <3>3, PhaseStep
  <2> QED
    BY <2>1, <2>2
<1>3. CASE RejectRead(c)
  <2>0. job[c] = "active" /\ worker[c].step = "idle"
    BY <1>3 DEF RejectRead, Resting
  <2>1. CASE ~Exists(c)
    BY <1>3, <2>0, <2>1, EndAttemptRuns DEF RejectRead
  <2>2. CASE Exists(c)
    <3>1. PICK w : w = [step |-> "reject", counted |-> IsCounted(c)]
      OBVIOUS
    <3>2. w.step = "reject"
      BY <3>1
    <3>3. worker' = [worker EXCEPT ![c] = w] /\ UNCHANGED jobVars
      BY <1>3, <2>2, <3>1 DEF RejectRead
    <3> QED
      BY <2>0, <3>2, <3>3, PhaseStep
  <2> QED
    BY <2>1, <2>2
<1>4. CASE ApproveWrite(c) \/ RejectWrite(c) \/ AttemptFails(c)
  <2>1. worker[c].step \in {"idle", "approve", "reject"} /\ job[c] = "active"
    BY <1>0, <1>4 DEF ApproveWrite, RejectWrite, AttemptFails, TypeOK, WorkerState
  <2>2. EndAttempt(c) \/ FailAttempt(c)
    BY <1>4 DEF ApproveWrite, RejectWrite, AttemptFails
  <2> QED
    BY <2>1, <2>2, EndAttemptRuns, FailAttemptRuns
<1>5. CASE GiveUp(c) \/ CompleteJob(c)
  <2>1. /\ job' = [job EXCEPT ![c] = "failed"] \/ job' = [job EXCEPT ![c] = "none"]
        /\ worker' = [worker EXCEPT ![c] = Resting]
        /\ UNCHANGED <<tries, stalls, jobText>>
    BY <1>5 DEF GiveUp, CompleteJob
  <2>2. WorkersHaveJobs'
    BY <2>1, JobLeavesWorker
  <2>3. /\ job'[c] \in {"failed", "none"}
        /\ \A x \in Comments \ {c} : job'[x] = job[x] /\ worker'[x] = worker[x]
    BY <2>1 DEF TypeOK
  <2>4. RunsDown(c)
    BY <2>3 DEF RunsDown, Unfinished
  <2>5. \A x \in Comments \ {c} : RunsDown(x)
    BY <2>1, <2>3, OtherJobs
  <2> QED
    BY <2>2, <2>4, <2>5
<1> QED
  BY <1>1, <1>2, <1>3, <1>4, <1>5 DEF Work

LEMMA DeathRuns ==
    ASSUME TypeOK, TypeOK', WorkersHaveJobs, NEW c \in Comments, WorkerDies(c)
    PROVE  WorkersHaveJobs' /\ \A x \in Comments : RunsDown(x)
<1>1. /\ \E s \in {"waiting", "failed"} : job' = [job EXCEPT ![c] = s]
      /\ worker' = [worker EXCEPT ![c] = Resting]
      /\ \A x \in Comments \ {c} : stalls'[x] = stalls[x]
      /\ UNCHANGED <<tries, jobText>>
  BY DEF WorkerDies, TypeOK
<1>2. WorkersHaveJobs'
  BY <1>1, JobLeavesWorker
<1>3. \A x \in Comments \ {c} : job'[x] = job[x] /\ worker'[x] = worker[x]
  BY <1>1 DEF TypeOK
<1>4. \A x \in Comments \ {c} : RunsDown(x)
  BY <1>1, <1>3, OtherJobs
<1>5. RunsDown(c)
  <2>1. CASE stalls[c] = 0
    <3>1. stalls'[c] = stalls[c] + 1
      BY <2>1 DEF WorkerDies, TypeOK
    <3>2. tries[c] \in Nat /\ stalls[c] \in Nat
      BY DEF TypeOK
    <3> QED
      BY <1>1, <3>1, <3>2, BudgetFalls
  <2>2. CASE stalls[c] # 0
    <3>1. job'[c] = "failed"
      BY <2>2 DEF WorkerDies, TypeOK
    <3> QED
      BY <3>1 DEF RunsDown, Unfinished
  <2> QED
    BY <2>1, <2>2
<1> QED
  BY <1>2, <1>4, <1>5

LEMMA ForgetRuns ==
    ASSUME TypeOK, WorkersHaveJobs, NEW c \in Comments, ForgetFailure(c)
    PROVE  WorkersHaveJobs' /\ \A x \in Comments : RunsDown(x)
<1>1. /\ job[c] = "failed" /\ job'[c] = "none"
      /\ \A x \in Comments \ {c} : job'[x] = job[x]
      /\ UNCHANGED <<tries, stalls, worker, jobText>>
  BY DEF ForgetFailure, TypeOK
<1> QED
  BY <1>1 DEF WorkersHaveJobs, RunsDown, Unfinished

LEMMA JobsStep ==
    ASSUME TypeOK, TypeOK', WorkersHaveJobs, [Next]_vars
    PROVE  WorkersHaveJobs' /\ \A x \in Comments : RunsDown(x)
<1>1. ASSUME NEW r \in requests, Enqueue(r) \/ EnqueueFails(r)
      PROVE  WorkersHaveJobs' /\ \A x \in Comments : RunsDown(x)
  <2>1. r.comment \in Comments /\ r.version \in Versions
    BY RequestSteps DEF TypeOK
  <2>2. /\ UNCHANGED worker
        /\ AddJob(r.comment, r.version) \/ UNCHANGED jobVars
    BY <1>1 DEF Enqueue, EnqueueFails
  <2> QED
    BY <2>1, <2>2, JobsStay
<1>2. CASE Queue
  BY <1>2, WorkRuns, DeathRuns, ForgetRuns DEF Queue
<1>3. CASE UNCHANGED <<worker, jobVars>>
  BY <1>3, JobsStay
<1>4. CASE Authors \/ Admins
  BY <1>1, <1>3, <1>4
     DEF Authors, Admins, CreateComment, UpdateComment, Submit, SetProcessing,
         SetProcessingFails, MarkFailed, RequestDies, RetrySelect, RetryClaim
<1>5. CASE Deletions \/ UNCHANGED vars
  BY <1>3, <1>5
     DEF Deletions, DeleteRead, SoftDelete, HardDelete, SweepSelect, SweepDelete, vars, jobVars
<1> QED
  BY <1>2, <1>4, <1>5 DEF Next

(***************************************************************************)
(* Jobs run down: a job keeps its text until it ends, and each step at it, *)
(* failures and deaths of its workers included, leaves less of it, so that *)
(* it ends after MaxLeft steps at most, however many tries it may have.    *)
(***************************************************************************)
THEOREM JobsRunDown ==
    Spec => /\ [](\A c \in Comments : Left(c) \in 1..MaxLeft)
            /\ [][\A c \in Comments : RunsDown(c)]_vars
<1>1. IInv /\ WorkersHaveJobs /\ [Next]_vars /\ IInv'
        => WorkersHaveJobs' /\ [\A c \in Comments : RunsDown(c)]_vars
  BY JobsStep DEF IInv
<1>2. IInv => \A c \in Comments : Left(c) \in 1..MaxLeft
  BY LeftBounded DEF IInv
<1> QED
  BY <1>1, <1>2, WorkersInit, Invariance, PTL DEF Spec

-----------------------------------------------------------------------------
(***************************************************************************)
(* Which text is judged.  While nothing of a comment was under way when    *)
(* its version was written, its requests, retries and its job all have     *)
(* that version; and a worker about to approve has a safe verdict on the   *)
(* text of its job.                                                        *)
(***************************************************************************)
OnItsText(c) ==
    version[c] \notin crossed[c] =>
        /\ Unfinished(c) => jobText[c] = version[c]
        /\ \A r \in requests \union retries : r.comment = c => r.version = version[c]
VerdictIsSafe(c) == worker[c].step = "approve" => jobText[c] \in judgedSafe[c]
ShownIsJudged(c) ==
    status[c] = "APPROVED" => version[c] \in judgedSafe[c] \union crossed[c]

TextOf(c) == OnItsText(c) /\ VerdictIsSafe(c) /\ ShownIsJudged(c)
TextsFollow == \A c \in Comments : TextOf(c)

LEMMA TextsInit == Init => TextsFollow
BY DEF Init, TextsFollow, TextOf, OnItsText, VerdictIsSafe, ShownIsJudged, Unfinished,
       Resting

\* What most steps do to a comment: they may end things, and begin nothing.
LEMMA TextStays ==
    ASSUME NEW c \in Comments, TextOf(c), WorkersHaveJobs,
           version'[c] = version[c], crossed'[c] = crossed[c],
           judgedSafe[c] \subseteq judgedSafe'[c],
           \A r \in requests' \union retries' : r.comment = c =>
              \E q \in requests \union retries : q.comment = c /\ q.version = r.version,
           Unfinished(c)' => Unfinished(c), jobText'[c] = jobText[c],
           worker'[c] = worker[c] \/ worker'[c].step # "approve",
           status'[c] = "APPROVED" => status[c] = "APPROVED"
    PROVE  TextOf(c)'
<1>1. OnItsText(c)'
  BY DEF TextOf, OnItsText
<1>2. VerdictIsSafe(c)'
  BY DEF TextOf, VerdictIsSafe
<1>3. ShownIsJudged(c)'
  BY DEF TextOf, ShownIsJudged
<1> QED
  BY <1>1, <1>2, <1>3 DEF TextOf

\* A request goes on with the version it has.
LEMMA AdvanceVersions ==
    ASSUME TypeOK, NEW r \in requests, NEW step, Advance(r, step), UNCHANGED retries
    PROVE  \A x \in requests' \union retries' :
              \E q \in requests \union retries :
                 q.comment = x.comment /\ q.version = x.version
<1>1. r \in Request /\ requests' \subseteq requests \union {[r EXCEPT !.step = step]}
  BY DEF Advance, TypeOK
<1>2. /\ [r EXCEPT !.step = step].comment = r.comment
      /\ [r EXCEPT !.step = step].version = r.version
  BY <1>1 DEF Request
<1> QED
  BY <1>1, <1>2

LEMMA SubmitText ==
    ASSUME TypeOK, TextsFollow, WorkersHaveJobs, NEW x \in Comments, NEW v \in Versions,
           Submit(x, v), NEW c \in Comments
    PROVE  TextOf(c)'
<1>1. TextOf(c)
  BY DEF TextsFollow
<1> DEFINE new == [comment |-> x, version |-> v, setProcessing |-> TRUE, step |-> "enqueue"]
<1>2. /\ requests' = requests \union {new} /\ new.comment = x /\ new.version = v
      /\ UNCHANGED <<retries, job, jobText, worker, judgedSafe>>
  BY DEF Submit, jobVars
<1>3. CASE c = x
  <2>1. /\ version'[c] = v /\ status'[c] = "PENDING"
        /\ crossed'[c] = IF UnderWay(c) THEN crossed[c] \union {v} ELSE crossed[c]
    BY <1>3 DEF Submit, TypeOK
  <2>2. VerdictIsSafe(c)' /\ ShownIsJudged(c)'
    BY <1>1, <1>2, <2>1 DEF TextOf, VerdictIsSafe, ShownIsJudged
  <2>3. OnItsText(c)'
    BY <1>2, <1>3, <2>1 DEF OnItsText, UnderWay, Unfinished
  <2> QED
    BY <2>2, <2>3 DEF TextOf
<1>4. CASE c # x
  <2>1. /\ version'[c] = version[c] /\ status'[c] = status[c]
        /\ crossed'[c] = crossed[c]
    BY <1>4 DEF Submit, TypeOK
  <2>2. \A r \in requests' \union retries' :
           r.comment = c => r \in requests \union retries
    BY <1>2, <1>4
  <2> QED
    BY <1>1, <1>2, <2>1, <2>2, TextStays DEF Unfinished
<1> QED
  BY <1>3, <1>4

LEMMA EnqueueText ==
    ASSUME TypeOK, TextsFollow, WorkersHaveJobs, NEW r \in requests,
           Enqueue(r) \/ EnqueueFails(r), NEW c \in Comments
    PROVE  TextOf(c)'
<1>1. TextOf(c) /\ r.comment \in Comments /\ r.version \in Versions
  BY RequestSteps DEF TextsFollow, TypeOK
<1>2. /\ UNCHANGED <<status, version, crossed, judgedSafe, worker, retries>>
      /\ \E step \in {"process", "done", "fail"} : Advance(r, step)
      /\ AddJob(r.comment, r.version) \/ UNCHANGED jobVars
  BY DEF Enqueue, EnqueueFails, rowVars, noteVars
<1>3. \A x \in requests' \union retries' :
         \E q \in requests \union retries :
            q.comment = x.comment /\ q.version = x.version
  BY <1>2, AdvanceVersions
<1>4. CASE job'[c] = job[c] /\ jobText'[c] = jobText[c]
  BY <1>1, <1>2, <1>3, <1>4, TextStays DEF Unfinished
<1>5. CASE ~(job'[c] = job[c] /\ jobText'[c] = jobText[c])
  <2>1. c = r.comment /\ job[c] = "none" /\ jobText'[c] = r.version
    BY <1>1, <1>2, <1>5 DEF AddJob, jobVars, TypeOK
  <2>2. worker[c].step # "approve"
    BY <2>1 DEF WorkersHaveJobs, Resting
  <2>3. OnItsText(c)'
    BY <1>1, <1>2, <1>3, <2>1 DEF TextOf, OnItsText
  <2>4. VerdictIsSafe(c)' /\ ShownIsJudged(c)'
    BY <1>1, <1>2, <2>2 DEF TextOf, VerdictIsSafe, ShownIsJudged
  <2> QED
    BY <2>3, <2>4 DEF TextOf
<1> QED
  BY <1>4, <1>5

LEMMA RetryText ==
    ASSUME TypeOK, TextsFollow, WorkersHaveJobs, Admins, NEW c \in Comments
    PROVE  TextOf(c)'
<1>1. TextOf(c)
  BY DEF TextsFollow
<1>2. ASSUME NEW x \in Comments, RetrySelect(x) PROVE TextOf(c)'
  <2> DEFINE new == [comment |-> x, version |-> version[x]]
  <2>1. /\ retries' = retries \union {new} /\ new.comment = x /\ new.version = version[x]
        /\ UNCHANGED <<status, version, crossed, judgedSafe, worker, requests, job, jobText>>
    BY <1>2 DEF RetrySelect, rowVars, jobVars, noteVars
  <2>2. OnItsText(c)'
    BY <1>1, <2>1 DEF TextOf, OnItsText, Unfinished
  <2> QED
    BY <1>1, <2>1, <2>2 DEF TextOf, VerdictIsSafe, ShownIsJudged
<1>3. ASSUME NEW s \in retries, RetryClaim(s) PROVE TextOf(c)'
  <2> DEFINE new == [comment |-> s.comment, version |-> s.version,
                     setProcessing |-> FALSE, step |-> "enqueue"]
  <2>1. new.comment = s.comment /\ new.version = s.version /\ s.comment \in Comments
    BY RequestSteps DEF TypeOK
  <2>2. /\ retries' = retries \ {s} /\ requests' \subseteq requests \union {new}
        /\ status'[c] = "APPROVED" => status[c] = "APPROVED"
        /\ UNCHANGED <<version, crossed, judgedSafe, worker, job, jobText>>
    BY <1>3, <2>1 DEF RetryClaim, jobVars, noteVars, TypeOK
  <2> HIDE DEF new
  <2>3. \A x \in requests' \union retries' :
           \E q \in requests \union retries :
              q.comment = x.comment /\ q.version = x.version
    BY <2>1, <2>2
  <2> QED
    BY <1>1, <2>2, <2>3, TextStays DEF Unfinished
<1> QED
  BY <1>2, <1>3 DEF Admins

LEMMA WorkText ==
    ASSUME TypeOK, RowsHaveText, TextsFollow, WorkersHaveJobs, NEW x \in Comments,
           Work(x) \/ WorkerDies(x) \/ ForgetFailure(x), NEW c \in Comments
    PROVE  TextOf(c)'
<1> USE DEF TypeOK
<1>1. TextOf(c)
  BY DEF TextsFollow
<1>2. /\ UNCHANGED <<version, crossed, requests, retries, jobText>>
      /\ judgedSafe[c] \subseteq judgedSafe'[c]
  BY DEF Work, TakeJob, ApproveRead, ApproveWrite, RejectRead, RejectWrite, AttemptFails,
         GiveUp, MarkUnavailable, CompleteJob, EndAttempt, FailAttempt, WorkerDies,
         ForgetFailure, rowVars, requestVars, jobVars, noteVars
<1>3. c # x => /\ job'[c] = job[c] /\ worker'[c] = worker[c]
               /\ status'[c] = status[c]
  BY DEF Work, TakeJob, ApproveRead, ApproveWrite, RejectRead, RejectWrite, AttemptFails,
         GiveUp, MarkUnavailable, CompleteJob, EndAttempt, FailAttempt, WorkerDies,
         ForgetFailure, rowVars, jobVars
<1>4. ASSUME Unfinished(c)' => Unfinished(c),
             worker'[c] = worker[c] \/ worker'[c].step # "approve",
             status'[c] = "APPROVED" => status[c] = "APPROVED"
      PROVE  TextOf(c)'
  BY <1>1, <1>2, <1>4, TextStays
<1>5. CASE c # x
  BY <1>3, <1>4, <1>5 DEF Unfinished
<1>6. CASE c = x
  <2>1. worker[c].step # "idle" => Unfinished(c)
    BY DEF WorkersHaveJobs, Resting, Unfinished
  <2>2. ASSUME ApproveRead(c) PROVE TextOf(c)'
    <3>1. /\ UNCHANGED <<status, job>> /\ Unfinished(c)
          /\ jobText[c] \in judgedSafe'[c]
      BY <2>2 DEF ApproveRead, EndAttempt, rowVars, jobVars, Unfinished
    <3>2. OnItsText(c)'
      BY <1>1, <1>2, <3>1 DEF TextOf, OnItsText, Unfinished
    <3>3. VerdictIsSafe(c)' /\ ShownIsJudged(c)'
      BY <1>1, <1>2, <3>1 DEF TextOf, VerdictIsSafe, ShownIsJudged
    <3> QED
      BY <3>2, <3>3 DEF TextOf
  <2>3. ASSUME ApproveWrite(c) PROVE TextOf(c)'
    <3>1. worker[c].step = "approve" /\ Unfinished(c) /\ worker'[c].step # "approve"
      BY <2>1, <2>3 DEF ApproveWrite, EndAttempt, FailAttempt, Resting, WorkerState
    <3>2. version[c] \in judgedSafe[c] \union crossed[c]
      BY <1>1, <3>1 DEF TextOf, OnItsText, VerdictIsSafe
    <3>3. OnItsText(c)'
      BY <1>1, <1>2, <3>1 DEF TextOf, OnItsText
    <3>4. VerdictIsSafe(c)' /\ ShownIsJudged(c)'
      BY <1>2, <3>1, <3>2 DEF VerdictIsSafe, ShownIsJudged
    <3> QED
      BY <3>3, <3>4 DEF TextOf
  <2>4. ASSUME RejectRead(c) \/ RejectWrite(c) \/ AttemptFails(c) PROVE TextOf(c)'
    <3>1. Unfinished(c)
      BY <2>1, <2>4 DEF RejectRead, RejectWrite, AttemptFails, Unfinished
    <3>2. /\ worker'[c] = worker[c] \/ worker'[c].step # "approve"
          /\ status'[c] = "APPROVED" => status[c] = "APPROVED"
      BY <2>4 DEF RejectRead, RejectWrite, AttemptFails, EndAttempt, FailAttempt, Resting,
                  WorkerState, rowVars
    <3> QED
      BY <1>4, <3>1, <3>2
  <2>5. ASSUME TakeJob(c) \/ GiveUp(c) \/ CompleteJob(c) \/ WorkerDies(c) \/ ForgetFailure(c)
        PROVE  TextOf(c)'
    <3>1. Unfinished(c)' => Unfinished(c)
      BY <2>5 DEF TakeJob, GiveUp, CompleteJob, WorkerDies, ForgetFailure, Unfinished
    <3>2. /\ worker'[c] = worker[c] \/ worker'[c].step # "approve"
          /\ status'[c] = "APPROVED" => status[c] = "APPROVED"
      BY <2>5 DEF TakeJob, GiveUp, CompleteJob, WorkerDies, ForgetFailure, Resting,
                  MarkUnavailable, rowVars
    <3> QED
      BY <1>4, <3>1, <3>2
  <2> QED
    BY <1>6, <2>2, <2>3, <2>4, <2>5 DEF Work
<1> QED
  BY <1>5, <1>6

LEMMA TextsStep == IInv /\ WorkersHaveJobs /\ TextsFollow /\ [Next]_vars => TextsFollow'
<1> SUFFICES ASSUME TypeOK, RowsHaveText, WorkersHaveJobs, TextsFollow, [Next]_vars,
                    NEW c \in Comments
             PROVE  TextOf(c)'
  BY DEF IInv, TextsFollow
<1>1. TextOf(c)
  BY DEF TextsFollow
<1>2. ASSUME UNCHANGED <<version, retries, jobVars, worker, noteVars>>,
             UNCHANGED requests \/ \E r \in requests, step \in {"done", "fail"} : Advance(r, step),
             status'[c] = "APPROVED" => status[c] = "APPROVED"
      PROVE  TextOf(c)'
  <2>1. \A x \in requests' \union retries' :
           \E q \in requests \union retries :
              q.comment = x.comment /\ q.version = x.version
    BY <1>2, AdvanceVersions
  <2> QED
    BY <1>1, <1>2, <2>1, TextStays DEF jobVars, noteVars, Unfinished
<1>3. CASE Authors
  <2>1. ASSUME NEW x \in Comments, CreateComment(x) \/ UpdateComment(x) PROVE TextOf(c)'
    <3>1. 1 \in Versions /\ (UpdateComment(x) => version[x] + 1 \in Versions)
      BY BoundsAssumption DEF UpdateComment, Versions, TypeOK
    <3> QED
      BY <2>1, <3>1, SubmitText DEF CreateComment, UpdateComment
  <2>2. ASSUME NEW r \in requests, Enqueue(r) \/ EnqueueFails(r) PROVE TextOf(c)'
    BY <2>2, EnqueueText
  <2>3. ASSUME NEW r \in requests,
               SetProcessing(r) \/ SetProcessingFails(r) \/ MarkFailed(r) \/ RequestDies(r)
        PROVE  TextOf(c)'
    <3>1. r.comment \in Comments
      BY RequestSteps DEF TypeOK
    <3>2. status'[c] = "APPROVED" => status[c] = "APPROVED"
      BY <2>3, <3>1 DEF SetProcessing, SetProcessingFails, MarkFailed, MarkUnavailable,
                        RequestDies, rowVars, TypeOK
    <3>3. UNCHANGED <<version, retries, jobVars, worker, noteVars>>
      BY <2>3 DEF SetProcessing, SetProcessingFails, MarkFailed, MarkUnavailable,
                  RequestDies, rowVars
    <3>4. Advance(r, "done") \/ Advance(r, "fail")
      BY <2>3 DEF SetProcessing, SetProcessingFails, MarkFailed, RequestDies
    <3> QED
      BY <1>2, <3>2, <3>3, <3>4
  <2> QED
    BY <1>3, <2>1, <2>2, <2>3 DEF Authors
<1>4. CASE Admins
  BY <1>4, RetryText
<1>5. CASE Queue
  BY <1>5, WorkText DEF Queue
<1>6. CASE Deletions
  <2>1. UNCHANGED <<version, requests, retries, jobVars, worker, noteVars>>
    BY <1>6 DEF Deletions, DeleteRead, SoftDelete, HardDelete, SweepSelect, SweepDelete,
                rowVars, requestVars
  <2>2. status'[c] = "APPROVED" => status[c] = "APPROVED"
    BY <1>6, DeleteSteps
       DEF Deletions, DeleteRead, SoftDelete, HardDelete, SweepSelect, SweepDelete,
           rowVars, TypeOK
  <2> QED
    BY <1>2, <2>1, <2>2
<1>7. CASE UNCHANGED vars
  BY <1>2, <1>7 DEF vars, jobVars, noteVars
<1> QED
  BY <1>3, <1>4, <1>5, <1>6, <1>7 DEF Next

\* The version that is shown is one the agent called safe, unless something of
\* its comment was under way when it was written.
THEOREM Judged == Spec => []ApprovedWasJudged
<1>1. IInv /\ WorkersHaveJobs /\ [Next]_vars /\ IInv' => WorkersHaveJobs'
  BY JobsStep DEF IInv
<1>2. TextsFollow => ApprovedWasJudged
  BY DEF TextsFollow, TextOf, ShownIsJudged, ApprovedWasJudged
<1> QED
  BY <1>1, <1>2, WorkersInit, TextsInit, TextsStep, Invariance, PTL DEF Spec

-----------------------------------------------------------------------------
(* Messages *)

Fits(m) == message[m].type = Resolve(message[m].text, rows[m] # {})

\* What a running request relies on: that its message is there, that its files
\* are its own, and that the type it is about to write fits.
Relies(r) ==
    /\ request[r].id = None <=> request[r].step \in {"upload", "create", "cleanup"}
    /\ request[r].id # None => message[request[r].id] # None
    /\ request[r].keys \subseteq made
    /\ request[r].step = "upload" => \A m \in Ids : request[r].keys \intersect rows[m] = {}
    /\ request[r].step = "create" => request[r].text \/ request[r].keys # {}
    /\ request[r].step = "write" => request[r].type = "MIXED"
    /\ request[r].step \in {"files", "rows"} /\ request[r].op = "delete"
          => rows[request[r].id] \subseteq request[r].keys
    /\ request[r].step = "rows" => request[r].keys \intersect stored = {}
    /\ request[r].step = "mark" => rows[request[r].id] = {}
    /\ request[r].step = "type" /\ request[r].id \notin raced /\ Live(request[r].id)
          => request[r].type = Resolve(message[request[r].id].text, rows[request[r].id] # {})

RequestsRely == \A r \in Requests : ~Free(r) => Relies(r)

\* What an upload may still put into the storage is nobody else's.
UploadsApart ==
    \A r, s \in Requests :
        At(r, "upload") /\ ~Free(s) /\ r # s => request[r].keys \intersect request[s].keys = {}

\* Two requests on a message have raced.
AloneOn ==
    \A r, s \in Requests :
        ~Free(r) /\ ~Free(s) /\ r # s /\ request[r].id = request[s].id
            => request[r].id \in raced \union {None}

OnlyLiveHaveRows == \A m \in Ids : Live(m) \/ rows[m] = {}

BatchIsDeleted == batch \subseteq Deleted \union {m \in Ids : message[m] = Gone}

\* A message without text or files is about to be deleted.
EmptyAreHandled ==
    \A m \in Ids \ cut :
        Live(m) /\ ~message[m].text /\ rows[m] = {}
            => \E r \in On(m) : request[r].step \in {"reread", "mark"}

\* A type that does not fit is about to be written, or the message deleted.
TypesAreHandled ==
    \A m \in Ids \ (cut \union raced) :
        Live(m) /\ ~Fits(m) => \E r \in On(m) : request[r].step \in {"reread", "mark", "type"}

\* A page that misses a change, cached or about to be, is about to be deleted.
PagesAreHandled ==
    \A u \in Readers \ missed :
        "stale" \in {page[u], fill[u]} => \E r \in Requests : ~Free(r) /\ request[r].step \in Owing

MessagesIInv ==
    /\ MessagesTypeOK
    /\ RequestsRely
    /\ UploadsApart
    /\ AloneOn
    /\ OnlyLiveHaveRows
    /\ BatchIsDeleted
    /\ EmptyAreHandled
    /\ TypesAreHandled
    /\ PagesAreHandled

-----------------------------------------------------------------------------
Steps == {"upload", "create", "cleanup", "write", "files", "rows",
          "reread", "mark", "type", "purge"}
Types == {"TEXT", "FILE", "MIXED"}

(* Records *)

LEMMA RequestFields ==
    ASSUME MessagesTypeOK, NEW r \in Requests, ~Free(r)
    PROVE  /\ request[r] \in RequestState
           /\ request[r].id \in Ids \union {None}
           /\ request[r].keys \in SUBSET Files
           /\ request[r].step \in Steps
           /\ request[r].type \in Types
           /\ request[r].text \in BOOLEAN
           /\ request[r].user \in Users
BY ModelValuesAssumption DEF MessagesTypeOK, RequestState, Free, Steps, Types

LEMMA MessageFields ==
    ASSUME MessagesTypeOK, NEW m \in Ids, Row(m)
    PROVE  /\ message[m] \in Message
           /\ message[m].text \in BOOLEAN
           /\ message[m].deleted \in BOOLEAN
           /\ message[m].type \in Types
BY ModelValuesAssumption DEF MessagesTypeOK, Message, Row, Types

\* Only request r changes.
Others(r) == \A s \in Requests \ {r} : request'[s] = request[s]

LEMMA GotoFields ==
    ASSUME MessagesTypeOK, NEW r \in Requests, ~Free(r), NEW step \in Steps, Goto(r, step)
    PROVE  /\ request' \in [Requests -> RequestState \union {None}]
           /\ Others(r) /\ request'[r] # None
           /\ request'[r].op = request[r].op
           /\ request'[r].id = request[r].id
           /\ request'[r].text = request[r].text
           /\ request'[r].keys = request[r].keys
           /\ request'[r].type = request[r].type
           /\ request'[r].step = step
<1>1. request \in [Requests -> RequestState \union {None}] /\ request[r] \in RequestState
  BY RequestFields DEF MessagesTypeOK
<1>2. PICK q \in RequestState : q = request[r]
  BY <1>1
<1>3. [q EXCEPT !.step = step] \in RequestState
  BY DEF RequestState, Steps
<1>4. request' = [request EXCEPT ![r] = [q EXCEPT !.step = step]]
  BY <1>2 DEF Goto
<1>5. /\ [q EXCEPT !.step = step].op = q.op
      /\ [q EXCEPT !.step = step].id = q.id
      /\ [q EXCEPT !.step = step].text = q.text
      /\ [q EXCEPT !.step = step].keys = q.keys
      /\ [q EXCEPT !.step = step].type = q.type
      /\ [q EXCEPT !.step = step].step = step
  BY DEF RequestState
<1> QED BY <1>1, <1>2, <1>3, <1>4, <1>5, ModelValuesAssumption DEF Others

LEMMA EndFields ==
    ASSUME MessagesTypeOK, NEW r \in Requests, End(r)
    PROVE  /\ request' \in [Requests -> RequestState \union {None}]
           /\ Others(r) /\ request'[r] = None
BY DEF MessagesTypeOK, End, Others

LEMMA BeginFields ==
    ASSUME MessagesTypeOK, NEW r \in Requests, NEW m \in Ids, NEW q \in RequestState,
           Free(r), begun < MaxBegun, begun' = begun + 1,
           request' = [request EXCEPT ![r] = q],
           raced' = IF m # None /\ On(m) # {} THEN raced \union {m} ELSE raced
    PROVE  /\ request' \in [Requests -> RequestState \union {None}]
           /\ Others(r) /\ request[r] = None /\ request'[r] = q /\ q # None
           /\ begun' \in 0..MaxBegun
           /\ raced' \in SUBSET Ids /\ raced \subseteq raced'
           /\ On(m) # {} => m \in raced'
BY BatchAssumption, ModelValuesAssumption DEF MessagesTypeOK, Free, Others

LEMMA StaleTypes ==
    ASSUME MessagesTypeOK, Stale
    PROVE  /\ page' \in [Readers -> {None, "current", "stale"}]
           /\ fill' \in [Readers -> {None, "current", "stale"}]
BY DEF MessagesTypeOK, Stale

\* Requests begin on messages that are shown: nothing but requests changes.
LEMMA BeginKeeps ==
    ASSUME MessagesIInv, NEW r \in Requests, NEW op, NEW m \in Ids, NEW keys, NEW step,
           /\ request' \in [Requests -> RequestState \union {None}]
           /\ Others(r) /\ request[r] = None /\ request'[r] # None
           /\ request'[r].op = op /\ request'[r].id = m
           /\ request'[r].keys = keys
           /\ request'[r].type = "MIXED" /\ request'[r].step = step
           /\ begun' \in 0..MaxBegun
           /\ raced' \in SUBSET Ids /\ raced \subseteq raced'
           /\ On(m) # {} => m \in raced',
           Live(m), keys \subseteq rows[m],
           step \in {"write", "files", "mark"},
           step = "mark" => rows[m] = {},
           op = "delete" => rows[m] \subseteq keys,
           UNCHANGED <<people, message, rows, made, stored, caches, batch, cut>>
    PROVE  MessagesIInv'
<1>1. /\ users' = users /\ open' = open /\ members' = members
      /\ message' = message /\ rows' = rows /\ made' = made
      /\ stored' = stored /\ page' = page /\ fill' = fill /\ missed' = missed
      /\ batch' = batch /\ cut' = cut
  BY DEF people, people, caches
<1>2. MessagesTypeOK'
  BY <1>1 DEF MessagesIInv, MessagesTypeOK
<1>3. RequestsRely'
  <2> SUFFICES ASSUME NEW s \in Requests, ~Free(s)' PROVE Relies(s)'
    BY DEF RequestsRely
  <2>1. CASE s = r
    BY <1>1, <2>1, ModelValuesAssumption
       DEF MessagesIInv, MessagesTypeOK, Relies, Live, Row
  <2>2. CASE s # r
    <3>1. ~Free(s) /\ Relies(s) /\ request'[s] = request[s]
      BY <2>2 DEF MessagesIInv, RequestsRely, Others, Free
    <3> QED BY <1>1, <3>1 DEF Relies, Live, Row
  <2> QED BY <2>1, <2>2
<1>4. UploadsApart'
  <2> SUFFICES ASSUME NEW s \in Requests, NEW t \in Requests, At(s, "upload")', ~Free(t)', s # t
               PROVE  request'[s].keys \intersect request'[t].keys = {}
    BY DEF UploadsApart
  <2>1. s # r /\ At(s, "upload") /\ request'[s] = request[s]
    BY DEF Others, At, Free
  <2>2. CASE t = r
    BY <2>1, <2>2 DEF MessagesIInv, RequestsRely, Relies, At
  <2>3. CASE t # r
    BY <2>1, <2>3 DEF MessagesIInv, UploadsApart, Others, Free
  <2> QED BY <2>2, <2>3
<1>5. AloneOn'
  BY DEF MessagesIInv, AloneOn, Others, Free, On
<1>6. OnlyLiveHaveRows' /\ BatchIsDeleted'
  BY <1>1 DEF MessagesIInv, OnlyLiveHaveRows, BatchIsDeleted, Deleted, Live, Row
<1>7. EmptyAreHandled'
  BY <1>1 DEF MessagesIInv, EmptyAreHandled, On, Free, Live, Row, Others
<1>8. TypesAreHandled'
  BY <1>1 DEF MessagesIInv, TypesAreHandled, On, Free, Live, Row, Others, Fits
<1>9. PagesAreHandled'
  BY <1>1 DEF MessagesIInv, PagesAreHandled, Free, Others
<1> QED BY <1>2, <1>3, <1>4, <1>5, <1>6, <1>7, <1>8, <1>9 DEF MessagesIInv

\* Request r goes on, or ends, without keys that others have.
LEMMA StaysApart ==
    ASSUME MessagesIInv, NEW r \in Requests, ~Free(r), Others(r),
           \/ request'[r] = None
           \/ /\ request'[r].id = request[r].id
              /\ request'[r].keys \subseteq request[r].keys
              /\ request'[r].step # "upload",
           raced \subseteq raced'
    PROVE  UploadsApart' /\ AloneOn'
<1>1. UploadsApart'
  <2> SUFFICES ASSUME NEW s \in Requests, NEW t \in Requests, At(s, "upload")', ~Free(t)', s # t
               PROVE  request'[s].keys \intersect request'[t].keys = {}
    BY DEF UploadsApart
  <2>1. s # r /\ At(s, "upload") /\ request'[s] = request[s]
    BY DEF Others, At, Free
  <2>2. ~Free(t) /\ request'[t].keys \subseteq request[t].keys
    BY DEF Others, Free
  <2>3. request[s].keys \intersect request[t].keys = {}
    BY <2>1, <2>2 DEF MessagesIInv, UploadsApart
  <2> QED BY <2>1, <2>2, <2>3
<1>2. AloneOn'
  BY DEF MessagesIInv, AloneOn, Others, Free
<1> QED BY <1>1, <1>2

\* Steps that no page or message is waiting for, of a request whose message
\* and rows stay as they are.
LEMMA QuietStep ==
    ASSUME MessagesIInv, NEW r \in Requests, ~Free(r), Others(r),
           request' \in [Requests -> RequestState \union {None}],
           request[r].step \notin Owing, request[r].step # "type",
           \/ request'[r] = None
           \/ /\ request'[r].op = request[r].op
              /\ request'[r].id = request[r].id
              /\ request'[r].keys = request[r].keys
              /\ \/ request'[r].step = "cleanup" /\ request[r].step = "create"
                 \/ /\ request'[r].step = "rows" /\ request[r].step = "files"
                    /\ request[r].keys \intersect stored' = {},
           stored' \subseteq stored,
           UNCHANGED <<people, message, rows, made, caches, batch, begun, marks>>
    PROVE  MessagesIInv'
<1>1. /\ users' = users /\ open' = open /\ members' = members
      /\ message' = message /\ rows' = rows /\ made' = made
      /\ page' = page /\ fill' = fill /\ missed' = missed
      /\ batch' = batch /\ begun' = begun /\ cut' = cut /\ raced' = raced
  BY DEF people, people, caches, marks
<1>2. MessagesTypeOK'
  BY <1>1 DEF MessagesIInv, MessagesTypeOK
<1>3. RequestsRely'
  <2> SUFFICES ASSUME NEW s \in Requests, ~Free(s)' PROVE Relies(s)'
    BY DEF RequestsRely
  <2>1. Relies(s) /\ ~Free(s)
    BY DEF MessagesIInv, RequestsRely, Others, Free
  <2>2. CASE s = r
    BY <1>1, <2>1, <2>2 DEF Relies, Live, Row, Free
  <2>3. CASE s # r
    <3>1. request'[s] = request[s]
      BY <2>3 DEF Others
    <3> QED BY <1>1, <2>1, <3>1 DEF Relies, Live, Row
  <2> QED BY <2>2, <2>3
<1>4. UploadsApart' /\ AloneOn'
  BY <1>1, StaysApart
<1>5. OnlyLiveHaveRows' /\ BatchIsDeleted'
  BY <1>1 DEF MessagesIInv, OnlyLiveHaveRows, BatchIsDeleted, Deleted, Live, Row
<1>6. EmptyAreHandled'
  BY <1>1 DEF MessagesIInv, EmptyAreHandled, On, Free, Live, Row, Others, Owing
<1>7. TypesAreHandled'
  BY <1>1 DEF MessagesIInv, TypesAreHandled, On, Free, Live, Row, Others, Fits, Owing
<1>8. PagesAreHandled'
  BY <1>1 DEF MessagesIInv, PagesAreHandled, Free, Others
<1> QED BY <1>2, <1>3, <1>4, <1>5, <1>6, <1>7, <1>8 DEF MessagesIInv

-----------------------------------------------------------------------------
(* Requests *)

LEMMA SendKeeps ==
    ASSUME MessagesIInv, NEW r \in Requests, NEW u \in Users, NEW text \in BOOLEAN,
           NEW keys \in SUBSET Files, Send(r, u, text, keys)
    PROVE  MessagesIInv'
<1> DEFINE step == IF keys = {} THEN "create" ELSE "upload"
           q == [op |-> "send", user |-> u, id |-> None, text |-> text, keys |-> keys,
                 type |-> "MIXED", step |-> step]
<1>1. q \in RequestState
  BY DEF RequestState
<1>2. request \in [Requests -> RequestState \union {None}] /\ begun \in 0..MaxBegun
  BY DEF MessagesIInv, MessagesTypeOK
<1>3. request[r] = None /\ request' = [request EXCEPT ![r] = q] /\ begun' \in 0..MaxBegun
      /\ raced' = raced
  BY <1>2, BatchAssumption DEF Send, Begin, Free
<1>4. q.op = "send" /\ q.id = None /\ q.text = text /\ q.keys = keys /\ q.step = step
  OBVIOUS
<1> HIDE DEF q
<1>5. /\ request' \in [Requests -> RequestState \union {None}]
      /\ Others(r) /\ request'[r] = q /\ q # None
  BY <1>1, <1>2, <1>3, ModelValuesAssumption DEF Others
<1>6. /\ users' = users /\ open' = open /\ members' = members
      /\ message' = message /\ rows' = rows /\ made' = made \union keys
      /\ stored' = stored /\ page' = page /\ fill' = fill /\ missed' = missed
      /\ batch' = batch /\ cut' = cut
  BY DEF Send, people, caches
<1>7. text \/ keys # {}
  BY DEF Send
<1>8. keys \intersect made = {}
  BY DEF Send
<1>9. MessagesTypeOK'
  BY <1>3, <1>5, <1>6 DEF MessagesIInv, MessagesTypeOK
<1>10. RequestsRely'
  <2> SUFFICES ASSUME NEW s \in Requests, ~Free(s)' PROVE Relies(s)'
    BY DEF RequestsRely
  <2>1. \A m \in Ids : rows[m] \subseteq made
    BY DEF MessagesIInv, MessagesTypeOK
  <2>2. CASE s = r
    <3> QED BY <1>4, <1>5, <1>6, <1>7, <1>8, <2>1, <2>2 DEF Relies
  <2>3. CASE s # r
    <3>1. ~Free(s) /\ Relies(s) /\ request'[s] = request[s]
      BY <1>5, <2>3 DEF MessagesIInv, RequestsRely, Others, Free
    <3> QED BY <1>3, <1>6, <3>1 DEF Relies, Live, Row
  <2> QED BY <2>2, <2>3
<1>11. UploadsApart'
  <2> SUFFICES ASSUME NEW s \in Requests, NEW t \in Requests, At(s, "upload")', ~Free(t)', s # t
               PROVE  request'[s].keys \intersect request'[t].keys = {}
    BY DEF UploadsApart
  <2>1. \A x \in Requests \ {r} : ~Free(x)' => ~Free(x) /\ request'[x] = request[x]
                                               /\ request[x].keys \subseteq made
    BY <1>5 DEF MessagesIInv, RequestsRely, Relies, Others, Free
  <2>2. s # r => At(s, "upload") /\ ~Free(s)
    BY <1>5, <2>1 DEF At, Free
  <2>3. request'[r].keys = keys
    BY <1>4, <1>5
  <2>4. CASE s = r
    BY <1>8, <2>1, <2>3, <2>4
  <2>5. CASE t = r
    BY <1>8, <2>1, <2>2, <2>3, <2>5 DEF At
  <2>6. CASE s # r /\ t # r
    BY <2>1, <2>2, <2>6 DEF MessagesIInv, UploadsApart, At, Free
  <2> QED BY <2>4, <2>5, <2>6
<1>12. AloneOn'
  BY <1>3, <1>4, <1>5, <1>6 DEF MessagesIInv, AloneOn, Others, Free
<1>13. OnlyLiveHaveRows' /\ BatchIsDeleted'
  BY <1>6 DEF MessagesIInv, OnlyLiveHaveRows, BatchIsDeleted, Deleted, Live, Row
<1>14. EmptyAreHandled' /\ TypesAreHandled'
  BY <1>3, <1>5, <1>6
     DEF MessagesIInv, EmptyAreHandled, TypesAreHandled, On, Free, Live, Row, Others, Fits
<1>15. PagesAreHandled'
  BY <1>3, <1>5, <1>6 DEF MessagesIInv, PagesAreHandled, Free, Others
<1> QED BY <1>9, <1>10, <1>11, <1>12, <1>13, <1>14, <1>15 DEF MessagesIInv

LEMMA UploadKeeps ==
    ASSUME MessagesIInv, NEW r \in Requests, Upload(r)
    PROVE  MessagesIInv'
<1>1. At(r, "upload") /\ ~Free(r) /\ MessagesTypeOK
  BY DEF Upload, At, MessagesIInv
<1>2. PICK q \in RequestState : q = request[r]
  BY <1>1, RequestFields
<1>3. PICK arrived \in SUBSET q.keys, ok \in SUBSET q.keys :
          /\ stored' = stored \union arrived
          /\ request' = [request EXCEPT ![r] =
                IF ok = {} THEN None ELSE [q EXCEPT !.keys = ok, !.step = "create"]]
  BY <1>2 DEF Upload
<1>4. q.id = None /\ q.keys \in SUBSET Files /\ q.step = "upload" /\ ~q.step \in Owing
  BY <1>1, <1>2, RequestFields DEF MessagesIInv, RequestsRely, Relies, At, Owing
<1> DEFINE n == [q EXCEPT !.keys = ok, !.step = "create"]
<1>5. n \in RequestState
  BY <1>4 DEF RequestState
<1>6. n.keys = ok /\ n.step = "create" /\ n.id = q.id /\ n.op = q.op
  BY DEF RequestState
<1>7. request' = [request EXCEPT ![r] = IF ok = {} THEN None ELSE n]
  BY <1>3
<1> HIDE DEF n
<1>8. /\ request' \in [Requests -> RequestState \union {None}]
      /\ Others(r) /\ request'[r] = IF ok = {} THEN None ELSE n
  BY <1>1, <1>5, <1>7 DEF MessagesTypeOK, Others
<1>9. \/ request'[r] = None
      \/ /\ request'[r].id = None /\ request'[r].keys = ok
         /\ request'[r].step = "create" /\ ok # {}
  BY <1>4, <1>6, <1>8
<1>10. /\ users' = users /\ open' = open /\ members' = members
       /\ message' = message /\ rows' = rows /\ made' = made
       /\ page' = page /\ fill' = fill /\ missed' = missed
       /\ batch' = batch /\ begun' = begun /\ cut' = cut /\ raced' = raced
  BY DEF Upload, people, caches, marks
<1>11. q.keys \subseteq made /\ stored' \subseteq stored \union q.keys
  BY <1>1, <1>2, <1>3 DEF MessagesIInv, RequestsRely, Relies
<1>12. MessagesTypeOK'
  BY <1>8, <1>10, <1>11 DEF MessagesIInv, MessagesTypeOK
<1>13. RequestsRely'
  <2> SUFFICES ASSUME NEW s \in Requests, ~Free(s)' PROVE Relies(s)'
    BY DEF RequestsRely
  <2>1. CASE s = r
    BY <1>9, <1>10, <1>11, <2>1 DEF Relies, Free
  <2>2. CASE s # r
    <3>1. ~Free(s) /\ Relies(s) /\ request'[s] = request[s]
      BY <1>8, <2>2 DEF MessagesIInv, RequestsRely, Others, Free
    <3>2. q.keys \intersect request[s].keys = {}
      BY <1>1, <1>2, <2>2, <3>1 DEF MessagesIInv, UploadsApart
    <3> QED BY <1>10, <1>11, <3>1, <3>2 DEF Relies, Live, Row
  <2> QED BY <2>1, <2>2
<1>14. UploadsApart' /\ AloneOn'
  BY <1>1, <1>2, <1>4, <1>8, <1>9, <1>10, StaysApart
<1>15. OnlyLiveHaveRows' /\ BatchIsDeleted'
  BY <1>10 DEF MessagesIInv, OnlyLiveHaveRows, BatchIsDeleted, Deleted, Live, Row
<1>16. EmptyAreHandled' /\ TypesAreHandled'
  BY <1>2, <1>4, <1>8, <1>10, ModelValuesAssumption
     DEF MessagesIInv, EmptyAreHandled, TypesAreHandled, On, Free, Live, Row, Others, Fits
<1>17. PagesAreHandled'
  BY <1>2, <1>4, <1>8, <1>10 DEF MessagesIInv, PagesAreHandled, Free, Others
<1> QED BY <1>12, <1>13, <1>14, <1>15, <1>16, <1>17 DEF MessagesIInv

LEMMA CreateKeeps ==
    ASSUME MessagesIInv, NEW r \in Requests, NEW m \in Ids, Create(r, m)
    PROVE  MessagesIInv'
<1>1. At(r, "create") /\ ~Free(r) /\ MessagesTypeOK /\ message[m] = None
  BY DEF Create, At, MessagesIInv
<1>2. PICK q \in RequestState : q = request[r]
  BY <1>1, RequestFields
<1>3. /\ q.user \in Users /\ q.text \in BOOLEAN /\ q.keys \subseteq made /\ q.step = "create"
      /\ q.id = None /\ (q.text \/ q.keys # {})
  BY <1>1, <1>2, RequestFields DEF MessagesIInv, RequestsRely, Relies, At
<1> DEFINE n == [q EXCEPT !.id = m, !.keys = {}, !.step = "purge"]
           new == [sender |-> q.user, text |-> q.text, deleted |-> FALSE,
                   type |-> Resolve(q.text, q.keys # {})]
<1>4. n \in RequestState
  BY DEF RequestState
<1>5. n.keys = {} /\ n.step = "purge" /\ n.id = m
  BY DEF RequestState
<1>6. new \in Message
  BY <1>3 DEF Message, Resolve
<1>7. new.text = q.text /\ new.deleted = FALSE /\ new.type = Resolve(q.text, q.keys # {})
  OBVIOUS
<1>8. /\ request' = [request EXCEPT ![r] = n]
      /\ message' = [message EXCEPT ![m] = new]
      /\ rows' = [rows EXCEPT ![m] = q.keys]
  BY <1>2 DEF Create, Insert
<1> HIDE DEF n, new
<1>9. /\ request' \in [Requests -> RequestState \union {None}]
      /\ Others(r) /\ request'[r] = n /\ n # None
  BY <1>1, <1>4, <1>8, ModelValuesAssumption DEF MessagesTypeOK, Others
<1>10. /\ message' \in [Ids -> Message \union {None, Gone}] /\ message'[m] = new
       /\ new \notin {None, Gone}
       /\ \A l \in Ids \ {m} : message'[l] = message[l] /\ rows'[l] = rows[l]
       /\ rows' \in [Ids -> SUBSET made] /\ rows'[m] = q.keys
  BY <1>1, <1>3, <1>6, <1>8, ModelValuesAssumption DEF MessagesTypeOK
<1>11. /\ users' = users /\ open' = open /\ members' = members
       /\ made' = made /\ stored' = stored /\ missed' = missed
       /\ batch' = batch /\ begun' = begun /\ cut' = cut /\ raced' = raced
  BY DEF Create, people, marks
<1>12. /\ page' \in [Readers -> {None, "current", "stale"}]
       /\ fill' \in [Readers -> {None, "current", "stale"}]
  BY <1>1, StaleTypes DEF Create
<1>13. MessagesTypeOK'
  BY <1>1, <1>9, <1>10, <1>11, <1>12 DEF MessagesTypeOK
<1>14. \A s \in Requests : ~Free(s) => request[s].id # m
  BY <1>1, ModelValuesAssumption DEF MessagesIInv, RequestsRely, Relies
<1>15. RequestsRely'
  <2> SUFFICES ASSUME NEW s \in Requests, ~Free(s)' PROVE Relies(s)'
    BY DEF RequestsRely
  <2>1. CASE s = r
    BY <1>5, <1>9, <1>10, <2>1, ModelValuesAssumption DEF Relies
  <2>2. CASE s # r
    <3>1. ~Free(s) /\ Relies(s) /\ request'[s] = request[s] /\ request[s].id # m
      BY <1>9, <1>14, <2>2 DEF MessagesIInv, RequestsRely, Others, Free
    <3>2. request[s].step = "upload" => q.keys \intersect request[s].keys = {}
      BY <1>1, <1>2, <2>2, <3>1 DEF MessagesIInv, UploadsApart, At
    <3>3. request[s].id \in Ids \union {None} /\ rows \in [Ids -> SUBSET made]
      BY <1>1, <3>1, RequestFields DEF MessagesTypeOK
    <3>4. request[s].step = "upload" => \A l \in Ids : request[s].keys \intersect rows'[l] = {}
      BY <1>10, <3>1, <3>2 DEF Relies
    <3>5. request[s].id # None =>
             /\ message'[request[s].id] = message[request[s].id]
             /\ rows'[request[s].id] = rows[request[s].id]
      BY <1>10, <3>1, <3>3
    <3> QED BY <1>11, <3>1, <3>4, <3>5 DEF Relies, Live, Row
  <2> QED BY <2>1, <2>2
<1>16. UploadsApart'
  <2> SUFFICES ASSUME NEW s \in Requests, NEW t \in Requests, At(s, "upload")', ~Free(t)', s # t
               PROVE  request'[s].keys \intersect request'[t].keys = {}
    BY DEF UploadsApart
  <2>1. s # r /\ At(s, "upload") /\ request'[s] = request[s]
    BY <1>5, <1>9 DEF Others, At, Free
  <2> QED BY <1>5, <1>9, <2>1 DEF MessagesIInv, UploadsApart, Others, Free
<1>17. AloneOn'
  BY <1>5, <1>9, <1>11, <1>14 DEF MessagesIInv, AloneOn, Others, Free
<1>18. OnlyLiveHaveRows' /\ BatchIsDeleted'
  <2>1. OnlyLiveHaveRows'
    BY <1>1, <1>7, <1>10 DEF MessagesIInv, OnlyLiveHaveRows, Live, Row
  <2>2. \A l \in batch : l # m /\ (l \in Deleted' \/ (l \in Ids /\ message'[l] = Gone))
    BY <1>1, <1>10, ModelValuesAssumption DEF MessagesIInv, BatchIsDeleted, Deleted, Row
  <2> QED BY <1>11, <2>1, <2>2 DEF BatchIsDeleted
<1>19. EmptyAreHandled' /\ TypesAreHandled'
  <2> SUFFICES ASSUME NEW l \in Ids \ cut', Live(l)'
               PROVE  /\ ~message'[l].text /\ rows'[l] = {} =>
                            \E s \in On(l)' : request'[s].step \in {"reread", "mark"}
                      /\ l \notin raced' /\ ~Fits(l)' =>
                            \E s \in On(l)' : request'[s].step \in {"reread", "mark", "type"}
    BY DEF EmptyAreHandled, TypesAreHandled
  <2>1. CASE l = m
    BY <1>3, <1>7, <1>10, <2>1 DEF Fits
  <2>2. CASE l # m
    <3>1. /\ message'[l] = message[l] /\ rows'[l] = rows[l] /\ l \in Ids \ cut
          /\ raced' = raced
      BY <1>10, <1>11, <2>2
    <3>2. \A s \in On(l) : s \in On(l)' /\ request'[s] = request[s]
      BY <1>2, <1>3, <1>9, ModelValuesAssumption DEF On, Others, Free
    <3> QED BY <3>1, <3>2 DEF MessagesIInv, EmptyAreHandled, TypesAreHandled, Live, Row, Fits
  <2> QED BY <2>1, <2>2
<1>20. PagesAreHandled'
  BY <1>5, <1>9 DEF PagesAreHandled, Free, Owing
<1> QED BY <1>13, <1>15, <1>16, <1>17, <1>18, <1>19, <1>20 DEF MessagesIInv

LEMMA CreateFailsKeeps ==
    ASSUME MessagesIInv, NEW r \in Requests, CreateFails(r)
    PROVE  MessagesIInv'
<1>1. At(r, "create") /\ ~Free(r) /\ MessagesTypeOK
  BY DEF CreateFails, At, MessagesIInv
<1>2. End(r) \/ Goto(r, "cleanup")
  BY DEF CreateFails
<1>3. CASE End(r)
  BY <1>1, <1>3, EndFields, QuietStep DEF CreateFails, At, Owing
<1>4. CASE Goto(r, "cleanup")
  <2>1. "cleanup" \in Steps
    BY DEF Steps
  <2> QED BY <1>1, <1>4, <2>1, GotoFields, QuietStep DEF CreateFails, At, Owing
<1> QED BY <1>2, <1>3, <1>4

LEMMA CleanUpKeeps ==
    ASSUME MessagesIInv, NEW r \in Requests, CleanUp(r)
    PROVE  MessagesIInv'
<1>1. At(r, "cleanup") /\ ~Free(r) /\ MessagesTypeOK /\ End(r) /\ stored' \subseteq stored
  BY DEF CleanUp, At, MessagesIInv
<1> QED BY <1>1, EndFields, QuietStep DEF CleanUp, At, Owing

LEMMA DeleteStoredKeeps ==
    ASSUME MessagesIInv, NEW r \in Requests, DeleteStored(r)
    PROVE  MessagesIInv'
<1>1. /\ At(r, "files") /\ ~Free(r) /\ MessagesTypeOK /\ Goto(r, "rows")
      /\ stored' \subseteq stored /\ request[r].keys \intersect stored' = {}
  BY DEF DeleteStored, At, MessagesIInv
<1>2. "rows" \in Steps
  BY DEF Steps
<1> QED BY <1>1, <1>2, GotoFields, QuietStep DEF DeleteStored, At, Owing

LEMMA DeleteStoredFailsKeeps ==
    ASSUME MessagesIInv, NEW r \in Requests, DeleteStoredFails(r)
    PROVE  MessagesIInv'
<1>1. At(r, "files") /\ ~Free(r) /\ MessagesTypeOK /\ End(r) /\ stored' \subseteq stored
  BY DEF DeleteStoredFails, At, MessagesIInv
<1> QED BY <1>1, EndFields, QuietStep DEF DeleteStoredFails, At, Owing

LEMMA EditKeeps ==
    ASSUME MessagesIInv, NEW r \in Requests, NEW u \in Users, NEW m \in Ids, Edit(r, u, m)
    PROVE  MessagesIInv'
<1> DEFINE q == [op |-> "edit", user |-> u, id |-> m, text |-> TRUE, keys |-> {},
                 type |-> "MIXED", step |-> "write"]
<1>1. MessagesTypeOK /\ Live(m) /\ rows[m] \in SUBSET Files
  BY DEF MessagesIInv, MessagesTypeOK, Edit
<1>2. q \in RequestState
  BY <1>1 DEF RequestState, Edit
<1>3. q.op = "edit" /\ q.id = m /\ q.keys = {} /\ q.type = "MIXED" /\ q.step = "write"
  OBVIOUS
<1>4. /\ Free(r) /\ begun < MaxBegun /\ begun' = begun + 1
      /\ request' = [request EXCEPT ![r] = q]
      /\ raced' = IF m # None /\ On(m) # {} THEN raced \union {m} ELSE raced
      /\ UNCHANGED <<people, message, rows, made, stored, caches, batch, cut>>
  BY DEF Edit, Begin, Attached
<1> HIDE DEF q
<1>5. /\ request' \in [Requests -> RequestState \union {None}]
      /\ Others(r) /\ request[r] = None /\ request'[r] = q /\ q # None
      /\ begun' \in 0..MaxBegun
      /\ raced' \in SUBSET Ids /\ raced \subseteq raced'
      /\ On(m) # {} => m \in raced'
  BY <1>1, <1>2, <1>4, BeginFields
<1>6. {} \subseteq rows[m]
  BY DEF Edit
<1> QED BY <1>1, <1>3, <1>4, <1>5, <1>6, BeginKeeps

LEMMA DeleteMessageKeeps ==
    ASSUME MessagesIInv, NEW r \in Requests, NEW u \in Users, NEW m \in Ids, DeleteMessage(r, u, m)
    PROVE  MessagesIInv'
<1>1. MessagesTypeOK /\ Live(m) /\ rows[m] \in SUBSET Files
  BY DEF MessagesIInv, MessagesTypeOK, DeleteMessage
<1>2. PICK keys \in SUBSET Files, step \in {"files", "mark"} :
          keys = rows[m] /\ step = IF keys = {} THEN "mark" ELSE "files"
  BY <1>1
<1> DEFINE q == [op |-> "delete", user |-> u, id |-> m, text |-> FALSE, keys |-> keys,
                 type |-> "MIXED", step |-> step]
<1>3. q \in RequestState
  BY DEF RequestState
<1>4. q.op = "delete" /\ q.id = m /\ q.keys = keys /\ q.type = "MIXED" /\ q.step = step
  OBVIOUS
<1>5. /\ Free(r) /\ begun < MaxBegun /\ begun' = begun + 1
      /\ request' = [request EXCEPT ![r] = q]
      /\ raced' = IF m # None /\ On(m) # {} THEN raced \union {m} ELSE raced
      /\ UNCHANGED <<people, message, rows, made, stored, caches, batch, cut>>
  BY <1>2 DEF DeleteMessage, Begin, Attached
<1> HIDE DEF q
<1>6. /\ request' \in [Requests -> RequestState \union {None}]
      /\ Others(r) /\ request[r] = None /\ request'[r] = q /\ q # None
      /\ begun' \in 0..MaxBegun
      /\ raced' \in SUBSET Ids /\ raced \subseteq raced'
      /\ On(m) # {} => m \in raced'
  BY <1>1, <1>3, <1>5, BeginFields
<1>7. keys \subseteq rows[m] /\ rows[m] \subseteq keys /\ (step = "mark" => rows[m] = {})
  BY <1>2
<1> QED BY <1>1, <1>4, <1>5, <1>6, <1>7, BeginKeeps

LEMMA DeleteFileKeeps ==
    ASSUME MessagesIInv, NEW r \in Requests, NEW u \in Users, NEW m \in Ids, NEW f \in Files,
           DeleteFile(r, u, m, f)
    PROVE  MessagesIInv'
<1> DEFINE q == [op |-> "file", user |-> u, id |-> m, text |-> FALSE, keys |-> {f},
                 type |-> "MIXED", step |-> "files"]
<1>1. MessagesTypeOK /\ Live(m) /\ rows[m] \in SUBSET Files
  BY DEF MessagesIInv, MessagesTypeOK, DeleteFile
<1>2. q \in RequestState
  BY <1>1 DEF RequestState, DeleteFile
<1>3. q.op = "file" /\ q.id = m /\ q.keys = {f} /\ q.type = "MIXED" /\ q.step = "files"
  OBVIOUS
<1>4. /\ Free(r) /\ begun < MaxBegun /\ begun' = begun + 1
      /\ request' = [request EXCEPT ![r] = q]
      /\ raced' = IF m # None /\ On(m) # {} THEN raced \union {m} ELSE raced
      /\ UNCHANGED <<people, message, rows, made, stored, caches, batch, cut>>
  BY DEF DeleteFile, Begin, Attached
<1> HIDE DEF q
<1>5. /\ request' \in [Requests -> RequestState \union {None}]
      /\ Others(r) /\ request[r] = None /\ request'[r] = q /\ q # None
      /\ begun' \in 0..MaxBegun
      /\ raced' \in SUBSET Ids /\ raced \subseteq raced'
      /\ On(m) # {} => m \in raced'
  BY <1>1, <1>2, <1>4, BeginFields
<1>6. {f} \subseteq rows[m]
  BY DEF DeleteFile
<1> QED BY <1>1, <1>3, <1>4, <1>5, <1>6, BeginKeeps

\* A step of request r that changes its message, or looks at it again, and
\* still has to delete the pages.
LEMMA ShownStep ==
    ASSUME MessagesIInv, NEW r \in Requests, ~Free(r), NEW m \in Ids, request[r].id = m,
           request' \in [Requests -> RequestState \union {None}], Others(r),
           /\ request'[r] # None
           /\ request'[r].id = m
           /\ request'[r].keys = request[r].keys
           /\ request'[r].step \in Owing,
           message' \in [Ids -> Message \union {None, Gone}],
           rows' \in [Ids -> SUBSET made],
           \A l \in Ids \ {m} : message'[l] = message[l] /\ rows'[l] = rows[l],
           message'[m] # None,
           m \in Deleted => m \in Deleted',
           message[m] = Gone => message'[m] = Gone,
           rows'[m] \subseteq rows[m],
           Live(m)' \/ rows'[m] = {},
           request'[r].step = "mark" => rows'[m] = {},
           request'[r].step = "type" /\ m \notin raced /\ Live(m)'
              => request'[r].type = Resolve(message'[m].text, rows'[m] # {}),
           Live(m)' /\ ~message'[m].text /\ rows'[m] = {}
              => \/ request'[r].step \in {"reread", "mark"}
                 \/ /\ Live(m) /\ ~message[m].text /\ rows[m] = {}
                    /\ request[r].step \notin {"reread", "mark"},
           Live(m)' /\ m \notin raced \union cut /\ ~Fits(m)'
              => request'[r].step \in {"reread", "mark", "type"},
           page' \in [Readers -> {None, "current", "stale"}],
           fill' \in [Readers -> {None, "current", "stale"}],
           UNCHANGED <<people, made, stored, batch, begun, missed, marks>>
    PROVE  MessagesIInv'
<1>1. /\ users' = users /\ open' = open /\ members' = members
      /\ made' = made /\ stored' = stored /\ missed' = missed
      /\ batch' = batch /\ begun' = begun /\ cut' = cut /\ raced' = raced
  BY DEF people, marks
<1>2. MessagesTypeOK'
  BY <1>1 DEF MessagesIInv, MessagesTypeOK
<1>3. \A s \in Requests : ~Free(s) /\ s # r /\ request[s].id = m => m \in raced
  BY ModelValuesAssumption DEF MessagesIInv, AloneOn
<1>4. m # None /\ request'[r].step \notin {"upload", "create", "cleanup", "write", "files", "rows"}
  BY ModelValuesAssumption DEF Owing
<1>5. RequestsRely'
  <2> SUFFICES ASSUME NEW s \in Requests, ~Free(s)' PROVE Relies(s)'
    BY DEF RequestsRely
  <2>1. \A l \in Ids : rows'[l] \subseteq rows[l] /\ (message[l] # None => message'[l] # None)
    OBVIOUS
  <2>2. CASE s = r
    <3>1. request[r].keys \subseteq made
      BY DEF MessagesIInv, RequestsRely, Relies
    <3> QED BY <1>1, <1>4, <2>2, <3>1 DEF Relies
  <2>3. CASE s # r
    <3>1. ~Free(s) /\ Relies(s) /\ request'[s] = request[s]
      BY <2>3 DEF MessagesIInv, RequestsRely, Others, Free
    <3>2. request[s].id \in Ids \union {None} /\ (request[s].id = m => m \in raced)
      BY <1>3, <2>3, <3>1, RequestFields DEF MessagesIInv
    <3>3. request[s].step = "upload" => \A l \in Ids : request[s].keys \intersect rows'[l] = {}
      BY <2>1, <3>1 DEF Relies
    <3>4. request[s].id # None => /\ message'[request[s].id] # None
                                  /\ rows'[request[s].id] \subseteq rows[request[s].id]
      BY <2>1, <3>1, <3>2 DEF Relies
    <3>5. request[s].step \in {"files", "rows", "mark"} => request[s].id # None
      BY <3>1 DEF Relies
    <3>6. request[s].step = "type" /\ request[s].id \notin raced /\ Live(request[s].id)'
            => request[s].type = Resolve(message'[request[s].id].text, rows'[request[s].id] # {})
      BY <3>1, <3>2 DEF Relies, Live, Row
    <3> QED BY <1>1, <3>1, <3>3, <3>4, <3>5, <3>6 DEF Relies
  <2> QED BY <2>2, <2>3
<1>6. UploadsApart' /\ AloneOn'
  BY <1>1, <1>4, StaysApart
<1>7. OnlyLiveHaveRows' /\ BatchIsDeleted'
  <2>1. OnlyLiveHaveRows'
    BY DEF MessagesIInv, OnlyLiveHaveRows, Live, Row
  <2>2. \A l \in batch : l \in Deleted' \/ (l \in Ids /\ message'[l] = Gone)
    BY DEF MessagesIInv, BatchIsDeleted, Deleted, Row
  <2> QED BY <1>1, <2>1, <2>2 DEF BatchIsDeleted
<1>8. r \in On(m)' /\ \A l \in Ids : \A s \in On(l) \ {r} : s \in On(l)' /\ request'[s] = request[s]
  BY DEF On, Others, Free
<1>9. \A l \in Ids \ {m} : r \notin On(l) /\ (Live(l)' <=> Live(l))
  BY DEF On, Live, Row
<1>10. EmptyAreHandled'
  <2> SUFFICES ASSUME NEW l \in Ids \ cut, Live(l)', ~message'[l].text, rows'[l] = {}
               PROVE  \E s \in On(l)' : request'[s].step \in {"reread", "mark"}
    BY <1>1 DEF EmptyAreHandled
  <2>1. CASE l = m
    BY <1>8, <2>1 DEF MessagesIInv, EmptyAreHandled
  <2>2. CASE l # m
    BY <1>8, <1>9, <2>2 DEF MessagesIInv, EmptyAreHandled
  <2> QED BY <2>1, <2>2
<1>11. TypesAreHandled'
  <2> SUFFICES ASSUME NEW l \in Ids \ (cut \union raced), Live(l)', ~Fits(l)'
               PROVE  \E s \in On(l)' : request'[s].step \in {"reread", "mark", "type"}
    BY <1>1 DEF TypesAreHandled
  <2>1. CASE l = m
    BY <1>8, <2>1
  <2>2. CASE l # m
    BY <1>8, <1>9, <2>2 DEF MessagesIInv, TypesAreHandled, Fits
  <2> QED BY <2>1, <2>2
<1>12. PagesAreHandled'
  BY DEF PagesAreHandled, Free
<1> QED BY <1>2, <1>5, <1>6, <1>7, <1>10, <1>11, <1>12 DEF MessagesIInv

\* A step that asks for a row of message m, and marks the pages read as stale.
LEMMA MessageOf ==
    ASSUME MessagesIInv, NEW r \in Requests, ~Free(r),
           request[r].step \notin {"upload", "create", "cleanup"}
    PROVE  request[r].id \in Ids /\ message[request[r].id] # None
BY RequestFields DEF MessagesIInv, RequestsRely, Relies

LEMMA UpdateContentKeeps ==
    ASSUME MessagesIInv, NEW r \in Requests, UpdateContent(r)
    PROVE  MessagesIInv'
<1>1. At(r, "write") /\ ~Free(r) /\ MessagesTypeOK
  BY DEF UpdateContent, At, MessagesIInv
<1>2. PICK m \in Ids : m = request[r].id
  BY <1>1, MessageOf DEF At
<1>3. PICK step \in {"type", "purge"} :
          /\ Row(m) /\ message' = [message EXCEPT ![m].text = TRUE]
          /\ step = IF rows[m] # {} /\ message[m].type = "FILE" THEN "type" ELSE "purge"
          /\ Goto(r, step)
  BY <1>2 DEF UpdateContent, SetText
<1>4. PICK w \in Message : w = message[m]
  BY <1>1, <1>3, MessageFields
<1> DEFINE n == [w EXCEPT !.text = TRUE]
<1>5. n \in Message /\ n.text = TRUE /\ n.deleted = w.deleted /\ n.type = w.type
  BY DEF Message
<1>6. message' = [message EXCEPT ![m] = n]
  BY <1>3, <1>4
<1> HIDE DEF n
<1>7. /\ message' \in [Ids -> Message \union {None, Gone}] /\ message'[m] = n
      /\ \A l \in Ids \ {m} : message'[l] = message[l]
      /\ n \notin {None, Gone}
  BY <1>1, <1>5, <1>6, ModelValuesAssumption DEF MessagesTypeOK
<1>8. step \in Steps /\ step \in Owing
  BY DEF Steps, Owing
<1>9. /\ request' \in [Requests -> RequestState \union {None}] /\ Others(r) /\ request'[r] # None
      /\ request'[r].id = m /\ request'[r].keys = request[r].keys
      /\ request'[r].type = request[r].type /\ request'[r].step = step
  BY <1>1, <1>2, <1>3, <1>8, GotoFields
<1>10. /\ rows' = rows /\ rows \in [Ids -> SUBSET made]
       /\ UNCHANGED <<people, made, stored, batch, begun, missed, marks>>
       /\ page' \in [Readers -> {None, "current", "stale"}]
       /\ fill' \in [Readers -> {None, "current", "stale"}]
  BY <1>1, StaleTypes DEF UpdateContent, MessagesTypeOK
<1>11. request[r].type = "MIXED"
  BY <1>1 DEF MessagesIInv, RequestsRely, Relies, At
<1>12. (Live(m)' <=> Live(m)) /\ (m \in Deleted => m \in Deleted') /\ message[m] # Gone
  BY <1>3, <1>4, <1>5, <1>7 DEF Live, Row, Deleted
<1>13. Live(m)' \/ rows'[m] = {}
  BY <1>10, <1>12 DEF MessagesIInv, OnlyLiveHaveRows
<1>14. step = "type" => request'[r].type = Resolve(message'[m].text, rows'[m] # {})
  BY <1>3, <1>5, <1>7, <1>9, <1>10, <1>11 DEF Resolve
<1>15. Live(m)' /\ m \notin raced \union cut /\ ~Fits(m)' => step = "type"
  <2> SUFFICES ASSUME Live(m), m \notin raced \union cut, step # "type"
               PROVE  Fits(m)'
    BY <1>12
  <2>1. Fits(m)
    <3>1. \A s \in On(m) : s = r
      BY <1>1, <1>2, ModelValuesAssumption DEF MessagesIInv, AloneOn, On
    <3> QED BY <1>1, <3>1 DEF MessagesIInv, TypesAreHandled, At
  <2> QED BY <1>3, <1>4, <1>5, <1>7, <1>10, <2>1 DEF Fits, Resolve
<1>16. /\ request'[r].step \in Owing /\ request'[r].step # "mark"
       /\ request'[r].step = "type"
            => request'[r].type = Resolve(message'[m].text, rows'[m] # {})
       /\ Live(m)' /\ m \notin raced \union cut /\ ~Fits(m)' => request'[r].step = "type"
  BY <1>8, <1>9, <1>14, <1>15
<1>17. /\ message'[m] # None /\ message'[m].text = TRUE
       /\ rows' \in [Ids -> SUBSET made] /\ rows'[m] \subseteq rows[m]
       /\ \A l \in Ids \ {m} : message'[l] = message[l] /\ rows'[l] = rows[l]
  BY <1>5, <1>7, <1>10
<1> QED BY <1>1, <1>2, <1>7, <1>9, <1>10, <1>12, <1>13, <1>16, <1>17, ShownStep

LEMMA UpdateTypeKeeps ==
    ASSUME MessagesIInv, NEW r \in Requests, UpdateType(r)
    PROVE  MessagesIInv'
<1>1. At(r, "type") /\ ~Free(r) /\ MessagesTypeOK
  BY DEF UpdateType, At, MessagesIInv
<1>2. PICK m \in Ids, type \in Types : m = request[r].id /\ type = request[r].type
  BY <1>1, MessageOf, RequestFields DEF At
<1>3. /\ Row(m) /\ message' = [message EXCEPT ![m].type = type]
      /\ Goto(r, "purge")
  BY <1>2 DEF UpdateType, SetType
<1>4. PICK w \in Message : w = message[m]
  BY <1>1, <1>3, MessageFields
<1> DEFINE n == [w EXCEPT !.type = type]
<1>5. n \in Message /\ n.text = w.text /\ n.deleted = w.deleted /\ n.type = type
  BY DEF Message, Types
<1>6. message' = [message EXCEPT ![m] = n]
  BY <1>3, <1>4
<1> HIDE DEF n
<1>7. /\ message' \in [Ids -> Message \union {None, Gone}] /\ message'[m] = n
      /\ \A l \in Ids \ {m} : message'[l] = message[l]
      /\ n \notin {None, Gone}
  BY <1>1, <1>5, <1>6, ModelValuesAssumption DEF MessagesTypeOK
<1>8. "purge" \in Steps /\ "purge" \in Owing
  BY DEF Steps, Owing
<1>9. /\ request' \in [Requests -> RequestState \union {None}] /\ Others(r) /\ request'[r] # None
      /\ request'[r].id = m /\ request'[r].keys = request[r].keys
      /\ request'[r].step = "purge"
  BY <1>1, <1>2, <1>3, <1>8, GotoFields
<1>10. /\ rows' = rows /\ rows \in [Ids -> SUBSET made]
       /\ UNCHANGED <<people, made, stored, batch, begun, missed, marks>>
       /\ page' \in [Readers -> {None, "current", "stale"}]
       /\ fill' \in [Readers -> {None, "current", "stale"}]
  BY <1>1, StaleTypes DEF UpdateType, MessagesTypeOK
<1>11. (Live(m)' <=> Live(m)) /\ (m \in Deleted => m \in Deleted') /\ message[m] # Gone
  BY <1>3, <1>4, <1>5, <1>7 DEF Live, Row, Deleted
<1>12. Live(m)' \/ rows'[m] = {}
  BY <1>10, <1>11 DEF MessagesIInv, OnlyLiveHaveRows
<1>13. Live(m)' /\ m \notin raced => Fits(m)'
  BY <1>1, <1>2, <1>4, <1>5, <1>7, <1>10, <1>11 DEF MessagesIInv, RequestsRely, Relies, At, Fits
<1>14. message'[m].text = message[m].text
  BY <1>4, <1>5, <1>7
<1>15. request[r].step = "type"
  BY <1>1 DEF At
<1> QED BY <1>1, <1>2, <1>7, <1>8, <1>9, <1>10, <1>11, <1>12, <1>13, <1>14, <1>15, ShownStep

LEMMA SoftDeleteKeeps ==
    ASSUME MessagesIInv, NEW r \in Requests, SoftDeleteMessage(r)
    PROVE  MessagesIInv'
<1>1. At(r, "mark") /\ ~Free(r) /\ MessagesTypeOK
  BY DEF SoftDeleteMessage, At, MessagesIInv
<1>2. PICK m \in Ids : m = request[r].id
  BY <1>1, MessageOf DEF At
<1>3. /\ Row(m) /\ message' = [message EXCEPT ![m].deleted = TRUE]
      /\ Goto(r, "purge")
  BY <1>2 DEF SoftDeleteMessage, MarkDeleted
<1>4. PICK w \in Message : w = message[m]
  BY <1>1, <1>3, MessageFields
<1> DEFINE n == [w EXCEPT !.deleted = TRUE]
<1>5. n \in Message /\ n.deleted = TRUE
  BY DEF Message
<1>6. message' = [message EXCEPT ![m] = n]
  BY <1>3, <1>4
<1> HIDE DEF n
<1>7. /\ message' \in [Ids -> Message \union {None, Gone}] /\ message'[m] = n
      /\ \A l \in Ids \ {m} : message'[l] = message[l]
      /\ n \notin {None, Gone}
  BY <1>1, <1>5, <1>6, ModelValuesAssumption DEF MessagesTypeOK
<1>8. "purge" \in Steps /\ "purge" \in Owing
  BY DEF Steps, Owing
<1>9. /\ request' \in [Requests -> RequestState \union {None}] /\ Others(r) /\ request'[r] # None
      /\ request'[r].id = m /\ request'[r].keys = request[r].keys
      /\ request'[r].step = "purge"
  BY <1>1, <1>2, <1>3, <1>8, GotoFields
<1>10. /\ rows' = rows /\ rows \in [Ids -> SUBSET made]
       /\ UNCHANGED <<people, made, stored, batch, begun, missed, marks>>
       /\ page' \in [Readers -> {None, "current", "stale"}]
       /\ fill' \in [Readers -> {None, "current", "stale"}]
  BY <1>1, StaleTypes DEF SoftDeleteMessage, MessagesTypeOK
<1>11. ~Live(m)' /\ m \in Deleted' /\ message[m] # Gone
  BY <1>3, <1>5, <1>7 DEF Live, Row, Deleted
<1>12. rows'[m] = {}
  BY <1>1, <1>2, <1>10 DEF MessagesIInv, RequestsRely, Relies, At
<1> QED BY <1>1, <1>2, <1>7, <1>8, <1>9, <1>10, <1>11, <1>12, ShownStep

LEMMA DeleteRowsKeeps ==
    ASSUME MessagesIInv, NEW r \in Requests, DeleteRows(r) \/ DeleteRow(r)
    PROVE  MessagesIInv'
<1>1. At(r, "rows") /\ ~Free(r) /\ MessagesTypeOK
  BY DEF DeleteRows, DeleteRow, At, MessagesIInv
<1>2. PICK m \in Ids : m = request[r].id
  BY <1>1, MessageOf DEF At
<1>3. PICK left \in SUBSET rows[m], step \in {"mark", "reread"} :
          /\ rows' = [rows EXCEPT ![m] = left] /\ (step = "mark" => left = {})
          /\ Goto(r, step)
  <2>1. CASE DeleteRows(r)
    BY <1>2, <2>1 DEF DeleteRows, DropAllFiles
  <2>2. CASE DeleteRow(r)
    <3>1. rows' = [rows EXCEPT ![m] = rows[m] \ request[r].keys] /\ Goto(r, "reread")
      BY <1>2, <2>2 DEF DeleteRow, DropFiles
    <3> QED BY <3>1
  <2> QED BY <2>1, <2>2
<1>4. /\ rows \in [Ids -> SUBSET made] /\ left \in SUBSET made
      /\ rows' \in [Ids -> SUBSET made] /\ rows'[m] = left
      /\ \A l \in Ids \ {m} : rows'[l] = rows[l]
  BY <1>1, <1>3 DEF MessagesTypeOK
<1>5. step \in Steps /\ step \in Owing
  BY DEF Steps, Owing
<1>6. /\ request' \in [Requests -> RequestState \union {None}] /\ Others(r) /\ request'[r] # None
      /\ request'[r].id = m /\ request'[r].keys = request[r].keys
      /\ request'[r].step = step
  BY <1>1, <1>2, <1>3, <1>5, GotoFields
<1>7. /\ message' = message /\ message \in [Ids -> Message \union {None, Gone}]
      /\ UNCHANGED <<people, made, stored, batch, begun, missed, marks>>
      /\ page' \in [Readers -> {None, "current", "stale"}]
      /\ fill' \in [Readers -> {None, "current", "stale"}]
  BY <1>1, StaleTypes DEF DeleteRows, DeleteRow, MessagesTypeOK
<1>8. (Live(m)' <=> Live(m)) /\ (m \in Deleted => m \in Deleted') /\ message'[m] # None
  BY <1>1, <1>2, <1>7, MessageOf DEF Live, Row, Deleted, At
<1>9. Live(m)' \/ rows'[m] = {}
  BY <1>4, <1>8 DEF MessagesIInv, OnlyLiveHaveRows
<1> QED BY <1>1, <1>2, <1>3, <1>4, <1>5, <1>6, <1>7, <1>8, <1>9, ShownStep

LEMMA RereadKeeps ==
    ASSUME MessagesIInv, NEW r \in Requests, Reread(r)
    PROVE  MessagesIInv'
<1>1. At(r, "reread") /\ ~Free(r) /\ MessagesTypeOK
  BY DEF Reread, At, MessagesIInv
<1>2. PICK m \in Ids, q \in RequestState : m = q.id /\ q = request[r] /\ message[m] # None
  BY <1>1, MessageOf, RequestFields DEF At
<1>3. PICK next \in Types : next = Resolve(message[m].text, rows[m] # {})
  BY DEF Resolve, Types
<1>4. PICK step \in {"purge", "mark", "type"}, type \in Types :
          /\ step = IF ~Row(m) THEN "purge"
                    ELSE IF ~message[m].text /\ rows[m] = {} THEN "mark"
                    ELSE IF message[m].type # next THEN "type" ELSE "purge"
          /\ type = IF Row(m) THEN next ELSE q.type
          /\ request' = [request EXCEPT ![r] = [q EXCEPT !.step = step, !.type = type]]
  <2> DEFINE step == IF ~Row(m) THEN "purge"
                     ELSE IF ~message[m].text /\ rows[m] = {} THEN "mark"
                     ELSE IF message[m].type # next THEN "type" ELSE "purge"
             type == IF Row(m) THEN next ELSE q.type
  <2>1. q.type \in Types
    BY <1>1, <1>2, RequestFields
  <2>2. step \in {"purge", "mark", "type"} /\ type \in Types
    BY <2>1
  <2>3. request' = [request EXCEPT ![r] = [q EXCEPT !.step = step, !.type = type]]
    BY <1>2, <1>3 DEF Reread, LeftOf
  <2> QED BY <2>2, <2>3
<1> DEFINE n == [q EXCEPT !.step = step, !.type = type]
<1>5. n \in RequestState
  BY DEF RequestState, Types
<1>6. n.id = q.id /\ n.keys = q.keys /\ n.step = step /\ n.type = type
  BY DEF RequestState
<1>7. request' = [request EXCEPT ![r] = n]
  BY <1>4
<1> HIDE DEF n
<1>8. /\ request' \in [Requests -> RequestState \union {None}] /\ Others(r) /\ request'[r] # None
      /\ request'[r].id = m /\ request'[r].keys = request[r].keys
      /\ request'[r].step = step /\ request'[r].type = type /\ step \in Owing
  BY <1>1, <1>2, <1>5, <1>6, <1>7, ModelValuesAssumption DEF MessagesTypeOK, Others, Owing
<1>9. /\ message' = message /\ rows' = rows /\ page' = page /\ fill' = fill
      /\ UNCHANGED <<people, made, stored, batch, begun, missed, marks>>
  BY DEF Reread, people, caches
<1>10. /\ message \in [Ids -> Message \union {None, Gone}] /\ rows \in [Ids -> SUBSET made]
       /\ page \in [Readers -> {None, "current", "stale"}]
       /\ fill \in [Readers -> {None, "current", "stale"}]
  BY <1>1 DEF MessagesTypeOK
<1>11. (Live(m)' <=> Live(m)) /\ (m \in Deleted => m \in Deleted') /\ (Fits(m)' <=> Fits(m))
  BY <1>9 DEF Live, Row, Deleted, Fits
<1>12. Live(m) \/ rows[m] = {}
  BY DEF MessagesIInv, OnlyLiveHaveRows
<1>13. step = "mark" => rows[m] = {}
  BY <1>4
<1>14. step = "type" => type = Resolve(message[m].text, rows[m] # {})
  BY <1>3, <1>4
<1>15. Live(m) /\ ~message[m].text /\ rows[m] = {} => step = "mark"
  BY <1>4 DEF Live
<1>16. Live(m) /\ ~Fits(m) => step \in {"mark", "type"}
  BY <1>3, <1>4 DEF Live, Fits
<1> QED BY <1>1, <1>2, <1>8, <1>9, <1>10, <1>11, <1>12, <1>13, <1>14, <1>15, <1>16, ShownStep

LEMMA PurgeKeeps ==
    ASSUME MessagesIInv, NEW r \in Requests, Purge(r)
    PROVE  MessagesIInv'
<1>1. At(r, "purge") /\ ~Free(r) /\ MessagesTypeOK /\ End(r)
  BY DEF Purge, At, MessagesIInv
<1>2. request' \in [Requests -> RequestState \union {None}] /\ Others(r) /\ request'[r] = None
  BY <1>1, EndFields
<1>3. /\ users' = users /\ open' = open /\ members' = members
      /\ message' = message /\ rows' = rows /\ made' = made
      /\ stored' = stored /\ fill' = fill /\ batch' = batch /\ begun' = begun
      /\ cut' = cut /\ raced' = raced
      /\ page' = [u \in Readers |-> None] /\ missed' = Missing
  BY DEF Purge, people, marks
<1>4. MessagesTypeOK'
  BY <1>1, <1>2, <1>3 DEF MessagesTypeOK, Missing
<1>5. RequestsRely'
  <2> SUFFICES ASSUME NEW s \in Requests, ~Free(s)' PROVE Relies(s)'
    BY DEF RequestsRely
  <2>1. ~Free(s) /\ Relies(s) /\ request'[s] = request[s]
    BY <1>2 DEF MessagesIInv, RequestsRely, Others, Free
  <2> QED BY <1>3, <2>1 DEF Relies, Live, Row
<1>6. UploadsApart' /\ AloneOn'
  BY <1>1, <1>2, <1>3, StaysApart
<1>7. OnlyLiveHaveRows' /\ BatchIsDeleted'
  BY <1>3 DEF MessagesIInv, OnlyLiveHaveRows, BatchIsDeleted, Deleted, Live, Row
<1>8. EmptyAreHandled' /\ TypesAreHandled'
  BY <1>1, <1>2, <1>3
     DEF MessagesIInv, EmptyAreHandled, TypesAreHandled, On, At, Free, Live, Row, Others, Fits
<1>9. PagesAreHandled'
  BY <1>3, ModelValuesAssumption DEF PagesAreHandled, Missing
<1> QED BY <1>4, <1>5, <1>6, <1>7, <1>8, <1>9 DEF MessagesIInv

LEMMA FailsKeeps ==
    ASSUME MessagesIInv, NEW r \in Requests, Fails(r)
    PROVE  MessagesIInv'
<1>1. ~Free(r) /\ MessagesTypeOK /\ End(r)
  BY DEF Fails, MessagesIInv
<1>2. request' \in [Requests -> RequestState \union {None}] /\ Others(r) /\ request'[r] = None
  BY <1>1, EndFields
<1>3. /\ users' = users /\ open' = open /\ members' = members
      /\ message' = message /\ rows' = rows /\ made' = made
      /\ stored' = stored /\ fill' = fill /\ batch' = batch /\ begun' = begun
      /\ raced' = raced /\ page' = page /\ cut' = cut \union ({request[r].id} \ {None})
      /\ missed' = IF request[r].step \in Owing
                   THEN missed \union {u \in Readers : page[u] # None \/ fill[u] # None}
                   ELSE missed
  BY DEF Fails, people
<1>4. MessagesTypeOK'
  <2>1. request[r].id \in Ids \union {None}
    BY <1>1, RequestFields
  <2> QED BY <1>1, <1>2, <1>3, <2>1 DEF MessagesTypeOK
<1>5. RequestsRely'
  <2> SUFFICES ASSUME NEW s \in Requests, ~Free(s)' PROVE Relies(s)'
    BY DEF RequestsRely
  <2>1. ~Free(s) /\ Relies(s) /\ request'[s] = request[s]
    BY <1>2 DEF MessagesIInv, RequestsRely, Others, Free
  <2> QED BY <1>3, <2>1 DEF Relies, Live, Row
<1>6. UploadsApart' /\ AloneOn'
  BY <1>1, <1>2, <1>3, StaysApart
<1>7. OnlyLiveHaveRows' /\ BatchIsDeleted'
  BY <1>3 DEF MessagesIInv, OnlyLiveHaveRows, BatchIsDeleted, Deleted, Live, Row
<1>8. \A m \in Ids \ cut' : /\ m \in Ids \ cut /\ On(m)' = On(m)
                             /\ \A s \in On(m) : request'[s] = request[s]
  BY <1>1, <1>2, <1>3, ModelValuesAssumption DEF On, Free, Others
<1>9. EmptyAreHandled' /\ TypesAreHandled'
  BY <1>3, <1>8 DEF MessagesIInv, EmptyAreHandled, TypesAreHandled, Live, Row, Fits
<1>10. PagesAreHandled'
  BY <1>1, <1>2, <1>3, ModelValuesAssumption DEF MessagesIInv, PagesAreHandled, Free, Others
<1> QED BY <1>4, <1>5, <1>6, <1>7, <1>9, <1>10 DEF MessagesIInv

-----------------------------------------------------------------------------
(* Readers and jobs *)

\* Steps of nobody's request that take nothing from the rows or the messages.
LEMMA RequestsStay ==
    ASSUME MessagesIInv, request' = request, rows' = rows, made' = made, stored' \subseteq stored,
           message' = message, UNCHANGED marks
    PROVE  /\ RequestsRely' /\ UploadsApart' /\ AloneOn' /\ OnlyLiveHaveRows'
           /\ EmptyAreHandled' /\ TypesAreHandled'
<1>1. cut' = cut /\ raced' = raced
  BY DEF marks
<1>2. RequestsRely'
  BY <1>1 DEF MessagesIInv, RequestsRely, Relies, Free, Live, Row
<1>3. UploadsApart' /\ AloneOn' /\ OnlyLiveHaveRows'
  BY <1>1 DEF MessagesIInv, UploadsApart, AloneOn, OnlyLiveHaveRows, At, Free, Live, Row
<1>4. EmptyAreHandled' /\ TypesAreHandled'
  BY <1>1 DEF MessagesIInv, EmptyAreHandled, TypesAreHandled, On, Free, Live, Row, Fits
<1> QED BY <1>2, <1>3, <1>4

LEMMA PagesKeep ==
    ASSUME MessagesIInv, NEW u \in Readers, Pages(u)
    PROVE  MessagesIInv'
<1>1. /\ users' = users /\ open' = open /\ members' = members
      /\ message' = message /\ rows' = rows /\ made' = made
      /\ stored' = stored /\ batch' = batch /\ begun' = begun /\ request' = request
      /\ UNCHANGED marks /\ raced' = raced /\ cut' = cut
  BY DEF Pages, ReadPage, WritePage, ExpirePage, people, marks
<1>2. MessagesTypeOK' /\ PagesAreHandled'
  <2>1. MessagesTypeOK /\ PagesAreHandled
    BY DEF MessagesIInv
  <2>2. CASE ReadPage(u)
    <3>1. page' = page /\ missed' = missed /\ fill' = [fill EXCEPT ![u] = "current"]
      BY <2>2 DEF ReadPage
    <3>2. MessagesTypeOK'
      BY <1>1, <2>1, <3>1 DEF MessagesTypeOK
    <3>3. \A v \in Readers : fill'[v] = fill[v] \/ fill'[v] = "current"
      BY <2>1, <3>1 DEF MessagesTypeOK
    <3> QED BY <1>1, <2>1, <3>1, <3>2, <3>3 DEF PagesAreHandled, Free
  <2>3. CASE WritePage(u)
    <3>1. /\ missed' = missed /\ fill' = [fill EXCEPT ![u] = None]
          /\ page' = [page EXCEPT ![u] = fill[u]]
      BY <2>3 DEF WritePage
    <3>2. MessagesTypeOK'
      BY <1>1, <2>1, <3>1 DEF MessagesTypeOK
    <3>3. \A v \in Readers : "stale" \in {page'[v], fill'[v]} => "stale" \in {page[v], fill[v]}
      BY <2>1, <3>1, ModelValuesAssumption DEF MessagesTypeOK
    <3> QED BY <1>1, <2>1, <3>1, <3>2, <3>3 DEF PagesAreHandled, Free
  <2>4. CASE ExpirePage(u)
    <3>1. /\ missed' = IF fill[u] = None THEN missed \ {u} ELSE missed
          /\ page' = [page EXCEPT ![u] = None] /\ fill' = fill
      BY <2>4 DEF ExpirePage
    <3>2. MessagesTypeOK'
      BY <1>1, <2>1, <3>1 DEF MessagesTypeOK
    <3>3. \A v \in Readers \ missed' : "stale" \in {page'[v], fill'[v]} =>
              "stale" \in {page[v], fill[v]} /\ v \notin missed
      BY <2>1, <3>1, ModelValuesAssumption DEF MessagesTypeOK
    <3> QED BY <1>1, <2>1, <3>2, <3>3 DEF PagesAreHandled, Free
  <2> QED BY <2>2, <2>3, <2>4 DEF Pages
<1>3. BatchIsDeleted'
  BY <1>1 DEF MessagesIInv, BatchIsDeleted, Deleted, Row
<1> QED BY <1>1, <1>2, <1>3, RequestsStay DEF MessagesIInv

LEMMA ChangeMembersKeeps ==
    ASSUME MessagesIInv, NEW u \in Readers, ChangeMembers(u)
    PROVE  MessagesIInv'
<1>1. /\ message' = message /\ rows' = rows /\ made' = made
      /\ stored' = stored /\ batch' = batch /\ begun' = begun /\ request' = request
      /\ page' = page /\ fill' = fill /\ missed' = missed
      /\ UNCHANGED marks /\ raced' = raced /\ cut' = cut
  BY DEF ChangeMembers, people, marks, caches
<1>2. users' = users /\ open' = open /\ members' \in SUBSET Users
  BY SetsAssumption DEF ChangeMembers, MessagesIInv, MessagesTypeOK
<1>3. MessagesTypeOK'
  BY <1>1, <1>2 DEF MessagesIInv, MessagesTypeOK
<1>4. BatchIsDeleted' /\ PagesAreHandled'
  BY <1>1 DEF MessagesIInv, BatchIsDeleted, Deleted, Row, PagesAreHandled, Free
<1> QED BY <1>1, <1>3, <1>4, RequestsStay DEF MessagesIInv

LEMMA SelectDeletedKeeps ==
    ASSUME MessagesIInv, SelectDeleted
    PROVE  MessagesIInv'
<1>1. /\ message' = message /\ rows' = rows /\ made' = made
      /\ users' = users /\ open' = open /\ members' = members
      /\ stored' = stored /\ begun' = begun /\ request' = request
      /\ page' = page /\ fill' = fill /\ missed' = missed
      /\ UNCHANGED marks /\ raced' = raced /\ cut' = cut
  BY DEF SelectDeleted, people, marks, caches
<1>2. batch' \subseteq Deleted /\ Deleted \subseteq Ids
  BY DEF SelectDeleted, Deleted
<1>3. MessagesTypeOK'
  BY <1>1, <1>2 DEF MessagesIInv, MessagesTypeOK
<1>4. BatchIsDeleted' /\ PagesAreHandled'
  BY <1>1, <1>2 DEF MessagesIInv, BatchIsDeleted, Deleted, Row, PagesAreHandled, Free
<1> QED BY <1>1, <1>3, <1>4, RequestsStay DEF MessagesIInv

LEMMA RemoveDeletedKeeps ==
    ASSUME MessagesIInv, RemoveDeleted
    PROVE  MessagesIInv'
<1>1. /\ made' = made /\ users' = users /\ open' = open /\ members' = members
      /\ stored' = stored /\ begun' = begun /\ request' = request
      /\ page' = page /\ fill' = fill /\ missed' = missed
      /\ raced' = raced /\ cut' = cut /\ batch' = {}
  BY DEF RemoveDeleted, people, marks, caches
<1>2. MessagesTypeOK /\ \A m \in batch : ~Live(m) /\ rows[m] = {}
  BY DEF MessagesIInv, BatchIsDeleted, Deleted, OnlyLiveHaveRows, Live, Row
<1>3. rows' = rows
  <2>1. rows' = [m \in Ids |-> IF m \in batch THEN {} ELSE rows[m]]
    BY DEF RemoveDeleted
  <2>2. rows \in [Ids -> SUBSET made]
    BY <1>2 DEF MessagesTypeOK
  <2> QED BY <1>2, <2>1, <2>2
<1>4. /\ message' \in [Ids -> Message \union {None, Gone}]
      /\ \A m \in Ids : message'[m] = message[m] \/ (~Live(m) /\ message'[m] = Gone)
  BY <1>2 DEF RemoveDeleted, MessagesTypeOK
<1>5. MessagesTypeOK'
  BY <1>1, <1>2, <1>3, <1>4 DEF MessagesTypeOK
<1>6. \A m \in Ids : /\ Live(m)' <=> Live(m)
                     /\ Live(m) => message'[m] = message[m]
                     /\ message[m] # None => message'[m] # None
  BY <1>4, ModelValuesAssumption DEF Live, Row
<1>7. RequestsRely'
  <2> SUFFICES ASSUME NEW s \in Requests, ~Free(s)' PROVE Relies(s)'
    BY DEF RequestsRely
  <2>1. ~Free(s) /\ Relies(s)
    BY <1>1 DEF MessagesIInv, RequestsRely, Free
  <2>2. request[s].id \in Ids \union {None}
    BY <2>1, RequestFields DEF MessagesIInv
  <2>3. request[s].step = "type" => request[s].id # None
    BY <2>1 DEF Relies
  <2> QED BY <1>1, <1>3, <1>6, <2>1, <2>2, <2>3 DEF Relies
<1>8. UploadsApart' /\ AloneOn'
  BY <1>1 DEF MessagesIInv, UploadsApart, AloneOn, At, Free
<1>9. OnlyLiveHaveRows' /\ BatchIsDeleted'
  BY <1>1, <1>3, <1>6 DEF MessagesIInv, OnlyLiveHaveRows, BatchIsDeleted
<1>10. EmptyAreHandled' /\ TypesAreHandled'
  BY <1>1, <1>3, <1>6 DEF MessagesIInv, EmptyAreHandled, TypesAreHandled, On, Free, Fits
<1>11. PagesAreHandled'
  BY <1>1 DEF MessagesIInv, PagesAreHandled, Free
<1> QED BY <1>5, <1>7, <1>8, <1>9, <1>10, <1>11 DEF MessagesIInv

LEMMA SweepOrphansKeeps ==
    ASSUME MessagesIInv, SweepOrphans
    PROVE  MessagesIInv'
<1>1. /\ message' = message /\ rows' = rows /\ made' = made
      /\ users' = users /\ open' = open /\ members' = members
      /\ begun' = begun /\ request' = request /\ batch' = batch
      /\ page' = page /\ fill' = fill /\ missed' = missed
      /\ UNCHANGED marks /\ raced' = raced /\ cut' = cut
  BY DEF SweepOrphans, people, marks, caches
<1>2. stored' \subseteq stored
  BY DEF SweepOrphans
<1>3. MessagesTypeOK'
  BY <1>1, <1>2 DEF MessagesIInv, MessagesTypeOK
<1>4. BatchIsDeleted' /\ PagesAreHandled'
  BY <1>1 DEF MessagesIInv, BatchIsDeleted, Deleted, Row, PagesAreHandled, Free
<1> QED BY <1>1, <1>2, <1>3, <1>4, RequestsStay DEF MessagesIInv

\* What a removed account or a purged post takes along needs nobody to look
\* after it; what stays is as it was, and the pages count as missed.
LEMMA RemovalKeeps ==
    ASSUME MessagesIInv, RemoveChat \/ \E u \in Users : RemoveUser(u)
    PROVE  MessagesIInv'
<1>1. PICK ms \in SUBSET Ids : TakeMessages(ms) /\ \A m \in ms : Row(m)
  <2>1. ASSUME NEW u \in Users, RemoveUser(u) PROVE \E ms \in SUBSET Ids :
            TakeMessages(ms) /\ \A m \in ms : Row(m)
    BY <2>1 DEF RemoveUser
  <2>2. ASSUME RemoveChat PROVE \E ms \in SUBSET Ids :
            TakeMessages(ms) /\ \A m \in ms : Row(m)
    BY <2>2 DEF RemoveChat
  <2> QED BY <2>1, <2>2
<1>2. /\ made' = made /\ stored' = stored /\ batch' = batch /\ begun' = begun
      /\ request' = request /\ cut' = cut /\ raced' = raced
      /\ missed' = missed \union {u \in Readers : page[u] # None \/ fill[u] # None}
      /\ Stale
  BY <1>1 DEF TakeMessages, marks
<1>3. MessagesTypeOK
  BY DEF MessagesIInv
<1>4. \A m \in Ids : /\ message'[m] = IF m \in ms THEN Gone ELSE message[m]
                     /\ rows'[m] = IF m \in ms THEN {} ELSE rows[m]
  BY <1>1 DEF TakeMessages
<1>5. MessagesTypeOK'
  <2>1. users' \in SUBSET Users /\ open' \in BOOLEAN /\ members' \in SUBSET Users
    BY <1>3 DEF RemoveChat, RemoveUser, MessagesTypeOK
  <2>2. /\ message' \in [Ids -> Message \union {None, Gone}]
        /\ rows' \in [Ids -> SUBSET made]
    BY <1>1, <1>3 DEF TakeMessages, MessagesTypeOK
  <2> QED BY <1>2, <1>3, <2>1, <2>2, StaleTypes DEF MessagesTypeOK
<1>6. \A m \in Ids : /\ Live(m)' => Live(m) /\ message'[m] = message[m] /\ rows'[m] = rows[m]
                     /\ rows'[m] \subseteq rows[m]
                     /\ message[m] # None => message'[m] # None
  BY <1>4, ModelValuesAssumption DEF Live, Row
<1>7. RequestsRely'
  <2> SUFFICES ASSUME NEW s \in Requests, ~Free(s)' PROVE Relies(s)'
    BY DEF RequestsRely
  <2>1. ~Free(s) /\ Relies(s)
    BY <1>2 DEF MessagesIInv, RequestsRely, Free
  <2>2. request[s].id \in Ids \union {None}
    BY <1>3, <2>1, RequestFields
  <2>3. request[s].step \in {"files", "rows", "mark", "type"} => request[s].id \in Ids
    BY <2>1, <2>2 DEF Relies
  <2> QED BY <1>2, <1>6, <2>1, <2>2, <2>3 DEF Relies
<1>8. UploadsApart' /\ AloneOn'
  BY <1>2 DEF MessagesIInv, UploadsApart, AloneOn, At, Free
<1>9. OnlyLiveHaveRows' /\ BatchIsDeleted'
  <2>1. \A m \in Ids : Live(m)' \/ rows'[m] = {}
    BY <1>4 DEF MessagesIInv, OnlyLiveHaveRows, Live, Row
  <2>2. \A m \in batch : m \in Ids /\ (m \in Deleted' \/ message'[m] = Gone)
    BY <1>4 DEF MessagesIInv, BatchIsDeleted, Deleted, Row
  <2> QED BY <1>2, <2>1, <2>2 DEF OnlyLiveHaveRows, BatchIsDeleted
<1>10. EmptyAreHandled' /\ TypesAreHandled'
  BY <1>2, <1>6 DEF MessagesIInv, EmptyAreHandled, TypesAreHandled, On, Free, Fits
<1>11. PagesAreHandled'
  BY <1>2, ModelValuesAssumption DEF PagesAreHandled, Stale
<1> QED BY <1>5, <1>7, <1>8, <1>9, <1>10, <1>11 DEF MessagesIInv

-----------------------------------------------------------------------------
(* Theorems *)

LEMMA MessagesIInvInit == MessagesInit => MessagesIInv
<1> SUFFICES ASSUME MessagesInit PROVE MessagesIInv
  OBVIOUS
<1>1. MessagesTypeOK
  BY BatchAssumption DEF MessagesInit, MessagesTypeOK
<1>2. \A r \in Requests : Free(r)
  BY DEF MessagesInit, Free
<1>3. RequestsRely /\ UploadsApart /\ AloneOn
  BY <1>2 DEF RequestsRely, UploadsApart, AloneOn, At
<1>4. OnlyLiveHaveRows /\ BatchIsDeleted
  BY DEF MessagesInit, OnlyLiveHaveRows, BatchIsDeleted
<1>5. EmptyAreHandled /\ TypesAreHandled
  BY DEF MessagesInit, EmptyAreHandled, TypesAreHandled, Live, Row
<1>6. PagesAreHandled
  BY ModelValuesAssumption DEF MessagesInit, PagesAreHandled
<1> QED BY <1>1, <1>3, <1>4, <1>5, <1>6 DEF MessagesIInv

LEMMA ProceedKeeps ==
    ASSUME MessagesIInv, NEW r \in Requests, Proceed(r)
    PROVE  MessagesIInv'
<1>1. CASE Upload(r) \/ CreateFails(r) \/ CleanUp(r)
  BY <1>1, UploadKeeps, CreateFailsKeeps, CleanUpKeeps
<1>2. CASE \E m \in Ids : Create(r, m)
  BY <1>2, CreateKeeps
<1>3. CASE UpdateContent(r) \/ UpdateType(r)
  BY <1>3, UpdateContentKeeps, UpdateTypeKeeps
<1>4. CASE DeleteStored(r) \/ DeleteStoredFails(r) \/ DeleteRows(r) \/ DeleteRow(r)
  BY <1>4, DeleteStoredKeeps, DeleteStoredFailsKeeps, DeleteRowsKeeps
<1>5. CASE Reread(r) \/ SoftDeleteMessage(r)
  BY <1>5, RereadKeeps, SoftDeleteKeeps
<1>6. CASE Purge(r) \/ Fails(r)
  BY <1>6, PurgeKeeps, FailsKeeps
<1> QED BY <1>1, <1>2, <1>3, <1>4, <1>5, <1>6 DEF Proceed

LEMMA AskKeeps ==
    ASSUME MessagesIInv, NEW r \in Requests, NEW u \in Users, Ask(r, u) \/ AskBySocket(r, u)
    PROVE  MessagesIInv'
<1>1. CASE \E text \in BOOLEAN, keys \in SUBSET Files : Send(r, u, text, keys)
  BY <1>1, SendKeeps
<1>2. CASE Send(r, u, TRUE, {})
  <2>1. TRUE \in BOOLEAN /\ {} \in SUBSET Files
    OBVIOUS
  <2> QED BY <1>2, <2>1, SendKeeps
<1>3. CASE \E m \in Ids : Edit(r, u, m) \/ DeleteMessage(r, u, m)
  BY <1>3, EditKeeps, DeleteMessageKeeps
<1>4. CASE \E m \in Ids, f \in Files : DeleteFile(r, u, m, f)
  BY <1>4, DeleteFileKeeps
<1> QED BY <1>1, <1>2, <1>3, <1>4 DEF Ask, AskBySocket

\* Every step keeps the invariant.
LEMMA MessagesIInvStep == MessagesIInv /\ [MessagesNext]_messagesVars => MessagesIInv'
<1> SUFFICES ASSUME MessagesIInv, [MessagesNext]_messagesVars PROVE MessagesIInv'
  OBVIOUS
<1>1. CASE \E r \in Requests : Proceed(r)
  BY <1>1, ProceedKeeps
<1>2. CASE \E r \in Requests, u \in Users : Ask(r, u) \/ AskBySocket(r, u)
  BY <1>2, AskKeeps
<1>3. CASE \E u \in Readers : Pages(u) \/ ChangeMembers(u)
  BY <1>3, PagesKeep, ChangeMembersKeeps
<1>4. CASE SelectDeleted \/ RemoveDeleted \/ SweepOrphans
  BY <1>4, SelectDeletedKeeps, RemoveDeletedKeeps, SweepOrphansKeeps
<1>5. CASE RemoveChat \/ \E u \in Users : RemoveUser(u)
  BY <1>5, RemovalKeeps
<1>6. CASE UNCHANGED messagesVars
  <2>1. /\ request' = request /\ rows' = rows /\ made' = made /\ stored' = stored
        /\ message' = message /\ UNCHANGED marks /\ cut' = cut /\ raced' = raced
        /\ page' = page /\ fill' = fill /\ missed' = missed
        /\ users' = users /\ open' = open /\ members' = members
        /\ batch' = batch /\ begun' = begun
    BY <1>6 DEF messagesVars, marks
  <2>2. MessagesTypeOK' /\ BatchIsDeleted' /\ PagesAreHandled'
    BY <2>1 DEF MessagesIInv, MessagesTypeOK, BatchIsDeleted, Deleted, Row, PagesAreHandled, Free
  <2> QED BY <2>1, <2>2, RequestsStay DEF MessagesIInv
<1> QED BY <1>1, <1>2, <1>3, <1>4, <1>5, <1>6 DEF MessagesNext

(***************************************************************************)
(* What running requests rely on and who looks after a message or a page   *)
(* that is out of step, in every reachable state: MessageService keeps it  *)
(* statement by statement, with the storage in between.                    *)
(***************************************************************************)
THEOREM MessagesInvariance == MessagesSpec => []MessagesIInv
BY MessagesIInvInit, MessagesIInvStep, PTL DEF MessagesSpec

LEMMA InvIsKept == MessagesIInv => MessagesAreKept
<1> SUFFICES ASSUME MessagesIInv PROVE MessagesAreKept
  OBVIOUS
<1>1. MessagesTypeOK
  BY DEF MessagesIInv
<1>2. ShowsWhatItHas
  <2> SUFFICES ASSUME NEW m \in Ids, Live(m), On(m) = {}, m \notin cut
               PROVE  /\ message[m].text \/ rows[m] # {}
                      /\ m \in raced \/ Fits(m)
    BY DEF ShowsWhatItHas, Fits
  <2>1. message[m].text \/ rows[m] # {}
    BY DEF MessagesIInv, EmptyAreHandled
  <2>2. m \in raced \/ Fits(m)
    BY DEF MessagesIInv, TypesAreHandled
  <2> QED BY <2>1, <2>2
<1>3. PagesAreCurrent
  BY DEF MessagesIInv, PagesAreHandled, PagesAreCurrent
<1> QED BY <1>1, <1>2, <1>3 DEF MessagesAreKept

(***************************************************************************)
(* Whatever requests overlap and wherever they stop, a message that is     *)
(* shown has a text or a file, its type fits it unless requests raced on   *)
(* it, and a cached page that misses a change of editMessage, deleteMessage*)
(* or deleteFile is deleted by the request that made it.                   *)
(***************************************************************************)
THEOREM MessagesKept == MessagesSpec => []MessagesAreKept
BY MessagesInvariance, InvIsKept, PTL

\* What leaves the rows of a message has left the storage, or goes with it.
LEMMA RowsStep ==
    ASSUME MessagesIInv, [MessagesNext]_messagesVars, NEW m \in Ids
    PROVE  TakenAlong(m) \/ (rows[m] \ rows'[m]) \intersect stored = {}
<1>1. rows \in [Ids -> SUBSET made] /\ message \in [Ids -> Message \union {None, Gone}]
  BY DEF MessagesIInv, MessagesTypeOK
<1>2. CASE rows' = rows
  BY <1>2
<1>3. CASE \E r \in Requests, l \in Ids : Create(r, l)
  <2>1. PICK r \in Requests, l \in Ids :
            message[l] = None /\ rows' = [rows EXCEPT ![l] = request[r].keys]
    BY <1>3 DEF Create, Insert
  <2>2. rows[l] = {}
    BY <2>1, ModelValuesAssumption DEF MessagesIInv, OnlyLiveHaveRows, Live, Row
  <2> QED BY <1>1, <2>1, <2>2
<1>4. CASE \E r \in Requests : DeleteRows(r) \/ DeleteRow(r)
  <2>1. PICK r \in Requests : DeleteRows(r) \/ DeleteRow(r)
    BY <1>4
  <2>2. ~Free(r) /\ request[r].step = "rows" /\ request[r].id \in Ids
    BY <2>1, MessageOf DEF DeleteRows, DeleteRow, At
  <2>3. rows[request[r].id] \ rows'[request[r].id] \subseteq request[r].keys
    <3>1. CASE DeleteRows(r)
      BY <2>2, <3>1 DEF DeleteRows, At, MessagesIInv, RequestsRely, Relies
    <3>2. CASE DeleteRow(r)
      BY <1>1, <2>2, <3>2 DEF DeleteRow, DropFiles
    <3> QED BY <2>1, <3>1, <3>2
  <2>4. m # request[r].id => rows'[m] = rows[m]
    BY <1>1, <2>1 DEF DeleteRows, DropAllFiles, DeleteRow, DropFiles
  <2>5. request[r].keys \intersect stored = {}
    BY <2>2 DEF MessagesIInv, RequestsRely, Relies
  <2> QED BY <2>3, <2>4, <2>5
<1>5. CASE RemoveDeleted
  <2>1. m \in batch => rows[m] = {}
    BY DEF MessagesIInv, BatchIsDeleted, Deleted, OnlyLiveHaveRows, Live, Row
  <2> QED BY <1>1, <1>5, <2>1 DEF RemoveDeleted
<1>6. CASE RemoveChat \/ \E u \in Users : RemoveUser(u)
  <2>1. ASSUME RemoveChat PROVE TakenAlong(m) \/ rows'[m] = rows[m]
    BY <1>1, <2>1 DEF RemoveChat, TakeMessages, TakenAlong
  <2>2. ASSUME NEW u \in Users, RemoveUser(u) PROVE TakenAlong(m) \/ rows'[m] = rows[m]
    BY <1>1, <2>2 DEF RemoveUser, TakeMessages, TakenAlong
  <2> QED BY <1>6, <2>1, <2>2
<1>7. \/ rows' = rows
      \/ \E r \in Requests, l \in Ids : Create(r, l)
      \/ \E r \in Requests : DeleteRows(r) \/ DeleteRow(r)
      \/ RemoveDeleted
      \/ RemoveChat
      \/ \E u \in Users : RemoveUser(u)
  <2>1. CASE \E r \in Requests : Proceed(r)
    BY <2>1 DEF Proceed, Upload, CreateFails, CleanUp, UpdateContent, UpdateType, DeleteStored,
                DeleteStoredFails, Reread, SoftDeleteMessage, Purge, Fails
  <2>2. CASE \E r \in Requests, u \in Users : Ask(r, u) \/ AskBySocket(r, u)
    <3>1. ASSUME NEW r \in Requests, NEW u \in Users, NEW text \in BOOLEAN,
                 NEW keys \in SUBSET Files, Send(r, u, text, keys)
          PROVE  rows' = rows
      BY <3>1 DEF Send
    <3>2. ASSUME NEW r \in Requests, NEW u \in Users, NEW l \in Ids,
                 \/ Edit(r, u, l) \/ DeleteMessage(r, u, l)
                 \/ \E f \in Files : DeleteFile(r, u, l, f)
          PROVE  rows' = rows
      BY <3>2 DEF Edit, DeleteMessage, DeleteFile
    <3>3. {} \in SUBSET Files /\ TRUE \in BOOLEAN
      OBVIOUS
    <3> QED BY <2>2, <3>1, <3>2, <3>3 DEF Ask, AskBySocket
  <2>3. CASE \E u \in Readers : Pages(u) \/ ChangeMembers(u)
    BY <2>3 DEF Pages, ReadPage, WritePage, ExpirePage, ChangeMembers
  <2>4. CASE SelectDeleted \/ RemoveDeleted \/ SweepOrphans
    BY <2>4 DEF SelectDeleted, SweepOrphans
  <2>5. CASE UNCHANGED messagesVars
    BY <2>5 DEF messagesVars
  <2> QED BY <2>1, <2>2, <2>3, <2>4, <2>5 DEF MessagesNext
<1> QED BY <1>2, <1>3, <1>4, <1>5, <1>6, <1>7

(***************************************************************************)
(* deleteMessage, deleteFile and the weekly job remove the row of a file   *)
(* only when the file has left the storage; other rows go with an account  *)
(* or a chat.                                                              *)
(***************************************************************************)
THEOREM MessageRowsGoAfterFiles == MessagesSpec => RowsGoAfterFiles
<1> DEFINE Kept == \A m \in Ids : TakenAlong(m) \/ (rows[m] \ rows'[m]) \intersect stored = {}
<1>1. MessagesIInv /\ [MessagesNext]_messagesVars => [Kept]_messagesVars
  BY RowsStep
<1> QED BY MessagesInvariance, <1>1, PTL DEF MessagesSpec, RowsGoAfterFiles

=============================================================================

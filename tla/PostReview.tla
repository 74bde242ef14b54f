------------------------------ MODULE PostReview ------------------------------
(***************************************************************************)
(* The life of a post and its review: PostsService, PostsReviewService,    *)
(* their repositories, the posts queue, and of AdminService.changeRoles    *)
(* what concerns reviewers.                                                *)
(*                                                                         *)
(* Each post has a history of reviews, the active ones open to a decision. *)
(* Three writers replace a post's active review, each in a transaction:    *)
(* the queue's assignment, a decision, and the reassignment of a demoted   *)
(* moderator's reviews.  READ COMMITTED serializes none of them: the       *)
(* UPDATE that suspends reviews sees those committed when it starts, so a  *)
(* transaction is a step that suspends and a step that commits.            *)
(***************************************************************************)
EXTENDS Integers, FiniteSets

CONSTANTS
    Posts,       \* post ids
    Staff,       \* users who are moderators, or may become one again
    Admin,       \* a user of role ADMIN
    Tried,       \* the decisions the staff tries
    MaxReviews,  \* bound: reviews ever created
    MaxDeciding, \* bound: decisions under way at a time
    None         \* no transaction open

ASSUME BoundsAssumption == MaxReviews \in Nat /\ MaxDeciding \in Nat

VARIABLES
    status,      \* Post.status; "NEW" before, "GONE" after the row
    reviews,     \* the PostReview rows
    lastId,      \* the last id given to one
    moderators,  \* users of role MODERATOR
    toEnqueue,   \* posts whose request still has to enqueue the assignment
    assignJob,   \* state of the job assign-reviewer-{post}
    assigning,   \* what the worker on that job does
    deciding,    \* the decision a member of the staff is making
    reassignJobs,\* demoted moderators with a reassignment job in the queue
    plan         \* what the worker on such a job has read

postVars == <<status, toEnqueue>>
reviewVars == <<reviews, lastId>>
workerVars == <<assignJob, assigning>>
roleVars == <<moderators, reassignJobs, plan>>
vars == <<status, reviews, lastId, moderators, toEnqueue, assignJob, assigning,
          deciding, reassignJobs, plan>>

-----------------------------------------------------------------------------
PostStatus == {"DRAFT", "PENDING_REVIEW", "APPROVED", "REJECTED", "BLOCKED",
               "ARCHIVED", "COMPLETED"}
ReviewStatus == {"PENDING", "APPROVED", "REJECTED"}

Deciders == Staff \union {Admin}

Review == [id : 1..MaxReviews, post : Posts, by : Deciders,
           status : ReviewStatus, active : BOOLEAN]

\* What modifyPostReviewStatus accepts as a decision.
Decisions ==
    {d \in [review : ReviewStatus, post : PostStatus] :
        /\ d.review = "REJECTED" => d.post \in {"REJECTED", "BLOCKED"}
        /\ d.review = "APPROVED" => d.post = "APPROVED"}

ASSUME TriedAssumption == Tried \subseteq Decisions

Assigning == [step : {"chosen", "suspended"}, by : Staff, ids : SUBSET (1..MaxReviews)]
Deciding == [step : {"checked", "suspended"}, post : Posts, decision : Decisions,
             ids : SUBSET (1..MaxReviews)]
Assignment == [id : 1..MaxReviews, post : Posts, by : Staff,
               status : {"PENDING", "REJECTED"}]
Plan == [from : Staff, assignments : SUBSET Assignment]

Exists(p) == status[p] \in PostStatus
ReviewsOf(p) == {r \in reviews : r.post = p}
IdsOf(p) == {r.id : r \in ReviewsOf(p)}

\* findLatestActiveByPost: ids and createdAt grow together.
LatestActive(p) ==
    {r \in ReviewsOf(p) :
        /\ r.active
        /\ \A q \in ReviewsOf(p) : q.active => q.id <= r.id}

\* suspendPreviousReview.  The variant deletes what it suspends.
Deleted(rows, ids) == {r \in rows : r.id \notin ids}
Suspended(rows, ids) ==
    {[r EXCEPT !.active = r.active /\ r.id \notin ids] : r \in rows}

Init ==
    /\ status = [p \in Posts |-> "NEW"]
    /\ reviews = {}
    /\ lastId = 0
    /\ moderators = Staff
    /\ toEnqueue = {}
    /\ assignJob = [p \in Posts |-> "none"]
    /\ assigning = [p \in Posts |-> None]
    /\ deciding = [u \in Deciders |-> None]
    /\ reassignJobs = {}
    /\ plan = None

-----------------------------------------------------------------------------
(* Authors *)

\* create: a draft, or a post that goes to review.
CreatePost(p, isDraft) ==
    /\ status[p] = "NEW"
    /\ status' = [status EXCEPT ![p] = IF isDraft THEN "DRAFT"
                                                  ELSE "PENDING_REVIEW"]
    /\ toEnqueue' = IF isDraft THEN toEnqueue ELSE toEnqueue \union {p}
    /\ UNCHANGED <<reviewVars, workerVars, deciding, roleVars>>

\* update: back to review from any status.
UpdatePost(p) ==
    /\ Exists(p)
    /\ status' = [status EXCEPT ![p] = "PENDING_REVIEW"]
    /\ toEnqueue' = toEnqueue \union {p}
    /\ UNCHANGED <<reviewVars, workerVars, deciding, roleVars>>

\* Two variants of SetPostStatus: the author may publish, and delete writes a
\* status posts do not have.
AuthorPublishes(p) ==
    /\ Exists(p)
    /\ \E s \in {"ARCHIVED", "COMPLETED", "APPROVED"} :
          status' = [status EXCEPT ![p] = s]
    /\ UNCHANGED <<toEnqueue, reviewVars, workerVars, deciding, roleVars>>
DeleteByStatus(p) ==
    /\ Exists(p)
    /\ \E s \in {"DELETED", "COMPLETED"} : status' = [status EXCEPT ![p] = s]
    /\ UNCHANGED <<toEnqueue, reviewVars, workerVars, deciding, roleVars>>

\* editUserPostStatus (ARCHIVED or COMPLETED) and delete (ARCHIVED).
SetPostStatus(p) ==
    /\ Exists(p)
    /\ \E s \in {"ARCHIVED", "COMPLETED"} : status' = [status EXCEPT ![p] = s]
    /\ UNCHANGED <<toEnqueue, reviewVars, workerVars, deciding, roleVars>>

(***************************************************************************)
(* assignReviewerToPost: the add is ignored while the job id is taken.     *)
(* When all retries fail, or the process stops, the post keeps the status  *)
(* and no job is there for it.                                             *)
(***************************************************************************)
EnqueueAssignment(p) ==
    /\ p \in toEnqueue
    /\ toEnqueue' = toEnqueue \ {p}
    /\ \/ assignJob' = IF assignJob[p] = "none"
                         THEN [assignJob EXCEPT ![p] = "waiting"]
                         ELSE assignJob
       \/ UNCHANGED assignJob
    /\ UNCHANGED <<status, reviewVars, assigning, deciding, roleVars>>

-----------------------------------------------------------------------------
(* The assignment worker *)

\* A moderator is chosen at random among those there are.
ChooseReviewer(p) ==
    /\ assignJob[p] = "waiting"
    /\ \E m \in moderators :
          assigning' = [assigning EXCEPT
                          ![p] = [step |-> "chosen", by |-> m, ids |-> {}]]
    /\ assignJob' = [assignJob EXCEPT ![p] = "active"]
    /\ UNCHANGED <<postVars, reviewVars, deciding, roleVars>>

AssignSuspends(p) ==
    /\ assigning[p] # None
    /\ assigning[p].step = "chosen"
    /\ assigning' = [assigning EXCEPT ![p].step = "suspended",
                                      ![p].ids = IdsOf(p)]
    /\ UNCHANGED <<postVars, reviewVars, assignJob, deciding, roleVars>>

\* The rows of a transaction that replaces a post's reviews.  The variant
\* suspends after it has inserted.
ReplaceInactive(p, ids, by, review) ==
    /\ lastId < MaxReviews
    /\ lastId' = lastId + 1
    /\ reviews' = Suspended(reviews, ids) \union
         {[id |-> lastId + 1, post |-> p, by |-> by, status |-> review,
           active |-> FALSE]}
Replace(p, ids, by, review) ==
    /\ lastId < MaxReviews
    /\ lastId' = lastId + 1
    /\ reviews' = Suspended(reviews, ids) \union
         {[id |-> lastId + 1, post |-> p, by |-> by, status |-> review,
           active |-> TRUE]}

\* assignReviewer, whatever the status of the post is by now.
AssignCommits(p) ==
    /\ assigning[p] # None
    /\ assigning[p].step = "suspended"
    /\ Exists(p)
    /\ Replace(p, assigning[p].ids, assigning[p].by, "PENDING")
    /\ status' = [status EXCEPT ![p] = "PENDING_REVIEW"]
    /\ assignJob' = [assignJob EXCEPT ![p] = "none"]
    /\ assigning' = [assigning EXCEPT ![p] = None]
    /\ UNCHANGED <<toEnqueue, deciding, roleVars>>

\* No moderator, an error, the post gone, or the worker dead: the transaction
\* is rolled back and the job waits again or, its attempts used up, has failed.
AssignFails(p) ==
    /\ assignJob[p] \in {"waiting", "active"}
    /\ \E s \in {"waiting", "failed"} : assignJob' = [assignJob EXCEPT ![p] = s]
    /\ assigning' = [assigning EXCEPT ![p] = None]
    /\ UNCHANGED <<postVars, reviewVars, deciding, roleVars>>

\* removeOnFail: later failures push this one out.
ForgetFailure(p) ==
    /\ assignJob[p] = "failed"
    /\ assignJob' = [assignJob EXCEPT ![p] = "none"]
    /\ UNCHANGED <<postVars, reviewVars, assigning, deciding, roleVars>>

-----------------------------------------------------------------------------
(* Decisions *)

(***************************************************************************)
(* modifyPostReviewStatus checks outside its transaction that the latest   *)
(* active review is the caller's; an admin may decide any.  The role is    *)
(* the access token's, which outlives a demotion.                          *)
(***************************************************************************)
DecideChecks(u, p, d) ==
    /\ deciding[u] = None
    /\ Cardinality({w \in Deciders : deciding[w] # None}) < MaxDeciding
    /\ Exists(p)
    /\ \E r \in LatestActive(p) : u = Admin \/ r.by = u
    /\ deciding' = [deciding EXCEPT
                      ![u] = [step |-> "checked", post |-> p, decision |-> d,
                              ids |-> {}]]
    /\ UNCHANGED <<postVars, reviewVars, workerVars, roleVars>>

DecideSuspends(u) ==
    /\ deciding[u] # None
    /\ deciding[u].step = "checked"
    /\ deciding' = [deciding EXCEPT ![u].step = "suspended",
                                    ![u].ids = IdsOf(deciding[u].post)]
    /\ UNCHANGED <<postVars, reviewVars, workerVars, roleVars>>

\* The variant writes the status of a post only while it is under review.
DecideUnderReview(u) ==
    /\ deciding[u] # None
    /\ deciding[u].step = "suspended"
    /\ LET p == deciding[u].post
           d == deciding[u].decision
       IN /\ Exists(p)
          /\ Replace(p, deciding[u].ids, u, d.review)
          /\ status' = IF status[p] = "PENDING_REVIEW"
                         THEN [status EXCEPT ![p] = d.post] ELSE status
    /\ deciding' = [deciding EXCEPT ![u] = None]
    /\ UNCHANGED <<toEnqueue, workerVars, roleVars>>
DecideCommits(u) ==
    /\ deciding[u] # None
    /\ deciding[u].step = "suspended"
    /\ LET p == deciding[u].post
           d == deciding[u].decision
       IN /\ Exists(p)
          /\ Replace(p, deciding[u].ids, u, d.review)
          /\ status' = [status EXCEPT ![p] = d.post]
    /\ deciding' = [deciding EXCEPT ![u] = None]
    /\ UNCHANGED <<toEnqueue, workerVars, roleVars>>

\* The post is gone, or an error: rolled back.
DecideFails(u) ==
    /\ deciding[u] # None
    /\ deciding' = [deciding EXCEPT ![u] = None]
    /\ UNCHANGED <<postVars, reviewVars, workerVars, roleVars>>

-----------------------------------------------------------------------------
(* Moderators *)

\* changeRoles: USER to MODERATOR and back.  That one moderator must remain
\* is the business of AdminService alone and not needed here.
Promote(u) ==
    /\ u \notin moderators
    /\ moderators' = moderators \union {u}
    /\ UNCHANGED <<postVars, reviewVars, workerVars, deciding, reassignJobs, plan>>

\* reassignDemotedModeratorPosts after the commit; a failure to enqueue is
\* only logged.
Demote(u) ==
    /\ u \in moderators
    /\ moderators' = moderators \ {u}
    /\ reassignJobs' = reassignJobs \union {u} \/ UNCHANGED reassignJobs
    /\ UNCHANGED <<plan, postVars, reviewVars, workerVars, deciding>>

\* The reviews reassignPostsFromDemotedModerator takes over.
ToReassign(u) ==
    {r \in reviews : /\ r.by = u
                     /\ r.active
                     /\ status[r.post] \in {"PENDING_REVIEW", "BLOCKED"}}

\* What becomes of one of them.
AssignmentOf(r, m) ==
    [id |-> r.id, post |-> r.post, by |-> m,
     status |-> IF status[r.post] = "BLOCKED" THEN "REJECTED" ELSE "PENDING"]

\* It reads the other moderators and the reviews, and picks successors.
ReassignReads(u) ==
    /\ u \in reassignJobs
    /\ plan = None
    /\ ToReassign(u) # {}
    /\ \E next \in [ToReassign(u) -> moderators \ {u}] :
          plan' = [from |-> u,
                   assignments |-> {AssignmentOf(r, next[r]) : r \in ToReassign(u)}]
    /\ UNCHANGED <<moderators, reassignJobs, postVars, reviewVars,
                   workerVars, deciding>>

(***************************************************************************)
(* Its transaction suspends the reviews it read and inserts the others, in *)
(* some order; it asks neither whether the former are still active nor for *)
(* reviews made since.                                                     *)
(***************************************************************************)
ReassignCommits ==
    /\ plan # None
    /\ \A a \in plan.assignments : Exists(a.post)
    /\ \E n \in 1..(MaxReviews - lastId) :
       \E place \in [plan.assignments -> 1..n] :
          /\ \A i \in 1..n : \E a \in plan.assignments : place[a] = i
          /\ \A a, b \in plan.assignments : place[a] = place[b] => a = b
          /\ lastId' = lastId + n
          /\ reviews' =
               Suspended(reviews, {a.id : a \in plan.assignments}) \union
                 {[id |-> lastId + place[a], post |-> a.post, by |-> a.by,
                   status |-> a.status, active |-> TRUE] : a \in plan.assignments}
    /\ reassignJobs' = reassignJobs \ {plan.from}
    /\ plan' = None
    /\ UNCHANGED <<moderators, postVars, workerVars, deciding>>

\* Nothing to reassign, no other moderator, a post gone, or an error: the job
\* ends without a change.  Before its last attempt it reads again.
ReassignEnds(u) ==
    /\ u \in reassignJobs
    /\ plan # None => plan.from = u
    /\ plan' = None
    /\ reassignJobs' = reassignJobs \ {u} \/ UNCHANGED reassignJobs
    /\ UNCHANGED <<moderators, postVars, reviewVars, workerVars, deciding>>

-----------------------------------------------------------------------------
(* Admins delete posts *)

\* deleteManyByAdmin: the foreign key of its reviews keeps a post.
DeletePost(p) ==
    /\ Exists(p)
    /\ ReviewsOf(p) = {}
    /\ status' = [status EXCEPT ![p] = "GONE"]
    /\ UNCHANGED <<toEnqueue, reviewVars, workerVars, deciding, roleVars>>

\* purgePostReviewDataByAdmin: reviews and post in one transaction.
PurgePost(p) ==
    /\ Exists(p)
    /\ status' = [status EXCEPT ![p] = "GONE"]
    /\ reviews' = reviews \ ReviewsOf(p)
    /\ UNCHANGED <<lastId, toEnqueue, workerVars, deciding, roleVars>>

-----------------------------------------------------------------------------
Authors ==
    \E p \in Posts :
        \/ \E isDraft \in BOOLEAN : CreatePost(p, isDraft)
        \/ UpdatePost(p)
        \/ SetPostStatus(p)
        \/ EnqueueAssignment(p)

Assignments ==
    \E p \in Posts :
        \/ ChooseReviewer(p)
        \/ AssignSuspends(p)
        \/ AssignCommits(p)
        \/ AssignFails(p)
        \/ ForgetFailure(p)

Moderation ==
    \E u \in Deciders :
        \/ \E p \in Posts, d \in Tried : DecideChecks(u, p, d)
        \/ DecideSuspends(u)
        \/ DecideCommits(u)
        \/ DecideFails(u)

Roles ==
    \/ \E u \in Staff :
          \/ Promote(u)
          \/ Demote(u)
          \/ ReassignReads(u)
          \/ ReassignEnds(u)
    \/ ReassignCommits

Deletions == \E p \in Posts : DeletePost(p) \/ PurgePost(p)

Next == Authors \/ Assignments \/ Moderation \/ Roles \/ Deletions

Spec == Init /\ [][Next]_vars

-----------------------------------------------------------------------------
(* Properties *)

TypeOK ==
    /\ status \in [Posts -> PostStatus \union {"NEW", "GONE"}]
    /\ reviews \subseteq Review
    /\ lastId \in 0..MaxReviews
    /\ moderators \subseteq Staff
    /\ toEnqueue \subseteq Posts
    /\ assignJob \in [Posts -> {"none", "waiting", "active", "failed"}]
    /\ assigning \in [Posts -> Assigning \union {None}]
    /\ deciding \in [Deciders -> Deciding \union {None}]
    /\ reassignJobs \subseteq Staff
    /\ plan \in Plan \union {None}

\* The reviews of p made after all the others.
Newest(p) == {r \in ReviewsOf(p) : \A q \in ReviewsOf(p) : q.id <= r.id}

(***************************************************************************)
(* However assignments, decisions and reassignments interleave, a post     *)
(* that has been assigned stays assigned: its newest review is active, so  *)
(* that somebody may decide on it, and no replacement is ever lost to a    *)
(* transaction that started before it.                                     *)
(***************************************************************************)
NewestReviewIsActive ==
    \A p \in Posts : \A r \in Newest(p) : r.active

(***************************************************************************)
(* "Approved moderation must always map to approved post lifecycle         *)
(* status": while the newest review of a post approves it, the post is     *)
(* APPROVED or where its author has put it since, never what an earlier    *)
(* or concurrent rejection made of it.                                     *)
(***************************************************************************)
ApprovalDecidesStatus ==
    \A p \in Posts : \A r \in Newest(p) :
        r.status = "APPROVED" =>
            status[p] \in {"APPROVED", "PENDING_REVIEW", "ARCHIVED", "COMPLETED"}

\* A post becomes public only by a decision of the staff member who makes it
\* public, recorded as the newest active review in the same step.
PublishedByDecision ==
    [][\A p \in Posts :
          status[p] # "APPROVED" /\ status'[p] = "APPROVED" =>
             \E u \in Deciders :
                /\ deciding[u] # None /\ deciding[u].post = p
                /\ \E r \in reviews' : r.id = lastId' /\ r.post = p
                                       /\ r.by = u /\ r.active]_vars

(***************************************************************************)
(* Posts implement ReviewHistory: between the steps of the transactions no *)
(* review is rewritten or lost, a review closes only when a newer one of   *)
(* its post takes over, and a post becomes public in the very step that    *)
(* records the decision.                                                   *)
(***************************************************************************)
Promised ==
    INSTANCE ReviewHistory WITH
        history <- reviews,
        public <- {p \in Posts : status[p] = "APPROVED"}

ImplementsHistory == Promised!HistorySpec

=============================================================================

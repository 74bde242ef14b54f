------------------------------ MODULE PostCache ------------------------------
(***************************************************************************)
(* The likes of posts and comments, and the Redis copies of what readers   *)
(* are shown: PostsService with PostsCacheService and PostsLikeRepo, and    *)
(* the same code of the comments.                                          *)
(*                                                                         *)
(* A reader answers from the cache, or reads the database and then stores  *)
(* what it read; a writer changes the database and then deletes the copies *)
(* pattern by pattern.  Nothing orders the two, every Redis command may    *)
(* fail, and the process may stop between any two of them.                 *)
(*                                                                         *)
(* A list is abstracted to the rows its readers may see, whatever the page *)
(* and the filter; a row to what likes and the life of the post or comment *)
(* change.  Files, donations and tallies of comments never touch these     *)
(* caches and are left to their own modules, and so is who reviews.        *)
(***************************************************************************)
EXTENDS Naturals, FiniteSets, Sequences

CONSTANTS
    Users,      \* ids of users
    Anonymous,  \* the viewer without a token
    Posts,      \* ids of posts
    Comments,   \* ids of comments
    PostOf,     \* the post of each comment
    Author,     \* the author of each post and comment
    Admins,     \* those whom the ownership guard lets pass
    Requests,   \* bound: requests that run at a time
    None        \* no copy, no request, no viewer or post in a key

ASSUME UsersAssumption == /\ IsFiniteSet(Users)
                          /\ Anonymous \notin Users /\ None \notin Users
                          /\ Admins \subseteq Users
ASSUME PostOfAssumption == PostOf \in [Comments -> Posts]
ASSUME AuthorAssumption == Author \in [Posts \union Comments -> Users]
ASSUME SubjectsAssumption == Posts \intersect Comments = {}

VARIABLES
    status,   \* what readers tell apart of the status of a post or comment
    review,   \* the status of the active review of a post
    likes,    \* the users with a row of post_likes or comment_likes
    total,    \* totalLikes
    lost,     \* auxiliary: users whose like went with their account
    users,    \* the users there are
    jobs,     \* posts with a job to assign a reviewer
    cache,    \* the copy under each key
    request   \* what each request is at

vars == <<status, review, likes, total, lost, users, jobs, cache, request>>
likeVars == <<likes, total, lost, users>>
rowVars == <<status, review, likeVars, jobs>>

-----------------------------------------------------------------------------
(***************************************************************************)
(* Keys and copies                                                         *)
(***************************************************************************)
Subjects == Posts \union Comments
Viewers == Users \union {Anonymous}

\* "PENDING" stands for PENDING_REVIEW of a post, PENDING and PROCESSING of a
\* comment; "REJECTED" for REJECTED and BLOCKED of a post; "OTHER" for every
\* other status readers cannot tell apart.
Status == {"NEW", "PENDING", "APPROVED", "REJECTED", "OTHER", "GONE"}
ReviewStatus == {None, "PENDING", "APPROVED", "REJECTED"}

Key(scopes, viewers, posts) == [scope : scopes, viewer : viewers, post : posts]
Keys == UNION {Key({"post", "comments"}, Viewers, Posts),
               Key({"public"}, Viewers, {None}),
               Key({"user"}, Users, {None}),
               Key({"staff"}, {None}, {None})}

Exists(s) == status[s] \notin {"NEW", "GONE"}

\* Only the lists for viewers say likedByMe.
Row(s, viewer) == [subject |-> s, status |-> status[s], total |-> total[s],
                   likedByMe |-> viewer \in likes[s]]

PostById(p, viewer) == {Row(q, viewer) : q \in {x \in {p} : status[x] = "APPROVED"}}
PublicList(viewer) == {Row(p, viewer) : p \in {x \in Posts : status[x] = "APPROVED"}}
UserList(u) == {Row(p, None) : p \in {x \in Posts : Author[x] = u /\ Exists(x)}}

\* The lists of every status at once: each asks for an active review that is
\* pending, those of REJECTED and BLOCKED for one that is rejected.
StaffList ==
    {Row(p, None) : p \in {x \in Posts :
        Exists(x) /\ review[x] = IF status[x] = "REJECTED" THEN "REJECTED" ELSE "PENDING"}}

CommentsList(p, viewer) ==
    {Row(c, viewer) : c \in {x \in Comments :
        /\ PostOf[x] = p
        /\ \/ status[x] = "APPROVED"
           \/ status[x] = "PENDING" /\ Author[x] = viewer}}

View(k) ==
    CASE k.scope = "post" -> PostById(k.post, k.viewer)
      [] k.scope = "public" -> PublicList(k.viewer)
      [] k.scope = "user" -> UserList(k.viewer)
      [] k.scope = "staff" -> StaffList
      [] k.scope = "comments" -> CommentsList(k.post, k.viewer)

\* "spared" is auxiliary: a change was made that leaves this copy behind.
Copy == [rows : SUBSET [subject : Subjects, status : Status, total : Nat,
                        likedByMe : BOOLEAN],
         spared : BOOLEAN]

Idle(r) == request[r] = None
At(r, op) == ~Idle(r) /\ request[r].op = op

\* The change just made reaches none of the copies under these keys, neither
\* those stored nor those a reader is about to store.
Spared(copy) == [copy EXCEPT !.spared = TRUE]
SparedIn(copies, keys) ==
    [k \in Keys |-> IF k \in keys /\ copies[k] # None THEN Spared(copies[k]) ELSE copies[k]]
SparedBy(requests, keys) ==
    [r \in Requests |->
        IF requests[r] # None /\ requests[r].op = "fill" /\ requests[r].key \in keys
        THEN [requests[r] EXCEPT !.copy = Spared(@)] ELSE requests[r]]

-----------------------------------------------------------------------------
(***************************************************************************)
(* Patterns                                                                *)
(***************************************************************************)
Scoped(scope) == {k \in Keys : k.scope = scope}
OfPost(scope, p) == {k \in Scoped(scope) : k.post = p}
OfViewer(scope, u) == {k \in Scoped(scope) : k.viewer = u}

\* invalidatePostMutationCache, which first deletes an exact key that is never
\* set, and invalidatePostComments.  The variant forgets the staff lists.
ReadersPatterns(s) ==
    IF s \in Posts
    THEN <<OfPost("post", s), Scoped("user"), Scoped("public")>>
    ELSE <<OfPost("comments", PostOf[s])>>
MutationPatterns(s) ==
    IF s \in Posts
    THEN <<OfPost("post", s), Scoped("user"), Scoped("public"), Scoped("staff")>>
    ELSE <<OfPost("comments", PostOf[s])>>

\* invalidateLikeRelatedCache, and invalidatePostComments again.
LikePatterns(s, u) ==
    IF s \in Posts
    THEN <<OfPost("post", s), OfViewer("public", u), OfViewer("user", u)>>
    ELSE <<OfPost("comments", PostOf[s])>>

\* The lists of the other viewers, of the authors and of the staff show the
\* number of likes as well, and keep the old one.
LikeLeaves(s, u) ==
    IF s \in Posts
    THEN {k \in Scoped("public") \union Scoped("user") : k.viewer # u}
             \union Scoped("staff")
    ELSE {}

-----------------------------------------------------------------------------
Init ==
    /\ status = [s \in Subjects |-> "NEW"]
    /\ review = [p \in Posts |-> None]
    /\ likes = [s \in Subjects |-> {}]
    /\ total = [s \in Subjects |-> 0]
    /\ lost = [s \in Subjects |-> {}]
    /\ users = Users
    /\ jobs = {}
    /\ cache = [k \in Keys |-> None]
    /\ request = [r \in Requests |-> None]

(***************************************************************************)
(* Readers                                                                 *)
(***************************************************************************)
\* The copy is absent, or cannot be read: the rows are.
Read(r, scope, viewer, p) ==
    LET k == [scope |-> scope, viewer |-> viewer, post |-> p] IN
    /\ Idle(r)
    /\ request' = [request EXCEPT ![r] =
          [op |-> "fill", key |-> k, copy |-> [rows |-> View(k), spared |-> FALSE]]]
    /\ UNCHANGED <<rowVars, cache>>

GetAllPublicPosts(r, viewer) == Read(r, "public", viewer, None)
GetUserPosts(r, u) == Read(r, "user", u, None)
GetAllStaffPosts(r) == Read(r, "staff", None, None)
GetCommentsByPostId(r, viewer, p) == Read(r, "comments", viewer, p)

\* 404 without a row, and nothing is stored.
FindById(r, viewer, p) ==
    /\ PostById(p, viewer) # {}
    /\ Read(r, "post", viewer, p)

\* SETEX; a failure is only logged.
Fill(r) ==
    /\ At(r, "fill")
    /\ \/ cache' = [cache EXCEPT ![request[r].key] = request[r].copy]
       \/ UNCHANGED cache
    /\ request' = [request EXCEPT ![r] = None]
    /\ UNCHANGED rowVars

\* The 30 seconds are over.
Expire(k) ==
    /\ cache[k] # None
    /\ cache' = [cache EXCEPT ![k] = None]
    /\ UNCHANGED <<rowVars, request>>

-----------------------------------------------------------------------------
(***************************************************************************)
(* Writers of posts and comments                                           *)
(***************************************************************************)
Owing(op, s, patterns) == [op |-> op, subject |-> s, patterns |-> patterns]
Owe(r, op, s) == request' = [request EXCEPT ![r] = Owing(op, s, MutationPatterns(s))]

\* OwnershipGuard: an admin passes unseen, others by the row's author.
MayChange(u, s) == u \in Admins \/ (Exists(s) /\ Author[s] = u)

\* A draft is not enqueued.
CreatePost(r, p, isDraft) ==
    /\ Idle(r) /\ status[p] = "NEW" /\ Author[p] \in users
    /\ status' = [status EXCEPT ![p] = IF isDraft THEN "OTHER" ELSE "PENDING"]
    /\ Owe(r, IF isDraft THEN "delete" ELSE "enqueue", p)
    /\ UNCHANGED <<review, likeVars, jobs, cache>>

CreateComment(r, c) ==
    /\ Idle(r) /\ status[c] = "NEW" /\ Author[c] \in users /\ Exists(PostOf[c])
    /\ status' = [status EXCEPT ![c] = "PENDING"]
    /\ Owe(r, "enqueue", c)
    /\ UNCHANGED <<review, likeVars, jobs, cache>>

\* Back to review or moderation, whatever the status.
Update(r, s) ==
    /\ Idle(r) /\ Exists(s)
    /\ status' = [status EXCEPT ![s] = "PENDING"]
    /\ Owe(r, "enqueue", s)
    /\ UNCHANGED <<review, likeVars, jobs, cache>>

SetStatus(r, s, to) ==
    /\ Idle(r) /\ Exists(s)
    /\ status' = [status EXCEPT ![s] = to]
    /\ Owe(r, "delete", s)
    /\ UNCHANGED <<likeVars, jobs, cache>>

\* ARCHIVED or COMPLETED; the author's delete archives as well.
EditUserPostStatus(r, p) == SetStatus(r, p, "OTHER") /\ UNCHANGED review
DeletePost(r, p) == SetStatus(r, p, "OTHER") /\ UNCHANGED review

\* DELETED.
DeleteComment(r, c) == SetStatus(r, c, "OTHER") /\ UNCHANGED review

\* Approved reviews go with approved posts, rejected ones with rejected or
\* blocked ones, and a pending one with any.
ModifyPostReviewStatus(r, p, reviewStatus, to) ==
    /\ review[p] # None
    /\ reviewStatus # "PENDING" => to = reviewStatus
    /\ review' = [review EXCEPT ![p] = reviewStatus]
    /\ SetStatus(r, p, to)

\* The job a demotion leaves: the post's status stays, its review is replaced.
ReassignPosts(r, p) ==
    /\ Idle(r) /\ review[p] # None /\ status[p] \in {"PENDING", "REJECTED"}
    /\ review' = [review EXCEPT ![p] = status[p]]
    /\ Owe(r, "delete", p)
    /\ UNCHANGED <<status, likeVars, jobs, cache>>

\* Rows that go take their likes with them.
Gone(subjects) ==
    /\ status' = [s \in Subjects |-> IF s \in subjects THEN "GONE" ELSE status[s]]
    /\ likes' = [s \in Subjects |-> IF s \in subjects THEN {} ELSE likes[s]]
    /\ total' = [s \in Subjects |-> IF s \in subjects THEN 0 ELSE total[s]]
    /\ lost' = [s \in Subjects |-> IF s \in subjects THEN {} ELSE lost[s]]

DeleteByModerator(r, c) ==
    /\ Idle(r) /\ Exists(c)
    /\ Gone({c})
    /\ Owe(r, "delete", c)
    /\ UNCHANGED <<review, users, jobs, cache>>

\* The admin's purge: post, reviews and comments in one transaction, and no
\* copy of them is deleted.
OfAllLists(p) ==
    OfPost("post", p) \union UNION {Scoped(scope) : scope \in {"user", "public", "staff"}}

PurgePost(p) ==
    LET keys == OfAllLists(p) \union OfPost("comments", p)
    IN /\ Exists(p)
       /\ Gone({p} \union {c \in Comments : PostOf[c] = p})
       /\ review' = [review EXCEPT ![p] = None]
       /\ cache' = SparedIn(cache, keys)
       /\ request' = SparedBy(request, keys)
       /\ UNCHANGED <<users, jobs>>

\* The job is added before anything is deleted; a comment is PROCESSING then,
\* whatever its worker has made of it.
Enqueue(r) ==
    LET s == request[r].subject
    IN /\ At(r, "enqueue")
       /\ s \in Comments => Exists(s)
       /\ jobs' = jobs \union ({s} \intersect Posts)
       /\ status' = IF s \in Comments THEN [status EXCEPT ![s] = "PENDING"] ELSE status
       /\ request' = [request EXCEPT ![r].op = "delete"]
       /\ UNCHANGED <<review, likeVars, cache>>

\* Rows change and no copy is deleted.
Silently(keys) ==
    /\ cache' = SparedIn(cache, keys)
    /\ request' = SparedBy(request, keys)

\* assignReviewer of the review worker; without the post it fails.
AssignReviewer(p) ==
    LET changes == Exists(p) /\ (status[p] # "PENDING" \/ review[p] # "PENDING")
    IN /\ p \in jobs
       /\ jobs' = jobs \ {p}
       /\ IF changes
          THEN /\ status' = [status EXCEPT ![p] = "PENDING"]
               /\ review' = [review EXCEPT ![p] = "PENDING"]
               /\ Silently(OfAllLists(p))
          ELSE UNCHANGED <<status, review, cache, request>>
       /\ UNCHANGED likeVars

\* A verdict or failure of the moderation worker, or the claim of an admin's
\* retry (CommentModeration).
Moderate(c, to) ==
    /\ Exists(c) /\ status[c] # to
    /\ status' = [status EXCEPT ![c] = to]
    /\ Silently(OfPost("comments", PostOf[c]))
    /\ UNCHANGED <<review, likeVars, jobs>>

-----------------------------------------------------------------------------
(***************************************************************************)
(* Likes                                                                   *)
(***************************************************************************)
\* toggleLike: a post must be approved, a comment is not asked for.
CheckPost(r, u, s) ==
    /\ Idle(r)
    /\ s \in Posts => status[s] = "APPROVED"
    /\ request' = [request EXCEPT ![r] =
          [op |-> "check", user |-> u, subject |-> s, liked |-> FALSE]]
    /\ UNCHANGED <<rowVars, cache>>

GetLike(r) ==
    /\ At(r, "check")
    /\ request' = [request EXCEPT ![r] = [request[r] EXCEPT
          !.op = "toggle", !.liked = request[r].user \in likes[request[r].subject]]]
    /\ UNCHANGED <<rowVars, cache>>

\* A variant of CreateLike: the row is not unique.
CreateAnyLike(s, u) ==
    /\ Exists(s) /\ u \in users
    /\ likes' = [likes EXCEPT ![s] = @ \union {u}]
    /\ total' = [total EXCEPT ![s] = @ + 1]

\* createLike and deleteLike: one transaction for the row and the number.
CreateLike(s, u) ==
    /\ Exists(s) /\ u \in users /\ u \notin likes[s]
    /\ likes' = [likes EXCEPT ![s] = @ \union {u}]
    /\ total' = [total EXCEPT ![s] = @ + 1]

DeleteLike(s, u) ==
    /\ u \in likes[s]
    /\ likes' = [likes EXCEPT ![s] = @ \ {u}]
    /\ total' = [total EXCEPT ![s] = @ - 1]

ToggleLike(r) ==
    LET s == request[r].subject
        u == request[r].user
    IN /\ At(r, "toggle")
       /\ IF request[r].liked THEN DeleteLike(s, u) ELSE CreateLike(s, u)
       /\ cache' = SparedIn(cache, LikeLeaves(s, u))
       /\ request' = [SparedBy(request, LikeLeaves(s, u)) EXCEPT ![r] =
             Owing("delete", s, LikePatterns(s, u))]
       /\ UNCHANGED <<status, review, lost, users, jobs>>

\* The row is there already, or gone, or so is the post or the user: 4xx.
ToggleFails(r) ==
    LET s == request[r].subject
        u == request[r].user
    IN /\ At(r, "toggle")
       /\ IF request[r].liked THEN u \notin likes[s]
                              ELSE ~Exists(s) \/ u \notin users \/ u \in likes[s]
       /\ request' = [request EXCEPT ![r] = None]
       /\ UNCHANGED <<rowVars, cache>>

\* The account goes (Accounts) and its likes with it, which no number is told
\* of; an author cannot go.
RemoveUser(u) ==
    LET liked == {s \in Subjects : u \in likes[s]}
    IN /\ u \in users
       /\ \A s \in Subjects : Exists(s) => Author[s] # u
       /\ users' = users \ {u}
       /\ likes' = [s \in Subjects |-> likes[s] \ {u}]
       /\ lost' = [s \in Subjects |-> IF s \in liked THEN lost[s] \union {u} ELSE lost[s]]
       /\ Silently({k \in Keys : k.viewer = u})
       /\ UNCHANGED <<status, review, total, jobs>>

-----------------------------------------------------------------------------
(***************************************************************************)
(* The end of every writer                                                 *)
(***************************************************************************)
\* One pattern after the other: SCAN and DEL, or a failure that is logged.
\* A reader that read before the change may still store what it read.
DeleteByPattern(r) ==
    LET keys == Head(request[r].patterns)
        next == [request EXCEPT ![r].patterns = Tail(@)]
    IN /\ At(r, "delete") /\ request[r].patterns # <<>>
       /\ \/ cache' = [k \in Keys |-> IF k \in keys THEN None ELSE cache[k]]
          \/ cache' = SparedIn(cache, keys)
       /\ request' = SparedBy(next, keys)
       /\ UNCHANGED rowVars

Answer(r) ==
    /\ At(r, "delete") /\ request[r].patterns = <<>>
    /\ request' = [request EXCEPT ![r] = None]
    /\ UNCHANGED <<rowVars, cache>>

\* What was not deleted yet is not deleted.
Abandon(r) ==
    LET keys == UNION {request[r].patterns[i] : i \in DOMAIN request[r].patterns}
    IN /\ cache' = SparedIn(cache, keys)
       /\ request' = [SparedBy(request, keys) EXCEPT ![r] = None]

\* 503 when the attempts to enqueue are used up; a comment is marked FAILED, if
\* that can be written.
EnqueueFails(r) ==
    LET s == request[r].subject
    IN /\ At(r, "enqueue")
       /\ \/ /\ s \in Comments /\ Exists(s)
             /\ status' = [status EXCEPT ![s] = "OTHER"]
          \/ UNCHANGED status
       /\ Abandon(r)
       /\ UNCHANGED <<review, likeVars, jobs>>

ProcessStops(r) ==
    /\ At(r, "enqueue") \/ At(r, "delete")
    /\ Abandon(r)
    /\ UNCHANGED rowVars

-----------------------------------------------------------------------------
(***************************************************************************)
(* The endpoints                                                           *)
(***************************************************************************)
\* Anyone reads and, with a token, creates and likes.
PublicPosts(r) ==
    \/ \E p \in Posts, isDraft \in BOOLEAN : CreatePost(r, p, isDraft)
    \/ \E viewer \in Viewers : GetAllPublicPosts(r, viewer)
    \/ \E u \in Users : GetUserPosts(r, u)
    \/ \E u \in Users, p \in Posts : CheckPost(r, u, p)
    \/ \E viewer \in Viewers, p \in Posts : FindById(r, viewer, p)

OwnPosts(r) ==
    \E u \in Users, p \in Posts :
        /\ MayChange(u, p)
        /\ EditUserPostStatus(r, p) \/ Update(r, p) \/ DeletePost(r, p)

StaffPosts(r) ==
    \/ GetAllStaffPosts(r)
    \/ \E p \in Posts, reviewStatus \in ReviewStatus \ {None},
          to \in Status \ {"NEW", "GONE"} : ModifyPostReviewStatus(r, p, reviewStatus, to)

PublicComments(r) ==
    \/ \E u \in Users, c \in Comments : CheckPost(r, u, c)
    \/ \E c \in Comments : CreateComment(r, c)
    \/ \E viewer \in Viewers, p \in Posts : GetCommentsByPostId(r, viewer, p)

OwnComments(r) ==
    \/ \E u \in Users, c \in Comments :
          MayChange(u, c) /\ (Update(r, c) \/ DeleteComment(r, c))
    \/ \E c \in Comments : DeleteByModerator(r, c)

Next ==
    \/ \E r \in Requests :
          \/ PublicPosts(r) \/ OwnPosts(r) \/ StaffPosts(r)
          \/ PublicComments(r) \/ OwnComments(r)
          \/ \E p \in Posts : ReassignPosts(r, p)
          \/ Fill(r)
          \/ Enqueue(r) \/ EnqueueFails(r)
          \/ GetLike(r) \/ ToggleLike(r) \/ ToggleFails(r)
          \/ DeleteByPattern(r) \/ Answer(r)
          \/ ProcessStops(r)
    \/ \E k \in Keys : Expire(k)
    \/ \E p \in Posts : AssignReviewer(p) \/ PurgePost(p)
    \/ \E c \in Comments, to \in {"PENDING", "APPROVED", "OTHER"} : Moderate(c, to)
    \/ \E u \in Users : RemoveUser(u)

Spec == Init /\ [][Next]_vars

-----------------------------------------------------------------------------
(***************************************************************************)
(* Properties                                                              *)
(***************************************************************************)
Filling == [op : {"fill"}, key : Keys, copy : Copy]
Deleting == [op : {"enqueue", "delete"}, subject : Subjects, patterns : Seq(SUBSET Keys)]
Toggling == [op : {"check", "toggle"}, user : Users, subject : Subjects, liked : BOOLEAN]

ASSUME NoneAssumption == None \notin Copy \union Filling \union Deleting \union Toggling

TypeOK ==
    /\ status \in [Subjects -> Status]
    /\ review \in [Posts -> ReviewStatus]
    /\ likes \in [Subjects -> SUBSET Users]
    /\ total \in [Subjects -> Nat]
    /\ lost \in [Subjects -> SUBSET Users]
    /\ users \in SUBSET Users
    /\ jobs \in SUBSET Posts
    /\ cache \in [Keys -> Copy \union {None}]
    /\ request \in [Requests -> Filling \union Deleting \union Toggling \union {None}]

\* totalLikes is the number of likes there are, plus those that went with
\* their users' accounts, however the two halves of the toggles of one user,
\* the deletion of the post and of the account interleave: a double click
\* neither counts twice nor leaves a count without its row.
LikesAreCounted ==
    /\ TypeOK
    /\ \A s \in Subjects :
          /\ likes[s] \subseteq users /\ lost[s] \intersect users = {}
          /\ total[s] = Cardinality(likes[s]) + Cardinality(lost[s])

Owed(k) ==
    \E r \in Requests :
        /\ At(r, "enqueue") \/ At(r, "delete")
        /\ \E i \in DOMAIN request[r].patterns : k \in request[r].patterns[i]

\* Whatever a reader is answered from the cache, or is about to store there,
\* is what the database says now, unless the writer of the change has yet to
\* come to the pattern of its key, or the change was one the code lets the
\* copy outlive: a deletion that failed, was never reached, or came between
\* the reader's two steps, a like in a list of somebody else, a reviewer's
\* assignment, a verdict, a purge, a removed account.  The patterns of a
\* mutation leave out none of the lists its post is shown in.
CopiesAreCurrent ==
    /\ \A k \in Keys :
          cache[k] # None =>
              cache[k].rows = View(k) \/ cache[k].spared \/ Owed(k)
    /\ \A r \in Requests, k \in Keys :
          At(r, "fill") /\ request[r].key = k =>
              request[r].copy.rows = View(k) \/ request[r].copy.spared \/ Owed(k)

=============================================================================

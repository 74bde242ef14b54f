--------------------------- MODULE PostReviewProofs ---------------------------
(***************************************************************************)
(* What holds of PostReview for any number of posts, staff and decisions   *)
(* under way.  The newest review of a post is active because a transaction *)
(* only suspends reviews older than the one it inserts.                    *)
(***************************************************************************)
EXTENDS PostReview, TLAPS

\* Ids are given in order, and once.
IdsInOrder ==
    /\ \A r \in reviews : r.id <= lastId
    /\ \A r, q \in reviews : r.id = q.id => r = q

\* What a transaction will suspend are reviews of its own post.
SuspendsOwn ==
    /\ \A p \in Posts : assigning[p] # None =>
          /\ \A i \in assigning[p].ids : i <= lastId
          /\ \A r \in reviews : r.id \in assigning[p].ids => r.post = p
    /\ \A u \in Deciders : deciding[u] # None =>
          /\ \A i \in deciding[u].ids : i <= lastId
          /\ \A r \in reviews : r.id \in deciding[u].ids => r.post = deciding[u].post
    /\ plan # None => \A a \in plan.assignments :
          /\ a.id <= lastId
          /\ \A r \in reviews : r.id = a.id => r.post = a.post

IInv == TypeOK /\ IdsInOrder /\ SuspendsOwn /\ NewestReviewIsActive

-----------------------------------------------------------------------------
(* Types *)

LEMMA TypeInit == Init => TypeOK
  BY BoundsAssumption DEF Init, TypeOK

\* The new row of a replaced review is a Review, and the others stay Reviews.
LEMMA SuspendedType ==
    ASSUME NEW rows \in SUBSET Review, NEW ids
    PROVE  Suspended(rows, ids) \subseteq Review
  BY DEF Suspended, Review

LEMMA ReplaceType ==
    ASSUME TypeOK, NEW p \in Posts, NEW ids, NEW by \in Deciders,
           NEW st \in ReviewStatus, Replace(p, ids, by, st)
    PROVE  reviews' \subseteq Review /\ lastId' \in 0..MaxReviews
  <1>1. lastId + 1 \in 1..MaxReviews
    BY BoundsAssumption DEF TypeOK, Replace
  <1>2. [id |-> lastId + 1, post |-> p, by |-> by, status |-> st,
         active |-> TRUE] \in Review
    BY <1>1 DEF Review
  <1>3. Suspended(reviews, ids) \subseteq Review
    BY SuspendedType DEF TypeOK
  <1>4. lastId' \in 0..MaxReviews
    BY <1>1 DEF Replace
  <1> HIDE DEF Review
  <1> QED
    BY <1>2, <1>3, <1>4 DEF Replace

LEMMA IdsType ==
    ASSUME TypeOK, NEW p \in Posts
    PROVE  IdsOf(p) \subseteq 1..MaxReviews
  BY DEF TypeOK, IdsOf, ReviewsOf, Review

LEMMA RecordTypes ==
    /\ \A m \in Staff :
          [step |-> "chosen", by |-> m, ids |-> {}] \in Assigning
    /\ \A a \in Assigning : \A ids \in SUBSET (1..MaxReviews) :
          /\ a.by \in Staff
          /\ [a EXCEPT !.step = "suspended", !.ids = ids] \in Assigning
    /\ \A p \in Posts, d \in Decisions :
          [step |-> "checked", post |-> p, decision |-> d, ids |-> {}] \in Deciding
    /\ \A d \in Deciding : \A ids \in SUBSET (1..MaxReviews) :
          /\ d.post \in Posts /\ d.decision \in Decisions
          /\ d.decision.review \in ReviewStatus
          /\ d.decision.post \in PostStatus
          /\ [d EXCEPT !.step = "suspended", !.ids = ids] \in Deciding
  BY DEF Assigning, Deciding, Decisions

LEMMA TypeStep == TypeOK /\ [Next]_vars => TypeOK'
<1> SUFFICES ASSUME TypeOK, [Next]_vars PROVE TypeOK'
  OBVIOUS
<1> USE BoundsAssumption, TriedAssumption
    DEF TypeOK, postVars, reviewVars, workerVars, roleVars
<1>1. ASSUME NEW p \in Posts, NEW isDraft \in BOOLEAN, CreatePost(p, isDraft)
      PROVE TypeOK'
  BY <1>1 DEF CreatePost, PostStatus
<1>2. ASSUME NEW p \in Posts,
             UpdatePost(p) \/ SetPostStatus(p) \/ EnqueueAssignment(p)
      PROVE TypeOK'
  BY <1>2 DEF UpdatePost, SetPostStatus, EnqueueAssignment, PostStatus
<1>3. ASSUME NEW p \in Posts, ChooseReviewer(p) PROVE TypeOK'
  <2>1. PICK m \in moderators :
           assigning' = [assigning EXCEPT
                           ![p] = [step |-> "chosen", by |-> m, ids |-> {}]]
    BY <1>3 DEF ChooseReviewer
  <2>2. assigning' \in [Posts -> Assigning \union {None}]
    BY <2>1, RecordTypes
  <2> QED
    BY <1>3, <2>2 DEF ChooseReviewer
<1>4. ASSUME NEW p \in Posts, AssignSuspends(p) PROVE TypeOK'
  BY <1>4, RecordTypes, IdsType DEF AssignSuspends
<1>5. ASSUME NEW p \in Posts, AssignCommits(p) PROVE TypeOK'
  <2>1. assigning[p].by \in Deciders
    BY <1>5, RecordTypes DEF AssignCommits, Deciders
  <2>2. reviews' \subseteq Review /\ lastId' \in 0..MaxReviews
    BY <1>5, <2>1, ReplaceType DEF AssignCommits, ReviewStatus
  <2> QED
    BY <1>5, <2>2 DEF AssignCommits, PostStatus
<1>6. ASSUME NEW p \in Posts, AssignFails(p) \/ ForgetFailure(p) PROVE TypeOK'
  BY <1>6 DEF AssignFails, ForgetFailure
<1>7. ASSUME NEW u \in Deciders, NEW p \in Posts, NEW d \in Tried,
             DecideChecks(u, p, d)
      PROVE TypeOK'
  BY <1>7, RecordTypes DEF DecideChecks
<1>8. ASSUME NEW u \in Deciders, DecideSuspends(u) PROVE TypeOK'
  BY <1>8, RecordTypes, IdsType DEF DecideSuspends
<1>9. ASSUME NEW u \in Deciders, DecideCommits(u) PROVE TypeOK'
  <2>1. /\ deciding[u].post \in Posts
        /\ deciding[u].decision.review \in ReviewStatus
        /\ deciding[u].decision.post \in PostStatus
    BY <1>9, RecordTypes DEF DecideCommits
  <2>2. reviews' \subseteq Review /\ lastId' \in 0..MaxReviews
    BY <1>9, <2>1, ReplaceType DEF DecideCommits
  <2> QED
    BY <1>9, <2>1, <2>2 DEF DecideCommits
<1>10. ASSUME NEW u \in Deciders, DecideFails(u) PROVE TypeOK'
  BY <1>10 DEF DecideFails
<1>11. ASSUME NEW u \in Staff, Promote(u) \/ Demote(u) PROVE TypeOK'
  BY <1>11 DEF Promote, Demote
<1>12. ASSUME NEW u \in Staff, ReassignReads(u) PROVE TypeOK'
  <2>1. PICK next \in [ToReassign(u) -> moderators \ {u}] :
           plan' = [from |-> u, assignments |->
                      {AssignmentOf(r, next[r]) : r \in ToReassign(u)}]
    BY <1>12 DEF ReassignReads
  <2>2. \A r \in ToReassign(u) : AssignmentOf(r, next[r]) \in Assignment
    BY DEF ToReassign, AssignmentOf, Assignment, Review
  <2>3. plan' \in Plan
    BY <2>1, <2>2 DEF Plan
  <2> QED
    BY <1>12, <2>3 DEF ReassignReads
<1>13. ASSUME NEW u \in Staff, ReassignEnds(u) PROVE TypeOK'
  BY <1>13 DEF ReassignEnds
<1>14. ASSUME ReassignCommits PROVE TypeOK'
  <2>1. PICK n \in 1..(MaxReviews - lastId) :
        \E place \in [plan.assignments -> 1..n] :
           /\ lastId' = lastId + n
           /\ reviews' =
                Suspended(reviews, {a.id : a \in plan.assignments}) \union
                  {[id |-> lastId + place[a], post |-> a.post, by |-> a.by,
                    status |-> a.status, active |-> TRUE] : a \in plan.assignments}
    BY <1>14 DEF ReassignCommits
  <2>2. PICK place \in [plan.assignments -> 1..n] :
           /\ lastId' = lastId + n
           /\ reviews' =
                Suspended(reviews, {a.id : a \in plan.assignments}) \union
                  {[id |-> lastId + place[a], post |-> a.post, by |-> a.by,
                    status |-> a.status, active |-> TRUE] : a \in plan.assignments}
    BY <2>1
  <2>3. \A a \in plan.assignments :
           /\ a \in Assignment
           /\ lastId + place[a] \in 1..MaxReviews
    BY <1>14 DEF ReassignCommits, Plan
  <2>4. \A a \in plan.assignments :
           [id |-> lastId + place[a], post |-> a.post, by |-> a.by,
            status |-> a.status, active |-> TRUE] \in Review
    BY <2>3 DEF Assignment, Review, Deciders, ReviewStatus
  <2>5. reviews' \subseteq Review
    BY <2>2, <2>4, SuspendedType
  <2>6. lastId' \in 0..MaxReviews
    BY <2>2
  <2> QED
    BY <1>14, <2>5, <2>6 DEF ReassignCommits
<1>15. ASSUME NEW p \in Posts, DeletePost(p) \/ PurgePost(p) PROVE TypeOK'
  BY <1>15 DEF DeletePost, PurgePost
<1>16. CASE UNCHANGED vars
  BY <1>16 DEF vars
<1> QED
  BY <1>1, <1>2, <1>3, <1>4, <1>5, <1>6, <1>7, <1>8, <1>9, <1>10, <1>11,
     <1>12, <1>13, <1>14, <1>15, <1>16
     DEF Next, Authors, Assignments, Moderation, Roles, Deletions

-----------------------------------------------------------------------------
(* The order of the reviews *)

\* The steps that leave the reviews and what transactions suspend alone.
LEMMA SameReviews ==
    ASSUME IdsInOrder, SuspendsOwn, NewestReviewIsActive,
           UNCHANGED <<reviews, lastId>>,
           \A p \in Posts :
              assigning'[p] # None =>
                 \/ assigning[p] # None /\ assigning'[p].ids = assigning[p].ids
                 \/ assigning'[p].ids \subseteq IdsOf(p),
           \A u \in Deciders :
              deciding'[u] # None =>
                 \/ /\ deciding[u] # None
                    /\ deciding'[u].ids = deciding[u].ids
                    /\ deciding'[u].post = deciding[u].post
                 \/ deciding'[u].ids \subseteq IdsOf(deciding'[u].post),
           UNCHANGED plan \/ plan' = None
    PROVE  IdsInOrder' /\ SuspendsOwn' /\ NewestReviewIsActive'
  BY DEF IdsInOrder, SuspendsOwn, NewestReviewIsActive, Newest, ReviewsOf, IdsOf

\* What suspending does: the same rows, some of them no longer active.
LEMMA SuspendedRows ==
    ASSUME NEW rows \in SUBSET Review, NEW ids
    PROVE  /\ \A r \in Suspended(rows, ids) : \E q \in rows :
                 /\ r.id = q.id /\ r.post = q.post
                 /\ r.id \notin ids => r = q
                 /\ r = [q EXCEPT !.active = q.active /\ q.id \notin ids]
           /\ \A q \in rows : \E r \in Suspended(rows, ids) :
                 r.id = q.id /\ r.post = q.post
  <1>1. \A q \in rows :
           LET r == [q EXCEPT !.active = q.active /\ q.id \notin ids] IN
              /\ r \in Suspended(rows, ids)
              /\ r.id = q.id /\ r.post = q.post
              /\ q.id \notin ids => r = q
    BY DEF Suspended, Review
  <1>2. \A r \in Suspended(rows, ids) : \E q \in rows :
           r = [q EXCEPT !.active = q.active /\ q.id \notin ids]
    BY DEF Suspended
  <1>3. \A r \in Suspended(rows, ids) : \E q \in rows :
           /\ r.id = q.id /\ r.post = q.post
           /\ r.id \notin ids => r = q
           /\ r = [q EXCEPT !.active = q.active /\ q.id \notin ids]
    <2> TAKE r \in Suspended(rows, ids)
    <2>1. PICK q \in rows : r = [q EXCEPT !.active = q.active /\ q.id \notin ids]
      BY <1>2
    <2>2. r.id = q.id /\ r.post = q.post /\ (r.id \notin ids => r = q)
      BY <1>1, <2>1
    <2> QED
      BY <2>1, <2>2
  <1>4. \A q \in rows : \E r \in Suspended(rows, ids) :
           r.id = q.id /\ r.post = q.post
    <2> TAKE q \in rows
    <2> DEFINE r == [q EXCEPT !.active = q.active /\ q.id \notin ids]
    <2>1. r \in Suspended(rows, ids) /\ r.id = q.id /\ r.post = q.post
      BY <1>1
    <2> QED
      BY <2>1
  <1> QED
    BY <1>3, <1>4

\* A transaction whose suspended reviews are older than what it inserts, and
\* of the posts it inserts for.  New is the set of inserted rows.
LEMMA ReplaceKeeps ==
    ASSUME TypeOK, IdsInOrder, SuspendsOwn, NewestReviewIsActive,
           NEW ids, NEW New \in SUBSET Review,
           lastId' \in Nat, lastId' >= lastId,
           reviews' = Suspended(reviews, ids) \union New,
           \A r \in New : r.active /\ lastId < r.id /\ r.id <= lastId',
           \A r, q \in New : r.id = q.id => r = q,
           \A r \in reviews : r.id \in ids => \E q \in New : q.post = r.post
    PROVE  IdsInOrder' /\ NewestReviewIsActive'
  <1> USE DEF Review
  <1>0. reviews \subseteq Review /\ lastId \in Nat
    BY BoundsAssumption DEF TypeOK
  <1>1. /\ \A r \in Suspended(reviews, ids) : \E q \in reviews :
             /\ r.id = q.id /\ r.post = q.post
             /\ r.id \notin ids => r = q
             /\ r = [q EXCEPT !.active = q.active /\ q.id \notin ids]
        /\ \A q \in reviews : \E r \in Suspended(reviews, ids) :
             r.id = q.id /\ r.post = q.post
    BY <1>0, SuspendedRows
  <1>2. \A r \in Suspended(reviews, ids) : r.id \in Nat /\ r.id <= lastId
    BY <1>0, <1>1 DEF IdsInOrder
  <1>3. \A r, q \in Suspended(reviews, ids) : r.id = q.id => r = q
    BY <1>1 DEF IdsInOrder
  <1>4. IdsInOrder'
    BY <1>0, <1>2, <1>3 DEF IdsInOrder
  <1>5. ASSUME NEW p \in Posts, NEW r \in Newest(p)' PROVE r.active
    <2>1. r \in reviews' /\ r.post = p /\ \A q \in reviews' : q.post = p => q.id <= r.id
      BY <1>5 DEF Newest, ReviewsOf
    <2>2. CASE r \in New
      BY <2>2
    <2>3. CASE r \in Suspended(reviews, ids)
      <3>1. PICK q \in reviews : r.id = q.id /\ r.post = q.post /\ (r.id \notin ids => r = q)
        BY <2>3, <1>1
      <3>2. \A n \in New : n.post # p
        BY <2>1, <2>3, <1>2, <1>0
      <3>3. r.id \notin ids
        BY <2>1, <3>1, <3>2
      <3>4. \A x \in reviews : x.post = p => x.id <= q.id
        BY <2>1, <3>1, <1>1
      <3>5. q \in Newest(p)
        BY <2>1, <3>1, <3>4 DEF Newest, ReviewsOf
      <3> QED
        BY <3>1, <3>3, <3>5 DEF NewestReviewIsActive
    <2> QED
      BY <2>1, <2>2, <2>3
  <1> QED
    BY <1>4, <1>5 DEF NewestReviewIsActive

\* Transactions under way suspend what they did, whatever others insert.
LEMMA OthersSuspendOwn ==
    ASSUME TypeOK, IdsInOrder, SuspendsOwn,
           NEW ids, NEW New \in SUBSET Review,
           lastId' \in Nat, lastId' >= lastId,
           reviews' = Suspended(reviews, ids) \union New,
           \A r \in New : lastId < r.id,
           \A p \in Posts : assigning'[p] # None => assigning'[p] = assigning[p],
           \A u \in Deciders : deciding'[u] # None => deciding'[u] = deciding[u],
           UNCHANGED plan \/ plan' = None
    PROVE  SuspendsOwn'
  <1>0. reviews \subseteq Review /\ lastId \in Nat
    BY BoundsAssumption DEF TypeOK
  <1>1. \A r \in Suspended(reviews, ids) : \E q \in reviews :
           r.id = q.id /\ r.post = q.post
    BY <1>0, SuspendedRows
  <1>2. /\ \A p \in Posts : assigning[p] # None =>
              assigning[p].ids \subseteq 1..MaxReviews
        /\ \A u \in Deciders : deciding[u] # None =>
              deciding[u].ids \subseteq 1..MaxReviews
        /\ plan # None => \A a \in plan.assignments : a.id \in 1..MaxReviews
    BY DEF TypeOK, Assigning, Deciding, Plan, Assignment
  <1>3. \A i \in 1..MaxReviews : i <= lastId =>
           i <= lastId' /\ \A r \in New : r.id # i
    BY <1>0 DEF Review
  <1>4. ASSUME NEW i \in 1..MaxReviews, i <= lastId, NEW p \in Posts,
               \A r \in reviews : r.id = i => r.post = p
        PROVE  i <= lastId' /\ \A r \in reviews' : r.id = i => r.post = p
    BY <1>1, <1>3, <1>4
  <1>5. \A p \in Posts : assigning'[p] # None =>
          /\ \A i \in assigning'[p].ids : i <= lastId'
          /\ \A r \in reviews' : r.id \in assigning'[p].ids => r.post = p
    BY <1>2, <1>4 DEF SuspendsOwn
  <1>6. \A u \in Deciders : deciding[u] # None => deciding[u].post \in Posts
    BY RecordTypes DEF TypeOK
  <1>7. \A u \in Deciders : deciding'[u] # None =>
          /\ \A i \in deciding'[u].ids : i <= lastId'
          /\ \A r \in reviews' : r.id \in deciding'[u].ids => r.post = deciding'[u].post
    BY <1>2, <1>4, <1>6 DEF SuspendsOwn
  <1>8. plan # None => \A a \in plan.assignments : a.post \in Posts
    BY DEF TypeOK, Plan, Assignment
  <1>9. plan' # None => \A a \in plan'.assignments :
          /\ a.id <= lastId'
          /\ \A r \in reviews' : r.id = a.id => r.post = a.post
    BY <1>2, <1>4, <1>8 DEF SuspendsOwn
  <1> QED
    BY <1>5, <1>7, <1>9 DEF SuspendsOwn

\* The row that replaces the reviews of a post.
LEMMA ReplaceRow ==
    ASSUME TypeOK, NEW p \in Posts, NEW ids, NEW by \in Deciders,
           NEW st \in ReviewStatus, Replace(p, ids, by, st)
    PROVE  /\ lastId \in Nat /\ lastId' = lastId + 1
           /\ \E row \in Review :
                 /\ row.id = lastId + 1 /\ row.post = p /\ row.status = st /\ row.active
                 /\ reviews' = Suspended(reviews, ids) \union {row}
  <1>1. lastId \in Nat /\ lastId' = lastId + 1 /\ lastId + 1 \in 1..MaxReviews
    BY BoundsAssumption DEF TypeOK, Replace
  <1> DEFINE new == [id |-> lastId + 1, post |-> p, by |-> by, status |-> st, active |-> TRUE]
  <1>2. new \in Review /\ new.id = lastId + 1 /\ new.post = p /\ new.status = st /\ new.active
    BY <1>1 DEF Review
  <1>3. reviews' = Suspended(reviews, ids) \union {new}
    BY DEF Replace
  <1> HIDE DEF new
  <1> QED
    BY <1>1, <1>2, <1>3

\* One review replaces those of its post.
LEMMA ReplaceOne ==
    ASSUME TypeOK, IdsInOrder, SuspendsOwn, NewestReviewIsActive,
           NEW p \in Posts, NEW ids, NEW by \in Deciders, NEW st \in ReviewStatus,
           Replace(p, ids, by, st),
           \A r \in reviews : r.id \in ids => r.post = p,
           \A x \in Posts : assigning'[x] # None => assigning'[x] = assigning[x],
           \A u \in Deciders : deciding'[u] # None => deciding'[u] = deciding[u],
           UNCHANGED plan
    PROVE  IdsInOrder' /\ SuspendsOwn' /\ NewestReviewIsActive'
  <1>1. PICK row \in Review :
           /\ row.id = lastId + 1 /\ row.post = p /\ row.active
           /\ reviews' = Suspended(reviews, ids) \union {row}
    BY ReplaceRow
  <1>2. lastId \in Nat /\ lastId' = lastId + 1
    BY ReplaceRow
  <1> DEFINE New == {row}
  <1>3. /\ New \in SUBSET Review
        /\ reviews' = Suspended(reviews, ids) \union New
        /\ \A r \in New : r.active /\ lastId < r.id /\ r.id <= lastId'
        /\ \A r, q \in New : r.id = q.id => r = q
        /\ \A r \in reviews : r.id \in ids => \E q \in New : q.post = r.post
        /\ lastId' \in Nat /\ lastId' >= lastId
    BY <1>1, <1>2
  <1> HIDE DEF New
  <1>4. IdsInOrder' /\ NewestReviewIsActive'
    BY <1>3, ReplaceKeeps
  <1>5. SuspendsOwn'
    <2>1. \A r \in New : lastId < r.id
      BY <1>3
    <2> QED
      BY <1>3, <2>1, OthersSuspendOwn
  <1> QED
    BY <1>4, <1>5

\* The rows a reassignment inserts: they replace those its plan names, on the
\* same posts.
LEMMA ReassignRows ==
    ASSUME IInv, ReassignCommits
    PROVE  /\ lastId' \in Nat /\ lastId' >= lastId
           /\ \E ids \in SUBSET (1..MaxReviews), New \in SUBSET Review :
                 /\ reviews' = Suspended(reviews, ids) \union New
                 /\ New # {}
                 /\ \A r \in New : /\ r.active /\ lastId < r.id /\ r.id <= lastId'
                                   /\ r.status # "APPROVED" /\ Exists(r.post)
                 /\ \A r, q \in New : r.id = q.id => r = q
                 /\ \A r \in reviews : r.id \in ids => \E q \in New : q.post = r.post
  <1>1. PICK n \in 1..(MaxReviews - lastId) :
        \E place \in [plan.assignments -> 1..n] :
           /\ \A i \in 1..n : \E a \in plan.assignments : place[a] = i
           /\ \A a, b \in plan.assignments : place[a] = place[b] => a = b
           /\ lastId' = lastId + n
           /\ reviews' =
                Suspended(reviews, {a.id : a \in plan.assignments}) \union
                  {[id |-> lastId + place[a], post |-> a.post, by |-> a.by,
                    status |-> a.status, active |-> TRUE] : a \in plan.assignments}
    BY DEF ReassignCommits
  <1>2. PICK place \in [plan.assignments -> 1..n] :
           /\ \A i \in 1..n : \E a \in plan.assignments : place[a] = i
           /\ \A a, b \in plan.assignments : place[a] = place[b] => a = b
           /\ lastId' = lastId + n
           /\ reviews' =
                Suspended(reviews, {a.id : a \in plan.assignments}) \union
                  {[id |-> lastId + place[a], post |-> a.post, by |-> a.by,
                    status |-> a.status, active |-> TRUE] : a \in plan.assignments}
    BY <1>1
  <1> DEFINE ids == {a.id : a \in plan.assignments}
             Row(a) == [id |-> lastId + place[a], post |-> a.post, by |-> a.by,
                        status |-> a.status, active |-> TRUE]
             New == {Row(a) : a \in plan.assignments}
  <1>3. lastId \in Nat /\ n \in Nat /\ lastId' \in Nat /\ lastId' >= lastId
    BY <1>2, BoundsAssumption DEF IInv, TypeOK
  <1>4. plan # None /\ plan \in Plan
    BY DEF ReassignCommits, IInv, TypeOK
  <1>5. \A a \in plan.assignments :
           /\ a \in Assignment
           /\ place[a] \in 1..n
           /\ lastId + place[a] \in 1..MaxReviews
    BY <1>2, <1>3, <1>4, BoundsAssumption DEF Plan
  <1>6. \A a \in plan.assignments :
           /\ Row(a) \in Review
           /\ Row(a).active /\ Row(a).post = a.post
           /\ Row(a).status # "APPROVED" /\ Exists(a.post)
           /\ Row(a).id = lastId + place[a]
    BY <1>5 DEF ReassignCommits, Assignment, Review, Deciders, ReviewStatus
  <1>7. reviews' = Suspended(reviews, ids) \union New
    BY <1>2
  <1> HIDE DEF Row
  <1>8. /\ New \in SUBSET Review
        /\ \A r \in New : /\ r.active /\ lastId < r.id /\ r.id <= lastId'
                          /\ r.status # "APPROVED" /\ Exists(r.post)
    BY <1>2, <1>3, <1>5, <1>6
  <1>9. \A r, q \in New : r.id = q.id => r = q
    <2> TAKE r, q \in New
    <2> HAVE r.id = q.id
    <2>1. PICK a \in plan.assignments : r = Row(a)
      OBVIOUS
    <2>2. PICK b \in plan.assignments : q = Row(b)
      OBVIOUS
    <2>3. place[a] = place[b]
      BY <1>3, <1>5, <1>6, <2>1, <2>2
    <2> QED
      BY <1>2, <2>1, <2>2, <2>3
  <1>10. \A r \in reviews : r.id \in ids => \E q \in New : q.post = r.post
    <2> TAKE r \in reviews
    <2> HAVE r.id \in ids
    <2>1. PICK a \in plan.assignments : r.id = a.id
      OBVIOUS
    <2>2. r.post = a.post
      BY <1>4, <2>1 DEF IInv, SuspendsOwn
    <2> QED
      BY <1>6, <2>2
  <1>11. New # {} /\ ids \in SUBSET (1..MaxReviews)
    <2>1. 1 \in 1..n
      OBVIOUS
    <2>2. PICK a \in plan.assignments : place[a] = 1
      BY <1>2, <2>1
    <2>3. \A x \in plan.assignments : x.id \in 1..MaxReviews
      BY <1>5 DEF Assignment
    <2> QED
      BY <2>2, <2>3
  <1> HIDE DEF New, ids
  <1> QED
    BY <1>3, <1>7, <1>8, <1>9, <1>10, <1>11

LEMMA ReassignKeeps ==
    ASSUME IInv, ReassignCommits
    PROVE  IdsInOrder' /\ SuspendsOwn' /\ NewestReviewIsActive'
  <1>1. PICK ids \in SUBSET (1..MaxReviews), New \in SUBSET Review :
           /\ reviews' = Suspended(reviews, ids) \union New
           /\ \A r \in New : r.active /\ lastId < r.id /\ r.id <= lastId'
           /\ \A r, q \in New : r.id = q.id => r = q
           /\ \A r \in reviews : r.id \in ids => \E q \in New : q.post = r.post
    BY ReassignRows
  <1>2. lastId' \in Nat /\ lastId' >= lastId
    BY ReassignRows
  <1>3. IdsInOrder' /\ NewestReviewIsActive'
    BY <1>1, <1>2, ReplaceKeeps DEF IInv
  <1>4. SuspendsOwn'
    <2>1. /\ \A p \in Posts : assigning'[p] # None => assigning'[p] = assigning[p]
          /\ \A u \in Deciders : deciding'[u] # None => deciding'[u] = deciding[u]
          /\ UNCHANGED plan \/ plan' = None
      BY DEF ReassignCommits, workerVars
    <2>2. \A r \in New : lastId < r.id
      BY <1>1
    <2> QED
      BY <1>1, <1>2, <2>1, <2>2, OthersSuspendOwn DEF IInv
  <1> QED
    BY <1>3, <1>4

\* Every step keeps the order and with it the newest reviews.
LEMMA OrderStep ==
    IInv /\ [Next]_vars => IdsInOrder' /\ SuspendsOwn' /\ NewestReviewIsActive'
<1> SUFFICES ASSUME IInv, [Next]_vars
             PROVE  IdsInOrder' /\ SuspendsOwn' /\ NewestReviewIsActive'
  OBVIOUS
<1> USE DEF IInv, postVars, reviewVars, workerVars, roleVars
<1>1. CASE Authors
  BY <1>1, SameReviews
     DEF Authors, CreatePost, UpdatePost, SetPostStatus, EnqueueAssignment
<1>2. ASSUME NEW p \in Posts, ChooseReviewer(p)
      PROVE  IdsInOrder' /\ SuspendsOwn' /\ NewestReviewIsActive'
  <2>1. PICK m \in moderators :
           assigning' = [assigning EXCEPT
                           ![p] = [step |-> "chosen", by |-> m, ids |-> {}]]
    BY <1>2 DEF ChooseReviewer
  <2>2. \A q \in Posts :
           assigning'[q] = assigning[q] \/ assigning'[q].ids = {}
    BY <2>1 DEF TypeOK
  <2> QED
    BY <1>2, <2>2, SameReviews DEF ChooseReviewer
<1>3. ASSUME NEW p \in Posts, AssignSuspends(p)
      PROVE  IdsInOrder' /\ SuspendsOwn' /\ NewestReviewIsActive'
  <2>1. assigning[p] \in Assigning
    BY <1>3 DEF AssignSuspends, TypeOK
  <2>2. assigning'[p].ids = IdsOf(p)
    BY <1>3, <2>1 DEF AssignSuspends, TypeOK, Assigning
  <2>3. \A q \in Posts : q # p => assigning'[q] = assigning[q]
    BY <1>3 DEF AssignSuspends, TypeOK
  <2> QED
    BY <1>3, <2>2, <2>3, SameReviews DEF AssignSuspends
<1>4. ASSUME NEW p \in Posts, AssignCommits(p)
      PROVE  IdsInOrder' /\ SuspendsOwn' /\ NewestReviewIsActive'
  <2>1. assigning[p].by \in Deciders
    BY <1>4, RecordTypes DEF AssignCommits, Deciders, TypeOK
  <2>2. \A r \in reviews : r.id \in assigning[p].ids => r.post = p
    BY <1>4 DEF AssignCommits, SuspendsOwn
  <2>3. \A q \in Posts : assigning'[q] # None => assigning'[q] = assigning[q]
    BY <1>4 DEF AssignCommits, TypeOK
  <2>4. /\ Replace(p, assigning[p].ids, assigning[p].by, "PENDING")
        /\ UNCHANGED <<deciding, plan>>
    BY <1>4 DEF AssignCommits
  <2>5. "PENDING" \in ReviewStatus
    BY DEF ReviewStatus
  <2> QED
    BY <2>1, <2>2, <2>3, <2>4, <2>5, ReplaceOne
<1>5. ASSUME NEW p \in Posts, AssignFails(p) \/ ForgetFailure(p)
      PROVE  IdsInOrder' /\ SuspendsOwn' /\ NewestReviewIsActive'
  <2>1. \A q \in Posts : assigning'[q] = assigning[q] \/ assigning'[q] = None
    BY <1>5 DEF AssignFails, ForgetFailure, TypeOK
  <2> QED
    BY <1>5, <2>1, SameReviews DEF AssignFails, ForgetFailure
<1>6. ASSUME NEW u \in Deciders, NEW p \in Posts, NEW d \in Tried,
             DecideChecks(u, p, d)
      PROVE  IdsInOrder' /\ SuspendsOwn' /\ NewestReviewIsActive'
  <2>1. \A w \in Deciders :
           deciding'[w] = deciding[w] \/ deciding'[w].ids = {}
    BY <1>6 DEF DecideChecks, TypeOK
  <2> QED
    BY <1>6, <2>1, SameReviews DEF DecideChecks
<1>7. ASSUME NEW u \in Deciders, DecideSuspends(u)
      PROVE  IdsInOrder' /\ SuspendsOwn' /\ NewestReviewIsActive'
  <2>1. deciding[u] \in Deciding
    BY <1>7 DEF DecideSuspends, TypeOK
  <2>2. /\ deciding'[u].ids = IdsOf(deciding[u].post)
        /\ deciding'[u].post = deciding[u].post
    BY <1>7, <2>1 DEF DecideSuspends, TypeOK, Deciding
  <2>3. \A w \in Deciders : w # u => deciding'[w] = deciding[w]
    BY <1>7 DEF DecideSuspends, TypeOK
  <2> QED
    BY <1>7, <2>2, <2>3, SameReviews DEF DecideSuspends
<1>8. ASSUME NEW u \in Deciders, DecideCommits(u)
      PROVE  IdsInOrder' /\ SuspendsOwn' /\ NewestReviewIsActive'
  <2>1. /\ deciding[u].post \in Posts
        /\ deciding[u].decision.review \in ReviewStatus
    BY <1>8, RecordTypes DEF DecideCommits, TypeOK
  <2>2. \A r \in reviews : r.id \in deciding[u].ids => r.post = deciding[u].post
    BY <1>8 DEF DecideCommits, SuspendsOwn
  <2>3. \A w \in Deciders : deciding'[w] # None => deciding'[w] = deciding[w]
    BY <1>8 DEF DecideCommits, TypeOK
  <2>4. /\ Replace(deciding[u].post, deciding[u].ids, u, deciding[u].decision.review)
        /\ UNCHANGED <<assigning, plan>>
    BY <1>8 DEF DecideCommits
  <2> QED
    BY <2>1, <2>2, <2>3, <2>4, ReplaceOne
<1>9. ASSUME NEW u \in Deciders, DecideFails(u)
      PROVE  IdsInOrder' /\ SuspendsOwn' /\ NewestReviewIsActive'
  <2>1. \A w \in Deciders : deciding'[w] = deciding[w] \/ deciding'[w] = None
    BY <1>9 DEF DecideFails, TypeOK
  <2> QED
    BY <1>9, <2>1, SameReviews DEF DecideFails
<1>10. ASSUME NEW u \in Staff, Promote(u) \/ Demote(u) \/ ReassignEnds(u)
       PROVE  IdsInOrder' /\ SuspendsOwn' /\ NewestReviewIsActive'
  BY <1>10, SameReviews DEF Promote, Demote, ReassignEnds
<1>11. ASSUME NEW u \in Staff, ReassignReads(u)
       PROVE  IdsInOrder' /\ SuspendsOwn' /\ NewestReviewIsActive'
  <2>1. PICK next \in [ToReassign(u) -> moderators \ {u}] :
           plan' = [from |-> u,
                    assignments |-> {AssignmentOf(r, next[r]) : r \in ToReassign(u)}]
    BY <1>11 DEF ReassignReads
  <2>2. \A a \in plan'.assignments : \E r \in reviews : a.id = r.id /\ a.post = r.post
    BY <2>1 DEF ToReassign, AssignmentOf
  <2>3. IdsInOrder' /\ NewestReviewIsActive'
    BY <1>11 DEF ReassignReads, IdsInOrder, NewestReviewIsActive, Newest, ReviewsOf
  <2>4. \A a \in plan'.assignments :
           /\ a.id <= lastId
           /\ \A r \in reviews : r.id = a.id => r.post = a.post
    BY <2>2 DEF IdsInOrder
  <2>5. SuspendsOwn'
    BY <1>11, <2>4 DEF ReassignReads, SuspendsOwn
  <2> QED
    BY <2>3, <2>5
<1>12. CASE ReassignCommits
  BY <1>12, ReassignKeeps
<1>13. ASSUME NEW p \in Posts, DeletePost(p)
       PROVE  IdsInOrder' /\ SuspendsOwn' /\ NewestReviewIsActive'
  BY <1>13, SameReviews DEF DeletePost
<1>14. ASSUME NEW p \in Posts, PurgePost(p)
       PROVE  IdsInOrder' /\ SuspendsOwn' /\ NewestReviewIsActive'
  <2>1. /\ reviews' = reviews \ ReviewsOf(p)
        /\ UNCHANGED <<lastId, assigning, deciding, plan>>
    BY <1>14 DEF PurgePost
  <2>2. IdsInOrder' /\ SuspendsOwn'
    BY <2>1 DEF IdsInOrder, SuspendsOwn
  <2>3. \A q \in Posts : Newest(q)' \subseteq Newest(q)
    BY <2>1 DEF Newest, ReviewsOf
  <2> QED
    BY <2>2, <2>3 DEF NewestReviewIsActive
<1>15. CASE UNCHANGED vars
  BY <1>15, SameReviews DEF vars
<1> QED
  BY <1>1, <1>2, <1>3, <1>4, <1>5, <1>6, <1>7, <1>8, <1>9, <1>10, <1>11,
     <1>12, <1>13, <1>14, <1>15
     DEF Next, Assignments, Moderation, Roles, Deletions

LEMMA InvInit == Init => IInv
  BY TypeInit
     DEF Init, IInv, IdsInOrder, SuspendsOwn, NewestReviewIsActive, Newest, ReviewsOf

-----------------------------------------------------------------------------
(* The theorems *)

\* The strengthening of NewestReviewIsActive is inductive.
THEOREM Invariance == Spec => []IInv
<1>1. IInv /\ [Next]_vars => IInv'
  BY TypeStep, OrderStep DEF IInv
<1> QED
  BY InvInit, <1>1, PTL DEF Spec

\* Every variable holds what its declaration says.
THEOREM TypeCorrect == Spec => []TypeOK
<1>1. IInv => TypeOK
  BY DEF IInv
<1> QED
  BY Invariance, <1>1, PTL

\* A post that has been assigned has a newest review, and that one is active.
THEOREM NewestActive == Spec => []NewestReviewIsActive
<1>1. IInv => NewestReviewIsActive
  BY DEF IInv
<1> QED
  BY Invariance, <1>1, PTL

\* The one step that makes a post public.
LEMMA PublishStep ==
    ASSUME TypeOK, [Next]_vars, NEW p \in Posts, status[p] # "APPROVED", status'[p] = "APPROVED"
    PROVE  \E u \in Deciders :
              /\ deciding[u] # None /\ deciding[u].post = p
              /\ \E r \in reviews' : r.id = lastId' /\ r.post = p /\ r.by = u /\ r.active
<1>1. status' # status
  OBVIOUS
<1>2. ASSUME NEW q \in Posts, NEW s, status' = [status EXCEPT ![q] = s]
      PROVE  s = "APPROVED" /\ q = p
  BY <1>2 DEF TypeOK
<1>3. ASSUME NEW q \in Posts,
             \/ \E isDraft \in BOOLEAN : CreatePost(q, isDraft)
             \/ UpdatePost(q) \/ SetPostStatus(q) \/ AssignCommits(q)
             \/ DeletePost(q) \/ PurgePost(q)
      PROVE  FALSE
  BY <1>2, <1>3 DEF CreatePost, UpdatePost, SetPostStatus, AssignCommits, DeletePost, PurgePost
<1>4. ASSUME NEW u \in Deciders, DecideCommits(u)
      PROVE  /\ deciding[u] # None /\ deciding[u].post = p
             /\ \E r \in reviews' : r.id = lastId' /\ r.post = p /\ r.by = u /\ r.active
  <2>1. deciding[u].post \in Posts /\ deciding[u] # None
    BY <1>4, RecordTypes DEF DecideCommits, TypeOK
  <2>2. PICK q \in Posts : q = deciding[u].post
    BY <2>1
  <2>3. PICK s, st : /\ status' = [status EXCEPT ![q] = s]
                     /\ Replace(q, deciding[u].ids, u, st)
    BY <1>4, <2>2 DEF DecideCommits
  <2>4. q = p
    BY <1>2, <2>3
  <2>5. PICK n : n = lastId'
    OBVIOUS
  <2>6. [id |-> n, post |-> p, by |-> u, status |-> st, active |-> TRUE] \in reviews'
    BY <2>3, <2>4, <2>5 DEF Replace
  <2> QED
    BY <2>1, <2>2, <2>4, <2>5, <2>6
<1> QED
  BY <1>1, <1>3, <1>4
     DEF Next, Authors, Assignments, Moderation, Roles, Deletions, EnqueueAssignment,
         ChooseReviewer, AssignSuspends, AssignFails, ForgetFailure, DecideChecks,
         DecideSuspends, DecideFails, Promote, Demote, ReassignReads, ReassignCommits,
         ReassignEnds, postVars, vars

\* Nothing but a decision of a member of the staff, recorded with it, makes a
\* post public.
THEOREM Published == Spec => PublishedByDecision
<1> DEFINE ByDecision == \A p \in Posts :
              status[p] # "APPROVED" /\ status'[p] = "APPROVED" =>
                 \E u \in Deciders :
                    /\ deciding[u] # None /\ deciding[u].post = p
                    /\ \E r \in reviews' : r.id = lastId' /\ r.post = p
                                           /\ r.by = u /\ r.active
<1>1. TypeOK /\ [Next]_vars => [ByDecision]_vars
  BY PublishStep
<1> QED
  BY TypeCorrect, <1>1, PTL DEF Spec, PublishedByDecision

-----------------------------------------------------------------------------
(* Approvals *)

\* Only posts that are there have reviews.
Settled ==
    /\ ApprovalDecidesStatus
    /\ \A p \in Posts : ReviewsOf(p) # {} => Exists(p)

\* A newest review was inserted by the transaction, or was the newest before.
LEMMA NewestStays ==
    ASSUME TypeOK, NEW ids, NEW New, reviews' = Suspended(reviews, ids) \union New,
           NEW p \in Posts, NEW r \in Newest(p)'
    PROVE  r \in New \/ \E q \in Newest(p) : q.status = r.status /\ q.id = r.id
<1>1. reviews \in SUBSET Review
  BY DEF TypeOK
<1>2. r \in reviews' /\ r.post = p /\ \A q \in reviews' : q.post = p => q.id <= r.id
  BY DEF Newest, ReviewsOf
<1>3. CASE r \in Suspended(reviews, ids)
  <2>1. PICK q \in reviews : /\ r.id = q.id /\ r.post = q.post
                             /\ r = [q EXCEPT !.active = q.active /\ q.id \notin ids]
    BY <1>1, <1>3, SuspendedRows
  <2>2. q.status = r.status
    BY <1>1, <2>1 DEF Review
  <2>3. \A x \in reviews : x.post = p => x.id <= q.id
    BY <1>1, <1>2, <2>1, SuspendedRows
  <2> QED
    BY <1>2, <2>1, <2>2, <2>3 DEF Newest, ReviewsOf
<1> QED
  BY <1>2, <1>3

\* No reviews come, and a status is only set to what the author may set it to.
LEMMA AuthorSettles ==
    ASSUME TypeOK, Settled, UNCHANGED reviews, NEW p \in Posts, NEW s \in PostStatus,
           s \in {"PENDING_REVIEW", "ARCHIVED", "COMPLETED"} \/ ReviewsOf(p) = {},
           status' = [status EXCEPT ![p] = s]
    PROVE  Settled'
<1>1. \A q \in Posts : ReviewsOf(q)' = ReviewsOf(q) /\ Newest(q)' = Newest(q)
  BY DEF ReviewsOf, Newest
<1>2. \A q \in Posts : Newest(q) \subseteq ReviewsOf(q)
  BY DEF Newest
<1> QED
  BY <1>1, <1>2 DEF Settled, ApprovalDecidesStatus, Exists, TypeOK

LEMMA ReplaceSettles ==
    ASSUME TypeOK, IdsInOrder, Settled, NEW p \in Posts, NEW ids,
           NEW by \in Deciders, NEW st \in ReviewStatus, NEW s \in PostStatus,
           Exists(p), Replace(p, ids, by, st), st = "APPROVED" => s = "APPROVED",
           status' = [status EXCEPT ![p] = s]
    PROVE  Settled'
<1>1. lastId \in Nat /\ reviews \in SUBSET Review
  BY ReplaceRow DEF TypeOK
<1>2. PICK row \in Review : /\ row.id = lastId + 1 /\ row.post = p /\ row.status = st
                            /\ reviews' = Suspended(reviews, ids) \union {row}
  BY ReplaceRow
<1>3. status'[p] = s /\ \A q \in Posts \ {p} : status'[q] = status[q]
  BY DEF TypeOK
<1>4. ASSUME NEW q \in Posts, NEW r \in Newest(q)', r.status = "APPROVED"
      PROVE  status'[q] \in {"APPROVED", "PENDING_REVIEW", "ARCHIVED", "COMPLETED"}
  <2>1. r \in {row} \/ \E x \in Newest(q) : x.status = r.status /\ x.id = r.id
    BY <1>2, <1>4, NewestStays
  <2>2. r.post = q /\ \A x \in reviews' : x.post = q => x.id <= r.id
    BY DEF Newest, ReviewsOf
  <2>3. CASE r = row
    BY <1>2, <1>3, <1>4, <2>2, <2>3
  <2>4. CASE r # row
    <3>1. PICK x \in Newest(q) : x.status = r.status /\ x.id = r.id
      BY <2>1, <2>4
    <3>2. x \in reviews /\ x.id <= lastId /\ x.id \in Nat
      BY <1>1, <3>1 DEF Newest, ReviewsOf, IdsInOrder, Review
    <3>3. q # p
      BY <1>1, <1>2, <2>2, <3>1, <3>2
    <3> QED
      BY <1>3, <1>4, <3>1, <3>3 DEF Settled, ApprovalDecidesStatus
  <2> QED
    BY <2>3, <2>4
<1>5. ASSUME NEW q \in Posts, ReviewsOf(q)' # {} PROVE Exists(q)'
  <2>1. CASE q = p
    BY <1>3, <2>1 DEF Exists
  <2>2. CASE q # p
    <3>1. ReviewsOf(q) # {}
      <4>1. PICK r \in reviews' : r.post = q
        BY <1>5 DEF ReviewsOf
      <4>2. r \in Suspended(reviews, ids)
        BY <1>2, <2>2, <4>1
      <4>3. reviews \in SUBSET Review
        BY <1>1
      <4>4. PICK x \in reviews : r.id = x.id /\ r.post = x.post
        BY <4>2, <4>3, SuspendedRows
      <4> QED
        BY <4>1, <4>4 DEF ReviewsOf
    <3> QED
      BY <1>3, <2>2, <3>1 DEF Settled, Exists
  <2> QED
    BY <2>1, <2>2
<1> QED
  BY <1>4, <1>5 DEF Settled, ApprovalDecidesStatus

LEMMA ReassignSettles ==
    ASSUME IInv, Settled, ReassignCommits
    PROVE  Settled'
<1>1. PICK ids \in SUBSET (1..MaxReviews), New \in SUBSET Review :
         /\ reviews' = Suspended(reviews, ids) \union New
         /\ \A r \in New : r.status # "APPROVED" /\ Exists(r.post)
  BY ReassignRows
<1>2. UNCHANGED status /\ TypeOK
  BY DEF ReassignCommits, postVars, IInv
<1>3. ASSUME NEW q \in Posts, NEW r \in Newest(q)', r.status = "APPROVED"
      PROVE  status'[q] \in {"APPROVED", "PENDING_REVIEW", "ARCHIVED", "COMPLETED"}
  <2>1. \E x \in Newest(q) : x.status = r.status
    BY <1>1, <1>2, <1>3, NewestStays
  <2> QED
    BY <1>2, <1>3, <2>1 DEF Settled, ApprovalDecidesStatus
<1>4. ASSUME NEW q \in Posts, ReviewsOf(q)' # {} PROVE Exists(q)'
  <2>1. PICK r \in reviews' : r.post = q
    BY <1>4 DEF ReviewsOf
  <2>2. CASE r \in New
    BY <1>1, <1>2, <2>1, <2>2 DEF Exists
  <2>3. CASE r \in Suspended(reviews, ids)
    <3>1. ReviewsOf(q) # {}
      <4>1. reviews \in SUBSET Review
        BY <1>2 DEF TypeOK
      <4> QED
        BY <2>1, <2>3, <4>1, SuspendedRows DEF ReviewsOf
    <3> QED
      BY <1>2, <3>1 DEF Settled, Exists
  <2> QED
    BY <1>1, <2>1, <2>2, <2>3
<1> QED
  BY <1>3, <1>4 DEF Settled, ApprovalDecidesStatus

LEMMA DeletionSettles ==
    ASSUME TypeOK, Settled, NEW p \in Posts, DeletePost(p) \/ PurgePost(p)
    PROVE  Settled'
<1>1. /\ status' = [status EXCEPT ![p] = "GONE"] /\ ReviewsOf(p)' = {}
      /\ \A q \in Posts \ {p} : ReviewsOf(q)' = ReviewsOf(q)
  BY DEF DeletePost, PurgePost, ReviewsOf, reviewVars
<1>2. Newest(p)' = {} /\ \A q \in Posts \ {p} : Newest(q)' = Newest(q)
  BY <1>1 DEF Newest
<1> QED
  BY <1>1, <1>2 DEF Settled, ApprovalDecidesStatus, Exists, TypeOK

LEMMA SettledStep == IInv /\ Settled /\ [Next]_vars => Settled'
<1> SUFFICES ASSUME IInv, TypeOK, IdsInOrder, Settled, [Next]_vars PROVE Settled'
  BY DEF IInv
<1>1. CASE UNCHANGED <<status, reviews>>
  BY <1>1 DEF Settled, ApprovalDecidesStatus, Newest, ReviewsOf, Exists
<1>2. ASSUME NEW p \in Posts, NEW isDraft \in BOOLEAN, CreatePost(p, isDraft) PROVE Settled'
  <2>1. ReviewsOf(p) = {}
    BY <1>2 DEF CreatePost, Settled, Exists, PostStatus
  <2>2. PICK s \in PostStatus : status' = [status EXCEPT ![p] = s]
    BY <1>2 DEF CreatePost, PostStatus
  <2> QED
    BY <1>2, <2>1, <2>2, AuthorSettles DEF CreatePost, reviewVars
<1>3. ASSUME NEW p \in Posts, UpdatePost(p) \/ SetPostStatus(p) PROVE Settled'
  <2>1. PICK s \in PostStatus : /\ status' = [status EXCEPT ![p] = s]
                                /\ s \in {"PENDING_REVIEW", "ARCHIVED", "COMPLETED"}
    BY <1>3 DEF UpdatePost, SetPostStatus, PostStatus
  <2> QED
    BY <1>3, <2>1, AuthorSettles DEF UpdatePost, SetPostStatus, reviewVars
<1>4. ASSUME NEW p \in Posts, AssignCommits(p) PROVE Settled'
  <2>1. assigning[p].by \in Deciders
    BY <1>4, RecordTypes DEF AssignCommits, TypeOK, Deciders
  <2>2. "PENDING_REVIEW" \in PostStatus /\ "PENDING" \in ReviewStatus /\ "PENDING" # "APPROVED"
    BY DEF PostStatus, ReviewStatus
  <2> QED
    BY <1>4, <2>1, <2>2, ReplaceSettles DEF AssignCommits
<1>5. ASSUME NEW u \in Deciders, DecideCommits(u) PROVE Settled'
  <2>1. deciding[u] \in Deciding
    BY <1>5 DEF DecideCommits, TypeOK
  <2>2. PICK p \in Posts, d \in Decisions : p = deciding[u].post /\ d = deciding[u].decision
    BY <2>1, RecordTypes
  <2>3. d.review \in ReviewStatus /\ d.post \in PostStatus
        /\ (d.review = "APPROVED" => d.post = "APPROVED")
    BY DEF Decisions
  <2>4. Exists(p) /\ Replace(p, deciding[u].ids, u, d.review)
        /\ status' = [status EXCEPT ![p] = d.post]
    BY <1>5, <2>2 DEF DecideCommits
  <2> QED
    BY <2>3, <2>4, ReplaceSettles
<1>6. CASE ReassignCommits
  BY <1>6, ReassignSettles
<1>7. ASSUME NEW p \in Posts, DeletePost(p) \/ PurgePost(p) PROVE Settled'
  BY <1>7, DeletionSettles
<1> QED
  BY <1>1, <1>2, <1>3, <1>4, <1>5, <1>6, <1>7
     DEF Next, Authors, Assignments, Moderation, Roles, Deletions, EnqueueAssignment,
         ChooseReviewer, AssignSuspends, AssignFails, ForgetFailure, DecideChecks,
         DecideSuspends, DecideFails, Promote, Demote, ReassignReads, ReassignEnds,
         postVars, reviewVars, vars

\* A post whose newest review approves it is public, or where its author has
\* put it since; no rejection that ran at the same time shows in its status.
THEOREM ApprovalDecides == Spec => []ApprovalDecidesStatus
<1>1. Init => Settled
  BY DEF Init, Settled, ApprovalDecidesStatus, Newest, ReviewsOf
<1>2. IInv /\ Settled /\ [Next]_vars => Settled'
  BY SettledStep
<1>3. Settled => ApprovalDecidesStatus
  BY DEF Settled
<1> QED
  BY Invariance, <1>1, <1>2, <1>3, PTL DEF Spec

-----------------------------------------------------------------------------
(* The history of reviews *)

\* The posts that are public.
Public == {p \in Posts : status[p] = "APPROVED"}

\* What a transaction does to the reviews is one step of the history: nothing
\* shows of the suspension before the transaction commits.
LEMMA TransactionAppends ==
    ASSUME TypeOK, IdsInOrder, NEW ids, NEW New \in SUBSET Review, New # {},
           reviews' = Suspended(reviews, ids) \union New,
           \A r \in New : r.active /\ lastId < r.id,
           \A r, q \in New : r.id = q.id => r = q,
           \A r \in reviews : r.id \in ids => \E q \in New : q.post = r.post
    PROVE  Promised!Append /\ Promised!Added = New
<1>1. reviews \in SUBSET Review /\ lastId \in Nat
  BY BoundsAssumption DEF TypeOK
<1>2. Promised!Added = New
  <2>1. \A r \in New, q \in reviews : q.id < r.id
    BY <1>1 DEF IdsInOrder, Review
  <2>2. \A r \in Suspended(reviews, ids) : \E q \in reviews : r.id = q.id /\ q.id \in Nat
    BY <1>1, SuspendedRows DEF Review
  <2> QED
    BY <2>1, <2>2 DEF Promised!Added
<1>3. PICK closed \in SUBSET reviews : closed = {r \in reviews : r.id \in ids}
  OBVIOUS
<1>4. closed \in SUBSET {r \in reviews : r.post \in Promised!PostsAdded}
  BY <1>2, <1>3 DEF Promised!PostsAdded
<1>5. Suspended(reviews, ids) = Promised!Closing(closed)
  <2>1. \A r \in reviews : (r.id \notin ids) = (r \notin closed)
    BY <1>3
  <2> QED
    BY <2>1 DEF Suspended, Promised!Closing
<1> QED
  BY <1>2, <1>4, <1>5 DEF Promised!Append

\* A post's status is set without a review.
LEMMA StatusWithdraws ==
    ASSUME TypeOK, NEW p \in Posts, NEW s, s # "APPROVED", status' = [status EXCEPT ![p] = s]
    PROVE  Public' = Public \ {p}
  BY DEF TypeOK, Public

LEMMA AssignRefines ==
    ASSUME IInv, NEW p \in Posts, AssignCommits(p)
    PROVE  Promised!Append /\ (\A r \in Promised!Added : r.status # "APPROVED")
           /\ Public' = Public \ Promised!PostsAdded
<1>1. assigning[p].by \in Deciders /\ "PENDING" \in ReviewStatus
  BY RecordTypes DEF AssignCommits, IInv, TypeOK, Deciders, ReviewStatus
<1>2. PICK ids : ids = assigning[p].ids
  OBVIOUS
<1>3. Replace(p, ids, assigning[p].by, "PENDING")
  BY <1>2 DEF AssignCommits
<1>4. PICK row \in Review :
         /\ row.id = lastId + 1 /\ row.post = p /\ row.status = "PENDING" /\ row.active
         /\ reviews' = Suspended(reviews, ids) \union {row}
  BY <1>1, <1>3, ReplaceRow DEF IInv
<1>5. lastId \in Nat
  BY <1>1, <1>3, ReplaceRow DEF IInv
<1>6. \A r \in reviews : r.id \in ids => r.post = p
  BY <1>2 DEF AssignCommits, IInv, SuspendsOwn
<1>7. Promised!Append /\ Promised!Added = {row}
  <2> DEFINE New == {row}
  <2>1. /\ New \in SUBSET Review /\ New # {}
        /\ reviews' = Suspended(reviews, ids) \union New
        /\ \A r \in New : r.active /\ lastId < r.id
        /\ \A r, q \in New : r.id = q.id => r = q
        /\ \A r \in reviews : r.id \in ids => \E q \in New : q.post = r.post
    BY <1>4, <1>5, <1>6
  <2>2. TypeOK /\ IdsInOrder
    BY DEF IInv
  <2> HIDE DEF New
  <2>3. Promised!Append /\ Promised!Added = New
    BY <2>1, <2>2, TransactionAppends
  <2> QED
    BY <2>3 DEF New
<1>8. Promised!PostsAdded = {p}
  BY <1>4, <1>7 DEF Promised!PostsAdded
<1>9. Public' = Public \ {p}
  BY StatusWithdraws DEF AssignCommits, IInv
<1> QED
  BY <1>4, <1>7, <1>8, <1>9

LEMMA ReassignRefines ==
    ASSUME IInv, ReassignCommits
    PROVE  Promised!Append /\ (\A r \in Promised!Added : r.status # "APPROVED")
           /\ Public' = Public
<1>1. PICK ids \in SUBSET (1..MaxReviews), New \in SUBSET Review :
         /\ reviews' = Suspended(reviews, ids) \union New
         /\ New # {}
         /\ \A r \in New : r.active /\ lastId < r.id /\ r.status # "APPROVED"
         /\ \A r, q \in New : r.id = q.id => r = q
         /\ \A r \in reviews : r.id \in ids => \E q \in New : q.post = r.post
  BY ReassignRows
<1>2. Promised!Append /\ Promised!Added = New
  BY <1>1, TransactionAppends DEF IInv
<1> QED
  BY <1>1, <1>2 DEF ReassignCommits, postVars, Public

LEMMA DecideRefines ==
    ASSUME IInv, NEW u \in Deciders, DecideCommits(u)
    PROVE  /\ Promised!Append
           /\ \E r \in reviews' :
                 /\ Promised!Added = {r}
                 /\ \/ Public' = Public \union {r.post}
                    \/ r.status # "APPROVED" /\ Public' = Public \ {r.post}
<1>1. deciding[u] \in Deciding
  BY DEF DecideCommits, IInv, TypeOK
<1>2. PICK p \in Posts, d \in Decisions, ids \in {deciding[u].ids} :
         p = deciding[u].post /\ d = deciding[u].decision /\ ids = deciding[u].ids
  BY <1>1, RecordTypes
<1>3. d.review \in ReviewStatus /\ (d.review = "APPROVED" => d.post = "APPROVED")
  BY DEF Decisions
<1>4. Replace(p, ids, u, d.review) /\ status' = [status EXCEPT ![p] = d.post]
  BY <1>2 DEF DecideCommits
<1>5. PICK row \in Review :
         /\ row.id = lastId + 1 /\ row.post = p /\ row.status = d.review /\ row.active
         /\ reviews' = Suspended(reviews, ids) \union {row}
  BY <1>3, <1>4, ReplaceRow DEF IInv
<1>6. lastId \in Nat
  BY <1>3, <1>4, ReplaceRow DEF IInv
<1>7. \A r \in reviews : r.id \in ids => r.post = p
  BY <1>2 DEF DecideCommits, IInv, SuspendsOwn
<1>8. Promised!Append /\ Promised!Added = {row}
  <2> DEFINE New == {row}
  <2>1. /\ New \in SUBSET Review /\ New # {}
        /\ reviews' = Suspended(reviews, ids) \union New
        /\ \A r \in New : r.active /\ lastId < r.id
        /\ \A r, q \in New : r.id = q.id => r = q
        /\ \A r \in reviews : r.id \in ids => \E q \in New : q.post = r.post
    BY <1>5, <1>6, <1>7
  <2>2. TypeOK /\ IdsInOrder
    BY DEF IInv
  <2> HIDE DEF New
  <2>3. Promised!Append /\ Promised!Added = New
    BY <2>1, <2>2, TransactionAppends
  <2> QED
    BY <2>3 DEF New
<1>9. CASE d.post = "APPROVED"
  <2>1. Public' = Public \union {p}
    BY <1>4, <1>9 DEF IInv, TypeOK, Public
  <2> QED
    BY <1>5, <1>8, <2>1
<1>10. CASE d.post # "APPROVED"
  <2>1. Public' = Public \ {p}
    BY <1>4, <1>10, StatusWithdraws DEF IInv
  <2> QED
    BY <1>3, <1>5, <1>8, <1>10, <2>1
<1> QED
  BY <1>9, <1>10

\* The steps that make no review.
LEMMA OthersRefine ==
    ASSUME TypeOK, [Next]_vars, ~ReassignCommits,
           \A p \in Posts : ~AssignCommits(p), \A u \in Deciders : ~DecideCommits(u)
    PROVE  \/ UNCHANGED <<reviews, Public>>
           \/ \E p \in Posts :
                 /\ Public' = Public \ {p}
                 /\ reviews' = reviews \/ reviews' = {r \in reviews : r.post # p}
<1>1. CASE UNCHANGED <<reviews, status>>
  BY <1>1 DEF Public
<1>2. ASSUME NEW p \in Posts,
             \/ \E isDraft \in BOOLEAN : CreatePost(p, isDraft)
             \/ UpdatePost(p) \/ SetPostStatus(p) \/ DeletePost(p) \/ PurgePost(p)
      PROVE  /\ Public' = Public \ {p}
             /\ reviews' = reviews \/ reviews' = {r \in reviews : r.post # p}
  <2>1. PICK s : s # "APPROVED" /\ status' = [status EXCEPT ![p] = s]
    BY <1>2 DEF CreatePost, UpdatePost, SetPostStatus, DeletePost, PurgePost
  <2>2. reviews' = reviews \/ reviews' = {r \in reviews : r.post # p}
    BY <1>2 DEF CreatePost, UpdatePost, SetPostStatus, DeletePost, PurgePost, ReviewsOf,
                reviewVars
  <2> QED
    BY <2>1, <2>2, StatusWithdraws
<1> QED
  BY <1>1, <1>2
     DEF Next, Authors, Assignments, Moderation, Roles, Deletions, EnqueueAssignment,
         ChooseReviewer, AssignSuspends, AssignFails, ForgetFailure, DecideChecks,
         DecideSuspends, DecideFails, Promote, Demote, ReassignReads, ReassignEnds,
         postVars, reviewVars, vars

(***************************************************************************)
(* Posts implement ReviewHistory: what transactions that interleave do to  *)
(* the reviews is what one writer at a time would do.  No review is        *)
(* rewritten or lost, one closes only when a newer one of its post takes   *)
(* over, and a post becomes public in the step that records the decision.  *)
(***************************************************************************)
THEOREM HistoryRefinement == Spec => ImplementsHistory
<1>1. Init => Promised!HistoryInit
  BY DEF Init, Promised!HistoryInit
<1>2. IInv /\ [Next]_vars => [Promised!HistoryNext]_<<reviews, Public>>
  <2> SUFFICES ASSUME IInv, [Next]_vars PROVE [Promised!HistoryNext]_<<reviews, Public>>
    OBVIOUS
  <2>1. ASSUME NEW p \in Posts, AssignCommits(p) PROVE Promised!Assign
    BY <2>1, AssignRefines DEF Promised!Assign, Public
  <2>2. CASE ReassignCommits
    BY <2>2, ReassignRefines DEF Promised!Assign, Promised!HistoryNext, Public
  <2>3. ASSUME NEW u \in Deciders, DecideCommits(u) PROVE Promised!Decide
    BY <2>3, DecideRefines DEF Promised!Decide, Public
  <2>4. CASE /\ ~ReassignCommits /\ \A p \in Posts : ~AssignCommits(p)
             /\ \A u \in Deciders : ~DecideCommits(u)
    BY <2>4, OthersRefine
       DEF IInv, Promised!HistoryNext, Promised!Withdraw, Promised!Purge, Public
  <2> QED
    BY <2>1, <2>2, <2>3, <2>4 DEF Promised!HistoryNext
<1> QED
  BY <1>1, <1>2, Invariance, PTL DEF Spec, ImplementsHistory, Promised!HistorySpec, Public

=============================================================================

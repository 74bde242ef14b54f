--------------------------- MODULE PostCacheProofs ---------------------------
(***************************************************************************)
(* What holds of PostCache for any number of users, posts, comments and    *)
(* requests.                                                               *)
(***************************************************************************)
EXTENDS PostCache, FiniteSetTheorems, TLAPS

\* A writer that has yet to enqueue has all its patterns before it.
PatternsAreWhole ==
    \A r \in Requests :
        At(r, "enqueue") => request[r].patterns = MutationPatterns(request[r].subject)

Counted ==
    \A s \in Subjects :
        /\ likes[s] \subseteq users /\ lost[s] \intersect users = {}
        /\ total[s] = Cardinality(likes[s]) + Cardinality(lost[s])

RowTypes ==
    /\ status \in [Subjects -> Status]
    /\ review \in [Posts -> ReviewStatus]
    /\ likes \in [Subjects -> SUBSET Users]
    /\ total \in [Subjects -> Nat]
    /\ lost \in [Subjects -> SUBSET Users]
    /\ users \in SUBSET Users
    /\ jobs \in SUBSET Posts
Rest == Filling \union Deleting \union Toggling \union {None}
Copies == [Keys -> Copy \union {None}]

IInv == /\ RowTypes /\ cache \in Copies /\ request \in [Requests -> Rest]
        /\ Counted /\ PatternsAreWhole /\ CopiesAreCurrent

LEMMA TypeParts ==
    TypeOK <=> RowTypes /\ cache \in Copies /\ request \in [Requests -> Rest]
  BY DEF TypeOK, RowTypes, Rest, Copies

-----------------------------------------------------------------------------
(***************************************************************************)
(* Records                                                                 *)
(***************************************************************************)
LEMMA CopyFacts ==
    ASSUME NEW c \in Copy
    PROVE  /\ c # None
           /\ Spared(c) \in Copy
           /\ Spared(c).rows = c.rows
           /\ Spared(c).spared
  BY NoneAssumption DEF Copy, Spared

\* A reader whose copy was spared.
SparedReader(q) == [q EXCEPT !.copy = Spared(@)]

LEMMA FillingFacts ==
    ASSUME NEW q \in Filling
    PROVE  /\ q # None /\ q.op = "fill" /\ q.key \in Keys /\ q.copy \in Copy
           /\ SparedReader(q) \in Filling
           /\ SparedReader(q).key = q.key
           /\ SparedReader(q).copy = Spared(q.copy)
  <1>1. q # None /\ q.op = "fill" /\ q.key \in Keys /\ q.copy \in Copy
    BY NoneAssumption DEF Filling
  <1> QED
    BY <1>1, CopyFacts DEF Filling, SparedReader

LEMMA FillingMakes ==
    ASSUME NEW k \in Keys, NEW c \in Copy
    PROVE  [op |-> "fill", key |-> k, copy |-> c] \in Filling
  BY DEF Filling

LEMMA DeletingFacts ==
    ASSUME NEW q \in Deleting
    PROVE  /\ q # None /\ q.op \in {"enqueue", "delete"} /\ q.subject \in Subjects
           /\ q.patterns \in Seq(SUBSET Keys)
           /\ [q EXCEPT !.op = "delete"] \in Deleting
           /\ [q EXCEPT !.op = "delete"].op = "delete"
           /\ [q EXCEPT !.op = "delete"].patterns = q.patterns
           /\ \A t \in Seq(SUBSET Keys) :
                 /\ [q EXCEPT !.patterns = t] \in Deleting
                 /\ [q EXCEPT !.patterns = t].op = q.op
                 /\ [q EXCEPT !.patterns = t].patterns = t
  BY NoneAssumption DEF Deleting

LEMMA DeletingMakes ==
    ASSUME NEW op \in {"enqueue", "delete"}, NEW s \in Subjects,
           NEW patterns \in Seq(SUBSET Keys)
    PROVE  /\ Owing(op, s, patterns) \in Deleting
           /\ Owing(op, s, patterns).op = op
           /\ Owing(op, s, patterns).subject = s
           /\ Owing(op, s, patterns).patterns = patterns
  BY DEF Deleting, Owing

LEMMA TogglingFacts ==
    /\ \A q \in Toggling :
          /\ q # None /\ q.op \in {"check", "toggle"}
          /\ q.user \in Users /\ q.subject \in Subjects /\ q.liked \in BOOLEAN
          /\ \A b \in BOOLEAN :
                /\ [q EXCEPT !.op = "toggle", !.liked = b] \in Toggling
                /\ [q EXCEPT !.op = "toggle", !.liked = b].op = "toggle"
    /\ \A u \in Users, s \in Subjects :
          [op |-> "check", user |-> u, subject |-> s, liked |-> FALSE] \in Toggling
  BY NoneAssumption DEF Toggling

\* What a request is tells what it holds.
LEMMA RequestFacts ==
    ASSUME request \in [Requests -> Rest], NEW r \in Requests
    PROVE  /\ At(r, "fill") => request[r] \in Filling
           /\ At(r, "enqueue") \/ At(r, "delete") => request[r] \in Deleting
           /\ At(r, "check") \/ At(r, "toggle") => request[r] \in Toggling
           /\ request[r] \in Filling => At(r, "fill")
           /\ ~Idle(r) => request[r] \in Filling \union Deleting \union Toggling
  <1>1. request[r] \in Filling \/ request[r] \in Deleting \/ request[r] \in Toggling
            \/ request[r] = None
    BY DEF Rest
  <1>2. CASE request[r] \in Filling
    BY <1>2, FillingFacts DEF At, Idle
  <1>3. CASE request[r] \in Deleting
    BY <1>3, DeletingFacts, FillingFacts DEF At, Idle
  <1>4. CASE request[r] \in Toggling
    BY <1>4, TogglingFacts, FillingFacts DEF At, Idle
  <1>5. CASE request[r] = None
    BY <1>5, FillingFacts DEF At, Idle
  <1> QED
    BY <1>1, <1>2, <1>3, <1>4, <1>5

-----------------------------------------------------------------------------
(***************************************************************************)
(* Keys, patterns and what the rows show                                   *)
(***************************************************************************)
LEMMA KeyFacts ==
    ASSUME NEW k \in Keys
    PROVE  /\ k.scope \in {"post", "public", "user", "staff", "comments"}
           /\ k.scope \in {"post", "comments"} => k.post \in Posts
           /\ k.scope = "user" => k.viewer \in Users
  BY DEF Keys, Key

LEMMA KeyMakes ==
    /\ \A viewer \in Viewers, p \in Posts :
          /\ [scope |-> "post", viewer |-> viewer, post |-> p] \in Keys
          /\ [scope |-> "comments", viewer |-> viewer, post |-> p] \in Keys
    /\ \A viewer \in Viewers : [scope |-> "public", viewer |-> viewer, post |-> None] \in Keys
    /\ \A u \in Users : [scope |-> "user", viewer |-> u, post |-> None] \in Keys
    /\ [scope |-> "staff", viewer |-> None, post |-> None] \in Keys
  BY DEF Keys, Key

\* The keys under which a post or comment shows.
Shows(s) == IF s \in Posts THEN OfAllLists(s) ELSE OfPost("comments", PostOf[s])
Within(patterns) == UNION {patterns[i] : i \in DOMAIN patterns}

LEMMA PatternFacts ==
    ASSUME NEW s \in Subjects
    PROVE  /\ MutationPatterns(s) \in Seq(SUBSET Keys)
           /\ Shows(s) \subseteq Within(MutationPatterns(s))
  <1>1. CASE s \in Posts
    <2> DEFINE a == OfPost("post", s)
               b == Scoped("user")
               c == Scoped("public")
               d == Scoped("staff")
    <2>1. a \in SUBSET Keys /\ b \in SUBSET Keys /\ c \in SUBSET Keys /\ d \in SUBSET Keys
      BY DEF OfPost, Scoped
    <2>2. MutationPatterns(s) = <<a, b, c, d>>
      BY <1>1 DEF MutationPatterns
    <2>3. Shows(s) = a \union b \union c \union d
      BY <1>1 DEF Shows, OfAllLists
    <2> HIDE DEF a, b, c, d
    <2> QED
      BY <2>1, <2>2, <2>3 DEF Within
  <1>2. CASE s \notin Posts
    <2> DEFINE a == OfPost("comments", PostOf[s])
    <2>1. a \in SUBSET Keys
      BY DEF OfPost, Scoped
    <2>2. MutationPatterns(s) = <<a>> /\ Shows(s) = a
      BY <1>2 DEF MutationPatterns, Shows
    <2> HIDE DEF a
    <2> QED
      BY <2>1, <2>2 DEF Within
  <1> QED
    BY <1>1, <1>2

LEMMA LikePatternFacts ==
    ASSUME NEW s \in Subjects, NEW u \in Users
    PROVE  /\ LikePatterns(s, u) \in Seq(SUBSET Keys)
           /\ Shows(s) \subseteq Within(LikePatterns(s, u)) \union LikeLeaves(s, u)
  <1>1. CASE s \in Posts
    <2> DEFINE a == OfPost("post", s)
               b == OfViewer("public", u)
               c == OfViewer("user", u)
    <2>1. a \in SUBSET Keys /\ b \in SUBSET Keys /\ c \in SUBSET Keys
      BY DEF OfPost, OfViewer, Scoped
    <2>2. LikePatterns(s, u) = <<a, b, c>>
      BY <1>1 DEF LikePatterns
    <2>3. Shows(s) \subseteq a \union b \union c \union LikeLeaves(s, u)
      BY <1>1 DEF Shows, OfAllLists, LikeLeaves, OfViewer
    <2> HIDE DEF a, b, c
    <2> QED
      BY <2>1, <2>2, <2>3 DEF Within
  <1>2. CASE s \notin Posts
    <2> DEFINE a == OfPost("comments", PostOf[s])
    <2>1. a \in SUBSET Keys
      BY DEF OfPost, Scoped
    <2>2. LikePatterns(s, u) = <<a>> /\ Shows(s) = a
      BY <1>2 DEF LikePatterns, Shows
    <2> HIDE DEF a
    <2> QED
      BY <2>1, <2>2 DEF Within
  <1> QED
    BY <1>1, <1>2

LEMMA ViewType ==
    ASSUME RowTypes, NEW k \in Keys
    PROVE  [rows |-> View(k), spared |-> FALSE] \in Copy
  <1> DEFINE R == [subject : Subjects, status : Status, total : Nat, likedByMe : BOOLEAN]
  <1>1. \A s \in Subjects : \A viewer : Row(s, viewer) \in R
    BY DEF RowTypes, Row
  <1> HIDE DEF R
  <1>2. /\ PostById(k.post, k.viewer) \subseteq R \/ k.scope # "post"
        /\ PublicList(k.viewer) \subseteq R
        /\ UserList(k.viewer) \subseteq R
        /\ StaffList \subseteq R
        /\ CommentsList(k.post, k.viewer) \subseteq R
    BY <1>1, KeyFacts DEF PostById, PublicList, UserList, StaffList, CommentsList, Subjects
  <1>3. View(k) \in SUBSET R
    BY <1>2, KeyFacts DEF View
  <1> QED
    BY <1>3 DEF Copy, R

\* Rows that show under a key are all that the view of it depends on.
LEMMA ViewSame ==
    ASSUME NEW s \in Subjects, NEW k \in Keys, k \notin Shows(s),
           \A x \in Subjects \ {s} :
               status'[x] = status[x] /\ likes'[x] = likes[x] /\ total'[x] = total[x],
           \A p \in Posts \ {s} : review'[p] = review[p]
    PROVE  View(k)' = View(k)
  <1>1. \A x \in Subjects \ {s} : \A viewer : Row(x, viewer)' = Row(x, viewer)
    BY DEF Row
  <1>2. CASE k.scope = "post"
    <2>1. k.post \in Posts /\ k.post # s
      BY <1>2, KeyFacts, SubjectsAssumption DEF Shows, OfAllLists, OfPost, Scoped, Subjects
    <2>2. PostById(k.post, k.viewer)' = PostById(k.post, k.viewer)
      BY <1>1, <2>1 DEF PostById, Subjects
    <2> QED
      BY <1>2, <2>2 DEF View
  <1>3. CASE k.scope \in {"public", "user", "staff"}
    <2>1. s \notin Posts
      BY <1>3 DEF Shows, OfAllLists, Scoped
    <2>2. /\ PublicList(k.viewer)' = PublicList(k.viewer)
          /\ UserList(k.viewer)' = UserList(k.viewer)
          /\ StaffList' = StaffList
      BY <1>1, <2>1 DEF PublicList, UserList, StaffList, Subjects, Exists
    <2> QED
      BY <1>3, <2>2 DEF View
  <1>4. CASE k.scope = "comments"
    <2>1. \A x \in Comments : PostOf[x] = k.post => x # s
      BY <1>4, SubjectsAssumption DEF Shows, OfPost, Scoped
    <2>2. CommentsList(k.post, k.viewer)' = CommentsList(k.post, k.viewer)
      BY <1>1, <2>1 DEF CommentsList, Subjects
    <2> QED
      BY <1>4, <2>2 DEF View
  <1> QED
    BY <1>2, <1>3, <1>4, KeyFacts

LEMMA ViewUnchanged ==
    ASSUME UNCHANGED <<status, likes, total, review>>, NEW k
    PROVE  View(k)' = View(k)
  BY DEF View, PostById, PublicList, UserList, StaffList, CommentsList, Row, Exists

-----------------------------------------------------------------------------
(***************************************************************************)
(* Copies that are left behind                                             *)
(***************************************************************************)
\* What becomes of copies, of readers, and of what writers owe.
Keeps(copies) ==
    \A k \in Keys : copies[k] # None =>
        /\ cache[k] # None
        /\ copies[k].rows = cache[k].rows
        /\ cache[k].spared => copies[k].spared

KeepsReaders(requests) ==
    \A r \in Requests : requests[r] # None /\ requests[r].op = "fill" =>
        /\ At(r, "fill")
        /\ requests[r].key = request[r].key
        /\ requests[r].copy.rows = request[r].copy.rows
        /\ request[r].copy.spared => requests[r].copy.spared

\* Every copy under a key is spared, or none is there.
AllSpared(copies, requests, k) ==
    /\ copies[k] # None => copies[k].spared
    /\ \A r \in Requests :
          requests[r] # None /\ requests[r].op = "fill" /\ requests[r].key = k =>
              requests[r].copy.spared

LEMMA SparedInFacts ==
    ASSUME cache \in Copies, NEW keys
    PROVE  /\ SparedIn(cache, keys) \in Copies
           /\ Keeps(SparedIn(cache, keys))
           /\ \A k \in Keys \intersect keys :
                 SparedIn(cache, keys)[k] # None => SparedIn(cache, keys)[k].spared
  <1>1. \A k \in Keys : cache[k] # None => cache[k] \in Copy
    BY DEF Copies
  <1> QED
    BY <1>1, CopyFacts DEF SparedIn, Copies, Keeps

LEMMA SparedByFacts ==
    ASSUME NEW requests \in [Requests -> Rest], NEW keys
    PROVE  /\ SparedBy(requests, keys) \in [Requests -> Rest]
           /\ \A r \in Requests :
                 \/ requests[r] \notin Filling /\ SparedBy(requests, keys)[r] = requests[r]
                 \/ /\ requests[r] \in Filling
                    /\ requests[r].key \notin keys
                    /\ SparedBy(requests, keys)[r] = requests[r]
                 \/ /\ requests[r] \in Filling
                    /\ SparedBy(requests, keys)[r] = SparedReader(requests[r])
  <1>1. ASSUME NEW r \in Requests
        PROVE  requests[r] \in Filling <=> requests[r] # None /\ requests[r].op = "fill"
    <2>1. requests[r] \in Filling \/ requests[r] \in Deleting \/ requests[r] \in Toggling
              \/ requests[r] = None
      BY DEF Rest
    <2> QED
      BY <2>1, FillingFacts, DeletingFacts, TogglingFacts
  <1>2. SparedBy(requests, keys) = [r \in Requests |->
            IF requests[r] \in Filling /\ requests[r].key \in keys
            THEN SparedReader(requests[r]) ELSE requests[r]]
    BY <1>1 DEF SparedBy, SparedReader
  <1> QED
    BY <1>2, FillingFacts DEF Rest

\* The same of the requests there are.
LEMMA SparedReaders ==
    ASSUME request \in [Requests -> Rest], NEW keys
    PROVE  /\ KeepsReaders(SparedBy(request, keys))
           /\ \A r \in Requests : LET q == SparedBy(request, keys)[r] IN
                 /\ ~At(r, "fill") => q = request[r]
                 /\ At(r, "fill") => q \in Filling
                 /\ At(r, "fill") /\ q.key \in keys => q.copy.spared
  <1> DEFINE Q(r) == SparedBy(request, keys)[r]
  <1>1. ASSUME NEW r \in Requests, At(r, "fill")
        PROVE  /\ Q(r) \in Filling /\ Q(r).key = request[r].key
               /\ Q(r).copy.rows = request[r].copy.rows
               /\ request[r].copy.spared => Q(r).copy.spared
               /\ Q(r).key \in keys => Q(r).copy.spared
    <2>1. request[r] \in Filling
      BY <1>1, RequestFacts
    <2>2. \/ Q(r) = request[r] /\ request[r].key \notin keys
          \/ Q(r) = SparedReader(request[r])
      BY <2>1, SparedByFacts
    <2>3. CASE Q(r) = request[r] /\ request[r].key \notin keys
      BY <2>1, <2>3
    <2>4. CASE Q(r) = SparedReader(request[r])
      BY <2>1, <2>4, FillingFacts, CopyFacts
    <2> QED
      BY <2>2, <2>3, <2>4
  <1>2. ASSUME NEW r \in Requests, ~At(r, "fill")
        PROVE  Q(r) = request[r] /\ ~(Q(r) # None /\ Q(r).op = "fill")
    BY <1>2, SparedByFacts, RequestFacts DEF At, Idle
  <1> QED
    BY <1>1, <1>2 DEF KeepsReaders

\* Copies are current again if each key shows what it did and is owed what it
\* was, or is owed, or has no copy that is not spared.
LEMMA CopiesKept ==
    ASSUME CopiesAreCurrent, request \in [Requests -> Rest],
           Keeps(cache'), KeepsReaders(request'),
           \A k \in Keys : \/ View(k)' = View(k) /\ (Owed(k) => Owed(k)')
                           \/ Owed(k)'
                           \/ AllSpared(cache', request', k)
    PROVE  CopiesAreCurrent'
  <1>1. ASSUME NEW k \in Keys, cache'[k] # None
        PROVE  cache'[k].rows = View(k)' \/ cache'[k].spared \/ Owed(k)'
    BY <1>1 DEF CopiesAreCurrent, Keeps, AllSpared
  <1>2. ASSUME NEW r \in Requests, NEW k \in Keys, At(r, "fill")', request'[r].key = k
        PROVE  request'[r].copy.rows = View(k)' \/ request'[r].copy.spared \/ Owed(k)'
    <2>1. At(r, "fill") /\ k = request[r].key
      BY <1>2 DEF KeepsReaders, At, Idle
    <2>2. request[r].copy.rows = View(k) \/ request[r].copy.spared \/ Owed(k)
      BY <2>1 DEF CopiesAreCurrent
    <2>3. /\ request'[r].copy.rows = request[r].copy.rows
          /\ request[r].copy.spared => request'[r].copy.spared
      BY <1>2 DEF KeepsReaders, At, Idle
    <2>4. AllSpared(cache', request', k) => request'[r].copy.spared
      BY <1>2 DEF AllSpared, At, Idle
    <2> QED
      BY <2>2, <2>3, <2>4
  <1> QED
    BY <1>1, <1>2 DEF CopiesAreCurrent

\* A change of rows that leaves behind the copies of some keys.
LEMMA SilentKeeps ==
    ASSUME CopiesAreCurrent, cache \in Copies, request \in [Requests -> Rest],
           NEW keys, Silently(keys),
           \A k \in Keys \ keys : View(k)' = View(k)
    PROVE  /\ CopiesAreCurrent'
           /\ cache' \in Copies /\ request' \in [Requests -> Rest]
           /\ \A r \in Requests : ~At(r, "fill") => request'[r] = request[r]
           /\ \A r \in Requests : At(r, "fill") => At(r, "fill")'
  <1>1. Keeps(cache') /\ KeepsReaders(request')
    BY SparedInFacts, SparedReaders DEF Silently
  <1>2. \A r \in Requests : ~At(r, "fill") => request'[r] = request[r]
    BY SparedReaders DEF Silently
  <1>3. \A r \in Requests : At(r, "fill") => At(r, "fill")'
    BY SparedReaders, FillingFacts DEF Silently, At, Idle
  <1>4. ASSUME NEW k \in Keys, Owed(k) PROVE Owed(k)'
    BY <1>2, <1>4 DEF Owed, At, Idle
  <1>5. \A k \in keys \intersect Keys : AllSpared(cache', request', k)
    <2>1. \A r \in Requests : At(r, "fill")' => At(r, "fill")
      BY <1>1 DEF KeepsReaders, At, Idle
    <2> QED
      BY <2>1, SparedInFacts, SparedReaders DEF Silently, AllSpared, At, Idle
  <1>6. CopiesAreCurrent'
    BY <1>1, <1>4, <1>5, CopiesKept
  <1> QED
    BY <1>2, <1>3, <1>6, SparedInFacts, SparedByFacts DEF Silently

-----------------------------------------------------------------------------
(***************************************************************************)
(* Steps of a request                                                      *)
(***************************************************************************)
Owes(r, k) ==
    /\ At(r, "enqueue") \/ At(r, "delete")
    /\ \E i \in DOMAIN request[r].patterns : k \in request[r].patterns[i]

LEMMA SparedByNone ==
    ASSUME request \in [Requests -> Rest]
    PROVE  SparedBy(request, {}) = request
  BY DEF SparedBy

\* A request that is not a reader goes on to q, and the copies of some keys are
\* left behind.
LEMMA RequestStep ==
    ASSUME request \in [Requests -> Rest], NEW keys, NEW r \in Requests, ~At(r, "fill"),
           NEW q \in Deleting \union Toggling \union {None},
           request' = [SparedBy(request, keys) EXCEPT ![r] = q],
           PatternsAreWhole,
           q \in Deleting /\ q.op = "enqueue" => q.patterns = MutationPatterns(q.subject)
    PROVE  /\ request' \in [Requests -> Rest]
           /\ KeepsReaders(request')
           /\ PatternsAreWhole'
           /\ \A x \in Requests : At(x, "fill")' /\ request'[x].key \in keys =>
                 request'[x].copy.spared
           /\ \A k : Owed(k) => Owed(k)' \/ Owes(r, k)
           /\ q \in Deleting => \A k \in Within(q.patterns) : Owed(k)'
  <1> DEFINE S == SparedBy(request, keys)
  <1>1. S \in [Requests -> Rest]
    BY SparedByFacts
  <1>2. request'[r] = q /\ \A x \in Requests \ {r} : request'[x] = S[x]
    BY <1>1
  <1>3. request' \in [Requests -> Rest]
    BY <1>1, <1>2 DEF Rest
  <1>4. ~(q # None /\ q.op = "fill")
    BY DeletingFacts, TogglingFacts
  <1>5. \A x \in Requests : request'[x] # None /\ request'[x].op = "fill" =>
            x # r /\ At(x, "fill") /\ request'[x] = S[x]
    BY <1>2, <1>4, SparedReaders DEF KeepsReaders, At, Idle
  <1>6. KeepsReaders(request')
    BY <1>5, SparedReaders DEF KeepsReaders
  <1>7. \A x \in Requests \ {r} : ~At(x, "fill") => request'[x] = request[x]
    BY <1>2, SparedReaders
  <1>8. \A x \in Requests \ {r} : At(x, "fill") => At(x, "fill")'
    BY <1>2, SparedReaders, FillingFacts DEF At, Idle
  <1>9. ASSUME NEW x \in Requests, At(x, "enqueue")'
        PROVE  request'[x].patterns = MutationPatterns(request'[x].subject)
    <2>1. CASE x = r
      <3>1. q \in Deleting
        BY <1>2, <1>9, <2>1, TogglingFacts DEF At, Idle
      <3> QED
        BY <1>2, <1>9, <2>1, <3>1 DEF At
    <2>2. CASE x # r
      <3>1. ~At(x, "fill")
        BY <1>8, <1>9, <2>2 DEF At
      <3> QED
        BY <1>7, <1>9, <2>2, <3>1 DEF PatternsAreWhole, At, Idle
    <2> QED
      BY <2>1, <2>2
  <1>10. PatternsAreWhole'
    <2>1. \A u \in Subjects : MutationPatterns(u)' = MutationPatterns(u)
      BY DEF MutationPatterns
    <2> QED
      BY <1>9 DEF PatternsAreWhole
  <1>11. \A x \in Requests : At(x, "fill")' /\ request'[x].key \in keys => request'[x].copy.spared
    BY <1>5, SparedReaders DEF At, Idle
  <1>12. ASSUME NEW k, Owed(k), ~Owes(r, k) PROVE Owed(k)'
    <2>1. PICK x \in Requests : Owes(x, k)
      BY <1>12 DEF Owed, Owes
    <2>2. x # r /\ ~At(x, "fill")
      BY <1>12, <2>1 DEF Owes, At
    <2>3. request'[x] = request[x]
      BY <1>7, <2>2
    <2> QED
      BY <2>1, <2>3 DEF Owes, Owed, At, Idle
  <1>13. ASSUME q \in Deleting, NEW k \in Within(q.patterns) PROVE Owed(k)'
    <2>1. At(r, "enqueue")' \/ At(r, "delete")'
      BY <1>2, <1>13, DeletingFacts DEF At, Idle
    <2>2. \E i \in DOMAIN q.patterns : k \in q.patterns[i]
      BY <1>13 DEF Within
    <2> QED
      BY <1>2, <2>1, <2>2 DEF Owed
  <1> QED
    BY <1>3, <1>6, <1>10, <1>11, <1>12, <1>13

\* A step that leaves rows and copies alone, and owes what was owed.
LEMMA QuietStep ==
    ASSUME CopiesAreCurrent, request \in [Requests -> Rest], KeepsReaders(request'),
           UNCHANGED <<rowVars, cache>>, \A k \in Keys : Owed(k) => Owed(k)'
    PROVE  CopiesAreCurrent'
  <1>1. \A k \in Keys : View(k)' = View(k)
    BY ViewUnchanged DEF rowVars, likeVars
  <1>2. Keeps(cache')
    BY DEF Keeps
  <1> QED
    BY <1>1, <1>2, CopiesKept

\* A writer changes what shows of one post or comment, and owes all its patterns.
LEMMA WriterStep ==
    ASSUME IInv, NEW r \in Requests, Idle(r), NEW s \in Subjects,
           NEW op \in {"enqueue", "delete"}, Owe(r, op, s), UNCHANGED cache,
           \A x \in Subjects \ {s} :
               status'[x] = status[x] /\ likes'[x] = likes[x] /\ total'[x] = total[x],
           \A p \in Posts \ {s} : review'[p] = review[p]
    PROVE  /\ cache' \in Copies /\ request' \in [Requests -> Rest]
           /\ PatternsAreWhole' /\ CopiesAreCurrent'
  <1> DEFINE q == Owing(op, s, MutationPatterns(s))
  <1>1. /\ q \in Deleting /\ q.patterns = MutationPatterns(s) /\ q.subject = s
        /\ Shows(s) \subseteq Within(MutationPatterns(s))
    BY PatternFacts, DeletingMakes
  <1>2. request' = [SparedBy(request, {}) EXCEPT ![r] = q]
    BY SparedByNone DEF Owe, IInv
  <1>3. ~At(r, "fill") /\ \A k : ~Owes(r, k)
    BY DEF At, Owes
  <1> HIDE DEF q
  <1>4. /\ request' \in [Requests -> Rest] /\ KeepsReaders(request') /\ PatternsAreWhole'
        /\ \A k : Owed(k) => Owed(k)'
        /\ \A k \in Shows(s) : Owed(k)'
    BY <1>1, <1>2, <1>3, RequestStep DEF IInv
  <1>5. \A k \in Keys \ Shows(s) : View(k)' = View(k)
    BY ViewSame
  <1>6. Keeps(cache')
    BY DEF Keeps
  <1> QED
    BY <1>4, <1>5, <1>6, CopiesKept DEF IInv

LEMMA CountedStays == ASSUME Counted, UNCHANGED likeVars PROVE Counted'
  BY DEF Counted, likeVars

-----------------------------------------------------------------------------
(***************************************************************************)
(* Readers, and copies that expire                                         *)
(***************************************************************************)
LEMMA ReadStep ==
    ASSUME IInv, NEW r \in Requests, NEW k \in Keys, Idle(r), UNCHANGED <<rowVars, cache>>,
           request' = [request EXCEPT ![r] =
               [op |-> "fill", key |-> k, copy |-> [rows |-> View(k), spared |-> FALSE]]]
    PROVE  IInv'
  <1> DEFINE copy == [rows |-> View(k), spared |-> FALSE]
             q == [op |-> "fill", key |-> k, copy |-> copy]
  <1>1. copy \in Copy /\ q \in Filling
    BY ViewType, FillingMakes DEF IInv
  <1>2. q.op = "fill" /\ q.key = k /\ q.copy.rows = View(k)
    OBVIOUS
  <1>3. request' = [request EXCEPT ![r] = q]
    OBVIOUS
  <1> HIDE DEF copy, q
  <1>4. request' \in [Requests -> Rest] /\ request'[r] = q
        /\ \A x \in Requests \ {r} : request'[x] = request[x]
    BY <1>1, <1>3 DEF IInv, Rest
  <1>5. \A j \in Keys : View(j)' = View(j)
    BY ViewUnchanged DEF rowVars, likeVars
  <1>6. \A j : Owed(j) => Owed(j)'
    BY <1>4 DEF Owed, At, Idle
  <1>7. CopiesAreCurrent'
    <2>1. \A j \in Keys : cache'[j] # None =>
              cache'[j].rows = View(j)' \/ cache'[j].spared \/ Owed(j)'
      BY <1>5, <1>6 DEF IInv, CopiesAreCurrent
    <2>2. ASSUME NEW x \in Requests, NEW j \in Keys, At(x, "fill")', request'[x].key = j
          PROVE  request'[x].copy.rows = View(j)' \/ request'[x].copy.spared \/ Owed(j)'
      <3>1. CASE x = r
        BY <1>2, <1>4, <1>5, <2>2, <3>1
      <3>2. CASE x # r
        BY <1>4, <1>5, <1>6, <2>2, <3>2 DEF IInv, CopiesAreCurrent, At, Idle
      <3> QED
        BY <3>1, <3>2
    <2> QED
      BY <2>1, <2>2 DEF CopiesAreCurrent
  <1>8. PatternsAreWhole'
    <2>1. \A x \in Requests : At(x, "enqueue")' => x # r /\ At(x, "enqueue")
      BY <1>2, <1>4 DEF At, Idle
    <2>2. \A u \in Subjects : MutationPatterns(u)' = MutationPatterns(u)
      BY DEF MutationPatterns
    <2> QED
      BY <1>4, <2>1, <2>2 DEF PatternsAreWhole, IInv
  <1> QED
    BY <1>4, <1>7, <1>8, CountedStays DEF IInv, RowTypes, rowVars, likeVars

LEMMA ReadersStep ==
    ASSUME IInv, NEW r \in Requests,
           \/ \E viewer \in Viewers : GetAllPublicPosts(r, viewer)
           \/ \E u \in Users : GetUserPosts(r, u)
           \/ \E viewer \in Viewers, p \in Posts : FindById(r, viewer, p)
           \/ \E viewer \in Viewers, p \in Posts : GetCommentsByPostId(r, viewer, p)
           \/ GetAllStaffPosts(r)
    PROVE  IInv'
  <1>1. PICK scope, viewer, p :
            /\ [scope |-> scope, viewer |-> viewer, post |-> p] \in Keys
            /\ Read(r, scope, viewer, p)
    BY KeyMakes DEF GetAllPublicPosts, GetUserPosts, FindById, GetCommentsByPostId,
         GetAllStaffPosts
  <1> QED
    BY <1>1, ReadStep DEF Read

LEMMA FillStep ==
    ASSUME IInv, NEW r \in Requests, Fill(r)
    PROVE  IInv'
  <1> DEFINE q == request[r]
  <1>1. q \in Filling /\ q.key \in Keys /\ q.copy \in Copy
    BY RequestFacts, FillingFacts DEF Fill, IInv
  <1>2. /\ request' = [SparedBy(request, {}) EXCEPT ![r] = None]
        /\ request' = [request EXCEPT ![r] = None]
    BY SparedByNone DEF Fill, IInv
  <1>3. /\ request' \in [Requests -> Rest] /\ request'[r] = None
        /\ \A x \in Requests \ {r} : request'[x] = request[x]
    BY <1>2 DEF IInv, Rest
  <1>4. \A j \in Keys : View(j)' = View(j)
    BY ViewUnchanged DEF Fill, rowVars, likeVars
  <1>5. \A j : Owed(j) => Owed(j)'
    BY <1>3 DEF Owed, At, Idle, Fill
  <1>6. cache' \in Copies /\ \A k \in Keys : cache'[k] = cache[k] \/ (k = q.key /\ cache'[k] = q.copy)
    BY <1>1 DEF IInv, Copies, Fill
  <1>7. q.copy.rows = View(q.key) \/ q.copy.spared \/ Owed(q.key)
    BY <1>1 DEF Fill, IInv, CopiesAreCurrent
  <1> HIDE DEF q
  <1>8. CopiesAreCurrent'
    <2>1. \A k \in Keys : cache'[k] # None =>
              cache'[k].rows = View(k)' \/ cache'[k].spared \/ Owed(k)'
      BY <1>4, <1>5, <1>6, <1>7 DEF IInv, CopiesAreCurrent
    <2>2. \A x \in Requests, k \in Keys : At(x, "fill")' /\ request'[x].key = k =>
              request'[x].copy.rows = View(k)' \/ request'[x].copy.spared \/ Owed(k)'
      BY <1>3, <1>4, <1>5 DEF IInv, CopiesAreCurrent, At, Idle
    <2> QED
      BY <2>1, <2>2 DEF CopiesAreCurrent
  <1>9. PatternsAreWhole'
    <2>1. \A x \in Requests : At(x, "enqueue")' => x # r /\ At(x, "enqueue")
      BY <1>3 DEF At, Idle
    <2>2. \A u \in Subjects : MutationPatterns(u)' = MutationPatterns(u)
      BY DEF MutationPatterns
    <2> QED
      BY <1>3, <2>1, <2>2 DEF PatternsAreWhole, IInv
  <1> QED
    BY <1>3, <1>6, <1>8, <1>9, CountedStays DEF IInv, RowTypes, Fill, rowVars, likeVars

LEMMA ExpireStep ==
    ASSUME IInv, NEW k \in Keys, Expire(k)
    PROVE  IInv'
  <1>1. cache' \in Copies /\ Keeps(cache')
    BY DEF Expire, IInv, Copies, Keeps
  <1>2. \A j \in Keys : View(j)' = View(j)
    BY ViewUnchanged DEF Expire, rowVars, likeVars
  <1>3. KeepsReaders(request')
    BY DEF Expire, KeepsReaders, At, Idle
  <1>4. \A j : Owed(j) => Owed(j)'
    BY DEF Expire, Owed, At, Idle
  <1>5. CopiesAreCurrent'
    BY <1>1, <1>2, <1>3, <1>4, CopiesKept DEF IInv
  <1>6. PatternsAreWhole'
    BY DEF Expire, IInv, PatternsAreWhole, At, Idle, MutationPatterns
  <1> QED
    BY <1>1, <1>5, <1>6, CountedStays DEF IInv, RowTypes, Expire, rowVars, likeVars

-----------------------------------------------------------------------------
(***************************************************************************)
(* Writers of posts and comments                                           *)
(***************************************************************************)
LEMMA ChangesStep ==
    ASSUME IInv, NEW r \in Requests, NEW s \in Subjects,
           \/ s \in Posts /\ \E isDraft \in BOOLEAN : CreatePost(r, s, isDraft)
           \/ s \in Comments /\ CreateComment(r, s)
           \/ Update(r, s)
           \/ s \in Posts /\ ReassignPosts(r, s)
           \/ EditUserPostStatus(r, s) \/ DeletePost(r, s) \/ DeleteComment(r, s)
    PROVE  IInv'
  <1>1. PICK op \in {"enqueue", "delete"} : Idle(r) /\ Owe(r, op, s)
    BY DEF CreatePost, CreateComment, Update, ReassignPosts, EditUserPostStatus, DeletePost,
         DeleteComment, SetStatus
  <1>2. /\ UNCHANGED <<likeVars, jobs, cache>>
        /\ \/ review' = review /\ \E to \in Status : status' = [status EXCEPT ![s] = to]
           \/ s \in Posts /\ status' = status /\ review' = [review EXCEPT ![s] = status[s]]
              /\ status[s] \in {"PENDING", "REJECTED"}
    BY DEF CreatePost, CreateComment, Update, ReassignPosts, EditUserPostStatus, DeletePost,
         DeleteComment, SetStatus, Status
  <1>3. RowTypes'
    BY <1>2 DEF IInv, RowTypes, Status, ReviewStatus, likeVars
  <1>4. /\ \A x \in Subjects \ {s} :
               status'[x] = status[x] /\ likes'[x] = likes[x] /\ total'[x] = total[x]
        /\ \A p \in Posts \ {s} : review'[p] = review[p]
    BY <1>2 DEF IInv, RowTypes, likeVars
  <1> QED
    BY <1>1, <1>2, <1>3, <1>4, WriterStep, CountedStays DEF IInv

LEMMA DecideStep ==
    ASSUME IInv, NEW r \in Requests, NEW p \in Posts,
           NEW reviewStatus \in ReviewStatus \ {None}, NEW to \in Status,
           ModifyPostReviewStatus(r, p, reviewStatus, to)
    PROVE  IInv'
  <1>1. Idle(r) /\ Owe(r, "delete", p) /\ UNCHANGED <<likeVars, jobs, cache>>
    BY DEF ModifyPostReviewStatus, SetStatus
  <1>2. status' = [status EXCEPT ![p] = to] /\ review' = [review EXCEPT ![p] = reviewStatus]
    BY DEF ModifyPostReviewStatus, SetStatus
  <1>3. RowTypes' /\ p \in Subjects
    BY <1>1, <1>2 DEF IInv, RowTypes, likeVars, Subjects
  <1>4. /\ \A x \in Subjects \ {p} :
               status'[x] = status[x] /\ likes'[x] = likes[x] /\ total'[x] = total[x]
        /\ \A x \in Posts \ {p} : review'[x] = review[x]
    BY <1>1, <1>2 DEF IInv, RowTypes, likeVars
  <1> QED
    BY <1>1, <1>3, <1>4, WriterStep, CountedStays DEF IInv

\* Rows that go are counted nowhere.
LEMMA GoneFacts ==
    ASSUME IInv, NEW subjects, Gone(subjects), UNCHANGED <<users, jobs>>,
           review' \in [Posts -> ReviewStatus]
    PROVE  /\ RowTypes' /\ Counted'
           /\ \A x \in Subjects \ subjects :
                 status'[x] = status[x] /\ likes'[x] = likes[x] /\ total'[x] = total[x]
  <1>1. RowTypes'
    BY DEF IInv, RowTypes, Gone, Status
  <1>2. \A x \in Subjects \ subjects : /\ status'[x] = status[x] /\ likes'[x] = likes[x]
                                       /\ total'[x] = total[x] /\ lost'[x] = lost[x]
    BY DEF Gone
  <1>3. \A x \in Subjects \intersect subjects : likes'[x] = {} /\ lost'[x] = {} /\ total'[x] = 0
    BY DEF Gone
  <1>4. Cardinality({}) + Cardinality({}) = 0
    BY FS_EmptySet
  <1>5. Counted'
    BY <1>2, <1>3, <1>4 DEF IInv, Counted
  <1> QED
    BY <1>1, <1>2, <1>5

LEMMA DeleteByModeratorStep ==
    ASSUME IInv, NEW r \in Requests, NEW c \in Comments, DeleteByModerator(r, c)
    PROVE  IInv'
  <1>1. RowTypes' /\ Counted' /\ review' = review /\ c \in Subjects
        /\ \A x \in Subjects \ {c} :
               status'[x] = status[x] /\ likes'[x] = likes[x] /\ total'[x] = total[x]
    BY GoneFacts DEF DeleteByModerator, IInv, RowTypes, Subjects
  <1> QED
    BY <1>1, WriterStep DEF DeleteByModerator, IInv

-----------------------------------------------------------------------------
(***************************************************************************)
(* Changes that delete no copy                                             *)
(***************************************************************************)
LEMMA SilentStep ==
    ASSUME IInv, NEW keys, Silently(keys), \A k \in Keys \ keys : View(k)' = View(k),
           RowTypes', Counted'
    PROVE  IInv'
  <1>1. /\ CopiesAreCurrent' /\ cache' \in Copies /\ request' \in [Requests -> Rest]
        /\ \A r \in Requests : ~At(r, "fill") => request'[r] = request[r]
        /\ \A r \in Requests : At(r, "fill") => At(r, "fill")'
    BY SilentKeeps DEF IInv
  <1>2. \A r \in Requests : At(r, "enqueue")' =>
            At(r, "enqueue") /\ request'[r] = request[r]
    BY <1>1 DEF At, Idle
  <1>3. \A u \in Subjects : MutationPatterns(u)' = MutationPatterns(u)
    BY DEF MutationPatterns
  <1>4. PatternsAreWhole'
    BY <1>2, <1>3 DEF IInv, PatternsAreWhole
  <1> QED
    BY <1>1, <1>4 DEF IInv

LEMMA AssignReviewerStep ==
    ASSUME IInv, NEW p \in Posts, AssignReviewer(p)
    PROVE  IInv'
  <1>1. RowTypes' /\ Counted' /\ p \in Subjects
    BY CountedStays DEF AssignReviewer, IInv, RowTypes, Status, ReviewStatus, likeVars, Subjects
  <1>2. CASE UNCHANGED <<status, review, cache, request>>
    <2>1. \A k \in Keys : View(k)' = View(k)
      BY <1>2, ViewUnchanged DEF AssignReviewer, likeVars
    <2>2. Keeps(cache') /\ KeepsReaders(request') /\ \A k : Owed(k) => Owed(k)'
      BY <1>2 DEF Keeps, KeepsReaders, Owed, At, Idle
    <2>3. CopiesAreCurrent'
      BY <2>1, <2>2, CopiesKept DEF IInv
    <2>4. PatternsAreWhole'
      BY <1>2 DEF IInv, PatternsAreWhole, At, Idle, MutationPatterns
    <2> QED
      BY <1>1, <1>2, <2>3, <2>4 DEF IInv
  <1>3. CASE ~UNCHANGED <<status, review, cache, request>>
    <2>1. /\ Silently(Shows(p)) /\ UNCHANGED likeVars
          /\ status' = [status EXCEPT ![p] = "PENDING"]
          /\ review' = [review EXCEPT ![p] = "PENDING"]
      BY <1>3 DEF AssignReviewer, Shows
    <2>2. \A k \in Keys \ Shows(p) : View(k)' = View(k)
      <3>1. /\ \A x \in Subjects \ {p} :
                   status'[x] = status[x] /\ likes'[x] = likes[x] /\ total'[x] = total[x]
            /\ \A x \in Posts \ {p} : review'[x] = review[x]
        BY <2>1 DEF IInv, RowTypes, likeVars
      <3> QED
        BY <1>1, <3>1, ViewSame
    <2> QED
      BY <1>1, <2>1, <2>2, SilentStep
  <1> QED
    BY <1>2, <1>3

LEMMA ModerateStep ==
    ASSUME IInv, NEW c \in Comments, NEW to \in Status, Moderate(c, to)
    PROVE  IInv'
  <1>1. c \in Subjects /\ c \notin Posts
    BY SubjectsAssumption DEF Subjects
  <1>2. /\ Silently(Shows(c)) /\ UNCHANGED <<review, likeVars, jobs>>
        /\ status' = [status EXCEPT ![c] = to]
    BY <1>1 DEF Moderate, Shows
  <1>3. RowTypes' /\ Counted'
    BY <1>1, <1>2, CountedStays DEF IInv, RowTypes, likeVars
  <1>4. \A k \in Keys \ Shows(c) : View(k)' = View(k)
    <2>1. /\ \A x \in Subjects \ {c} :
                 status'[x] = status[x] /\ likes'[x] = likes[x] /\ total'[x] = total[x]
          /\ \A x \in Posts \ {c} : review'[x] = review[x]
      BY <1>2 DEF IInv, RowTypes, likeVars
    <2> QED
      BY <1>1, <2>1, ViewSame
  <1> QED
    BY <1>2, <1>3, <1>4, SilentStep

\* The purge: the post's row and those of its comments.
LEMMA PurgePostStep ==
    ASSUME IInv, NEW p \in Posts, PurgePost(p)
    PROVE  IInv'
  <1> DEFINE gone == {p} \union {c \in Comments : PostOf[c] = p}
             keys == OfAllLists(p) \union OfPost("comments", p)
  <1>1. Silently(keys) /\ Gone(gone) /\ UNCHANGED <<users, jobs>>
        /\ review' = [review EXCEPT ![p] = None]
    BY DEF PurgePost, Silently
  <1>2. review' \in [Posts -> ReviewStatus] /\ \A x \in Posts \ {p} : review'[x] = review[x]
    BY <1>1 DEF IInv, RowTypes, ReviewStatus
  <1>3. /\ RowTypes' /\ Counted'
        /\ \A x \in Subjects \ gone :
              status'[x] = status[x] /\ likes'[x] = likes[x] /\ total'[x] = total[x]
    BY <1>1, <1>2, GoneFacts
  <1>4. ASSUME NEW k \in Keys \ keys PROVE View(k)' = View(k)
    <2>1. \A x \in Subjects \ gone : \A viewer : Row(x, viewer)' = Row(x, viewer)
      BY <1>3 DEF Row
    <2>2. k.scope \in {"post", "comments"} /\ k.post \in Posts /\ k.post # p
      BY <1>4, KeyFacts DEF OfAllLists, OfPost, Scoped
    <2>3. k.post \in Subjects \ gone
      BY <2>2, SubjectsAssumption DEF Subjects
    <2>4. \A x \in Comments : PostOf[x] = k.post => x \in Subjects \ gone
      BY <2>2, SubjectsAssumption DEF Subjects
    <2> HIDE DEF gone
    <2>5. PostById(k.post, k.viewer)' = PostById(k.post, k.viewer)
      BY <1>3, <2>1, <2>3 DEF PostById
    <2>6. CommentsList(k.post, k.viewer)' = CommentsList(k.post, k.viewer)
      BY <1>3, <2>1, <2>4 DEF CommentsList
    <2> QED
      BY <2>2, <2>5, <2>6 DEF View
  <1> QED
    BY <1>1, <1>3, <1>4, SilentStep

\* A removed account is not counted twice: its likes move to "lost".
LEMMA RemoveUserStep ==
    ASSUME IInv, NEW u \in Users, RemoveUser(u)
    PROVE  IInv'
  <1> DEFINE keys == {k \in Keys : k.viewer = u}
  <1>1. /\ Silently(keys) /\ UNCHANGED <<status, review, total, jobs>>
        /\ users' = users \ {u}
        /\ \A s \in Subjects : likes'[s] = likes[s] \ {u}
        /\ \A s \in Subjects : lost'[s] = IF u \in likes[s] THEN lost[s] \union {u} ELSE lost[s]
    BY DEF RemoveUser
  <1>2. RowTypes'
    BY DEF RemoveUser, IInv, RowTypes
  <1>3. ASSUME NEW s \in Subjects
        PROVE  /\ likes'[s] \subseteq users' /\ lost'[s] \intersect users' = {}
               /\ total'[s] = Cardinality(likes'[s]) + Cardinality(lost'[s])
    <2>1. /\ likes[s] \subseteq users /\ lost[s] \intersect users = {}
          /\ total[s] = Cardinality(likes[s]) + Cardinality(lost[s])
          /\ likes[s] \subseteq Users /\ lost[s] \subseteq Users
      BY DEF IInv, Counted, RowTypes
    <2>2. IsFiniteSet(likes[s]) /\ IsFiniteSet(lost[s])
      BY <2>1, UsersAssumption, FS_Subset
    <2>3. CASE u \in likes[s]
      <3>1. Cardinality(likes[s] \ {u}) = Cardinality(likes[s]) - 1
        BY <2>2, <2>3, FS_RemoveElement
      <3>2. Cardinality(lost[s] \union {u}) = Cardinality(lost[s]) + 1
        BY <2>1, <2>2, <2>3, FS_AddElement
      <3>3. Cardinality(likes[s]) \in Nat /\ Cardinality(lost[s]) \in Nat
        BY <2>2, FS_CardinalityType
      <3>4. likes'[s] = likes[s] \ {u} /\ lost'[s] = lost[s] \union {u} /\ total'[s] = total[s]
        BY <1>1, <2>3
      <3> QED
        BY <1>1, <2>1, <2>3, <3>1, <3>2, <3>3, <3>4
    <2>4. CASE u \notin likes[s]
      <3>1. likes'[s] = likes[s] /\ lost'[s] = lost[s] /\ total'[s] = total[s]
        BY <1>1, <2>4
      <3> QED
        BY <1>1, <2>1, <2>4, <3>1
    <2> QED
      BY <2>3, <2>4
  <1>4. Counted'
    BY <1>3 DEF Counted
  <1>5. ASSUME NEW k \in Keys \ keys PROVE View(k)' = View(k)
    <2>1. \A s \in Subjects : \A viewer : viewer # u => Row(s, viewer)' = Row(s, viewer)
      BY <1>1 DEF Row
    <2>2. k.viewer # u /\ None # u
      BY UsersAssumption
    <2>3. PostById(k.post, k.viewer)' = PostById(k.post, k.viewer) \/ k.scope # "post"
      BY <1>1, <2>1, <2>2, KeyFacts DEF PostById, Subjects
    <2>4. /\ PublicList(k.viewer)' = PublicList(k.viewer)
          /\ CommentsList(k.post, k.viewer)' = CommentsList(k.post, k.viewer)
      BY <1>1, <2>1, <2>2 DEF PublicList, CommentsList, Subjects
    <2>5. UserList(k.viewer)' = UserList(k.viewer) /\ StaffList' = StaffList
      BY <1>1, <2>1, <2>2 DEF UserList, StaffList, Subjects, Exists
    <2> QED
      BY <2>3, <2>4, <2>5, KeyFacts DEF View
  <1> QED
    BY <1>1, <1>2, <1>4, <1>5, SilentStep

-----------------------------------------------------------------------------
(***************************************************************************)
(* The end of a writer                                                     *)
(***************************************************************************)
LEMMA EnqueueStep ==
    ASSUME IInv, NEW r \in Requests, Enqueue(r)
    PROVE  IInv'
  <1> DEFINE s == request[r].subject
             q == [request[r] EXCEPT !.op = "delete"]
  <1>1. request[r] \in Deleting /\ s \in Subjects /\ At(r, "enqueue")
    BY RequestFacts, DeletingFacts DEF Enqueue, IInv
  <1>2. q \in Deleting /\ q.op = "delete" /\ q.patterns = request[r].patterns
    BY <1>1, DeletingFacts
  <1>3. /\ Shows(s) \subseteq Within(q.patterns)
        /\ \A k : Owes(r, k) => k \in Within(q.patterns)
    BY <1>1, <1>2, PatternFacts DEF IInv, PatternsAreWhole, Owes, Within
  <1>4. request' = [SparedBy(request, {}) EXCEPT ![r] = q]
    BY <1>1, SparedByNone DEF Enqueue, IInv
  <1>5. ~At(r, "fill")
    BY <1>1 DEF At
  <1>6. /\ UNCHANGED <<review, likeVars, cache>>
        /\ status' = IF s \in Comments THEN [status EXCEPT ![s] = "PENDING"] ELSE status
        /\ jobs' = jobs \union ({s} \intersect Posts)
    BY DEF Enqueue
  <1> HIDE DEF s, q
  <1>7. /\ request' \in [Requests -> Rest] /\ KeepsReaders(request') /\ PatternsAreWhole'
        /\ \A k : Owed(k) => Owed(k)'
        /\ \A k \in Shows(s) : Owed(k)'
    BY <1>2, <1>3, <1>4, <1>5, RequestStep DEF IInv
  <1>8. \A k \in Keys \ Shows(s) : View(k)' = View(k)
    <2>1. /\ \A x \in Subjects \ {s} :
                 status'[x] = status[x] /\ likes'[x] = likes[x] /\ total'[x] = total[x]
          /\ \A p \in Posts \ {s} : review'[p] = review[p]
      BY <1>6 DEF IInv, RowTypes, likeVars
    <2> QED
      BY <1>1, <2>1, ViewSame
  <1>9. CopiesAreCurrent'
    <2>1. Keeps(cache')
      BY <1>6 DEF Keeps
    <2> QED
      BY <1>7, <1>8, <2>1, CopiesKept DEF IInv
  <1>10. RowTypes'
    BY <1>1, <1>6 DEF IInv, RowTypes, Status, likeVars
  <1> QED
    BY <1>6, <1>7, <1>9, <1>10, CountedStays DEF IInv

LEMMA AbandonStep ==
    ASSUME IInv, NEW r \in Requests, Abandon(r), request[r] \in Deleting,
           At(r, "enqueue") \/ At(r, "delete"),
           \A k \in Keys \ Within(request[r].patterns) : View(k)' = View(k)
    PROVE  /\ cache' \in Copies /\ request' \in [Requests -> Rest]
           /\ PatternsAreWhole' /\ CopiesAreCurrent'
  <1> DEFINE keys == Within(request[r].patterns)
  <1>1. /\ cache' = SparedIn(cache, keys)
        /\ request' = [SparedBy(request, keys) EXCEPT ![r] = None]
    BY DEF Abandon, Within
  <1>2. cache' \in Copies /\ Keeps(cache')
        /\ \A k \in Keys \intersect keys : cache'[k] # None => cache'[k].spared
    BY <1>1, SparedInFacts DEF IInv
  <1>3. ~At(r, "fill") /\ None \notin Deleting
    BY NoneAssumption DEF At
  <1>4. \A k : Owes(r, k) => k \in keys
    BY DEF Owes, Within
  <1> HIDE DEF keys
  <1>5. /\ request' \in [Requests -> Rest] /\ KeepsReaders(request') /\ PatternsAreWhole'
        /\ \A x \in Requests : At(x, "fill")' /\ request'[x].key \in keys => request'[x].copy.spared
        /\ \A k : Owed(k) => Owed(k)' \/ k \in keys
    BY <1>1, <1>3, <1>4, RequestStep DEF IInv
  <1>6. \A k \in Keys \intersect keys : AllSpared(cache', request', k)
    BY <1>2, <1>5 DEF AllSpared, At, Idle
  <1>7. \A k \in Keys \ keys : View(k)' = View(k)
    BY DEF keys
  <1>8. CopiesAreCurrent'
    BY <1>2, <1>5, <1>6, <1>7, CopiesKept DEF IInv
  <1> QED
    BY <1>2, <1>5, <1>8

LEMMA EnqueueFailsStep ==
    ASSUME IInv, NEW r \in Requests, EnqueueFails(r)
    PROVE  IInv'
  <1> DEFINE s == request[r].subject
  <1>1. request[r] \in Deleting /\ s \in Subjects /\ At(r, "enqueue")
    BY RequestFacts, DeletingFacts DEF EnqueueFails, IInv
  <1>2. Shows(s) \subseteq Within(request[r].patterns)
    BY <1>1, PatternFacts DEF IInv, PatternsAreWhole
  <1>3. /\ UNCHANGED <<review, likeVars, jobs>> /\ Abandon(r)
        /\ status' = [status EXCEPT ![s] = "OTHER"] \/ status' = status
    BY DEF EnqueueFails
  <1> HIDE DEF s
  <1>4. \A k \in Keys \ Shows(s) : View(k)' = View(k)
    <2>1. /\ \A x \in Subjects \ {s} :
                 status'[x] = status[x] /\ likes'[x] = likes[x] /\ total'[x] = total[x]
          /\ \A p \in Posts \ {s} : review'[p] = review[p]
      BY <1>3 DEF IInv, RowTypes, likeVars
    <2> QED
      BY <1>1, <2>1, ViewSame
  <1>5. RowTypes'
    BY <1>1, <1>3 DEF IInv, RowTypes, Status, likeVars
  <1> QED
    BY <1>1, <1>2, <1>3, <1>4, <1>5, AbandonStep, CountedStays DEF IInv

LEMMA ProcessStopsStep ==
    ASSUME IInv, NEW r \in Requests, ProcessStops(r)
    PROVE  IInv'
  <1>1. request[r] \in Deleting /\ (At(r, "enqueue") \/ At(r, "delete"))
    BY RequestFacts DEF ProcessStops, IInv
  <1>2. UNCHANGED rowVars /\ Abandon(r)
    BY DEF ProcessStops
  <1>3. \A k \in Keys : View(k)' = View(k)
    BY <1>2, ViewUnchanged DEF rowVars, likeVars
  <1>4. RowTypes' /\ Counted'
    BY <1>2, CountedStays DEF IInv, RowTypes, rowVars, likeVars
  <1> QED
    BY <1>1, <1>2, <1>3, <1>4, AbandonStep DEF IInv

\* What one pattern covered is deleted, or spared; the others are still owed.
LEMMA DeleteByPatternStep ==
    ASSUME IInv, NEW r \in Requests, DeleteByPattern(r)
    PROVE  IInv'
  <1> DEFINE patterns == request[r].patterns
             keys == Head(patterns)
             q == [request[r] EXCEPT !.patterns = Tail(patterns)]
             next == [request EXCEPT ![r].patterns = Tail(@)]
  <1>1. request[r] \in Deleting /\ At(r, "delete") /\ patterns # <<>>
        /\ patterns \in Seq(SUBSET Keys)
    BY RequestFacts, DeletingFacts DEF DeleteByPattern, IInv
  <1>2. Tail(patterns) \in Seq(SUBSET Keys)
    BY <1>1
  <1>3. q \in Deleting /\ q.op = "delete" /\ q.patterns = Tail(patterns)
    BY <1>1, <1>2, DeletingFacts DEF At
  <1>4. next \in [Requests -> Rest] /\ next[r] = q /\ next = [request EXCEPT ![r] = q]
    BY <1>1, <1>3 DEF IInv, Rest
  <1>5. \A k : Owes(r, k) => k \in keys \/ k \in Within(q.patterns)
    <2> SUFFICES ASSUME NEW k, NEW i \in DOMAIN patterns, k \in patterns[i]
                 PROVE  k \in keys \/ k \in Within(q.patterns)
      BY DEF Owes
    <2>1. CASE i = 1
      BY <1>1, <2>1
    <2>2. CASE i # 1
      <3>1. i - 1 \in DOMAIN Tail(patterns) /\ Tail(patterns)[i - 1] = patterns[i]
        BY <1>1, <2>2
      <3> QED
        BY <1>3, <3>1 DEF Within
    <2> QED
      BY <2>1, <2>2
  <1>6. request' = SparedBy(next, keys) /\ UNCHANGED rowVars
        /\ \/ cache' = [k \in Keys |-> IF k \in keys THEN None ELSE cache[k]]
           \/ cache' = SparedIn(cache, keys)
    BY DEF DeleteByPattern
  <1> HIDE DEF patterns, keys, q, next
  <1>7. request' = [SparedBy(request, keys) EXCEPT ![r] = q]
    <2>1. q \notin Filling /\ SparedBy(next, keys)[r] = q
      BY <1>3, <1>4, SparedByFacts, FillingFacts
    <2>2. ~(q # None /\ q.op = "fill")
      BY <1>3
    <2> QED
      BY <1>4, <1>6, <2>1, <2>2 DEF SparedBy, IInv
  <1>8. ~At(r, "fill")
    BY <1>1 DEF At
  <1>9. /\ request' \in [Requests -> Rest] /\ KeepsReaders(request') /\ PatternsAreWhole'
        /\ \A x \in Requests : At(x, "fill")' /\ request'[x].key \in keys => request'[x].copy.spared
        /\ \A k : Owed(k) => Owed(k)' \/ k \in keys
    BY <1>3, <1>5, <1>7, <1>8, RequestStep DEF IInv
  <1>10. cache' \in Copies /\ Keeps(cache')
         /\ \A k \in Keys \intersect keys : cache'[k] # None => cache'[k].spared
    <2>1. CASE cache' = [k \in Keys |-> IF k \in keys THEN None ELSE cache[k]]
      BY <2>1 DEF IInv, Copies, Keeps
    <2>2. CASE cache' = SparedIn(cache, keys)
      BY <2>2, SparedInFacts DEF IInv
    <2> QED
      BY <1>6, <2>1, <2>2
  <1>11. \A k \in Keys : View(k)' = View(k)
    BY <1>6, ViewUnchanged DEF rowVars, likeVars
  <1>12. \A k \in Keys \intersect keys : AllSpared(cache', request', k)
    BY <1>9, <1>10 DEF AllSpared, At, Idle
  <1>13. CopiesAreCurrent'
    BY <1>9, <1>10, <1>11, <1>12, CopiesKept DEF IInv
  <1>14. RowTypes' /\ Counted'
    BY <1>6, CountedStays DEF IInv, RowTypes, rowVars, likeVars
  <1> QED
    BY <1>9, <1>10, <1>13, <1>14 DEF IInv

\* A request that ends or goes on with nothing owed, and changes nothing else.
LEMMA NextCallStep ==
    ASSUME IInv, NEW r \in Requests, NEW q \in Toggling \union {None},
           request' = [request EXCEPT ![r] = q], UNCHANGED <<rowVars, cache>>,
           ~At(r, "fill"), \A k : ~Owes(r, k)
    PROVE  IInv'
  <1>1. request' = [SparedBy(request, {}) EXCEPT ![r] = q] /\ q \notin Deleting
    BY SparedByNone, NoneAssumption, TogglingFacts, DeletingFacts DEF IInv
  <1>2. /\ request' \in [Requests -> Rest] /\ KeepsReaders(request') /\ PatternsAreWhole'
        /\ \A k : Owed(k) => Owed(k)'
    BY <1>1, RequestStep DEF IInv
  <1>3. CopiesAreCurrent'
    BY <1>2, QuietStep DEF IInv
  <1> QED
    BY <1>2, <1>3, CountedStays DEF IInv, RowTypes, rowVars, likeVars

LEMMA AnswerStep ==
    ASSUME IInv, NEW r \in Requests, Answer(r)
    PROVE  IInv'
  <1>1. ~At(r, "fill") /\ \A k : ~Owes(r, k)
    BY DEF Answer, At, Owes
  <1> QED
    BY <1>1, NextCallStep DEF Answer

-----------------------------------------------------------------------------
(***************************************************************************)
(* Likes                                                                   *)
(***************************************************************************)
LEMMA CheckPostStep ==
    ASSUME IInv, NEW r \in Requests, NEW u \in Users, NEW s \in Subjects, CheckPost(r, u, s)
    PROVE  IInv'
  <1>1. ~At(r, "fill") /\ \A k : ~Owes(r, k)
    BY DEF CheckPost, At, Owes
  <1> QED
    BY <1>1, NextCallStep, TogglingFacts DEF CheckPost

LEMMA GetLikeStep ==
    ASSUME IInv, NEW r \in Requests, GetLike(r)
    PROVE  IInv'
  <1> DEFINE liked == request[r].user \in likes[request[r].subject]
             q == [request[r] EXCEPT !.op = "toggle", !.liked = liked]
  <1>1. request[r] \in Toggling
    BY RequestFacts DEF GetLike, IInv
  <1>2. q \in Toggling
    <2>1. liked \in BOOLEAN
      OBVIOUS
    <2> HIDE DEF liked
    <2> QED
      BY <1>1, <2>1, TogglingFacts
  <1>3. ~At(r, "fill") /\ \A k : ~Owes(r, k)
    BY DEF GetLike, At, Owes
  <1>4. request' = [request EXCEPT ![r] = q]
    BY DEF GetLike
  <1> HIDE DEF q
  <1> QED
    BY <1>2, <1>3, <1>4, NextCallStep DEF GetLike

LEMMA ToggleFailsStep ==
    ASSUME IInv, NEW r \in Requests, ToggleFails(r)
    PROVE  IInv'
  <1>1. ~At(r, "fill") /\ \A k : ~Owes(r, k)
    BY DEF ToggleFails, At, Owes
  <1> QED
    BY <1>1, NextCallStep DEF ToggleFails

\* Row and number change together.
LEMMA LikeCounts ==
    ASSUME RowTypes, Counted, NEW s \in Subjects, NEW u \in Users,
           CreateLike(s, u) \/ DeleteLike(s, u), UNCHANGED <<status, review, lost, users, jobs>>
    PROVE  /\ RowTypes' /\ Counted'
           /\ \A x \in Subjects \ {s} : likes'[x] = likes[x] /\ total'[x] = total[x]
  <1>1. /\ likes[s] \subseteq users /\ lost[s] \intersect users = {}
        /\ total[s] = Cardinality(likes[s]) + Cardinality(lost[s])
        /\ likes[s] \subseteq Users /\ lost[s] \subseteq Users
    BY DEF Counted, RowTypes
  <1>2. IsFiniteSet(likes[s]) /\ IsFiniteSet(lost[s])
    BY <1>1, UsersAssumption, FS_Subset
  <1>3. Cardinality(likes[s]) \in Nat /\ Cardinality(lost[s]) \in Nat
    BY <1>2, FS_CardinalityType
  <1>4. \A x \in Subjects \ {s} : likes'[x] = likes[x] /\ total'[x] = total[x]
    BY DEF CreateLike, DeleteLike, RowTypes
  <1>5. CASE CreateLike(s, u)
    <2>1. likes'[s] = likes[s] \union {u} /\ total'[s] = total[s] + 1
      BY <1>5 DEF CreateLike, RowTypes
    <2>2. Cardinality(likes[s] \union {u}) = Cardinality(likes[s]) + 1
      BY <1>2, <1>5, FS_AddElement DEF CreateLike
    <2>3. RowTypes'
      BY <1>5 DEF CreateLike, RowTypes
    <2>4. likes'[s] \subseteq users' /\ lost'[s] \intersect users' = {}
      <3>1. u \in users
        BY <1>5 DEF CreateLike
      <3> QED
        BY <1>1, <2>1, <3>1
    <2>5. Cardinality(likes'[s]) = Cardinality(likes[s]) + 1 /\ lost'[s] = lost[s]
      BY <2>1, <2>2
    <2>6. total'[s] = Cardinality(likes'[s]) + Cardinality(lost'[s])
      BY <1>1, <1>3, <2>1, <2>5
    <2> QED
      BY <1>4, <2>3, <2>4, <2>6 DEF Counted
  <1>6. CASE DeleteLike(s, u)
    <2>1. likes'[s] = likes[s] \ {u} /\ total'[s] = total[s] - 1
      BY <1>6 DEF DeleteLike, RowTypes
    <2>2. Cardinality(likes[s] \ {u}) = Cardinality(likes[s]) - 1
          /\ Cardinality(likes[s] \ {u}) \in Nat
      BY <1>2, <1>6, FS_RemoveElement, FS_CardinalityType DEF DeleteLike
    <2>3. total'[s] = Cardinality(likes'[s]) + Cardinality(lost'[s]) /\ total'[s] \in Nat
      BY <1>1, <1>3, <2>1, <2>2
    <2>4. RowTypes'
      BY <1>6, <2>1, <2>3 DEF DeleteLike, RowTypes
    <2> QED
      BY <1>1, <1>4, <2>1, <2>3, <2>4 DEF Counted
  <1> QED
    BY <1>5, <1>6

LEMMA ToggleLikeStep ==
    ASSUME IInv, NEW r \in Requests, ToggleLike(r)
    PROVE  IInv'
  <1> DEFINE s == request[r].subject
             u == request[r].user
             leaves == LikeLeaves(s, u)
             q == Owing("delete", s, LikePatterns(s, u))
  <1>1. request[r] \in Toggling /\ s \in Subjects /\ u \in Users /\ At(r, "toggle")
    BY RequestFacts, TogglingFacts DEF ToggleLike, IInv
  <1>2. /\ CreateLike(s, u) \/ DeleteLike(s, u)
        /\ cache' = SparedIn(cache, leaves)
        /\ request' = [SparedBy(request, leaves) EXCEPT ![r] = q]
        /\ UNCHANGED <<status, review, lost, users, jobs>>
    BY DEF ToggleLike
  <1>3. /\ q \in Deleting /\ q.op = "delete" /\ q.patterns = LikePatterns(s, u)
        /\ Shows(s) \subseteq Within(LikePatterns(s, u)) \union leaves
    BY <1>1, LikePatternFacts, DeletingMakes
  <1>4. ~At(r, "fill") /\ \A k : ~Owes(r, k)
    BY <1>1 DEF At, Owes
  <1> HIDE DEF s, u, leaves, q
  <1>5. /\ request' \in [Requests -> Rest] /\ KeepsReaders(request') /\ PatternsAreWhole'
        /\ \A x \in Requests : At(x, "fill")' /\ request'[x].key \in leaves =>
              request'[x].copy.spared
        /\ \A k : Owed(k) => Owed(k)'
        /\ \A k \in Within(LikePatterns(s, u)) : Owed(k)'
    BY <1>2, <1>3, <1>4, RequestStep DEF IInv
  <1>6. cache' \in Copies /\ Keeps(cache')
        /\ \A k \in Keys \intersect leaves : cache'[k] # None => cache'[k].spared
    BY <1>2, SparedInFacts DEF IInv
  <1>7. /\ RowTypes' /\ Counted'
        /\ \A x \in Subjects \ {s} : likes'[x] = likes[x] /\ total'[x] = total[x]
    BY <1>1, <1>2, LikeCounts DEF IInv
  <1>8. \A k \in Keys \ Shows(s) : View(k)' = View(k)
    BY <1>1, <1>2, <1>7, ViewSame
  <1>9. \A k \in Keys \intersect leaves : AllSpared(cache', request', k)
    BY <1>5, <1>6 DEF AllSpared, At, Idle
  <1>10. CopiesAreCurrent'
    BY <1>3, <1>5, <1>6, <1>8, <1>9, CopiesKept DEF IInv
  <1> QED
    BY <1>5, <1>6, <1>7, <1>10 DEF IInv

-----------------------------------------------------------------------------
(***************************************************************************)
(* The invariant and the theorems                                          *)
(***************************************************************************)
LEMMA InitIInv == Init => IInv
  <1> SUFFICES ASSUME Init PROVE IInv
    OBVIOUS
  <1>1. RowTypes /\ cache \in Copies /\ request \in [Requests -> Rest]
    BY DEF Init, RowTypes, Copies, Rest, Status, ReviewStatus
  <1>2. Counted
    BY FS_EmptySet DEF Init, Counted
  <1>3. PatternsAreWhole /\ CopiesAreCurrent
    BY DEF Init, PatternsAreWhole, CopiesAreCurrent, At, Idle
  <1> QED
    BY <1>1, <1>2, <1>3 DEF IInv

LEMMA NextIInv == IInv /\ [Next]_vars => IInv'
  <1> SUFFICES ASSUME IInv, [Next]_vars PROVE IInv'
    OBVIOUS
  <1> USE DEF Subjects
  <1>1. ASSUME NEW r \in Requests, PublicPosts(r) PROVE IInv'
    BY <1>1, ChangesStep, ReadersStep, CheckPostStep DEF PublicPosts
  <1>2. ASSUME NEW r \in Requests, OwnPosts(r) PROVE IInv'
    BY <1>2, ChangesStep DEF OwnPosts
  <1>3. ASSUME NEW r \in Requests, StaffPosts(r) PROVE IInv'
    BY <1>3, DecideStep, ReadersStep DEF StaffPosts
  <1>4. ASSUME NEW r \in Requests, PublicComments(r) PROVE IInv'
    BY <1>4, ChangesStep, ReadersStep, CheckPostStep DEF PublicComments
  <1>5. ASSUME NEW r \in Requests, OwnComments(r) PROVE IInv'
    BY <1>5, ChangesStep, DeleteByModeratorStep DEF OwnComments
  <1>6. ASSUME NEW r \in Requests, NEW p \in Posts, ReassignPosts(r, p) PROVE IInv'
    BY <1>6, ChangesStep
  <1>7. ASSUME NEW r \in Requests, Fill(r) \/ Enqueue(r) \/ EnqueueFails(r) PROVE IInv'
    BY <1>7, FillStep, EnqueueStep, EnqueueFailsStep
  <1>8. ASSUME NEW r \in Requests, GetLike(r) \/ ToggleLike(r) \/ ToggleFails(r) PROVE IInv'
    BY <1>8, GetLikeStep, ToggleLikeStep, ToggleFailsStep
  <1>9. ASSUME NEW r \in Requests, DeleteByPattern(r) \/ Answer(r) \/ ProcessStops(r)
        PROVE  IInv'
    BY <1>9, DeleteByPatternStep, AnswerStep, ProcessStopsStep
  <1>10. ASSUME NEW k \in Keys, Expire(k) PROVE IInv'
    BY <1>10, ExpireStep
  <1>11. ASSUME NEW p \in Posts, AssignReviewer(p) \/ PurgePost(p) PROVE IInv'
    BY <1>11, AssignReviewerStep, PurgePostStep
  <1>12. ASSUME NEW c \in Comments, NEW to \in {"PENDING", "APPROVED", "OTHER"}, Moderate(c, to)
         PROVE  IInv'
    BY <1>12, ModerateStep DEF Status
  <1>13. ASSUME NEW u \in Users, RemoveUser(u) PROVE IInv'
    BY <1>13, RemoveUserStep
  <1>14. CASE UNCHANGED vars
    <2>1. \A k \in Keys : View(k)' = View(k)
      BY <1>14, ViewUnchanged DEF vars, rowVars, likeVars
    <2>2. Keeps(cache') /\ KeepsReaders(request') /\ \A k : Owed(k) => Owed(k)'
      BY <1>14 DEF vars, Keeps, KeepsReaders, Owed, At, Idle
    <2>3. CopiesAreCurrent'
      BY <2>1, <2>2, CopiesKept DEF IInv
    <2>4. PatternsAreWhole'
      BY <1>14 DEF vars, IInv, PatternsAreWhole, At, Idle, MutationPatterns
    <2>5. RowTypes' /\ Counted'
      BY <1>14, CountedStays DEF vars, IInv, RowTypes, rowVars, likeVars
    <2> QED
      BY <1>14, <2>3, <2>4, <2>5 DEF vars, IInv
  <1> QED
    BY <1>1, <1>2, <1>3, <1>4, <1>5, <1>6, <1>7, <1>8, <1>9, <1>10, <1>11, <1>12, <1>13, <1>14
       DEF Next

LEMMA Invariance == Spec => []IInv
  BY InitIInv, NextIInv, PTL DEF Spec

\* Number and rows of likes agree, however many users click.
THEOREM LikesCount == Spec => []LikesAreCounted
  <1>1. IInv => LikesAreCounted
    BY TypeParts DEF IInv, Counted, LikesAreCounted
  <1> QED
    BY <1>1, Invariance, PTL

\* Copies are what the database says, but for what is owed or spared.
THEOREM CopiesCurrent == Spec => []CopiesAreCurrent
  <1>1. IInv => CopiesAreCurrent
    BY DEF IInv
  <1> QED
    BY <1>1, Invariance, PTL

=============================================================================

------------------------------ MODULE PostFiles ------------------------------
(***************************************************************************)
(* The files of posts: PostFilesService and PostFilesRepo over the storage *)
(* of FilesService, with the cleanup request of FilesController and the    *)
(* job that removes orphaned files.                                        *)
(*                                                                         *)
(* A client uploads files and links them to a post afterwards, by key.     *)
(* Each request runs its statements one by one, and the storage between    *)
(* them; a transaction reads what is committed at each statement, waits    *)
(* for rows and posts that another one has locked, and writes when it      *)
(* commits.  All files belong to one user.  A post has at most one row for *)
(* each key, which the unique index sees to; the row is told from a later  *)
(* one of the same key by the number of the link request that made it.     *)
(***************************************************************************)
EXTENDS Integers, FiniteSets

CONSTANTS
    Posts,       \* ids of posts
    Keys,        \* storage keys ever made
    Requests,    \* requests that may run at a time
    MaxFiles,    \* MAX_FILES_PER_POST
    MaxLinks,    \* bound: link requests that write rows
    None         \* no row, no request

ASSUME SetsAssumption == IsFiniteSet(Keys)
ASSUME BoundsAssumption == MaxFiles \in Nat /\ MaxLinks \in Nat

VARIABLES
    posts,       \* posts with a row
    uploaded,    \* keys that were uploaded
    stored,      \* keys whose file is in the storage
    aged,        \* keys uploaded more than a day ago
    rows,        \* the file rows of each post
    links,       \* counts the requests that wrote rows
    request,     \* what each request is at
    sweep,       \* keys the orphan job is about to delete
    raced        \* auxiliary: posts whose main image was chosen by two at once

vars == <<posts, uploaded, stored, aged, rows, links, request, sweep, raced>>

-----------------------------------------------------------------------------
Row == [link : Nat, main : BOOLEAN]

Link == [op : {"link"}, post : Posts, keys : (SUBSET Keys) \ {{}}, main : Keys,
         hasMain : BOOLEAN, step : {"locked", "counted", "checked"}]
Choice == [op : {"choose"}, post : Posts, key : Keys, link : Nat,
           scan : SUBSET Keys, step : {"found", "scanned", "cleared"}]
Deletion == [op : {"delete"}, post : Posts, keys : SUBSET Keys,
             link : Nat \union {None}, step : {"listed", "deleted"}]

ASSUME NoneAssumption == None \notin Row /\ None \notin Link \union Choice \union Deletion

Linked(p) == {k \in Keys : rows[p][k] # None}
Mains(p) == {k \in Linked(p) : rows[p][k].main}

At(r, op, step) ==
    request[r] # None /\ request[r].op = op /\ request[r].step = step

Idle(r) == request[r] = None

End(r) == request' = [request EXCEPT ![r] = None]
Goto(r, step) == request' = [request EXCEPT ![r].step = step]

\* Requests that may make a file of post p its main image.
Choosing(p) ==
    {r \in Requests : ~Idle(r) /\ request[r].op \in {"link", "choose"}
                                /\ request[r].post = p}

\* withPostLock: SELECT ... FOR UPDATE.  The variant takes no lock.
NoLock(p) == TRUE
Unlocked(p) ==
    {r \in Requests : ~Idle(r) /\ request[r].op = "link" /\ request[r].post = p} = {}

\* The row of key k is not part of an UPDATE that has not committed yet.
RowFree(p, k) ==
    \A r \in Requests :
        At(r, "choose", "cleared") /\ request[r].post = p => k \notin request[r].scan

Init ==
    /\ posts = Posts
    /\ uploaded = {}
    /\ stored = {}
    /\ aged = {}
    /\ rows = [p \in Posts |-> [k \in Keys |-> None]]
    /\ links = 0
    /\ request = [r \in Requests |-> None]
    /\ sweep = {}
    /\ raced = {}

-----------------------------------------------------------------------------
(***************************************************************************)
(* The storage, and what reaches it without going through a post           *)
(***************************************************************************)
\* A key is made anew for each upload; the client may never learn of it.
Upload(k) ==
    /\ k \notin uploaded
    /\ uploaded' = uploaded \union {k}
    /\ stored' = stored \union {k}
    /\ UNCHANGED <<posts, aged, rows, links, request, sweep, raced>>

PassDay(k) ==
    /\ k \in uploaded \ aged
    /\ aged' = aged \union {k}
    /\ UNCHANGED <<posts, uploaded, stored, rows, links, request, sweep, raced>>

\* cleanupUploadedFiles: the owner's keys, whether a post has them or not.
CleanUp(k) ==
    /\ k \in stored
    /\ stored' = stored \ {k}
    /\ UNCHANGED <<posts, uploaded, aged, rows, links, request, sweep, raced>>

\* OrphanFilesJob: files older than a day that no row names.
Orphans == {k \in stored \intersect aged : \A p \in Posts : k \notin Linked(p)}

SweepSelect ==
    /\ sweep = {}
    /\ Orphans # {}
    /\ sweep' = Orphans
    /\ UNCHANGED <<posts, uploaded, stored, aged, rows, links, request, raced>>

SweepDelete ==
    /\ sweep # {}
    /\ stored' = stored \ sweep
    /\ sweep' = {}
    /\ UNCHANGED <<posts, uploaded, aged, rows, links, request, raced>>

\* Some chunks, or some kinds of file, were deleted before the error.
SweepFails ==
    /\ sweep # {}
    /\ \E gone \in SUBSET sweep : stored' = stored \ gone
    /\ sweep' = {}
    /\ UNCHANGED <<posts, uploaded, aged, rows, links, request, raced>>

-----------------------------------------------------------------------------
(***************************************************************************)
(* uploadFilesToPost: rows for a batch of keys, under the lock of the post *)
(***************************************************************************)
LinkBegin(r, p, ks, m) ==
    /\ Idle(r)
    /\ p \in posts
    /\ ks \subseteq uploaded /\ ks # {} /\ m \in ks
    /\ Unlocked(p)
    /\ request' = [request EXCEPT ![r] =
           [op |-> "link", post |-> p, keys |-> ks, main |-> m,
            hasMain |-> FALSE, step |-> "locked"]]
    /\ raced' = IF Choosing(p) = {} THEN raced ELSE raced \union {p}
    /\ UNCHANGED <<posts, uploaded, stored, aged, rows, links, sweep>>

\* The limit of files, for those that are there and those to be linked.
Fits(p, ks) == Cardinality(Linked(p)) + Cardinality(ks) <= MaxFiles

LinkCount(r) ==
    /\ At(r, "link", "locked")
    /\ Fits(request[r].post, request[r].keys)
    /\ Goto(r, "counted")
    /\ UNCHANGED <<posts, uploaded, stored, aged, rows, links, sweep, raced>>

LinkCheckMain(r) ==
    /\ At(r, "link", "counted")
    /\ request' = [request EXCEPT ![r].hasMain = Mains(request[r].post) # {},
                                  ![r].step = "checked"]
    /\ UNCHANGED <<posts, uploaded, stored, aged, rows, links, sweep, raced>>

\* normalizeMainImageValues: one main image in a batch, and none when the
\* post has one.  One variant forgets the second half, the other takes the
\* flags as they were sent, if they were.
FlagAsSent(q, k) == IF k = q.main THEN ~q.hasMain ELSE None
OwnMain(q, k) == k = q.main
IsMain(q, k) == ~q.hasMain /\ k = q.main

\* skipDuplicates: a key the post has keeps its row.
LinkInsert(r) ==
    LET q == request[r] IN
    /\ At(r, "link", "checked")
    /\ links < MaxLinks
    /\ rows' = [rows EXCEPT ![q.post] =
           [k \in Keys |->
               IF k \in q.keys \ Linked(q.post)
               THEN [link |-> links + 1, main |-> IsMain(q, k)]
               ELSE rows[q.post][k]]]
    /\ links' = links + 1
    /\ End(r)
    /\ UNCHANGED <<posts, uploaded, stored, aged, sweep, raced>>

\* Too many files, too many bytes, an error: the transaction writes nothing.
LinkEnds(r) ==
    /\ ~Idle(r) /\ request[r].op = "link"
    /\ End(r)
    /\ UNCHANGED <<posts, uploaded, stored, aged, rows, links, sweep, raced>>

-----------------------------------------------------------------------------
(***************************************************************************)
(* setFileAsMainImage: a transaction that does not lock the post           *)
(***************************************************************************)
ChooseFind(r, p, k) ==
    /\ Idle(r)
    /\ p \in posts
    /\ k \in Linked(p)
    /\ ~rows[p][k].main
    /\ request' = [request EXCEPT ![r] =
           [op |-> "choose", post |-> p, key |-> k, link |-> rows[p][k].link,
            scan |-> {}, step |-> "found"]]
    /\ raced' = IF Choosing(p) = {} THEN raced ELSE raced \union {p}
    /\ UNCHANGED <<posts, uploaded, stored, aged, rows, links, sweep>>

\* The rows that updateMany finds when it starts ...
ChooseScan(r) ==
    /\ At(r, "choose", "found")
    /\ request' = [request EXCEPT ![r].scan = Mains(request[r].post),
                                  ![r].step = "scanned"]
    /\ UNCHANGED <<posts, uploaded, stored, aged, rows, links, sweep, raced>>

\* ... and those of them it locks, when they are free, and still updates.
StillMain(p, ks) == ks \intersect Mains(p)

ChooseClear(r) ==
    LET p == request[r].post IN
    /\ At(r, "choose", "scanned")
    /\ \A k \in request[r].scan : RowFree(p, k)
    /\ request' = [request EXCEPT ![r].scan = StillMain(p, @), ![r].step = "cleared"]
    /\ UNCHANGED <<posts, uploaded, stored, aged, rows, links, sweep, raced>>

\* The target's own row may be locked too, by another choice.
ChooseCommit(r) ==
    LET q == request[r] IN
    /\ At(r, "choose", "cleared")
    /\ \A s \in Requests \ {r} :
           At(s, "choose", "cleared") /\ request[s].post = q.post
               => q.key \notin request[s].scan
    /\ q.key \in Linked(q.post) /\ rows[q.post][q.key].link = q.link
    /\ rows' = [rows EXCEPT ![q.post] =
           [k \in Keys |->
               IF k = q.key THEN [link |-> q.link, main |-> TRUE]
               ELSE IF k \in q.scan THEN [@[k] EXCEPT !.main = FALSE]
               ELSE @[k]]]
    /\ End(r)
    /\ UNCHANGED <<posts, uploaded, stored, aged, links, sweep, raced>>

\* The file is gone, or PostgreSQL ends a deadlock: nothing is written.
ChooseEnds(r) ==
    /\ ~Idle(r) /\ request[r].op = "choose"
    /\ End(r)
    /\ UNCHANGED <<posts, uploaded, stored, aged, rows, links, sweep, raced>>

-----------------------------------------------------------------------------
(***************************************************************************)
(* deleteFileById and deleteFilesByPostId: the storage first, then the     *)
(* rows                                                                    *)
(***************************************************************************)
DeleteOne(r, p, k) ==
    /\ Idle(r)
    /\ k \in Linked(p)
    /\ request' = [request EXCEPT ![r] =
           [op |-> "delete", post |-> p, keys |-> {k}, link |-> rows[p][k].link,
            step |-> "listed"]]
    /\ UNCHANGED <<posts, uploaded, stored, aged, rows, links, sweep, raced>>

DeleteAll(r, p) ==
    /\ Idle(r)
    /\ Linked(p) # {}
    /\ request' = [request EXCEPT ![r] =
           [op |-> "delete", post |-> p, keys |-> Linked(p), link |-> None,
            step |-> "listed"]]
    /\ UNCHANGED <<posts, uploaded, stored, aged, rows, links, sweep, raced>>

DeleteFiles(r) ==
    /\ At(r, "delete", "listed")
    /\ stored' = stored \ request[r].keys
    /\ Goto(r, "deleted")
    /\ UNCHANGED <<posts, uploaded, aged, rows, links, sweep, raced>>

\* One file by the id of its row, the files of a post by their keys.  The
\* variant takes every row of the post.
WholePost(q, p, k) == p = q.post
Chosen(q, p, k) ==
    /\ p = q.post /\ k \in q.keys
    /\ q.link \in {None, rows[p][k].link}

DeleteRows(r) ==
    LET q == request[r]
        gone == {k \in Linked(q.post) : Chosen(q, q.post, k)}
    IN
    /\ At(r, "delete", "deleted")
    /\ \A k \in gone : RowFree(q.post, k)
    /\ rows' = [rows EXCEPT ![q.post] =
                   [k \in Keys |-> IF k \in gone THEN None ELSE @[k]]]
    /\ End(r)
    /\ UNCHANGED <<posts, uploaded, stored, aged, links, sweep, raced>>

\* The storage refuses and the record is kept for retry, or the database
\* fails, or the process stops.
DeleteEnds(r) ==
    /\ ~Idle(r) /\ request[r].op = "delete"
    /\ End(r)
    /\ UNCHANGED <<posts, uploaded, stored, aged, rows, links, sweep, raced>>

\* deleteManyByAdmin: the rows go with the post, the files stay.
RemovePost(p) ==
    /\ p \in posts
    /\ Unlocked(p)
    /\ \A k \in Keys : RowFree(p, k)
    /\ posts' = posts \ {p}
    /\ rows' = [rows EXCEPT ![p] = [k \in Keys |-> None]]
    /\ UNCHANGED <<uploaded, stored, aged, links, request, sweep, raced>>

-----------------------------------------------------------------------------
Storage ==
    \/ \E k \in Keys : Upload(k) \/ PassDay(k) \/ CleanUp(k)
    \/ SweepSelect \/ SweepDelete \/ SweepFails

LinkFiles ==
    \E r \in Requests :
        \/ \E p \in Posts, ks \in SUBSET Keys, m \in Keys : LinkBegin(r, p, ks, m)
        \/ LinkCount(r) \/ LinkCheckMain(r) \/ LinkInsert(r) \/ LinkEnds(r)

SetMain ==
    \E r \in Requests :
        \/ \E p \in Posts, k \in Keys : ChooseFind(r, p, k)
        \/ ChooseScan(r) \/ ChooseClear(r) \/ ChooseCommit(r) \/ ChooseEnds(r)

Delete ==
    \/ \E r \in Requests :
        \/ \E p \in Posts : DeleteAll(r, p) \/ \E k \in Keys : DeleteOne(r, p, k)
        \/ DeleteFiles(r) \/ DeleteRows(r) \/ DeleteEnds(r)
    \/ \E p \in Posts : RemovePost(p)

Next == Storage \/ LinkFiles \/ SetMain \/ Delete

Spec == Init /\ [][Next]_vars

-----------------------------------------------------------------------------
TypeOK ==
    /\ posts \subseteq Posts
    /\ uploaded \subseteq Keys /\ stored \subseteq Keys
    /\ aged \subseteq Keys /\ sweep \subseteq Keys
    /\ rows \in [Posts -> [Keys -> Row \union {None}]]
    /\ links \in Nat
    /\ request \in [Requests -> Link \union Choice \union Deletion \union {None}]
    /\ raced \subseteq Posts

(***************************************************************************)
(* MAX_FILES_PER_POST holds however many requests link files at a time: the*)
(* lock on the post keeps the count valid until the rows are written.      *)
(***************************************************************************)
AtMostMaxFiles == \A p \in Posts : Cardinality(Linked(p)) <= MaxFiles

(***************************************************************************)
(* A post has one main image at most, unless setFileAsMainImage, which     *)
(* takes no lock, ran at the same time as another choice or a link request.*)
(***************************************************************************)
OneMainImage == \A p \in Posts \ raced : Cardinality(Mains(p)) <= 1

(***************************************************************************)
(* "Record kept for retry", and more: files implement PostGallery.  What   *)
(* requests do statement by statement, with deletions, cleanups and the    *)
(* job in between, is as if each had changed its post in one step.  A file *)
(* row goes only when its file has left the storage or its post goes, so   *)
(* that no file is forgotten by a deletion that failed half way; rows come *)
(* to a post that is there, as long as they fit; and a choice leaves one   *)
(* main image, but for the posts in raced.                                 *)
(***************************************************************************)
Promised ==
    INSTANCE PostGallery WITH
        files <- [p \in Posts |-> Linked(p)],
        mains <- [p \in Posts |-> Mains(p)],
        loose <- raced

ImplementsGallery == Promised!GallerySpec

=============================================================================

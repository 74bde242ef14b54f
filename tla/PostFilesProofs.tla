--------------------------- MODULE PostFilesProofs ---------------------------
(***************************************************************************)
(* For any number of posts, files and requests: the limit of files holds,  *)
(* choices that do not race leave one main image, and the requests that    *)
(* interleave are together what the gallery of a post promises.            *)
(***************************************************************************)
EXTENDS PostFiles, FiniteSetTheorems, TLAPS

\* What a running request relies on.
KeysUploaded(q) == q.op \in {"link", "delete"} => q.keys \subseteq uploaded
FilesGone(q) == q.op = "delete" /\ q.step = "deleted" => q.keys \intersect stored = {}
CountHolds(q) == q.op = "link" /\ q.step \in {"counted", "checked"} => Fits(q.post, q.keys)
RowsHeld(q) == q.op = "choose" /\ q.step = "cleared" => q.scan \subseteq Linked(q.post)
MainsSeen(q) ==
    q.post \notin raced =>
        /\ q.op = "link" /\ q.step = "checked" /\ ~q.hasMain => Mains(q.post) = {}
        /\ q.op = "choose" /\ q.step \in {"scanned", "cleared"} => Mains(q.post) \subseteq q.scan

Relies(q) ==
    /\ KeysUploaded(q)
    /\ FilesGone(q)
    /\ CountHolds(q)
    /\ RowsHeld(q)
    /\ MainsSeen(q)

RequestsRely == \A r \in Requests : request[r] # None => Relies(request[r])

\* Two requests that must not be at work on a post at once.
Linkers(q, s) == q.op = "link" /\ s.op = "link" /\ q.post = s.post
Choosers(q, s) ==
    /\ {q.op, s.op} \subseteq {"link", "choose"}
    /\ q.post = s.post /\ q.post \notin raced
Apart(q, s) == q # None /\ s # None => ~Linkers(q, s) /\ ~Choosers(q, s)

RequestsApart == \A r, t \in Requests : r # t => Apart(request[r], request[t])

LinkedUploaded == \A p \in Posts : Linked(p) \subseteq uploaded

NoTwoMains == \A p \in Posts \ raced : \A k, l \in Mains(p) : k = l

IInv ==
    /\ TypeOK
    /\ RequestsRely
    /\ RequestsApart
    /\ LinkedUploaded
    /\ AtMostMaxFiles
    /\ NoTwoMains

-----------------------------------------------------------------------------
(* The records *)

LEMMA LinkMade ==
    ASSUME NEW p \in Posts, NEW ks \in SUBSET Keys, ks # {}, NEW m \in Keys
    PROVE  LET q == [op |-> "link", post |-> p, keys |-> ks, main |-> m,
                     hasMain |-> FALSE, step |-> "locked"]
           IN  q \in Link /\ q.op = "link" /\ q.post = p /\ q.keys = ks /\ q.step = "locked"
BY DEF Link

LEMMA LinkFields ==
    ASSUME NEW q \in Link
    PROVE  /\ q.op = "link" /\ q.post \in Posts /\ q.keys \in SUBSET Keys
           /\ q.main \in Keys /\ q.hasMain \in BOOLEAN
BY DEF Link

LEMMA LinkCounted ==
    ASSUME NEW q \in Link
    PROVE  LET s == [q EXCEPT !.step = "counted"]
           IN  /\ s \in Link /\ s.op = q.op /\ s.post = q.post /\ s.keys = q.keys
               /\ s.step = "counted"
BY DEF Link

LEMMA LinkChecked ==
    ASSUME NEW q \in Link, NEW b \in BOOLEAN
    PROVE  LET s == [q EXCEPT !.hasMain = b, !.step = "checked"]
           IN  /\ s \in Link /\ s.op = q.op /\ s.post = q.post /\ s.keys = q.keys
               /\ s.hasMain = b /\ s.step = "checked"
BY DEF Link

LEMMA ChoiceMade ==
    ASSUME NEW p \in Posts, NEW k \in Keys, NEW n \in Nat
    PROVE  LET q == [op |-> "choose", post |-> p, key |-> k, link |-> n,
                     scan |-> {}, step |-> "found"]
           IN  q \in Choice /\ q.op = "choose" /\ q.post = p /\ q.step = "found"
BY DEF Choice

LEMMA ChoiceFields ==
    ASSUME NEW q \in Choice
    PROVE  /\ q.op = "choose" /\ q.post \in Posts /\ q.key \in Keys
           /\ q.link \in Nat /\ q.scan \in SUBSET Keys
BY DEF Choice

LEMMA DeletionMade ==
    ASSUME NEW p \in Posts, NEW ks \in SUBSET Keys, NEW n \in Nat \union {None}
    PROVE  LET q == [op |-> "delete", post |-> p, keys |-> ks, link |-> n, step |-> "listed"]
           IN  q \in Deletion /\ q.op = "delete" /\ q.post = p /\ q.keys = ks /\ q.step = "listed"
BY DEF Deletion

LEMMA DeletionFields ==
    ASSUME NEW q \in Deletion
    PROVE  q.op = "delete" /\ q.post \in Posts /\ q.keys \in SUBSET Keys
BY DEF Deletion

LEMMA DeletionDone ==
    ASSUME NEW q \in Deletion
    PROVE  LET s == [q EXCEPT !.step = "deleted"]
           IN  /\ s \in Deletion /\ s.op = q.op /\ s.post = q.post /\ s.keys = q.keys
               /\ s.step = "deleted"
BY DEF Deletion

LEMMA RowMade ==
    ASSUME NEW n \in Nat, NEW b \in BOOLEAN
    PROVE  /\ [link |-> n, main |-> b] \in Row
           /\ [link |-> n, main |-> b].main = b
BY DEF Row

LEMMA RowFields == ASSUME NEW w \in Row PROVE w.link \in Nat /\ w.main \in BOOLEAN
BY DEF Row

LEMMA RowCleared ==
    ASSUME NEW w \in Row
    PROVE  [w EXCEPT !.main = FALSE] \in Row /\ [w EXCEPT !.main = FALSE].main = FALSE
BY DEF Row

\* What a request is, by its operation.
LEMMA RequestKinds ==
    ASSUME TypeOK, NEW r \in Requests, request[r] # None
    PROVE  /\ request[r].op = "link" => request[r] \in Link
           /\ request[r].op = "choose" => request[r] \in Choice
           /\ request[r].op = "delete" => request[r] \in Deletion
           /\ request[r].post \in Posts
           /\ request[r].op \in {"link", "choose", "delete"}
<1>1. request[r] \in Link \/ request[r] \in Choice \/ request[r] \in Deletion
  BY DEF TypeOK
<1> QED
  BY <1>1, LinkFields, ChoiceFields, DeletionFields

-----------------------------------------------------------------------------
(***************************************************************************)
(* Two shapes of step.  The rows stay and one request changes to q; or the *)
(* requests stay, or one ends, and a post's rows change.                   *)
(***************************************************************************)
RowsStay ==
    /\ rows' = rows
    /\ uploaded' = uploaded
    /\ stored' \subseteq stored
    /\ raced \subseteq raced'

LEMMA LinkedStays == ASSUME RowsStay, NEW p PROVE Linked(p)' = Linked(p) /\ Mains(p)' = Mains(p)
BY DEF RowsStay, Linked, Mains

LEMMA RelianceStays ==
    ASSUME RowsStay, NEW q, Relies(q)
    PROVE  Relies(q)'
<1>1. KeysUploaded(q)' /\ FilesGone(q)'
  BY DEF RowsStay, Relies, KeysUploaded, FilesGone
<1>2. CountHolds(q)' /\ RowsHeld(q)'
  BY LinkedStays DEF Relies, CountHolds, RowsHeld, Fits
<1>3. MainsSeen(q)'
  BY LinkedStays DEF RowsStay, Relies, MainsSeen
<1> QED
  BY <1>1, <1>2, <1>3 DEF Relies

\* One request becomes q, which relies on what is true and keeps apart.
LEMMA RequestChanges ==
    ASSUME IInv, RowsStay, TypeOK', NEW r \in Requests, NEW q,
           request' = [request EXCEPT ![r] = q],
           q # None => Relies(q)',
           \A t \in Requests \ {r} : Apart(q, request[t])' /\ Apart(request[t], q)'
    PROVE  IInv'
<1>0. request'[r] = q /\ \A t \in Requests \ {r} : request'[t] = request[t]
  BY DEF IInv, TypeOK
<1>1. RequestsRely'
  BY <1>0, RelianceStays DEF IInv, RequestsRely
<1>2. RequestsApart'
  <2> SUFFICES ASSUME NEW s \in Requests, NEW t \in Requests, s # t
               PROVE  Apart(request[s], request[t])'
    BY DEF RequestsApart
  <2>1. CASE s = r \/ t = r
    BY <2>1, <1>0
  <2>2. CASE s # r /\ t # r
    BY <2>2, <1>0 DEF IInv, RequestsApart, Apart, Linkers, Choosers, RowsStay
  <2> QED
    BY <2>1, <2>2
<1>3. LinkedUploaded' /\ AtMostMaxFiles' /\ NoTwoMains'
  BY LinkedStays DEF IInv, RowsStay, LinkedUploaded, AtMostMaxFiles, NoTwoMains
<1> QED
  BY <1>1, <1>2, <1>3 DEF IInv

\* A request that stays one of its kind keeps apart from the others.
LEMMA ApartStays ==
    ASSUME IInv, RowsStay, NEW r \in Requests, request[r] # None, NEW q,
           request' = [request EXCEPT ![r] = q],
           q = None \/ (q.op = request[r].op /\ q.post = request[r].post)
    PROVE  \A t \in Requests \ {r} : Apart(q, request[t])' /\ Apart(request[t], q)'
<1> SUFFICES ASSUME NEW t \in Requests \ {r}
             PROVE  Apart(q, request[t])' /\ Apart(request[t], q)'
  OBVIOUS
<1>1. request'[t] = request[t]
  BY DEF IInv, TypeOK
<1>2. Apart(request[r], request[t]) /\ Apart(request[t], request[r])
  BY DEF IInv, RequestsApart
<1> QED
  BY <1>1, <1>2 DEF Apart, Linkers, Choosers, RowsStay

-----------------------------------------------------------------------------
(* The steps that leave the rows alone *)

LEMMA EndKeeps ==
    ASSUME IInv, RowsStay, TypeOK', NEW r \in Requests, request[r] # None, End(r)
    PROVE  IInv'
BY RequestChanges, ApartStays DEF End

LEMMA BeginsApart ==
    ASSUME IInv, NEW r \in Requests, NEW p \in Posts, NEW q, q.post = p,
           request' = [request EXCEPT ![r] = q],
           q.op \in {"link", "choose"},
           q.op = "link" => Unlocked(p),
           raced' = IF Choosing(p) = {} THEN raced ELSE raced \union {p}
    PROVE  \A t \in Requests \ {r} : Apart(q, request[t])' /\ Apart(request[t], q)'
<1> SUFFICES ASSUME NEW t \in Requests \ {r}, request[t] # None
             PROVE  Apart(q, request[t])' /\ Apart(request[t], q)'
  BY DEF Apart, IInv, TypeOK
<1>1. request'[t] = request[t]
  BY DEF IInv, TypeOK
<1>2. ~(request[t].op = "link" /\ request[t].post = p /\ q.op = "link")
  BY DEF Unlocked, Idle
<1>3. p \notin raced' => ~(request[t].op \in {"link", "choose"} /\ request[t].post = p)
  BY DEF Choosing, Idle
<1> QED
  BY <1>1, <1>2, <1>3 DEF Apart, Linkers, Choosers

LEMMA LinkBeginKeeps ==
    ASSUME IInv, NEW r \in Requests, NEW p \in Posts, NEW ks \in SUBSET Keys,
           NEW m \in Keys, LinkBegin(r, p, ks, m)
    PROVE  IInv'
<1> DEFINE q == [op |-> "link", post |-> p, keys |-> ks, main |-> m,
                 hasMain |-> FALSE, step |-> "locked"]
<1>1. /\ q \in Link /\ q.op = "link" /\ q.post = p /\ q.keys = ks /\ q.step = "locked"
  BY LinkMade DEF LinkBegin
<1>2. /\ request' = [request EXCEPT ![r] = q]
      /\ raced' = IF Choosing(p) = {} THEN raced ELSE raced \union {p}
      /\ Unlocked(p) /\ ks \subseteq uploaded
      /\ UNCHANGED <<posts, uploaded, stored, aged, rows, links, sweep>>
  BY DEF LinkBegin
<1> HIDE DEF q
<1>3. RowsStay
  BY <1>2 DEF RowsStay
<1>4. TypeOK'
  BY <1>1, <1>2 DEF IInv, TypeOK
<1>5. Relies(q)'
  BY <1>1, <1>2 DEF Relies, KeysUploaded, FilesGone, CountHolds, RowsHeld, MainsSeen
<1>6. \A t \in Requests \ {r} : Apart(q, request[t])' /\ Apart(request[t], q)'
  BY <1>1, <1>2, BeginsApart
<1> QED
  BY <1>2, <1>3, <1>4, <1>5, <1>6, RequestChanges

LEMMA ChooseFindKeeps ==
    ASSUME IInv, NEW r \in Requests, NEW p \in Posts, NEW k \in Keys, ChooseFind(r, p, k)
    PROVE  IInv'
<1>a. PICK q : q = [op |-> "choose", post |-> p, key |-> k, link |-> rows[p][k].link,
                    scan |-> {}, step |-> "found"]
  OBVIOUS
<1>0. rows[p][k].link \in Nat
  BY RowFields DEF ChooseFind, Linked, IInv, TypeOK
<1>1. q \in Choice /\ q.op = "choose" /\ q.post = p /\ q.step = "found"
  BY <1>a, <1>0, ChoiceMade
<1>2. /\ request' = [request EXCEPT ![r] = q]
      /\ raced' = IF Choosing(p) = {} THEN raced ELSE raced \union {p}
      /\ UNCHANGED <<posts, uploaded, stored, aged, rows, links, sweep>>
  BY <1>a DEF ChooseFind
<1>3. RowsStay
  BY <1>2 DEF RowsStay
<1>4. TypeOK'
  BY <1>1, <1>2 DEF IInv, TypeOK
<1>5. Relies(q)'
  BY <1>1, <1>2 DEF Relies, KeysUploaded, FilesGone, CountHolds, RowsHeld, MainsSeen
<1>6. \A t \in Requests \ {r} : Apart(q, request[t])' /\ Apart(request[t], q)'
  BY <1>1, <1>2, BeginsApart
<1> QED
  BY <1>2, <1>3, <1>4, <1>5, <1>6, RequestChanges

LEMMA DeleteBeginKeeps ==
    ASSUME IInv, NEW r \in Requests, NEW p \in Posts, NEW ks \in SUBSET Linked(p),
           NEW n \in Nat \union {None},
           request' = [request EXCEPT ![r] =
               [op |-> "delete", post |-> p, keys |-> ks, link |-> n, step |-> "listed"]],
           UNCHANGED <<posts, uploaded, stored, aged, rows, links, sweep, raced>>
    PROVE  IInv'
<1> DEFINE q == [op |-> "delete", post |-> p, keys |-> ks, link |-> n, step |-> "listed"]
<1>0. ks \in SUBSET Keys
  BY DEF Linked
<1>1. q \in Deletion /\ q.op = "delete" /\ q.post = p /\ q.keys = ks /\ q.step = "listed"
  BY <1>0, DeletionMade
<1>2. request' = [request EXCEPT ![r] = q]
  OBVIOUS
<1> HIDE DEF q
<1>3. RowsStay
  BY DEF RowsStay
<1>4. TypeOK'
  BY <1>1, <1>2 DEF IInv, TypeOK
<1>5. Relies(q)'
  BY <1>1, <1>2
  DEF IInv, LinkedUploaded, Relies, KeysUploaded, FilesGone, CountHolds, RowsHeld, MainsSeen
<1>6. \A t \in Requests \ {r} : Apart(q, request[t])' /\ Apart(request[t], q)'
  BY <1>1 DEF Apart, Linkers, Choosers
<1> QED
  BY <1>2, <1>3, <1>4, <1>5, <1>6, RequestChanges

LEMMA LinkCountKeeps ==
    ASSUME IInv, NEW r \in Requests, LinkCount(r)
    PROVE  IInv'
<1>a. PICK q : q = [request[r] EXCEPT !.step = "counted"]
  OBVIOUS
<1>0. request[r] # None /\ request[r].op = "link" /\ request[r] \in Link
  BY RequestKinds DEF LinkCount, At, IInv
<1>1. /\ q \in Link /\ q.op = "link" /\ q.post = request[r].post
      /\ q.keys = request[r].keys /\ q.step = "counted"
  BY <1>a, <1>0, LinkCounted
<1>2. /\ request' = [request EXCEPT ![r] = q]
      /\ Fits(q.post, q.keys)
      /\ UNCHANGED <<posts, uploaded, stored, aged, rows, links, sweep, raced>>
  BY <1>a, <1>1 DEF LinkCount, Goto, IInv, TypeOK
<1>3. RowsStay
  BY <1>2 DEF RowsStay
<1>4. TypeOK'
  BY <1>1, <1>2 DEF IInv, TypeOK
<1>5. Relies(q)
  BY <1>0, <1>1, <1>2
  DEF IInv, RequestsRely, Relies, KeysUploaded, FilesGone, CountHolds, RowsHeld, MainsSeen
<1>6. \A t \in Requests \ {r} : Apart(q, request[t])' /\ Apart(request[t], q)'
  BY <1>0, <1>1, <1>2, <1>3, ApartStays
<1> QED
  BY <1>2, <1>3, <1>4, <1>5, <1>6, RelianceStays, RequestChanges

LEMMA LinkCheckMainKeeps ==
    ASSUME IInv, NEW r \in Requests, LinkCheckMain(r)
    PROVE  IInv'
<1>b. PICK b \in BOOLEAN : b = (Mains(request[r].post) # {})
  OBVIOUS
<1>a. PICK q : q = [request[r] EXCEPT !.hasMain = b, !.step = "checked"]
  OBVIOUS
<1>0. /\ request[r] # None /\ request[r].op = "link" /\ request[r].step = "counted"
      /\ request[r] \in Link
  BY RequestKinds DEF LinkCheckMain, At, IInv
<1>1. /\ q \in Link /\ q.op = "link" /\ q.post = request[r].post
      /\ q.keys = request[r].keys /\ q.hasMain = b /\ q.step = "checked"
  BY <1>a, <1>0, LinkChecked
<1>2. /\ request' = [request EXCEPT ![r] = q]
      /\ UNCHANGED <<posts, uploaded, stored, aged, rows, links, sweep, raced>>
  BY <1>a, <1>b DEF LinkCheckMain
<1>3. ~q.hasMain => Mains(q.post) = {}
  BY <1>1, <1>b
<1>4. RowsStay
  BY <1>2 DEF RowsStay
<1>5. TypeOK'
  BY <1>1, <1>2 DEF IInv, TypeOK
<1>6. Relies(q)
  BY <1>0, <1>1, <1>3
  DEF IInv, RequestsRely, Relies, KeysUploaded, FilesGone, CountHolds, RowsHeld, MainsSeen
<1>7. \A t \in Requests \ {r} : Apart(q, request[t])' /\ Apart(request[t], q)'
  BY <1>0, <1>1, <1>2, <1>4, ApartStays
<1> QED
  BY <1>2, <1>4, <1>5, <1>6, <1>7, RelianceStays, RequestChanges

LEMMA ChooseMoves ==
    ASSUME IInv, NEW r \in Requests, request[r] # None, request[r].op = "choose",
           NEW ks \in SUBSET Keys, NEW t \in {"scanned", "cleared"},
           request' = [request EXCEPT ![r].scan = ks, ![r].step = t],
           UNCHANGED <<posts, uploaded, stored, aged, rows, links, sweep, raced>>,
           request[r].post \notin raced => Mains(request[r].post) \subseteq ks,
           t = "cleared" => ks \subseteq Linked(request[r].post)
    PROVE  IInv'
<1>a. PICK q : q = [request[r] EXCEPT !.scan = ks, !.step = t]
  OBVIOUS
<1>0. request[r] \in Choice
  BY RequestKinds DEF IInv
<1>1. /\ q \in Choice /\ q.op = "choose" /\ q.post = request[r].post
      /\ q.scan = ks /\ q.step = t
  BY <1>a, <1>0 DEF Choice
<1>2. request' = [request EXCEPT ![r] = q]
  BY <1>a DEF IInv, TypeOK
<1>3. RowsStay
  BY DEF RowsStay
<1>4. TypeOK'
  <2>1. request' \in [Requests -> Link \union Choice \union Deletion \union {None}]
    BY <1>1, <1>2 DEF IInv, TypeOK
  <2> QED
    BY <2>1 DEF IInv, TypeOK
<1>5. Relies(q)
  BY <1>1 DEF Relies, KeysUploaded, FilesGone, CountHolds, RowsHeld, MainsSeen
<1>6. \A s \in Requests \ {r} : Apart(q, request[s])' /\ Apart(request[s], q)'
  BY <1>1, <1>2, <1>3, ApartStays
<1> QED
  BY <1>2, <1>3, <1>4, <1>5, <1>6, RelianceStays, RequestChanges

LEMMA ChooseScanKeeps ==
    ASSUME IInv, NEW r \in Requests, ChooseScan(r)
    PROVE  IInv'
<1>1. PICK ks \in SUBSET Keys : ks = Mains(request[r].post)
  BY DEF Mains, Linked
<1> QED
  BY <1>1, ChooseMoves DEF ChooseScan, At

LEMMA ChooseClearKeeps ==
    ASSUME IInv, NEW r \in Requests, ChooseClear(r)
    PROVE  IInv'
<1>1. PICK ks \in SUBSET Keys : ks = StillMain(request[r].post, request[r].scan)
  BY DEF StillMain, Mains, Linked
<1>2. ks \subseteq Linked(request[r].post)
  BY <1>1 DEF StillMain, Mains
<1>3. request[r].post \notin raced => Mains(request[r].post) \subseteq ks
  BY <1>1 DEF ChooseClear, At, StillMain, IInv, RequestsRely, Relies, MainsSeen
<1>4. request' = [request EXCEPT ![r].scan = ks, ![r].step = "cleared"]
  BY <1>1 DEF ChooseClear
<1> QED
  BY <1>2, <1>3, <1>4, ChooseMoves DEF ChooseClear, At

LEMMA DeleteFilesKeeps ==
    ASSUME IInv, NEW r \in Requests, DeleteFiles(r)
    PROVE  IInv'
<1>a. PICK q : q = [request[r] EXCEPT !.step = "deleted"]
  OBVIOUS
<1>0. request[r] # None /\ request[r].op = "delete" /\ request[r] \in Deletion
  BY RequestKinds DEF DeleteFiles, At, IInv
<1>1. /\ q \in Deletion /\ q.op = "delete" /\ q.post = request[r].post
      /\ q.keys = request[r].keys /\ q.step = "deleted"
  BY <1>a, <1>0, DeletionDone
<1>2. /\ request' = [request EXCEPT ![r] = q]
      /\ stored' = stored \ q.keys
      /\ UNCHANGED <<posts, uploaded, aged, rows, links, sweep, raced>>
  BY <1>a, <1>1 DEF DeleteFiles, Goto, IInv, TypeOK
<1>3. RowsStay
  BY <1>2 DEF RowsStay
<1>4. TypeOK'
  BY <1>1, <1>2 DEF IInv, TypeOK
<1>5. Relies(q)'
  BY <1>0, <1>1, <1>2
  DEF IInv, RequestsRely, Relies, KeysUploaded, FilesGone, CountHolds, RowsHeld, MainsSeen
<1>6. \A t \in Requests \ {r} : Apart(q, request[t])' /\ Apart(request[t], q)'
  BY <1>0, <1>1, <1>2, <1>3, ApartStays
<1> QED
  BY <1>2, <1>3, <1>4, <1>5, <1>6, RequestChanges

LEMMA StorageKeeps ==
    ASSUME IInv, Storage
    PROVE  IInv'
<1> DEFINE Harmless ==
               /\ UNCHANGED <<posts, rows, links, request, raced>>
               /\ uploaded \subseteq uploaded' /\ uploaded' \subseteq Keys
               /\ stored' \subseteq stored \union (Keys \ uploaded)
               /\ aged' \subseteq Keys /\ sweep' \subseteq Keys
<1>1. Harmless
  <2>1. ASSUME NEW k \in Keys, Upload(k) \/ PassDay(k) \/ CleanUp(k) PROVE Harmless
    BY <2>1 DEF IInv, TypeOK, Upload, PassDay, CleanUp
  <2>2. ASSUME SweepSelect \/ SweepDelete \/ SweepFails PROVE Harmless
    BY <2>2 DEF IInv, TypeOK, SweepSelect, SweepDelete, SweepFails, Orphans
  <2> QED
    BY <2>1, <2>2 DEF Storage
<1>2. \A p : Linked(p)' = Linked(p) /\ Mains(p)' = Mains(p)
  BY <1>1 DEF Linked, Mains
<1>3. TypeOK'
  BY <1>1 DEF IInv, TypeOK
<1>4. ASSUME NEW q, Relies(q), q.op = "delete" => q.keys \subseteq uploaded
      PROVE  Relies(q)'
  BY <1>1, <1>2, <1>4
  DEF Relies, KeysUploaded, FilesGone, CountHolds, Fits, RowsHeld, MainsSeen
<1>5. RequestsRely'
  BY <1>1, <1>4 DEF IInv, RequestsRely, Relies, KeysUploaded
<1>6. RequestsApart'
  BY <1>1 DEF IInv, RequestsApart, Apart, Linkers, Choosers
<1>7. LinkedUploaded' /\ AtMostMaxFiles' /\ NoTwoMains'
  BY <1>1, <1>2 DEF IInv, LinkedUploaded, AtMostMaxFiles, NoTwoMains
<1> QED
  BY <1>3, <1>5, <1>6, <1>7 DEF IInv

-----------------------------------------------------------------------------
(* The steps that change rows *)

LEMMA LinkedFinite == \A p : IsFiniteSet(Linked(p))
BY SetsAssumption, FS_Subset DEF Linked

\* The rows of one post change, and no request begins.
LEMMA RowsChange ==
    ASSUME IInv, TypeOK', NEW p \in Posts,
           UNCHANGED <<uploaded, stored, raced>>,
           \A o \in Posts \ {p} : rows'[o] = rows[o],
           \A t \in Requests : request'[t] \in {None, request[t]},
           \A t \in Requests : request'[t] # None /\ request[t].post = p =>
               /\ request[t].op = "link" => Linked(p)' \subseteq Linked(p)
               /\ request[t].op = "choose" /\ request[t].step = "cleared"
                     => Linked(p) \intersect request[t].scan \subseteq Linked(p)'
               /\ request[t].op \in {"link", "choose"} /\ p \notin raced
                     => Mains(p)' \subseteq Mains(p),
           Linked(p)' \subseteq uploaded,
           Cardinality(Linked(p)') <= MaxFiles,
           p \notin raced => \A k, l \in Mains(p)' : k = l
    PROVE  IInv'
<1>1. \A o \in Posts \ {p} : Linked(o)' = Linked(o) /\ Mains(o)' = Mains(o)
  BY DEF Linked, Mains
<1>2. ASSUME NEW t \in Requests, request'[t] # None PROVE Relies(request[t])'
  <2>a. PICK q : q = request[t]
    OBVIOUS
  <2>0. request'[t] = q /\ q # None /\ Relies(q) /\ q.post \in Posts
    BY <1>2, <2>a, RequestKinds DEF IInv, RequestsRely
  <2>1. KeysUploaded(q)' /\ FilesGone(q)'
    BY <2>0 DEF Relies, KeysUploaded, FilesGone
  <2>2. CountHolds(q)'
    <3>1. CASE q.post # p
      BY <3>1, <2>0, <1>1 DEF Relies, CountHolds, Fits
    <3>2. CASE q.post = p
      <4> SUFFICES ASSUME q.op = "link", q.step \in {"counted", "checked"}
                   PROVE  Fits(p, q.keys)'
        BY <3>2 DEF CountHolds
      <4>1. Linked(p)' \subseteq Linked(p) /\ q.keys \in SUBSET Keys
        BY <1>2, <2>a, <2>0, <3>2, RequestKinds, LinkFields DEF IInv
      <4>2. Cardinality(Linked(p)') <= Cardinality(Linked(p))
        BY <4>1, LinkedFinite, FS_Subset
      <4>3. Cardinality(Linked(p)) \in Nat /\ Cardinality(Linked(p)') \in Nat
        BY <4>1, LinkedFinite, FS_Subset, FS_CardinalityType
      <4>4. IsFiniteSet(q.keys) /\ Cardinality(q.keys) \in Nat
        BY <4>1, SetsAssumption, FS_Subset, FS_CardinalityType
      <4>5. Fits(p, q.keys)
        BY <2>0, <3>2 DEF Relies, CountHolds
      <4> QED
        BY <4>2, <4>3, <4>4, <4>5, BoundsAssumption DEF Fits
    <3> QED
      BY <3>1, <3>2
  <2>3. RowsHeld(q)'
    BY <1>1, <1>2, <2>a, <2>0 DEF Relies, RowsHeld
  <2>4. MainsSeen(q)'
    BY <1>1, <1>2, <2>a, <2>0 DEF Relies, MainsSeen
  <2> QED
    BY <2>0, <2>1, <2>2, <2>3, <2>4 DEF Relies
<1>3. RequestsRely'
  BY <1>2 DEF RequestsRely
<1>4. RequestsApart'
  BY DEF IInv, RequestsApart, Apart, Linkers, Choosers
<1>5. LinkedUploaded' /\ AtMostMaxFiles' /\ NoTwoMains'
  BY <1>1 DEF IInv, LinkedUploaded, AtMostMaxFiles, NoTwoMains
<1> QED
  BY <1>3, <1>4, <1>5 DEF IInv

LEMMA DeleteRowsKeeps ==
    ASSUME IInv, NEW r \in Requests, DeleteRows(r)
    PROVE  IInv'
<1>a. PICK p \in Posts : p = request[r].post
  BY RequestKinds DEF DeleteRows, At, IInv
<1>b. PICK gone : gone = {k \in Linked(p) : Chosen(request[r], p, k)}
  OBVIOUS
<1>1. /\ rows' = [rows EXCEPT ![p] = [k \in Keys |-> IF k \in gone THEN None ELSE rows[p][k]]]
      /\ \A k \in gone : RowFree(p, k)
      /\ request' = [request EXCEPT ![r] = None]
      /\ UNCHANGED <<posts, uploaded, stored, aged, links, sweep, raced>>
  BY <1>a, <1>b DEF DeleteRows, End, IInv, TypeOK
<1>2. \A k \in Keys : rows'[p][k] = IF k \in gone THEN None ELSE rows[p][k]
  BY <1>1 DEF IInv, TypeOK
<1>3. \A o \in Posts \ {p} : rows'[o] = rows[o]
  BY <1>1 DEF IInv, TypeOK
<1>4. Linked(p)' = Linked(p) \ gone /\ Mains(p)' \subseteq Mains(p)
  BY <1>2 DEF Linked, Mains
<1>5. TypeOK'
  BY <1>1 DEF IInv, TypeOK
<1>6. \A t \in Requests : request'[t] \in {None, request[t]}
  BY <1>1 DEF IInv, TypeOK
<1>7. ASSUME NEW t \in Requests, request'[t] # None, request[t].post = p,
             request[t].op = "choose", request[t].step = "cleared"
      PROVE  Linked(p) \intersect request[t].scan \subseteq Linked(p)'
  BY <1>1, <1>4, <1>6, <1>7 DEF RowFree, At
<1>8. Cardinality(Linked(p)') <= MaxFiles
  <2>1. Cardinality(Linked(p)') <= Cardinality(Linked(p))
    BY <1>4, LinkedFinite, FS_Subset
  <2>2. Cardinality(Linked(p)) \in Nat /\ Cardinality(Linked(p)') \in Nat
    BY <1>4, LinkedFinite, FS_Subset, FS_CardinalityType
  <2> QED
    BY <2>1, <2>2, BoundsAssumption DEF IInv, AtMostMaxFiles
<1>9. Linked(p)' \subseteq uploaded /\ (p \notin raced => \A k, l \in Mains(p)' : k = l)
  BY <1>4 DEF IInv, LinkedUploaded, NoTwoMains
<1> QED
  BY <1>1, <1>3, <1>4, <1>5, <1>6, <1>7, <1>8, <1>9, RowsChange

LEMMA RemovePostKeeps ==
    ASSUME IInv, NEW p \in Posts, RemovePost(p)
    PROVE  IInv'
<1>1. /\ rows' = [rows EXCEPT ![p] = [k \in Keys |-> None]]
      /\ posts' = posts \ {p} /\ Unlocked(p) /\ \A k \in Keys : RowFree(p, k)
      /\ UNCHANGED <<uploaded, stored, aged, links, request, sweep, raced>>
  BY DEF RemovePost
<1>2. \A k \in Keys : rows'[p][k] = None
  BY <1>1 DEF IInv, TypeOK
<1>3. \A o \in Posts \ {p} : rows'[o] = rows[o]
  BY <1>1 DEF IInv, TypeOK
<1>4. Linked(p)' = {} /\ Mains(p)' = {}
  BY <1>2 DEF Linked, Mains
<1>5. TypeOK'
  BY <1>1 DEF IInv, TypeOK
<1>6. \A t \in Requests : request'[t] \in {None, request[t]}
  BY <1>1
<1>7. ASSUME NEW t \in Requests, request'[t] # None, request[t].post = p,
             request[t].op = "choose", request[t].step = "cleared"
      PROVE  Linked(p) \intersect request[t].scan \subseteq Linked(p)'
  BY <1>1, <1>7 DEF RowFree, At, Linked
<1>8. Cardinality(Linked(p)') <= MaxFiles
  BY <1>4, FS_EmptySet, BoundsAssumption
<1> QED
  BY <1>1, <1>3, <1>4, <1>5, <1>6, <1>7, <1>8, RowsChange

LEMMA FitsUnion ==
    ASSUME NEW p \in Posts, NEW ks \in SUBSET Keys, Fits(p, ks)
    PROVE  Cardinality(Linked(p) \union ks) <= MaxFiles
<1>1. IsFiniteSet(Linked(p)) /\ IsFiniteSet(ks)
  BY LinkedFinite, SetsAssumption, FS_Subset
<1>2. IsFiniteSet(Linked(p) \intersect ks)
  BY <1>1, FS_Intersection
<1>3. /\ Cardinality(Linked(p)) \in Nat /\ Cardinality(ks) \in Nat
      /\ Cardinality(Linked(p) \intersect ks) \in Nat
  BY <1>1, <1>2, FS_CardinalityType
<1>4. Cardinality(Linked(p) \union ks)
        = Cardinality(Linked(p)) + Cardinality(ks) - Cardinality(Linked(p) \intersect ks)
  BY <1>1, FS_Union
<1> QED
  BY <1>3, <1>4, BoundsAssumption DEF Fits

LEMMA LinkInsertRows ==
    ASSUME IInv, NEW r \in Requests, LinkInsert(r), NEW p \in Posts, p = request[r].post
    PROVE  /\ TypeOK'
           /\ \A o \in Posts \ {p} : rows'[o] = rows[o]
           /\ Linked(p)' = Linked(p) \union request[r].keys
           /\ \/ Mains(p)' = Mains(p)
              \/ /\ ~request[r].hasMain /\ request[r].main \in request[r].keys \ Linked(p)
                 /\ Mains(p)' = Mains(p) \union {request[r].main}
<1>a. PICK q \in Link : q = request[r]
  BY RequestKinds DEF LinkInsert, At, IInv
<1>b. p = q.post
  BY <1>a
<1>c. PICK fresh : fresh = q.keys \ Linked(p)
  OBVIOUS
<1>d. /\ request[r] # None /\ q.op = "link" /\ q.step = "checked"
      /\ q.keys \in SUBSET Keys /\ q.hasMain \in BOOLEAN /\ q.main \in Keys
  BY <1>a, LinkFields DEF LinkInsert, At
<1>1. /\ rows' = [rows EXCEPT ![p] =
                    [k \in Keys |-> IF k \in fresh
                                    THEN [link |-> links + 1, main |-> IsMain(q, k)]
                                    ELSE rows[p][k]]]
      /\ links' = links + 1
      /\ request' = [request EXCEPT ![r] = None]
      /\ UNCHANGED <<posts, uploaded, stored, aged, sweep, raced>>
  BY <1>a, <1>b, <1>c DEF LinkInsert, End
<1>2. \A k \in Keys : rows'[p][k] = IF k \in fresh
                                    THEN [link |-> links + 1, main |-> IsMain(q, k)]
                                    ELSE rows[p][k]
  BY <1>1 DEF IInv, TypeOK
<1>3. \A o \in Posts \ {p} : rows'[o] = rows[o]
  BY <1>1 DEF IInv, TypeOK
<1>4. \A k \in fresh : /\ [link |-> links + 1, main |-> IsMain(q, k)] \in Row
                       /\ [link |-> links + 1, main |-> IsMain(q, k)].main = IsMain(q, k)
  <2> SUFFICES ASSUME NEW k \in fresh
               PROVE  /\ [link |-> links + 1, main |-> IsMain(q, k)] \in Row
                      /\ [link |-> links + 1, main |-> IsMain(q, k)].main = IsMain(q, k)
    OBVIOUS
  <2>1. IsMain(q, k) \in BOOLEAN
    BY <1>d DEF IsMain
  <2>2. links + 1 \in Nat
    BY DEF IInv, TypeOK
  <2> QED
    BY <2>1, <2>2, RowMade
<1>5. Linked(p)' = Linked(p) \union fresh
  <2>1. \A k \in fresh : rows'[p][k] # None /\ k \in Keys
    <3> SUFFICES ASSUME NEW k \in fresh PROVE rows'[p][k] # None /\ k \in Keys
      OBVIOUS
    <3>1. k \in Keys
      BY <1>c, <1>d
    <3>2. rows'[p][k] \in Row
      BY <1>2, <1>4, <3>1
    <3> QED
      BY <3>1, <3>2, NoneAssumption
  <2>2. \A k \in Keys \ fresh : rows'[p][k] = rows[p][k]
    BY <1>2
  <2> QED
    BY <2>1, <2>2 DEF Linked
<1>6. \A k \in Keys : k \in Mains(p)' <=> k \in Mains(p) \/ (k \in fresh /\ IsMain(q, k))
  <2> SUFFICES ASSUME NEW k \in Keys
               PROVE  k \in Mains(p)' <=> k \in Mains(p) \/ (k \in fresh /\ IsMain(q, k))
    OBVIOUS
  <2>1. CASE k \in fresh
    BY <2>1, <1>2, <1>4, <1>5, <1>c DEF Mains
  <2>2. CASE k \notin fresh
    BY <2>2, <1>2, <1>5 DEF Mains
  <2> QED
    BY <2>1, <2>2
<1>7. TypeOK'
  <2>1. [k \in Keys |-> IF k \in fresh
                        THEN [link |-> links + 1, main |-> IsMain(q, k)]
                        ELSE rows[p][k]] \in [Keys -> Row \union {None}]
    BY <1>4 DEF IInv, TypeOK
  <2>2. rows' \in [Posts -> [Keys -> Row \union {None}]]
    BY <1>1, <2>1 DEF IInv, TypeOK
  <2> QED
    BY <1>1, <2>2 DEF IInv, TypeOK
<1>8. Mains(p) \subseteq Keys /\ Mains(p)' \subseteq Keys
  BY DEF Mains, Linked
<1>9. CASE ~q.hasMain /\ q.main \in fresh
  <2>1. Mains(p)' = Mains(p) \union {q.main}
    BY <1>6, <1>8, <1>9, <1>d DEF IsMain
  <2> QED
    BY <1>3, <1>5, <1>7, <1>9, <1>a, <1>c, <2>1
<1>10. CASE ~(~q.hasMain /\ q.main \in fresh)
  <2>1. Mains(p)' = Mains(p)
    BY <1>6, <1>8, <1>10 DEF IsMain
  <2> QED
    BY <1>3, <1>5, <1>7, <1>a, <1>c, <2>1
<1> QED
  BY <1>9, <1>10

LEMMA LinkInsertKeeps ==
    ASSUME IInv, NEW r \in Requests, LinkInsert(r)
    PROVE  IInv'
<1>a. PICK q \in Link : q = request[r]
  BY RequestKinds DEF LinkInsert, At, IInv
<1>b. PICK p \in Posts : p = q.post
  BY LinkFields
<1>d. /\ request[r] # None /\ q.op = "link" /\ q.step = "checked"
      /\ q.keys \in SUBSET Keys /\ q.hasMain \in BOOLEAN /\ q.main \in Keys
  BY <1>a, LinkFields DEF LinkInsert, At
<1>1. /\ request' = [request EXCEPT ![r] = None]
      /\ UNCHANGED <<posts, uploaded, stored, aged, sweep, raced>>
  BY DEF LinkInsert, End
<1>2. /\ TypeOK'
      /\ \A o \in Posts \ {p} : rows'[o] = rows[o]
      /\ Linked(p)' = Linked(p) \union q.keys
      /\ \/ Mains(p)' = Mains(p)
         \/ ~q.hasMain /\ Mains(p)' = Mains(p) \union {q.main}
  BY <1>a, <1>b, LinkInsertRows
<1>3. ASSUME NEW t \in Requests
      PROVE  /\ request'[t] \in {None, request[t]}
             /\ request'[t] # None /\ request[t].post = p =>
                  /\ request[t].op # "link"
                  /\ request[t].op = "choose" => p \in raced
  BY <1>1, <1>a, <1>b, <1>d DEF IInv, TypeOK, RequestsApart, Apart, Linkers, Choosers
<1>4. Relies(q) /\ q.keys \subseteq uploaded
  BY <1>a, <1>d DEF IInv, RequestsRely, Relies, KeysUploaded
<1>5. Cardinality(Linked(p)') <= MaxFiles
  BY <1>2, <1>4, <1>b, <1>d, FitsUnion DEF Relies, CountHolds
<1>6. Linked(p)' \subseteq uploaded
  BY <1>2, <1>4 DEF IInv, LinkedUploaded
<1>7. p \notin raced => \A k, l \in Mains(p)' : k = l
  <2>1. p \notin raced /\ ~q.hasMain => Mains(p) = {}
    BY <1>4, <1>b, <1>d DEF Relies, MainsSeen
  <2> QED
    BY <1>2, <2>1 DEF IInv, NoTwoMains
<1>8. \A t \in Requests : request'[t] # None /\ request[t].post = p =>
         /\ request[t].op = "link" => Linked(p)' \subseteq Linked(p)
         /\ request[t].op = "choose" /\ request[t].step = "cleared"
               => Linked(p) \intersect request[t].scan \subseteq Linked(p)'
         /\ request[t].op \in {"link", "choose"} /\ p \notin raced
               => Mains(p)' \subseteq Mains(p)
  BY <1>2, <1>3
<1>9. TypeOK' /\ \A o \in Posts \ {p} : rows'[o] = rows[o]
  BY <1>2
<1> QED
  BY <1>1, <1>3, <1>5, <1>6, <1>7, <1>8, <1>9, RowsChange

LEMMA ChooseCommitRows ==
    ASSUME IInv, NEW r \in Requests, ChooseCommit(r), NEW p \in Posts, p = request[r].post
    PROVE  /\ rows' \in [Posts -> [Keys -> Row \union {None}]]
           /\ \A o \in Posts \ {p} : rows'[o] = rows[o]
           /\ Linked(p)' = Linked(p)
           /\ Mains(p)' = {request[r].key} \union (Mains(p) \ request[r].scan)
<1>a. PICK q \in Choice : q = request[r]
  BY RequestKinds DEF ChooseCommit, At, IInv
<1>b. /\ request[r] # None /\ q.op = "choose" /\ q.step = "cleared"
      /\ q.key \in Linked(p) /\ q.link \in Nat /\ q.scan \in SUBSET Keys
  BY <1>a, ChoiceFields DEF ChooseCommit, At
<1>c. q.scan \subseteq Linked(p)
  BY <1>a, <1>b DEF IInv, RequestsRely, Relies, RowsHeld
<1> DEFINE New(k) == IF k = q.key THEN [link |-> q.link, main |-> TRUE]
                     ELSE IF k \in q.scan THEN [rows[p][k] EXCEPT !.main = FALSE]
                     ELSE rows[p][k]
<1>1. rows' = [rows EXCEPT ![p] = [k \in Keys |-> New(k)]]
  BY <1>a DEF ChooseCommit, IInv, TypeOK
<1>2. \A k \in Linked(p) : rows[p][k] \in Row /\ k \in Keys
  BY DEF Linked, IInv, TypeOK
<1>3. \A k \in Linked(p) :
          New(k) \in Row /\ (New(k).main <=> k = q.key \/ k \in Mains(p) \ q.scan)
  BY <1>2, <1>b, <1>c, RowMade, RowCleared DEF Mains
<1>4. \A k \in Keys \ Linked(p) : New(k) = None
  BY <1>b, <1>c DEF Linked
<1> HIDE DEF New
<1>5. [k \in Keys |-> New(k)] \in [Keys -> Row \union {None}]
  BY <1>3, <1>4
<1>6. rows' \in [Posts -> [Keys -> Row \union {None}]]
  BY <1>1, <1>5 DEF IInv, TypeOK
<1>7. /\ \A k \in Keys : rows'[p][k] = New(k)
      /\ \A o \in Posts \ {p} : rows'[o] = rows[o]
  BY <1>1 DEF IInv, TypeOK
<1>8. Linked(p)' = Linked(p)
  BY <1>3, <1>4, <1>7, NoneAssumption DEF Linked
<1>9. Mains(p)' = {q.key} \union (Mains(p) \ q.scan)
  BY <1>b, <1>2, <1>3, <1>7, <1>8 DEF Mains
<1> QED
  BY <1>a, <1>6, <1>7, <1>8, <1>9

LEMMA ChooseCommitKeeps ==
    ASSUME IInv, NEW r \in Requests, ChooseCommit(r)
    PROVE  IInv'
<1>a. PICK q \in Choice : q = request[r]
  BY RequestKinds DEF ChooseCommit, At, IInv
<1>b. PICK p \in Posts : p = q.post
  BY ChoiceFields
<1>d. request[r] # None /\ q.op = "choose" /\ q.step = "cleared" /\ Relies(q)
  BY <1>a DEF ChooseCommit, At, IInv, RequestsRely
<1>1. /\ request' = [request EXCEPT ![r] = None]
      /\ UNCHANGED <<posts, uploaded, stored, aged, links, sweep, raced>>
  BY DEF ChooseCommit, End
<1>2. /\ rows' \in [Posts -> [Keys -> Row \union {None}]]
      /\ \A o \in Posts \ {p} : rows'[o] = rows[o]
      /\ Linked(p)' = Linked(p)
      /\ Mains(p)' = {q.key} \union (Mains(p) \ q.scan)
  BY <1>a, <1>b, ChooseCommitRows
<1>3. TypeOK'
  BY <1>1, <1>2 DEF IInv, TypeOK
<1>4. ASSUME NEW t \in Requests
      PROVE  /\ request'[t] \in {None, request[t]}
             /\ request'[t] # None /\ request[t].post = p
                  /\ request[t].op \in {"link", "choose"} => p \in raced
  BY <1>1, <1>a, <1>b, <1>d DEF IInv, TypeOK, RequestsApart, Apart, Choosers
<1>5. p \notin raced => \A k, l \in Mains(p)' : k = l
  BY <1>2, <1>b, <1>d DEF Relies, MainsSeen
<1>6. Cardinality(Linked(p)') <= MaxFiles /\ Linked(p)' \subseteq uploaded
  BY <1>2 DEF IInv, AtMostMaxFiles, LinkedUploaded
<1> QED
  BY <1>1, <1>2, <1>3, <1>4, <1>5, <1>6, RowsChange

-----------------------------------------------------------------------------
LEMMA InitIInv == Init => IInv
<1> SUFFICES ASSUME Init PROVE IInv
  OBVIOUS
<1>1. TypeOK
  BY DEF Init, TypeOK
<1>2. \A p \in Posts : Linked(p) = {} /\ Mains(p) = {}
  BY DEF Init, Linked, Mains
<1>3. AtMostMaxFiles
  BY <1>2, FS_EmptySet, BoundsAssumption DEF AtMostMaxFiles
<1> QED
  BY <1>1, <1>2, <1>3
  DEF Init, IInv, RequestsRely, RequestsApart, Apart, LinkedUploaded, NoTwoMains

LEMMA EndsKeep ==
    ASSUME IInv, NEW r \in Requests, LinkEnds(r) \/ ChooseEnds(r) \/ DeleteEnds(r)
    PROVE  IInv'
<1>1. /\ request[r] # None /\ End(r)
      /\ UNCHANGED <<posts, uploaded, stored, aged, rows, links, sweep, raced>>
  BY DEF LinkEnds, ChooseEnds, DeleteEnds, Idle
<1>2. RowsStay /\ TypeOK'
  BY <1>1 DEF RowsStay, IInv, TypeOK, End
<1> QED
  BY <1>1, <1>2, EndKeeps

LEMMA NextIInv ==
    ASSUME IInv, [Next]_vars
    PROVE  IInv'
<1>1. CASE Storage
  BY <1>1, StorageKeeps
<1>2. CASE LinkFiles
  <2>1. PICK r \in Requests :
            \/ \E p \in Posts, ks \in SUBSET Keys, m \in Keys : LinkBegin(r, p, ks, m)
            \/ LinkCount(r) \/ LinkCheckMain(r) \/ LinkInsert(r) \/ LinkEnds(r)
    BY <1>2 DEF LinkFiles
  <2> QED
    BY <2>1, LinkBeginKeeps, LinkCountKeeps, LinkCheckMainKeeps, LinkInsertKeeps, EndsKeep
<1>3. CASE SetMain
  <2>1. PICK r \in Requests :
            \/ \E p \in Posts, k \in Keys : ChooseFind(r, p, k)
            \/ ChooseScan(r) \/ ChooseClear(r) \/ ChooseCommit(r) \/ ChooseEnds(r)
    BY <1>3 DEF SetMain
  <2> QED
    BY <2>1, ChooseFindKeeps, ChooseScanKeeps, ChooseClearKeeps, ChooseCommitKeeps, EndsKeep
<1>4. CASE Delete
  <2>1. ASSUME NEW r \in Requests, NEW p \in Posts, DeleteAll(r, p) PROVE IInv'
    <3>1. PICK ks \in SUBSET Linked(p) : ks = Linked(p)
      OBVIOUS
    <3> QED
      BY <2>1, <3>1, DeleteBeginKeeps DEF DeleteAll
  <2>2. ASSUME NEW r \in Requests, NEW p \in Posts, NEW k \in Keys, DeleteOne(r, p, k)
        PROVE  IInv'
    <3>1. PICK n \in Nat \union {None} : n = rows[p][k].link
      BY <2>2, RowFields DEF DeleteOne, Linked, IInv, TypeOK
    <3>2. {k} \in SUBSET Linked(p)
      BY <2>2 DEF DeleteOne
    <3> QED
      BY <2>2, <3>1, <3>2, DeleteBeginKeeps DEF DeleteOne
  <2> QED
    BY <1>4, <2>1, <2>2, DeleteFilesKeeps, DeleteRowsKeeps, EndsKeep, RemovePostKeeps DEF Delete
<1>5. CASE UNCHANGED vars
  <2>1. TypeOK' /\ RequestsRely'
    BY <1>5 DEF vars, IInv, TypeOK, RequestsRely, Relies, KeysUploaded, FilesGone, CountHolds,
                Fits, RowsHeld, MainsSeen, Linked, Mains
  <2>2. RequestsApart'
    BY <1>5 DEF vars, IInv, RequestsApart, Apart, Linkers, Choosers
  <2>3. LinkedUploaded' /\ AtMostMaxFiles' /\ NoTwoMains'
    BY <1>5 DEF vars, IInv, LinkedUploaded, AtMostMaxFiles, NoTwoMains, Linked, Mains
  <2> QED
    BY <2>1, <2>2, <2>3 DEF IInv
<1> QED
  BY <1>1, <1>2, <1>3, <1>4, <1>5 DEF Next

\* The inductive invariant holds in every behaviour.
THEOREM Invariance == Spec => []IInv
<1>1. IInv /\ [Next]_vars => IInv'
  BY NextIInv
<1> QED
  BY <1>1, InitIInv, PTL DEF Spec

\* TypeOK: every variable always holds a value of its type.
THEOREM TypeCorrect == Spec => []TypeOK
<1>1. IInv => TypeOK
  BY DEF IInv
<1> QED
  BY <1>1, Invariance, PTL

\* AtMostMaxFiles: the lock keeps the limit, for any limit and any requests.
THEOREM Limit == Spec => []AtMostMaxFiles
<1>1. IInv => AtMostMaxFiles
  BY DEF IInv
<1> QED
  BY <1>1, Invariance, PTL

\* OneMainImage: two main images need a choice that raced.
THEOREM MainImage == Spec => []OneMainImage
<1>1. ASSUME IInv PROVE OneMainImage
  <2> SUFFICES ASSUME NEW p \in Posts \ raced PROVE Cardinality(Mains(p)) <= 1
    BY DEF OneMainImage
  <2>1. CASE Mains(p) = {}
    BY <2>1, FS_EmptySet
  <2>2. CASE Mains(p) # {}
    <3>1. PICK k : k \in Mains(p)
      BY <2>2
    <3>2. Mains(p) = {k}
      BY <1>1, <3>1 DEF IInv, NoTwoMains
    <3> QED
      BY <3>2, FS_Singleton
  <2> QED
    BY <2>1, <2>2
<1>2. IInv => OneMainImage
  BY <1>1
<1> QED
  BY <1>2, Invariance, PTL

-----------------------------------------------------------------------------
(* The gallery: what is seen of the rows *)

LinkedOf == [p \in Posts |-> Linked(p)]
MainsOf == [p \in Posts |-> Mains(p)]

\* The lock keeps the post there while files are linked to it.
PostHeld(q) == q # None /\ q.op = "link" => q.post \in posts
PostsHeld == \A r \in Requests : PostHeld(request[r])

\* One request changes, and the posts stay.
LEMMA HoldingStays ==
    ASSUME TypeOK, PostsHeld, NEW r \in Requests, NEW q, PostHeld(q),
           request' = [request EXCEPT ![r] = q], posts' = posts
    PROVE  PostsHeld'
BY DEF TypeOK, PostsHeld, PostHeld

LEMMA LinkHolds ==
    ASSUME TypeOK, PostsHeld, LinkFiles
    PROVE  PostsHeld'
<1>0. PICK r \in Requests :
          \/ \E p \in Posts, ks \in SUBSET Keys, m \in Keys : LinkBegin(r, p, ks, m)
          \/ LinkCount(r) \/ LinkCheckMain(r) \/ LinkInsert(r) \/ LinkEnds(r)
  BY DEF LinkFiles
<1>1. ASSUME NEW p \in Posts, NEW ks \in SUBSET Keys, NEW m \in Keys, LinkBegin(r, p, ks, m)
      PROVE  PostsHeld'
  BY <1>1, LinkMade, HoldingStays DEF LinkBegin, PostHeld
<1>2. CASE LinkCount(r)
  <2>1. PICK q : q = [request[r] EXCEPT !.step = "counted"]
    OBVIOUS
  <2>2. request[r] \in Link
    BY <1>2, RequestKinds DEF LinkCount, At
  <2>3. q.op = request[r].op /\ q.post = request[r].post
    BY <2>1, <2>2, LinkCounted
  <2>4. request[r] # None /\ request[r].op = "link"
    BY <1>2 DEF LinkCount, At
  <2>5. request' = [request EXCEPT ![r] = q] /\ posts' = posts
    BY <1>2, <2>1 DEF LinkCount, Goto, TypeOK
  <2> QED
    BY <2>3, <2>4, <2>5, HoldingStays DEF PostsHeld, PostHeld
<1>3. CASE LinkCheckMain(r)
  <2>0. PICK b \in BOOLEAN : b = (Mains(request[r].post) # {})
    OBVIOUS
  <2>1. PICK q : q = [request[r] EXCEPT !.hasMain = b, !.step = "checked"]
    OBVIOUS
  <2>2. request[r] \in Link
    BY <1>3, RequestKinds DEF LinkCheckMain, At
  <2>3. q.op = request[r].op /\ q.post = request[r].post
    BY <2>1, <2>2, LinkChecked
  <2>4. request[r] # None /\ request[r].op = "link"
    BY <1>3 DEF LinkCheckMain, At
  <2>5. request' = [request EXCEPT ![r] = q] /\ posts' = posts
    BY <1>3, <2>0, <2>1 DEF LinkCheckMain
  <2> QED
    BY <2>3, <2>4, <2>5, HoldingStays DEF PostsHeld, PostHeld
<1>4. CASE LinkInsert(r) \/ LinkEnds(r)
  BY <1>4, HoldingStays DEF LinkInsert, LinkEnds, End, PostHeld
<1> QED
  BY <1>0, <1>1, <1>2, <1>3, <1>4

\* A choice and a deletion stay what they are.
LEMMA ChoiceHolds ==
    ASSUME TypeOK, PostsHeld, SetMain
    PROVE  PostsHeld'
<1>0. PICK r \in Requests :
          \/ \E p \in Posts, k \in Keys : ChooseFind(r, p, k)
          \/ ChooseScan(r) \/ ChooseClear(r) \/ ChooseCommit(r) \/ ChooseEnds(r)
  BY DEF SetMain
<1>1. CASE \E p \in Posts, k \in Keys : ChooseFind(r, p, k)
  BY <1>1, HoldingStays DEF ChooseFind, PostHeld
<1>2. ASSUME NEW ks, NEW step, At(r, "choose", step), posts' = posts,
             NEW t, request' = [request EXCEPT ![r].scan = ks, ![r].step = t]
      PROVE  PostsHeld'
  <2>1. PICK q : q = [request[r] EXCEPT !.scan = ks, !.step = t]
    OBVIOUS
  <2>2. request[r] \in Choice
    BY <1>2, RequestKinds DEF At
  <2>3. q.op = "choose"
    BY <2>1, <2>2 DEF Choice
  <2>4. request' = [request EXCEPT ![r] = q]
    BY <1>2, <2>1
  <2> QED
    BY <1>2, <2>3, <2>4, HoldingStays DEF PostHeld
<1>3. CASE ChooseScan(r)
  <2>1. PICK ks : ks = Mains(request[r].post)
    OBVIOUS
  <2> QED
    BY <1>2, <1>3, <2>1 DEF ChooseScan
<1>4. CASE ChooseClear(r)
  <2>1. PICK ks : ks = StillMain(request[r].post, request[r].scan)
    OBVIOUS
  <2> QED
    BY <1>2, <1>4, <2>1 DEF ChooseClear
<1>5. CASE ChooseCommit(r) \/ ChooseEnds(r)
  BY <1>5, HoldingStays DEF ChooseCommit, ChooseEnds, End, PostHeld
<1> QED
  BY <1>0, <1>1, <1>3, <1>4, <1>5

LEMMA DeletionHolds ==
    ASSUME TypeOK, PostsHeld, Delete
    PROVE  PostsHeld'
<1>1. ASSUME NEW p \in Posts, RemovePost(p) PROVE PostsHeld'
  BY <1>1 DEF RemovePost, Unlocked, Idle, PostsHeld, PostHeld
<1>2. ASSUME NEW r \in Requests,
             \/ \E p \in Posts : DeleteAll(r, p) \/ \E k \in Keys : DeleteOne(r, p, k)
             \/ DeleteRows(r) \/ DeleteEnds(r)
      PROVE  PostsHeld'
  BY <1>2, HoldingStays DEF DeleteAll, DeleteOne, DeleteRows, DeleteEnds, End, PostHeld
<1>3. ASSUME NEW r \in Requests, DeleteFiles(r) PROVE PostsHeld'
  <2>1. PICK q : q = [request[r] EXCEPT !.step = "deleted"]
    OBVIOUS
  <2>2. request[r] \in Deletion
    BY <1>3, RequestKinds DEF DeleteFiles, At
  <2>3. q.op = "delete"
    BY <2>1, <2>2, DeletionDone, DeletionFields
  <2>4. request' = [request EXCEPT ![r] = q] /\ posts' = posts
    BY <1>3, <2>1 DEF DeleteFiles, Goto, TypeOK
  <2> QED
    BY <2>3, <2>4, HoldingStays DEF PostHeld
<1> QED
  BY <1>1, <1>2, <1>3 DEF Delete

LEMMA NextHolds ==
    ASSUME TypeOK, PostsHeld, [Next]_vars
    PROVE  PostsHeld'
<1>1. CASE Storage
  BY <1>1 DEF Storage, Upload, PassDay, CleanUp, SweepSelect, SweepDelete, SweepFails,
              PostsHeld, PostHeld
<1>2. CASE UNCHANGED vars
  BY <1>2 DEF vars, PostsHeld, PostHeld
<1> QED
  BY <1>1, <1>2, LinkHolds, ChoiceHolds, DeletionHolds DEF Next

\* Only one post's rows change.
LEMMA OnePost ==
    ASSUME NEW p \in Posts, NEW ks, NEW ms, Linked(p)' = ks, Mains(p)' = ms,
           \A o \in Posts \ {p} : rows'[o] = rows[o]
    PROVE  LinkedOf' = [LinkedOf EXCEPT ![p] = ks] /\ MainsOf' = [MainsOf EXCEPT ![p] = ms]
<1>1. \A o \in Posts \ {p} : Linked(o)' = Linked(o) /\ Mains(o)' = Mains(o)
  BY DEF Linked, Mains
<1> QED
  BY <1>1 DEF LinkedOf, MainsOf

\* The gallery counts as the model does.
LEMMA SameCardinality == \A S : Promised!Cardinality(S) = Cardinality(S)
BY DEF Promised!Cardinality, Cardinality

LEMMA LinkRefines ==
    ASSUME IInv, PostsHeld, NEW r \in Requests, LinkInsert(r)
    PROVE  \E p \in Posts, ks \in SUBSET Keys : Promised!Add(p, ks)
<1>1. PICK q \in Link : q = request[r]
  BY RequestKinds DEF LinkInsert, At, IInv
<1>2. PICK p \in Posts : p = q.post
  BY LinkFields
<1>3. /\ request[r] # None /\ q.op = "link" /\ q.step = "checked"
      /\ q.keys \in SUBSET Keys /\ p \in posts /\ Relies(q)
  BY <1>1, <1>2, LinkFields DEF LinkInsert, At, PostsHeld, PostHeld, IInv, RequestsRely
<1>4. PICK fresh \in SUBSET Keys : fresh = q.keys \ Linked(p)
  BY <1>3
<1>5. PICK ks, ms : ks = Linked(p) \union fresh /\ ms = Mains(p)'
  OBVIOUS
<1>6. /\ \A o \in Posts \ {p} : rows'[o] = rows[o]
      /\ Linked(p)' = ks
      /\ \/ ms = Mains(p)
         \/ ~q.hasMain /\ q.main \in fresh /\ ms = Mains(p) \union {q.main}
  BY <1>1, <1>2, <1>4, <1>5, LinkInsertRows
<1>7. LinkedOf' = [LinkedOf EXCEPT ![p] = ks] /\ MainsOf' = [MainsOf EXCEPT ![p] = ms]
  BY <1>5, <1>6, OnePost
<1>8. Cardinality(ks) <= MaxFiles
  <2>1. ks = Linked(p) \union q.keys
    BY <1>4, <1>5
  <2> QED
    BY <1>2, <1>3, <2>1, FitsUnion DEF Relies, CountHolds
<1>9. ~q.hasMain => Mains(p) = {} \/ p \in raced
  BY <1>2, <1>3 DEF Relies, MainsSeen
<1>10. LinkedOf[p] = Linked(p) /\ MainsOf[p] = Mains(p)
  BY DEF LinkedOf, MainsOf
<1>11. \/ MainsOf' = MainsOf
       \/ /\ MainsOf[p] = {} \/ p \in raced
          /\ \E m \in fresh : MainsOf' = [MainsOf EXCEPT ![p] = MainsOf[p] \union {m}]
  <2>1. CASE ms = Mains(p)
    BY <1>7, <2>1 DEF MainsOf
  <2>2. CASE ~q.hasMain /\ q.main \in fresh /\ ms = Mains(p) \union {q.main}
    BY <1>7, <1>9, <1>10, <2>2
  <2> QED
    BY <1>6, <2>1, <2>2
<1>12. /\ fresh \intersect LinkedOf[p] = {}
       /\ Promised!Cardinality(LinkedOf[p] \union fresh) <= MaxFiles
       /\ LinkedOf' = [LinkedOf EXCEPT ![p] = LinkedOf[p] \union fresh]
  BY <1>4, <1>5, <1>7, <1>8, <1>10, SameCardinality
<1>13. UNCHANGED <<posts, stored, raced>>
  BY DEF LinkInsert
<1>14. Promised!Add(p, fresh)
  <2>1. CASE MainsOf' = MainsOf
    BY <1>3, <1>12, <1>13, <2>1 DEF Promised!Add, LinkedOf, MainsOf
  <2>2. CASE /\ MainsOf[p] = {} \/ p \in raced
             /\ \E m \in fresh : MainsOf' = [MainsOf EXCEPT ![p] = MainsOf[p] \union {m}]
    <3>1. PICK m \in fresh : MainsOf' = [MainsOf EXCEPT ![p] = MainsOf[p] \union {m}]
      BY <2>2
    <3> QED
      BY <1>3, <1>12, <1>13, <2>2, <3>1 DEF Promised!Add, LinkedOf, MainsOf
  <2> QED
    BY <1>11, <2>1, <2>2
<1> QED
  BY <1>4, <1>14

LEMMA ChoiceRefines ==
    ASSUME IInv, NEW r \in Requests, ChooseCommit(r)
    PROVE  \E p \in Posts, k \in Keys : Promised!Choose(p, k)
<1>1. PICK q \in Choice : q = request[r]
  BY RequestKinds DEF ChooseCommit, At, IInv
<1>2. PICK p \in Posts : p = q.post
  BY ChoiceFields
<1>3. PICK k \in Keys : k = q.key
  BY ChoiceFields
<1>4. /\ q.op = "choose" /\ q.step = "cleared" /\ Relies(q) /\ k \in Linked(p)
      /\ UNCHANGED <<posts, stored, raced>>
  BY <1>1, <1>2, <1>3 DEF ChooseCommit, At, IInv, RequestsRely
<1>5. PICK others, ks : others = Mains(p) \ q.scan /\ ks = Linked(p)
  OBVIOUS
<1>6. /\ \A o \in Posts \ {p} : rows'[o] = rows[o]
      /\ Linked(p)' = ks /\ Mains(p)' = others \union {k}
  BY <1>1, <1>2, <1>3, <1>5, ChooseCommitRows
<1>7. /\ LinkedOf' = [LinkedOf EXCEPT ![p] = ks]
      /\ MainsOf' = [MainsOf EXCEPT ![p] = others \union {k}]
  BY <1>6, OnePost
<1>8. LinkedOf[p] = Linked(p) /\ MainsOf[p] = Mains(p) /\ LinkedOf' = LinkedOf
  BY <1>5, <1>7 DEF LinkedOf, MainsOf
<1>9. others \in SUBSET MainsOf[p] /\ (p \in raced \/ others = {})
  BY <1>2, <1>4, <1>5, <1>8 DEF Relies, MainsSeen
<1>10. k \in LinkedOf[p]
  BY <1>4, <1>8
<1>11. Promised!Choose(p, k)
  BY <1>4, <1>7, <1>8, <1>9, <1>10 DEF Promised!Choose, LinkedOf, MainsOf
<1> QED
  BY <1>11

LEMMA DeletionRefines ==
    ASSUME IInv, NEW r \in Requests, DeleteRows(r)
    PROVE  \E p \in Posts, ks \in SUBSET Keys : Promised!Remove(p, ks)
<1>1. PICK p \in Posts : p = request[r].post
  BY RequestKinds DEF DeleteRows, At, IInv
<1>2. PICK gone \in SUBSET Keys : gone = {k \in Linked(p) : Chosen(request[r], p, k)}
  BY DEF Linked
<1>3. /\ rows' = [rows EXCEPT ![p] = [k \in Keys |-> IF k \in gone THEN None ELSE rows[p][k]]]
      /\ UNCHANGED <<posts, stored, raced>>
  BY <1>1, <1>2 DEF DeleteRows, IInv, TypeOK
<1>4. /\ \A k \in Keys : rows'[p][k] = IF k \in gone THEN None ELSE rows[p][k]
      /\ \A o \in Posts \ {p} : rows'[o] = rows[o]
  BY <1>3 DEF IInv, TypeOK
<1>5. PICK ks, ms : ks = Linked(p) \ gone /\ ms = Mains(p) \ gone
  OBVIOUS
<1>6. Linked(p)' = ks /\ Mains(p)' = ms
  BY <1>4, <1>5 DEF Linked, Mains
<1>7. LinkedOf' = [LinkedOf EXCEPT ![p] = ks] /\ MainsOf' = [MainsOf EXCEPT ![p] = ms]
  BY <1>4, <1>6, OnePost
<1>8. LinkedOf[p] = Linked(p) /\ MainsOf[p] = Mains(p)
  BY DEF LinkedOf, MainsOf
<1>9. gone \intersect stored = {}
  <2>1. gone \subseteq request[r].keys
    BY <1>2 DEF Chosen
  <2>2. request[r].keys \intersect stored = {}
    BY DEF DeleteRows, At, IInv, RequestsRely, Relies, FilesGone
  <2> QED
    BY <2>1, <2>2
<1>10. Promised!Remove(p, gone)
  BY <1>3, <1>5, <1>7, <1>8, <1>9 DEF Promised!Remove, LinkedOf, MainsOf
<1> QED
  BY <1>10

LEMMA RemovalRefines ==
    ASSUME IInv, NEW p \in Posts, RemovePost(p)
    PROVE  Promised!Drop(p)
<1>1. /\ \A k \in Keys : rows'[p][k] = None
      /\ \A o \in Posts \ {p} : rows'[o] = rows[o]
  BY DEF RemovePost, IInv, TypeOK
<1>2. Linked(p)' = {} /\ Mains(p)' = {}
  BY <1>1 DEF Linked, Mains
<1>3. LinkedOf' = [LinkedOf EXCEPT ![p] = {}] /\ MainsOf' = [MainsOf EXCEPT ![p] = {}]
  BY <1>1, <1>2, OnePost
<1> QED
  BY <1>3 DEF RemovePost, Promised!Drop, LinkedOf, MainsOf

\* The steps that leave the rows and the posts alone.
LEMMA OthersRefine ==
    ASSUME IInv, UNCHANGED <<posts, rows>>,
           \/ /\ raced' = raced
              /\ \A k \in stored' \ stored : k \notin uploaded
           \/ stored' = stored /\ raced \subseteq raced'
    PROVE  Promised!Store \/ Promised!Loosen
<1>1. LinkedOf' = LinkedOf /\ MainsOf' = MainsOf
  BY DEF LinkedOf, MainsOf, Linked, Mains
<1>2. CASE stored' = stored /\ raced \subseteq raced'
  BY <1>1, <1>2 DEF Promised!Loosen, LinkedOf, MainsOf
<1>3. CASE raced' = raced /\ \A k \in stored' \ stored : k \notin uploaded
  <2>1. \A k \in stored' \ stored : \A p \in Posts : k \notin LinkedOf[p]
    BY <1>3 DEF LinkedOf, IInv, LinkedUploaded
  <2> QED
    BY <1>1, <1>3, <2>1 DEF Promised!Store, LinkedOf, MainsOf
<1> QED
  BY <1>2, <1>3

LEMMA StepRefines ==
    ASSUME IInv, PostsHeld, [Next]_vars
    PROVE  Promised!GalleryNext
<1> DEFINE Aside ==
               /\ UNCHANGED <<posts, rows>>
               /\ \/ /\ raced' = raced
                     /\ \A k \in stored' \ stored : k \notin uploaded
                  \/ stored' = stored /\ raced \subseteq raced'
<1>1. CASE \E r \in Requests : LinkInsert(r)
  BY <1>1, LinkRefines DEF Promised!GalleryNext
<1>2. CASE \E r \in Requests : ChooseCommit(r)
  BY <1>2, ChoiceRefines DEF Promised!GalleryNext
<1>3. CASE \E r \in Requests : DeleteRows(r)
  BY <1>3, DeletionRefines DEF Promised!GalleryNext
<1>4. CASE \E p \in Posts : RemovePost(p)
  BY <1>4, RemovalRefines DEF Promised!GalleryNext
<1>5. CASE Aside
  BY <1>5, OthersRefine DEF Promised!GalleryNext
<1>6. CASE Storage
  <2>1. Aside
    BY <1>6 DEF Storage, Upload, PassDay, CleanUp, SweepSelect, SweepDelete, SweepFails
  <2> QED
    BY <1>5, <2>1
<1>7. CASE \E r \in Requests :
              \/ \E p \in Posts, ks \in SUBSET Keys, m \in Keys : LinkBegin(r, p, ks, m)
              \/ LinkCount(r) \/ LinkCheckMain(r) \/ LinkEnds(r)
  <2>1. Aside
    BY <1>7 DEF LinkBegin, LinkCount, LinkCheckMain, LinkEnds
  <2> QED
    BY <1>5, <2>1
<1>8. CASE \E r \in Requests :
              \/ \E p \in Posts, k \in Keys : ChooseFind(r, p, k)
              \/ ChooseScan(r) \/ ChooseClear(r) \/ ChooseEnds(r)
  <2>1. Aside
    BY <1>8 DEF ChooseFind, ChooseScan, ChooseClear, ChooseEnds
  <2> QED
    BY <1>5, <2>1
<1>9. CASE \E r \in Requests :
              \/ \E p \in Posts : DeleteAll(r, p) \/ \E k \in Keys : DeleteOne(r, p, k)
              \/ DeleteFiles(r) \/ DeleteEnds(r)
  <2>1. Aside
    BY <1>9 DEF DeleteAll, DeleteOne, DeleteFiles, DeleteEnds
  <2> QED
    BY <1>5, <2>1
<1>10. CASE UNCHANGED vars
  <2>1. Aside
    BY <1>10 DEF vars
  <2> QED
    BY <1>5, <2>1
<1> QED
  BY <1>1, <1>2, <1>3, <1>4, <1>6, <1>7, <1>8, <1>9, <1>10
     DEF Next, LinkFiles, SetMain, Delete

(***************************************************************************)
(* Post files implement PostGallery: what requests do statement by         *)
(* statement is as if each had changed its post in one step.  Files come   *)
(* to a post that is there, as long as they fit; they leave it after the   *)
(* storage has let them go, or with the post; a choice leaves one main     *)
(* image, unless it raced.                                                 *)
(***************************************************************************)
THEOREM GalleryRefinement == Spec => ImplementsGallery
<1>1. Init => Promised!GalleryInit /\ PostsHeld
  BY DEF Init, Promised!GalleryInit, Linked, Mains, PostsHeld, PostHeld
<1>2. IInv /\ PostsHeld /\ [Next]_vars
        => /\ PostsHeld'
           /\ [Promised!GalleryNext]_<<posts, LinkedOf, MainsOf, stored, raced>>
  BY StepRefines, NextHolds DEF IInv
<1> QED
  BY <1>1, <1>2, Invariance, PTL
     DEF Spec, ImplementsGallery, Promised!GallerySpec, LinkedOf, MainsOf

=============================================================================

----------------------------- MODULE PostGallery -----------------------------
(***************************************************************************)
(* What a post's files look like to its readers, apart from requests,      *)
(* transactions and locks: each post has a bounded set of files, one of    *)
(* them its main image, and every change of them is one step.              *)
(*                                                                         *)
(* loose are the posts whose main image is no longer answered for.         *)
(***************************************************************************)
EXTENDS Naturals, FiniteSets

CONSTANTS Posts, Keys, MaxFiles

VARIABLES posts, files, mains, stored, loose

GalleryInit ==
    /\ posts = Posts
    /\ files = [p \in Posts |-> {}]
    /\ mains = [p \in Posts |-> {}]
    /\ stored = {}
    /\ loose = {}

\* A batch of files joins a post that is there, within the limit, and one of
\* them may be its main image if it has none.
Add(p, ks) ==
    /\ p \in posts
    /\ ks \intersect files[p] = {}
    /\ Cardinality(files[p] \union ks) <= MaxFiles
    /\ files' = [files EXCEPT ![p] = @ \union ks]
    /\ \/ UNCHANGED mains
       \/ /\ mains[p] = {} \/ p \in loose
          /\ \E m \in ks : mains' = [mains EXCEPT ![p] = @ \union {m}]
    /\ UNCHANGED <<posts, stored, loose>>

\* A file takes the place of the main image.
Choose(p, k) ==
    /\ k \in files[p]
    /\ \E others \in SUBSET mains[p] :
          /\ p \in loose \/ others = {}
          /\ mains' = [mains EXCEPT ![p] = others \union {k}]
    /\ UNCHANGED <<posts, files, stored, loose>>

\* Files leave a post when the storage has them no more.
Remove(p, ks) ==
    /\ ks \intersect stored = {}
    /\ files' = [files EXCEPT ![p] = @ \ ks]
    /\ mains' = [mains EXCEPT ![p] = @ \ ks]
    /\ UNCHANGED <<posts, stored, loose>>

\* A post goes, and its files are no longer known.
Drop(p) ==
    /\ p \in posts
    /\ posts' = posts \ {p}
    /\ files' = [files EXCEPT ![p] = {}]
    /\ mains' = [mains EXCEPT ![p] = {}]
    /\ UNCHANGED <<stored, loose>>

\* Files are uploaded and erased, but what a post has is not uploaded again.
Store ==
    /\ UNCHANGED <<posts, files, mains, loose>>
    /\ \A k \in stored' \ stored : \A p \in Posts : k \notin files[p]

Loosen ==
    /\ UNCHANGED <<posts, files, mains, stored>>
    /\ loose \subseteq loose'

GalleryNext ==
    \/ Store \/ Loosen
    \/ \E p \in Posts :
          \/ \E ks \in SUBSET Keys : Add(p, ks) \/ Remove(p, ks)
          \/ \E k \in Keys : Choose(p, k)
          \/ Drop(p)

GallerySpec == GalleryInit /\ [][GalleryNext]_<<posts, files, mains, stored, loose>>

=============================================================================

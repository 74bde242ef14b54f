---------------------------- MODULE ReviewHistory ----------------------------
(***************************************************************************)
(* What moderation promises, apart from jobs, transactions and roles: each *)
(* post has a history of reviews that only grows, the newest one open, and *)
(* a post becomes public with the review that decides it, in one step.     *)
(*                                                                         *)
(* A review is a record with an id, a post, a status and an active mark.   *)
(***************************************************************************)
EXTENDS Naturals

CONSTANT Posts

VARIABLES history, public

HistoryInit == history = {} /\ public = {}

\* The reviews a step makes, later than all there were.
Added == {r \in history' : \A q \in history : q.id < r.id}
PostsAdded == {r.post : r \in Added}

\* What reviews become of which some are closed.
Closing(closed) ==
    {[r EXCEPT !.active = r.active /\ r \notin closed] : r \in history}

\* New reviews, all active, and with them only reviews of their posts close.
Append ==
    /\ Added # {}
    /\ \A r \in Added : r.active
    /\ \A r, q \in Added : r.id = q.id => r = q
    /\ \E closed \in SUBSET {r \in history : r.post \in PostsAdded} :
          history' = Closing(closed) \union Added

\* Posts are handed to a reviewer: their reviews decide nothing, and none of
\* them becomes public.
Assign ==
    /\ Append
    /\ \A r \in Added : r.status # "APPROVED"
    /\ public' = public \/ public' = public \ PostsAdded

\* A decision about one post.  One that approves makes it public.
Decide ==
    /\ Append
    /\ \E r \in history' :
          /\ Added = {r}
          /\ \/ public' = public \union {r.post}
             \/ r.status # "APPROVED" /\ public' = public \ {r.post}

\* Its author takes a post back, or it is deleted.
Withdraw(p) ==
    /\ public' = public \ {p}
    /\ UNCHANGED history

\* A post goes with its reviews.
Purge(p) ==
    /\ public' = public \ {p}
    /\ history' = {r \in history : r.post # p}

HistoryNext ==
    \/ Assign
    \/ Decide
    \/ \E p \in Posts : Withdraw(p) \/ Purge(p)

HistorySpec == HistoryInit /\ [][HistoryNext]_<<history, public>>

=============================================================================

------------------------- MODULE MCCommentModeration -------------------------
(* TLC instances of CommentModeration: one comment, whose job is its own. *)
EXTENDS CommentModeration

CONSTANTS c1, d1

MCComments == {c1}
MCDeleters == {d1}

=============================================================================

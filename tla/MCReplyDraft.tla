---------------------------- MODULE MCReplyDraft ----------------------------
(* Constants for checking ReplyDraft. *)
EXTENDS ReplyDraft, TLC

CONSTANTS r1, r2, p1, p2

Symmetry == Permutations({r1, r2}) \cup Permutations({p1, p2})
=============================================================================

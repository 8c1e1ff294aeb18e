---------------------------- MODULE MCTutorThread ----------------------------
(***************************************************************************)
(* Three posts about one listing, one about a second, one about a listing  *)
(* without a brief and one about a listing that the user does not own.     *)
(***************************************************************************)
EXTENDS TutorThread, TLC

CONSTANTS p1, p2, p3, elsewhere, brieflessPost, unownedPost,
          disk, queue, draft, strange

OneListing == [p \in Posts |->
    CASE p = elsewhere -> queue
      [] p = brieflessPost -> draft
      [] p = unownedPost -> strange
      [] OTHER -> disk]

SamePosts == Permutations({p1, p2, p3})
=============================================================================

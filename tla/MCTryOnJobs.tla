----------------------------- MODULE MCTryOnJobs -----------------------------
(***************************************************************************)
(* Instances of TryOnJobs for TLC.                                         *)
(***************************************************************************)
EXTENDS TryOnJobs, TLC

CONSTANTS r1, r2, g1, m1

GuestAndMember == r1 :> g1 @@ r2 :> m1
OneGuest == r1 :> g1 @@ r2 :> g1
OneMember == r1 :> m1

\* The two calls of a member about a result are alike.
Symmetry == Permutations(Calls)
=============================================================================

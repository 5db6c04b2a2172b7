--------------------------- MODULE MCRepairBooking ---------------------------
(***************************************************************************)
(* Instances of RepairBooking for TLC.                                     *)
(***************************************************************************)
EXTENDS RepairBooking, TLC

CONSTANTS d1, d2, m1, m2

TwoMembers == d1 :> m1 @@ d2 :> m2
OneMember == d1 :> m1

\* Requests and reservation ids are interchangeable.
Symmetry == Permutations(Sessions) \cup Permutations(Reservations)
=============================================================================

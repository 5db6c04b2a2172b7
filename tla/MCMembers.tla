------------------------------ MODULE MCMembers ------------------------------
(***************************************************************************)
(* Instance of Accounts and RecentViews for TLC.                           *)
(*                                                                         *)
(* The two share no table, so that interleaving them would only multiply   *)
(* their states: a behaviour moves one of them, its focus, while the other *)
(* stays where it began.  Log-ins are followed in two ways, each with one  *)
(* bound more: many wrong passwords and few tokens, or the reverse.        *)
(***************************************************************************)
EXTENDS Accounts, RecentViews, TLC

VARIABLE focus

vars == <<authVars, recentVars, focus>>

Init ==
    /\ AuthInit /\ RecentInit
    /\ focus \in {"lockout", "rotation", "views"}

Next ==
    /\ UNCHANGED focus
    /\ \/ /\ focus = "lockout"
          /\ AuthNext
          /\ Cardinality(Issued') <= 1
          /\ UNCHANGED recentVars
       \/ /\ focus = "rotation"
          /\ AuthNext
          /\ UNCHANGED <<wrong, recentVars>>
       \/ /\ focus = "views"
          /\ RecentNext
          /\ UNCHANGED authVars

Spec == Init /\ [][Next]_vars

\* Both modules take users, ids and requests, and their passwords or products,
\* from the same sets: TLC closes the permutations under composition.
Symmetry ==
    Permutations(Users) \cup Permutations(Tokens) \cup Permutations(Calls) \cup Permutations(Passwords)

\* The tables and what requests hold of them are well typed: no row without
\* its owner, no token without its user.
TypesOK == AuthTypeOK /\ RecentTypeOK
=============================================================================

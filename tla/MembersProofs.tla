---------------------------- MODULE MembersProofs ----------------------------
(***************************************************************************)
(* Accounts and RecentViews side by side: what is proved of each holds of  *)
(* the two composed.                                                       *)
(***************************************************************************)
EXTENDS MCMembers, AccountsProofs, RecentViewsProofs

\* A behaviour of the two is one of each: no step of one writes what the other owns.
THEOREM MembersCompose == Spec => AuthSpec /\ RecentSpec
<1>1. Init => AuthInit /\ RecentInit
  BY DEF Init
<1>2. [Next]_vars => [AuthNext]_authVars
  BY DEF Next, vars
<1>3. [Next]_vars => [RecentNext]_recentVars
  BY DEF Next, vars
<1>. QED  BY <1>1, <1>2, <1>3, PTL DEF Spec, AuthSpec, RecentSpec

\* The tables and what requests hold of them are well typed.
THEOREM MembersTypeCorrect == Spec => []TypesOK
<1>1. AuthTypeOK /\ RecentTypeOK => TypesOK
  BY DEF TypesOK
<1>. QED  BY <1>1, MembersCompose, AuthTypeCorrect, RecentTypeCorrect, PTL
=============================================================================

----------------------------- MODULE ResultLife -----------------------------
(***************************************************************************)
(* What who asks for a try-on is promised about it: GET /jobs/{id} and     *)
(* GET /files/{id} of app/modules/jobs and app/modules/files.  A request   *)
(* is answered once.  A failure has left nothing behind.  A success offers *)
(* a result that can be downloaded until it expires, or that a member      *)
(* keeps before that and then has until deleting it.  An answer is only    *)
(* forgotten once there is no result to offer or to keep.                  *)
(***************************************************************************)
CONSTANT Requests

VARIABLES
    outcome,  \* what a request has come to, seen from outside
    expired,  \* the requests whose result, or whose guest's session, has expired
    deleted   \* the requests whose member has deleted the result

life == <<outcome, expired, deleted>>

Becomes(r, from, to) ==
    /\ outcome[r] = from
    /\ outcome' = [outcome EXCEPT ![r] = to]

Succeed(r) ==
    /\ Becomes(r, "open", IF r \in expired THEN "gone" ELSE "offered")
    /\ UNCHANGED <<expired, deleted>>

Fail(r) ==
    /\ Becomes(r, "open", "failed")
    /\ UNCHANGED <<expired, deleted>>

Keep(r) ==
    /\ Becomes(r, "offered", "kept")
    /\ UNCHANGED <<expired, deleted>>

\* The session of a guest takes all its results with it.
Expire(rs) ==
    /\ expired' = expired \cup rs
    /\ outcome' = [r \in Requests |->
                      IF r \in rs /\ outcome[r] = "offered" THEN "gone" ELSE outcome[r]]
    /\ UNCHANGED deleted

\* A result kept, or one that was lost by saving it too late.
Delete(r) ==
    /\ outcome[r] \in {"kept", "gone", "forgotten"}
    /\ outcome' = [outcome EXCEPT ![r] = IF @ = "kept" THEN "gone" ELSE @]
    /\ deleted' = deleted \cup {r}
    /\ UNCHANGED expired

Forget(rs) ==
    /\ \A r \in rs : outcome[r] \in {"open", "failed", "gone"}
    /\ outcome' = [r \in Requests |-> IF r \in rs THEN "forgotten" ELSE outcome[r]]
    /\ UNCHANGED <<expired, deleted>>

Init ==
    /\ outcome = [r \in Requests |-> "open"]
    /\ expired = {}
    /\ deleted = {}

Next ==
    \/ \E r \in Requests : Succeed(r) \/ Fail(r) \/ Keep(r) \/ Delete(r)
    \/ \E rs \in SUBSET Requests : Expire(rs) \/ Forget(rs)

Spec == Init /\ [][Next]_life
=============================================================================

----------------------------- MODULE OrderLedger -----------------------------
(***************************************************************************)
(* What a reader of the database may see of orders: "Orders and payments   *)
(* are records" (app/modules/orders/models.py).  An order is recorded in   *)
(* one step, complete: paid, with one registered product per cart row it   *)
(* took, or failed, with none.  A record never changes.                    *)
(***************************************************************************)
CONSTANTS Users, Items, OrderIds, NoRow

VARIABLE ledger

Record(o, r) ==
    /\ ledger[o] = NoRow
    /\ ledger' = [ledger EXCEPT ![o] = r]

RecordPaid(o, u, items) ==
    Record(o, [user |-> u, status |-> "paid", payment |-> "success",
               items |-> items, registered |-> items])

RecordFailed(o, u, items) ==
    Record(o, [user |-> u, status |-> "failed", payment |-> "failed",
               items |-> items, registered |-> {}])

Init == ledger = [o \in OrderIds |-> NoRow]

Next ==
    \E o \in OrderIds, u \in Users, items \in (SUBSET Items) \ {{}} :
        RecordPaid(o, u, items) \/ RecordFailed(o, u, items)

Spec == Init /\ [][Next]_ledger
=============================================================================

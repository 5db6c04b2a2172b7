--------------------------- MODULE CheckoutProofs ---------------------------
(***************************************************************************)
(* Theorems about Checkout for any numbers of members, variants, cart      *)
(* rows, orders and concurrent requests.                                   *)
(***************************************************************************)
EXTENDS Checkout, FiniteSetTheorems, TLAPS

\* Every proof may look into the sets of row states.
USE DEF PaymentRow

-----------------------------------------------------------------------------
(***************************************************************************)
(* The transactions in progress, as the provers need them: which fields a  *)
(* step may rely on.                                                       *)
(***************************************************************************)
InOrder(t) == t.op \in {"order_placed", "order_paid", "order_declined"}

LEMMA IdleOp == Idle.op = "idle"
  BY DEF Idle

\* The op of a transaction says which record it is.
LEMMA TxShape ==
  ASSUME NEW t \in TxState
  PROVE  /\ t.op = "idle" => t = Idle
         /\ t.op = "add_variant" =>
               t \in [op : {"add_variant"}, user : Users, variant : Variants,
                      quantity : Nat \ {0}, stock : Int]
         /\ t.op = "add_insert" =>
               t \in [op : {"add_insert"}, user : Users, variant : Variants,
                      quantity : Nat \ {0}, newCart : BOOLEAN]
         /\ t.op = "add_update" =>
               t \in [op : {"add_update"}, item : ItemIds, quantity : Nat \ {0}]
         /\ t.op \in {"update_item", "update_write"} => t \in UpdateTx
         /\ t.op = "order_items" =>
               t \in [op : {"order_items"}, user : Users, lines : SUBSET Line]
         /\ InOrder(t) =>
               t \in [op : {"order_placed", "order_paid", "order_declined"}, user : Users,
                      lines : SUBSET Line, order : OrderIds, stock : [Variants -> Int],
                      todo : SUBSET Line, taken : [Variants -> Nat]]
  BY DEF TxState, Idle, AddTx, UpdateTx, OrderTx, InOrder

-----------------------------------------------------------------------------
(***************************************************************************)
(* Type correctness.                                                       *)
(***************************************************************************)
USE DEF dbVars, idVars

LEMMA CartStepType ==
  ASSUME TypeOK, NEW s \in Sessions, CartStep(s)
  PROVE  TypeOK'
<1> USE DEF TypeOK
<1>0. tx[s] \in TxState
  OBVIOUS
<1>1. ASSUME NEW u \in Users, NEW v \in Variants, NEW q \in Quantities,
             AddReadVariant(s, u, v, q)
      PROVE  TypeOK'
  <2>1. q \in Nat \ {0}
    BY StockAssumption DEF Quantities
  <2>2. [op |-> "add_variant", user |-> u, variant |-> v, quantity |-> q,
         stock |-> stock[v]] \in TxState
    BY <2>1 DEF TxState, AddTx
  <2>. QED  BY <1>1, <2>2 DEF AddReadVariant, Continue
<1>2. ASSUME AddReadExisting(s)
      PROVE  TypeOK'
  <2>1. PICK i \in ItemsFor(tx[s].user, tx[s].variant) :
           Continue(s, [op |-> "add_update", item |-> i,
                        quantity |-> tx[s].quantity + cartItems[i].quantity])
    BY <1>2 DEF AddReadExisting
  <2>2. i \in ItemIds /\ cartItems[i] \in CartRow
    BY DEF ItemsFor
  <2>3. tx[s].quantity \in Nat \ {0}
    BY <1>0, <1>2, TxShape DEF AddReadExisting
  <2>4. [op |-> "add_update", item |-> i,
         quantity |-> tx[s].quantity + cartItems[i].quantity] \in TxState
    BY <2>2, <2>3 DEF TxState, AddTx, CartRow
  <2>. QED  BY <1>2, <2>1, <2>4 DEF AddReadExisting, Continue
<1>3. ASSUME AddReadAbsent(s)
      PROVE  TypeOK'
  <2>1. [op |-> "add_insert", user |-> tx[s].user, variant |-> tx[s].variant,
         quantity |-> tx[s].quantity, newCart |-> tx[s].user \notin carts] \in TxState
    BY <1>0, <1>3, TxShape DEF AddReadAbsent, TxState, AddTx
  <2>. QED  BY <1>3, <2>1 DEF AddReadAbsent, Continue
<1>4. ASSUME AddUpdate(s)
      PROVE  TypeOK'
  <2>1. tx[s].item \in ItemIds /\ tx[s].quantity \in Nat \ {0}
    BY <1>0, <1>4, TxShape DEF AddUpdate
  <2>2. cartItems' \in [ItemIds -> CartRow \cup {NoRow}]
    BY <1>4, <2>1 DEF AddUpdate, CartRow
  <2>. QED  BY <1>4, <2>2 DEF AddUpdate, Commit, TxState
<1>5. ASSUME NEW i \in ItemIds, AddInsert(s, i)
      PROVE  TypeOK'
  <2>1. [user |-> tx[s].user, variant |-> tx[s].variant, quantity |-> tx[s].quantity]
           \in CartRow
    BY <1>0, <1>5, TxShape DEF AddInsert, CartRow
  <2>. QED  BY <1>5, <2>1 DEF AddInsert, Commit, TxState, CartRow
<1>6. ASSUME NEW i \in ItemIds, NEW v \in Variants, NEW q \in Quantities,
             UpdateReadItem(s, i, v, q)
      PROVE  TypeOK'
  <2>1. q \in Nat \ {0}
    BY StockAssumption DEF Quantities
  <2>2. [op |-> "update_item", item |-> i, row |-> cartItems[i], variant |-> v,
         quantity |-> q] \in TxState
    BY <1>6, <2>1 DEF UpdateReadItem, TxState, UpdateTx
  <2>. QED  BY <1>6, <2>2 DEF UpdateReadItem, Continue
<1>7. ASSUME UpdateReadVariant(s)
      PROVE  TypeOK'
  <2>1. [tx[s] EXCEPT !.op = "update_write"] \in TxState
    BY <1>0, <1>7, TxShape DEF UpdateReadVariant, TxState, UpdateTx
  <2>. QED  BY <1>7, <2>1 DEF UpdateReadVariant, Continue
<1>8. ASSUME UpdateWrite(s)
      PROVE  TypeOK'
  <2>1. tx[s] \in UpdateTx
    BY <1>0, <1>8, TxShape DEF UpdateWrite
  <2>2. \A row \in CartRow : UpdatedRow(row, tx[s]) \in CartRow
    BY <2>1 DEF UpdatedRow, UpdateTx, CartRow
  <2>3. cartItems' \in [ItemIds -> CartRow \cup {NoRow}]
    BY <1>8, <2>1, <2>2 DEF UpdateWrite, UpdateTx
  <2>. QED  BY <1>8, <2>3 DEF UpdateWrite, Commit, TxState
<1>. QED
  BY <1>1, <1>2, <1>3, <1>4, <1>5, <1>6, <1>7, <1>8, CartStep(s) DEF CartStep

LEMMA OrderStepType ==
  ASSUME TypeOK, NEW s \in Sessions, OrderStep(s)
  PROVE  TypeOK'
<1> USE DEF TypeOK
<1>0. tx[s] \in TxState
  OBVIOUS
<1> DEFINE OrderRec ==
      [op : {"order_placed", "order_paid", "order_declined"}, user : Users,
       lines : SUBSET Line, order : OrderIds, stock : [Variants -> Int],
       todo : SUBSET Line, taken : [Variants -> Nat]]
<1>a. ASSUME InOrder(tx[s])
      PROVE  tx[s] \in OrderRec
  BY <1>0, <1>a, TxShape
<1>b. OrderRec \subseteq TxState
  BY DEF TxState, OrderTx
<1>1. ASSUME NEW u \in Users, NEW ids \in SUBSET ItemIds, OrderReadItems(s, u, ids)
      PROVE  TypeOK'
  <2>1. \A i \in ids : LineOf(i) \in Line
    BY <1>1 DEF OrderReadItems, LineOf, Line, CartRow
  <2>2. [op |-> "order_items", user |-> u, lines |-> {LineOf(i) : i \in ids}] \in TxState
    BY <2>1 DEF TxState, OrderTx
  <2>. QED  BY <1>1, <2>2 DEF OrderReadItems, Continue
<1>2. ASSUME NEW o \in OrderIds, OrderPlace(s, o)
      PROVE  TypeOK'
  <2>1. tx[s].user \in Users /\ tx[s].lines \in SUBSET Line
    BY <1>0, <1>2, TxShape DEF OrderPlace
  <2>2. [op |-> "order_placed", user |-> tx[s].user, lines |-> tx[s].lines, order |-> o,
         stock |-> stock, todo |-> tx[s].lines, taken |-> [v \in Variants |-> 0]]
           \in TxState
    BY <1>b, <2>1
  <2>. QED  BY <1>2, <2>2 DEF OrderPlace, Continue
<1>3. ASSUME PayApproved(s)
      PROVE  TypeOK'
  <2>1. tx[s] \in OrderRec
    BY <1>3, <1>a DEF PayApproved, InOrder
  <2>2. [tx[s] EXCEPT !.op = "order_paid"] \in TxState
    BY <1>b, <2>1
  <2>. QED  BY <1>3, <2>1, <2>2 DEF PayApproved, Continue
<1>4. ASSUME PayDeclined(s)
      PROVE  TypeOK'
  <2>1. tx[s] \in OrderRec
    BY <1>4, <1>a DEF PayDeclined, InOrder
  <2>2. [tx[s] EXCEPT !.op = "order_declined"] \in TxState
    BY <1>b, <2>1
  <2>. QED  BY <1>4, <2>2 DEF PayDeclined, Continue
<1>5. ASSUME NEW l \in tx[s].todo, FulfilLine(s, l)
      PROVE  TypeOK'
  <2>1. tx[s] \in OrderRec
    BY <1>5, <1>a DEF FulfilLine, InOrder
  <2>2. l \in Line /\ l.variant \in Variants /\ l.quantity \in Nat
    BY <2>1 DEF Line
  <2>3. Decremented(tx[s].stock, l) \in [Variants -> Int]
    BY <2>1, <2>2 DEF Decremented
  <2>4. [tx[s].taken EXCEPT ![l.variant] = @ + l.quantity] \in [Variants -> Nat]
    BY <2>1, <2>2
  <2>5. [tx[s] EXCEPT !.stock = Decremented(@, l),
                      !.taken[l.variant] = @ + l.quantity,
                      !.todo = @ \ {l}] \in TxState
    BY <1>b, <2>1, <2>3, <2>4
  <2>. QED  BY <1>5, <2>5 DEF FulfilLine, Continue
<1>6. ASSUME OrderCommitPaid(s)
      PROVE  TypeOK'
  <2>1. tx[s] \in OrderRec
    BY <1>6, <1>a DEF OrderCommitPaid, InOrder
  <2>2. [user |-> tx[s].user, status |-> "paid", lines |-> tx[s].lines] \in OrderRow
    BY <2>1 DEF OrderRow
  <2>3. RegisteredFor(tx[s].order, tx[s].lines) \subseteq OrderIds \X ItemIds
    BY <2>1 DEF RegisteredFor, ItemsOf, Line
  <2>4. WrittenStock(tx[s]) \in [Variants -> Int]
    BY <2>1 DEF WrittenStock
  <2>5. ClearedCart(tx[s].lines) \in [ItemIds -> CartRow \cup {NoRow}]
    BY DEF ClearedCart
  <2>6. [v \in Variants |-> sold[v] + tx[s].taken[v]] \in [Variants -> Nat]
    BY <2>1
  <2>. QED
    BY <1>6, <2>1, <2>2, <2>3, <2>4, <2>5, <2>6 DEF OrderCommitPaid, Commit, TxState
<1>7. ASSUME OrderCommitDeclined(s)
      PROVE  TypeOK'
  <2>1. tx[s] \in OrderRec
    BY <1>7, <1>a DEF OrderCommitDeclined, InOrder
  <2>2. [user |-> tx[s].user, status |-> "failed", lines |-> tx[s].lines] \in OrderRow
    BY <2>1 DEF OrderRow
  <2>. QED  BY <1>7, <2>1, <2>2 DEF OrderCommitDeclined, Commit, TxState
<1>. QED
  BY <1>1, <1>2, <1>3, <1>4, <1>5, <1>6, <1>7, OrderStep(s) DEF OrderStep

LEMMA TypeStep == TypeOK /\ [Next]_vars => TypeOK'
<1> SUFFICES ASSUME TypeOK, [Next]_vars
             PROVE  TypeOK'
  OBVIOUS
<1>1. CASE \E s \in Sessions : CartStep(s)
  BY <1>1, CartStepType
<1>2. CASE \E s \in Sessions : OrderStep(s)
  BY <1>2, OrderStepType
<1>3. ASSUME NEW s \in Sessions, Rollback(s)
      PROVE  TypeOK'
  BY <1>3 DEF Rollback, Continue, TypeOK, TxState
<1>4. ASSUME NEW i \in ItemIds, DeleteItem(i)
      PROVE  TypeOK'
  BY <1>4 DEF DeleteItem, TypeOK
<1>5. CASE UNCHANGED vars
  BY <1>5 DEF vars, TypeOK
<1>. QED  BY <1>1, <1>2, <1>3, <1>4, <1>5 DEF Next

LEMMA TypeInit == Init => TypeOK
  BY StockAssumption DEF Init, TypeOK, TxState

\* Every reachable state is well typed, whatever requests overlap.
THEOREM TypeCorrect == Spec => []TypeOK
  BY TypeInit, TypeStep, PTL DEF Spec

-----------------------------------------------------------------------------
(***************************************************************************)
(* The cart: one row per variant.                                          *)
(*                                                                         *)
(* The unique constraint is on the member's cart, so a PATCH that moves a  *)
(* row to another variant must still be about a row of the cart it read.   *)
(***************************************************************************)

\* A step that leaves the cart alone and lets tx[s] become t.
LEMMA CartKept ==
  ASSUME TypeOK, CartInv, UNCHANGED <<cartItems, issuedItems>>,
         NEW s \in Sessions, NEW t, tx' = [tx EXCEPT ![s] = t],
         UpdateTxOwned(t)
  PROVE  CartInv'
<1>1. ASSUME NEW r \in Sessions
      PROVE  UpdateTxOwned(tx[r])'
  <2>1. tx'[r] = IF r = s THEN t ELSE tx[r]
    BY DEF TypeOK
  <2>2. UpdateTxOwned(tx'[r])
    BY <2>1 DEF CartInv
  <2>. QED  BY <2>2 DEF UpdateTxOwned
<1>. QED  BY <1>1 DEF CartInv, OneItemPerVariant

\* A step that writes the cart and ends the request.
LEMMA CartWritten ==
  ASSUME TypeOK, CartInv, NEW s \in Sessions, tx' = [tx EXCEPT ![s] = Idle],
         issuedItems \subseteq issuedItems',
         OneItemPerVariant',
         \A i \in ItemIds :
            cartItems'[i] # NoRow =>
               \/ i \in issuedItems' \ issuedItems
               \/ /\ cartItems[i] # NoRow
                  /\ cartItems'[i].user = cartItems[i].user
  PROVE  CartInv'
<1>1. ASSUME NEW r \in Sessions
      PROVE  UpdateTxOwned(tx[r])'
  <2>1. tx'[r] = IF r = s THEN Idle ELSE tx[r]
    BY DEF TypeOK
  <2>2. CASE r = s
    BY <2>1, <2>2 DEF UpdateTxOwned, Idle
  <2>3. CASE r # s /\ tx[r].op \in {"update_item", "update_write"}
    <3>1. tx[r].item \in ItemIds /\ UpdateTxOwned(tx[r])
      BY <2>3, TxShape DEF TypeOK, CartInv, UpdateTx
    <3>. QED  BY <2>1, <2>3, <3>1 DEF UpdateTxOwned
  <2>4. CASE r # s /\ tx[r].op \notin {"update_item", "update_write"}
    BY <2>1, <2>4 DEF UpdateTxOwned
  <2>. QED  BY <2>2, <2>3, <2>4
<1>. QED  BY <1>1 DEF CartInv

LEMMA CartStepCart ==
  ASSUME TypeOK, CartInv, NEW s \in Sessions, CartStep(s)
  PROVE  CartInv'
<1>0. TypeOK' /\ tx[s] \in TxState
  BY CartStepType DEF TypeOK
<1>1. ASSUME NEW u \in Users, NEW v \in Variants, NEW q \in Quantities,
             AddReadVariant(s, u, v, q)
      PROVE  CartInv'
  <2>1. UpdateTxOwned([op |-> "add_variant", user |-> u, variant |-> v,
                       quantity |-> q, stock |-> stock[v]])
    BY DEF UpdateTxOwned
  <2>. QED  BY <1>1, <2>1, CartKept DEF AddReadVariant, Continue
<1>2. ASSUME AddReadExisting(s)
      PROVE  CartInv'
  <2>1. PICK i \in ItemsFor(tx[s].user, tx[s].variant) :
           Continue(s, [op |-> "add_update", item |-> i,
                        quantity |-> tx[s].quantity + cartItems[i].quantity])
    BY <1>2 DEF AddReadExisting
  <2>2. UpdateTxOwned([op |-> "add_update", item |-> i,
                       quantity |-> tx[s].quantity + cartItems[i].quantity])
    BY DEF UpdateTxOwned
  <2>. QED  BY <1>2, <2>1, <2>2, CartKept DEF AddReadExisting, Continue
<1>3. ASSUME AddReadAbsent(s)
      PROVE  CartInv'
  <2>1. UpdateTxOwned([op |-> "add_insert", user |-> tx[s].user,
                       variant |-> tx[s].variant, quantity |-> tx[s].quantity,
                       newCart |-> tx[s].user \notin carts])
    BY DEF UpdateTxOwned
  <2>. QED  BY <1>3, <2>1, CartKept DEF AddReadAbsent, Continue
<1>4. ASSUME AddUpdate(s)
      PROVE  CartInv'
  <2> DEFINE i == tx[s].item
  <2>1. i \in ItemIds /\ cartItems[i] \in CartRow
    BY <1>0, <1>4, TxShape DEF AddUpdate, TypeOK
  <2>2. \A j \in ItemIds :
           /\ cartItems'[j] # NoRow => cartItems[j] # NoRow
           /\ cartItems[j] # NoRow => /\ cartItems'[j].user = cartItems[j].user
                                      /\ cartItems'[j].variant = cartItems[j].variant
    BY <1>4, <2>1 DEF AddUpdate, TypeOK, CartRow
  <2>3. OneItemPerVariant'
    BY <2>2 DEF CartInv, OneItemPerVariant
  <2>. QED  BY <1>4, <2>2, <2>3, CartWritten DEF AddUpdate, Commit
<1>5. ASSUME NEW i \in ItemIds, AddInsert(s, i)
      PROVE  CartInv'
  <2>1. OneItemPerVariant'
    BY <1>0, <1>5
    DEF AddInsert, Insertable, ItemsFor, CartInv, OneItemPerVariant, TypeOK, CartRow
  <2>2. \A j \in ItemIds :
           cartItems'[j] # NoRow => j \in issuedItems' \ issuedItems \/ cartItems'[j] = cartItems[j]
    BY <1>5 DEF AddInsert, TypeOK
  <2>. QED  BY <1>5, <2>1, <2>2, CartWritten DEF AddInsert, Commit
<1>6. ASSUME NEW i \in ItemIds, NEW v \in Variants, NEW q \in Quantities,
             UpdateReadItem(s, i, v, q)
      PROVE  CartInv'
  <2>1. UpdateTxOwned([op |-> "update_item", item |-> i, row |-> cartItems[i],
                       variant |-> v, quantity |-> q])
    BY <1>6 DEF UpdateReadItem, UpdateTxOwned, CartInv
  <2>. QED  BY <1>6, <2>1, CartKept DEF UpdateReadItem, Continue
<1>7. ASSUME UpdateReadVariant(s)
      PROVE  CartInv'
  <2>1. tx[s] \in UpdateTx
    BY <1>0, <1>7, TxShape DEF UpdateReadVariant
  <2>2. UpdateTxOwned([tx[s] EXCEPT !.op = "update_write"])
    BY <1>7, <2>1 DEF UpdateReadVariant, UpdateTxOwned, CartInv, UpdateTx
  <2>. QED  BY <1>7, <2>2, CartKept DEF UpdateReadVariant, Continue
<1>8. ASSUME UpdateWrite(s)
      PROVE  CartInv'
  <2> DEFINE i == tx[s].item
  <2>1. tx[s] \in UpdateTx /\ UpdateTxOwned(tx[s])
    BY <1>0, <1>8, TxShape DEF UpdateWrite, CartInv
  <2>2. CASE UNCHANGED cartItems
    <3>1. UpdateTxOwned(Idle)
      BY DEF UpdateTxOwned, Idle
    <3>. QED  BY <1>8, <2>2, <3>1, CartKept DEF UpdateWrite, Commit
  <2>3. CASE cartItems # cartItems'
    <3>1. /\ i \in ItemIds /\ cartItems[i] \in CartRow
          /\ cartItems' = [cartItems EXCEPT ![i] = UpdatedRow(cartItems[i], tx[s])]
      BY <1>8, <2>1, <2>3 DEF UpdateWrite, TypeOK, UpdateTx
    <3>2. /\ cartItems'[i].user = cartItems[i].user
          /\ \/ cartItems'[i].variant = cartItems[i].variant
             \/ /\ cartItems'[i].variant = tx[s].variant
                /\ ItemsFor(tx[s].row.user, tx[s].variant) \subseteq {i}
      BY <1>8, <2>1, <3>1 DEF UpdateWrite, UpdatedRow, TypeOK, UpdateTx, CartRow
    <3>3. \A j \in ItemIds \ {i} : cartItems'[j] = cartItems[j]
      BY <3>1 DEF TypeOK
    <3>4. tx[s].row.user = cartItems[i].user
      BY <1>8, <2>1, <3>1, NoRowAssumption DEF UpdateWrite, UpdateTxOwned
    <3>5. OneItemPerVariant'
      BY <3>1, <3>2, <3>3, <3>4, NoRowAssumption DEF CartInv, OneItemPerVariant, ItemsFor
    <3>. QED  BY <1>8, <3>1, <3>2, <3>3, <3>5, NoRowAssumption, CartWritten DEF UpdateWrite, Commit
  <2>. QED  BY <2>2, <2>3
<1>. QED
  BY <1>1, <1>2, <1>3, <1>4, <1>5, <1>6, <1>7, <1>8, CartStep(s) DEF CartStep

LEMMA OrderStepCart ==
  ASSUME TypeOK, CartInv, NEW s \in Sessions, OrderStep(s)
  PROVE  CartInv'
<1>0. tx[s] \in TxState
  BY DEF TypeOK
<1>1. ASSUME NEW u \in Users, NEW ids \in SUBSET ItemIds, OrderReadItems(s, u, ids)
      PROVE  CartInv'
  <2>1. UpdateTxOwned([op |-> "order_items", user |-> u, lines |-> {LineOf(i) : i \in ids}])
    BY DEF UpdateTxOwned
  <2>. QED  BY <1>1, <2>1, CartKept DEF OrderReadItems, Continue
<1>2. ASSUME NEW o \in OrderIds, OrderPlace(s, o)
      PROVE  CartInv'
  <2>1. UpdateTxOwned([op |-> "order_placed", user |-> tx[s].user, lines |-> tx[s].lines,
                       order |-> o, stock |-> stock, todo |-> tx[s].lines,
                       taken |-> [v \in Variants |-> 0]])
    BY DEF UpdateTxOwned
  <2>. QED  BY <1>2, <2>1, CartKept DEF OrderPlace, Continue
<1>3. CASE PayApproved(s)
  <2>1. UpdateTxOwned([tx[s] EXCEPT !.op = "order_paid"])
    BY <1>0, <1>3, TxShape DEF PayApproved, InOrder, UpdateTxOwned
  <2>. QED  BY <1>3, <2>1, CartKept DEF PayApproved, Continue
<1>4. CASE PayDeclined(s)
  <2>1. UpdateTxOwned([tx[s] EXCEPT !.op = "order_declined"])
    BY <1>0, <1>4, TxShape DEF PayDeclined, InOrder, UpdateTxOwned
  <2>. QED  BY <1>4, <2>1, CartKept DEF PayDeclined, Continue
<1>5. ASSUME NEW l \in tx[s].todo, FulfilLine(s, l)
      PROVE  CartInv'
  <2> DEFINE t == [tx[s] EXCEPT !.stock = Decremented(@, l),
                                !.taken[l.variant] = @ + l.quantity,
                                !.todo = @ \ {l}]
  <2>1. UpdateTxOwned(t)
    BY <1>0, <1>5, TxShape DEF FulfilLine, InOrder, UpdateTxOwned
  <2>2. Continue(s, t) /\ UNCHANGED idVars
    BY <1>5 DEF FulfilLine
  <2> HIDE DEF t
  <2>. QED  BY <2>1, <2>2, CartKept DEF Continue
<1>6. CASE OrderCommitPaid(s)
  <2>1. \A i \in ItemIds : cartItems'[i] # NoRow => cartItems[i] # NoRow /\ cartItems'[i] = cartItems[i]
    BY <1>6 DEF OrderCommitPaid, ClearedCart
  <2>2. OneItemPerVariant'
    BY <2>1 DEF CartInv, OneItemPerVariant
  <2>. QED  BY <1>6, <2>1, <2>2, CartWritten DEF OrderCommitPaid, Commit
<1>7. CASE OrderCommitDeclined(s)
  <2>1. UpdateTxOwned(Idle)
    BY DEF UpdateTxOwned, Idle
  <2>. QED  BY <1>7, <2>1, CartKept DEF OrderCommitDeclined, Commit
<1>. QED
  BY <1>1, <1>2, <1>3, <1>4, <1>5, <1>6, <1>7, OrderStep(s) DEF OrderStep

LEMMA CartStepAll == TypeOK /\ CartInv /\ [Next]_vars => CartInv'
<1> SUFFICES ASSUME TypeOK, CartInv, [Next]_vars
             PROVE  CartInv'
  OBVIOUS
<1>1. CASE \E s \in Sessions : CartStep(s) \/ OrderStep(s)
  BY <1>1, CartStepCart, OrderStepCart
<1>2. ASSUME NEW s \in Sessions, Rollback(s)
      PROVE  CartInv'
  <2>1. UpdateTxOwned(Idle)
    BY DEF UpdateTxOwned, Idle
  <2>. QED  BY <1>2, <2>1, CartKept DEF Rollback, Continue
<1>3. ASSUME NEW i \in ItemIds, DeleteItem(i)
      PROVE  CartInv'
  <2>1. \A j \in ItemIds : cartItems'[j] # NoRow => cartItems[j] # NoRow /\ cartItems'[j] = cartItems[j]
    BY <1>3 DEF DeleteItem, TypeOK
  <2>2. OneItemPerVariant'
    BY <2>1 DEF CartInv, OneItemPerVariant
  <2>3. ASSUME NEW r \in Sessions
        PROVE  UpdateTxOwned(tx[r])'
    <3>1. CASE tx[r].op \in {"update_item", "update_write"}
      <4>1. tx[r].item \in ItemIds /\ UpdateTxOwned(tx[r])
        BY <3>1, TxShape DEF TypeOK, CartInv, UpdateTx
      <4>. QED  BY <1>3, <2>1, <3>1, <4>1 DEF UpdateTxOwned, DeleteItem
    <3>2. CASE tx[r].op \notin {"update_item", "update_write"}
      BY <1>3, <3>2 DEF UpdateTxOwned, DeleteItem
    <3>. QED  BY <3>1, <3>2
  <2>. QED  BY <1>3, <2>1, <2>2, <2>3 DEF CartInv, DeleteItem
<1>4. CASE UNCHANGED vars
  BY <1>4 DEF vars, CartInv, OneItemPerVariant, UpdateTxOwned
<1>. QED  BY <1>1, <1>2, <1>3, <1>4 DEF Next

LEMMA CartInit == Init => CartInv
  BY DEF Init, CartInv, OneItemPerVariant, UpdateTxOwned, Idle

\* A member's cart has one row per variant and rows stay with their member,
\* whatever requests overlap: what POST /orders relies on to count each
\* variant once.
THEOREM CartCorrect == Spec => []CartInv
<1>1. Init => TypeOK /\ CartInv
  BY TypeInit, CartInit
<1>2. (TypeOK /\ CartInv) /\ [Next]_vars => (TypeOK /\ CartInv)'
  BY TypeStep, CartStepAll
<1>. QED  BY <1>1, <1>2, PTL DEF Spec

-----------------------------------------------------------------------------
(***************************************************************************)
(* The stock.                                                              *)
(*                                                                         *)
(* An order writes what it read less its own units, and a check of the     *)
(* same read covers those units: so no stock falls below zero.  What it    *)
(* read plus what had been sold by then covered the initial stock, and     *)
(* sold only grows: so no unit is lost.                                    *)
(***************************************************************************)

\* A step that leaves the stock alone and lets tx[s] become t.
LEMMA StockKept ==
  ASSUME TypeOK, StockInv, UNCHANGED <<stock, sold>>,
         NEW s \in Sessions, NEW t, tx' = [tx EXCEPT ![s] = t],
         OrderTxCovered(t)
  PROVE  StockInv'
<1>1. ASSUME NEW r \in Sessions
      PROVE  OrderTxCovered(tx[r])'
  <2>1. tx'[r] = IF r = s THEN t ELSE tx[r]
    BY DEF TypeOK
  <2>2. OrderTxCovered(tx'[r])
    BY <2>1 DEF StockInv
  <2>. QED  BY <2>2 DEF OrderTxCovered
<1>. QED  BY <1>1 DEF StockInv, StockNeverNegative, StockNeverUnderstated

\* A request that is not a POST /orders is covered.
LEMMA NotOrderCovered ==
  ASSUME NEW t, t.op \notin OrderOps
  PROVE  OrderTxCovered(t)
  BY DEF OrderTxCovered, OrderOps, PlacedOps

\* A step of a request about the cart leaves tx[s] out of POST /orders.
LEMMA CartStepOp ==
  ASSUME TypeOK, NEW s \in Sessions, CartStep(s)
  PROVE  \E t : tx' = [tx EXCEPT ![s] = t] /\ t.op \notin OrderOps
<1> DEFINE Done == \E t : tx' = [tx EXCEPT ![s] = t] /\ t.op \notin OrderOps
<1>1. tx[s] \in TxState
  BY DEF TypeOK
<1>2. ASSUME NEW u \in Users, NEW v \in Variants, NEW q \in Quantities,
             AddReadVariant(s, u, v, q)
      PROVE  Done
  <2> DEFINE t == [op |-> "add_variant", user |-> u, variant |-> v, quantity |-> q,
                   stock |-> stock[v]]
  <2>1. t.op \notin OrderOps
    BY DEF OrderOps, PlacedOps
  <2>2. tx' = [tx EXCEPT ![s] = t]
    BY <1>2 DEF AddReadVariant, Continue
  <2> HIDE DEF t
  <2>. QED  BY <2>1, <2>2
<1>3. ASSUME AddReadExisting(s)
      PROVE  Done
  <2>1. PICK i \in ItemsFor(tx[s].user, tx[s].variant) :
           Continue(s, [op |-> "add_update", item |-> i,
                        quantity |-> tx[s].quantity + cartItems[i].quantity])
    BY <1>3 DEF AddReadExisting
  <2> DEFINE t == [op |-> "add_update", item |-> i,
                   quantity |-> tx[s].quantity + cartItems[i].quantity]
  <2>2. t.op \notin OrderOps
    BY DEF OrderOps, PlacedOps
  <2>3. tx' = [tx EXCEPT ![s] = t]
    BY <2>1 DEF Continue
  <2> HIDE DEF t
  <2>. QED  BY <2>2, <2>3
<1>4. ASSUME AddReadAbsent(s)
      PROVE  Done
  <2> DEFINE t == [op |-> "add_insert", user |-> tx[s].user, variant |-> tx[s].variant,
                   quantity |-> tx[s].quantity, newCart |-> tx[s].user \notin carts]
  <2>1. t.op \notin OrderOps
    BY DEF OrderOps, PlacedOps
  <2>2. tx' = [tx EXCEPT ![s] = t]
    BY <1>4 DEF AddReadAbsent, Continue
  <2> HIDE DEF t
  <2>. QED  BY <2>1, <2>2
<1>5. ASSUME tx' = [tx EXCEPT ![s] = Idle]
      PROVE  Done
  <2>1. Idle.op \notin OrderOps
    BY IdleOp DEF OrderOps, PlacedOps
  <2>. QED  BY <1>5, <2>1
<1>6. ASSUME NEW i \in ItemIds, NEW v \in Variants, NEW q \in Quantities,
             UpdateReadItem(s, i, v, q)
      PROVE  Done
  <2> DEFINE t == [op |-> "update_item", item |-> i, row |-> cartItems[i], variant |-> v,
                   quantity |-> q]
  <2>1. t.op \notin OrderOps
    BY DEF OrderOps, PlacedOps
  <2>2. tx' = [tx EXCEPT ![s] = t]
    BY <1>6 DEF UpdateReadItem, Continue
  <2> HIDE DEF t
  <2>. QED  BY <2>1, <2>2
<1>7. ASSUME UpdateReadVariant(s)
      PROVE  Done
  <2> DEFINE t == [tx[s] EXCEPT !.op = "update_write"]
  <2>1. t.op \notin OrderOps
    BY <1>1, <1>7, TxShape DEF UpdateReadVariant, UpdateTx, OrderOps, PlacedOps
  <2>2. tx' = [tx EXCEPT ![s] = t]
    BY <1>7 DEF UpdateReadVariant, Continue
  <2> HIDE DEF t
  <2>. QED  BY <2>1, <2>2
<1>. QED
  BY <1>2, <1>3, <1>4, <1>5, <1>6, <1>7, CartStep(s)
  DEF CartStep, AddUpdate, AddInsert, UpdateWrite, Commit

LEMMA CartStepStock ==
  ASSUME TypeOK, StockInv, NEW s \in Sessions, CartStep(s)
  PROVE  StockInv'
<1>1. UNCHANGED <<stock, sold>>
  BY CartStep(s) DEF CartStep, AddReadVariant, AddReadExisting, AddReadAbsent, AddUpdate,
     AddInsert, UpdateReadItem, UpdateReadVariant, UpdateWrite, Continue
<1>. QED  BY <1>1, CartStepOp, NotOrderCovered, StockKept

LEMMA OrderStepStock ==
  ASSUME TypeOK, CartInv, StockInv, NEW s \in Sessions, OrderStep(s)
  PROVE  StockInv'
<1>0. tx[s] \in TxState /\ OrderTxCovered(tx[s])
  BY DEF TypeOK, StockInv
<1> DEFINE OrderRec ==
      [op : {"order_placed", "order_paid", "order_declined"}, user : Users,
       lines : SUBSET Line, order : OrderIds, stock : [Variants -> Int],
       todo : SUBSET Line, taken : [Variants -> Nat]]
<1>a. ASSUME InOrder(tx[s])
      PROVE  tx[s] \in OrderRec
  BY <1>0, <1>a, TxShape
<1>1. ASSUME NEW u \in Users, NEW ids \in SUBSET ItemIds, OrderReadItems(s, u, ids)
      PROVE  StockInv'
  <2> DEFINE t == [op |-> "order_items", user |-> u, lines |-> {LineOf(i) : i \in ids}]
  <2>1. \A l, k \in t.lines : l.variant = k.variant => l = k
    BY <1>1 DEF OrderReadItems, LineOf, CartInv, OneItemPerVariant
  <2>2. OrderTxCovered(t)
    BY <2>1 DEF OrderTxCovered, OrderOps, PlacedOps
  <2>. QED  BY <1>1, <2>2, StockKept DEF OrderReadItems, Continue
<1>2. ASSUME NEW o \in OrderIds, OrderPlace(s, o)
      PROVE  StockInv'
  <2> DEFINE t == [op |-> "order_placed", user |-> tx[s].user, lines |-> tx[s].lines,
                   order |-> o, stock |-> stock, todo |-> tx[s].lines,
                   taken |-> [v \in Variants |-> 0]]
  <2>1. \A l, k \in t.lines : l.variant = k.variant => l = k
    BY <1>0, <1>2 DEF OrderPlace, OrderTxCovered, OrderOps
  <2>2. \A l \in t.todo : t.stock[l.variant] >= l.quantity
    BY <1>2 DEF OrderPlace, Validated
  <2>3. \A v \in Variants : t.stock[v] >= 0 /\ t.stock[v] + t.taken[v] + sold[v] >= InitialStock[v]
    BY StockAssumption DEF TypeOK, StockInv, StockNeverNegative, StockNeverUnderstated
  <2>4. OrderTxCovered(t)
    BY <2>1, <2>2, <2>3 DEF OrderTxCovered
  <2>. QED  BY <1>2, <2>4, StockKept DEF OrderPlace, Continue
<1>3. ASSUME PayApproved(s)
      PROVE  StockInv'
  <2>1. OrderTxCovered([tx[s] EXCEPT !.op = "order_paid"])
    BY <1>0, <1>a, <1>3 DEF PayApproved, InOrder, OrderTxCovered, OrderOps, PlacedOps
  <2>. QED  BY <1>3, <2>1, StockKept DEF PayApproved, Continue
<1>4. ASSUME PayDeclined(s)
      PROVE  StockInv'
  <2>1. OrderTxCovered([tx[s] EXCEPT !.op = "order_declined"])
    BY <1>0, <1>a, <1>4 DEF PayDeclined, InOrder, OrderTxCovered, OrderOps, PlacedOps
  <2>. QED  BY <1>4, <2>1, StockKept DEF PayDeclined, Continue
<1>5. ASSUME NEW l \in tx[s].todo, FulfilLine(s, l)
      PROVE  StockInv'
  <2> DEFINE st == Decremented(tx[s].stock, l)
             tk == [tx[s].taken EXCEPT ![l.variant] = @ + l.quantity]
             t  == [tx[s] EXCEPT !.stock = st, !.taken = tk, !.todo = @ \ {l}]
  <2>1. tx[s] \in OrderRec
    BY <1>5, <1>a DEF FulfilLine, InOrder
  <2>2. l \in Line /\ l.variant \in Variants /\ l.quantity \in Nat
    BY <2>1 DEF Line
  <2>3. /\ tx[s].todo \subseteq tx[s].lines
        /\ \A k \in tx[s].todo : tx[s].stock[k.variant] >= k.quantity
        /\ \A k, j \in tx[s].lines : k.variant = j.variant => k = j
        /\ \A v \in Variants :
              /\ tx[s].stock[v] >= 0
              /\ tx[s].stock[v] + tx[s].taken[v] + sold[v] >= InitialStock[v]
    BY <1>0, <1>5 DEF FulfilLine, OrderTxCovered, OrderOps, PlacedOps
  <2>4. /\ st \in [Variants -> Int] /\ tk \in [Variants -> Nat]
        /\ \A v \in Variants \ {l.variant} : st[v] = tx[s].stock[v] /\ tk[v] = tx[s].taken[v]
        /\ st[l.variant] = tx[s].stock[l.variant] - l.quantity
        /\ tk[l.variant] = tx[s].taken[l.variant] + l.quantity
    BY <2>1, <2>2 DEF Decremented
  <2>5. \A k \in tx[s].todo \ {l} : st[k.variant] >= k.quantity
    BY <2>1, <2>3, <2>4 DEF Line
  <2>6. \A v \in Variants : st[v] >= 0 /\ st[v] + tk[v] + sold[v] >= InitialStock[v]
    <3>1. \A v \in Variants \ {l.variant} :
             st[v] >= 0 /\ st[v] + tk[v] + sold[v] >= InitialStock[v]
      BY <2>3, <2>4
    <3>2. st[l.variant] >= 0
      BY <2>1, <2>2, <2>3, <2>4
    <3>3. st[l.variant] + tk[l.variant] = tx[s].stock[l.variant] + tx[s].taken[l.variant]
      BY <2>1, <2>2, <2>4
    <3>. QED  BY <2>2, <2>3, <3>1, <3>2, <3>3
  <2>7. /\ t.op = "order_paid" /\ t.lines = tx[s].lines /\ t.todo = tx[s].todo \ {l}
        /\ t.stock = st /\ t.taken = tk
    BY <1>5, <2>1 DEF FulfilLine
  <2>8. tx' = [tx EXCEPT ![s] = t] /\ UNCHANGED <<stock, sold>>
    BY <1>5, <2>1 DEF FulfilLine, Continue
  <2> HIDE DEF t, st, tk
  <2>9. OrderTxCovered(t)
    BY <2>3, <2>5, <2>6, <2>7 DEF OrderTxCovered
  <2>. QED  BY <2>8, <2>9, StockKept
<1>6. ASSUME OrderCommitPaid(s)
      PROVE  StockInv'
  <2> DEFINE t == tx[s]
  <2>1. t \in OrderRec
    BY <1>6, <1>a DEF OrderCommitPaid, InOrder
  <2>2. \A v \in Variants : t.stock[v] >= 0 /\ t.stock[v] + t.taken[v] + sold[v] >= InitialStock[v]
    BY <1>0, <1>6 DEF OrderCommitPaid, OrderTxCovered, PlacedOps
  <2>3. \A v \in Variants :
           /\ stock'[v] = t.stock[v] \/ stock'[v] = stock[v]
           /\ sold'[v] = sold[v] + t.taken[v]
    BY <1>6 DEF OrderCommitPaid, WrittenStock
  <2>4. /\ \A v \in Variants : /\ InitialStock[v] \in Nat /\ stock[v] \in Int
                              /\ sold[v] \in Nat /\ sold'[v] \in Nat
                              /\ t.stock[v] \in Int /\ t.taken[v] \in Nat
        /\ \A v \in Variants : stock[v] >= 0 /\ stock[v] + sold[v] >= InitialStock[v]
    BY <2>1, <2>3, StockAssumption DEF TypeOK, StockInv, StockNeverNegative, StockNeverUnderstated
  <2>5. StockNeverNegative' /\ StockNeverUnderstated'
    BY <2>2, <2>3, <2>4 DEF StockNeverNegative, StockNeverUnderstated
  <2>6. ASSUME NEW r \in Sessions
        PROVE  OrderTxCovered(tx[r])'
    <3>1. tx'[r] = IF r = s THEN Idle ELSE tx[r]
      BY <1>6 DEF OrderCommitPaid, Commit, TypeOK
    <3>2. CASE tx'[r].op \notin OrderOps
      BY <3>2 DEF OrderTxCovered, OrderOps, PlacedOps
    <3>3. CASE tx'[r].op = "order_items"
      <4>1. r # s /\ OrderTxCovered(tx[r])
        BY <3>1, <3>3, IdleOp DEF StockInv
      <4>. QED  BY <3>1, <3>3, <4>1 DEF OrderTxCovered, OrderOps, PlacedOps
    <3>4. CASE tx'[r].op \in PlacedOps
      <4>1. r # s /\ tx'[r] = tx[r] /\ OrderTxCovered(tx[r])
        BY <3>1, <3>4, IdleOp DEF StockInv, PlacedOps
      <4>2. tx[r] \in OrderRec
        BY <3>4, <4>1, TxShape DEF TypeOK, InOrder, PlacedOps
      <4>3. \A v \in Variants : tx[r].stock[v] + tx[r].taken[v] + sold'[v] >= InitialStock[v]
        BY <2>3, <2>4, <3>4, <4>1, <4>2 DEF OrderTxCovered
      <4>. QED  BY <3>4, <4>1, <4>3 DEF OrderTxCovered
    <3>. QED  BY <3>2, <3>3, <3>4 DEF OrderOps
  <2>. QED  BY <2>5, <2>6 DEF StockInv
<1>7. ASSUME OrderCommitDeclined(s)
      PROVE  StockInv'
  <2>1. OrderTxCovered(Idle)
    BY IdleOp, NotOrderCovered DEF OrderOps, PlacedOps
  <2>. QED  BY <1>7, <2>1, StockKept DEF OrderCommitDeclined, Commit
<1>. QED
  BY <1>1, <1>2, <1>3, <1>4, <1>5, <1>6, <1>7, OrderStep(s) DEF OrderStep

LEMMA StockStep == TypeOK /\ CartInv /\ StockInv /\ [Next]_vars => StockInv'
<1> SUFFICES ASSUME TypeOK, CartInv, StockInv, [Next]_vars
             PROVE  StockInv'
  OBVIOUS
<1>1. CASE \E s \in Sessions : CartStep(s) \/ OrderStep(s)
  BY <1>1, CartStepStock, OrderStepStock
<1>2. ASSUME NEW s \in Sessions, Rollback(s)
      PROVE  StockInv'
  <2>1. OrderTxCovered(Idle)
    BY IdleOp, NotOrderCovered DEF OrderOps, PlacedOps
  <2>. QED  BY <1>2, <2>1, StockKept DEF Rollback, Continue
<1>3. CASE (\E i \in ItemIds : DeleteItem(i)) \/ UNCHANGED vars
  <2>1. UNCHANGED <<stock, sold, tx>>
    BY <1>3 DEF DeleteItem, vars
  <2>. QED  BY <2>1 DEF StockInv, StockNeverNegative, StockNeverUnderstated, OrderTxCovered
<1>. QED  BY <1>1, <1>2, <1>3 DEF Next

LEMMA StockInit == Init => StockInv
  BY StockAssumption
  DEF Init, StockInv, StockNeverNegative, StockNeverUnderstated, OrderTxCovered, Idle,
      OrderOps, PlacedOps

\* Carts, and the stock with what concurrent orders hold in memory.
THEOREM StockInvariant == Spec => [](CartInv /\ StockInv)
<1>1. Init => TypeOK /\ CartInv /\ StockInv
  BY TypeInit, CartInit, StockInit
<1>2. (TypeOK /\ CartInv /\ StockInv) /\ [Next]_vars => (TypeOK /\ CartInv /\ StockInv)'
  BY TypeStep, CartStepAll, StockStep
<1>. QED  BY <1>1, <1>2, PTL DEF Spec

\* No interleaving of requests drives a stock below zero, though neither a
\* lock nor a constraint of the database guards it.
THEOREM NeverNegative == Spec => []StockNeverNegative
<1>1. CartInv /\ StockInv => StockNeverNegative
  BY DEF StockInv
<1>. QED  BY <1>1, StockInvariant, PTL

\* Overlapping orders oversell; they never lose units.
THEOREM NeverUnderstated == Spec => []StockNeverUnderstated
<1>1. CartInv /\ StockInv => StockNeverUnderstated
  BY DEF StockInv
<1>. QED  BY <1>1, StockInvariant, PTL

-----------------------------------------------------------------------------
(***************************************************************************)
(* Orders, payments, registered products and charges agree.                *)
(*                                                                         *)
(* An order id is used once and an order commits once, so nothing that     *)
(* happens later, to other orders or to the cart, touches its rows.  A     *)
(* cart row's id is used once too: what an order took cannot come back.    *)
(***************************************************************************)

\* A step that leaves orders and charges alone and lets tx[s] become t.
LEMMA OrdersKept ==
  ASSUME TypeOK, OrdersInv, UNCHANGED <<orders, payments, registered, charges>>,
         issuedItems \subseteq issuedItems', issuedOrders \subseteq issuedOrders',
         NEW s \in Sessions, NEW t, tx' = [tx EXCEPT ![s] = t],
         OrderTxRecorded(t)',
         t.op \in PlacedOps =>
            \A r \in Sessions \ {s} : tx[r].op \in PlacedOps => tx[r].order # t.order,
         \A i \in ItemIds :
            cartItems'[i] # NoRow => cartItems[i] # NoRow \/ i \notin issuedItems
  PROVE  OrdersInv'
<1>0. \A r \in Sessions : tx'[r] = IF r = s THEN t ELSE tx[r]
  BY DEF TypeOK
<1>1. OrdersComplete'
  BY DEF OrdersInv, OrdersComplete, OrderComplete, RegisteredFor
<1>2. OrderedItemsLeaveCart'
  <2>1. \A o \in OrderIds : orders[o] # NoRow => ItemsOf(orders[o].lines) \subseteq ItemIds
    BY DEF TypeOK, OrderRow, ItemsOf, Line
  <2>. QED  BY <2>1 DEF OrdersInv, OrderedItemsLeaveCart
<1>3. ASSUME NEW r \in Sessions
      PROVE  OrderTxRecorded(tx[r])'
  <2>1. CASE r = s
    BY <1>0, <2>1 DEF OrderTxRecorded
  <2>2. CASE r # s
    BY <1>0, <2>2 DEF OrdersInv, OrderTxRecorded
  <2>. QED  BY <2>1, <2>2
<1>4. \A q, r \in Sessions :
         tx'[q].op \in PlacedOps /\ tx'[r].op \in PlacedOps /\ tx'[q].order = tx'[r].order
            => q = r
  BY <1>0 DEF OrdersInv
<1>. QED  BY <1>1, <1>2, <1>3, <1>4 DEF OrdersInv

\* A step that records order o in final form and ends the request.
LEMMA OrderEnded ==
  ASSUME TypeOK, OrdersInv, UNCHANGED <<charges, issuedItems, issuedOrders>>,
         NEW s \in Sessions, tx' = [tx EXCEPT ![s] = Idle],
         NEW o \in issuedOrders, NEW row, orders' = [orders EXCEPT ![o] = row],
         ItemsOf(row.lines) \subseteq issuedItems,
         \A r \in Sessions \ {s} : tx[r].op \in PlacedOps => tx[r].order # o,
         OrdersComplete', OrderedItemsLeaveCart'
  PROVE  OrdersInv'
<1>1. \A r \in Sessions : tx'[r] = IF r = s THEN Idle ELSE tx[r]
  BY DEF TypeOK
<1>2. ASSUME NEW r \in Sessions
      PROVE  OrderTxRecorded(tx[r])'
  <2>1. CASE tx'[r].op \notin OrderOps
    BY <2>1 DEF OrderTxRecorded, OrderOps, PlacedOps
  <2>2. CASE tx'[r].op \in OrderOps
    <3>1. r # s /\ tx'[r] = tx[r] /\ OrderTxRecorded(tx[r])
      BY <1>1, <2>2, IdleOp DEF OrdersInv, OrderOps, PlacedOps
    <3>2. tx[r].op \in PlacedOps => tx[r].order \in OrderIds /\ tx[r].order # o
      BY <3>1, TxShape DEF TypeOK, InOrder, PlacedOps
    <3>. QED  BY <3>1, <3>2 DEF OrderTxRecorded
  <2>. QED  BY <2>1, <2>2
<1>3. \A q, r \in Sessions :
         tx'[q].op \in PlacedOps /\ tx'[r].op \in PlacedOps /\ tx'[q].order = tx'[r].order
            => q = r
  BY <1>1, IdleOp DEF OrdersInv, PlacedOps
<1>4. \A p \in OrderIds :
         orders'[p] # NoRow => p \in issuedOrders /\ ItemsOf(orders'[p].lines) \subseteq issuedItems
  <2>1. \A p \in OrderIds : orders'[p] = IF p = o THEN row ELSE orders[p]
    BY DEF TypeOK
  <2>. QED  BY <2>1 DEF OrdersInv
<1>. QED  BY <1>2, <1>3, <1>4 DEF OrdersInv, ItemsOf

\* A request that is not a POST /orders has nothing to record.
LEMMA NotOrderRecorded ==
  ASSUME NEW t, t.op \notin OrderOps
  PROVE  OrderTxRecorded(t)' /\ t.op \notin PlacedOps
  BY DEF OrderTxRecorded, OrderOps, PlacedOps


LEMMA CartStepOrders ==
  ASSUME TypeOK, OrdersInv, NEW s \in Sessions, CartStep(s)
  PROVE  OrdersInv'
<1>1. /\ UNCHANGED <<orders, payments, registered, charges, issuedOrders>>
      /\ issuedItems \subseteq issuedItems'
  BY CartStep(s) DEF CartStep, AddReadVariant, AddReadExisting, AddReadAbsent, AddUpdate,
     AddInsert, UpdateReadItem, UpdateReadVariant, UpdateWrite, Continue
<1>2. ASSUME NEW j \in ItemIds, cartItems'[j] # NoRow
      PROVE  cartItems[j] # NoRow \/ j \notin issuedItems
  <2>1. CASE UNCHANGED cartItems
    BY <1>2, <2>1
  <2>2. ASSUME NEW i \in ItemIds, AddInsert(s, i)
        PROVE  cartItems[j] # NoRow \/ j \notin issuedItems
    BY <1>2, <2>2 DEF AddInsert, TypeOK
  <2>3. CASE AddUpdate(s)
    BY <1>2, <2>3 DEF AddUpdate, TypeOK
  <2>4. CASE UpdateWrite(s)
    BY <1>2, <2>4 DEF UpdateWrite, TypeOK
  <2>. QED
    BY <2>1, <2>2, <2>3, <2>4, CartStep(s)
    DEF CartStep, AddReadVariant, AddReadExisting, AddReadAbsent, UpdateReadItem,
        UpdateReadVariant, Continue
<1>3. PICK t : tx' = [tx EXCEPT ![s] = t] /\ t.op \notin OrderOps
  BY CartStepOp
<1>. QED  BY <1>1, <1>2, <1>3, NotOrderRecorded, OrdersKept

LEMMA OrderStepOrders ==
  ASSUME TypeOK, CartInv, OrdersInv, NEW s \in Sessions, OrderStep(s)
  PROVE  OrdersInv'
<1>0. tx[s] \in TxState /\ OrderTxRecorded(tx[s])
  BY DEF TypeOK, OrdersInv
<1> DEFINE OrderRec ==
      [op : {"order_placed", "order_paid", "order_declined"}, user : Users,
       lines : SUBSET Line, order : OrderIds, stock : [Variants -> Int],
       todo : SUBSET Line, taken : [Variants -> Nat]]
<1>a. ASSUME InOrder(tx[s])
      PROVE  tx[s] \in OrderRec
  BY <1>0, <1>a, TxShape
<1>b. ASSUME InOrder(tx[s])
      PROVE  \A r \in Sessions \ {s} : tx[r].op \in PlacedOps => tx[r].order # tx[s].order
  BY <1>b DEF InOrder, OrdersInv, PlacedOps
<1>1. ASSUME NEW u \in Users, NEW ids \in SUBSET ItemIds, OrderReadItems(s, u, ids)
      PROVE  OrdersInv'
  <2> PICK t : t = [op |-> "order_items", user |-> u, lines |-> {LineOf(i) : i \in ids}]
    OBVIOUS
  <2>1. t.op = "order_items" /\ t.lines # {} /\ ItemsOf(t.lines) \subseteq issuedItems
    <3>1. t.lines = {LineOf(i) : i \in ids} /\ t.op = "order_items"
      OBVIOUS
    <3>2. \A i \in ids : LineOf(i).item = i /\ i \in issuedItems
      BY <1>1 DEF OrderReadItems, LineOf, CartInv
    <3>3. ids # {}
      BY <1>1 DEF OrderReadItems
    <3>. QED  BY ONLY <3>1, <3>2, <3>3 DEF ItemsOf
  <2>2. OrderTxRecorded(t)' /\ t.op \notin PlacedOps
    BY <1>1, <2>1 DEF OrderReadItems, OrderTxRecorded, OrderOps, PlacedOps
  <2>3. /\ UNCHANGED <<orders, payments, registered, charges, issuedItems, issuedOrders, cartItems>>
        /\ tx' = [tx EXCEPT ![s] = t]
    BY <1>1 DEF OrderReadItems, Continue
  <2>. QED  BY <2>2, <2>3, OrdersKept
<1>2. ASSUME NEW o \in OrderIds, OrderPlace(s, o)
      PROVE  OrdersInv'
  <2> PICK t : t = [op |-> "order_placed", user |-> tx[s].user, lines |-> tx[s].lines,
                    order |-> o, stock |-> stock, todo |-> tx[s].lines,
                    taken |-> [v \in Variants |-> 0]]
    OBVIOUS
  <2>1. /\ UNCHANGED <<orders, payments, registered, charges, issuedItems, cartItems>>
        /\ issuedOrders' = issuedOrders \cup {o}
        /\ tx' = [tx EXCEPT ![s] = t]
    BY <1>2 DEF OrderPlace, Continue
  <2>2. orders[o] = NoRow /\ o \notin charges /\ o \notin issuedOrders
    BY <1>2 DEF OrderPlace, OrdersInv
  <2>3. OrderTxRecorded(t)'
    BY <1>0, <1>2, <2>1, <2>2 DEF OrderPlace, OrderTxRecorded, OrderOps, PlacedOps
  <2>4. \A r \in Sessions : tx[r].op \in PlacedOps => tx[r].order # t.order
    BY <2>2 DEF OrdersInv, OrderTxRecorded
  <2>. QED  BY <2>1, <2>3, <2>4, OrdersKept
<1>3. ASSUME PayApproved(s)
      PROVE  OrdersInv'
  <2> PICK t : t = [tx[s] EXCEPT !.op = "order_paid"]
    OBVIOUS
  <2> DEFINE o == tx[s].order
  <2>1. InOrder(tx[s]) /\ tx[s] \in OrderRec /\ o \in OrderIds
    BY <1>3, <1>a DEF PayApproved, InOrder
  <2>2. /\ UNCHANGED <<orders, payments, registered, issuedItems, issuedOrders, cartItems>>
        /\ charges' = charges \cup {o}
        /\ tx' = [tx EXCEPT ![s] = t]
    BY <1>3 DEF PayApproved, Continue
  <2>3. /\ t.op = "order_paid" /\ t.order = o /\ t.lines = tx[s].lines
        /\ orders[o] = NoRow /\ o \in issuedOrders
        /\ t.lines # {} /\ ItemsOf(t.lines) \subseteq issuedItems
    BY <1>0, <1>3, <2>1 DEF PayApproved, OrderTxRecorded, OrderOps, PlacedOps
  <2>4. \A r \in Sessions \ {s} : tx[r].op \in PlacedOps => tx[r].order # o
    BY <1>b, <2>1
  <2>5. \A r \in Sessions : tx'[r] = IF r = s THEN t ELSE tx[r]
    BY <2>2 DEF TypeOK
  <2>6. OrdersComplete' /\ OrderedItemsLeaveCart'
    BY <2>2, <2>3 DEF OrdersInv, OrdersComplete, OrderComplete, OrderedItemsLeaveCart, RegisteredFor
  <2>7. ASSUME NEW r \in Sessions
        PROVE  OrderTxRecorded(tx[r])'
    <3>1. CASE r = s
      <4>1. OrderTxRecorded(t)'
        BY ONLY <2>2, <2>3 DEF OrderTxRecorded
      <4>. QED  BY <2>5, <3>1, <4>1 DEF OrderTxRecorded
    <3>2. CASE r # s
      BY <2>2, <2>4, <2>5, <3>2 DEF OrdersInv, OrderTxRecorded, PlacedOps
    <3>. QED  BY <3>1, <3>2
  <2>8. \A q, r \in Sessions :
           tx'[q].op \in PlacedOps /\ tx'[r].op \in PlacedOps /\ tx'[q].order = tx'[r].order
              => q = r
    <3>1. \A q, r \in Sessions :
             tx[q].op \in PlacedOps /\ tx[r].op \in PlacedOps /\ tx[q].order = tx[r].order
                => q = r
      BY DEF OrdersInv
    <3>. QED  BY ONLY <2>3, <2>4, <2>5, <3>1
  <2>. QED  BY <2>2, <2>3, <2>6, <2>7, <2>8 DEF OrdersInv
<1>4. ASSUME PayDeclined(s)
      PROVE  OrdersInv'
  <2> PICK t : t = [tx[s] EXCEPT !.op = "order_declined"]
    OBVIOUS
  <2>1. InOrder(tx[s]) /\ tx[s] \in OrderRec
    BY <1>4, <1>a DEF PayDeclined, InOrder
  <2>2. t.op = "order_declined" /\ t.order = tx[s].order /\ t.lines = tx[s].lines
    BY <2>1
  <2>3. /\ UNCHANGED <<orders, payments, registered, charges, issuedItems, issuedOrders, cartItems>>
        /\ tx' = [tx EXCEPT ![s] = t]
    BY <1>4 DEF PayDeclined, Continue
  <2>4. OrderTxRecorded(t)'
    BY <1>0, <1>4, <2>2, <2>3 DEF PayDeclined, OrderTxRecorded, OrderOps, PlacedOps
  <2>. QED  BY <1>b, <2>1, <2>2, <2>3, <2>4, OrdersKept
<1>5. ASSUME NEW l \in tx[s].todo, FulfilLine(s, l)
      PROVE  OrdersInv'
  <2> PICK t : t = [tx[s] EXCEPT !.stock = Decremented(@, l),
                                 !.taken[l.variant] = @ + l.quantity,
                                 !.todo = @ \ {l}]
    OBVIOUS
  <2>1. InOrder(tx[s]) /\ tx[s] \in OrderRec
    BY <1>5, <1>a DEF FulfilLine, InOrder
  <2>2. t.op = "order_paid" /\ t.order = tx[s].order /\ t.lines = tx[s].lines
    BY <1>5, <2>1 DEF FulfilLine
  <2>3. /\ UNCHANGED <<orders, payments, registered, charges, issuedItems, issuedOrders, cartItems>>
        /\ tx' = [tx EXCEPT ![s] = t]
    BY <1>5 DEF FulfilLine, Continue
  <2>4. OrderTxRecorded(t)'
    BY <1>0, <1>5, <2>2, <2>3 DEF FulfilLine, OrderTxRecorded, OrderOps, PlacedOps
  <2>. QED  BY <1>b, <2>1, <2>2, <2>3, <2>4, OrdersKept
<1>6. ASSUME OrderCommitPaid(s)
      PROVE  OrdersInv'
  <2>1. InOrder(tx[s]) /\ tx[s] \in OrderRec
    BY <1>6, <1>a DEF OrderCommitPaid, InOrder
  <2>2. PICK o : o = tx[s].order
    OBVIOUS
  <2>3. PICK row : row = [user |-> tx[s].user, status |-> "paid", lines |-> tx[s].lines]
    OBVIOUS
  <2>4. /\ orders' = [orders EXCEPT ![o] = row]
        /\ payments' = [payments EXCEPT ![o] = "success"]
        /\ registered' = registered \cup RegisteredFor(o, row.lines)
        /\ cartItems' = ClearedCart(row.lines)
        /\ tx' = [tx EXCEPT ![s] = Idle]
        /\ UNCHANGED <<charges, issuedItems, issuedOrders>>
    BY <1>6, <2>2, <2>3 DEF OrderCommitPaid, Commit
  <2>5. /\ o \in OrderIds /\ row \in OrderRow /\ row # NoRow
        /\ row.status = "paid"
        /\ orders[o] = NoRow /\ o \in issuedOrders /\ o \in charges
        /\ row.lines # {} /\ ItemsOf(row.lines) \subseteq issuedItems
    BY <1>0, <1>6, <2>1, <2>2, <2>3, NoRowAssumption
    DEF OrderCommitPaid, OrderTxRecorded, OrderOps, PlacedOps, OrderRow
  <2>6. \A p \in OrderIds : orders'[p] = IF p = o THEN row ELSE orders[p]
    BY <2>4, <2>5 DEF TypeOK
  <2>7. OrdersComplete'
    <3>1. ASSUME NEW p \in OrderIds \ {o}
          PROVE  OrderComplete(p)'
      <4>1. {x \in registered' : x[1] = p} = {x \in registered : x[1] = p}
        BY <2>4 DEF RegisteredFor
      <4>2. payments'[p] = payments[p] /\ orders'[p] = orders[p]
        BY <2>4, <2>6 DEF TypeOK
      <4>. QED  BY <2>4, <4>1, <4>2 DEF OrdersInv, OrdersComplete, OrderComplete, RegisteredFor
    <3>2. OrderComplete(o)'
      <4>1. {x \in registered : x[1] = o} = {} /\ payments[o] = NoRow
        BY <2>5, NoRowAssumption DEF OrdersInv, OrdersComplete, OrderComplete
      <4>2. {x \in registered' : x[1] = o} = RegisteredFor(o, row.lines)
        BY <2>4, <4>1 DEF RegisteredFor
      <4>3. payments'[o] = "success" /\ orders'[o] = row
        BY <2>4, <2>5, <2>6 DEF TypeOK
      <4>. QED  BY <2>4, <2>5, <4>2, <4>3 DEF OrderComplete, RegisteredFor
    <3>. QED  BY <3>1, <3>2 DEF OrdersComplete
  <2>8. OrderedItemsLeaveCart'
    <3>1. \A i \in ItemsOf(row.lines) : i \in ItemIds /\ cartItems'[i] = NoRow
      BY <2>4, <2>5 DEF ClearedCart, OrderRow, ItemsOf, Line
    <3>2. \A i \in ItemIds : cartItems[i] = NoRow => cartItems'[i] = NoRow
      BY <2>4 DEF ClearedCart
    <3>3. \A p \in OrderIds : orders[p] # NoRow => ItemsOf(orders[p].lines) \subseteq ItemIds
      BY DEF TypeOK, OrderRow, ItemsOf, Line
    <3>. QED  BY <2>6, <3>1, <3>2, <3>3 DEF OrdersInv, OrderedItemsLeaveCart
  <2>9. \A r \in Sessions \ {s} : tx[r].op \in PlacedOps => tx[r].order # o
    BY <1>b, <2>1, <2>2
  <2>. QED  BY <2>4, <2>5, <2>7, <2>8, <2>9, OrderEnded
<1>7. ASSUME OrderCommitDeclined(s)
      PROVE  OrdersInv'
  <2>1. InOrder(tx[s]) /\ tx[s] \in OrderRec
    BY <1>7, <1>a DEF OrderCommitDeclined, InOrder
  <2>2. PICK o : o = tx[s].order
    OBVIOUS
  <2>3. PICK row : row = [user |-> tx[s].user, status |-> "failed", lines |-> tx[s].lines]
    OBVIOUS
  <2>4. /\ orders' = [orders EXCEPT ![o] = row]
        /\ payments' = [payments EXCEPT ![o] = "failed"]
        /\ tx' = [tx EXCEPT ![s] = Idle]
        /\ UNCHANGED <<registered, cartItems, charges, issuedItems, issuedOrders>>
    BY <1>7, <2>2, <2>3 DEF OrderCommitDeclined, Commit
  <2>5. /\ o \in OrderIds /\ row \in OrderRow /\ row # NoRow
        /\ row.status = "failed"
        /\ orders[o] = NoRow /\ o \in issuedOrders /\ o \notin charges
        /\ ItemsOf(row.lines) \subseteq issuedItems
    BY <1>0, <1>7, <2>1, <2>2, <2>3, NoRowAssumption
    DEF OrderCommitDeclined, OrderTxRecorded, OrderOps, PlacedOps, OrderRow
  <2>6. \A p \in OrderIds : orders'[p] = IF p = o THEN row ELSE orders[p]
    BY <2>4, <2>5 DEF TypeOK
  <2>7. OrdersComplete'
    <3>1. ASSUME NEW p \in OrderIds \ {o}
          PROVE  OrderComplete(p)'
      <4>1. payments'[p] = payments[p] /\ orders'[p] = orders[p]
        BY <2>4, <2>6 DEF TypeOK
      <4>. QED  BY <2>4, <4>1 DEF OrdersInv, OrdersComplete, OrderComplete, RegisteredFor
    <3>2. OrderComplete(o)'
      <4>1. {x \in registered : x[1] = o} = {}
        BY <2>5 DEF OrdersInv, OrdersComplete, OrderComplete
      <4>2. payments'[o] = "failed" /\ orders'[o] = row
        BY <2>4, <2>5, <2>6 DEF TypeOK
      <4>. QED  BY <2>4, <2>5, <4>1, <4>2 DEF OrderComplete
    <3>. QED  BY <3>1, <3>2 DEF OrdersComplete
  <2>8. OrderedItemsLeaveCart'
    BY <2>4, <2>5, <2>6 DEF OrdersInv, OrderedItemsLeaveCart
  <2>9. \A r \in Sessions \ {s} : tx[r].op \in PlacedOps => tx[r].order # o
    BY <1>b, <2>1, <2>2
  <2>. QED  BY <2>4, <2>5, <2>7, <2>8, <2>9, OrderEnded
<1>. QED
  BY <1>1, <1>2, <1>3, <1>4, <1>5, <1>6, <1>7, OrderStep(s) DEF OrderStep

LEMMA OrdersStep == TypeOK /\ CartInv /\ OrdersInv /\ [Next]_vars => OrdersInv'
<1> SUFFICES ASSUME TypeOK, CartInv, OrdersInv, [Next]_vars
             PROVE  OrdersInv'
  OBVIOUS
<1>0. Idle.op \notin OrderOps
  BY IdleOp DEF OrderOps, PlacedOps
<1>1. CASE \E s \in Sessions : CartStep(s) \/ OrderStep(s)
  BY <1>1, CartStepOrders, OrderStepOrders
<1>2. ASSUME NEW s \in Sessions, Rollback(s)
      PROVE  OrdersInv'
  <2>1. /\ UNCHANGED <<orders, payments, registered, charges, issuedItems, issuedOrders, cartItems>>
        /\ tx' = [tx EXCEPT ![s] = Idle]
    BY <1>2 DEF Rollback, Continue
  <2>2. PICK t : t = Idle
    OBVIOUS
  <2>. QED  BY <1>0, <2>1, <2>2, NotOrderRecorded, OrdersKept
<1>3. CASE (\E i \in ItemIds : DeleteItem(i)) \/ UNCHANGED vars
  <2>1. UNCHANGED <<orders, payments, registered, charges, issuedItems, issuedOrders, tx>>
    BY <1>3 DEF DeleteItem, vars
  <2>2. \A i \in ItemIds : cartItems[i] = NoRow => cartItems'[i] = NoRow
    BY <1>3 DEF DeleteItem, vars, TypeOK
  <2>3. \A o \in OrderIds : orders[o] # NoRow => ItemsOf(orders[o].lines) \subseteq ItemIds
    BY DEF TypeOK, OrderRow, ItemsOf, Line
  <2>4. OrderedItemsLeaveCart'
    BY <2>1, <2>2, <2>3 DEF OrdersInv, OrderedItemsLeaveCart
  <2>5. OrdersComplete'
    BY <2>1 DEF OrdersInv, OrdersComplete, OrderComplete, RegisteredFor
  <2>. QED  BY <2>1, <2>4, <2>5 DEF OrdersInv, OrderTxRecorded
<1>. QED  BY <1>1, <1>2, <1>3 DEF Next

LEMMA OrdersInit == Init => OrdersInv
  BY DEF Init, OrdersInv, OrdersComplete, OrderComplete, OrderedItemsLeaveCart,
     OrderTxRecorded, Idle, OrderOps, PlacedOps

THEOREM OrdersInvariant == Spec => [](CartInv /\ OrdersInv)
<1>1. Init => TypeOK /\ CartInv /\ OrdersInv
  BY TypeInit, CartInit, OrdersInit
<1>2. (TypeOK /\ CartInv /\ OrdersInv) /\ [Next]_vars => (TypeOK /\ CartInv /\ OrdersInv)'
  BY TypeStep, CartStepAll, OrdersStep
<1>. QED  BY <1>1, <1>2, PTL DEF Spec

\* An order, its payment row, its registered products and the money taken
\* agree, whatever was interrupted.
THEOREM AlwaysComplete == Spec => []OrdersComplete
<1>1. CartInv /\ OrdersInv => OrdersComplete
  BY DEF OrdersInv
<1>. QED  BY <1>1, OrdersInvariant, PTL

\* No request brings back a cart row that a PAID order took.
THEOREM OrderedItemsGone == Spec => []OrderedItemsLeaveCart
<1>1. CartInv /\ OrdersInv => OrderedItemsLeaveCart
  BY DEF OrdersInv
<1>. QED  BY <1>1, OrdersInvariant, PTL

-----------------------------------------------------------------------------
(***************************************************************************)
(* Checkout implements OrderLedger: the two committing steps of POST       *)
(* /orders are its two actions, every other step is a stutter.             *)
(***************************************************************************)

\* An order's committing step, as a reader of the database sees it.
LEMMA RecordsOne ==
  ASSUME TypeOK, NEW o \in OrderIds, orders[o] = NoRow, NEW r,
         LedgerRow(o)' = r,
         \A p \in OrderIds \ {o} : LedgerRow(p)' = LedgerRow(p)
  PROVE  Ledger!Record(o, r)
<1>1. recorded[o] = NoRow
  BY DEF recorded, LedgerRow
<1>2. recorded' = [p \in OrderIds |-> IF p = o THEN r ELSE recorded[p]]
  BY DEF recorded
<1>3. [recorded EXCEPT ![o] = r] = [p \in OrderIds |-> IF p = o THEN r ELSE recorded[p]]
  BY DEF recorded
<1>. QED  BY <1>1, <1>2, <1>3 DEF Ledger!Record

LEMMA LedgerStep ==
  TypeOK /\ CartInv /\ OrdersInv /\ [Next]_vars => [Ledger!Next]_recorded
<1> SUFFICES ASSUME TypeOK, CartInv, OrdersInv, [Next]_vars
             PROVE  [Ledger!Next]_recorded
  OBVIOUS
<1>1. ASSUME NEW s \in Sessions, OrderCommitPaid(s)
      PROVE  Ledger!Next
  <2>0. PICK o, lines, u : o = tx[s].order /\ lines = tx[s].lines /\ u = tx[s].user
    OBVIOUS
  <2>1. /\ InOrder(tx[s])
        /\ o \in OrderIds /\ u \in Users /\ lines \subseteq Line
    BY <1>1, <2>0, TxShape DEF OrderCommitPaid, InOrder, TypeOK
  <2>2. lines # {} /\ orders[o] = NoRow
    BY <1>1, <2>0 DEF OrderCommitPaid, OrdersInv, OrderTxRecorded, OrderOps, PlacedOps
  <2>3. {x \in registered : x[1] = o} = {}
    BY <2>1, <2>2 DEF OrdersInv, OrdersComplete, OrderComplete
  <2>4. {x \in registered' : x[1] = o} = RegisteredFor(o, lines)
    BY <1>1, <2>0, <2>3 DEF OrderCommitPaid, RegisteredFor
  <2>5. {x[2] : x \in RegisteredFor(o, lines)} = ItemsOf(lines)
    <3>1. ASSUME NEW x \in RegisteredFor(o, lines)
          PROVE  x[2] \in ItemsOf(lines)
      BY DEF RegisteredFor
    <3>2. ASSUME NEW i \in ItemsOf(lines)
          PROVE  <<o, i>> \in RegisteredFor(o, lines) /\ <<o, i>>[2] = i
      BY DEF RegisteredFor
    <3>. QED  BY <3>1, <3>2
  <2>6. /\ orders'[o] = [user |-> u, status |-> "paid", lines |-> lines]
        /\ payments'[o] = "success"
        /\ \A p \in OrderIds \ {o} : orders'[p] = orders[p] /\ payments'[p] = payments[p]
    BY <1>1, <2>0, <2>1 DEF OrderCommitPaid, TypeOK
  <2>7. orders'[o] # NoRow
    BY <2>1, <2>6, NoRowAssumption DEF OrderRow
  <2>8. LedgerRow(o)' = [user |-> u, status |-> "paid", payment |-> "success",
                         items |-> ItemsOf(lines), registered |-> ItemsOf(lines)]
    <3>1. {x[2] : x \in {y \in registered' : y[1] = o}} = ItemsOf(lines)
      BY <2>4, <2>5
    <3>2. orders'[o].user = u /\ orders'[o].status = "paid" /\ orders'[o].lines = lines
      BY <2>6
    <3>3. ItemsOf(orders[o].lines)' = ItemsOf(lines)
      BY <3>2 DEF ItemsOf
    <3>. QED  BY <2>6, <2>7, <3>1, <3>2, <3>3 DEF LedgerRow
  <2>9. ASSUME NEW p \in OrderIds \ {o}
        PROVE  LedgerRow(p)' = LedgerRow(p)
    <3>1. {x \in registered' : x[1] = p} = {x \in registered : x[1] = p}
      BY <1>1, <2>0 DEF OrderCommitPaid, RegisteredFor
    <3>. QED  BY <2>6, <3>1 DEF LedgerRow, ItemsOf
  <2>10. Ledger!RecordPaid(o, u, ItemsOf(lines))
    BY <2>1, <2>2, <2>8, <2>9, RecordsOne DEF Ledger!RecordPaid
  <2>11. ItemsOf(lines) \in (SUBSET ItemIds) \ {{}}
    BY <2>1, <2>2 DEF ItemsOf, Line
  <2>. QED  BY <2>1, <2>10, <2>11 DEF Ledger!Next
<1>2. ASSUME NEW s \in Sessions, OrderCommitDeclined(s)
      PROVE  Ledger!Next
  <2>0. PICK o, lines, u : o = tx[s].order /\ lines = tx[s].lines /\ u = tx[s].user
    OBVIOUS
  <2>1. /\ InOrder(tx[s])
        /\ o \in OrderIds /\ u \in Users /\ lines \subseteq Line
    BY <1>2, <2>0, TxShape DEF OrderCommitDeclined, InOrder, TypeOK
  <2>2. lines # {} /\ orders[o] = NoRow
    BY <1>2, <2>0 DEF OrderCommitDeclined, OrdersInv, OrderTxRecorded, OrderOps, PlacedOps
  <2>3. {x \in registered : x[1] = o} = {}
    BY <2>1, <2>2 DEF OrdersInv, OrdersComplete, OrderComplete
  <2>4. /\ orders'[o] = [user |-> u, status |-> "failed", lines |-> lines]
        /\ payments'[o] = "failed"
        /\ \A p \in OrderIds \ {o} : orders'[p] = orders[p] /\ payments'[p] = payments[p]
        /\ registered' = registered
    BY <1>2, <2>0, <2>1 DEF OrderCommitDeclined, TypeOK
  <2>5. orders'[o] # NoRow
    BY <2>1, <2>4, NoRowAssumption DEF OrderRow
  <2>6. LedgerRow(o)' = [user |-> u, status |-> "failed", payment |-> "failed",
                         items |-> ItemsOf(lines), registered |-> {}]
    <3>1. {x[2] : x \in {y \in registered' : y[1] = o}} = {}
      BY <2>3, <2>4
    <3>2. orders'[o].user = u /\ orders'[o].status = "failed" /\ orders'[o].lines = lines
      BY <2>4
    <3>3. ItemsOf(orders[o].lines)' = ItemsOf(lines)
      BY <3>2 DEF ItemsOf
    <3>. QED  BY <2>4, <2>5, <3>1, <3>2, <3>3 DEF LedgerRow
  <2>7. \A p \in OrderIds \ {o} : LedgerRow(p)' = LedgerRow(p)
    BY <2>4 DEF LedgerRow, ItemsOf
  <2>8. Ledger!RecordFailed(o, u, ItemsOf(lines))
    BY <2>1, <2>2, <2>6, <2>7, RecordsOne DEF Ledger!RecordFailed
  <2>9. ItemsOf(lines) \in (SUBSET ItemIds) \ {{}}
    BY <2>1, <2>2 DEF ItemsOf, Line
  <2>. QED  BY <2>1, <2>8, <2>9 DEF Ledger!Next
<1>3. CASE UNCHANGED <<orders, payments, registered>>
  BY <1>3 DEF recorded, LedgerRow, ItemsOf
<1>. QED
  BY <1>1, <1>2, <1>3
  DEF Next, vars, CartStep, OrderStep, Rollback, DeleteItem, Continue, AddReadVariant,
      AddReadExisting, AddReadAbsent, AddUpdate, AddInsert, UpdateReadItem,
      UpdateReadVariant, UpdateWrite, OrderReadItems, OrderPlace, PayApproved,
      PayDeclined, FulfilLine

LEMMA LedgerInit == Init => Ledger!Init
  BY DEF Init, Ledger!Init, recorded, LedgerRow

\* "Orders and payments are records": to a reader of the database POST /orders
\* is one atomic step, and what it recorded never changes.
THEOREM Refinement == Spec => LedgerSpec
<1>1. Init => TypeOK /\ CartInv /\ OrdersInv
  BY TypeInit, CartInit, OrdersInit
<1>2. (TypeOK /\ CartInv /\ OrdersInv) /\ [Next]_vars => (TypeOK /\ CartInv /\ OrdersInv)'
  BY TypeStep, CartStepAll, OrdersStep
<1>. QED  BY <1>1, <1>2, LedgerInit, LedgerStep, PTL DEF Spec, LedgerSpec, Ledger!Spec

-----------------------------------------------------------------------------
(***************************************************************************)
(* One order at a time.                                                    *)
(*                                                                         *)
(* Without another order between its reads and its commit an order writes  *)
(* exactly the stock of the table less its units, and the items it has     *)
(* read are still in no other order.  Any other request may come in        *)
(* between: none of them touches the stock or the orders.                  *)
(***************************************************************************)

\* A step that leaves stock and orders alone and lets tx[s] become t.
LEMMA SerialKept ==
  ASSUME TypeOK, SerialInv, UNCHANGED <<stock, sold, orders>>,
         NEW s \in Sessions, NEW t, tx' = [tx EXCEPT ![s] = t],
         SerialTx(t)
  PROVE  SerialInv'
<1>1. ASSUME NEW r \in Sessions
      PROVE  SerialTx(tx[r])'
  <2>1. tx'[r] = IF r = s THEN t ELSE tx[r]
    BY DEF TypeOK
  <2>2. SerialTx(tx'[r])
    BY <2>1 DEF SerialInv
  <2>. QED  BY <2>2 DEF SerialTx
<1>. QED  BY <1>1 DEF SerialInv, StockConservation, ItemOrderedOnce

LEMMA NotOrderSerial ==
  ASSUME NEW t, t.op \notin OrderOps
  PROVE  SerialTx(t)
  BY DEF SerialTx, OrderOps, PlacedOps

LEMMA CartStepSerial ==
  ASSUME TypeOK, SerialInv, NEW s \in Sessions, CartStep(s)
  PROVE  SerialInv'
<1>1. UNCHANGED <<stock, sold, orders>>
  BY CartStep(s) DEF CartStep, AddReadVariant, AddReadExisting, AddReadAbsent, AddUpdate,
     AddInsert, UpdateReadItem, UpdateReadVariant, UpdateWrite, Continue
<1>. QED  BY <1>1, CartStepOp, NotOrderSerial, SerialKept

\* A committed order takes from the table what it took in memory.
LEMMA OrderCommitPaidSerial ==
  ASSUME OrdersApart, TypeOK, OrdersInv, SerialInv, NEW s \in Sessions, OrderCommitPaid(s)
  PROVE  SerialInv'
<1> DEFINE t == tx[s]
           row == [user |-> t.user, status |-> "paid", lines |-> t.lines]
<1>1. InOrder(t) /\ t.op \in PlacedOps /\ t.op \in OrderOps
  BY DEF OrderCommitPaid, InOrder, OrderOps, PlacedOps
<1>2. /\ t.order \in OrderIds
      /\ t.stock \in [Variants -> Int]
      /\ t.taken \in [Variants -> Nat]
  BY <1>1, TxShape DEF TypeOK
<1>3. /\ \A v \in Variants : /\ t.stock[v] + t.taken[v] = stock[v]
                             /\ v \notin VariantsOf(t.lines) => t.taken[v] = 0
      /\ \A o \in OrderIds : orders[o] # NoRow /\ orders[o].status = "paid"
                               => ItemsOf(orders[o].lines) \cap ItemsOf(t.lines) = {}
  BY <1>1 DEF SerialInv, SerialTx
<1>4. StockConservation'
  <2>1. \A v \in Variants :
           /\ stock'[v] = IF v \in VariantsOf(t.lines) THEN t.stock[v] ELSE stock[v]
           /\ sold'[v] = sold[v] + t.taken[v]
    BY DEF OrderCommitPaid, WrittenStock
  <2>2. \A v \in Variants : /\ stock[v] \in Int /\ sold[v] \in Nat
                            /\ InitialStock[v] \in Nat
                            /\ stock[v] + sold[v] = InitialStock[v]
    BY StockAssumption DEF TypeOK, SerialInv, StockConservation
  <2>3. ASSUME NEW v \in Variants
        PROVE  stock'[v] + sold'[v] = InitialStock[v]
    <3>1. /\ t.stock[v] \in Int /\ t.taken[v] \in Nat
          /\ t.stock[v] + t.taken[v] = stock[v]
          /\ v \notin VariantsOf(t.lines) => t.taken[v] = 0
      BY <1>2, <1>3
    <3>2. /\ stock[v] \in Int /\ sold[v] \in Nat /\ InitialStock[v] \in Nat
          /\ stock[v] + sold[v] = InitialStock[v]
      BY <2>2
    <3>3. /\ v \in VariantsOf(t.lines) => stock'[v] = t.stock[v]
          /\ v \notin VariantsOf(t.lines) => stock'[v] = stock[v]
          /\ sold'[v] = sold[v] + t.taken[v]
      BY <2>1
    <3>. HIDE DEF OrderCommitPaid
    <3>. QED  BY <3>1, <3>2, <3>3
  <2>. QED  BY <2>3 DEF StockConservation
<1>5. ItemOrderedOnce'
  <2>1. orders' = [orders EXCEPT ![t.order] = row]
    BY DEF OrderCommitPaid
  <2>2. row.lines = t.lines
    OBVIOUS
  <2>. HIDE DEF t, row
  <2>3. \A o \in OrderIds : orders'[o] = IF o = t.order THEN row ELSE orders[o]
    BY <1>2, <2>1 DEF TypeOK
  <2>. QED  BY <1>3, <2>2, <2>3 DEF SerialInv, ItemOrderedOnce
<1>6. ASSUME NEW r \in Sessions
      PROVE  SerialTx(tx[r])'
  <2>1. tx[s].op \in OrderOps
    BY DEF OrderCommitPaid, OrderOps, PlacedOps
  <2>2. tx'[r] = IF r = s THEN Idle ELSE tx[r]
    BY DEF OrderCommitPaid, Commit, TypeOK
  <2>3. tx'[r].op \notin OrderOps
    BY <2>1, <2>2, IdleOp DEF OrdersApart, OrderOps, PlacedOps
  <2>. QED  BY <2>3 DEF SerialTx, OrderOps, PlacedOps
<1>. QED  BY <1>4, <1>5, <1>6 DEF SerialInv

\* A declined order leaves a FAILED row and nothing else.
LEMMA OrderCommitDeclinedSerial ==
  ASSUME OrdersApart, TypeOK, SerialInv, NEW s \in Sessions, OrderCommitDeclined(s)
  PROVE  SerialInv'
<1> DEFINE row == [user |-> tx[s].user, status |-> "failed", lines |-> tx[s].lines]
<1>1. /\ orders' = [orders EXCEPT ![tx[s].order] = row]
      /\ row.status = "failed"
      /\ UNCHANGED <<stock, sold>>
  BY DEF OrderCommitDeclined
<1>. HIDE DEF row
<1>2. \A o \in OrderIds : orders'[o] = orders[o] \/ orders'[o] = row
  BY <1>1 DEF TypeOK
<1>3. StockConservation'
  BY <1>1 DEF SerialInv, StockConservation
<1>4. ItemOrderedOnce'
  BY <1>1, <1>2 DEF SerialInv, ItemOrderedOnce
<1>5. ASSUME NEW r \in Sessions
      PROVE  SerialTx(tx[r])'
  <2>1. tx[s].op \in OrderOps
    BY DEF OrderCommitDeclined, OrderOps, PlacedOps
  <2>2. tx'[r] = IF r = s THEN Idle ELSE tx[r]
    BY DEF OrderCommitDeclined, Commit, TypeOK
  <2>3. tx'[r].op \notin OrderOps
    BY <2>1, <2>2, IdleOp DEF OrdersApart, OrderOps, PlacedOps
  <2>. QED  BY <2>3 DEF SerialTx, OrderOps, PlacedOps
<1>. QED  BY <1>3, <1>4, <1>5 DEF SerialInv

LEMMA OrderStepSerial ==
  ASSUME OrdersApart, TypeOK, StockInv, OrdersInv, SerialInv, NEW s \in Sessions, OrderStep(s)
  PROVE  SerialInv'
<1>0. tx[s] \in TxState /\ SerialTx(tx[s])
  BY DEF TypeOK, SerialInv
<1> DEFINE OrderRec ==
      [op : {"order_placed", "order_paid", "order_declined"}, user : Users,
       lines : SUBSET Line, order : OrderIds, stock : [Variants -> Int],
       todo : SUBSET Line, taken : [Variants -> Nat]]
<1>a. ASSUME InOrder(tx[s])
      PROVE  tx[s] \in OrderRec
  BY <1>0, <1>a, TxShape
<1>1. ASSUME NEW u \in Users, NEW ids \in SUBSET ItemIds, OrderReadItems(s, u, ids)
      PROVE  SerialInv'
  <2> DEFINE t == [op |-> "order_items", user |-> u, lines |-> {LineOf(i) : i \in ids}]
  <2>1. t.op \notin PlacedOps /\ ItemsOf(t.lines) \subseteq ids
    BY DEF PlacedOps, ItemsOf, LineOf
  <2>2. \A o \in OrderIds : orders[o] # NoRow /\ orders[o].status = "paid"
                               => ItemsOf(orders[o].lines) \cap ids = {}
    BY <1>1 DEF OrderReadItems, OrdersInv, OrderedItemsLeaveCart
  <2>3. tx' = [tx EXCEPT ![s] = t] /\ UNCHANGED <<stock, sold, orders>>
    BY <1>1 DEF OrderReadItems, Continue
  <2>. HIDE DEF t
  <2>4. SerialTx(t)
    BY <2>1, <2>2 DEF SerialTx
  <2>. QED  BY <2>3, <2>4, SerialKept
<1>2. ASSUME NEW o \in OrderIds, OrderPlace(s, o)
      PROVE  SerialInv'
  <2> DEFINE t == [op |-> "order_placed", user |-> tx[s].user, lines |-> tx[s].lines,
                   order |-> o, stock |-> stock, todo |-> tx[s].lines,
                   taken |-> [v \in Variants |-> 0]]
  <2>1. \A v \in Variants : t.taken[v] = 0 /\ t.stock[v] + t.taken[v] = stock[v]
    BY DEF TypeOK
  <2>2. /\ t.lines = tx[s].lines
        /\ tx[s].op \in OrderOps
        /\ tx' = [tx EXCEPT ![s] = t]
        /\ UNCHANGED <<stock, sold, orders>>
    BY <1>2 DEF OrderPlace, Continue, OrderOps
  <2>. HIDE DEF t
  <2>3. SerialTx(t)
    BY <1>0, <2>1, <2>2 DEF SerialTx
  <2>. QED  BY <2>2, <2>3, SerialKept
<1>3. ASSUME PayApproved(s)
      PROVE  SerialInv'
  <2>1. SerialTx([tx[s] EXCEPT !.op = "order_paid"])
    BY <1>0, <1>a, <1>3 DEF PayApproved, InOrder, SerialTx, OrderOps, PlacedOps
  <2>. QED  BY <1>3, <2>1, SerialKept DEF PayApproved, Continue
<1>4. ASSUME PayDeclined(s)
      PROVE  SerialInv'
  <2>1. SerialTx([tx[s] EXCEPT !.op = "order_declined"])
    BY <1>0, <1>a, <1>4 DEF PayDeclined, InOrder, SerialTx, OrderOps, PlacedOps
  <2>. QED  BY <1>4, <2>1, SerialKept DEF PayDeclined, Continue
<1>5. ASSUME NEW l \in tx[s].todo, FulfilLine(s, l)
      PROVE  SerialInv'
  <2> DEFINE st == Decremented(tx[s].stock, l)
             tk == [tx[s].taken EXCEPT ![l.variant] = @ + l.quantity]
             t  == [tx[s] EXCEPT !.stock = st, !.taken = tk, !.todo = @ \ {l}]
  <2>1. tx[s] \in OrderRec
    BY <1>5, <1>a DEF FulfilLine, InOrder
  <2>2. /\ l \in Line /\ l.variant \in Variants /\ l.quantity \in Nat
        /\ l.variant \in VariantsOf(tx[s].lines)
    <3>1. tx[s].todo \subseteq tx[s].lines
      BY <1>5 DEF StockInv, OrderTxCovered, FulfilLine, PlacedOps
    <3>. QED  BY <1>5, <2>1, <3>1 DEF Line, VariantsOf
  <2>3. /\ tx[s].op \in OrderOps /\ tx[s].op \in PlacedOps
        /\ t.op = "order_paid" /\ t.lines = tx[s].lines /\ t.stock = st /\ t.taken = tk
        /\ tx' = [tx EXCEPT ![s] = t] /\ UNCHANGED <<stock, sold, orders>>
    BY <1>5, <2>1 DEF FulfilLine, Continue, OrderOps, PlacedOps
  <2>4. /\ \A v \in Variants \ {l.variant} : st[v] = tx[s].stock[v] /\ tk[v] = tx[s].taken[v]
        /\ st[l.variant] = tx[s].stock[l.variant] - l.quantity
        /\ tk[l.variant] = tx[s].taken[l.variant] + l.quantity
    BY <2>1, <2>2 DEF Decremented
  <2>5. \A v \in Variants : /\ tx[s].stock[v] \in Int /\ tx[s].taken[v] \in Nat
                            /\ tx[s].stock[v] + tx[s].taken[v] = stock[v]
                            /\ v \notin VariantsOf(tx[s].lines) => tx[s].taken[v] = 0
    BY <1>0, <2>1, <2>3 DEF SerialTx
  <2>. HIDE DEF t, st, tk
  <2>6. \A v \in Variants : /\ st[v] + tk[v] = stock[v]
                            /\ v \notin VariantsOf(tx[s].lines) => tk[v] = 0
    BY <2>2, <2>4, <2>5
  <2>7. SerialTx(t)
    BY <1>0, <2>3, <2>6 DEF SerialTx
  <2>. QED  BY <2>3, <2>7, SerialKept
<1>. QED
  BY <1>1, <1>2, <1>3, <1>4, <1>5, OrderCommitPaidSerial, OrderCommitDeclinedSerial,
     OrderStep(s) DEF OrderStep

\* Every step leaves SerialInv in place when orders do not overlap.
LEMMA SerialStep ==
  ASSUME OrdersApart, TypeOK, CartInv, StockInv, OrdersInv, SerialInv, [Next]_vars
  PROVE  SerialInv'
<1>1. ASSUME NEW s \in Sessions, Rollback(s)
      PROVE  SerialInv'
  <2>1. tx' = [tx EXCEPT ![s] = Idle] /\ UNCHANGED <<stock, sold, orders>>
    BY <1>1 DEF Rollback, Continue, dbVars
  <2>. QED  BY <2>1, IdleOp, NotOrderSerial, SerialKept DEF OrderOps, PlacedOps
<1>2. ASSUME UNCHANGED <<stock, sold, orders, tx>>
      PROVE  SerialInv'
  BY <1>2 DEF SerialInv, StockConservation, ItemOrderedOnce, SerialTx
<1>3. ASSUME NEW i \in ItemIds, DeleteItem(i)
      PROVE  SerialInv'
  BY <1>2, <1>3 DEF DeleteItem
<1>4. CASE UNCHANGED vars
  BY <1>2, <1>4 DEF vars
<1>. QED
  BY <1>1, <1>3, <1>4, CartStepSerial, OrderStepSerial, [Next]_vars DEF Next

LEMMA SerialInit == Init => SerialInv
<1>. SUFFICES ASSUME Init PROVE SerialInv
  OBVIOUS
<1>1. StockConservation
  BY StockAssumption DEF Init, StockConservation
<1>2. ItemOrderedOnce
  BY DEF Init, ItemOrderedOnce
<1>3. \A s \in Sessions : SerialTx(tx[s])
  BY IdleOp, NotOrderSerial DEF Init, OrderOps, PlacedOps
<1>. QED  BY <1>1, <1>2, <1>3 DEF SerialInv

\* While orders do not overlap the table's stock is exact behind every order,
\* and an order in progress is the only one its items are in.
THEOREM SerialInvariant == Spec /\ []OrdersApart => []SerialInv
<1>1. Init => TypeOK /\ CartInv /\ StockInv /\ OrdersInv /\ SerialInv
  BY TypeInit, CartInit, StockInit, OrdersInit, SerialInit
<1>2. TypeOK /\ CartInv /\ StockInv /\ OrdersInv /\ SerialInv /\ OrdersApart /\ [Next]_vars
        => (TypeOK /\ CartInv /\ StockInv /\ OrdersInv /\ SerialInv)'
  BY TypeStep, CartStepAll, StockStep, OrdersStep, SerialStep
<1>. QED  BY <1>1, <1>2, PTL DEF Spec

\* _fulfil_order: while orders do not overlap the units in stock and the units
\* sold always add up to the initial stock: none is lost and none sold twice.
THEOREM SerialConservation == Spec /\ []OrdersApart => []StockConservation
<1>1. SerialInv => StockConservation
  BY DEF SerialInv
<1>. QED  BY <1>1, SerialInvariant, PTL

\* create_order: while orders do not overlap a cart item is in one paid order
\* at most.
THEOREM SerialOrderedOnce == Spec /\ []OrdersApart => []ItemOrderedOnce
<1>1. SerialInv => ItemOrderedOnce
  BY DEF SerialInv
<1>. QED  BY <1>1, SerialInvariant, PTL
-----------------------------------------------------------------------------
(***************************************************************************)
(* What was sold.                                                          *)
(*                                                                         *)
(* An order counts a line when it takes it from the stock it holds in      *)
(* memory, and only one of its lines names a variant: so a commit adds to  *)
(* sold[v] the units of v on its lines, which no other order has.          *)
(***************************************************************************)

\* A line has as many units as its quantity says.
LEMMA LineUnits ==
  ASSUME NEW o, NEW l, l.quantity \in Nat
  PROVE  IsFiniteSet(UnitsOfLine(o, l)) /\ Cardinality(UnitsOfLine(o, l)) = l.quantity
<1>. PICK q \in Nat : q = l.quantity
  OBVIOUS
<1> DEFINE units == {<<o, l, n>> : n \in 1 .. q}
           number == [n \in 1 .. q |-> <<o, l, n>>]
<1>1. number \in Bijection(1 .. q, units)
  BY DEF Bijection, Injection, Surjection, IsInjective
<1>2. ExistsBijection(1 .. q, units)
  BY <1>1 DEF ExistsBijection
<1>. HIDE DEF units, number
<1>3. IsFiniteSet(1 .. q)
  BY FS_Interval
<1>4. IsFiniteSet(units)
  BY <1>2, <1>3, FS_Bijection
<1>5. Cardinality(units) = q
  BY <1>2, FS_CountingElements
<1>6. UnitsOfLine(o, l) = units
  BY DEF UnitsOfLine, units
<1>. QED  BY <1>4, <1>5, <1>6

\* A step that adds no unit and lets tx[s] become t.
LEMMA SoldKept ==
  ASSUME TypeOK, SoldInv, UNCHANGED sold, \A v \in Variants : UnitsPaid(v)' = UnitsPaid(v),
         NEW s \in Sessions, NEW t, tx' = [tx EXCEPT ![s] = t],
         SoldTx(t)
  PROVE  SoldInv'
<1>1. ASSUME NEW r \in Sessions
      PROVE  SoldTx(tx[r])'
  <2>1. tx'[r] = IF r = s THEN t ELSE tx[r]
    BY DEF TypeOK
  <2>2. SoldTx(tx'[r])
    BY <2>1 DEF SoldInv
  <2>. QED  BY <2>2 DEF SoldTx
<1>. QED  BY <1>1 DEF SoldInv, SoldMatchesOrders

LEMMA NotOrderSold ==
  ASSUME NEW t, t.op \notin OrderOps
  PROVE  SoldTx(t)
  BY DEF SoldTx, OrderOps

\* Unchanged orders have the units they had.
LEMMA SameUnits ==
  ASSUME UNCHANGED orders, NEW v
  PROVE  UnitsPaid(v)' = UnitsPaid(v)
  BY DEF UnitsPaid, UnitsOrdered, UnitsOfLine, PaidOrders

LEMMA CartStepSold ==
  ASSUME TypeOK, SoldInv, NEW s \in Sessions, CartStep(s)
  PROVE  SoldInv'
<1>1. UNCHANGED <<sold, orders>>
  BY CartStep(s) DEF CartStep, AddReadVariant, AddReadExisting, AddReadAbsent, AddUpdate,
     AddInsert, UpdateReadItem, UpdateReadVariant, UpdateWrite, Continue
<1>2. PICK t : tx' = [tx EXCEPT ![s] = t] /\ t.op \notin OrderOps
  BY CartStepOp
<1>3. SoldTx(t)
  BY <1>2, NotOrderSold
<1>. QED  BY <1>1, <1>2, <1>3, SameUnits, SoldKept

\* A declined order has no units that count.
LEMMA OrderCommitDeclinedSold ==
  ASSUME TypeOK, OrdersInv, SoldInv, NEW s \in Sessions, OrderCommitDeclined(s)
  PROVE  SoldInv'
<1> DEFINE row == [user |-> tx[s].user, status |-> "failed", lines |-> tx[s].lines]
<1>1. /\ orders' = [orders EXCEPT ![tx[s].order] = row]
      /\ row.status = "failed"
      /\ tx' = [tx EXCEPT ![s] = Idle]
      /\ UNCHANGED sold
  BY DEF OrderCommitDeclined, Commit
<1>2. orders[tx[s].order] = NoRow
  BY DEF OrdersInv, OrderTxRecorded, OrderCommitDeclined, PlacedOps
<1>. HIDE DEF row
<1>3. \A o \in OrderIds :
         orders'[o] = orders[o] \/ (orders[o] = NoRow /\ orders'[o].status = "failed")
  BY <1>1, <1>2 DEF TypeOK
<1>4. /\ PaidOrders' = PaidOrders
      /\ \A o \in PaidOrders : orders'[o] = orders[o]
  BY <1>3 DEF PaidOrders
<1>5. \A v \in Variants : UnitsPaid(v)' = UnitsPaid(v)
  <2>1. \A v \in Variants, o \in PaidOrders : UnitsOrdered(o, v)' = UnitsOrdered(o, v)
    BY <1>4 DEF UnitsOrdered
  <2>. QED  BY <1>4, <2>1 DEF UnitsPaid
<1>6. SoldTx(Idle)
  BY IdleOp, NotOrderSold DEF OrderOps, PlacedOps
<1>. QED  BY <1>1, <1>5, <1>6, SoldKept

\* A paid order adds its units, which are nobody else's, and counts them.
LEMMA OrderCommitPaidSold ==
  ASSUME TypeOK, StockInv, OrdersInv, SoldInv, NEW s \in Sessions, OrderCommitPaid(s)
  PROVE  SoldInv'
<1>. PICK t, row : t = tx[s] /\ row = [user |-> t.user, status |-> "paid", lines |-> t.lines]
  OBVIOUS
<1>1. /\ t.op = "order_paid" /\ t.todo = {} /\ InOrder(t) /\ t.op \in PlacedOps
      /\ orders' = [orders EXCEPT ![t.order] = row]
      /\ sold' = [v \in Variants |-> sold[v] + t.taken[v]]
      /\ tx' = [tx EXCEPT ![s] = Idle]
  BY DEF OrderCommitPaid, Commit, InOrder, PlacedOps
<1>2. /\ t.order \in OrderIds /\ t.taken \in [Variants -> Nat] /\ t.lines \in SUBSET Line
      /\ orders[t.order] = NoRow
      /\ \A l, k \in t.lines : l.variant = k.variant => l = k
      /\ SoldTx(t)
  <2>1. t \in TxState
    BY DEF TypeOK
  <2>2. OrderTxCovered(t) /\ OrderTxRecorded(t) /\ SoldTx(t)
    BY DEF StockInv, OrdersInv, SoldInv
  <2>. QED  BY <1>1, <2>1, <2>2, TxShape DEF OrderTxCovered, OrderTxRecorded, OrderOps
<1>3. /\ row.status = "paid" /\ row.lines = t.lines /\ row # NoRow
  <2>1. row \in OrderRow
    <3>1. t.user \in Users
      BY <1>1, TxShape DEF TypeOK
    <3>. QED  BY <1>2, <3>1 DEF OrderRow
  <2>. QED  BY <2>1, NoRowAssumption
<1>4. /\ \A o \in OrderIds : orders'[o] = IF o = t.order THEN row ELSE orders[o]
      /\ t.order \notin PaidOrders
  BY <1>1, <1>2 DEF TypeOK, PaidOrders
<1>5. PaidOrders' = PaidOrders \cup {t.order}
  BY <1>2, <1>3, <1>4 DEF PaidOrders
<1>6. ASSUME NEW v \in Variants
      PROVE  IsFiniteSet(UnitsPaid(v)') /\ sold'[v] = Cardinality(UnitsPaid(v)')
  <2> DEFINE new == UNION {UnitsOfLine(t.order, l) : l \in {k \in t.lines : k.variant = v}}
  <2>1. UnitsOrdered(t.order, v)' = new
    BY <1>2, <1>3, <1>4 DEF UnitsOrdered
  <2>2. \A o \in PaidOrders : UnitsOrdered(o, v)' = UnitsOrdered(o, v)
    <3>1. \A o \in PaidOrders : orders'[o] = orders[o]
      BY <1>4 DEF PaidOrders
    <3>. QED  BY <3>1 DEF UnitsOrdered
  <2>3. UnitsPaid(v)' = UnitsPaid(v) \cup new
    BY <1>5, <2>1, <2>2 DEF UnitsPaid
  <2>4. UnitsPaid(v) \cap new = {}
    BY <1>4 DEF UnitsPaid, UnitsOrdered, UnitsOfLine
  <2>5. IsFiniteSet(new) /\ Cardinality(new) = t.taken[v]
    <3>1. CASE \E l \in t.lines : l.variant = v
      <4>1. PICK l \in t.lines : l.variant = v
        BY <3>1
      <4>2. new = UnitsOfLine(t.order, l)
        BY <1>2, <4>1
      <4>3. l.quantity \in Nat /\ t.taken[v] = l.quantity
        BY <1>1, <1>2, <4>1 DEF SoldTx, Line
      <4>. HIDE DEF new
      <4>. QED  BY <4>2, <4>3, LineUnits
    <3>2. CASE ~\E l \in t.lines : l.variant = v
      <4>1. new = {}
        BY <3>2
      <4>2. t.taken[v] = 0
        BY <1>1, <1>2, <3>2 DEF SoldTx
      <4>. QED  BY <4>1, <4>2, FS_EmptySet
    <3>. QED  BY <3>1, <3>2
  <2>. HIDE DEF new
  <2>6. IsFiniteSet(UnitsPaid(v)) /\ sold[v] = Cardinality(UnitsPaid(v)) /\ sold[v] \in Nat
    BY DEF SoldInv, SoldMatchesOrders, TypeOK
  <2>7. /\ IsFiniteSet(UnitsPaid(v) \cup new)
        /\ Cardinality(UnitsPaid(v) \cup new)
             = Cardinality(UnitsPaid(v)) + Cardinality(new) - Cardinality(UnitsPaid(v) \cap new)
    BY <2>5, <2>6, FS_Union
  <2>8. Cardinality(UnitsPaid(v) \cap new) = 0
    BY <2>4, FS_EmptySet
  <2>9. t.taken[v] \in Nat /\ sold'[v] = sold[v] + t.taken[v]
    BY <1>1, <1>2
  <2>. QED  BY <2>3, <2>5, <2>6, <2>7, <2>8, <2>9
<1>7. ASSUME NEW r \in Sessions
      PROVE  SoldTx(tx[r])'
  <2>1. tx'[r] = IF r = s THEN Idle ELSE tx[r]
    BY <1>1 DEF TypeOK
  <2>2. SoldTx(Idle)
    BY IdleOp, NotOrderSold DEF OrderOps, PlacedOps
  <2>3. SoldTx(tx'[r])
    BY <2>1, <2>2 DEF SoldInv
  <2>. QED  BY <2>3 DEF SoldTx
<1>. QED  BY <1>6, <1>7 DEF SoldInv, SoldMatchesOrders

LEMMA OrderStepSold ==
  ASSUME TypeOK, StockInv, OrdersInv, SoldInv, NEW s \in Sessions, OrderStep(s)
  PROVE  SoldInv'
<1>0. tx[s] \in TxState /\ SoldTx(tx[s]) /\ OrderTxCovered(tx[s])
  BY DEF TypeOK, SoldInv, StockInv
<1> DEFINE OrderRec ==
      [op : {"order_placed", "order_paid", "order_declined"}, user : Users,
       lines : SUBSET Line, order : OrderIds, stock : [Variants -> Int],
       todo : SUBSET Line, taken : [Variants -> Nat]]
<1>a. ASSUME InOrder(tx[s])
      PROVE  tx[s] \in OrderRec
  BY <1>0, <1>a, TxShape
<1>b. ASSUME NEW t, Continue(s, t), SoldTx(t)
      PROVE  SoldInv'
  <2>1. tx' = [tx EXCEPT ![s] = t] /\ UNCHANGED sold /\ UNCHANGED orders
    BY <1>b DEF Continue
  <2>. QED  BY <1>b, <2>1, SameUnits, SoldKept
<1>1. ASSUME NEW u \in Users, NEW ids \in SUBSET ItemIds, OrderReadItems(s, u, ids)
      PROVE  SoldInv'
  <2> DEFINE t == [op |-> "order_items", user |-> u, lines |-> {LineOf(i) : i \in ids}]
  <2>1. SoldTx(t)
    BY DEF SoldTx, PlacedOps
  <2>. QED  BY <1>1, <1>b, <2>1 DEF OrderReadItems
<1>2. ASSUME NEW o \in OrderIds, OrderPlace(s, o)
      PROVE  SoldInv'
  <2> DEFINE t == [op |-> "order_placed", user |-> tx[s].user, lines |-> tx[s].lines,
                   order |-> o, stock |-> stock, todo |-> tx[s].lines,
                   taken |-> [v \in Variants |-> 0]]
  <2>1. SoldTx(t)
    BY DEF SoldTx
  <2>2. Continue(s, t)
    BY <1>2 DEF OrderPlace
  <2>. HIDE DEF t
  <2>. QED  BY <1>b, <2>1, <2>2
<1>3. ASSUME NEW op \in {"order_paid", "order_declined"}, tx[s].op = "order_placed",
             Continue(s, [tx[s] EXCEPT !.op = op])
      PROVE  SoldInv'
  <2> DEFINE t == [tx[s] EXCEPT !.op = op]
  <2>1. tx[s] \in OrderRec
    BY <1>3, <1>a DEF InOrder
  <2>2. t.lines = tx[s].lines /\ t.todo = tx[s].todo /\ t.taken = tx[s].taken
    BY <2>1
  <2>. HIDE DEF t
  <2>3. SoldTx(t)
    BY <1>0, <1>3, <2>2 DEF SoldTx, PlacedOps
  <2>. QED  BY <1>3, <1>b, <2>3 DEF t
<1>4. ASSUME NEW l \in tx[s].todo, FulfilLine(s, l)
      PROVE  SoldInv'
  <2> DEFINE tk == [tx[s].taken EXCEPT ![l.variant] = @ + l.quantity]
             t  == [tx[s] EXCEPT !.stock = Decremented(@, l), !.taken = tk, !.todo = @ \ {l}]
  <2>1. tx[s] \in OrderRec /\ tx[s].op \in PlacedOps
    BY <1>4, <1>a DEF FulfilLine, InOrder, PlacedOps
  <2>2. /\ l \in Line /\ l.variant \in Variants /\ l.quantity \in Nat
        /\ tx[s].todo \subseteq tx[s].lines
        /\ \A k, j \in tx[s].lines : k.variant = j.variant => k = j
    BY <1>0, <2>1 DEF Line, OrderTxCovered, OrderOps
  <2>3. t.lines = tx[s].lines /\ t.todo = tx[s].todo \ {l} /\ t.taken = tk
    BY <2>1
  <2>4. /\ \A v \in Variants \ {l.variant} : tk[v] = tx[s].taken[v]
        /\ tk[l.variant] = tx[s].taken[l.variant] + l.quantity
    BY <2>1, <2>2
  <2>5. tx[s].taken[l.variant] = 0
    <3>1. \A k \in tx[s].lines \ tx[s].todo : k.variant # l.variant
      BY <2>2
    <3>. QED  BY <1>0, <2>1, <2>2, <3>1 DEF SoldTx
  <2>6. Continue(s, t)
    BY <1>4, <2>1 DEF FulfilLine
  <2>. HIDE DEF t, tk
  <2>7. t.lines \ t.todo = (tx[s].lines \ tx[s].todo) \cup {l}
    BY <2>2, <2>3
  <2>8. SoldTx(t)
    <3> SUFFICES ASSUME NEW v \in Variants
                 PROVE  /\ \A k \in t.lines \ t.todo : k.variant = v => t.taken[v] = k.quantity
                        /\ (\A k \in t.lines \ t.todo : k.variant # v) => t.taken[v] = 0
      BY DEF SoldTx
    <3>1. CASE v = l.variant
      <4>1. t.taken[v] = l.quantity
        BY <2>2, <2>3, <2>4, <2>5, <3>1
      <4>2. \A k \in t.lines \ t.todo : k.variant = v => k = l
        BY <2>2, <2>7, <3>1
      <4>. QED  BY <2>7, <3>1, <4>1, <4>2
    <3>2. CASE v # l.variant
      <4>1. t.taken[v] = tx[s].taken[v]
        BY <2>3, <2>4, <3>2
      <4>2. /\ \A k \in tx[s].lines \ tx[s].todo : k.variant = v => tx[s].taken[v] = k.quantity
            /\ (\A k \in tx[s].lines \ tx[s].todo : k.variant # v) => tx[s].taken[v] = 0
        BY <1>0, <2>1 DEF SoldTx
      <4>. QED  BY <2>7, <3>2, <4>1, <4>2
    <3>. QED  BY <3>1, <3>2
  <2>. QED  BY <1>b, <2>6, <2>8
<1>. QED
  BY <1>1, <1>2, <1>3, <1>4, OrderCommitPaidSold, OrderCommitDeclinedSold, OrderStep(s)
  DEF OrderStep, PayApproved, PayDeclined

LEMMA SoldStep ==
  ASSUME TypeOK, StockInv, OrdersInv, SoldInv, [Next]_vars
  PROVE  SoldInv'
<1>1. ASSUME NEW s \in Sessions, Rollback(s)
      PROVE  SoldInv'
  <2>1. tx' = [tx EXCEPT ![s] = Idle] /\ UNCHANGED sold /\ UNCHANGED orders
    BY <1>1 DEF Rollback, Continue, dbVars
  <2>2. SoldTx(Idle)
    BY IdleOp, NotOrderSold DEF OrderOps, PlacedOps
  <2>. QED  BY <2>1, <2>2, SameUnits, SoldKept
<1>2. ASSUME UNCHANGED <<sold, orders, tx>>
      PROVE  SoldInv'
  BY <1>2, SameUnits DEF SoldInv, SoldMatchesOrders, SoldTx
<1>3. ASSUME NEW i \in ItemIds, DeleteItem(i)
      PROVE  SoldInv'
  BY <1>2, <1>3 DEF DeleteItem
<1>4. CASE UNCHANGED vars
  BY <1>2, <1>4 DEF vars
<1>. QED
  BY <1>1, <1>3, <1>4, CartStepSold, OrderStepSold, [Next]_vars DEF Next

LEMMA SoldInit == Init => SoldInv
<1>. SUFFICES ASSUME Init PROVE SoldInv
  OBVIOUS
<1>1. PaidOrders = {}
  BY DEF Init, PaidOrders
<1>2. \A v \in Variants : UnitsPaid(v) = {} /\ sold[v] = 0
  BY <1>1 DEF Init, UnitsPaid
<1>3. \A s \in Sessions : SoldTx(tx[s])
  BY IdleOp, NotOrderSold DEF Init, OrderOps, PlacedOps
<1>. QED  BY <1>2, <1>3, FS_EmptySet DEF SoldInv, SoldMatchesOrders

\* What a request has taken in memory is what its finished lines say, and what
\* all have committed is what their orders say.
THEOREM SoldInvariant == Spec => []SoldInv
<1>1. Init => TypeOK /\ CartInv /\ StockInv /\ OrdersInv /\ SoldInv
  BY TypeInit, CartInit, StockInit, OrdersInit, SoldInit
<1>2. TypeOK /\ CartInv /\ StockInv /\ OrdersInv /\ SoldInv /\ [Next]_vars
        => (TypeOK /\ CartInv /\ StockInv /\ OrdersInv /\ SoldInv)'
  BY TypeStep, CartStepAll, StockStep, OrdersStep, SoldStep
<1>. QED  BY <1>1, <1>2, PTL DEF Spec

\* create_order and _fulfil_order: however orders overlap, the units sold of a
\* variant are exactly those on the lines of PAID orders.
THEOREM SoldIsOrdered == Spec => []SoldMatchesOrders
<1>1. SoldInv => SoldMatchesOrders
  BY DEF SoldInv
<1>. QED  BY <1>1, SoldInvariant, PTL

-----------------------------------------------------------------------------
(***************************************************************************)
(* Money taken and not recorded.  The provider is called before the commit *)
(* that records the payment, so a request that ends in between leaves a    *)
(* charge without an order.  Nothing else does.                            *)
(***************************************************************************)
PayingFor(s, o) == tx[s].op = "order_paid" /\ tx[s].order = o

RecordedOrPaying(o) ==
    \/ o \in PaidOrders
    \/ \E s \in Sessions : PayingFor(s, o)

\* What was taken is on a PAID order, or a request is about to put it there.
ChargesRecorded == \A o \in charges : RecordedOrPaying(o)

\* A request that has been charged for ends without its commit.
PaidRolledBack == \E s \in Sessions : tx[s].op = "order_paid" /\ Rollback(s)

\* A step that leaves the orders and the charges alone and keeps the order a
\* request is paying for.
LEMMA ChargesKept ==
  ASSUME TypeOK, ChargesRecorded, NEW s \in Sessions, NEW t,
         tx' = [tx EXCEPT ![s] = t], UNCHANGED <<orders, charges>>,
         tx[s].op = "order_paid" => t.op = "order_paid" /\ t.order = tx[s].order
  PROVE  ChargesRecorded'
<1>. SUFFICES ASSUME NEW o \in charges
              PROVE  RecordedOrPaying(o)'
  BY DEF ChargesRecorded
<1>1. RecordedOrPaying(o)
  BY DEF ChargesRecorded
<1>2. CASE o \in PaidOrders
  BY <1>2 DEF RecordedOrPaying, PaidOrders
<1>3. ASSUME NEW r \in Sessions, PayingFor(r, o)
      PROVE  PayingFor(r, o)'
  <2>1. tx'[r] = IF r = s THEN t ELSE tx[r]
    BY DEF TypeOK
  <2>. QED  BY <1>3, <2>1 DEF PayingFor
<1>. QED  BY <1>1, <1>2, <1>3 DEF RecordedOrPaying

\* A request about the cart is not one that has been charged for.
LEMMA CartStepCharges ==
  ASSUME TypeOK, ChargesRecorded, NEW s \in Sessions, CartStep(s)
  PROVE  ChargesRecorded'
<1>1. PICK t : tx' = [tx EXCEPT ![s] = t] /\ t.op \notin OrderOps
  BY CartStepOp
<1>2. tx[s].op # "order_paid"
  BY IdleOp, CartStep(s)
  DEF CartStep, AddReadVariant, AddReadExisting, AddReadAbsent, AddUpdate, AddInsert,
      UpdateReadItem, UpdateReadVariant, UpdateWrite
<1>3. UNCHANGED <<orders, charges>>
  BY CartStep(s)
  DEF CartStep, AddReadVariant, AddReadExisting, AddReadAbsent, AddUpdate, AddInsert,
      UpdateReadItem, UpdateReadVariant, UpdateWrite, Continue
<1>. QED  BY <1>1, <1>2, <1>3, ChargesKept

LEMMA OrderStepCharges ==
  ASSUME TypeOK, OrdersInv, ChargesRecorded, NEW s \in Sessions, OrderStep(s)
  PROVE  ChargesRecorded'
<1>0. tx[s] \in TxState /\ OrderTxRecorded(tx[s])
  BY DEF TypeOK, OrdersInv
<1> DEFINE OrderRec ==
      [op : {"order_placed", "order_paid", "order_declined"}, user : Users,
       lines : SUBSET Line, order : OrderIds, stock : [Variants -> Int],
       todo : SUBSET Line, taken : [Variants -> Nat]]
<1>a. ASSUME InOrder(tx[s])
      PROVE  tx[s] \in OrderRec
  BY <1>0, <1>a, TxShape
<1>b. ASSUME NEW t, Continue(s, t), UNCHANGED charges,
             tx[s].op = "order_paid" => t.op = "order_paid" /\ t.order = tx[s].order
      PROVE  ChargesRecorded'
  BY <1>b, ChargesKept DEF Continue
\* The rows of other orders stay as they are, and so do the other requests.
<1>c. ASSUME NEW row, tx[s] \in OrderRec, orders[tx[s].order] = NoRow,
             orders' = [orders EXCEPT ![tx[s].order] = row],
             tx' = [tx EXCEPT ![s] = Idle],
             NEW o \in charges, o # tx[s].order
      PROVE  RecordedOrPaying(o)'
  <2>1. o \in OrderIds /\ orders'[o] = orders[o]
    BY <1>c DEF TypeOK
  <2>2. o \in PaidOrders => o \in PaidOrders'
    BY <2>1 DEF PaidOrders
  <2>3. ASSUME NEW r \in Sessions, PayingFor(r, o)
        PROVE  PayingFor(r, o)'
    <3>1. r # s
      BY <1>c, <2>3 DEF PayingFor
    <3>. QED  BY <1>c, <2>3, <3>1 DEF PayingFor, TypeOK
  <2>4. RecordedOrPaying(o)
    BY DEF ChargesRecorded
  <2>. QED  BY <2>2, <2>3, <2>4 DEF RecordedOrPaying
<1>1. ASSUME NEW u \in Users, NEW ids \in SUBSET ItemIds, OrderReadItems(s, u, ids)
      PROVE  ChargesRecorded'
  <2>1. tx[s].op # "order_paid"
    BY <1>1, IdleOp DEF OrderReadItems
  <2>. QED  BY <1>1, <1>b, <2>1 DEF OrderReadItems
<1>2. ASSUME NEW o \in OrderIds, OrderPlace(s, o)
      PROVE  ChargesRecorded'
  BY <1>2, <1>b DEF OrderPlace
<1>3. CASE PayDeclined(s)
  BY <1>3, <1>b DEF PayDeclined
<1>4. CASE PayApproved(s)
  <2> DEFINE t == [tx[s] EXCEPT !.op = "order_paid"]
  <2>1. tx[s] \in OrderRec /\ tx[s].op = "order_placed"
    BY <1>4, <1>a DEF PayApproved, InOrder
  <2>2. t.op = "order_paid" /\ t.order = tx[s].order
    BY <2>1
  <2>3. /\ charges' = charges \cup {tx[s].order}
        /\ tx' = [tx EXCEPT ![s] = t]
        /\ UNCHANGED orders
    BY <1>4 DEF PayApproved, Continue
  <2>. HIDE DEF t
  <2>4. ASSUME NEW r \in Sessions \ {s}
        PROVE  tx'[r] = tx[r]
    BY <2>3 DEF TypeOK
  <2>6. ASSUME NEW o \in charges
        PROVE  RecordedOrPaying(o)'
    <3>1. RecordedOrPaying(o)
      BY DEF ChargesRecorded
    <3>2. ASSUME NEW r \in Sessions, PayingFor(r, o)
          PROVE  PayingFor(r, o)'
      BY <2>1, <2>4, <3>2 DEF PayingFor
    <3>3. o \in PaidOrders => o \in PaidOrders'
      BY <2>3 DEF PaidOrders
    <3>. QED  BY <3>1, <3>2, <3>3 DEF RecordedOrPaying
  <2>7. ASSUME NEW o, o = tx[s].order
        PROVE  RecordedOrPaying(o)'
    BY <2>2, <2>3, <2>7 DEF RecordedOrPaying, PayingFor, TypeOK
  <2>. QED  BY <2>3, <2>6, <2>7 DEF ChargesRecorded
<1>5. ASSUME NEW l \in tx[s].todo, FulfilLine(s, l)
      PROVE  ChargesRecorded'
  <2> DEFINE t == [tx[s] EXCEPT !.stock = Decremented(@, l),
                                !.taken[l.variant] = @ + l.quantity,
                                !.todo = @ \ {l}]
  <2>1. tx[s] \in OrderRec /\ tx[s].op = "order_paid"
    BY <1>5, <1>a DEF FulfilLine, InOrder
  <2>2. t.op = tx[s].op /\ t.order = tx[s].order
    BY <2>1
  <2>3. Continue(s, t) /\ UNCHANGED charges
    BY <1>5 DEF FulfilLine
  <2>. HIDE DEF t
  <2>. QED  BY <1>b, <2>1, <2>2, <2>3
<1>6. CASE OrderCommitPaid(s)
  <2> DEFINE row == [user |-> tx[s].user, status |-> "paid", lines |-> tx[s].lines]
  <2>1. tx[s] \in OrderRec /\ orders[tx[s].order] = NoRow
    BY <1>0, <1>6, <1>a DEF OrderCommitPaid, InOrder, OrderTxRecorded, PlacedOps
  <2>2. /\ orders' = [orders EXCEPT ![tx[s].order] = row]
        /\ tx' = [tx EXCEPT ![s] = Idle]
        /\ UNCHANGED charges
    BY <1>6 DEF OrderCommitPaid, Commit
  <2>3. row \in OrderRow
    BY <2>1 DEF OrderRow
  <2>4. row # NoRow /\ row.status = "paid"
    BY <2>3, NoRowAssumption
  <2>. HIDE DEF row
  <2>5. tx[s].order \in PaidOrders'
    BY <2>1, <2>2, <2>4 DEF PaidOrders, TypeOK
  <2>6. ASSUME NEW o \in charges
        PROVE  RecordedOrPaying(o)'
    BY <1>c, <2>1, <2>2, <2>5 DEF RecordedOrPaying
  <2>. QED  BY <2>2, <2>6 DEF ChargesRecorded
<1>7. CASE OrderCommitDeclined(s)
  <2> DEFINE row == [user |-> tx[s].user, status |-> "failed", lines |-> tx[s].lines]
  <2>1. /\ tx[s] \in OrderRec
        /\ orders[tx[s].order] = NoRow
        /\ tx[s].order \notin charges
    BY <1>0, <1>7, <1>a DEF OrderCommitDeclined, InOrder, OrderTxRecorded, PlacedOps
  <2>2. /\ orders' = [orders EXCEPT ![tx[s].order] = row]
        /\ tx' = [tx EXCEPT ![s] = Idle]
        /\ UNCHANGED charges
    BY <1>7 DEF OrderCommitDeclined, Commit
  <2>. HIDE DEF row
  <2>3. ASSUME NEW o \in charges
        PROVE  RecordedOrPaying(o)'
    BY <1>c, <2>1, <2>2
  <2>. QED  BY <2>2, <2>3 DEF ChargesRecorded
<1>. QED
  BY <1>1, <1>2, <1>3, <1>4, <1>5, <1>6, <1>7, OrderStep(s) DEF OrderStep

LEMMA ChargesStep ==
  ASSUME TypeOK, OrdersInv, ChargesRecorded, [Next]_vars, ~PaidRolledBack
  PROVE  ChargesRecorded'
<1>1. ASSUME NEW s \in Sessions, Rollback(s)
      PROVE  ChargesRecorded'
  <2>1. tx[s].op # "order_paid"
    BY <1>1 DEF PaidRolledBack
  <2>. QED  BY <1>1, <2>1, ChargesKept DEF Rollback, Continue
<1>2. ASSUME UNCHANGED <<orders, charges, tx>>
      PROVE  ChargesRecorded'
  BY <1>2 DEF ChargesRecorded, RecordedOrPaying, PaidOrders, PayingFor
<1>3. ASSUME NEW i \in ItemIds, DeleteItem(i)
      PROVE  ChargesRecorded'
  BY <1>2, <1>3 DEF DeleteItem
<1>4. CASE UNCHANGED vars
  BY <1>2, <1>4 DEF vars
<1>. QED
  BY <1>1, <1>3, <1>4, CartStepCharges, OrderStepCharges, [Next]_vars DEF Next

\* create_order calls PaymentProvider.pay before the commit: while no request
\* that has been charged for is rolled back or killed, all the money taken is
\* for a PAID order, or for one whose request is about to commit.
THEOREM ChargesAreRecorded ==
  Spec /\ [][~PaidRolledBack]_vars => []ChargesRecorded
<1>1. Init => TypeOK /\ CartInv /\ OrdersInv /\ ChargesRecorded
  <2>1. Init => ChargesRecorded
    BY DEF Init, ChargesRecorded
  <2>. QED  BY <2>1, TypeInit, CartInit, OrdersInit
<1>2. TypeOK /\ CartInv /\ OrdersInv /\ ChargesRecorded /\ [Next]_vars /\ [~PaidRolledBack]_vars
        => (TypeOK /\ CartInv /\ OrdersInv /\ ChargesRecorded)'
  <2>. SUFFICES ASSUME TypeOK, CartInv, OrdersInv, ChargesRecorded,
                       [Next]_vars, [~PaidRolledBack]_vars
                PROVE  (TypeOK /\ CartInv /\ OrdersInv /\ ChargesRecorded)'
    OBVIOUS
  <2>1. CASE UNCHANGED vars
    BY <2>1, TypeStep, CartStepAll, OrdersStep
    DEF vars, ChargesRecorded, RecordedOrPaying, PaidOrders, PayingFor
  <2>2. CASE ~PaidRolledBack
    BY <2>2, TypeStep, CartStepAll, OrdersStep, ChargesStep
  <2>. QED  BY <2>1, <2>2
<1>. QED  BY <1>1, <1>2, PTL DEF Spec
=============================================================================

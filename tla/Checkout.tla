------------------------------ MODULE Checkout ------------------------------
(***************************************************************************)
(* The cart, the stock of the catalogue and POST /orders: app/modules/cart *)
(* and app/modules/orders.                                                 *)
(*                                                                         *)
(* A request runs in one database transaction (app/api/dependencies/       *)
(* database.py): it commits when the handler returns and rolls back when   *)
(* it raises.  PostgreSQL runs it at READ COMMITTED, so each SELECT of a   *)
(* request is a step of its own that sees what others have committed by    *)
(* then, and the ORM keeps what it read for the rest of the request.       *)
(* What a request writes stays in tx[s] until the step that commits it.    *)
(* No SELECT of this code locks a row.                                     *)
(***************************************************************************)
EXTENDS Integers, FiniteSets

CONSTANTS
    Users,        \* members
    Variants,     \* rows of productVariant; none is added or deleted here
    Active,       \* the variants on sale
    InitialStock, \* stock of each variant when the shop opens
    ItemIds,      \* pool of cartItem ids (bounds the rows ever inserted)
    OrderIds,     \* pool of order ids (bounds the orders ever placed)
    Sessions,     \* requests in progress at a time
    MaxQuantity,  \* largest quantity a client asks for
    NoRow         \* a row that is not in its table

ASSUME StockAssumption ==
    /\ Active \subseteq Variants
    /\ InitialStock \in [Variants -> Nat]
    /\ MaxQuantity \in Nat

Quantities == 1 .. MaxQuantity

CartRow == [user : Users, variant : Variants, quantity : Nat \ {0}]

Line == [item : ItemIds, variant : Variants, quantity : Nat \ {0}]

OrderRow == [user : Users, status : {"pending", "paid", "failed"}, lines : SUBSET Line]

\* The status of the one payment an order has.
PaymentRow == {"success", "failed"}

ASSUME NoRowAssumption ==
    /\ NoRow \notin CartRow
    /\ NoRow \notin OrderRow
    /\ NoRow \notin PaymentRow

VARIABLES
    carts,      \* the members that have a cart row
    cartItems,  \* cartItem rows by id
    stock,      \* productVariant.stock
    orders,     \* order rows with their orderItem rows, by id
    payments,   \* status of the payment row of an order
    registered, \* registeredProduct rows of purchases: <<order, item>> pairs
    charges,    \* orders the payment provider has taken money for (external)
    tx,         \* what each request in progress has read and not committed
    issuedItems,  \* ids ever given to a cartItem row
    issuedOrders, \* ids ever given to an order, rolled back or not
    sold        \* history: units of each variant that committed PAID orders took

dbVars == <<carts, cartItems, stock, orders, payments, registered>>
idVars == <<issuedItems, issuedOrders>>
vars == <<carts, cartItems, stock, orders, payments, registered, charges, tx,
          issuedItems, issuedOrders, sold>>

Idle == [op |-> "idle"]

-----------------------------------------------------------------------------
(***************************************************************************)
(* The transactions in progress, by the last step they took.               *)
(***************************************************************************)
AddTx ==
    [op : {"add_variant"}, user : Users, variant : Variants,
     quantity : Nat \ {0}, stock : Int]
    \cup [op : {"add_insert"}, user : Users, variant : Variants,
          quantity : Nat \ {0}, newCart : BOOLEAN]
    \cup [op : {"add_update"}, item : ItemIds, quantity : Nat \ {0}]

UpdateTx ==
    [op : {"update_item", "update_write"}, item : ItemIds, row : CartRow,
     variant : Variants, quantity : Nat \ {0}]

OrderTx ==
    [op : {"order_items"}, user : Users, lines : SUBSET Line]
    \cup [op : {"order_placed", "order_paid", "order_declined"}, user : Users,
          lines : SUBSET Line, order : OrderIds, stock : [Variants -> Int],
          todo : SUBSET Line, taken : [Variants -> Nat]]

TxState == {Idle} \cup AddTx \cup UpdateTx \cup OrderTx

TypeOK ==
    /\ carts \subseteq Users
    /\ cartItems \in [ItemIds -> CartRow \cup {NoRow}]
    /\ stock \in [Variants -> Int]
    /\ orders \in [OrderIds -> OrderRow \cup {NoRow}]
    /\ payments \in [OrderIds -> PaymentRow \cup {NoRow}]
    /\ registered \subseteq OrderIds \X ItemIds
    /\ charges \subseteq OrderIds
    /\ tx \in [Sessions -> TxState]
    /\ issuedItems \subseteq ItemIds
    /\ issuedOrders \subseteq OrderIds
    /\ sold \in [Variants -> Nat]

Init ==
    /\ carts = {}
    /\ cartItems = [i \in ItemIds |-> NoRow]
    /\ stock = InitialStock
    /\ orders = [o \in OrderIds |-> NoRow]
    /\ payments = [o \in OrderIds |-> NoRow]
    /\ registered = {}
    /\ charges = {}
    /\ tx = [s \in Sessions |-> Idle]
    /\ issuedItems = {}
    /\ issuedOrders = {}
    /\ sold = [v \in Variants |-> 0]

-----------------------------------------------------------------------------
(***************************************************************************)
(* Steps of a request.  Continue keeps the transaction open and leaves the *)
(* database alone.  Rollback is every way to end without an effect: a 404, *)
(* 409 or 500 that the handler or the database raises, a client gone, or   *)
(* the death of the process.                                               *)
(***************************************************************************)
Continue(s, t) ==
    /\ tx' = [tx EXCEPT ![s] = t]
    /\ UNCHANGED <<dbVars, sold>>

Commit(s) ==
    tx' = [tx EXCEPT ![s] = Idle]

Rollback(s) ==
    /\ tx[s] # Idle
    /\ Continue(s, Idle)
    /\ UNCHANGED <<charges, idVars>>

\* The rows of user u's cart that carry variant v.
ItemsFor(u, v) ==
    {i \in ItemIds : /\ cartItems[i] # NoRow
                     /\ cartItems[i].user = u
                     /\ cartItems[i].variant = v}

-----------------------------------------------------------------------------
(***************************************************************************)
(* POST /cart/items                                                        *)
(***************************************************************************)

\* CartService._require_variant: the stock is read here and compared later.
AddReadVariant(s, u, v, q) ==
    /\ tx[s] = Idle
    /\ v \in Active
    /\ Continue(s, [op |-> "add_variant", user |-> u, variant |-> v,
                    quantity |-> q, stock |-> stock[v]])
    /\ UNCHANGED <<charges, idVars>>

\* The variant is in the cart: raise its quantity.
AddReadExisting(s) ==
    /\ tx[s].op = "add_variant"
    /\ \E i \in ItemsFor(tx[s].user, tx[s].variant) :
          LET desired == tx[s].quantity + cartItems[i].quantity
          IN  /\ tx[s].stock >= desired
              /\ Continue(s, [op |-> "add_update", item |-> i, quantity |-> desired])
    /\ UNCHANGED <<charges, idVars>>

\* The variant is not in the cart, or the member has no cart yet.
AddReadAbsent(s) ==
    /\ tx[s].op = "add_variant"
    /\ ItemsFor(tx[s].user, tx[s].variant) = {}
    /\ tx[s].stock >= tx[s].quantity
    /\ Continue(s, [op |-> "add_insert", user |-> tx[s].user,
                    variant |-> tx[s].variant, quantity |-> tx[s].quantity,
                    newCart |-> tx[s].user \notin carts])
    /\ UNCHANGED <<charges, idVars>>

\* The UPDATE writes the quantity computed from the row as it was read; it
\* raises StaleDataError when the row is gone.
AddUpdate(s) ==
    /\ tx[s].op = "add_update"
    /\ cartItems[tx[s].item] # NoRow
    /\ cartItems' = [cartItems EXCEPT ![tx[s].item].quantity = tx[s].quantity]
    /\ Commit(s)
    /\ UNCHANGED <<carts, stock, orders, payments, registered, charges, idVars, sold>>

\* The unique constraints on cart.userId and on (cartId, variantId) make the
\* later of two INSERTs fail.
Insertable(u, v, newCart) ==
    /\ newCart => u \notin carts
    /\ ItemsFor(u, v) = {}

AddInsert(s, i) ==
    /\ tx[s].op = "add_insert"
    /\ Insertable(tx[s].user, tx[s].variant, tx[s].newCart)
    /\ i \notin issuedItems
    /\ issuedItems' = issuedItems \cup {i}
    /\ carts' = carts \cup {tx[s].user}
    /\ cartItems' = [cartItems EXCEPT ![i] =
                        [user |-> tx[s].user, variant |-> tx[s].variant,
                         quantity |-> tx[s].quantity]]
    /\ Commit(s)
    /\ UNCHANGED <<stock, orders, payments, registered, charges, issuedOrders, sold>>

-----------------------------------------------------------------------------
(***************************************************************************)
(* PATCH and DELETE /cart/items/{cartItemId}                               *)
(***************************************************************************)

\* v and q are the variant and quantity asked for; leaving one out asks for
\* the one of the row as read.
UpdateReadItem(s, i, v, q) ==
    /\ tx[s] = Idle
    /\ cartItems[i] # NoRow
    /\ Continue(s, [op |-> "update_item", item |-> i, row |-> cartItems[i],
                    variant |-> v, quantity |-> q])
    /\ UNCHANGED <<charges, idVars>>

UpdateReadVariant(s) ==
    LET t == tx[s]
    IN  /\ t.op = "update_item"
        /\ t.variant \in Active
        /\ stock[t.variant] >= t.quantity
        /\ Continue(s, [t EXCEPT !.op = "update_write"])
        /\ UNCHANGED <<charges, idVars>>

\* The ORM writes the columns that differ from what it read, and none else.
UpdatedRow(row, t) ==
    [row EXCEPT !.variant = IF t.variant # t.row.variant THEN t.variant ELSE @,
                !.quantity = IF t.quantity # t.row.quantity THEN t.quantity ELSE @]

\* A row that carries the new variant already ends the request, in the SELECT
\* that looks for it or in the unique constraint: either way nothing is written.
UpdateWrite(s) ==
    LET t == tx[s]
    IN  /\ t.op = "update_write"
        /\ t.variant # t.row.variant => ItemsFor(t.row.user, t.variant) \subseteq {t.item}
        /\ IF t.variant = t.row.variant /\ t.quantity = t.row.quantity
           THEN UNCHANGED cartItems
           ELSE /\ cartItems[t.item] # NoRow
                /\ cartItems' = [cartItems EXCEPT ![t.item] = UpdatedRow(@, t)]
        /\ Commit(s)
        /\ UNCHANGED <<carts, stock, orders, payments, registered, charges, idVars, sold>>

\* The handler reads the row and deletes it; a row that went in between is
\* no error, so the step that deletes is the whole handler.
DeleteItem(i) ==
    /\ cartItems[i] # NoRow
    /\ cartItems' = [cartItems EXCEPT ![i] = NoRow]
    /\ UNCHANGED <<carts, stock, orders, payments, registered, charges, tx, idVars, sold>>

-----------------------------------------------------------------------------
(***************************************************************************)
(* POST /orders                                                            *)
(***************************************************************************)
LineOf(i) ==
    [item |-> i, variant |-> cartItems[i].variant, quantity |-> cartItems[i].quantity]

\* All the ids asked for must be rows of the member's own cart.
OrderReadItems(s, u, ids) ==
    /\ tx[s] = Idle
    /\ ids # {}
    /\ \A i \in ids : cartItems[i] # NoRow /\ cartItems[i].user = u
    /\ Continue(s, [op |-> "order_items", user |-> u, lines |-> {LineOf(i) : i \in ids}])
    /\ UNCHANGED <<charges, idVars>>

\* Mutant: the check against the stock is left to the cart.
ValidatedActiveOnly(lines, available) ==
    \A l \in lines : l.variant \in Active

\* The validation loop looks at one line at a time, and at the stock as read.
Validated(lines, available) ==
    \A l \in lines : l.variant \in Active /\ available[l.variant] >= l.quantity

\* Reads the variants, validates, and inserts the PENDING order and its items.
OrderPlace(s, o) ==
    /\ tx[s].op = "order_items"
    /\ Validated(tx[s].lines, stock)
    /\ o \notin issuedOrders
    /\ issuedOrders' = issuedOrders \cup {o}
    /\ Continue(s, [op |-> "order_placed", user |-> tx[s].user, lines |-> tx[s].lines,
                    order |-> o, stock |-> stock, todo |-> tx[s].lines,
                    taken |-> [v \in Variants |-> 0]])
    /\ UNCHANGED <<charges, issuedItems>>

\* PaymentProvider.pay, an effect outside the database.  The mock decides by
\* the amount, which is not modelled: either answer may come.
PayApproved(s) ==
    /\ tx[s].op = "order_placed"
    /\ charges' = charges \cup {tx[s].order}
    /\ Continue(s, [tx[s] EXCEPT !.op = "order_paid"])
    /\ UNCHANGED idVars

PayDeclined(s) ==
    /\ tx[s].op = "order_placed"
    /\ Continue(s, [tx[s] EXCEPT !.op = "order_declined"])
    /\ UNCHANGED <<charges, idVars>>

\* Mutant: a line takes one unit whatever its quantity.
DecrementedByOne(available, l) ==
    [available EXCEPT ![l.variant] = @ - 1]

\* One turn of the loop after a successful payment: variant.stock -= quantity,
\* on the stock this request read.
Decremented(available, l) ==
    [available EXCEPT ![l.variant] = @ - l.quantity]

\* Mutant: the loop ends after its first turn.
FulfilFirstLine(s, l) ==
    /\ tx[s].op = "order_paid"
    /\ l \in tx[s].todo
    /\ Continue(s, [tx[s] EXCEPT !.stock = Decremented(@, l),
                                 !.taken[l.variant] = @ + l.quantity,
                                 !.todo = {}])
    /\ UNCHANGED <<charges, idVars>>

FulfilLine(s, l) ==
    /\ tx[s].op = "order_paid"
    /\ l \in tx[s].todo
    /\ Continue(s, [tx[s] EXCEPT !.stock = Decremented(@, l),
                                 !.taken[l.variant] = @ + l.quantity,
                                 !.todo = @ \ {l}])
    /\ UNCHANGED <<charges, idVars>>

VariantsOf(lines) == {l.variant : l \in lines}
ItemsOf(lines) == {l.item : l \in lines}

\* Mutant: a product is registered only when its cart row was still there.
RegisteredIfInCart(o, lines) ==
    {<<o, i>> : i \in {j \in ItemsOf(lines) : cartItems[j] # NoRow}}

\* Mutant: the registered product does not say which order it came from.
RegisteredWithoutOrder(o, lines) == {<<i, i>> : i \in ItemsOf(lines)}

RegisteredFor(o, lines) == {<<o, i>> : i \in ItemsOf(lines)}

\* The stock column of each variant ordered gets the value computed in memory.
WrittenStock(t) ==
    [v \in Variants |-> IF v \in VariantsOf(t.lines) THEN t.stock[v] ELSE stock[v]]

\* Mutant: rows changed since they were read stay in the cart.
ClearedIfUnchanged(lines) ==
    [i \in ItemIds |->
        IF cartItems[i] # NoRow /\ LineOf(i) \in lines THEN NoRow ELSE cartItems[i]]

\* Mutant: the cart is not cleared.
NotCleared(lines) == [i \in ItemIds |-> cartItems[i]]

\* A DELETE of a cart row that is gone already is only a warning.
ClearedCart(lines) ==
    [i \in ItemIds |-> IF i \in ItemsOf(lines) THEN NoRow ELSE cartItems[i]]

OrderCommitPaid(s) ==
    LET t == tx[s]
    IN  /\ t.op = "order_paid"
        /\ t.todo = {}
        /\ orders' = [orders EXCEPT ![t.order] =
                         [user |-> t.user, status |-> "paid", lines |-> t.lines]]
        /\ payments' = [payments EXCEPT ![t.order] = "success"]
        /\ registered' = registered \cup RegisteredFor(t.order, t.lines)
        /\ stock' = WrittenStock(t)
        /\ cartItems' = ClearedCart(t.lines)
        /\ sold' = [v \in Variants |-> sold[v] + t.taken[v]]
        /\ Commit(s)
        /\ UNCHANGED <<carts, charges, idVars>>

\* Mutant: a declined order takes its units from the stock.
DeclinedTakesStock(s) ==
    LET t == tx[s]
    IN  /\ t.op = "order_declined"
        /\ orders' = [orders EXCEPT ![t.order] =
                         [user |-> t.user, status |-> "failed", lines |-> t.lines]]
        /\ payments' = [payments EXCEPT ![t.order] = "failed"]
        /\ stock' = [v \in Variants |->
                        IF v \in VariantsOf(t.lines) THEN t.stock[v] - 1 ELSE stock[v]]
        /\ Commit(s)
        /\ UNCHANGED <<carts, cartItems, registered, charges, idVars, sold>>

\* Mutant: a declined order stays PENDING.
DeclinedStaysPending(s) ==
    LET t == tx[s]
    IN  /\ t.op = "order_declined"
        /\ orders' = [orders EXCEPT ![t.order] =
                         [user |-> t.user, status |-> "pending", lines |-> t.lines]]
        /\ payments' = [payments EXCEPT ![t.order] = "failed"]
        /\ Commit(s)
        /\ UNCHANGED <<carts, cartItems, stock, registered, charges, idVars, sold>>

OrderCommitDeclined(s) ==
    LET t == tx[s]
    IN  /\ t.op = "order_declined"
        /\ orders' = [orders EXCEPT ![t.order] =
                         [user |-> t.user, status |-> "failed", lines |-> t.lines]]
        /\ payments' = [payments EXCEPT ![t.order] = "failed"]
        /\ Commit(s)
        /\ UNCHANGED <<carts, cartItems, stock, registered, charges, idVars, sold>>

-----------------------------------------------------------------------------
CartStep(s) ==
    \/ \E u \in Users, v \in Variants, q \in Quantities : AddReadVariant(s, u, v, q)
    \/ AddReadExisting(s)
    \/ AddReadAbsent(s)
    \/ AddUpdate(s)
    \/ \E i \in ItemIds : AddInsert(s, i)
    \/ \E i \in ItemIds, v \in Variants, q \in Quantities : UpdateReadItem(s, i, v, q)
    \/ UpdateReadVariant(s)
    \/ UpdateWrite(s)

OrderStep(s) ==
    \/ \E u \in Users, ids \in SUBSET ItemIds : OrderReadItems(s, u, ids)
    \/ \E o \in OrderIds : OrderPlace(s, o)
    \/ PayApproved(s)
    \/ PayDeclined(s)
    \/ tx[s].op = "order_paid" /\ \E l \in tx[s].todo : FulfilLine(s, l)
    \/ OrderCommitPaid(s)
    \/ OrderCommitDeclined(s)

Next ==
    \/ \E s \in Sessions : CartStep(s) \/ OrderStep(s) \/ Rollback(s)
    \/ \E i \in ItemIds : DeleteItem(i)

Spec == Init /\ [][Next]_vars

-----------------------------------------------------------------------------
(***************************************************************************)
(* What is promised under any interleaving of requests.                    *)
(***************************************************************************)

\* No sequence of concurrent orders drives a stock below zero, although no
\* constraint of the database forbids it: each order writes its own read less
\* its own quantities, and a cart has one row per variant.
StockNeverNegative == \A v \in Variants : stock[v] >= 0

\* Concurrent orders overwrite each other's decrement, which can only leave
\* the stock too high: units are sold twice, never lost.
StockNeverUnderstated == \A v \in Variants : stock[v] + sold[v] >= InitialStock[v]

PaidOrders == {o \in OrderIds : orders[o] # NoRow /\ orders[o].status = "paid"}

\* A unit is told from others by its order, its line and its number there.
UnitsOfLine(o, l) == {<<o, l, n>> : n \in 1 .. l.quantity}

UnitsOrdered(o, v) ==
    UNION {UnitsOfLine(o, l) : l \in {k \in orders[o].lines : k.variant = v}}

UnitsPaid(v) == UNION {UnitsOrdered(o, v) : o \in PaidOrders}

\* Every line of a PAID order has been taken from the stock exactly once, in
\* full: the history variable sold is what the orders themselves say.
SoldMatchesOrders == \A v \in Variants : sold[v] = Cardinality(UnitsPaid(v))

OrderComplete(o) ==
    LET registrations == {p \in registered : p[1] = o}
    IN  \/ /\ orders[o] = NoRow
           /\ payments[o] = NoRow
           /\ registrations = {}
        \/ /\ orders[o] # NoRow
           /\ orders[o].status = "paid"
           /\ payments[o] = "success"
           /\ o \in charges
           /\ orders[o].lines # {}
           /\ registrations = RegisteredFor(o, orders[o].lines)
        \/ /\ orders[o] # NoRow
           /\ orders[o].status = "failed"
           /\ payments[o] = "failed"
           /\ o \notin charges
           /\ registrations = {}

\* The order row, its payment row, its registered products and the money taken
\* agree for every order in the database, whatever was interrupted; PENDING
\* orders are never seen.
OrdersComplete == \A o \in OrderIds : OrderComplete(o)

\* A cart row that a PAID order took is gone for good: no update or insert
\* that read the cart before the order brings it back.
OrderedItemsLeaveCart ==
    \A o \in OrderIds :
        orders[o] # NoRow /\ orders[o].status = "paid"
            => \A i \in ItemsOf(orders[o].lines) : cartItems[i] = NoRow

LedgerRow(o) ==
    IF orders[o] = NoRow THEN NoRow
    ELSE [user |-> orders[o].user,
          status |-> orders[o].status,
          payment |-> payments[o],
          items |-> ItemsOf(orders[o].lines),
          registered |-> {p[2] : p \in {r \in registered : r[1] = o}}]

recorded == [o \in OrderIds |-> LedgerRow(o)]

Ledger == INSTANCE OrderLedger WITH Items <- ItemIds, ledger <- recorded

\* Every order appears at once in its final state and never changes again.
LedgerSpec == Ledger!Spec

(***************************************************************************)
(* What holds when requests do not overlap.                                *)
(***************************************************************************)

\* "on success: Order(PAID), decrement stock": what was sold has left the
\* stock.  Two overlapping orders break it.
StockConservation == \A v \in Variants : stock[v] + sold[v] = InitialStock[v]

\* No two PAID orders take the same cart row.
ItemOrderedOnce ==
    \A o1, o2 \in OrderIds :
        /\ orders[o1] # NoRow /\ orders[o1].status = "paid"
        /\ orders[o2] # NoRow /\ orders[o2].status = "paid"
        /\ ItemsOf(orders[o1].lines) \cap ItemsOf(orders[o2].lines) # {}
        => o1 = o2

-----------------------------------------------------------------------------
(***************************************************************************)
(* The inductive invariants behind these promises.                         *)
(***************************************************************************)
PlacedOps == {"order_placed", "order_paid", "order_declined"}
OrderOps == PlacedOps \cup {"order_items"}

\* The unique constraint on (cartId, variantId).
OneItemPerVariant ==
    \A i, j \in ItemIds :
        /\ cartItems[i] # NoRow /\ cartItems[j] # NoRow
        /\ cartItems[i].user = cartItems[j].user
        /\ cartItems[i].variant = cartItems[j].variant
        => i = j

\* The row a PATCH read is still its member's, if it is still there.
UpdateTxOwned(t) ==
    t.op \in {"update_item", "update_write"} =>
        /\ t.item \in issuedItems
        /\ cartItems[t.item] # NoRow => cartItems[t.item].user = t.row.user

CartInv ==
    /\ OneItemPerVariant
    /\ \A i \in ItemIds : cartItems[i] # NoRow => i \in issuedItems
    /\ \A s \in Sessions : UpdateTxOwned(tx[s])

\* What a request in POST /orders can rely on: its lines name different
\* variants, and the stock it holds in memory covers the lines still to take.
OrderTxCovered(t) ==
    /\ t.op \in OrderOps =>
          \A l, k \in t.lines : l.variant = k.variant => l = k
    /\ t.op \in PlacedOps =>
          /\ t.todo \subseteq t.lines
          /\ \A l \in t.todo : t.stock[l.variant] >= l.quantity
          /\ \A v \in Variants :
                /\ t.stock[v] >= 0
                /\ t.stock[v] + t.taken[v] + sold[v] >= InitialStock[v]

StockInv ==
    /\ StockNeverNegative
    /\ StockNeverUnderstated
    /\ \A s \in Sessions : OrderTxCovered(tx[s])

\* An order has taken nothing of a variant, or all of the one line that names it.
SoldTx(t) ==
    t.op \in PlacedOps =>
        \A v \in Variants :
           /\ \A l \in t.lines \ t.todo : l.variant = v => t.taken[v] = l.quantity
           /\ (\A l \in t.lines \ t.todo : l.variant # v) => t.taken[v] = 0

SoldInv ==
    /\ \A v \in Variants : IsFiniteSet(UnitsPaid(v))
    /\ SoldMatchesOrders
    /\ \A s \in Sessions : SoldTx(tx[s])

\* Ids are used once, and the tables agree about the orders in progress too.
OrderTxRecorded(t) ==
    /\ t.op \in OrderOps => t.lines # {} /\ ItemsOf(t.lines) \subseteq issuedItems
    /\ t.op \in PlacedOps => t.order \in issuedOrders /\ orders[t.order] = NoRow
    /\ t.op = "order_paid" => t.order \in charges
    /\ t.op \in {"order_placed", "order_declined"} => t.order \notin charges

OrdersInv ==
    /\ OrdersComplete
    /\ OrderedItemsLeaveCart
    /\ charges \subseteq issuedOrders
    /\ \A o \in OrderIds :
          orders[o] # NoRow => /\ o \in issuedOrders
                               /\ ItemsOf(orders[o].lines) \subseteq issuedItems
    /\ \A s \in Sessions : OrderTxRecorded(tx[s])
    /\ \A s, r \in Sessions :
          tx[s].op \in PlacedOps /\ tx[r].op \in PlacedOps /\ tx[s].order = tx[r].order
              => s = r

\* No two requests are in POST /orders between their first read and their end.
OrdersApart ==
    \A s, r \in Sessions : tx[s].op \in OrderOps /\ tx[r].op \in OrderOps => s = r

\* What an order that no other order overlaps can rely on besides: the items it
\* has read are in no order yet, its stock is the table's less its own units.
SerialTx(t) ==
    /\ t.op \in OrderOps =>
          \A o \in OrderIds :
             orders[o] # NoRow /\ orders[o].status = "paid"
                => ItemsOf(orders[o].lines) \cap ItemsOf(t.lines) = {}
    /\ t.op \in PlacedOps =>
          \A v \in Variants :
             /\ t.stock[v] + t.taken[v] = stock[v]
             /\ v \notin VariantsOf(t.lines) => t.taken[v] = 0

SerialInv ==
    /\ StockConservation
    /\ ItemOrderedOnce
    /\ \A s \in Sessions : SerialTx(tx[s])
=============================================================================

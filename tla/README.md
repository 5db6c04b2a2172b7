# Atelier Lens backend: TLA+ models and proofs

The repository is the backend of a shop's web application: FastAPI on an
asynchronous SQLAlchemy session, PostgreSQL at its default isolation level READ
COMMITTED, files on a local disk, and jobs that run as background tasks of the
server process. Its handlers are short; what is hard about them is what happens
when two of them overlap, when one dies between two commits, or when the clean-up
script meets them half way. That is what these modules model.

## The system

| Part | State | Operations | Meets |
|---|---|---|---|
| Cart (`app/modules/cart`) | `cart`, `cartItem` | add, update, delete an item | reads the catalogue's stock; orders delete its rows |
| Orders (`app/modules/orders`) | `order`, `orderItem`, `payment` | create (validate, pay, fulfil), list, get | writes stock, registers products, empties the cart, calls the payment provider |
| Catalogue (`app/modules/products`) | `product`, `productVariant` (stock) | read; upsert of recently viewed products | everything reads it |
| Owned products (`app/modules/owned_products`) | `registeredProduct` | manual registration, read | orders insert rows; diagnoses refer to them |
| Try-on (`app/modules/try_on`) | `tryOn` | enqueue avatar / photo try-on, save, delete | files, jobs, guests |
| Jobs and tasks (`app/modules/jobs`, `app/tasks`) | `job` | create, update status, run a runner in a session of its own | try-on and diagnosis runners |
| Files (`app/modules/files`, `app/storage`) | `fileMetadata`, the disk | create, read, delete | try-on, diagnoses, clean-up |
| Clean-up (`app/tasks/cleanup.py`) | none of its own | four transactions: results, files, jobs, guests | deletes from all of the above, with cascading foreign keys |
| Guests (`app/modules/guests`) | `guestSession` | create | photo limit, expiry, claim |
| Diagnoses (`app/modules/diagnoses`) | `diagnosis`, `damage` | enqueue, process job | files, jobs, repairs |
| Repairs (`app/modules/repairs`) | `repairReservation` | create, cancel | diagnoses, stores |
| Auth (`app/modules/auth`, the password in `users`) | `user` login counter and lock, `refreshToken` | signup, login, social login, refresh, logout, change of password | every member request |
| Recently viewed (`products`, `auth/claim_service`) | `recentProduct` | record a view, list, claim of a guest's history, clean-up of a session | guests, members, recommendations |
| Coordis (`app/modules/coordis`) | `savedCoordi`, `savedCoordiItem` | create, update (rename, replacement of the items), delete | try-on reads them |
| Avatars (`app/modules/avatars`) | `avatar`, parameters on `guestSession` | create, upsert, guest parameters | try-on reads them |
| Pages (`app/core/pagination`, the lists of four repositories) | none: a cursor the client holds | next page | rows that other requests insert, stamp and delete |
| Recognition (`app/modules/ocr`) | none | detect, resolve, answer | the catalogue's codes |
| Recommendations (`app/modules/recommendations`) | none | list candidates, read details, rank | the catalogue and its stock |
| Stores' slots (`app/modules/stores`) | none | candidate times of a day | repairs |
| Seed (`scripts/seed.py`) | the catalogue, stores, pictures | one run: get or create, heal the picture, commit | an older seed, other runs |

A request runs in one session (`app/api/dependencies/database.py`): committed when
the handler returns, rolled back when it raises. Some handlers commit more than
once on the way (a file, the photo counter, a job). No statement locks a row, no
column has a version, and a few unique constraints are all the database enforces.
So each `SELECT` is a point where others may have committed since, and what the
ORM writes is computed from what it read.

What makes the parts correct, and where it can go wrong, is listed line by line
under `hazards` in `PROJECT.json`, each with the properties that cover it.

## The modules

### `Checkout`: cart, stock and orders

The database tables are variables (`carts`, `cartItems`, `stock`, `orders`,
`payments`, `registered`); `tx[s]` is the request in progress `s`: what it has read
and written and not yet committed. Actions follow the handlers statement by
statement: `AddReadVariant`, `AddReadExisting` / `AddReadAbsent`, `AddUpdate` /
`AddInsert` for POST, `UpdateReadItem`, `UpdateReadVariant`, `UpdateWrite` for PATCH,
`DeleteItem`, and `OrderReadItems`, `OrderPlace`, `PayApproved` / `PayDeclined`,
`FulfilLine` for each line, `OrderCommitPaid` / `OrderCommitDeclined` for
`create_order`. `Rollback` ends a request at any point: an error, a client gone, or
the death of the process. The unique constraints (`Insertable`, the guard of
`UpdateWrite`), the ORM's writing of changed columns only (`UpdatedRow`), the
absolute value it writes for stock (`WrittenStock`), the `UPDATE` of a missing
row that raises and the `DELETE` of one that does not are modelled as they are.
`charges` (what the payment provider has taken) and `sold` (units that committed
orders took) are history.

`OrderLedger` is what `Checkout` promises a reader of the tables: an order is
recorded in one step, complete (paid, with its payment and one registered product
for each cart row; or failed, with none), and a record never changes. `Checkout`
implements it under the mapping `recorded`.

### `TryOnJobs`: try-on requests, background tasks, files, clean-up

One request `r` has one job, one result and perhaps one uploaded photo, so `r`
names them all. `AcceptPhoto` ... `CreateJob` are the steps of the request
(`StoreSource` writes the disk, `CommitSource` the row, `CountPhoto` the guest's
counter, each a commit of its own); `TaskStart` ... `TaskFail` the background task;
`SaveRead` ... `DeleteRows` a member's saves and deletes, of which two (`Calls`) about one
result may overlap; `CleanListTryOns` ...
`CleanGuests` the four transactions of the clean-up, which deletes each file at once
and the rows at its commits, by id. `Pass(x)` lets an expiry time pass.
`ServerCrash` ends every request and task of the server, `CleanerCrash` the clean-up.

`ResultLife` is what `TryOnJobs` promises who polls the job and downloads the result. A
request is `open` until it is answered once: `failed`, with nothing left behind, or a result that is
`offered` until it expires, or that a member has `kept` before that and has until deleting it. Then it is
`gone`, and an answer is `forgotten` only when there is nothing to offer or to keep. `TryOnJobs`
implements it with `outcome` read from the job, the row, the file and the disk together (`Outcome`,
`Kept`, `Offered`), `expired` from the TTLs that have passed and `deleted` from what the member asked.
Most steps of `TryOnJobs` stutter there: those of a request and a task until the report, and those of the
clean-up until the job's row goes.

### `RepairBooking`: diagnoses and repair reservations

A diagnosis request, its background task (which commits the diagnosis and reports
success in two transactions), the clean-up's effect on jobs and, through the
foreign keys, on diagnoses and reservations, and the members' booking and cancelling
requests, one step a `SELECT`.

### `Accounts`: sign-up, log-in, refresh tokens

`users` and `tokens` are the tables, `calls[c]` what request `c` has read. Each handler
is a read and a commit (`LoginRead`, then `LoginWrong` or `LoginRight`; `RefreshRead`,
`RefreshCommit`; ...), since none of them locks what it reads. `Failed` and
`Succeeded` are the columns a log-in writes: the value computed from the row as it was read, and only
when it differs from it. `Rotated` revokes a token by its id, so it also succeeds
on a token another request has revoked meanwhile. `LockRunsOut` and `TokenExpires` are
the passing of time. `stale` on a request says that another for the same row has committed since
it read; it and `wrong`, `streak`, `raced`, `rotated`, `forked`, `out`, `survived` are history. Two refreshes
of a token that overlap set `forked`: its log-in has two branches from then on. A refresh that overlaps a logout of the token
sets `survived` and forks nothing: both have read the token active, so the new one stays whichever commits first.

### `RecentViews`: viewed products and the claim

`recent` is the table without a unique constraint, `visits[v]` a request. A view is
`ViewRead` and `ViewUpdate` or `ViewInsert`; a claim lists the guest's rows
(`ClaimList`), walks over them one by one (`ClaimRow`) and commits (`ClaimCommit`). A request sees its
own changes and the values its session has loaded (`Loaded`), and a write to a row that is gone rolls it
back (`Flushable`). `CleanGuests` deletes an expired session and, by the foreign key, its rows.

### `Coordis`: replacement of a coordi's items

Coordis share nothing, so there is one: `coordi` (its row), `items`, and `edits[e]`. What a client puts in it are
`Garments`, a product with a variant or none; a list may hold two variants of a product and no garment twice. An update is
`UpdateRead`, `UpdateFlush` (the ORM writes a changed name or thumbnail and so locks the row),
`UpdateDelete` (a DELETE of the items its snapshot shows, which waits for those another
is deleting), `UpdateWrite` and `UpdateCommit`. `RenameRead`, `DeleteRead` and their commits are
the requests that leave the items alone.

### `MemberRecords`: serial numbers and avatars

Two look-up-then-write handlers: `RegisterRead` / `RegisterInsert` and `BodyRead` /
`AvatarInsert` or `BodyUpdate`. `avatar.userId` is unique, a registered serial is not;
`Changed` writes the parameters that differ from the row as read.

### `Paging`, `Recognition`, `Recommendations`: what only reads

`Paging` is a client's scan by cursor (`NextPage`) while other requests insert, stamp and delete
rows. `Recognition` follows a photo through at most two readings of the provider
(`Sources`, `CandidateTexts` and the choice among the catalogue's codes); `AnswerIsBest` is the reference
definition. `Recommendations` reads the details of each candidate in a query of its own
while the stock moves, then scores and orders them; `RecommendsBest` says what the list
must contain and in which order by the scores alone. Confidences in `Recognition` are whole
numbers up to `Certain` (which stands for 1), multiples of every number of detections so that means
are exact: the code's mean is a float, whose rounding may make or break a tie of two candidates. A text that
normalises to nothing is no candidate and still counts in the mean.

### `Seeding`: a script run again

A run gets or creates a store, a QR code and a product, looks at the product's image and saves a new
picture when its file has no row, all in one transaction except the file on the disk. It starts
from an empty database or from one an older seed has left, whose product has no image or one whose file is lost.
`FirstImage` says which image a product shows after a commit: a run that found none adds its own beside what another has
added meanwhile, and the first is then drawn by the order of random ids; a run that found one writes over it.

### Proofs and `MC*`

`CheckoutProofs`, `TryOnJobsProofs`, `RepairBookingProofs`, `AccountsProofs`,
`RecentViewsProofs` and `CoordisProofs` hold the theorems about the
module they are named after, `CatalogueProofs` those about `Paging`,
`Seeding`, `Recommendations`, `Recognition` and `MemberRecords`, and about `MCCatalogue`, which composes
these with `Coordis`; `MembersProofs` those about `MCMembers`, which composes `Accounts` and `RecentViews`. The `MC*` modules
give the constants their values for TLC. `MCMembers` (`Accounts`, `RecentViews`) and
`MCCatalogue` (the six smaller modules) each hold components that share no table. Interleaving
those would multiply their states and show nothing more, so a variable `focus`, chosen
initially, says which component moves; the others stay where they began. In `MCMembers`
log-ins have two such foci, one that tries many passwords with one token and one that
issues many tokens without wrong passwords.

A definition whose comment begins with `Mutant:` is not part of the specification: it
is the definition that follows it with a plausible bug, kept to show that some property
notices. `PROJECT.json` says which property each of them breaks.

## What is model-checked

| Run | Instance | Shows |
|---|---|---|
| `checkout` | one member, two variants with stock 2 and 1, two cart rows, two orders, two overlapping requests, quantities to 2 | type invariant; stock neither negative nor understated; orders complete; ordered items do not come back; `sold` is what the orders say; `OrderLedger` is implemented |
| `checkout_serial` | two members, three cart rows, one request at a time | stock plus units sold is constant; a cart item is ordered once |
| `checkout_oversell` | two members, two overlapping requests | the same `StockConservation` is violated |
| `tryon` | a guest with a photo and a member with an avatar try-on, two saves or deletes of a result at once, one crash | results stay readable until they expire or their member deletes them; a file has its row except in a window a crash can hit; `ResultLife` is implemented |
| `tryon_settles` | a member's photo try-on, one crash, fairness | no job is polled for ever; the photo goes |
| `tryon_guest_limit` | two photos of a guest, limit 1, no crash | the limit is exceeded |
| `tryon_saved_lost` | a member's avatar try-on, no crash | a result saved after its expiry is lost |
| `repair` | two members, one diagnosis each, one open store and one closed, one slot, two overlapping requests, one crash | slots shared only by overlapping requests; a reservation keeps its diagnosis and its damage; job statuses are true; reservations stay |
| `repair_double_booking` | the same, no crash | two confirmed reservations of one slot |
| `diagnosis_stuck` | one diagnosis, one crash, fairness | a job that is processing for ever |
| `members` | two overlapping requests; two accounts (an email, a social identity), two passwords, lock after 2 failures, 4 wrong passwords, 3 tokens; two members, one guest, two products, three rows, three times | without overlap the counter and lock are exact, with it no lock is unearned and none lifted but by a log-in that read an older one over; one active token a log-in unless two refreshes overlapped, none after a logout unless they did or one overlapped the logout; histories exact without overlap and never lost but by two claims at once |
| `catalogue` | two overlapping requests; lists of up to two of four garments (one product in two variants, one without a picture); four rows with two times, page sizes 0, 1, 3 with a limit of 2; one serial, two heights and weights; six texts, three detections, two codes; five products with three candidates; two seed runs | items and thumbnail of one update or of overlapping ones, exact replacement under the lock, a deleted coordi stays deleted; pages neither skip nor repeat; one registration a serial, parameters as sent; the best code and look-alikes; the best recommendations; a seed that can be repeated |

**Bounds.** Two requests that overlap are enough for every race of this code, since
each reads, then writes once; two cart rows and two variants let an order have
two lines and a request meet another's row or variant; stock 2 and 1 with quantities to 2
lets an order fit alone and not beside another. A crash may come after any step, and
one is enough for each window because nothing after it repairs what it left but the
clean-up, which runs any number of times. The limit of photos is 1 instead of 3:
the check compares the count with the limit and nothing else. Pools of ids
(`ItemIds`, `OrderIds`, `Reservations`, `Users`, `Tokens`, `Rows`, `Thumbnails`) bound how many rows are
ever made; ids are never used twice. `MaxWrong` 4 with `MaxFailures` 2 lets an account be locked, recover and be
locked again; three tokens are a log-in, a refresh and a second refresh of either token;
three rows of views let a guest and a member have seen one product and a race make a duplicate;
`MaxBatch` 3 is a coordi and two replacements of its items. Four rows, two times and a limit of 2
give ties across a page boundary and a third page. Two `Calls` about one result are a save or a delete beside
another of them; a third would read and write the same two rows once more. Deadlock is not checked in `members`
and `catalogue`: their pools run out and a photo has its answer, after which nothing need happen.

**Symmetry** is used for members, requests, calls and ids that are interchangeable, in runs
of safety properties only. Where a run holds several modules they take their requests (and in
`members` their ids) from one set of model values, permuted in all of them together.

**Fairness** is stated where liveness is checked. The event loop resumes a task
whose await is over, so a task's steps are weakly fair, but a client need
not come back: nothing is assumed of saves and deletes, and a crash is never required. Expiry times pass. `scripts/cleanup_once` is meant for
a scheduler, so the clean-up's steps are weakly fair: without it no file or job would ever go.
A task does not run for the 24 hours of its job's TTL (`TimePasses`, `DayPasses`).

## What the checks found

Five properties that a docstring, the handoff document or a test states are violated by the
code, and each has a run that shows it: stock is oversold by overlapping orders
(`checkout_oversell`), the guest photo limit is exceeded by overlapping uploads
(`tryon_guest_limit`), a result saved after its expiry can lose its file
(`tryon_saved_lost`), a repair slot is confirmed twice (`repair_double_booking`), and
the job of a diagnosis can stay in `processing` for ever after a crash
(`diagnosis_stuck`). The passing runs say how far the damage goes: stock is never
understated or negative, a slot is shared only by requests that overlapped, a result saved
before its expiry is safe.

In the newer modules no document promises what overlapping requests break, so those
effects are stated exactly inside properties that hold: a refresh token used by two
requests forks its chain (`forked`), a refresh under way at the logout of its token leaves that log-in an
active token after the logout was answered, until it logs out again (`survived`), a counter may lose failures
(`raced`), a serial may be registered twice (`doubled`), two updates of a coordi may leave the items of both or a
thumbnail of the other (`drifted`), and two claims of one guest at once may delete a view (`contested`).
Of the log-in, the docstring of `refreshToken` says that rotation and logout set `revokedAt` and
`test_logout_revokes_refresh_token` that the token presented is refused afterwards: both hold for that token,
so the one that survives contradicts no text, and `LogoutEndsLogin` says that nothing else does.

## What is proved

`CheckoutProofs` proves, for every set of members, variants, requests and ids and
every initial stock, from the two assumptions of `Checkout` (`StockAssumption`: the initial
stock is a natural number; `NoRowAssumption`: the null row is no row):

- `TypeCorrect`: `Spec => []TypeOK`.
- `CartCorrect`: `Spec => []CartInv`. `CartInv` says that live cart rows have issued ids, that a
  member has one row a variant, and that what a request holds of the cart agrees with it.
- `NeverNegative`, `NeverUnderstated`: from `StockInvariant`. `StockNeverNegative` is
  not inductive: it needs that each order in progress still holds enough of each variant for the
  lines it has left, which rests on one line a variant (`CartInv`). `StockNeverUnderstated` needs
  that the stock an order read plus what was sold by then was not understated either, and that
  `sold` only grows.
- `AlwaysComplete`, `OrderedItemsGone`: from `OrdersInvariant`, which adds that the
  id an open order holds is used by no other, so that its row, its payment and its registrations are
  still absent, and that an update or insert in progress cannot bring back a row that is gone.
- `Refinement`: `Spec => LedgerSpec`, i.e. `Checkout` implements `OrderLedger`, from `OrdersInvariant`.
- `SoldIsOrdered`: `Spec => []SoldMatchesOrders`, from `SoldInvariant`. An order in progress has taken of each variant
  nothing, or all of the one line that names it, so what its commit adds to `sold` is what its lines
  say. The sum over the paid orders is stated as the number of units they hold, each told from
  the others by its order, line and number: the units of distinct orders are disjoint, and a new paid
  order adds its own, which needs no induction over the orders.
- `SerialConservation`, `SerialOrderedOnce`: `Spec /\ []OrdersApart` implies `StockConservation`
  and `ItemOrderedOnce`. `OrdersApart` says that no two requests are in `POST /orders` at once; cart
  requests may overlap with the order and with each other. So the overselling that
  `checkout_oversell` shows has no other cause than two overlapping orders. The run
  `checkout_serial`, with one request at a time, is an instance. The invariant
  (`SerialInvariant`) adds that the items an order has read are in no paid order yet and
  that the stock it holds is that of the table less its own units.
- `ChargesAreRecorded`: `Spec /\ [][~PaidRolledBack]_vars => []ChargesRecorded`. The provider takes
  the money before the commit that records it, so a rollback or a crash in between leaves a charge
  without an order; no document promises otherwise and no run checks it. The theorem says that this
  is the only way: without such a rollback all the money taken is for a PAID order or for one
  whose request is about to commit, however orders and cart requests overlap and fail elsewhere.

`TryOnJobsProofs` (from `TryOnAssumption`: every request has an owner, guests are not members)
proves `TryOnCorrect`: `Spec => []TryOnInv`. `TryOnInv` says for each request what there is of its
photo, result, rows and job according to where the request, its task and its client are, and
for the clean-up that what it has listed had expired, is not to be kept, and leaves the disk before
the table. None of `TryOnResultReadable`, `TryOnBlobsAccounted` and `TryOnStatusIsTrue` is inductive
without that: the clean-up holds its lists over several steps in which a member may save or delete, and a
task holds its file over several steps in which the clean-up may run.
`TryOnImplementsLife` proves `Spec => LifeSpec`: every step of `TryOnJobs` maps to one of
`ResultLife` or to a stutter. It needs `LifeInv`, which adds to `TryOnInv` that a row
hangs from its job, that a job whose task is done and whose row is there has succeeded, and that a
member can only ask for a result that has been reported: else a task's late report could make
a deleted result appear as offered, or the failure of a task meet a result that is saved.
`TryOnSavedReadable` proves `Spec /\ []SavesInTime /\ [][~ServerCrash]_vars => []SavedReadable`, the
promise that `tryon_saved_lost` shows broken: a saved result can be downloaded until its member
deletes it if no save is done after the expiry. The second hypothesis is there because a delete that dies
between the file and the row leaves a saved row without a file; the clean-up may still die at any step.
`TryOnGuestLimit` proves `Spec /\ []UploadsApart => []GuestPhotoLimit`: if no two uploads of one guest
overlap, the limit that `tryon_guest_limit` shows exceeded holds. `PhotoInv` says that the count in the table covers every photo on
its way to a job and that an upload still has the count it read.

`RepairBookingProofs` (from `RepairAssumption`: every diagnosis has a member, active stores are stores, the
null row is no row) proves `RepairCorrect`, that a diagnosis is there when the place of its task says so,
that what needs repair has a severe damage, and that what a booking has read is still there; from it
`RepairYields`, `RepairReservedForDamage`, `RepairStatusIsTrue` and the action property
`RepairReservationsStay`. `RepairSlotOnce` proves `Spec /\ []BookingsApart => []NoDoubleBooking`: if no two requests
book the same slot of a store at once, the double booking of `repair_double_booking` cannot happen, whatever
other bookings, cancellations, tasks and crashes do (`SlotInv`: a slot found free is free until it is booked).

`AccountsProofs` (from `AccountsAssumption`: a positive limit, absent rows are no rows) proves
`AuthCorrect`: `AuthSpec => []AuthInv`. Beside the types, `AuthInv` says of each request that the counter it read is at
most the wrong passwords so far and the lock it read is not ahead, and, while it is not stale,
that the row still has that lock and the token it presents is still active; and of tokens that families
start with an issued token; and of a chain that has not forked that it has one token no refresh has replaced
(`OneEnd`), so that a second active token needs two refreshes of one token, and a logout that finds its token still
that end leaves nothing behind. `LockIsEarned`, `ChainHasOneEnd` and `LogoutIsFinal` follow from it;
the last two except only two refreshes of one token that overlapped (`forked`) and, for the logout, a refresh of the
token that overlapped the logout itself (`survived`); neither excepts any other overlap; `LockIsKept`, the action property, follows from the lock a request holds.
`LockIsExact` has an invariant of its own: a log-in that has not been overtaken has read the
row as it is. The arithmetic it rests on, what one more failure does to the remainder
by a limit that is any positive number, is proved first from the definition of division, since
the solver knows remainders by numbers only.

`RecentViewsProofs` (from `RecentAssumption`: guests are not members, the null row is no row) proves
`RecentCorrect`: `RecentSpec => []RecentInv`, and from it `HistoryIsExact` and `HistoryIsKept`. The
claim is the hard part: it walks over the guest's rows one at a time with values its session has
loaded, while views, other claims and the clean-up commit. `ClaimOwned` says that a row it listed is still the
guest's unless a rival claim has given it away; `ClaimKeeps` that for every row it drops
the member keeps another of the product; `ClaimExact` that, unless it was overtaken, the session's values are those of the
table and the rows dealt with so far leave the member at most one row of a product (`OneLeft`) with the latest
of their times. A committing step is shown once to leave the tables of all other owners
as they were (`TablesKeep`), and from that every other request keeps what it has read or is marked as overtaken
(`KeptVisit`).

`CoordisProofs` proves `CoordiCorrect` (an update that missed nothing still holds the thumbnail of
the row and, after its DELETE, every item there is) and from it `ThumbnailAlwaysFits`,
`ReplacesExactly` and `StaysDeleted`. `CatalogueProofs` proves of `Paging` `PagingCorrect` (steady rows not yet
shown lie below the cursor, rows shown do not unless set back), `NothingSkipped` and
`NothingRepeated`, for any rows, times and page sizes, and of `Seeding`
`SeedRepeatable` from the rows a run is past at each step. Of `Recommendations`
(`RecommendationsAssumption`: finitely many products, codes that differ, a guest's limit of at least one and at most a
member's) it proves `RecommendedAreBest`: what has been read so far of the candidates agrees with the
stock at some time during the request, and a finite set of products has a ranking, in which each takes the place after
all those ahead of it. Of `Recognition` (`RecognitionAssumption`) it proves `BestIsAnswered`: the offers of a reading, and
those merged from two, name for every code the greatest confidence it is shown with (`Represents`), which exists because
the confidences are finitely many; and `MisreadIsRecovered`: a code misread in one segment is among the alternatives
of the text, so it was offered. Of `MemberRecords` it proves
`SerialOnce` and `NoMixture` from what a request that is not stale has looked up.

The runs `members` and `catalogue` check compositions. `MembersCompose` proves
`Spec => AuthSpec /\ RecentSpec`, and `CatalogueComposes` the like for the six modules of
`MCCatalogue`: a step of the composition is a step of each component or leaves its variables as they are, so
every theorem above about a component holds of the composed system too. `MembersTypeCorrect` and
`CatalogueTypeCorrect` (`[]TypesOK`) follow.

Each invariant was checked by TLC before it was proved. The proofs have a lemma for each action
or group of like actions, and under it a step for each part of the invariant the action can disturb.

**Only model-checked.** Liveness (`tryon_settles`, `diagnosis_stuck`): the prover has no rules for fairness or
ENABLED. Every invariant, action property and refinement of the passing runs is
a theorem; `StockConservation` and `ItemOrderedOnce`, which overlapping orders violate, under
`[]OrdersApart`.

## Assumptions and what is left out

- The database and the connections to it stay up; a statement fails only on a constraint, on
  a missing row or on a value its column cannot hold. Two `UPDATE`s of one row are serialised by
  its lock: the model takes them in commit order.
- Prices, names, serial numbers, image content and message texts. The payment provider's and the
  try-on provider's answers are nondeterministic.
- Ownership checks are in the guards by the members that send the requests; the 401, 403, 404 and 422
  answers have no effect and are not separate actions.
- The catalogue changes only through `scripts/seed.py`; products are not deactivated in the models.
- Passwords and tokens are compared, not hashed or signed; access tokens are stateless. Names of
  coordis, nicknames, phone numbers and dates are left out where nothing depends on them.

**Not modelled.** `PATCH /me` writes the name and phone of one row, and the last writer wins: no other
state refers to them. Error formatting, response envelopes, configuration, logging and the
application's wiring keep no state. The drawing of try-on pictures (`providers/try_on`) and the image engine
of the OCR provider turn pixels into pixels or texts; the models take any of their results. The
slots `GET /stores` offers are a fixed list of hours without those of confirmed reservations; a booking
is not held to them. The endpoint
inventory script prints a document.

## Plan

1. Done: `Checkout`, `OrderLedger`, `TryOnJobs`, `ResultLife`, `RepairBooking`, `Accounts`, `RecentViews`,
   `Coordis`, `MemberRecords`, `Paging`, `Recognition`, `Recommendations`, `Seeding`, and the eight proof modules.
2. Done: every safety property of the passing runs is proved, the two of `checkout_serial` for orders that do not
   overlap; so are three of the violated ones without what violates them
   (`BookingsApart`, `UploadsApart`, `SavesInTime` with no crash of the server). The oversold stock
   of `checkout_oversell` is `StockConservation` under `OrdersApart`.
3. Done: `TryOnJobs` implements `ResultLife`, as `Checkout` implements `OrderLedger`, and the
   compositions implement their components.
4. Left to TLC: liveness under fairness.

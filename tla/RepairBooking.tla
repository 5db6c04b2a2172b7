---------------------------- MODULE RepairBooking ----------------------------
(***************************************************************************)
(* Diagnoses and the repairs booked for them: app/modules/diagnoses,       *)
(* app/modules/repairs and the part of app/tasks they meet.                *)
(*                                                                         *)
(* A diagnosis request stores a photo, commits a job and returns; the job  *)
(* runs as a background task that commits the diagnosis with its damages   *)
(* and then reports success.  Request d has one photo, one job and one     *)
(* diagnosis, so d names them all.  (TryOnJobs has the steps in which the  *)
(* photo reaches the disk and leaves it.)  A member then books a repair in *)
(* a store.  A booking or a cancellation runs in one READ COMMITTED        *)
(* transaction: each SELECT is a step of its own.                          *)
(***************************************************************************)
EXTENDS Naturals, FiniteSets

CONSTANTS
    Diagnoses,    \* POST /diagnoses requests
    Members,
    Owner,        \* who sends each of them
    Stores,
    ActiveStores,
    Slots,        \* instants; a booking is not held to the hours of a store
    Reservations, \* pool of repairReservation ids (bounds the bookings)
    Sessions,     \* booking and cancelling requests in progress at a time
    MaxCrashes,   \* bound on the deaths of the server
    NoRow         \* a row that is not in its table

Severities == {"low", "medium", "high"}

Damage == [severity : Severities, repairNeeded : BOOLEAN]

Diagnosis == [damages : SUBSET Damage, repairNeeded : BOOLEAN]

Reservation == [diagnosis : Diagnoses, store : Stores, slot : Slots,
                status : {"confirmed", "cancelled"}]

ASSUME RepairAssumption ==
    /\ Owner \in [Diagnoses -> Members]
    /\ ActiveStores \subseteq Stores
    /\ MaxCrashes \in Nat
    /\ NoRow \notin Diagnosis \cup Reservation

VARIABLES
    sources,      \* diagnosis photos that are stored
    jobs,         \* job rows by status
    diagnoses,    \* diagnosis rows with their damage rows
    reservations, \* repairReservation rows by id
    request,      \* where each diagnosis request is
    task,         \* where its background task is, and what the provider said
    tx,           \* booking and cancelling transactions
    passed,       \* diagnosis requests more than a day old
    issued,       \* ids ever given to a reservation
    crashes

dbVars == <<sources, jobs, diagnoses, reservations>>
vars == <<sources, jobs, diagnoses, reservations, request, task, tx, passed, issued, crashes>>

\* A job row by its status.
JobRow == {"none", "pending", "processing", "succeeded", "failed"}

Idle == [at |-> "idle"]

Booking == [user : Members, diagnosis : Diagnoses, store : Stores, slot : Slots,
            before : SUBSET Reservations]

BookingTx == [at : {"store", "slot", "insert"}, book : Booking]
CancelTx == [at : {"cancel"}, reservation : Reservations]
TxState == {Idle} \cup BookingTx \cup CancelTx

TaskState ==
    [at : {"none", "scheduled", "diagnose", "insert", "report", "fail", "done", "dead"},
     damages : SUBSET Damage]

TypeOK ==
    /\ sources \subseteq Diagnoses
    /\ jobs \in [Diagnoses -> JobRow]
    /\ diagnoses \in [Diagnoses -> Diagnosis \cup {NoRow}]
    /\ reservations \in [Reservations -> Reservation \cup {NoRow}]
    /\ request \in [Diagnoses -> {"new", "create_job", "accepted", "dead"}]
    /\ task \in [Diagnoses -> TaskState]
    /\ tx \in [Sessions -> TxState]
    /\ passed \subseteq Diagnoses
    /\ issued \subseteq Reservations
    /\ crashes \in 0 .. MaxCrashes

Init ==
    /\ sources = {}
    /\ jobs = [d \in Diagnoses |-> "none"]
    /\ diagnoses = [d \in Diagnoses |-> NoRow]
    /\ reservations = [r \in Reservations |-> NoRow]
    /\ request = [d \in Diagnoses |-> "new"]
    /\ task = [d \in Diagnoses |-> [at |-> "none", damages |-> {}]]
    /\ tx = [s \in Sessions |-> Idle]
    /\ passed = {}
    /\ issued = {}
    /\ crashes = 0

-----------------------------------------------------------------------------
(***************************************************************************)
(* POST /diagnoses                                                         *)
(***************************************************************************)
StoreSource(d) ==
    /\ request[d] = "new"
    /\ sources' = sources \cup {d}
    /\ request' = [request EXCEPT ![d] = "create_job"]
    /\ UNCHANGED <<jobs, diagnoses, reservations, task, tx, passed, issued, crashes>>

CreateJob(d) ==
    /\ request[d] = "create_job"
    /\ jobs' = [jobs EXCEPT ![d] = "pending"]
    /\ request' = [request EXCEPT ![d] = "accepted"]
    /\ task' = [task EXCEPT ![d].at = "scheduled"]
    /\ UNCHANGED <<sources, diagnoses, reservations, tx, passed, issued, crashes>>

Diagnose(d) == StoreSource(d) \/ CreateJob(d)

-----------------------------------------------------------------------------
(***************************************************************************)
(* The background task.                                                    *)
(***************************************************************************)
TaskGoes(d, at) == task' = [task EXCEPT ![d].at = at]

TaskStart(d) ==
    /\ task[d].at = "scheduled"
    /\ jobs' = [jobs EXCEPT ![d] = "processing"]
    /\ TaskGoes(d, "diagnose")
    /\ UNCHANGED <<sources, diagnoses, reservations, request, tx, passed, issued, crashes>>

\* Mutant: the provider has a word of its own for the severity.
DamageInOwnWords(severity) ==
    [severity |-> IF severity = "high" THEN "critical" ELSE severity,
     repairNeeded |-> severity \in {"medium", "high"}]

DamageOf(severity) ==
    [severity |-> severity, repairNeeded |-> severity \in {"medium", "high"}]

\* Mutant: the outcome of a provider that raised counts as a diagnosis made.
TaskDiagnoseGoesOn(d) ==
    /\ task[d].at = "diagnose"
    /\ \/ /\ d \in sources
          /\ \E severities \in SUBSET Severities :
                /\ Cardinality(severities) \in 1 .. 2
                /\ task' = [task EXCEPT ![d] =
                               [at |-> "insert", damages |-> {DamageOf(v) : v \in severities}]]
       \/ TaskGoes(d, "report")
    /\ UNCHANGED <<dbVars, request, tx, passed, issued, crashes>>

\* The provider finds one or two damages, or raises.
TaskDiagnose(d) ==
    /\ task[d].at = "diagnose"
    /\ \/ /\ d \in sources
          /\ \E severities \in SUBSET Severities :
                /\ Cardinality(severities) \in 1 .. 2
                /\ task' = [task EXCEPT ![d] =
                               [at |-> "insert", damages |-> {DamageOf(v) : v \in severities}]]
       \/ TaskGoes(d, "fail")
    /\ UNCHANGED <<dbVars, request, tx, passed, issued, crashes>>

\* Mutant: any damage needs a repair.
NeededForAny(damages) == damages # {}

Needed(damages) == \E damage \in damages : damage.repairNeeded

\* The diagnosis and its damages in one commit.
TaskInsert(d) ==
    /\ task[d].at = "insert"
    /\ diagnoses' = [diagnoses EXCEPT ![d] =
                        [damages |-> task[d].damages,
                         repairNeeded |-> Needed(task[d].damages)]]
    /\ task' = [task EXCEPT ![d] = [at |-> "report", damages |-> {}]]
    /\ UNCHANGED <<sources, jobs, reservations, request, tx, passed, issued, crashes>>

TaskReport(d) ==
    /\ task[d].at = "report"
    /\ jobs' = [jobs EXCEPT ![d] = "succeeded"]
    /\ TaskGoes(d, "done")
    /\ UNCHANGED <<sources, diagnoses, reservations, request, tx, passed, issued, crashes>>

TaskFail(d) ==
    /\ task[d].at = "fail"
    /\ jobs' = [jobs EXCEPT ![d] = "failed"]
    /\ TaskGoes(d, "done")
    /\ UNCHANGED <<sources, diagnoses, reservations, request, tx, passed, issued, crashes>>

TaskStep(d) ==
    \/ TaskStart(d)
    \/ TaskDiagnose(d)
    \/ TaskInsert(d)
    \/ TaskReport(d)
    \/ TaskFail(d)

-----------------------------------------------------------------------------
(***************************************************************************)
(* POST /repair-reservations and its cancellation, by a member whose job   *)
(* has told the id of the diagnosis.                                       *)
(***************************************************************************)
Free(s) == tx[s] = Idle

Continue(s, t) ==
    /\ tx' = [tx EXCEPT ![s] = t]
    /\ UNCHANGED <<dbVars, request, task, passed, issued, crashes>>

Rollback(s) ==
    /\ ~Free(s)
    /\ Continue(s, Idle)

Confirmed(r) == reservations[r] # NoRow /\ reservations[r].status = "confirmed"

BookReadDiagnosis(s, d, store, slot) ==
    /\ Free(s)
    /\ jobs[d] = "succeeded"
    /\ diagnoses[d] # NoRow
    /\ diagnoses[d].repairNeeded
    /\ Continue(s, [at |-> "store",
                    book |-> [user |-> Owner[d], diagnosis |-> d, store |-> store,
                              slot |-> slot, before |-> {r \in Reservations : Confirmed(r)}]])

BookReadStore(s) ==
    /\ tx[s].at = "store"
    /\ tx[s].book.store \in ActiveStores
    /\ Continue(s, [tx[s] EXCEPT !.at = "slot"])

Takes(r, store, slot) == reservations[r].store = store /\ reservations[r].slot = slot

\* Mutant: a slot is taken only by the same diagnosis.
SlotTakenByDiagnosis(b) ==
    \E r \in Reservations :
        Confirmed(r) /\ Takes(r, b.store, b.slot) /\ reservations[r].diagnosis = b.diagnosis

\* exists_confirmed_slot
SlotTaken(b) == \E r \in Reservations : Confirmed(r) /\ Takes(r, b.store, b.slot)

BookReadSlot(s) ==
    /\ tx[s].at = "slot"
    /\ ~SlotTaken(tx[s].book)
    /\ Continue(s, [tx[s] EXCEPT !.at = "insert"])

\* The foreign key is the only constraint on the row.
BookInsert(s, r) ==
    /\ tx[s].at = "insert"
    /\ diagnoses[tx[s].book.diagnosis] # NoRow
    /\ r \notin issued
    /\ issued' = issued \cup {r}
    /\ reservations' = [reservations EXCEPT ![r] =
                           [diagnosis |-> tx[s].book.diagnosis, store |-> tx[s].book.store,
                            slot |-> tx[s].book.slot, status |-> "confirmed"]]
    /\ tx' = [tx EXCEPT ![s] = Idle]
    /\ UNCHANGED <<sources, jobs, diagnoses, request, task, passed, crashes>>

CancelRead(s, r) ==
    /\ Free(s)
    /\ Confirmed(r)
    /\ Continue(s, [at |-> "cancel", reservation |-> r])

\* An UPDATE by id, which fails when the row is gone.
CancelCommit(s) ==
    /\ tx[s].at = "cancel"
    /\ reservations[tx[s].reservation] # NoRow
    /\ reservations' = [reservations EXCEPT ![tx[s].reservation].status = "cancelled"]
    /\ tx' = [tx EXCEPT ![s] = Idle]
    /\ UNCHANGED <<sources, jobs, diagnoses, request, task, passed, issued, crashes>>

Repair(s) ==
    \/ \E d \in Diagnoses, store \in Stores, slot \in Slots : BookReadDiagnosis(s, d, store, slot)
    \/ BookReadStore(s)
    \/ BookReadSlot(s)
    \/ \E r \in Reservations : BookInsert(s, r)
    \/ \E r \in Reservations : CancelRead(s, r)
    \/ CancelCommit(s)
    \/ Rollback(s)

-----------------------------------------------------------------------------
(***************************************************************************)
(* Time, the clean-up and crashes.  Photo and job expire after a day, by   *)
(* when the task is over.                                                  *)
(***************************************************************************)
TaskOver(d) == task[d].at \in {"none", "done", "dead"}

DayPasses(d) ==
    /\ request[d] \in {"accepted", "dead"}
    /\ TaskOver(d)
    /\ d \notin passed
    /\ passed' = passed \cup {d}
    /\ UNCHANGED <<dbVars, request, task, tx, issued, crashes>>

CleanFiles ==
    /\ sources' = sources \ passed
    /\ UNCHANGED <<jobs, diagnoses, reservations, request, task, tx, passed, issued, crashes>>

\* Mutant: jobs go whether or not a diagnosis names them.
ExpiredJobsAll == {d \in passed : jobs[d] # "none"}

ExpiredJobs == {d \in passed : jobs[d] # "none" /\ diagnoses[d] = NoRow}

\* The foreign keys take the diagnoses of a job with it, and their reservations.
CleanJobs ==
    /\ jobs' = [d \in Diagnoses |-> IF d \in ExpiredJobs THEN "none" ELSE jobs[d]]
    /\ diagnoses' = [d \in Diagnoses |-> IF d \in ExpiredJobs THEN NoRow ELSE diagnoses[d]]
    /\ reservations' = [r \in Reservations |->
                           IF reservations[r] # NoRow /\ reservations[r].diagnosis \in ExpiredJobs
                           THEN NoRow ELSE reservations[r]]
    /\ UNCHANGED <<sources, request, task, tx, passed, issued, crashes>>

ServerCrash ==
    /\ crashes < MaxCrashes
    /\ crashes' = crashes + 1
    /\ request' = [d \in Diagnoses |->
                      IF request[d] = "create_job" THEN "dead" ELSE request[d]]
    /\ task' = [d \in Diagnoses |->
                   IF TaskOver(d) THEN task[d] ELSE [at |-> "dead", damages |-> {}]]
    /\ tx' = [s \in Sessions |-> Idle]
    /\ UNCHANGED <<dbVars, passed, issued>>

Next ==
    \/ \E d \in Diagnoses : Diagnose(d) \/ TaskStep(d) \/ DayPasses(d)
    \/ \E s \in Sessions : Repair(s)
    \/ CleanFiles
    \/ CleanJobs
    \/ ServerCrash

Spec == Init /\ [][Next]_vars

\* The event loop runs the tasks on, days pass and the clean-up is run daily.
Fairness ==
    /\ \A d \in Diagnoses : WF_vars(TaskStep(d)) /\ WF_vars(DayPasses(d))
    /\ WF_vars(CleanFiles)
    /\ WF_vars(CleanJobs)

FairSpec == Spec /\ Fairness

-----------------------------------------------------------------------------
\* A booking that is about to be made has looked at every reservation that was
\* confirmed when its request began: two reservations can share a slot of a
\* store only if their requests overlapped.
LaterBookingYields ==
    \A s \in Sessions :
        tx[s].at = "insert"
            => \A r \in tx[s].book.before :
                  ~(Confirmed(r) /\ Takes(r, tx[s].book.store, tx[s].book.slot))

\* A reservation stands for a diagnosis with a damage of medium or high
\* severity, however old the diagnosis and its job are.
ReservedForDamage ==
    \A r \in Reservations :
        reservations[r] # NoRow
            => /\ diagnoses[reservations[r].diagnosis] # NoRow
               /\ \E damage \in diagnoses[reservations[r].diagnosis].damages :
                     damage.severity \in {"medium", "high"}

\* Nothing but its member changes a reservation, and a cancelled one stays
\* cancelled: the expiry of the job of its diagnosis does not take it away.
ReservationsStay ==
    [][\A r \in Reservations :
          reservations[r] # NoRow
              => /\ reservations'[r] # NoRow
                 /\ reservations[r].status = "cancelled"
                       => reservations'[r] = reservations[r]]_vars

\* A job that reports success has its diagnosis, from then on; one that reports
\* failure has none.
StatusIsTrue ==
    \A d \in Diagnoses :
        /\ jobs[d] = "succeeded" => diagnoses[d] # NoRow
        /\ jobs[d] = "failed" => diagnoses[d] = NoRow

\* "job: 24 hours": no job is left to poll for ever.
Unsettled(d) == jobs[d] \in {"pending", "processing"}

JobSettles == \A d \in Diagnoses : Unsettled(d) ~> ~Unsettled(d)

\* "REPAIR_SLOT_UNAVAILABLE": a slot of a store is confirmed to one reservation.
NoDoubleBooking ==
    \A r1, r2 \in Reservations :
        Confirmed(r1) /\ Confirmed(r2)
            /\ Takes(r1, reservations[r2].store, reservations[r2].slot)
                => r1 = r2

\* A request is between the first read of a booking and its end.
BookingSlot(s, store, slot) ==
    /\ tx[s].at \in {"store", "slot", "insert"}
    /\ tx[s].book.store = store /\ tx[s].book.slot = slot

\* No two requests book one slot of a store at once.
BookingsApart ==
    \A store \in Stores, slot \in Slots, s, u \in Sessions :
        BookingSlot(s, store, slot) /\ BookingSlot(u, store, slot) => s = u

\* Then a booking that has found its slot free finds it free when it is made.
SlotInv ==
    /\ NoDoubleBooking
    /\ \A s \in Sessions : tx[s].at = "insert" => ~SlotTaken(tx[s].book)
=============================================================================

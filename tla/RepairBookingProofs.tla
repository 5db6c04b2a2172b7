-------------------------- MODULE RepairBookingProofs --------------------------
(***************************************************************************)
(* Theorems about RepairBooking for any members, stores, slots, pools of   *)
(* ids, concurrent requests and number of crashes.                         *)
(***************************************************************************)
EXTENDS RepairBooking, TLAPS

\* Every proof may look into the sets of row states.
USE DEF JobRow

\* A provider's damages say that a repair is needed just when they are severe.
Honest(damages) ==
    \A damage \in damages : damage.repairNeeded <=> damage.severity \in {"medium", "high"}

\* Where the task of a diagnosis is tells whether its row is there.
DiagnosisTrue(d) ==
    /\ Honest(task[d].damages)
    /\ diagnoses[d] # NoRow =>
         /\ Honest(diagnoses[d].damages)
         /\ diagnoses[d].repairNeeded <=> Needed(diagnoses[d].damages)
    /\ request[d] # "accepted" => task[d].at = "none"
    /\ task[d].at \in {"none", "scheduled", "diagnose", "insert", "fail"}
         => diagnoses[d] = NoRow
    /\ task[d].at = "report" => diagnoses[d] # NoRow
    /\ jobs[d] \in {"succeeded", "failed"} => task[d].at = "done"
    /\ jobs[d] = "succeeded" => diagnoses[d] # NoRow
    /\ jobs[d] = "failed" => diagnoses[d] = NoRow

NeedsRepair(d) == diagnoses[d] # NoRow /\ diagnoses[d].repairNeeded

ReservationTrue(r) ==
    reservations[r] # NoRow => r \in issued /\ NeedsRepair(reservations[r].diagnosis)

\* The diagnosis a booking has read is still there, and the reservations it
\* has seen have ids that no later booking can take.
BookingTrue(s) ==
    tx[s].at \in {"store", "slot", "insert"} =>
        /\ NeedsRepair(tx[s].book.diagnosis)
        /\ tx[s].book.before \subseteq issued

RepairInv ==
    /\ TypeOK
    /\ \A d \in Diagnoses : DiagnosisTrue(d)
    /\ \A r \in Reservations : ReservationTrue(r)
    /\ \A s \in Sessions : BookingTrue(s)
    /\ LaterBookingYields

-----------------------------------------------------------------------------
(***************************************************************************)
(* Shapes of the records.                                                  *)
(***************************************************************************)
LEMMA TxShape ==
  ASSUME NEW t \in TxState
  PROVE  /\ t.at = "idle" => t = Idle
         /\ t.at \in {"store", "slot", "insert"} => t \in BookingTx /\ t.book \in Booking
         /\ t.at = "cancel" => t \in CancelTx /\ t.reservation \in Reservations
         /\ t.at \in {"idle", "store", "slot", "insert", "cancel"}
  BY DEF TxState, Idle, BookingTx, CancelTx

LEMMA BookingMoves ==
  ASSUME NEW t \in BookingTx, NEW at \in {"store", "slot", "insert"}
  PROVE  /\ [t EXCEPT !.at = at] \in TxState
         /\ [t EXCEPT !.at = at].at = at
         /\ [t EXCEPT !.at = at].book = t.book
  BY DEF TxState, BookingTx

LEMMA RowShape ==
  ASSUME NEW row \in Reservation
  PROVE  /\ row # NoRow
         /\ row.diagnosis \in Diagnoses
         /\ row.status \in {"confirmed", "cancelled"}
         /\ [row EXCEPT !.status = "cancelled"] \in Reservation
         /\ [row EXCEPT !.status = "cancelled"].status = "cancelled"
         /\ [row EXCEPT !.status = "cancelled"].diagnosis = row.diagnosis
         /\ row.status = "cancelled" => [row EXCEPT !.status = "cancelled"] = row
  BY RepairAssumption DEF Reservation

LEMMA DamageShape ==
  ASSUME NEW severities \in SUBSET Severities
  PROVE  /\ {DamageOf(v) : v \in severities} \in SUBSET Damage
         /\ Honest({DamageOf(v) : v \in severities})
<1>1. ASSUME NEW v \in Severities
      PROVE  /\ DamageOf(v) \in Damage
             /\ DamageOf(v).severity = v
             /\ DamageOf(v).repairNeeded <=> v \in {"medium", "high"}
  <2>1. (v \in {"medium", "high"}) \in BOOLEAN
    OBVIOUS
  <2>. QED  BY <2>1 DEF Damage, DamageOf
<1>. HIDE DEF Severities, DamageOf, Damage
<1>. QED  BY <1>1 DEF Honest

LEMMA NeededFor ==
  ASSUME NEW damages \in SUBSET Damage, Honest(damages)
  PROVE  /\ Needed(damages) \in BOOLEAN
         /\ Needed(damages) =>
              \E damage \in damages : damage.severity \in {"medium", "high"}
  BY DEF Needed, Honest, Damage

LEMMA TaskMoves ==
  ASSUME NEW t \in TaskState,
         NEW at \in {"none", "scheduled", "diagnose", "insert", "report", "fail", "done", "dead"}
  PROVE  /\ [t EXCEPT !.at = at] \in TaskState
         /\ [t EXCEPT !.at = at].at = at
         /\ [t EXCEPT !.at = at].damages = t.damages
  BY DEF TaskState

-----------------------------------------------------------------------------
(***************************************************************************)
(* The task.  A step of the task of d leaves bookings as they are, for a   *)
(* diagnosis once there stays.                                             *)
(***************************************************************************)
BookingVars == <<reservations, tx, issued>>

LEMMA BookingsKept ==
  ASSUME RepairInv, UNCHANGED BookingVars,
         \A d \in Diagnoses : NeedsRepair(d) => NeedsRepair(d)'
  PROVE  /\ \A r \in Reservations : ReservationTrue(r)'
         /\ \A s \in Sessions : BookingTrue(s)'
         /\ LaterBookingYields'
<1>1. \A r \in Reservations : ReservationTrue(r)'
  BY RowShape DEF RepairInv, TypeOK, BookingVars, ReservationTrue
<1>2. \A s \in Sessions : BookingTrue(s)'
  <2>. SUFFICES ASSUME NEW s \in Sessions, tx[s].at \in {"store", "slot", "insert"}
                PROVE  NeedsRepair(tx[s].book.diagnosis)'
    BY DEF RepairInv, BookingVars, BookingTrue
  <2>1. tx[s].book.diagnosis \in Diagnoses
    BY TxShape DEF RepairInv, TypeOK, Booking
  <2>2. NeedsRepair(tx[s].book.diagnosis)
    BY DEF RepairInv, BookingTrue
  <2>. QED  BY <2>1, <2>2 DEF BookingVars
<1>3. LaterBookingYields'
  BY DEF RepairInv, BookingVars, LaterBookingYields, Confirmed, Takes
<1>. QED  BY <1>1, <1>2, <1>3

\* A diagnosis of which nothing changes stays as true as it was.
LEMMA DiagnosisKept ==
  ASSUME RepairInv, NEW d \in Diagnoses,
         jobs'[d] = jobs[d], diagnoses'[d] = diagnoses[d],
         request'[d] = request[d], task'[d] = task[d]
  PROVE  DiagnosisTrue(d)'
  BY DEF RepairInv, DiagnosisTrue

LEMMA StoreSourceInv ==
  ASSUME RepairInv, NEW d \in Diagnoses, StoreSource(d)
  PROVE  RepairInv'
<1>. USE DEF StoreSource
<1>1. TypeOK'
  BY DEF RepairInv, TypeOK
<1>2. ASSUME NEW u \in Diagnoses PROVE DiagnosisTrue(u)'
  BY DEF RepairInv, TypeOK, DiagnosisTrue
<1>. QED
  BY <1>1, <1>2, BookingsKept DEF BookingVars, NeedsRepair, RepairInv

LEMMA CreateJobInv ==
  ASSUME RepairInv, NEW d \in Diagnoses, CreateJob(d)
  PROVE  RepairInv'
<1>. USE DEF CreateJob
<1>1. TypeOK'
  BY TaskMoves DEF RepairInv, TypeOK
<1>2. ASSUME NEW u \in Diagnoses PROVE DiagnosisTrue(u)'
  <2>1. CASE u # d
    BY <2>1, DiagnosisKept DEF RepairInv, TypeOK
  <2>2. CASE u = d
    <3>1. task'[d] = [task[d] EXCEPT !.at = "scheduled"] /\ task[d] \in TaskState
      BY DEF RepairInv, TypeOK
    <3>2. task'[d].at = "scheduled" /\ task'[d].damages = task[d].damages
      BY <3>1 DEF TaskState
    <3>. QED  BY <2>2, <3>2 DEF RepairInv, TypeOK, DiagnosisTrue
  <2>. QED  BY <2>1, <2>2
<1>. QED
  BY <1>1, <1>2, BookingsKept DEF BookingVars, NeedsRepair, RepairInv

LEMMA TaskStartInv ==
  ASSUME RepairInv, NEW d \in Diagnoses, TaskStart(d)
  PROVE  RepairInv'
<1>. USE DEF TaskStart
<1>1. TypeOK'
  BY TaskMoves DEF RepairInv, TypeOK, TaskGoes
<1>2. ASSUME NEW u \in Diagnoses PROVE DiagnosisTrue(u)'
  <2>1. CASE u # d
    BY <2>1, DiagnosisKept DEF RepairInv, TypeOK, TaskGoes
  <2>2. CASE u = d
    <3>1. task'[d] = [task[d] EXCEPT !.at = "diagnose"] /\ task[d] \in TaskState
      BY DEF RepairInv, TypeOK, TaskGoes
    <3>2. task'[d].at = "diagnose" /\ task'[d].damages = task[d].damages
      BY <3>1, TaskMoves
    <3>. QED  BY <2>2, <3>2 DEF RepairInv, TypeOK, DiagnosisTrue, TaskGoes
  <2>. QED  BY <2>1, <2>2
<1>. QED
  BY <1>1, <1>2, BookingsKept DEF BookingVars, NeedsRepair, RepairInv

LEMMA TaskReportInv ==
  ASSUME RepairInv, NEW d \in Diagnoses, TaskReport(d)
  PROVE  RepairInv'
<1>. USE DEF TaskReport
<1>1. TypeOK'
  BY TaskMoves DEF RepairInv, TypeOK, TaskGoes
<1>2. ASSUME NEW u \in Diagnoses PROVE DiagnosisTrue(u)'
  <2>1. CASE u # d
    BY <2>1, DiagnosisKept DEF RepairInv, TypeOK, TaskGoes
  <2>2. CASE u = d
    <3>1. task'[d] = [task[d] EXCEPT !.at = "done"] /\ task[d] \in TaskState
      BY DEF RepairInv, TypeOK, TaskGoes
    <3>2. task'[d].at = "done" /\ task'[d].damages = task[d].damages
      BY <3>1, TaskMoves
    <3>. QED  BY <2>2, <3>2 DEF RepairInv, TypeOK, DiagnosisTrue, TaskGoes
  <2>. QED  BY <2>1, <2>2
<1>. QED
  BY <1>1, <1>2, BookingsKept DEF BookingVars, NeedsRepair, RepairInv

LEMMA TaskFailInv ==
  ASSUME RepairInv, NEW d \in Diagnoses, TaskFail(d)
  PROVE  RepairInv'
<1>. USE DEF TaskFail
<1>1. TypeOK'
  BY TaskMoves DEF RepairInv, TypeOK, TaskGoes
<1>2. ASSUME NEW u \in Diagnoses PROVE DiagnosisTrue(u)'
  <2>1. CASE u # d
    BY <2>1, DiagnosisKept DEF RepairInv, TypeOK, TaskGoes
  <2>2. CASE u = d
    <3>1. task'[d] = [task[d] EXCEPT !.at = "done"] /\ task[d] \in TaskState
      BY DEF RepairInv, TypeOK, TaskGoes
    <3>2. task'[d].at = "done" /\ task'[d].damages = task[d].damages
      BY <3>1, TaskMoves
    <3>. QED  BY <2>2, <3>2 DEF RepairInv, TypeOK, DiagnosisTrue, TaskGoes
  <2>. QED  BY <2>1, <2>2
<1>. QED
  BY <1>1, <1>2, BookingsKept DEF BookingVars, NeedsRepair, RepairInv

LEMMA TaskDiagnoseInv ==
  ASSUME RepairInv, NEW d \in Diagnoses, TaskDiagnose(d)
  PROVE  RepairInv'
<1>. USE DEF TaskDiagnose
<1>0. PICK t \in TaskState :
        /\ task' = [task EXCEPT ![d] = t]
        /\ t.at \in {"insert", "fail"}
        /\ Honest(t.damages)
  <2>1. ASSUME NEW severities \in SUBSET Severities,
               task' = [task EXCEPT ![d] =
                          [at |-> "insert", damages |-> {DamageOf(v) : v \in severities}]]
        PROVE  \E t \in TaskState : /\ task' = [task EXCEPT ![d] = t]
                                    /\ t.at \in {"insert", "fail"}
                                    /\ Honest(t.damages)
    <3>1. [at |-> "insert", damages |-> {DamageOf(v) : v \in severities}] \in TaskState
      BY DamageShape DEF TaskState
    <3>. QED  BY <2>1, <3>1, DamageShape
  <2>2. CASE TaskGoes(d, "fail")
    <3>1. task[d] \in TaskState /\ Honest(task[d].damages)
      BY DEF RepairInv, TypeOK, DiagnosisTrue
    <3>2. task' = [task EXCEPT ![d] = [task[d] EXCEPT !.at = "fail"]]
      BY <2>2 DEF TaskGoes
    <3>. QED  BY <3>1, <3>2, TaskMoves
  <2>. QED  BY <2>1, <2>2
<1>1. TypeOK'
  BY <1>0 DEF RepairInv, TypeOK, dbVars
<1>2. ASSUME NEW u \in Diagnoses PROVE DiagnosisTrue(u)'
  <2>1. CASE u # d
    BY <1>0, <2>1, DiagnosisKept DEF RepairInv, TypeOK, dbVars
  <2>2. CASE u = d
    BY <1>0, <2>2 DEF RepairInv, TypeOK, DiagnosisTrue, dbVars
  <2>. QED  BY <2>1, <2>2
<1>. QED
  BY <1>1, <1>2, BookingsKept DEF BookingVars, NeedsRepair, RepairInv, dbVars, TypeOK

LEMMA TaskInsertInv ==
  ASSUME RepairInv, NEW d \in Diagnoses, TaskInsert(d)
  PROVE  RepairInv'
<1>. USE DEF TaskInsert
<1>0. /\ task[d].damages \in SUBSET Damage
      /\ Honest(task[d].damages)
      /\ [damages |-> task[d].damages, repairNeeded |-> Needed(task[d].damages)] \in Diagnosis
      /\ [damages |-> task[d].damages, repairNeeded |-> Needed(task[d].damages)] # NoRow
  <2>1. task[d].damages \in SUBSET Damage /\ Honest(task[d].damages)
    BY DEF RepairInv, TypeOK, TaskState, DiagnosisTrue
  <2>. QED  BY <2>1, NeededFor, RepairAssumption DEF Diagnosis
<1>1. TypeOK'
  BY <1>0 DEF RepairInv, TypeOK, TaskState
<1>2. ASSUME NEW u \in Diagnoses PROVE DiagnosisTrue(u)'
  <2>1. CASE u # d
    BY <2>1, DiagnosisKept DEF RepairInv, TypeOK, dbVars
  <2>2. CASE u = d
    BY <1>0, <2>2 DEF RepairInv, TypeOK, DiagnosisTrue, Honest
  <2>. QED  BY <2>1, <2>2
<1>. QED
  BY <1>1, <1>2, BookingsKept DEF BookingVars, NeedsRepair, RepairInv, TypeOK, DiagnosisTrue

-----------------------------------------------------------------------------
(***************************************************************************)
(* Bookings and cancellations.                                             *)
(***************************************************************************)
DiagnosisVars == <<jobs, diagnoses, request, task>>

\* A step that leaves the diagnoses and the reservations to their rows and
\* gives session s another state.
LEMMA ContinueInv ==
  ASSUME RepairInv, NEW s \in Sessions, NEW t \in TxState, Continue(s, t),
         t.at \in {"store", "slot", "insert"} =>
           NeedsRepair(t.book.diagnosis) /\ t.book.before \subseteq issued,
         t.at = "insert" =>
           \A r \in t.book.before : ~(Confirmed(r) /\ Takes(r, t.book.store, t.book.slot))
  PROVE  RepairInv'
<1>. USE DEF Continue, dbVars
<1>0. tx' = [tx EXCEPT ![s] = t] /\ tx'[s] = t
  BY DEF RepairInv, TypeOK
<1>1. TypeOK'
  BY DEF RepairInv, TypeOK
<1>2. ASSUME NEW d \in Diagnoses PROVE DiagnosisTrue(d)'
  BY DiagnosisKept
<1>3. ASSUME NEW r \in Reservations PROVE ReservationTrue(r)'
  BY DEF RepairInv, ReservationTrue, NeedsRepair
<1>4. ASSUME NEW u \in Sessions PROVE BookingTrue(u)'
  <2>1. CASE u = s
    BY <1>0, <2>1 DEF BookingTrue, NeedsRepair
  <2>2. CASE u # s
    BY <1>0, <2>2 DEF RepairInv, TypeOK, BookingTrue, NeedsRepair
  <2>. QED  BY <2>1, <2>2
<1>5. LaterBookingYields'
  <2>. SUFFICES ASSUME NEW u \in Sessions, tx'[u].at = "insert",
                       NEW r \in tx'[u].book.before
                PROVE  ~(Confirmed(r) /\ Takes(r, tx[u].book.store, tx[u].book.slot))'
    BY DEF LaterBookingYields
  <2>1. CASE u = s
    BY <1>0, <2>1 DEF Confirmed, Takes
  <2>2. CASE u # s
    BY <1>0, <2>2 DEF RepairInv, TypeOK, LaterBookingYields, Confirmed, Takes
  <2>. QED  BY <2>1, <2>2
<1>. QED  BY <1>1, <1>2, <1>3, <1>4, <1>5 DEF RepairInv

\* An id of a confirmed reservation has been issued.
LEMMA ConfirmedIssued ==
  ASSUME RepairInv, NEW r \in Reservations, Confirmed(r)
  PROVE  r \in issued
  BY DEF RepairInv, ReservationTrue, Confirmed

LEMMA BookReadDiagnosisInv ==
  ASSUME RepairInv, NEW s \in Sessions, NEW d \in Diagnoses, NEW store \in Stores,
         NEW slot \in Slots, BookReadDiagnosis(s, d, store, slot)
  PROVE  RepairInv'
<1> DEFINE b == [user |-> Owner[d], diagnosis |-> d, store |-> store, slot |-> slot,
                 before |-> {r \in Reservations : Confirmed(r)}]
           t == [at |-> "store", book |-> b]
<1>1. b \in Booking
  BY RepairAssumption DEF Booking
<1>2. t \in TxState /\ t.at = "store" /\ t.book = b
  BY <1>1 DEF TxState, BookingTx
<1>3. NeedsRepair(b.diagnosis) /\ b.before \subseteq issued
  BY ConfirmedIssued DEF BookReadDiagnosis, NeedsRepair
<1>4. Continue(s, t)
  BY DEF BookReadDiagnosis
<1>. HIDE DEF t, b
<1>5. PICK x \in TxState : x = t
  BY <1>2
<1>. QED  BY <1>2, <1>3, <1>4, <1>5, ContinueInv

LEMMA BookReadStoreInv ==
  ASSUME RepairInv, NEW s \in Sessions, BookReadStore(s)
  PROVE  RepairInv'
<1>1. PICK x \in BookingTx : x = tx[s]
  BY TxShape DEF RepairInv, TypeOK, BookReadStore
<1> DEFINE t == [x EXCEPT !.at = "slot"]
<1>2. t \in TxState /\ t.at = "slot" /\ t.book = x.book
  BY BookingMoves
<1>3. NeedsRepair(x.book.diagnosis) /\ x.book.before \subseteq issued
  BY <1>1 DEF RepairInv, BookingTrue, BookReadStore
<1>4. Continue(s, t)
  BY <1>1 DEF BookReadStore
<1>. HIDE DEF t
<1>. QED  BY <1>2, <1>3, <1>4, ContinueInv

LEMMA BookReadSlotInv ==
  ASSUME RepairInv, NEW s \in Sessions, BookReadSlot(s)
  PROVE  RepairInv'
<1>1. PICK x \in BookingTx : x = tx[s]
  BY TxShape DEF RepairInv, TypeOK, BookReadSlot
<1> DEFINE t == [x EXCEPT !.at = "insert"]
<1>2. t \in TxState /\ t.at = "insert" /\ t.book = x.book
  BY BookingMoves
<1>3. NeedsRepair(x.book.diagnosis) /\ x.book.before \subseteq issued
  BY <1>1 DEF RepairInv, BookingTrue, BookReadSlot
<1>4. Continue(s, t)
  BY <1>1 DEF BookReadSlot
<1>5. \A r \in x.book.before : ~(Confirmed(r) /\ Takes(r, x.book.store, x.book.slot))
  <2>1. x.book.before \subseteq Reservations
    BY DEF BookingTx, Booking
  <2>. QED  BY <1>1, <2>1 DEF BookReadSlot, SlotTaken
<1>. HIDE DEF t
<1>. QED  BY <1>2, <1>3, <1>4, ContinueInv, <1>5

LEMMA BookInsertInv ==
  ASSUME RepairInv, NEW s \in Sessions, NEW r \in Reservations, BookInsert(s, r)
  PROVE  RepairInv'
<1>. USE DEF BookInsert
<1> DEFINE b == tx[s].book
           row == [diagnosis |-> b.diagnosis, store |-> b.store, slot |-> b.slot,
                   status |-> "confirmed"]
<1>1. b \in Booking /\ NeedsRepair(b.diagnosis)
  BY TxShape DEF RepairInv, TypeOK, BookingTrue
<1>2. row \in Reservation /\ row.diagnosis = b.diagnosis
  BY <1>1 DEF Reservation, Booking
<1>3. Idle \in TxState /\ Idle.at = "idle"
  BY DEF TxState, Idle
<1>4. reservations' = [reservations EXCEPT ![r] = row]
  OBVIOUS
<1>. HIDE DEF row, b
<1>5. TypeOK'
  BY <1>2, <1>3, <1>4 DEF RepairInv, TypeOK
<1>6. ASSUME NEW d \in Diagnoses PROVE DiagnosisTrue(d)'
  BY DiagnosisKept
<1>7. ASSUME NEW v \in Reservations PROVE ReservationTrue(v)'
  <2>1. CASE v = r
    <3>1. reservations'[v] = row /\ v \in issued'
      BY <1>4, <2>1 DEF RepairInv, TypeOK
    <3>. QED  BY <1>1, <1>2, <3>1 DEF ReservationTrue, NeedsRepair
  <2>2. CASE v # r
    BY <1>4, <2>2 DEF RepairInv, TypeOK, ReservationTrue, NeedsRepair
  <2>. QED  BY <2>1, <2>2
<1>8. ASSUME NEW u \in Sessions PROVE BookingTrue(u)'
  BY <1>3 DEF RepairInv, TypeOK, BookingTrue, NeedsRepair
<1>9. LaterBookingYields'
  <2>. SUFFICES ASSUME NEW u \in Sessions, tx'[u].at = "insert",
                       NEW v \in tx'[u].book.before
                PROVE  ~(Confirmed(v) /\ Takes(v, tx[u].book.store, tx[u].book.slot))'
    BY DEF LaterBookingYields
  <2>1. u # s /\ tx'[u] = tx[u]
    BY <1>3 DEF RepairInv, TypeOK
  <2>2. v \in issued /\ v \in Reservations
    BY <2>1 DEF RepairInv, TypeOK, BookingTrue
  <2>3. reservations'[v] = reservations[v]
    BY <1>4, <2>2 DEF RepairInv, TypeOK
  <2>. QED  BY <2>1, <2>3 DEF RepairInv, LaterBookingYields, Confirmed, Takes
<1>. QED  BY <1>5, <1>6, <1>7, <1>8, <1>9 DEF RepairInv

LEMMA CancelReadInv ==
  ASSUME RepairInv, NEW s \in Sessions, NEW r \in Reservations, CancelRead(s, r)
  PROVE  RepairInv'
<1> DEFINE t == [at |-> "cancel", reservation |-> r]
<1>1. t \in TxState /\ t.at = "cancel"
  BY DEF TxState, CancelTx
<1>2. Continue(s, t)
  BY DEF CancelRead
<1>. HIDE DEF t
<1>. QED  BY <1>1, <1>2, ContinueInv

LEMMA RollbackInv ==
  ASSUME RepairInv, NEW s \in Sessions, Rollback(s)
  PROVE  RepairInv'
<1>1. Idle \in TxState /\ Idle.at = "idle"
  BY DEF TxState, Idle
<1>. QED  BY <1>1, ContinueInv DEF Rollback

\* A reservation is cancelled in its place: nothing else of it changes.
LEMMA CancelCommitRow ==
  ASSUME RepairInv, NEW s \in Sessions, CancelCommit(s)
  PROVE  \E r \in Reservations, row \in Reservation :
            /\ reservations' = [reservations EXCEPT ![r] = row]
            /\ reservations[r] \in Reservation
            /\ row.diagnosis = reservations[r].diagnosis
            /\ row.status = "cancelled"
            /\ reservations[r].status = "cancelled" => row = reservations[r]
<1>1. tx[s].reservation \in Reservations
  BY TxShape DEF RepairInv, TypeOK, CancelCommit
<1>2. reservations[tx[s].reservation] \in Reservation
  BY <1>1 DEF RepairInv, TypeOK, CancelCommit
<1>3. reservations' = [reservations EXCEPT ![tx[s].reservation] =
                         [reservations[tx[s].reservation] EXCEPT !.status = "cancelled"]]
  BY DEF CancelCommit
<1>. QED  BY <1>1, <1>2, <1>3, RowShape

LEMMA CancelCommitInv ==
  ASSUME RepairInv, NEW s \in Sessions, CancelCommit(s)
  PROVE  RepairInv'
<1>1. PICK r \in Reservations, row \in Reservation :
         /\ reservations' = [reservations EXCEPT ![r] = row]
         /\ reservations[r] \in Reservation
         /\ row.diagnosis = reservations[r].diagnosis
         /\ row.status = "cancelled"
  BY CancelCommitRow
<1>. USE DEF CancelCommit
<1>3. Idle \in TxState /\ Idle.at = "idle"
  BY DEF TxState, Idle
<1>4. /\ tx' = [tx EXCEPT ![s] = Idle]
      /\ UNCHANGED <<sources, jobs, diagnoses, request, task, passed, issued, crashes>>
  OBVIOUS
<1>. HIDE DEF CancelCommit
<1>5. TypeOK'
  BY <1>1, <1>3, <1>4 DEF RepairInv, TypeOK
<1>6. ASSUME NEW d \in Diagnoses PROVE DiagnosisTrue(d)'
  BY <1>4, DiagnosisKept
<1>7. ASSUME NEW v \in Reservations PROVE ReservationTrue(v)'
  <2>1. CASE v = r
    <3>1. reservations'[v] = row /\ reservations[r] # NoRow
      BY <1>1, <2>1, RowShape DEF RepairInv, TypeOK
    <3>. QED  BY <1>1, <1>4, <2>1, <3>1 DEF RepairInv, ReservationTrue, NeedsRepair
  <2>2. CASE v # r
    BY <1>1, <1>4, <2>2 DEF RepairInv, TypeOK, ReservationTrue, NeedsRepair
  <2>. QED  BY <2>1, <2>2
<1>8. ASSUME NEW u \in Sessions PROVE BookingTrue(u)'
  BY <1>3, <1>4 DEF RepairInv, TypeOK, BookingTrue, NeedsRepair
<1>9. LaterBookingYields'
  <2>. SUFFICES ASSUME NEW u \in Sessions, tx'[u].at = "insert",
                       NEW v \in tx'[u].book.before
                PROVE  ~(Confirmed(v) /\ Takes(v, tx[u].book.store, tx[u].book.slot))'
    BY DEF LaterBookingYields
  <2>1. u # s /\ tx'[u] = tx[u]
    BY <1>3, <1>4 DEF RepairInv, TypeOK
  <2>2. v \in issued /\ v \in Reservations
    BY <2>1 DEF RepairInv, TypeOK, BookingTrue
  <2>3. CASE v = r
    BY <1>1, <2>2, <2>3 DEF RepairInv, TypeOK, Confirmed
  <2>4. CASE v # r
    <3>1. reservations'[v] = reservations[v]
      BY <1>1, <2>2, <2>4 DEF RepairInv, TypeOK
    <3>. QED  BY <2>1, <3>1 DEF RepairInv, LaterBookingYields, Confirmed, Takes
  <2>. QED  BY <2>3, <2>4
<1>. QED  BY <1>5, <1>6, <1>7, <1>8, <1>9 DEF RepairInv

LEMMA RepairStepInv ==
  ASSUME RepairInv, NEW s \in Sessions, Repair(s)
  PROVE  RepairInv'
<1>1. ASSUME NEW d \in Diagnoses, NEW store \in Stores, NEW slot \in Slots,
             BookReadDiagnosis(s, d, store, slot)
      PROVE  RepairInv'
  BY <1>1, BookReadDiagnosisInv
<1>2. ASSUME NEW r \in Reservations, BookInsert(s, r) PROVE RepairInv'
  BY <1>2, BookInsertInv
<1>3. ASSUME NEW r \in Reservations, CancelRead(s, r) PROVE RepairInv'
  BY <1>3, CancelReadInv
<1>. QED
  BY <1>1, <1>2, <1>3, BookReadStoreInv, BookReadSlotInv, CancelCommitInv, RollbackInv
     DEF Repair

-----------------------------------------------------------------------------
(***************************************************************************)
(* Time, the clean-up and crashes.                                         *)
(***************************************************************************)
\* A step that touches neither diagnoses nor bookings.
LEMMA AsideInv ==
  ASSUME RepairInv, UNCHANGED DiagnosisVars, UNCHANGED BookingVars, TypeOK'
  PROVE  RepairInv'
<1>1. ASSUME NEW d \in Diagnoses PROVE DiagnosisTrue(d)'
  BY DiagnosisKept DEF DiagnosisVars
<1>2. \A d \in Diagnoses : NeedsRepair(d) => NeedsRepair(d)'
  BY DEF DiagnosisVars, NeedsRepair
<1>. QED  BY <1>1, <1>2, BookingsKept DEF RepairInv

LEMMA DayPassesInv ==
  ASSUME RepairInv, NEW d \in Diagnoses, DayPasses(d)
  PROVE  RepairInv'
<1>1. TypeOK'
  BY DEF DayPasses, dbVars, RepairInv, TypeOK
<1>. QED  BY <1>1, AsideInv DEF DayPasses, dbVars, DiagnosisVars, BookingVars

LEMMA CleanFilesInv ==
  ASSUME RepairInv, CleanFiles
  PROVE  RepairInv'
<1>1. TypeOK'
  BY DEF CleanFiles, RepairInv, TypeOK
<1>. QED  BY <1>1, AsideInv DEF CleanFiles, DiagnosisVars, BookingVars

\* The jobs that expire have no diagnosis, so the foreign keys take nothing.
LEMMA CleanJobsKeeps ==
  ASSUME RepairInv, CleanJobs
  PROVE  diagnoses' = diagnoses /\ reservations' = reservations
<1>1. \A d \in ExpiredJobs : diagnoses[d] = NoRow
  BY DEF ExpiredJobs
<1>2. \A r \in Reservations :
        ~(reservations[r] # NoRow /\ reservations[r].diagnosis \in ExpiredJobs)
  BY <1>1 DEF RepairInv, ReservationTrue, NeedsRepair
<1>3. diagnoses' = diagnoses
  BY <1>1 DEF CleanJobs, RepairInv, TypeOK
<1>4. reservations' = reservations
  BY <1>2 DEF CleanJobs, RepairInv, TypeOK
<1>. QED  BY <1>3, <1>4

LEMMA CleanJobsInv ==
  ASSUME RepairInv, CleanJobs
  PROVE  RepairInv'
<1>1. TypeOK'
  BY CleanJobsKeeps DEF CleanJobs, RepairInv, TypeOK
<1>2. ASSUME NEW d \in Diagnoses PROVE DiagnosisTrue(d)'
  <2>1. /\ diagnoses' = diagnoses /\ request' = request /\ task' = task
        /\ jobs'[d] \in {"none", jobs[d]}
    BY CleanJobsKeeps DEF CleanJobs, RepairInv, TypeOK
  <2>. QED  BY <2>1 DEF RepairInv, DiagnosisTrue
<1>3. UNCHANGED BookingVars
  BY CleanJobsKeeps DEF CleanJobs, BookingVars
<1>4. \A d \in Diagnoses : NeedsRepair(d) => NeedsRepair(d)'
  BY CleanJobsKeeps DEF NeedsRepair
<1>. QED  BY <1>1, <1>2, <1>3, <1>4, BookingsKept DEF RepairInv

LEMMA ServerCrashInv ==
  ASSUME RepairInv, ServerCrash
  PROVE  RepairInv'
<1>. USE DEF ServerCrash, dbVars
<1>1. /\ Idle \in TxState
      /\ Idle.at = "idle"
      /\ [at |-> "dead", damages |-> {}] \in TaskState
  BY DEF TxState, Idle, TaskState
<1>2. TypeOK'
  <2>1. crashes' \in 0 .. MaxCrashes
    BY RepairAssumption DEF RepairInv, TypeOK
  <2>. QED  BY <1>1, <2>1 DEF RepairInv, TypeOK
<1>3. ASSUME NEW d \in Diagnoses PROVE DiagnosisTrue(d)'
  <2>1. UNCHANGED <<jobs, diagnoses>> /\ (request'[d] = request[d] \/ request[d] = "create_job")
    BY DEF RepairInv, TypeOK
  <2>2. CASE TaskOver(d)
    <3>1. task'[d] = task[d]
      BY <2>2
    <3>2. task[d].at = "none" \/ request'[d] = request[d]
      BY <2>1 DEF RepairInv, DiagnosisTrue
    <3>. HIDE DEF ServerCrash
    <3>. QED  BY <2>1, <3>1, <3>2 DEF RepairInv, DiagnosisTrue
  <2>3. CASE ~TaskOver(d)
    <3>1. task'[d].at = "dead" /\ task'[d].damages = {}
      BY <2>3
    <3>2. request'[d] = "accepted" /\ task[d].at \notin {"none", "done"}
      BY <2>1, <2>3 DEF RepairInv, DiagnosisTrue, TaskOver
    <3>. HIDE DEF ServerCrash
    <3>. QED  BY <2>1, <3>1, <3>2 DEF RepairInv, DiagnosisTrue, Honest
  <2>. QED  BY <2>2, <2>3
<1>4. ASSUME NEW r \in Reservations PROVE ReservationTrue(r)'
  BY DEF RepairInv, ReservationTrue, NeedsRepair
<1>5. \A s \in Sessions : tx'[s].at = "idle"
  BY <1>1
<1>6. ASSUME NEW s \in Sessions PROVE BookingTrue(s)'
  BY <1>5 DEF BookingTrue
<1>7. LaterBookingYields'
  BY <1>5 DEF LaterBookingYields
<1>. QED  BY <1>2, <1>3, <1>4, <1>6, <1>7 DEF RepairInv

-----------------------------------------------------------------------------
(***************************************************************************)
(* The theorems.                                                           *)
(***************************************************************************)
LEMMA InitRepairInv == Init => RepairInv
<1>. SUFFICES ASSUME Init PROVE RepairInv
  OBVIOUS
<1>1. Idle \in TxState /\ Idle.at = "idle" /\ [at |-> "none", damages |-> {}] \in TaskState
  BY DEF TxState, Idle, TaskState
<1>2. TypeOK
  BY <1>1, RepairAssumption DEF Init, TypeOK
<1>3. ASSUME NEW d \in Diagnoses PROVE DiagnosisTrue(d)
  BY DEF Init, DiagnosisTrue, Honest
<1>4. ASSUME NEW r \in Reservations PROVE ReservationTrue(r)
  BY DEF Init, ReservationTrue
<1>5. ASSUME NEW s \in Sessions PROVE BookingTrue(s)
  BY <1>1 DEF Init, BookingTrue
<1>6. LaterBookingYields
  BY <1>1 DEF Init, LaterBookingYields
<1>. QED  BY <1>2, <1>3, <1>4, <1>5, <1>6 DEF RepairInv

LEMMA TaskStepInv ==
  ASSUME RepairInv, NEW d \in Diagnoses, Diagnose(d) \/ TaskStep(d) \/ DayPasses(d)
  PROVE  RepairInv'
  BY StoreSourceInv, CreateJobInv, TaskStartInv, TaskDiagnoseInv, TaskInsertInv,
     TaskReportInv, TaskFailInv, DayPassesInv DEF Diagnose, TaskStep

LEMMA RepairNextInv == RepairInv /\ [Next]_vars => RepairInv'
<1>. SUFFICES ASSUME RepairInv, [Next]_vars PROVE RepairInv'
  OBVIOUS
<1>1. ASSUME NEW d \in Diagnoses, Diagnose(d) \/ TaskStep(d) \/ DayPasses(d)
      PROVE  RepairInv'
  BY <1>1, TaskStepInv
<1>2. ASSUME NEW s \in Sessions, Repair(s) PROVE RepairInv'
  BY <1>2, RepairStepInv
<1>3. CASE UNCHANGED vars
  <2>1. TypeOK'
    BY <1>3 DEF RepairInv, TypeOK, vars
  <2>. QED  BY <1>3, <2>1, AsideInv DEF vars, DiagnosisVars, BookingVars
<1>. QED  BY <1>1, <1>2, <1>3, CleanFilesInv, CleanJobsInv, ServerCrashInv DEF Next

\* The inductive invariant holds for ever.
THEOREM RepairCorrect == Spec => []RepairInv
  BY InitRepairInv, RepairNextInv, PTL DEF Spec

\* Every row, task and transaction is well typed: in particular a provider's
\* answer is a damage the table takes.
THEOREM RepairTypeCorrect == Spec => []TypeOK
<1>1. RepairInv => TypeOK
  BY DEF RepairInv
<1>. QED  BY <1>1, RepairCorrect, PTL

\* A booking about to be made conflicts with no reservation that was confirmed
\* when its request began (create_repair_reservation's exists_confirmed_slot).
THEOREM RepairYields == Spec => []LaterBookingYields
<1>1. RepairInv => LaterBookingYields
  BY DEF RepairInv
<1>. QED  BY <1>1, RepairCorrect, PTL

\* A reservation stands for a diagnosis that is there and has a damage of medium
\* or high severity, whatever the clean-up and crashes do.
THEOREM RepairReservedForDamage == Spec => []ReservedForDamage
<1>1. RepairInv => ReservedForDamage
  <2>. SUFFICES ASSUME RepairInv, NEW r \in Reservations, reservations[r] # NoRow
                PROVE  /\ diagnoses[reservations[r].diagnosis] # NoRow
                       /\ \E damage \in diagnoses[reservations[r].diagnosis].damages :
                             damage.severity \in {"medium", "high"}
    BY DEF ReservedForDamage
  <2>1. PICK d \in Diagnoses : d = reservations[r].diagnosis
    BY RowShape DEF RepairInv, TypeOK
  <2>2. NeedsRepair(d)
    BY <2>1 DEF RepairInv, ReservationTrue
  <2>3. diagnoses[d] # NoRow /\ diagnoses[d].damages \in SUBSET Damage
    BY <2>2 DEF RepairInv, TypeOK, NeedsRepair, Diagnosis
  <2>4. Honest(diagnoses[d].damages) /\ Needed(diagnoses[d].damages)
    BY <2>2, <2>3 DEF RepairInv, DiagnosisTrue, NeedsRepair
  <2>. QED  BY <2>1, <2>3, <2>4, NeededFor
<1>. QED  BY <1>1, RepairCorrect, PTL

\* A job tells the truth about its diagnosis (JobService.update_status).
THEOREM RepairStatusIsTrue == Spec => []StatusIsTrue
<1>1. RepairInv => StatusIsTrue
  BY DEF RepairInv, DiagnosisTrue, StatusIsTrue
<1>. QED  BY <1>1, RepairCorrect, PTL

\* No step takes a reservation away or brings a cancelled one back.
THEOREM RepairReservationsStay == Spec => ReservationsStay
<1> DEFINE P == \A r \in Reservations :
                   reservations[r] # NoRow
                       => /\ reservations'[r] # NoRow
                          /\ reservations[r].status = "cancelled"
                                => reservations'[r] = reservations[r]
<1>1. RepairInv /\ [Next]_vars => P
  <2>. SUFFICES ASSUME RepairInv, [Next]_vars, NEW r \in Reservations,
                       reservations[r] # NoRow
                PROVE  /\ reservations'[r] # NoRow
                       /\ reservations[r].status = "cancelled"
                             => reservations'[r] = reservations[r]
    OBVIOUS
  <2>1. CASE reservations' = reservations
    BY <2>1
  <2>2. ASSUME NEW s \in Sessions, NEW v \in Reservations, BookInsert(s, v)
        PROVE  reservations'[r] = reservations[r]
    <3>1. r # v
      BY <2>2 DEF RepairInv, ReservationTrue, BookInsert
    <3>. QED  BY <2>2, <3>1 DEF RepairInv, TypeOK, BookInsert
  <2>3. ASSUME NEW s \in Sessions, CancelCommit(s)
        PROVE  /\ reservations'[r] # NoRow
               /\ reservations[r].status = "cancelled" => reservations'[r] = reservations[r]
    <3>1. PICK v \in Reservations, row \in Reservation :
             /\ reservations' = [reservations EXCEPT ![v] = row]
             /\ reservations[v].status = "cancelled" => row = reservations[v]
      BY <2>3, CancelCommitRow
    <3>. QED  BY <3>1, RowShape DEF RepairInv, TypeOK
  <2>4. CASE CleanJobs
    BY <2>4, CleanJobsKeeps
  <2>5. ASSUME NEW d \in Diagnoses, Diagnose(d) \/ TaskStep(d) \/ DayPasses(d)
        PROVE  reservations' = reservations
    BY <2>5 DEF Diagnose, StoreSource, CreateJob, TaskStep, TaskStart, TaskDiagnose,
                TaskInsert, TaskReport, TaskFail, DayPasses, dbVars
  <2>6. ASSUME NEW s \in Sessions, NEW d \in Diagnoses, NEW store \in Stores,
               NEW slot \in Slots, BookReadDiagnosis(s, d, store, slot)
        PROVE  reservations' = reservations
    BY <2>6 DEF BookReadDiagnosis, Continue, dbVars
  <2>7. ASSUME NEW s \in Sessions, NEW v \in Reservations, CancelRead(s, v)
        PROVE  reservations' = reservations
    BY <2>7 DEF CancelRead, Continue, dbVars
  <2>8. ASSUME NEW s \in Sessions, BookReadStore(s) \/ BookReadSlot(s) \/ Rollback(s)
        PROVE  reservations' = reservations
    BY <2>8 DEF BookReadStore, BookReadSlot, Rollback, Continue, dbVars
  <2>9. CASE CleanFiles \/ ServerCrash \/ UNCHANGED vars
    BY <2>9 DEF CleanFiles, ServerCrash, vars, dbVars
  <2>10. ASSUME NEW s \in Sessions, Repair(s)
         PROVE  /\ reservations'[r] # NoRow
                /\ reservations[r].status = "cancelled" => reservations'[r] = reservations[r]
    BY <2>2, <2>3, <2>6, <2>7, <2>8, <2>10 DEF Repair
  <2>. QED  BY <2>1, <2>4, <2>5, <2>9, <2>10 DEF Next
<1>2. RepairInv /\ [Next]_vars => [P]_vars
  BY <1>1
<1>. QED  BY <1>2, RepairCorrect, PTL DEF Spec, ReservationsStay
-----------------------------------------------------------------------------
(***************************************************************************)
(* Bookings of one slot that do not overlap.                               *)
(***************************************************************************)
\* No step but a booking makes a reservation of a slot confirmed.
Frees ==
    \A r \in Reservations :
        Confirmed(r)' => Confirmed(r) /\ reservations'[r].store = reservations[r].store
                                     /\ reservations'[r].slot = reservations[r].slot

LEMMA FreesKeeps ==
  ASSUME SlotInv, Frees, NEW s \in Sessions, tx'[s].at = "insert",
         tx'[s].at = tx[s].at, tx'[s].book = tx[s].book
  PROVE  ~SlotTaken(tx[s].book)'
  BY DEF SlotInv, Frees, SlotTaken, Takes

LEMMA FreesDoubles ==
  ASSUME SlotInv, Frees
  PROVE  NoDoubleBooking'
  BY DEF SlotInv, Frees, NoDoubleBooking, Takes

LEMMA ContinueSlot ==
  ASSUME RepairInv, SlotInv, NEW s \in Sessions, NEW t \in TxState, Continue(s, t),
         t.at = "insert" => ~SlotTaken(t.book)
  PROVE  SlotInv'
<1>1. reservations' = reservations /\ tx' = [tx EXCEPT ![s] = t]
  BY DEF Continue, dbVars
<1>2. ASSUME NEW u \in Sessions, tx'[u].at = "insert" PROVE ~SlotTaken(tx[u].book)'
  <2>1. CASE u = s
    BY <1>1, <1>2, <2>1 DEF RepairInv, TypeOK, SlotTaken, Confirmed, Takes
  <2>2. CASE u # s
    BY <1>1, <1>2, <2>2 DEF RepairInv, TypeOK, SlotInv, SlotTaken, Confirmed, Takes
  <2>. QED  BY <2>1, <2>2
<1>3. NoDoubleBooking'
  BY <1>1 DEF SlotInv, NoDoubleBooking, Confirmed, Takes
<1>. QED  BY <1>2, <1>3 DEF SlotInv

LEMMA BookReadSlotSlot ==
  ASSUME RepairInv, SlotInv, NEW s \in Sessions, BookReadSlot(s)
  PROVE  SlotInv'
<1> DEFINE t == [tx[s] EXCEPT !.at = "insert"]
<1>1. tx[s] \in BookingTx
  BY TxShape DEF BookReadSlot, RepairInv, TypeOK
<1>2. t \in TxState /\ t.book = tx[s].book
  BY <1>1, BookingMoves
<1>3. ~SlotTaken(tx[s].book) /\ Continue(s, t)
  BY DEF BookReadSlot
<1>. HIDE DEF t
<1>. QED  BY <1>2, <1>3, ContinueSlot

\* The one booking of its slot finds it as free as its last read did.
LEMMA BookInsertSlot ==
  ASSUME RepairInv, BookingsApart, SlotInv, NEW s \in Sessions, NEW r \in Reservations,
         BookInsert(s, r)
  PROVE  SlotInv'
<1>. PICK b, row : /\ b = tx[s].book
                   /\ row = [diagnosis |-> b.diagnosis, store |-> b.store, slot |-> b.slot,
                             status |-> "confirmed"]
  OBVIOUS
<1>1. tx[s].at = "insert" /\ ~SlotTaken(b)
  BY DEF BookInsert, SlotInv
<1>2. b \in Booking /\ row \in Reservation
      /\ row.store = b.store /\ row.slot = b.slot /\ row # NoRow
  <2>1. b \in Booking
    BY <1>1, TxShape DEF RepairInv, TypeOK
  <2>2. row \in Reservation
    BY <2>1 DEF Reservation, Booking
  <2>. QED  BY <2>1, <2>2, RowShape
<1>3. /\ reservations' = [reservations EXCEPT ![r] = row] /\ r \notin issued
      /\ tx' = [tx EXCEPT ![s] = Idle]
  BY DEF BookInsert
<1>4. /\ reservations'[r] = row /\ ~Confirmed(r)
      /\ \A v \in Reservations \ {r} : reservations'[v] = reservations[v]
      /\ tx'[s].at = "idle" /\ \A u \in Sessions \ {s} : tx'[u] = tx[u]
  BY <1>3 DEF RepairInv, TypeOK, ReservationTrue, Confirmed, Idle
<1>5. \A v \in Reservations \ {r} :
        Confirmed(v) => ~(reservations[v].store = b.store /\ reservations[v].slot = b.slot)
  BY <1>1 DEF SlotTaken, Takes
<1>6. NoDoubleBooking'
  <2>. SUFFICES ASSUME NEW v \in Reservations, NEW w \in Reservations,
                       Confirmed(v)', Confirmed(w)',
                       reservations'[v].store = reservations'[w].store,
                       reservations'[v].slot = reservations'[w].slot
                PROVE  v = w
    BY DEF NoDoubleBooking, Takes
  <2>1. CASE v = r \/ w = r
    BY <1>2, <1>4, <1>5, <2>1 DEF Confirmed
  <2>2. CASE v # r /\ w # r
    BY <1>4, <2>2 DEF SlotInv, NoDoubleBooking, Confirmed, Takes
  <2>. QED  BY <2>1, <2>2
<1>7. ASSUME NEW u \in Sessions, tx'[u].at = "insert" PROVE ~SlotTaken(tx[u].book)'
  <2>1. u # s /\ tx'[u] = tx[u]
    BY <1>4, <1>7
  <2>2. ~(b.store = tx[u].book.store /\ b.slot = tx[u].book.slot)
    BY <1>1, <1>2, <1>7, <2>1 DEF BookingsApart, BookingSlot, Booking
  <2>3. ~SlotTaken(tx[u].book)
    BY <1>7, <2>1 DEF SlotInv
  <2>. QED  BY <1>2, <1>4, <2>1, <2>2, <2>3 DEF SlotTaken, Confirmed, Takes
<1>. QED  BY <1>6, <1>7 DEF SlotInv

LEMMA RepairStepSlot ==
  ASSUME RepairInv, BookingsApart, SlotInv, NEW s \in Sessions, Repair(s)
  PROVE  SlotInv'
<1>1. ASSUME NEW d \in Diagnoses, NEW store \in Stores, NEW slot \in Slots,
             BookReadDiagnosis(s, d, store, slot)
      PROVE  SlotInv'
  <2> DEFINE t == [at |-> "store",
                   book |-> [user |-> Owner[d], diagnosis |-> d, store |-> store, slot |-> slot,
                             before |-> {r \in Reservations : Confirmed(r)}]]
  <2>1. t \in TxState /\ t.at = "store"
    BY RepairAssumption DEF TxState, BookingTx, Booking
  <2>2. Continue(s, t)
    BY <1>1 DEF BookReadDiagnosis
  <2>. HIDE DEF t
  <2>. QED  BY <2>1, <2>2, ContinueSlot
<1>2. CASE BookReadStore(s)
  <2> DEFINE t == [tx[s] EXCEPT !.at = "slot"]
  <2>1. t \in TxState /\ t.at = "slot"
    BY <1>2, TxShape, BookingMoves DEF BookReadStore, RepairInv, TypeOK
  <2>2. Continue(s, t)
    BY <1>2 DEF BookReadStore
  <2>. HIDE DEF t
  <2>. QED  BY <2>1, <2>2, ContinueSlot
<1>3. ASSUME NEW r \in Reservations, CancelRead(s, r) PROVE SlotInv'
  <2> DEFINE t == [at |-> "cancel", reservation |-> r]
  <2>1. t \in TxState /\ t.at = "cancel"
    BY DEF TxState, CancelTx
  <2>2. Continue(s, t)
    BY <1>3 DEF CancelRead
  <2>. HIDE DEF t
  <2>. QED  BY <2>1, <2>2, ContinueSlot
<1>4. CASE CancelCommit(s)
  <2>1. PICK r \in Reservations, row \in Reservation :
          /\ reservations' = [reservations EXCEPT ![r] = row]
          /\ row.status = "cancelled"
    BY <1>4, CancelCommitRow
  <2>2. \A v \in Reservations : Confirmed(v)' => reservations'[v] = reservations[v]
    BY <2>1 DEF RepairInv, TypeOK, Confirmed
  <2>3. Frees
    BY <2>2 DEF Frees, Confirmed
  <2>4. ASSUME NEW u \in Sessions, tx'[u].at = "insert" PROVE tx'[u] = tx[u]
    BY <1>4, <2>4 DEF CancelCommit, RepairInv, TypeOK, Idle
  <2>5. ASSUME NEW u \in Sessions, tx'[u].at = "insert" PROVE ~SlotTaken(tx[u].book)'
    BY <2>3, <2>4, <2>5, FreesKeeps
  <2>. QED  BY <2>3, <2>5, FreesDoubles DEF SlotInv
<1>5. CASE Rollback(s)
  <2>1. Idle \in TxState /\ Idle.at = "idle"
    BY DEF TxState, Idle
  <2>. QED  BY <1>5, <2>1, ContinueSlot DEF Rollback
<1>. QED  BY <1>1, <1>2, <1>3, <1>4, <1>5, BookReadSlotSlot, BookInsertSlot DEF Repair

LEMMA SlotStep ==
  ASSUME RepairInv, BookingsApart, SlotInv, [Next]_vars
  PROVE  SlotInv'
<1>1. ASSUME UNCHANGED <<reservations, tx>> PROVE SlotInv'
  BY <1>1 DEF SlotInv, NoDoubleBooking, SlotTaken, Confirmed, Takes
<1>2. ASSUME NEW d \in Diagnoses, Diagnose(d) \/ TaskStep(d) \/ DayPasses(d)
      PROVE  UNCHANGED <<reservations, tx>>
  BY <1>2 DEF Diagnose, StoreSource, CreateJob, TaskStep, TaskStart, TaskDiagnose, TaskInsert,
              TaskReport, TaskFail, DayPasses, dbVars
<1>3. CASE CleanFiles
  BY <1>1, <1>3 DEF CleanFiles
<1>4. CASE CleanJobs
  BY <1>1, <1>4, CleanJobsKeeps DEF CleanJobs
<1>5. CASE ServerCrash
  <2>1. reservations' = reservations /\ \A u \in Sessions : tx'[u].at = "idle"
    BY <1>5 DEF ServerCrash, dbVars, Idle
  <2>. QED  BY <2>1 DEF SlotInv, NoDoubleBooking, Confirmed, Takes
<1>6. CASE UNCHANGED vars
  BY <1>1, <1>6 DEF vars
<1>. QED  BY <1>1, <1>2, <1>3, <1>4, <1>5, <1>6, RepairStepSlot DEF Next

\* exists_confirmed_slot does its work: while no two bookings of one slot overlap,
\* and whatever else does, a slot is confirmed to one reservation.
THEOREM RepairSlotOnce == Spec /\ []BookingsApart => []NoDoubleBooking
<1>1. Init => SlotInv
  BY DEF Init, SlotInv, NoDoubleBooking, Confirmed, Idle
<1>2. RepairInv /\ BookingsApart /\ SlotInv /\ [Next]_vars => SlotInv'
  BY SlotStep
<1>3. SlotInv => NoDoubleBooking
  BY DEF SlotInv
<1>. QED  BY <1>1, <1>2, <1>3, RepairCorrect, PTL DEF Spec
=============================================================================

---------------------------- MODULE TryOnJobsProofs ----------------------------
(***************************************************************************)
(* Theorems about TryOnJobs for any requests, guests, members, photo limit *)
(* and number of crashes.                                                  *)
(***************************************************************************)
EXTENDS TryOnJobs, FiniteSetTheorems, TLAPS

\* Every proof may look into the sets of row states.
USE DEF FileRow, JobRow, TryOnRow

\* Where a request is tells what there is of its photo and its task.
RequestTrue(r) ==
    /\ request[r].at # "accepted" => task[r] = "none"
    /\ request[r].at \in {"new", "upload"} => Source(r) \notin blobs
    /\ request[r].at \in {"new", "upload", "stored"} =>
         files[Source(r)] = "none" /\ Source(r) \notin cleaner.gone
    /\ Source(r) \in blobs /\ files[Source(r)] = "none"
         => request[r].at \in {"stored", "dead"}

\* Why the result of a job that reported success may be missing.
Accounted(r) ==
    \/ tryOns[r] # "none"
    \/ Result(r) \in passed
    \/ wish[r] = "delete"
    \/ Owner[r] \in Guests \cap passed

BeforeBlob == {"none", "scheduled", "source", "generate", "render", "fail"}
AfterRow == {"report", "done", "dead"}

\* Where a task is tells what there is of its result.
TaskTrue(r) ==
    /\ task[r] \in BeforeBlob => Result(r) \notin blobs
    /\ task[r] \in BeforeBlob \cup {"stored"} =>
         files[Result(r)] = "none" /\ Result(r) \notin cleaner.gone
    /\ Result(r) \in blobs /\ files[Result(r)] = "none" => task[r] \in {"stored", "dead"}
    /\ task[r] = "stored" /\ Result(r) \notin passed => Result(r) \in blobs
    /\ task[r] = "insert" /\ Result(r) \notin passed => Downloadable(Result(r))
    /\ tryOns[r] # "none" => task[r] \in AfterRow
    /\ tryOns[r] = "unsaved" /\ Result(r) \notin passed => Downloadable(Result(r))

JobTrue(r) ==
    /\ jobs[r] \in {"succeeded", "failed"} => task[r] = "done"
    /\ jobs[r] = "succeeded" \/ task[r] = "report" => Accounted(r)
    /\ jobs[r] = "failed" \/ task[r] = "fail"
         => tryOns[r] = "none" /\ files[Result(r)] = "none"

\* What a save or a delete of a member has read.
CallTrue(r, c) ==
    /\ client[r][c] # "idle" => task[r] \in AfterRow
    /\ client[r][c] = "save" => ByMember(r)
    /\ client[r][c] \in {"delete", "delete_rows"} => tryOns[r] # "unsaved"
    /\ client[r][c] = "delete_rows" =>
         /\ wish[r] = "delete"
         /\ Result(r) \in blobs => task[r] = "dead"

\* What its wish keeps: a result saved with none had expired.
ClientTrue(r) ==
    /\ \A c \in Calls : CallTrue(r, c)
    /\ tryOns[r] = "saved" /\ wish[r] = "none" => Result(r) \in passed
    /\ wish[r] = "keep" =>
         /\ ByMember(r)
         /\ tryOns[r] = "saved"
         /\ files[Result(r)] = "kept"
         /\ Result(r) \in blobs
         /\ Result(r) \notin cleaner.gone

\* What the clean-up has listed had expired and is not to be kept, and what it
\* is about to delete from the database is gone from the disk.
CleanerTrue ==
    /\ cleaner.gone \subseteq passed
    /\ cleaner.at = "try_ons" =>
         /\ cleaner.todo \subseteq cleaner.rows
         /\ \A r \in cleaner.rows : Result(r) \in passed /\ wish[r] # "keep"
         /\ cleaner.gone \cap blobs = {}
    /\ cleaner.at = "files" =>
         /\ cleaner.todo \subseteq cleaner.gone
         /\ \A f \in cleaner.gone : f \in cleaner.todo \/ f \notin blobs

TryOnTrue(r) == RequestTrue(r) /\ TaskTrue(r) /\ JobTrue(r) /\ ClientTrue(r)

TryOnInv ==
    /\ TypeOK
    /\ \A r \in Requests : TryOnTrue(r)
    /\ CleanerTrue

-----------------------------------------------------------------------------
(***************************************************************************)
(* A step of one request and the others.                                   *)
(***************************************************************************)
LEMMA FileShape ==
  /\ \A r \in Requests : Source(r) \in FileIds /\ Result(r) \in FileIds
  /\ \A r, v \in Requests : Source(r) # Result(v)
  /\ \A r, v \in Requests : r # v => Source(r) # Source(v) /\ Result(r) # Result(v)
  BY DEF Source, Result, FileIds

\* What TryOnTrue reads of v stays as it is, but for the time that passes.
Same(v) ==
    /\ request'[v].at = request[v].at
    /\ task'[v] = task[v]
    /\ jobs'[v] = jobs[v]
    /\ tryOns'[v] = tryOns[v]
    /\ client'[v] = client[v]
    /\ wish'[v] = wish[v]
    /\ files'[Source(v)] = files[Source(v)]
    /\ files'[Result(v)] = files[Result(v)]
    /\ Source(v) \in blobs' <=> Source(v) \in blobs
    /\ Result(v) \in blobs' <=> Result(v) \in blobs
    /\ Source(v) \in cleaner'.gone => Source(v) \in cleaner.gone
    /\ Result(v) \in cleaner'.gone => Result(v) \in cleaner.gone
    /\ passed \subseteq passed'

\* Saves and deletes wait until there is a result, and then only for a row that
\* comes no more.
LEMMA CallsKept ==
  ASSUME NEW v \in Requests, \A c \in Calls : CallTrue(v, c), client'[v] = client[v],
         task[v] \in AfterRow => task'[v] \in AfterRow,
         task[v] = "dead" => task'[v] = "dead",
         tryOns'[v] = "unsaved" => tryOns[v] = "unsaved" \/ task[v] \notin AfterRow,
         wish[v] = "delete" => wish'[v] = "delete",
         Result(v) \in blobs' => Result(v) \in blobs \/ task[v] \notin AfterRow
  PROVE  \A c \in Calls : CallTrue(v, c)'
  BY DEF CallTrue, ByMember

LEMMA SameTrue ==
  ASSUME NEW v \in Requests, TryOnTrue(v), Same(v)
  PROVE  TryOnTrue(v)'
<1>. USE DEF Same, TryOnTrue
<1>1. RequestTrue(v)'
  BY DEF RequestTrue
<1>2. TaskTrue(v)'
  BY DEF TaskTrue, Downloadable
<1>3. Accounted(v) => Accounted(v)'
  BY DEF Accounted
<1>4. JobTrue(v)'
  BY <1>3 DEF JobTrue
<1>5. ClientTrue(v)'
  BY DEF ClientTrue, CallTrue, ByMember
<1>. QED  BY <1>1, <1>2, <1>4, <1>5

\* The clean-up stays as it is: no file it is about to remove from the database
\* comes back, and no result it has listed is to be kept.
LEMMA CleanerKept ==
  ASSUME TryOnInv, cleaner' = cleaner, passed \subseteq passed',
         cleaner.gone \cap blobs' \subseteq blobs,
         \A r \in Requests : wish'[r] = "keep" => wish[r] = "keep" \/ Result(r) \notin passed
  PROVE  CleanerTrue'
<1>1. cleaner.rows \subseteq Requests
  BY DEF TryOnInv, TypeOK, CleanerState
<1>. QED  BY <1>1 DEF TryOnInv, CleanerTrue

-----------------------------------------------------------------------------
(***************************************************************************)
(* The request.                                                            *)
(***************************************************************************)
LEMMA RequestMoves ==
  ASSUME TypeOK, NEW r \in Requests, NEW at \in RequestAt, RequestGoes(r, at)
  PROVE  /\ request' \in [Requests -> [at : RequestAt, count : Nat]]
         /\ request'[r].at = at
         /\ \A v \in Requests \ {r} : request'[v] = request[v]
  BY DEF TypeOK, RequestGoes

LEMMA AcceptAvatarInv ==
  ASSUME TryOnInv, NEW r \in Requests, AcceptAvatar(r)
  PROVE  TryOnInv'
<1>. USE DEF AcceptAvatar, dbVars
<1>0. /\ request' \in [Requests -> [at : RequestAt, count : Nat]]
      /\ request'[r].at = "create_job"
      /\ \A v \in Requests \ {r} : request'[v] = request[v]
  BY RequestMoves DEF TryOnInv, RequestAt
<1>1. TypeOK'
  BY <1>0 DEF TryOnInv, TypeOK
<1>2. ASSUME NEW v \in Requests, v # r PROVE TryOnTrue(v)'
  BY <1>0, <1>2, SameTrue DEF TryOnInv, Same
<1>3. TryOnTrue(r)'
  BY <1>0 DEF TryOnInv, TryOnTrue, RequestTrue, TaskTrue, JobTrue, ClientTrue, CallTrue, Accounted,
              Downloadable
<1>4. CleanerTrue'
  BY CleanerKept
<1>. QED  BY <1>1, <1>2, <1>3, <1>4 DEF TryOnInv

LEMMA AcceptPhotoInv ==
  ASSUME TryOnInv, NEW r \in Requests, AcceptPhoto(r)
  PROVE  TryOnInv'
<1>. USE DEF AcceptPhoto, dbVars
<1>0. /\ request' \in [Requests -> [at : RequestAt, count : Nat]]
      /\ request'[r].at = "upload"
      /\ \A v \in Requests \ {r} : request'[v] = request[v]
  <2> DEFINE n == IF ByGuest(r) THEN photoCount[Owner[r]] ELSE 0
  <2>1. n \in Nat
    BY DEF TryOnInv, TypeOK, ByGuest
  <2>2. request' = [request EXCEPT ![r] = [at |-> "upload", count |-> n]]
    OBVIOUS
  <2>. HIDE DEF n
  <2>. QED  BY <2>1, <2>2 DEF TryOnInv, TypeOK, RequestAt
<1>1. TypeOK'
  BY <1>0, FileShape DEF TryOnInv, TypeOK
<1>2. ASSUME NEW v \in Requests, v # r PROVE TryOnTrue(v)'
  BY <1>0, <1>2, FileShape, SameTrue DEF TryOnInv, TypeOK, Same
<1>3. TryOnTrue(r)'
  BY <1>0, FileShape DEF TryOnInv, TypeOK, TryOnTrue, RequestTrue, TaskTrue, JobTrue,
                         ClientTrue, CallTrue, Accounted, Downloadable
<1>4. CleanerTrue'
  BY <1>0, FileShape, CleanerKept DEF TryOnInv, TypeOK, TryOnTrue, RequestTrue, TaskTrue
<1>. QED  BY <1>1, <1>2, <1>3, <1>4 DEF TryOnInv

LEMMA StoreSourceInv ==
  ASSUME TryOnInv, NEW r \in Requests, StoreSource(r)
  PROVE  TryOnInv'
<1>. USE DEF StoreSource, dbVars
<1>0. /\ request' \in [Requests -> [at : RequestAt, count : Nat]]
      /\ request'[r].at = "stored"
      /\ \A v \in Requests \ {r} : request'[v] = request[v]
  BY RequestMoves DEF TryOnInv, RequestAt
<1>1. TypeOK'
  BY <1>0, FileShape DEF TryOnInv, TypeOK
<1>2. ASSUME NEW v \in Requests, v # r PROVE TryOnTrue(v)'
  BY <1>0, <1>2, FileShape, SameTrue DEF TryOnInv, TypeOK, Same
<1>3. TryOnTrue(r)'
  BY <1>0, FileShape DEF TryOnInv, TypeOK, TryOnTrue, RequestTrue, TaskTrue, JobTrue,
                         ClientTrue, CallTrue, Accounted, Downloadable
<1>4. CleanerTrue'
  BY <1>0, FileShape, CleanerKept DEF TryOnInv, TypeOK, TryOnTrue, RequestTrue, TaskTrue
<1>. QED  BY <1>1, <1>2, <1>3, <1>4 DEF TryOnInv

LEMMA CommitSourceInv ==
  ASSUME TryOnInv, NEW r \in Requests, CommitSource(r)
  PROVE  TryOnInv'
<1>. USE DEF CommitSource, dbVars
<1>0. /\ request' \in [Requests -> [at : RequestAt, count : Nat]]
      /\ request'[r].at \in {"count", "create_job"}
      /\ \A v \in Requests \ {r} : request'[v] = request[v]
  <2>1. PICK at \in {"count", "create_job"} : RequestGoes(r, at)
    OBVIOUS
  <2>. QED  BY <2>1, RequestMoves DEF TryOnInv, RequestAt
<1>1. TypeOK'
  BY <1>0, FileShape DEF TryOnInv, TypeOK
<1>2. ASSUME NEW v \in Requests, v # r PROVE TryOnTrue(v)'
  BY <1>0, <1>2, FileShape, SameTrue DEF TryOnInv, TypeOK, Same
<1>3. TryOnTrue(r)'
  BY <1>0, FileShape DEF TryOnInv, TypeOK, TryOnTrue, RequestTrue, TaskTrue, JobTrue,
                         ClientTrue, CallTrue, Accounted, Downloadable
<1>4. CleanerTrue'
  BY <1>0, FileShape, CleanerKept DEF TryOnInv, TypeOK, TryOnTrue, RequestTrue, TaskTrue
<1>. QED  BY <1>1, <1>2, <1>3, <1>4 DEF TryOnInv

LEMMA FailSourceInv ==
  ASSUME TryOnInv, NEW r \in Requests, FailSource(r)
  PROVE  TryOnInv'
<1>. USE DEF FailSource, dbVars
<1>0. /\ request' \in [Requests -> [at : RequestAt, count : Nat]]
      /\ request'[r].at = "dead"
      /\ \A v \in Requests \ {r} : request'[v] = request[v]
  BY RequestMoves DEF TryOnInv, RequestAt
<1>1. TypeOK'
  BY <1>0, FileShape DEF TryOnInv, TypeOK
<1>2. ASSUME NEW v \in Requests, v # r PROVE TryOnTrue(v)'
  BY <1>0, <1>2, FileShape, SameTrue DEF TryOnInv, TypeOK, Same
<1>3. TryOnTrue(r)'
  BY <1>0, FileShape DEF TryOnInv, TypeOK, TryOnTrue, RequestTrue, TaskTrue, JobTrue,
                         ClientTrue, CallTrue, Accounted, Downloadable
<1>4. CleanerTrue'
  BY <1>0, FileShape, CleanerKept DEF TryOnInv, TypeOK, TryOnTrue, RequestTrue, TaskTrue
<1>. QED  BY <1>1, <1>2, <1>3, <1>4 DEF TryOnInv

LEMMA CountPhotoInv ==
  ASSUME TryOnInv, NEW r \in Requests, CountPhoto(r)
  PROVE  TryOnInv'
<1>. USE DEF CountPhoto, dbVars
<1>0. /\ request' \in [Requests -> [at : RequestAt, count : Nat]]
      /\ request'[r].at \in {"create_job", "dead"}
      /\ \A v \in Requests \ {r} : request'[v] = request[v]
      /\ photoCount' \in [Guests -> Nat]
  <2>1. PICK at \in {"create_job", "dead"} : RequestGoes(r, at)
    OBVIOUS
  <2>2. request[r].count \in Nat
    BY DEF TryOnInv, TypeOK
  <2>3. photoCount' \in [Guests -> Nat]
    BY <2>2 DEF TryOnInv, TypeOK
  <2>. QED  BY <2>1, <2>3, RequestMoves DEF TryOnInv, RequestAt
<1>1. TypeOK'
  BY <1>0, FileShape DEF TryOnInv, TypeOK
<1>2. ASSUME NEW v \in Requests, v # r PROVE TryOnTrue(v)'
  BY <1>0, <1>2, FileShape, SameTrue DEF TryOnInv, TypeOK, Same
<1>3. TryOnTrue(r)'
  BY <1>0, FileShape DEF TryOnInv, TypeOK, TryOnTrue, RequestTrue, TaskTrue, JobTrue,
                         ClientTrue, CallTrue, Accounted, Downloadable
<1>4. CleanerTrue'
  BY <1>0, FileShape, CleanerKept DEF TryOnInv, TypeOK, TryOnTrue, RequestTrue, TaskTrue
<1>. QED  BY <1>1, <1>2, <1>3, <1>4 DEF TryOnInv

LEMMA CreateJobInv ==
  ASSUME TryOnInv, NEW r \in Requests, CreateJob(r)
  PROVE  TryOnInv'
<1>. USE DEF CreateJob, dbVars
<1>0. /\ request' \in [Requests -> [at : RequestAt, count : Nat]]
      /\ request'[r].at = "accepted"
      /\ \A v \in Requests \ {r} : request'[v] = request[v]
  BY RequestMoves DEF TryOnInv, RequestAt
<1>1. TypeOK'
  BY <1>0, FileShape DEF TryOnInv, TypeOK, TaskAt
<1>2. ASSUME NEW v \in Requests, v # r PROVE TryOnTrue(v)'
  BY <1>0, <1>2, FileShape, SameTrue DEF TryOnInv, TypeOK, Same
<1>3. TryOnTrue(r)'
  <2>1. RequestTrue(r)'
    BY <1>0, FileShape DEF TryOnInv, TypeOK, TryOnTrue, RequestTrue
  <2>2. TaskTrue(r)'
    <3>1. /\ task[r] = "none" /\ task'[r] = "scheduled" /\ TaskTrue(r)
          /\ UNCHANGED <<files, blobs, tryOns, cleaner, passed>>
      BY DEF TryOnInv, TypeOK, TryOnTrue, RequestTrue
    <3>. QED  BY <3>1 DEF TaskTrue, Downloadable, BeforeBlob, AfterRow
  <2>3. JobTrue(r)'
    BY <1>0, FileShape
    DEF TryOnInv, TypeOK, TryOnTrue, RequestTrue, TaskTrue, JobTrue, ClientTrue, CallTrue, Accounted, BeforeBlob, AfterRow
  <2>5. \A c \in Calls : CallTrue(r, c)'
    BY <1>0, FileShape, CallsKept
    DEF TryOnInv, TypeOK, TryOnTrue, RequestTrue, ClientTrue, AfterRow
  <2>4. ClientTrue(r)'
    BY <1>0, <2>5, FileShape DEF TryOnInv, TypeOK, TryOnTrue, ClientTrue, ByMember
  <2>. QED  BY <2>1, <2>2, <2>3, <2>4 DEF TryOnTrue
<1>4. CleanerTrue'
  BY <1>0, FileShape, CleanerKept DEF TryOnInv, TypeOK, TryOnTrue, RequestTrue, TaskTrue
<1>. QED  BY <1>1, <1>2, <1>3, <1>4 DEF TryOnInv

LEMMA RequestStepInv ==
  ASSUME TryOnInv, NEW r \in Requests, RequestStep(r)
  PROVE  TryOnInv'
  BY AcceptAvatarInv, AcceptPhotoInv, StoreSourceInv, CommitSourceInv, FailSourceInv,
     CountPhotoInv, CreateJobInv DEF RequestStep

-----------------------------------------------------------------------------
(***************************************************************************)
(* The background task.                                                    *)
(***************************************************************************)
LEMMA TaskMoves ==
  ASSUME TypeOK, NEW r \in Requests, NEW at \in TaskAt, TaskGoes(r, at)
  PROVE  /\ task' \in [Requests -> TaskAt]
         /\ task'[r] = at
         /\ \A v \in Requests \ {r} : task'[v] = task[v]
  BY DEF TypeOK, TaskGoes

LEMMA StatusMoves ==
  ASSUME TypeOK, NEW r \in Requests, NEW status \in {"processing", "succeeded", "failed"},
         UpdateStatus(r, status)
  PROVE  /\ jobs' \in [Requests -> JobRow]
         /\ jobs'[r] = IF jobs[r] = "none" THEN "none" ELSE status
         /\ \A v \in Requests \ {r} : jobs'[v] = jobs[v]
  BY DEF TypeOK, UpdateStatus

LEMMA TaskStartInv ==
  ASSUME TryOnInv, NEW r \in Requests, TaskStart(r)
  PROVE  TryOnInv'
<1>. USE DEF TaskStart, dbVars
<1>a. /\ jobs' \in [Requests -> JobRow]
      /\ jobs'[r] = IF jobs[r] = "none" THEN "none" ELSE "processing"
      /\ \A v \in Requests \ {r} : jobs'[v] = jobs[v]
  BY StatusMoves DEF TryOnInv
<1>0. /\ task' \in [Requests -> TaskAt]
      /\ task'[r] \in {"dead", "source", "generate"}
      /\ \A v \in Requests \ {r} : task'[v] = task[v]
  <2>1. PICK at \in {"dead", "source", "generate"} : TaskGoes(r, at)
    OBVIOUS
  <2>. QED  BY <2>1, TaskMoves DEF TryOnInv, TaskAt
<1>1. TypeOK'
  BY <1>a, <1>0, FileShape DEF TryOnInv, TypeOK
<1>2. ASSUME NEW v \in Requests, v # r PROVE TryOnTrue(v)'
  BY <1>a, <1>0, <1>2, FileShape, SameTrue DEF TryOnInv, TypeOK, Same
<1>3. TryOnTrue(r)'
  BY <1>a, <1>0, FileShape
  DEF TryOnInv, TypeOK, TryOnTrue, RequestTrue, TaskTrue, JobTrue, ClientTrue, CallTrue,
       Accounted, Downloadable, BeforeBlob, AfterRow
<1>4. CleanerTrue'
  BY <1>a, <1>0, FileShape, CleanerKept
  DEF TryOnInv, TypeOK, TryOnTrue, TaskTrue, ClientTrue, CallTrue, BeforeBlob
<1>. QED  BY <1>1, <1>2, <1>3, <1>4 DEF TryOnInv

LEMMA TaskReadSourceInv ==
  ASSUME TryOnInv, NEW r \in Requests, TaskReadSource(r)
  PROVE  TryOnInv'
<1>. USE DEF TaskReadSource, dbVars
<1>0. /\ task' \in [Requests -> TaskAt]
      /\ task'[r] \in {"fail", "generate"}
      /\ \A v \in Requests \ {r} : task'[v] = task[v]
  <2>1. PICK at \in {"fail", "generate"} : TaskGoes(r, at)
    OBVIOUS
  <2>. QED  BY <2>1, TaskMoves DEF TryOnInv, TaskAt
<1>1. TypeOK'
  BY <1>0, FileShape DEF TryOnInv, TypeOK
<1>2. ASSUME NEW v \in Requests, v # r PROVE TryOnTrue(v)'
  BY <1>0, <1>2, FileShape, SameTrue DEF TryOnInv, TypeOK, Same
<1>3. TryOnTrue(r)'
  <2>1. \A c \in Calls : CallTrue(r, c)'
    BY <1>0, FileShape, CallsKept DEF TryOnInv, TryOnTrue, ClientTrue, AfterRow
  <2>. QED  BY <1>0, <2>1, FileShape
            DEF TryOnInv, TypeOK, TryOnTrue, RequestTrue, TaskTrue, JobTrue, ClientTrue,
                Accounted, Downloadable, BeforeBlob, AfterRow
<1>4. CleanerTrue'
  BY <1>0, FileShape, CleanerKept
  DEF TryOnInv, TypeOK, TryOnTrue, TaskTrue, ClientTrue, CallTrue, BeforeBlob
<1>. QED  BY <1>1, <1>2, <1>3, <1>4 DEF TryOnInv

LEMMA TaskGenerateInv ==
  ASSUME TryOnInv, NEW r \in Requests, TaskGenerate(r)
  PROVE  TryOnInv'
<1>. USE DEF TaskGenerate, dbVars
<1>0. /\ task' \in [Requests -> TaskAt]
      /\ task'[r] \in {"render", "fail"}
      /\ \A v \in Requests \ {r} : task'[v] = task[v]
  <2>1. PICK at \in {"render", "fail"} : TaskGoes(r, at)
    OBVIOUS
  <2>. QED  BY <2>1, TaskMoves DEF TryOnInv, TaskAt
<1>1. TypeOK'
  BY <1>0, FileShape DEF TryOnInv, TypeOK
<1>2. ASSUME NEW v \in Requests, v # r PROVE TryOnTrue(v)'
  BY <1>0, <1>2, FileShape, SameTrue DEF TryOnInv, TypeOK, Same
<1>3. TryOnTrue(r)'
  <2>1. \A c \in Calls : CallTrue(r, c)'
    BY <1>0, FileShape, CallsKept DEF TryOnInv, TryOnTrue, ClientTrue, AfterRow
  <2>. QED  BY <1>0, <2>1, FileShape
            DEF TryOnInv, TypeOK, TryOnTrue, RequestTrue, TaskTrue, JobTrue, ClientTrue,
                Accounted, Downloadable, BeforeBlob, AfterRow
<1>4. CleanerTrue'
  BY <1>0, FileShape, CleanerKept
  DEF TryOnInv, TypeOK, TryOnTrue, TaskTrue, ClientTrue, CallTrue, BeforeBlob
<1>. QED  BY <1>1, <1>2, <1>3, <1>4 DEF TryOnInv

LEMMA TaskStoreResultInv ==
  ASSUME TryOnInv, NEW r \in Requests, TaskStoreResult(r)
  PROVE  TryOnInv'
<1>. USE DEF TaskStoreResult, dbVars
<1>0. /\ task' \in [Requests -> TaskAt]
      /\ task'[r] \in {"stored"}
      /\ \A v \in Requests \ {r} : task'[v] = task[v]
  <2>1. PICK at \in {"stored"} : TaskGoes(r, at)
    OBVIOUS
  <2>. QED  BY <2>1, TaskMoves DEF TryOnInv, TaskAt
<1>1. TypeOK'
  BY <1>0, FileShape DEF TryOnInv, TypeOK
<1>2. ASSUME NEW v \in Requests, v # r PROVE TryOnTrue(v)'
  BY <1>0, <1>2, FileShape, SameTrue DEF TryOnInv, TypeOK, Same
<1>3. TryOnTrue(r)'
  <2>1. \A c \in Calls : CallTrue(r, c)'
    BY <1>0, FileShape, CallsKept DEF TryOnInv, TryOnTrue, ClientTrue, AfterRow
  <2>2. ClientTrue(r)'
    BY <1>0, <2>1, FileShape DEF TryOnInv, TryOnTrue, TaskTrue, ClientTrue, ByMember
  <2>3. RequestTrue(r)' /\ TaskTrue(r)' /\ JobTrue(r)'
    BY <1>0, FileShape
    DEF TryOnInv, TypeOK, TryOnTrue, RequestTrue, TaskTrue, JobTrue, Accounted, Downloadable,
        BeforeBlob, AfterRow
  <2>. QED  BY <2>2, <2>3 DEF TryOnTrue
<1>4. CleanerTrue'
  BY <1>0, FileShape, CleanerKept
  DEF TryOnInv, TypeOK, TryOnTrue, TaskTrue, ClientTrue, CallTrue, BeforeBlob
<1>. QED  BY <1>1, <1>2, <1>3, <1>4 DEF TryOnInv

LEMMA TaskCommitFileInv ==
  ASSUME TryOnInv, NEW r \in Requests, TaskCommitFile(r)
  PROVE  TryOnInv'
<1>. USE DEF TaskCommitFile, dbVars
<1>0. /\ task' \in [Requests -> TaskAt]
      /\ task'[r] \in {"insert"}
      /\ \A v \in Requests \ {r} : task'[v] = task[v]
  <2>1. PICK at \in {"insert"} : TaskGoes(r, at)
    OBVIOUS
  <2>. QED  BY <2>1, TaskMoves DEF TryOnInv, TaskAt
<1>1. TypeOK'
  BY <1>0, FileShape DEF TryOnInv, TypeOK
<1>2. ASSUME NEW v \in Requests, v # r PROVE TryOnTrue(v)'
  BY <1>0, <1>2, FileShape, SameTrue DEF TryOnInv, TypeOK, Same
<1>3. TryOnTrue(r)'
  <2>1. \A c \in Calls : CallTrue(r, c)'
    BY <1>0, FileShape, CallsKept DEF TryOnInv, TryOnTrue, ClientTrue, AfterRow
  <2>. QED  BY <1>0, <2>1, FileShape
            DEF TryOnInv, TypeOK, TryOnTrue, RequestTrue, TaskTrue, JobTrue, ClientTrue,
                Accounted, Downloadable, BeforeBlob, AfterRow
<1>4. CleanerTrue'
  BY <1>0, FileShape, CleanerKept
  DEF TryOnInv, TypeOK, TryOnTrue, TaskTrue, ClientTrue, CallTrue, BeforeBlob
<1>. QED  BY <1>1, <1>2, <1>3, <1>4 DEF TryOnInv

LEMMA TaskFailFileInv ==
  ASSUME TryOnInv, NEW r \in Requests, TaskFailFile(r)
  PROVE  TryOnInv'
<1>. USE DEF TaskFailFile, dbVars
<1>0. /\ task' \in [Requests -> TaskAt]
      /\ task'[r] \in {"fail", "dead"}
      /\ \A v \in Requests \ {r} : task'[v] = task[v]
  <2>1. PICK at \in {"fail", "dead"} : TaskGoes(r, at)
    OBVIOUS
  <2>. QED  BY <2>1, TaskMoves DEF TryOnInv, TaskAt
<1>1. TypeOK'
  BY <1>0, FileShape DEF TryOnInv, TypeOK
<1>2. ASSUME NEW v \in Requests, v # r PROVE TryOnTrue(v)'
  BY <1>0, <1>2, FileShape, SameTrue DEF TryOnInv, TypeOK, Same
<1>3. TryOnTrue(r)'
  <2>1. \A c \in Calls : CallTrue(r, c)'
    BY <1>0, FileShape, CallsKept DEF TryOnInv, TryOnTrue, ClientTrue, AfterRow
  <2>. QED  BY <1>0, <2>1, FileShape
            DEF TryOnInv, TypeOK, TryOnTrue, RequestTrue, TaskTrue, JobTrue, ClientTrue,
                Accounted, Downloadable, BeforeBlob, AfterRow
<1>4. CleanerTrue'
  BY <1>0, FileShape, CleanerKept
  DEF TryOnInv, TypeOK, TryOnTrue, TaskTrue, ClientTrue, CallTrue, BeforeBlob
<1>. QED  BY <1>1, <1>2, <1>3, <1>4 DEF TryOnInv

LEMMA TaskInsertInv ==
  ASSUME TryOnInv, NEW r \in Requests, TaskInsert(r)
  PROVE  TryOnInv'
<1>. USE DEF TaskInsert, dbVars
<1>0. /\ task' \in [Requests -> TaskAt]
      /\ \/ task'[r] = "report" /\ tryOns' = [tryOns EXCEPT ![r] = "unsaved"]
         \/ task'[r] = "dead" /\ tryOns' = tryOns
      /\ \A v \in Requests \ {r} : task'[v] = task[v]
  <2>1. PICK at \in {"report", "dead"} :
          /\ TaskGoes(r, at)
          /\ \/ at = "report" /\ tryOns' = [tryOns EXCEPT ![r] = "unsaved"]
             \/ at = "dead" /\ tryOns' = tryOns
    OBVIOUS
  <2>. QED  BY <2>1, TaskMoves DEF TryOnInv, TaskAt
<1>1. TypeOK'
  BY <1>0, FileShape DEF TryOnInv, TypeOK
<1>2. ASSUME NEW v \in Requests, v # r PROVE TryOnTrue(v)'
  BY <1>0, <1>2, FileShape, SameTrue DEF TryOnInv, TypeOK, Same
<1>3. TryOnTrue(r)'
  <2>1. \A c \in Calls : CallTrue(r, c)'
    BY <1>0, FileShape, CallsKept DEF TryOnInv, TryOnTrue, ClientTrue, AfterRow
  <2>. QED  BY <1>0, <2>1, FileShape
            DEF TryOnInv, TypeOK, TryOnTrue, RequestTrue, TaskTrue, JobTrue, ClientTrue,
                Accounted, Downloadable, BeforeBlob, AfterRow
<1>4. CleanerTrue'
  BY <1>0, FileShape, CleanerKept
  DEF TryOnInv, TypeOK, TryOnTrue, TaskTrue, ClientTrue, CallTrue, BeforeBlob
<1>. QED  BY <1>1, <1>2, <1>3, <1>4 DEF TryOnInv

LEMMA TaskReportInv ==
  ASSUME TryOnInv, NEW r \in Requests, TaskReport(r)
  PROVE  TryOnInv'
<1>. USE DEF TaskReport, dbVars
<1>a. /\ jobs' \in [Requests -> JobRow]
      /\ jobs'[r] = IF jobs[r] = "none" THEN "none" ELSE "succeeded"
      /\ \A v \in Requests \ {r} : jobs'[v] = jobs[v]
  BY StatusMoves DEF TryOnInv
<1>0. /\ task' \in [Requests -> TaskAt]
      /\ task'[r] \in {"done"}
      /\ \A v \in Requests \ {r} : task'[v] = task[v]
  <2>1. PICK at \in {"done"} : TaskGoes(r, at)
    OBVIOUS
  <2>. QED  BY <2>1, TaskMoves DEF TryOnInv, TaskAt
<1>1. TypeOK'
  BY <1>a, <1>0, FileShape DEF TryOnInv, TypeOK
<1>2. ASSUME NEW v \in Requests, v # r PROVE TryOnTrue(v)'
  BY <1>a, <1>0, <1>2, FileShape, SameTrue DEF TryOnInv, TypeOK, Same
<1>3. TryOnTrue(r)'
  BY <1>a, <1>0, FileShape
  DEF TryOnInv, TypeOK, TryOnTrue, RequestTrue, TaskTrue, JobTrue, ClientTrue, CallTrue,
       Accounted, Downloadable, BeforeBlob, AfterRow
<1>4. CleanerTrue'
  BY <1>a, <1>0, FileShape, CleanerKept
  DEF TryOnInv, TypeOK, TryOnTrue, TaskTrue, ClientTrue, CallTrue, BeforeBlob
<1>. QED  BY <1>1, <1>2, <1>3, <1>4 DEF TryOnInv

LEMMA TaskFailInv ==
  ASSUME TryOnInv, NEW r \in Requests, TaskFail(r)
  PROVE  TryOnInv'
<1>. USE DEF TaskFail, dbVars
<1>a. /\ jobs' \in [Requests -> JobRow]
      /\ jobs'[r] = IF jobs[r] = "none" THEN "none" ELSE "failed"
      /\ \A v \in Requests \ {r} : jobs'[v] = jobs[v]
  BY StatusMoves DEF TryOnInv
<1>0. /\ task' \in [Requests -> TaskAt]
      /\ task'[r] \in {"done"}
      /\ \A v \in Requests \ {r} : task'[v] = task[v]
  <2>1. PICK at \in {"done"} : TaskGoes(r, at)
    OBVIOUS
  <2>. QED  BY <2>1, TaskMoves DEF TryOnInv, TaskAt
<1>1. TypeOK'
  BY <1>a, <1>0, FileShape DEF TryOnInv, TypeOK
<1>2. ASSUME NEW v \in Requests, v # r PROVE TryOnTrue(v)'
  BY <1>a, <1>0, <1>2, FileShape, SameTrue DEF TryOnInv, TypeOK, Same
<1>3. TryOnTrue(r)'
  BY <1>a, <1>0, FileShape
  DEF TryOnInv, TypeOK, TryOnTrue, RequestTrue, TaskTrue, JobTrue, ClientTrue, CallTrue,
       Accounted, Downloadable, BeforeBlob, AfterRow
<1>4. CleanerTrue'
  BY <1>a, <1>0, FileShape, CleanerKept
  DEF TryOnInv, TypeOK, TryOnTrue, TaskTrue, ClientTrue, CallTrue, BeforeBlob
<1>. QED  BY <1>1, <1>2, <1>3, <1>4 DEF TryOnInv

LEMMA TaskStepInv ==
  ASSUME TryOnInv, NEW r \in Requests, TaskStep(r)
  PROVE  TryOnInv'
  BY TaskStartInv, TaskReadSourceInv, TaskGenerateInv, TaskStoreResultInv, TaskCommitFileInv,
     TaskFailFileInv, TaskInsertInv, TaskReportInv, TaskFailInv DEF TaskStep

-----------------------------------------------------------------------------
(***************************************************************************)
(* The member.                                                             *)
(***************************************************************************)
LEMMA ClientMoves ==
  ASSUME TypeOK, NEW r \in Requests, NEW c \in Calls, NEW at \in ClientAt,
         ClientGoes(r, c, at)
  PROVE  /\ client' \in [Requests -> [Calls -> ClientAt]]
         /\ client'[r][c] = at /\ \A d \in Calls \ {c} : client'[r][d] = client[r][d]
         /\ \A v \in Requests \ {r} : client'[v] = client[v]
  BY DEF TypeOK, ClientGoes

LEMMA SaveReadInv ==
  ASSUME TryOnInv, NEW r \in Requests, NEW c \in Calls, SaveRead(r, c)
  PROVE  TryOnInv'
<1>. USE DEF SaveRead, dbVars
<1>0. /\ client' \in [Requests -> [Calls -> ClientAt]]
      /\ client'[r][c] = "save" /\ \A d \in Calls \ {c} : client'[r][d] = client[r][d]
      /\ \A v \in Requests \ {r} : client'[v] = client[v]
  BY ClientMoves DEF TryOnInv, ClientAt
<1>1. TypeOK'
  BY <1>0, FileShape DEF TryOnInv, TypeOK
<1>2. ASSUME NEW v \in Requests, v # r PROVE TryOnTrue(v)'
  BY <1>0, <1>2, FileShape, SameTrue DEF TryOnInv, TypeOK, Same
<1>3. TryOnTrue(r)'
  <2>1. ASSUME NEW d \in Calls PROVE CallTrue(r, d)'
    <3>1. CallTrue(r, c) /\ CallTrue(r, d) /\ TaskTrue(r) /\ JobTrue(r) /\ RequestTrue(r)
      BY DEF TryOnInv, TryOnTrue, ClientTrue
    <3>2. CASE d = c
      BY <1>0, <3>1, <3>2, FileShape
      DEF TryOnInv, TypeOK, TaskTrue, JobTrue, CallTrue, ByMember, AfterRow
    <3>3. CASE d # c
      <4>1. client'[r][d] = client[r][d]
        BY <1>0, <3>3
      <4>. QED  BY <3>1, <4>1 DEF TryOnInv, TypeOK, CallTrue, ByMember
    <3>. QED  BY <3>2, <3>3
  <2>2. RequestTrue(r)' /\ TaskTrue(r)' /\ JobTrue(r)'
    BY <1>0, FileShape
    DEF TryOnInv, TypeOK, TryOnTrue, RequestTrue, TaskTrue, JobTrue, ClientTrue, CallTrue,
        Accounted, Downloadable, BeforeBlob, AfterRow
  <2>3. ClientTrue(r)'
    BY <1>0, <2>1, FileShape DEF TryOnInv, TypeOK, TryOnTrue, ClientTrue, CallTrue, ByMember
  <2>. QED  BY <2>2, <2>3 DEF TryOnTrue
<1>4. CleanerTrue'
  BY <1>0, FileShape, CleanerKept DEF TryOnInv, TypeOK
<1>. QED  BY <1>1, <1>2, <1>3, <1>4 DEF TryOnInv

LEMMA SaveCommitInv ==
  ASSUME TryOnInv, NEW r \in Requests, NEW c \in Calls, SaveCommit(r, c)
  PROVE  TryOnInv'
<1>. USE DEF SaveCommit, WishKept, dbVars
<1>0. /\ client' \in [Requests -> [Calls -> ClientAt]]
      /\ client'[r][c] = "idle" /\ \A d \in Calls \ {c} : client'[r][d] = client[r][d]
      /\ \A v \in Requests \ {r} : client'[v] = client[v]
  BY ClientMoves DEF TryOnInv, ClientAt
<1>1. TypeOK'
  BY <1>0, FileShape DEF TryOnInv, TypeOK
<1>2. ASSUME NEW v \in Requests, v # r PROVE TryOnTrue(v)'
  <2>1. /\ files'[Source(v)] = files[Source(v)]
        /\ files'[Result(v)] = files[Result(v)]
        /\ tryOns'[v] = tryOns[v] /\ wish'[v] = wish[v]
    BY <1>2, FileShape DEF TryOnInv, TypeOK
  <2>. QED  BY <1>0, <1>2, <2>1, SameTrue DEF TryOnInv, Same
<1>3. TryOnTrue(r)'
  <2>1. RequestTrue(r)'
    BY <1>0, FileShape DEF TryOnInv, TypeOK, TryOnTrue, RequestTrue
  <2>2. TaskTrue(r)'
    BY <1>0, FileShape
    DEF TryOnInv, TypeOK, TryOnTrue, RequestTrue, TaskTrue, ClientTrue, CallTrue, Downloadable,
        BeforeBlob, AfterRow
  <2>3. JobTrue(r)'
    BY <1>0, FileShape
    DEF TryOnInv, TypeOK, TryOnTrue, RequestTrue, TaskTrue, JobTrue, ClientTrue, CallTrue, Accounted, BeforeBlob, AfterRow
  <2>5. ASSUME NEW d \in Calls PROVE CallTrue(r, d)'
    <3>1. CallTrue(r, d) /\ (d = c \/ client'[r][d] = client[r][d])
      BY <1>0 DEF TryOnInv, TryOnTrue, ClientTrue
    <3>2. /\ UNCHANGED <<task, blobs>> /\ tryOns'[r] \in {tryOns[r], "saved"}
          /\ wish[r] = "delete" => wish'[r] = "delete"
      BY DEF TryOnInv, TypeOK
    <3>. QED  BY <1>0, <3>1, <3>2 DEF CallTrue, ByMember
  <2>6. ASSUME wish'[r] = "keep"
        PROVE  /\ ByMember(r) /\ tryOns'[r] = "saved" /\ files'[Result(r)] = "kept"
               /\ Result(r) \in blobs /\ Result(r) \notin cleaner.gone
    <3>1. CASE wish[r] = "keep"
      BY <2>6, <3>1, FileShape DEF TryOnInv, TypeOK, TryOnTrue, ClientTrue
    <3>2. CASE wish[r] # "keep"
      <4>1. /\ tryOns[r] # "none" /\ Result(r) \notin passed /\ wish[r] = "none"
            /\ tryOns'[r] = "saved" /\ files'[Result(r)] = "kept"
        BY <2>6, <3>2, FileShape DEF TryOnInv, TypeOK
      <4>2. tryOns[r] = "unsaved" /\ ByMember(r)
        BY <1>0, <4>1 DEF TryOnInv, TypeOK, TryOnTrue, ClientTrue, CallTrue
      <4>. QED  BY <4>1, <4>2 DEF TryOnInv, TryOnTrue, TaskTrue, CleanerTrue, Downloadable
    <3>. QED  BY <3>1, <3>2
  <2>7. tryOns'[r] = "saved" /\ wish'[r] = "none" => Result(r) \in passed'
    BY DEF TryOnInv, TypeOK, TryOnTrue, ClientTrue
  <2>4. ClientTrue(r)'
    BY <2>5, <2>6, <2>7 DEF ClientTrue, ByMember
  <2>. QED  BY <2>1, <2>2, <2>3, <2>4 DEF TryOnTrue
<1>4. CleanerTrue'
  BY <1>0, FileShape, CleanerKept DEF TryOnInv, TypeOK
<1>. QED  BY <1>1, <1>2, <1>3, <1>4 DEF TryOnInv

LEMMA DeleteReadInv ==
  ASSUME TryOnInv, NEW r \in Requests, NEW c \in Calls, DeleteRead(r, c)
  PROVE  TryOnInv'
<1>. USE DEF DeleteRead, dbVars
<1>0. /\ client' \in [Requests -> [Calls -> ClientAt]]
      /\ client'[r][c] = "delete" /\ \A d \in Calls \ {c} : client'[r][d] = client[r][d]
      /\ \A v \in Requests \ {r} : client'[v] = client[v]
  BY ClientMoves DEF TryOnInv, ClientAt
<1>1. TypeOK'
  BY <1>0, FileShape DEF TryOnInv, TypeOK
<1>2. ASSUME NEW v \in Requests, v # r PROVE TryOnTrue(v)'
  BY <1>0, <1>2, FileShape, SameTrue DEF TryOnInv, TypeOK, Same
<1>3. TryOnTrue(r)'
  <2>1. ASSUME NEW d \in Calls PROVE CallTrue(r, d)'
    <3>1. CallTrue(r, c) /\ CallTrue(r, d) /\ TaskTrue(r) /\ JobTrue(r) /\ RequestTrue(r)
      BY DEF TryOnInv, TryOnTrue, ClientTrue
    <3>2. CASE d = c
      BY <1>0, <3>1, <3>2, FileShape
      DEF TryOnInv, TypeOK, TaskTrue, JobTrue, CallTrue, ByMember, AfterRow
    <3>3. CASE d # c
      <4>1. client'[r][d] = client[r][d]
        BY <1>0, <3>3
      <4>. QED  BY <3>1, <4>1 DEF TryOnInv, TypeOK, CallTrue, ByMember
    <3>. QED  BY <3>2, <3>3
  <2>2. RequestTrue(r)' /\ TaskTrue(r)' /\ JobTrue(r)'
    BY <1>0, FileShape
    DEF TryOnInv, TypeOK, TryOnTrue, RequestTrue, TaskTrue, JobTrue, ClientTrue, CallTrue,
        Accounted, Downloadable, BeforeBlob, AfterRow
  <2>3. ClientTrue(r)'
    BY <1>0, <2>1, FileShape DEF TryOnInv, TypeOK, TryOnTrue, ClientTrue, CallTrue, ByMember
  <2>. QED  BY <2>2, <2>3 DEF TryOnTrue
<1>4. CleanerTrue'
  BY <1>0, FileShape, CleanerKept DEF TryOnInv, TypeOK
<1>. QED  BY <1>1, <1>2, <1>3, <1>4 DEF TryOnInv

LEMMA DeleteBlobInv ==
  ASSUME TryOnInv, NEW r \in Requests, NEW c \in Calls, DeleteBlob(r, c)
  PROVE  TryOnInv'
<1>. USE DEF DeleteBlob, dbVars
<1>0. /\ client' \in [Requests -> [Calls -> ClientAt]]
      /\ client'[r][c] = "delete_rows" /\ \A d \in Calls \ {c} : client'[r][d] = client[r][d]
      /\ \A v \in Requests \ {r} : client'[v] = client[v]
  BY ClientMoves DEF TryOnInv, ClientAt
<1>1. TypeOK'
  BY <1>0, FileShape DEF TryOnInv, TypeOK
<1>2. ASSUME NEW v \in Requests, v # r PROVE TryOnTrue(v)'
  BY <1>0, <1>2, FileShape, SameTrue DEF TryOnInv, TypeOK, Same
<1>3. TryOnTrue(r)'
  <2>1. ASSUME NEW d \in Calls PROVE CallTrue(r, d)'
    <3>1. CallTrue(r, c) /\ CallTrue(r, d) /\ TaskTrue(r) /\ JobTrue(r) /\ RequestTrue(r)
      BY DEF TryOnInv, TryOnTrue, ClientTrue
    <3>2. CASE d = c
      BY <1>0, <3>1, <3>2, FileShape
      DEF TryOnInv, TypeOK, TaskTrue, JobTrue, CallTrue, ByMember, AfterRow
    <3>3. CASE d # c
      <4>1. client'[r][d] = client[r][d]
        BY <1>0, <3>3
      <4>. QED  BY <3>1, <4>1 DEF TryOnInv, TypeOK, CallTrue, ByMember
    <3>. QED  BY <3>2, <3>3
  <2>2. RequestTrue(r)' /\ TaskTrue(r)' /\ JobTrue(r)'
    BY <1>0, FileShape
    DEF TryOnInv, TypeOK, TryOnTrue, RequestTrue, TaskTrue, JobTrue, ClientTrue, CallTrue,
        Accounted, Downloadable, BeforeBlob, AfterRow
  <2>3. ClientTrue(r)'
    BY <1>0, <2>1, FileShape DEF TryOnInv, TypeOK, TryOnTrue, ClientTrue, CallTrue, ByMember
  <2>. QED  BY <2>2, <2>3 DEF TryOnTrue
<1>4. CleanerTrue'
  BY <1>0, FileShape, CleanerKept DEF TryOnInv, TypeOK
<1>. QED  BY <1>1, <1>2, <1>3, <1>4 DEF TryOnInv

LEMMA DeleteRowsInv ==
  ASSUME TryOnInv, NEW r \in Requests, NEW c \in Calls, DeleteRows(r, c)
  PROVE  TryOnInv'
<1>. USE DEF DeleteRows, dbVars
<1>0. /\ client' \in [Requests -> [Calls -> ClientAt]]
      /\ client'[r][c] = "idle" /\ \A d \in Calls \ {c} : client'[r][d] = client[r][d]
      /\ \A v \in Requests \ {r} : client'[v] = client[v]
  BY ClientMoves DEF TryOnInv, ClientAt
<1>1. TypeOK'
  BY <1>0, FileShape DEF TryOnInv, TypeOK
<1>2. ASSUME NEW v \in Requests, v # r PROVE TryOnTrue(v)'
  BY <1>0, <1>2, FileShape, SameTrue DEF TryOnInv, TypeOK, Same
<1>3. TryOnTrue(r)'
  <2>1. ASSUME NEW d \in Calls PROVE CallTrue(r, d)'
    <3>1. CallTrue(r, c) /\ CallTrue(r, d) /\ TaskTrue(r) /\ JobTrue(r) /\ RequestTrue(r)
      BY DEF TryOnInv, TryOnTrue, ClientTrue
    <3>2. CASE d = c
      BY <1>0, <3>1, <3>2, FileShape
      DEF TryOnInv, TypeOK, TaskTrue, JobTrue, CallTrue, ByMember, AfterRow
    <3>3. CASE d # c
      <4>1. client'[r][d] = client[r][d]
        BY <1>0, <3>3
      <4>. QED  BY <3>1, <4>1 DEF TryOnInv, TypeOK, CallTrue, ByMember
    <3>. QED  BY <3>2, <3>3
  <2>2. RequestTrue(r)' /\ TaskTrue(r)' /\ JobTrue(r)'
    BY <1>0, FileShape
    DEF TryOnInv, TypeOK, TryOnTrue, RequestTrue, TaskTrue, JobTrue, ClientTrue, CallTrue,
        Accounted, Downloadable, BeforeBlob, AfterRow
  <2>3. ClientTrue(r)'
    BY <1>0, <2>1, FileShape DEF TryOnInv, TypeOK, TryOnTrue, ClientTrue, CallTrue, ByMember
  <2>. QED  BY <2>2, <2>3 DEF TryOnTrue
<1>4. CleanerTrue'
  BY <1>0, FileShape, CleanerKept DEF TryOnInv, TypeOK
<1>. QED  BY <1>1, <1>2, <1>3, <1>4 DEF TryOnInv

LEMMA ClientStepInv ==
  ASSUME TryOnInv, NEW r \in Requests, ClientStep(r)
  PROVE  TryOnInv'
  BY SaveReadInv, SaveCommitInv, DeleteReadInv, DeleteBlobInv, DeleteRowsInv DEF ClientStep

-----------------------------------------------------------------------------
(***************************************************************************)
(* The clean-up.                                                           *)
(***************************************************************************)
LEMMA CleanerShape ==
  \A c \in CleanerState, x \in Requests \cup FileIds, found \in SUBSET FileIds :
      /\ [c EXCEPT !.todo = c.todo \ {x}] \in CleanerState
      /\ [c EXCEPT !.todo = c.todo \ {x}, !.gone = c.gone \cup found] \in CleanerState
  BY DEF CleanerState

LEMMA CleanListTryOnsInv ==
  ASSUME TryOnInv, CleanListTryOns
  PROVE  TryOnInv'
<1>. USE DEF CleanListTryOns, dbVars
<1>1. TypeOK'
  <2>1. cleaner' \in CleanerState
    BY DEF CleanerState, CleanerAt, ExpiredUnsaved
  <2>. QED  BY <2>1 DEF TryOnInv, TypeOK
<1>2. ASSUME NEW v \in Requests PROVE TryOnTrue(v)'
  BY SameTrue DEF TryOnInv, Same
<1>3. CleanerTrue'
  <2>1. \A r \in ExpiredUnsaved : Result(r) \in passed /\ wish[r] # "keep"
    BY DEF TryOnInv, TryOnTrue, ClientTrue, CallTrue, ExpiredUnsaved
  <2>. QED  BY <2>1 DEF CleanerTrue
<1>. QED  BY <1>1, <1>2, <1>3 DEF TryOnInv

LEMMA CleanTryOnInv ==
  ASSUME TryOnInv, NEW r \in Requests, CleanTryOn(r)
  PROVE  TryOnInv'
<1>. USE DEF CleanTryOn, dbVars
<1>0. PICK found \in SUBSET {Result(r)} :
         /\ files[Result(r)] = "none" => found = {}
         /\ blobs' = blobs \ found
         /\ cleaner' = [cleaner EXCEPT !.todo = cleaner.todo \ {r},
                                       !.gone = cleaner.gone \cup found]
  OBVIOUS
<1>a. /\ cleaner'.at = "try_ons" /\ cleaner'.rows = cleaner.rows
      /\ cleaner'.todo = cleaner.todo \ {r} /\ cleaner'.gone = cleaner.gone \cup found
      /\ cleaner' \in CleanerState
  <2>1. cleaner \in CleanerState /\ found \in SUBSET FileIds
    BY FileShape DEF TryOnInv, TypeOK
  <2>2. /\ cleaner'.at = cleaner.at /\ cleaner'.rows = cleaner.rows
        /\ cleaner'.todo = cleaner.todo \ {r} /\ cleaner'.gone = cleaner.gone \cup found
    BY <1>0, <2>1 DEF CleanerState
  <2>3. cleaner.at = "try_ons"
    OBVIOUS
  <2>. HIDE DEF CleanTryOn
  <2>. QED  BY <1>0, <2>1, <2>2, <2>3, CleanerShape
<1>b. /\ cleaner.todo \subseteq cleaner.rows /\ Result(r) \in passed /\ wish[r] # "keep"
      /\ cleaner.gone \subseteq passed /\ cleaner.gone \cap blobs = {}
      /\ \A v \in cleaner.rows : Result(v) \in passed /\ wish[v] # "keep"
  BY DEF TryOnInv, CleanerTrue
<1>c. UNCHANGED <<dbVars, request, task, client, passed, wish, crashes>>
  OBVIOUS
<1>. HIDE DEF CleanTryOn
<1>1. TypeOK'
  BY <1>0, <1>a, <1>c DEF TryOnInv, TypeOK
<1>2. ASSUME NEW v \in Requests, v # r PROVE TryOnTrue(v)'
  BY <1>0, <1>a, <1>c, <1>2, FileShape, SameTrue DEF TryOnInv, Same
<1>3. TryOnTrue(r)'
  BY <1>0, <1>a, <1>b, <1>c, FileShape
  DEF TryOnInv, TypeOK, TryOnTrue, RequestTrue, TaskTrue, JobTrue, ClientTrue, CallTrue,
       Accounted, Downloadable, BeforeBlob, AfterRow
<1>4. CleanerTrue'
  BY <1>0, <1>a, <1>b, <1>c DEF CleanerTrue
<1>. QED  BY <1>1, <1>2, <1>3, <1>4 DEF TryOnInv

LEMMA CleanCommitTryOnsInv ==
  ASSUME TryOnInv, CleanCommitTryOns
  PROVE  TryOnInv'
<1>. USE DEF CleanCommitTryOns, dbVars
<1>0. /\ cleaner.gone \subseteq passed /\ cleaner.gone \cap blobs = {}
      /\ \A v \in cleaner.rows : Result(v) \in passed /\ wish[v] # "keep"
  BY DEF TryOnInv, CleanerTrue
<1>a. cleaner' = [at |-> "list_files", todo |-> {}, rows |-> {}, gone |-> {}]
  BY DEF NotCleaning
<1>b. /\ \A f \in FileIds : files'[f] = IF f \in cleaner.gone THEN "none" ELSE files[f]
      /\ \A v \in Requests : tryOns'[v] = IF v \in cleaner.rows THEN "none" ELSE tryOns[v]
      /\ cleaner'.gone = {}
      /\ files' \in [FileIds -> FileRow]
      /\ tryOns' \in [Requests -> TryOnRow]
      /\ UNCHANGED <<guests, photoCount, jobs, blobs, request, task, client, passed, wish,
                  crashes>>
  BY <1>a DEF TryOnInv, TypeOK
<1>. HIDE DEF CleanCommitTryOns
<1>1. TypeOK'
  <2>1. cleaner' \in CleanerState
    BY <1>a DEF CleanerState, CleanerAt
  <2>. QED  BY <1>b, <2>1 DEF TryOnInv, TypeOK
<1>2. ASSUME NEW v \in Requests PROVE TryOnTrue(v)'
  <2>1. RequestTrue(v)'
    BY <1>0, <1>b, FileShape DEF TryOnInv, TypeOK, TryOnTrue, RequestTrue
  <2>2. TaskTrue(v)'
    BY <1>0, <1>b, FileShape
    DEF TryOnInv, TypeOK, TryOnTrue, RequestTrue, TaskTrue, ClientTrue, CallTrue, Downloadable,
        BeforeBlob, AfterRow
  <2>3. JobTrue(v)'
    BY <1>0, <1>b, FileShape
    DEF TryOnInv, TypeOK, TryOnTrue, RequestTrue, TaskTrue, JobTrue, ClientTrue, CallTrue, Accounted, BeforeBlob, AfterRow
  <2>4. ClientTrue(v)'
    BY <1>0, <1>b, FileShape
    DEF TryOnInv, TypeOK, TryOnTrue, RequestTrue, TaskTrue, ClientTrue, CallTrue, ByMember,
        Downloadable, BeforeBlob, AfterRow
  <2>. QED  BY <2>1, <2>2, <2>3, <2>4 DEF TryOnTrue
<1>3. CleanerTrue'
  BY <1>a, <1>b DEF CleanerTrue
<1>. QED  BY <1>1, <1>2, <1>3 DEF TryOnInv

LEMMA CleanListFilesInv ==
  ASSUME TryOnInv, CleanListFiles
  PROVE  TryOnInv'
<1>. USE DEF CleanListFiles, dbVars
<1>a. cleaner' = [at |-> "files", todo |-> ExpiredFiles, rows |-> {}, gone |-> ExpiredFiles]
  BY DEF NotCleaning
<1>b. /\ UNCHANGED <<dbVars, blobs, request, task, client, passed, wish, crashes>>
  OBVIOUS
<1>c. \A v \in Requests :
        /\ Source(v) \in cleaner'.gone => files[Source(v)] = "ttl"
        /\ Result(v) \in cleaner'.gone => files[Result(v)] = "ttl"
  <2>1. cleaner'.gone = ExpiredFiles
    BY <1>a
  <2>. QED  BY <2>1 DEF ExpiredFiles
<1>. HIDE DEF CleanListFiles
<1>1. TypeOK'
  <2>1. cleaner' \in CleanerState
    BY <1>a DEF CleanerState, CleanerAt, ExpiredFiles
  <2>. QED  BY <1>b, <2>1 DEF TryOnInv, TypeOK
<1>2. ASSUME NEW v \in Requests PROVE TryOnTrue(v)'
  <2>1. RequestTrue(v)'
    BY <1>b, <1>c, FileShape DEF TryOnInv, TypeOK, TryOnTrue, RequestTrue
  <2>2. TaskTrue(v)'
    BY <1>b, <1>c, FileShape
    DEF TryOnInv, TypeOK, TryOnTrue, RequestTrue, TaskTrue, ClientTrue, CallTrue, Downloadable,
        BeforeBlob, AfterRow
  <2>3. JobTrue(v)'
    BY <1>b, <1>c, FileShape
    DEF TryOnInv, TypeOK, TryOnTrue, RequestTrue, TaskTrue, JobTrue, ClientTrue, CallTrue, Accounted, BeforeBlob, AfterRow
  <2>4. ClientTrue(v)'
    BY <1>b, <1>c, FileShape
    DEF TryOnInv, TypeOK, TryOnTrue, RequestTrue, TaskTrue, ClientTrue, CallTrue, ByMember,
        Downloadable, BeforeBlob, AfterRow
  <2>. QED  BY <2>1, <2>2, <2>3, <2>4 DEF TryOnTrue
<1>3. CleanerTrue'
  BY <1>a, <1>b DEF CleanerTrue, ExpiredFiles
<1>. QED  BY <1>1, <1>2, <1>3 DEF TryOnInv

LEMMA CleanFileInv ==
  ASSUME TryOnInv, NEW f \in FileIds, CleanFile(f)
  PROVE  TryOnInv'
<1>. USE DEF CleanFile, dbVars
<1>0. f \in cleaner.gone /\ f \in passed
  BY DEF TryOnInv, CleanerTrue
<1>a. /\ cleaner'.at = "files" /\ cleaner'.rows = cleaner.rows
      /\ cleaner'.todo = cleaner.todo \ {f} /\ cleaner'.gone = cleaner.gone
      /\ cleaner' \in CleanerState
  <2>1. cleaner \in CleanerState
    BY DEF TryOnInv, TypeOK
  <2>2. /\ cleaner'.at = cleaner.at /\ cleaner'.rows = cleaner.rows
        /\ cleaner'.todo = cleaner.todo \ {f} /\ cleaner'.gone = cleaner.gone
    BY <2>1 DEF CleanerState
  <2>. QED  BY <2>1, <2>2, CleanerShape
<1>1. TypeOK'
  BY <1>a DEF TryOnInv, TypeOK
<1>2. ASSUME NEW v \in Requests PROVE TryOnTrue(v)'
  BY <1>0, <1>a, FileShape
  DEF TryOnInv, TypeOK, TryOnTrue, RequestTrue, TaskTrue, JobTrue, ClientTrue, CallTrue,
       Accounted, Downloadable, BeforeBlob, AfterRow
<1>3. CleanerTrue'
  BY <1>a DEF TryOnInv, CleanerTrue
<1>. QED  BY <1>1, <1>2, <1>3 DEF TryOnInv

LEMMA CleanCommitFilesInv ==
  ASSUME TryOnInv, CleanCommitFiles
  PROVE  TryOnInv'
<1>. USE DEF CleanCommitFiles, dbVars
<1>0. /\ cleaner.gone \subseteq passed /\ cleaner.gone \cap blobs = {}
  BY DEF TryOnInv, CleanerTrue
<1>a. cleaner' = [at |-> "jobs", todo |-> {}, rows |-> {}, gone |-> {}]
  BY DEF NotCleaning
<1>b. /\ \A f \in FileIds : files'[f] = IF f \in cleaner.gone THEN "none" ELSE files[f]
      /\ \A v \in Requests : tryOns'[v] = tryOns[v]
      /\ cleaner'.gone = {}
      /\ files' \in [FileIds -> FileRow]
      /\ UNCHANGED <<guests, photoCount, jobs, tryOns, blobs, request, task, client, passed,
                  wish, crashes>>
  BY <1>a DEF TryOnInv, TypeOK
<1>. HIDE DEF CleanCommitFiles
<1>1. TypeOK'
  <2>1. cleaner' \in CleanerState
    BY <1>a DEF CleanerState, CleanerAt
  <2>. QED  BY <1>b, <2>1 DEF TryOnInv, TypeOK
<1>2. ASSUME NEW v \in Requests PROVE TryOnTrue(v)'
  <2>1. RequestTrue(v)'
    BY <1>0, <1>b, FileShape DEF TryOnInv, TypeOK, TryOnTrue, RequestTrue
  <2>2. TaskTrue(v)'
    BY <1>0, <1>b, FileShape
    DEF TryOnInv, TypeOK, TryOnTrue, RequestTrue, TaskTrue, ClientTrue, CallTrue, Downloadable,
        BeforeBlob, AfterRow
  <2>3. JobTrue(v)'
    BY <1>0, <1>b, FileShape
    DEF TryOnInv, TypeOK, TryOnTrue, RequestTrue, TaskTrue, JobTrue, ClientTrue, CallTrue, Accounted, BeforeBlob, AfterRow
  <2>4. ClientTrue(v)'
    BY <1>0, <1>b, FileShape
    DEF TryOnInv, TypeOK, TryOnTrue, RequestTrue, TaskTrue, ClientTrue, CallTrue, ByMember,
        Downloadable, BeforeBlob, AfterRow
  <2>. QED  BY <2>1, <2>2, <2>3, <2>4 DEF TryOnTrue
<1>3. CleanerTrue'
  BY <1>a, <1>b DEF CleanerTrue
<1>. QED  BY <1>1, <1>2, <1>3 DEF TryOnInv

LEMMA CleanJobsInv ==
  ASSUME TryOnInv, CleanJobs
  PROVE  TryOnInv'
<1>. USE DEF CleanJobs, dbVars
<1>a. cleaner' = [at |-> "guests", todo |-> {}, rows |-> {}, gone |-> {}]
  BY DEF NotCleaning
<1>b. /\ UNCHANGED <<guests, photoCount, files, tryOns, blobs, request, task, client, passed,
                  wish, crashes>>
      /\ jobs' \in [Requests -> JobRow]
      /\ \A v \in Requests : jobs'[v] \in {jobs[v], "none"}
      /\ cleaner'.gone = {}
  BY <1>a DEF TryOnInv, TypeOK
<1>. HIDE DEF CleanJobs
<1>1. TypeOK'
  <2>1. cleaner' \in CleanerState
    BY <1>a DEF CleanerState, CleanerAt
  <2>. QED  BY <1>b, <2>1 DEF TryOnInv, TypeOK
<1>2. ASSUME NEW v \in Requests PROVE TryOnTrue(v)'
  BY <1>b
  DEF TryOnInv, TypeOK, TryOnTrue, RequestTrue, TaskTrue, JobTrue, ClientTrue, CallTrue,
       Accounted, Downloadable, BeforeBlob, AfterRow
<1>3. CleanerTrue'
  BY <1>a, <1>b DEF CleanerTrue
<1>. QED  BY <1>1, <1>2, <1>3 DEF TryOnInv

LEMMA CleanGuestsInv ==
  ASSUME TryOnInv, CleanGuests
  PROVE  TryOnInv'
<1>. USE DEF CleanGuests, dbVars
<1>a. cleaner' = [at |-> "idle", todo |-> {}, rows |-> {}, gone |-> {}]
  BY DEF NotCleaning
<1>b. /\ UNCHANGED <<photoCount, files, jobs, blobs, request, task, client, passed, wish,
                  crashes>>
      /\ tryOns' \in [Requests -> TryOnRow]
      /\ guests' = guests \ passed
      /\ \A v \in Requests :
            \/ tryOns'[v] = tryOns[v]
            \/ ByGuest(v) /\ Owner[v] \in Guests \cap passed /\ tryOns'[v] = "none"
      /\ cleaner'.gone = {}
  BY <1>a DEF TryOnInv, TypeOK, ByGuest
<1>. HIDE DEF CleanGuests
<1>1. TypeOK'
  <2>1. cleaner' \in CleanerState
    BY <1>a DEF CleanerState, CleanerAt
  <2>. QED  BY <1>b, <2>1 DEF TryOnInv, TypeOK
<1>2. ASSUME NEW v \in Requests PROVE TryOnTrue(v)'
  BY <1>b, TryOnAssumption
  DEF TryOnInv, TypeOK, TryOnTrue, RequestTrue, TaskTrue, JobTrue, ClientTrue, CallTrue,
       Accounted, Downloadable, BeforeBlob, AfterRow, ByGuest, ByMember
<1>3. CleanerTrue'
  BY <1>a, <1>b DEF CleanerTrue
<1>. QED  BY <1>1, <1>2, <1>3 DEF TryOnInv

LEMMA CleanerStepInv ==
  ASSUME TryOnInv, CleanerStep
  PROVE  TryOnInv'
<1>1. ASSUME NEW r \in Requests, CleanTryOn(r) PROVE TryOnInv'
  BY <1>1, CleanTryOnInv
<1>2. ASSUME NEW f \in FileIds, CleanFile(f) PROVE TryOnInv'
  BY <1>2, CleanFileInv
<1>. QED
  BY <1>1, <1>2, CleanListTryOnsInv, CleanCommitTryOnsInv, CleanListFilesInv,
     CleanCommitFilesInv, CleanJobsInv, CleanGuestsInv DEF CleanerStep

-----------------------------------------------------------------------------
(***************************************************************************)
(* Time and crashes.                                                       *)
(***************************************************************************)
LEMMA TimePassesInv ==
  ASSUME TryOnInv, TimePasses
  PROVE  TryOnInv'
<1>1. PICK x \in FileIds \cup Requests \cup Guests : Pass(x)
  BY DEF TimePasses
<1>2. TypeOK'
  BY <1>1 DEF Pass, dbVars, TryOnInv, TypeOK
<1>3. ASSUME NEW v \in Requests PROVE TryOnTrue(v)'
  BY <1>1, SameTrue DEF Pass, dbVars, TryOnInv, Same
<1>4. CleanerTrue'
  BY <1>1, CleanerKept DEF Pass
<1>. QED  BY <1>2, <1>3, <1>4 DEF TryOnInv

\* Its requests and tasks die where they are; the rows and files stay.
LEMMA ServerCrashInv ==
  ASSUME TryOnInv, ServerCrash
  PROVE  TryOnInv'
<1>. USE DEF ServerCrash, dbVars
<1>1. /\ crashes' \in 0 .. MaxCrashes
      /\ request' \in [Requests -> [at : RequestAt, count : Nat]]
  <2>1. \A r \in Requests : [request[r] EXCEPT !.at = "dead"] \in [at : RequestAt, count : Nat]
    BY DEF TryOnInv, TypeOK, RequestAt
  <2>. QED  BY <2>1, TryOnAssumption DEF TryOnInv, TypeOK
<1>2. TypeOK'
  BY <1>1 DEF TryOnInv, TypeOK, TaskAt, ClientAt
<1>3. ASSUME NEW v \in Requests PROVE TryOnTrue(v)'
  <2>1. /\ request'[v].at = IF InFlight(request[v].at) THEN "dead" ELSE request[v].at
        /\ task'[v] = IF TaskOver(v) THEN task[v] ELSE "dead"
        /\ \A c \in Calls : client'[v][c] = "idle"
        /\ UNCHANGED <<dbVars, blobs, cleaner, passed, wish>>
    BY DEF TryOnInv, TypeOK
  <2>. HIDE DEF ServerCrash
  <2>2. RequestTrue(v)'
    BY <2>1 DEF TryOnInv, TryOnTrue, RequestTrue, InFlight, TaskOver
  <2>3. TaskTrue(v)'
    BY <2>1 DEF TryOnInv, TryOnTrue, TaskTrue, Downloadable, TaskOver, BeforeBlob, AfterRow
  <2>4. JobTrue(v)'
    BY <2>1 DEF TryOnInv, TryOnTrue, JobTrue, Accounted, TaskOver
  <2>5. ClientTrue(v)'
    BY <2>1 DEF TryOnInv, TryOnTrue, ClientTrue, CallTrue, ByMember
  <2>. QED  BY <2>2, <2>3, <2>4, <2>5 DEF TryOnTrue
<1>4. CleanerTrue'
  BY CleanerKept
<1>. QED  BY <1>2, <1>3, <1>4 DEF TryOnInv

\* Its transaction rolls back; the files it deleted are gone.
LEMMA CleanerCrashInv ==
  ASSUME TryOnInv, CleanerCrash
  PROVE  TryOnInv'
<1>. USE DEF CleanerCrash, dbVars
<1>1. /\ NotCleaning \in CleanerState
      /\ NotCleaning.gone = {}
      /\ NotCleaning.at = "idle"
  BY DEF NotCleaning, CleanerState, CleanerAt
<1>2. TypeOK'
  BY <1>1, TryOnAssumption DEF TryOnInv, TypeOK
<1>3. ASSUME NEW v \in Requests PROVE TryOnTrue(v)'
  BY <1>1, SameTrue DEF TryOnInv, Same
<1>4. CleanerTrue'
  BY <1>1 DEF CleanerTrue
<1>. QED  BY <1>2, <1>3, <1>4 DEF TryOnInv

-----------------------------------------------------------------------------
(***************************************************************************)
(* The theorems.                                                           *)
(***************************************************************************)
LEMMA InitTryOnInv == Init => TryOnInv
<1>. SUFFICES ASSUME Init PROVE TryOnInv
  OBVIOUS
<1>1. /\ NotCleaning \in CleanerState
      /\ NotCleaning.gone = {}
      /\ NotCleaning.at = "idle"
  BY DEF NotCleaning, CleanerState, CleanerAt
<1>2. TypeOK
  BY <1>1, TryOnAssumption DEF Init, TypeOK, RequestAt, TaskAt, ClientAt
<1>3. ASSUME NEW v \in Requests PROVE TryOnTrue(v)
  BY <1>1, FileShape
  DEF Init, TryOnTrue, RequestTrue, TaskTrue, JobTrue, ClientTrue, CallTrue, BeforeBlob
<1>4. CleanerTrue
  BY <1>1 DEF Init, CleanerTrue
<1>. QED  BY <1>2, <1>3, <1>4 DEF TryOnInv

LEMMA TryOnNextInv == TryOnInv /\ [Next]_vars => TryOnInv'
<1>. SUFFICES ASSUME TryOnInv, [Next]_vars PROVE TryOnInv'
  OBVIOUS
<1>1. ASSUME NEW r \in Requests, RequestStep(r) \/ TaskStep(r) \/ ClientStep(r)
      PROVE  TryOnInv'
  BY <1>1, RequestStepInv, TaskStepInv, ClientStepInv
<1>2. CASE UNCHANGED vars
  <2>1. TypeOK'
    BY <1>2 DEF vars, dbVars, TryOnInv, TypeOK
  <2>2. ASSUME NEW v \in Requests PROVE TryOnTrue(v)'
    BY <1>2, SameTrue DEF vars, dbVars, TryOnInv, Same
  <2>3. CleanerTrue'
    BY <1>2, CleanerKept DEF vars
  <2>. QED  BY <2>1, <2>2, <2>3 DEF TryOnInv
<1>. QED
  BY <1>1, <1>2, CleanerStepInv, TimePassesInv, ServerCrashInv, CleanerCrashInv DEF Next

\* The inductive invariant holds for ever.
THEOREM TryOnCorrect == Spec => []TryOnInv
  BY InitTryOnInv, TryOnNextInv, PTL DEF Spec

\* Every row, file, task and request is well typed: what the clean-up removes
\* are ids of files and of results.
THEOREM TryOnTypeCorrect == Spec => []TypeOK
<1>1. TryOnInv => TypeOK
  BY DEF TryOnInv
<1>. QED  BY <1>1, TryOnCorrect, PTL

\* A result can be downloaded until it expires, and one saved in time until its
\* member deletes it (save_try_on, delete_saved_try_on, CleanupService.run_once).
THEOREM TryOnResultReadable == Spec => []ResultReadable
<1>1. TryOnInv => ResultReadable
  BY DEF TryOnInv, TryOnTrue, TaskTrue, ClientTrue, CallTrue, ResultReadable, Downloadable
<1>. QED  BY <1>1, TryOnCorrect, PTL

\* No file is on the disk without its row, unless its writer is at it or died
\* (FileService.create_file, LocalStorage).
THEOREM TryOnBlobsAccounted == Spec => []BlobsAccounted
<1>1. TryOnInv => BlobsAccounted
  BY DEF TryOnInv, TryOnTrue, RequestTrue, TaskTrue, BlobsAccounted
<1>. QED  BY <1>1, TryOnCorrect, PTL

\* What a job reports is what happened (JobService.update_status).
THEOREM TryOnStatusIsTrue == Spec => []StatusIsTrue
<1>1. TryOnInv => StatusIsTrue
  BY DEF TryOnInv, TryOnTrue, JobTrue, Accounted, StatusIsTrue
<1>. QED  BY <1>1, TryOnCorrect, PTL
-----------------------------------------------------------------------------
(***************************************************************************)
(* Uploads of one guest that do not overlap.                               *)
(***************************************************************************)
\* A step that leaves the counts alone and accepts nothing that was not counted.
LEMMA PhotoKept ==
  ASSUME TryOnInv, PhotoInv, photoCount' = photoCount,
         \A r \in Requests :
            /\ ByGuest(r) /\ request'[r].at \in Uploading
                 => request'[r].count = photoCount[Owner[r]] /\ request'[r].count < PhotoLimit
            /\ r \in Photo /\ ByGuest(r) /\ request'[r].at \in {"create_job", "accepted"}
                 => request[r].at \in {"create_job", "accepted"}
  PROVE  PhotoInv'
<1>1. ASSUME NEW g \in Guests
      PROVE  /\ IsFiniteSet(Counted(g)')
             /\ Cardinality(Counted(g)') <= Cardinality(Counted(g))
             /\ Cardinality(Counted(g)) \in Nat /\ Cardinality(Counted(g)') \in Nat
  <2>1. Counted(g)' \subseteq Counted(g)
    BY TryOnAssumption DEF Counted, ByGuest
  <2>2. IsFiniteSet(Counted(g))
    BY DEF PhotoInv
  <2>. QED  BY <2>1, <2>2, FS_Subset, FS_CardinalityType
<1>2. ASSUME NEW g \in Guests
      PROVE  /\ IsFiniteSet(Counted(g)')
             /\ Cardinality(Counted(g)') <= photoCount'[g] /\ photoCount'[g] <= PhotoLimit
  <2>1. Cardinality(Counted(g)) <= photoCount[g] /\ photoCount[g] <= PhotoLimit
    BY DEF PhotoInv
  <2>2. photoCount[g] \in Nat
    BY DEF TryOnInv, TypeOK
  <2>. QED  BY <1>1, <2>1, <2>2
<1>. QED  BY <1>2 DEF PhotoInv, ByGuest

LEMMA RequestStepPhoto ==
  ASSUME TryOnInv, UploadsApart, PhotoInv, NEW r \in Requests, RequestStep(r)
  PROVE  PhotoInv'
<1>. USE DEF dbVars
<1>0. \A v \in Requests : request[v] \in [at : RequestAt, count : Nat]
  BY DEF TryOnInv, TypeOK
<1>1. CASE AcceptAvatar(r)
  <2>1. r \notin Photo /\ photoCount' = photoCount
    BY <1>1 DEF AcceptAvatar
  <2>2. request'[r].at = "create_job" /\ \A v \in Requests \ {r} : request'[v] = request[v]
    BY <1>1, RequestMoves DEF AcceptAvatar, TryOnInv, RequestAt
  <2>. QED  BY <2>1, <2>2, PhotoKept DEF PhotoInv, Uploading
<1>2. CASE AcceptPhoto(r)
  <2>1. /\ photoCount' = photoCount /\ WithinLimit(r)
        /\ request'[r].at = "upload"
        /\ ByGuest(r) => request'[r].count = photoCount[Owner[r]]
        /\ \A v \in Requests \ {r} : request'[v] = request[v]
    BY <1>2 DEF AcceptPhoto, TryOnInv, TypeOK
  <2>. QED  BY <2>1, PhotoKept DEF PhotoInv, WithinLimit
<1>3. ASSUME NEW at \in RequestAt, RequestGoes(r, at), photoCount' = photoCount,
             at \in Uploading => request[r].at \in Uploading,
             at \in {"create_job", "accepted"} /\ ByGuest(r)
                => request[r].at \in {"create_job", "accepted"}
      PROVE  PhotoInv'
  <2>1. /\ request'[r].at = at /\ request'[r].count = request[r].count
        /\ \A v \in Requests \ {r} : request'[v] = request[v]
    BY <1>0, <1>3 DEF RequestGoes, TryOnInv, TypeOK
  <2>. QED  BY <1>3, <2>1, PhotoKept DEF PhotoInv
<1>4. CASE StoreSource(r)
  BY <1>3, <1>4 DEF StoreSource, RequestAt, Uploading
<1>5. CASE CommitSource(r)
  BY <1>3, <1>5 DEF CommitSource, RequestAt, Uploading
<1>6. CASE FailSource(r)
  BY <1>3, <1>6 DEF FailSource, RequestAt, Uploading
<1>7. CASE CreateJob(r)
  BY <1>3, <1>7 DEF CreateJob, RequestAt, Uploading
<1>8. CASE CountPhoto(r) /\ Owner[r] \notin guests
  BY <1>3, <1>8 DEF CountPhoto, RequestAt, Uploading
<1>9. CASE CountPhoto(r) /\ Owner[r] \in guests
  <2>. PICK g \in Guests : g = Owner[r]
    BY <1>9 DEF TryOnInv, TypeOK
  <2>1. ByGuest(r) /\ request[r].at = "count"
    BY <1>9 DEF ByGuest, CountPhoto
  <2>2. /\ request[r].count = photoCount[g] /\ request[r].count < PhotoLimit
        /\ photoCount[g] \in Nat
    BY <2>1 DEF PhotoInv, Uploading, TryOnInv, TypeOK
  <2>3. photoCount' = [photoCount EXCEPT ![g] = photoCount[g] + 1]
    BY <1>9, <2>2 DEF CountPhoto
  <2>4. /\ request'[r].at = "create_job"
        /\ \A v \in Requests \ {r} : request'[v] = request[v]
    BY <1>9, RequestMoves DEF CountPhoto, TryOnInv, RequestAt
  <2>5. \A h \in Guests : photoCount'[h] = IF h = g THEN photoCount[g] + 1 ELSE photoCount[h]
    BY <2>3 DEF TryOnInv, TypeOK
  <2>6. ASSUME NEW h \in Guests
        PROVE  /\ IsFiniteSet(Counted(h)')
               /\ Cardinality(Counted(h)') <= photoCount'[h] /\ photoCount'[h] <= PhotoLimit
    <3>1. /\ IsFiniteSet(Counted(h)) /\ Cardinality(Counted(h)) \in Nat
          /\ Cardinality(Counted(h)) <= photoCount[h] /\ photoCount[h] <= PhotoLimit
      BY FS_CardinalityType DEF PhotoInv
    <3>2. CASE h = g /\ r \in Photo
      <4>1. Counted(h)' = Counted(h) \cup {r} /\ r \notin Counted(h)
        BY <2>1, <2>4, <3>2, TryOnAssumption DEF Counted
      <4>2. /\ IsFiniteSet(Counted(h)')
            /\ Cardinality(Counted(h)') = Cardinality(Counted(h)) + 1
        BY <3>1, <4>1, FS_AddElement
      <4>. QED  BY <2>2, <2>5, <3>1, <3>2, <4>2, TryOnAssumption
    <3>3. CASE ~(h = g /\ r \in Photo)
      <4>1. Counted(h)' = Counted(h)
        BY <2>4, <3>3, TryOnAssumption DEF Counted
      <4>. QED  BY <2>2, <2>5, <3>1, <4>1, TryOnAssumption
    <3>. QED  BY <3>2, <3>3
  <2>7. ASSUME NEW v \in Requests, ByGuest(v), request'[v].at \in Uploading
        PROVE  request'[v].count = photoCount'[Owner[v]] /\ request'[v].count < PhotoLimit
    <3>1. v # r /\ request'[v] = request[v] /\ request[v].at \in Uploading
      BY <2>4, <2>7 DEF Uploading
    <3>2. Owner[v] # g
      BY <2>1, <3>1 DEF UploadsApart, Uploading
    <3>3. Owner[v] \in Guests /\ photoCount'[Owner[v]] = photoCount[Owner[v]]
      BY <2>5, <2>7, <3>2 DEF ByGuest
    <3>. QED  BY <2>7, <3>1, <3>3 DEF PhotoInv
  <2>. QED  BY <2>6, <2>7 DEF PhotoInv, ByGuest
<1>. QED  BY <1>1, <1>2, <1>4, <1>5, <1>6, <1>7, <1>8, <1>9 DEF RequestStep

LEMMA PhotoStep ==
  ASSUME TryOnInv, UploadsApart, PhotoInv, [Next]_vars
  PROVE  PhotoInv'
<1>. USE DEF dbVars
<1>1. ASSUME UNCHANGED <<photoCount, request>> PROVE PhotoInv'
  BY <1>1 DEF PhotoInv, Counted, ByGuest
<1>2. ASSUME NEW r \in Requests, TaskStep(r) PROVE UNCHANGED <<photoCount, request>>
  BY <1>2 DEF TaskStep, TaskStart, TaskReadSource, TaskGenerate, TaskStoreResult,
              TaskCommitFile, TaskFailFile, TaskInsert, TaskReport, TaskFail
<1>3. ASSUME NEW r \in Requests, ClientStep(r) PROVE UNCHANGED <<photoCount, request>>
  BY <1>3 DEF ClientStep, SaveRead, SaveCommit, DeleteRead, DeleteBlob, DeleteRows
<1>4. CleanerStep => UNCHANGED <<photoCount, request>>
  BY DEF CleanerStep, CleanListTryOns, CleanTryOn, CleanCommitTryOns, CleanListFiles,
         CleanFile, CleanCommitFiles, CleanJobs, CleanGuests
<1>5. TimePasses => UNCHANGED <<photoCount, request>>
  BY DEF TimePasses, Pass
<1>6. CleanerCrash => UNCHANGED <<photoCount, request>>
  BY DEF CleanerCrash
<1>7. CASE ServerCrash
  <2>1. photoCount' = photoCount
    BY <1>7 DEF ServerCrash
  <2>2. ASSUME NEW r \in Requests
        PROVE  request'[r] = request[r] \/ request'[r].at = "dead"
    <3>1. request[r] \in [at : RequestAt, count : Nat]
      BY DEF TryOnInv, TypeOK
    <3>. QED  BY <1>7, <3>1 DEF ServerCrash
  <2>. QED  BY <2>1, <2>2, PhotoKept DEF PhotoInv, Uploading
<1>8. UNCHANGED vars => UNCHANGED <<photoCount, request>>
  BY DEF vars
<1>. QED  BY <1>1, <1>2, <1>3, <1>4, <1>5, <1>6, <1>7, <1>8, RequestStepPhoto DEF Next

\* enqueue_photo_try_on's check of photo_try_on_count does its work: while no two
\* uploads of one guest overlap, no guest has more photos turned into jobs than
\* the limit, whatever requests die or sessions are cleaned up.
THEOREM TryOnGuestLimit == Spec /\ []UploadsApart => []GuestPhotoLimit
<1>1. Init => PhotoInv
  <2>. SUFFICES ASSUME Init PROVE PhotoInv
    OBVIOUS
  <2>1. \A r \in Requests : request[r].at = "new"
    BY DEF Init
  <2>2. \A g \in Guests : Counted(g) = {} /\ photoCount[g] = 0
    BY <2>1, TryOnAssumption DEF Init, Counted
  <2>. QED  BY <2>1, <2>2, FS_EmptySet, TryOnAssumption DEF PhotoInv, Uploading
<1>2. TryOnInv /\ UploadsApart /\ PhotoInv /\ [Next]_vars => PhotoInv'
  BY PhotoStep
<1>3. TryOnInv /\ PhotoInv => GuestPhotoLimit
  <2>. SUFFICES ASSUME TryOnInv, PhotoInv, NEW g \in Guests
                PROVE  Cardinality({r \in Photo : Owner[r] = g /\ request[r].at = "accepted"})
                          <= PhotoLimit
    BY DEF GuestPhotoLimit
  <2>. PICK made : made = {r \in Photo : Owner[r] = g /\ request[r].at = "accepted"}
    OBVIOUS
  <2>1. made \subseteq Counted(g) /\ IsFiniteSet(Counted(g))
    BY DEF Counted, PhotoInv
  <2>2. Cardinality(made) <= Cardinality(Counted(g))
        /\ Cardinality(made) \in Nat /\ Cardinality(Counted(g)) \in Nat
    BY <2>1, FS_Subset, FS_CardinalityType
  <2>3. photoCount[g] \in Nat
    BY DEF TryOnInv, TypeOK
  <2>. QED  BY <2>2, <2>3, TryOnAssumption DEF PhotoInv
<1>. QED  BY <1>1, <1>2, <1>3, TryOnCorrect, PTL DEF Spec
-----------------------------------------------------------------------------
(***************************************************************************)
(* TryOnJobs implements ResultLife.                                        *)
(***************************************************************************)
\* What there is of the result of a request, and what its member has asked for,
\* tells where its task and its job are.
LifeTrue(r) ==
    /\ jobs[r] # "none" => task[r] # "none"
    /\ tryOns[r] # "none" => jobs[r] # "none"
    /\ tryOns[r] # "none" /\ task[r] = "done" => jobs[r] = "succeeded"
    /\ tryOns[r] = "saved" \/ (\E c \in Calls : client[r][c] # "idle") \/ wish[r] # "none"
         => task[r] = "done" /\ jobs[r] \in {"none", "succeeded"}
    /\ wish[r] # "none" => tryOns[r] # "unsaved"

LifeInv == TryOnInv /\ \A r \in Requests : LifeTrue(r)

\* What an outcome is read from stays as it is.
Alike(v) ==
    /\ jobs'[v] = jobs[v]
    /\ task'[v] = "none" <=> task[v] = "none"
    /\ tryOns'[v] = tryOns[v]
    /\ wish'[v] = wish[v]
    /\ files'[Result(v)] = files[Result(v)]
    /\ Result(v) \in blobs' <=> Result(v) \in blobs

LEMMA AlikeOutcome ==
  ASSUME NEW v \in Requests, Alike(v), passed' = passed
  PROVE  Outcome(v)' = Outcome(v)
  BY DEF Alike, Outcome, Kept, Offered, NothingLeft, Unsettled, Downloadable, expired

LEMMA LifeKept ==
  ASSUME NEW v \in Requests, LifeTrue(v),
         jobs'[v] = jobs[v], tryOns'[v] = tryOns[v], wish'[v] = wish[v],
         \A c \in Calls : client'[v][c] \in {client[v][c], "idle"},
         task[v] = "none" <=> task'[v] = "none", task[v] = "done" <=> task'[v] = "done"
  PROVE  LifeTrue(v)'
  BY DEF LifeTrue

\* The outcome of a job that has not finished does not depend on its result.
LEMMA RunningOutcome ==
  ASSUME TryOnInv, NEW r \in Requests, task[r] # "done", task[r] # "none", task'[r] # "none",
         jobs'[r] = jobs[r] \/ (jobs[r] # "none" /\ jobs'[r] = "processing")
  PROVE  Outcome(r)' = Outcome(r)
<1>1. jobs[r] \in {"none", "pending", "processing"}
  BY DEF TryOnInv, TypeOK, TryOnTrue, JobTrue
<1>. QED  BY <1>1 DEF Outcome, Unsettled

\* Nor does that of one that has expired and is not to be kept.
LEMMA SpoiltOutcome ==
  ASSUME TryOnInv, NEW v \in Requests, v \in expired, wish[v] # "keep",
         passed' = passed, wish'[v] = wish[v], jobs'[v] = jobs[v], task'[v] = task[v],
         tryOns'[v] \in {tryOns[v], "none"}, files'[Result(v)] \in {files[Result(v)], "none"}
  PROVE  Outcome(v)' = Outcome(v)
<1>1. jobs[v] = "failed" => NothingLeft(v) /\ NothingLeft(v)'
  BY DEF TryOnInv, TryOnTrue, JobTrue, NothingLeft
<1>2. ~Kept(v) /\ ~Kept(v)' /\ ~Offered(v) /\ ~Offered(v)'
  BY DEF Kept, Offered, expired
<1>. QED  BY <1>1, <1>2 DEF Outcome, Unsettled

\* A step of one request leaves the outcomes of the others.
LEMMA OneOutcome ==
  ASSUME NEW r \in Requests, \A v \in Requests \ {r} : Outcome(v)' = Outcome(v)
  PROVE  /\ outcome' = [outcome EXCEPT ![r] = Outcome(r)']
         /\ outcome[r] = Outcome(r)
         /\ Outcome(r)' = Outcome(r) => outcome' = outcome
  BY DEF outcome

LEMMA SameOutcomes ==
  ASSUME \A v \in Requests : Outcome(v)' = Outcome(v)
  PROVE  outcome' = outcome
  BY DEF outcome

-----------------------------------------------------------------------------
LEMMA RequestStepLife ==
  ASSUME LifeInv, NEW r \in Requests, RequestStep(r)
  PROVE  (\A v \in Requests : LifeTrue(v)') /\ [Life!Next]_(Life!life)
<1>. USE DEF dbVars
<1>0. /\ UNCHANGED <<tryOns, wish, client, passed>>
      /\ \A v \in Requests : files'[Result(v)] = files[Result(v)]
      /\ \A v \in Requests : Result(v) \in blobs' <=> Result(v) \in blobs
  BY FileShape
  DEF RequestStep, AcceptAvatar, AcceptPhoto, StoreSource, CommitSource, FailSource,
      CountPhoto, CreateJob, LifeInv, TryOnInv, TypeOK
<1>1. ASSUME NEW v \in Requests, jobs'[v] = jobs[v], task'[v] = task[v]
      PROVE  LifeTrue(v)' /\ Outcome(v)' = Outcome(v)
  BY <1>0, <1>1, LifeKept, AlikeOutcome DEF LifeInv, Alike
<1>2. CASE CreateJob(r)
  <2>1. \A v \in Requests \ {r} : jobs'[v] = jobs[v] /\ task'[v] = task[v]
    BY <1>2 DEF CreateJob, LifeInv, TryOnInv, TypeOK
  <2>2. task[r] = "none" /\ jobs[r] = "none" /\ tryOns[r] = "none"
    BY <1>2 DEF CreateJob, LifeInv, LifeTrue, TryOnInv, TryOnTrue, RequestTrue, TaskTrue, AfterRow
  <2>3. task'[r] = "scheduled" /\ jobs'[r] = "pending"
    BY <1>2 DEF CreateJob, LifeInv, TryOnInv, TypeOK
  <2>4. LifeTrue(r)'
    BY <1>0, <2>2, <2>3 DEF LifeInv, LifeTrue
  <2>5. Outcome(r)' = Outcome(r)
    BY <2>2, <2>3 DEF Outcome, Unsettled
  <2>. QED  BY <1>0, <1>1, <2>1, <2>4, <2>5, SameOutcomes DEF Life!life, expired, deleted
<1>3. CASE UNCHANGED <<jobs, task>>
  BY <1>0, <1>1, <1>3, SameOutcomes DEF Life!life, expired, deleted
<1>4. UNCHANGED <<jobs, task>> \/ CreateJob(r)
  BY DEF RequestStep, AcceptAvatar, AcceptPhoto, StoreSource, CommitSource, FailSource, CountPhoto
<1>. QED  BY <1>2, <1>3, <1>4

-----------------------------------------------------------------------------
\* A task that goes on without finishing the job.
LEMMA TaskRunsLife ==
  ASSUME LifeInv, NEW r \in Requests,
         UNCHANGED <<wish, client, passed>>, task[r] \notin {"none", "done"},
         task'[r] \notin {"none", "done"}, tryOns'[r] = tryOns[r],
         jobs'[r] = jobs[r] \/ (jobs[r] # "none" /\ jobs'[r] = "processing"),
         \A v \in Requests \ {r} :
            /\ jobs'[v] = jobs[v] /\ task'[v] = task[v] /\ tryOns'[v] = tryOns[v]
            /\ files'[Result(v)] = files[Result(v)]
            /\ Result(v) \in blobs' <=> Result(v) \in blobs
  PROVE  (\A v \in Requests : LifeTrue(v)') /\ UNCHANGED Life!life
<1>1. ASSUME NEW v \in Requests \ {r} PROVE LifeTrue(v)' /\ Outcome(v)' = Outcome(v)
  BY LifeKept, AlikeOutcome DEF LifeInv, Alike
<1>2. LifeTrue(r)'
  BY DEF LifeInv, LifeTrue
<1>3. Outcome(r)' = Outcome(r)
  BY RunningOutcome DEF LifeInv
<1>. QED  BY <1>1, <1>2, <1>3, SameOutcomes DEF Life!life, expired, deleted

LEMMA TaskInsertLife ==
  ASSUME LifeInv, NEW r \in Requests, TaskInsert(r)
  PROVE  (\A v \in Requests : LifeTrue(v)') /\ UNCHANGED Life!life
<1>. USE DEF TaskInsert, dbVars
<1>1. /\ task[r] = "insert" /\ UNCHANGED <<jobs, files, blobs, wish, client, passed>>
      /\ \A v \in Requests \ {r} : task'[v] = task[v] /\ tryOns'[v] = tryOns[v]
      /\ \/ task'[r] = "report" /\ tryOns'[r] = "unsaved" /\ jobs[r] # "none"
         \/ task'[r] = "dead" /\ tryOns'[r] = tryOns[r]
  BY DEF TaskGoes, LifeInv, TryOnInv, TypeOK
<1>2. ASSUME NEW v \in Requests \ {r} PROVE LifeTrue(v)' /\ Outcome(v)' = Outcome(v)
  BY <1>1, LifeKept, AlikeOutcome DEF LifeInv, Alike
<1>3. LifeTrue(r)'
  BY <1>1 DEF LifeInv, LifeTrue
<1>4. Outcome(r)' = Outcome(r)
  BY <1>1, RunningOutcome DEF LifeInv
<1>. QED  BY <1>1, <1>2, <1>3, <1>4, SameOutcomes DEF Life!life, expired, deleted

\* The result that is there when the job reports it is offered, unless it expired.
LEMMA TaskReportLife ==
  ASSUME LifeInv, NEW r \in Requests, TaskReport(r)
  PROVE  (\A v \in Requests : LifeTrue(v)') /\ [Life!Next]_(Life!life)
<1>. USE DEF TaskReport, dbVars
<1>1. /\ task[r] = "report" /\ task'[r] = "done"
      /\ UNCHANGED <<tryOns, files, blobs, wish, client, passed>>
      /\ \A v \in Requests \ {r} : task'[v] = task[v] /\ jobs'[v] = jobs[v]
      /\ jobs'[r] = IF jobs[r] = "none" THEN "none" ELSE "succeeded"
  BY TaskMoves, StatusMoves DEF LifeInv, TryOnInv, TaskAt
<1>2. ASSUME NEW v \in Requests \ {r} PROVE LifeTrue(v)' /\ Outcome(v)' = Outcome(v)
  BY <1>1, LifeKept, AlikeOutcome DEF LifeInv, Alike
<1>3. LifeTrue(r)'
  BY <1>1 DEF LifeInv, LifeTrue
<1>4. UNCHANGED <<expired, deleted>>
  BY <1>1 DEF expired, deleted
<1>5. CASE jobs[r] = "none"
  <2>1. Outcome(r)' = Outcome(r)
    BY <1>1, <1>5 DEF Outcome
  <2>. QED  BY <1>2, <1>3, <1>4, <2>1, SameOutcomes DEF Life!life
<1>6. CASE jobs[r] # "none"
  <2>1. Outcome(r) = "open"
    BY <1>1, <1>6 DEF LifeInv, TryOnInv, TypeOK, TryOnTrue, JobTrue, Outcome, Unsettled
  <2>2. tryOns[r] # "saved" /\ wish[r] = "none"
    BY <1>1 DEF LifeInv, LifeTrue, TryOnInv, TypeOK
  <2>3. ~Kept(r)'
    BY <1>1, <2>2 DEF Kept
  <2>4. Offered(r)' <=> r \notin expired
    <3>1. r \in expired \/ tryOns[r] # "none"
      BY <1>1, <2>2 DEF LifeInv, TryOnInv, TryOnTrue, JobTrue, Accounted, expired
    <3>2. r \notin expired => tryOns[r] = "unsaved" /\ Downloadable(Result(r))
      BY <2>2, <3>1 DEF LifeInv, TryOnInv, TypeOK, TryOnTrue, TaskTrue, expired
    <3>. QED  BY <1>1, <1>4, <3>2 DEF Offered, Downloadable
  <2>5. Outcome(r)' = IF r \in expired THEN "gone" ELSE "offered"
    BY <1>1, <1>6, <2>3, <2>4 DEF Outcome, Unsettled
  <2>6. Life!Succeed(r)
    BY <1>2, <1>4, <2>1, <2>5, OneOutcome DEF Life!Succeed, Life!Becomes
  <2>. QED  BY <1>2, <1>3, <2>6 DEF Life!Next
<1>. QED  BY <1>5, <1>6

LEMMA TaskFailLife ==
  ASSUME LifeInv, NEW r \in Requests, TaskFail(r)
  PROVE  (\A v \in Requests : LifeTrue(v)') /\ [Life!Next]_(Life!life)
<1>. USE DEF TaskFail, dbVars
<1>1. /\ task[r] = "fail" /\ task'[r] = "done"
      /\ UNCHANGED <<tryOns, files, blobs, wish, client, passed>>
      /\ \A v \in Requests \ {r} : task'[v] = task[v] /\ jobs'[v] = jobs[v]
      /\ jobs'[r] = IF jobs[r] = "none" THEN "none" ELSE "failed"
  BY TaskMoves, StatusMoves DEF LifeInv, TryOnInv, TaskAt
<1>2. ASSUME NEW v \in Requests \ {r} PROVE LifeTrue(v)' /\ Outcome(v)' = Outcome(v)
  BY <1>1, LifeKept, AlikeOutcome DEF LifeInv, Alike
<1>3. NothingLeft(r)
  BY <1>1 DEF LifeInv, TryOnInv, TryOnTrue, JobTrue, NothingLeft
<1>4. LifeTrue(r)'
  BY <1>1, <1>3 DEF LifeInv, LifeTrue, NothingLeft
<1>5. UNCHANGED <<expired, deleted>>
  BY <1>1 DEF expired, deleted
<1>6. CASE jobs[r] = "none"
  <2>1. Outcome(r)' = Outcome(r)
    BY <1>1, <1>6 DEF Outcome
  <2>. QED  BY <1>2, <1>4, <1>5, <2>1, SameOutcomes DEF Life!life
<1>7. CASE jobs[r] # "none"
  <2>1. Outcome(r) = "open"
    BY <1>1, <1>7 DEF LifeInv, TryOnInv, TypeOK, TryOnTrue, JobTrue, Outcome, Unsettled
  <2>2. Outcome(r)' = "failed"
    BY <1>1, <1>3, <1>7 DEF Outcome, Unsettled, NothingLeft
  <2>3. Life!Fail(r)
    BY <1>2, <1>5, <2>1, <2>2, OneOutcome DEF Life!Fail, Life!Becomes
  <2>. QED  BY <1>2, <1>4, <2>3 DEF Life!Next
<1>. QED  BY <1>6, <1>7

LEMMA TaskStepLife ==
  ASSUME LifeInv, NEW r \in Requests, TaskStep(r)
  PROVE  (\A v \in Requests : LifeTrue(v)') /\ [Life!Next]_(Life!life)
<1>. USE DEF dbVars
<1>1. CASE TaskStart(r)
  <2>1. /\ jobs'[r] = IF jobs[r] = "none" THEN "none" ELSE "processing"
        /\ \A v \in Requests \ {r} : jobs'[v] = jobs[v] /\ task'[v] = task[v]
        /\ task[r] = "scheduled" /\ task'[r] \in {"dead", "source", "generate"}
    BY <1>1, StatusMoves DEF TaskStart, TaskGoes, LifeInv, TryOnInv, TypeOK
  <2>. QED  BY <1>1, <2>1, TaskRunsLife DEF TaskStart
<1>2. ASSUME NEW at \in TaskAt \ {"none", "done"}, TaskGoes(r, at),
             task[r] \notin {"none", "done"},
             UNCHANGED <<jobs, tryOns, wish, client, passed>>,
             \A v \in Requests \ {r} :
                /\ files'[Result(v)] = files[Result(v)]
                /\ Result(v) \in blobs' <=> Result(v) \in blobs
      PROVE  (\A v \in Requests : LifeTrue(v)') /\ UNCHANGED Life!life
  <2>1. task'[r] = at /\ \A v \in Requests \ {r} : task'[v] = task[v]
    BY <1>2, TaskMoves DEF LifeInv, TryOnInv
  <2>. QED  BY <1>2, <2>1, TaskRunsLife
<1>3. CASE TaskReadSource(r)
  BY <1>2, <1>3 DEF TaskReadSource, TaskAt
<1>4. CASE TaskGenerate(r)
  BY <1>2, <1>4 DEF TaskGenerate, TaskAt
<1>5. CASE TaskStoreResult(r)
  BY <1>2, <1>5, FileShape DEF TaskStoreResult, TaskAt
<1>6. CASE TaskCommitFile(r)
  BY <1>2, <1>6, FileShape DEF TaskCommitFile, TaskAt, LifeInv, TryOnInv, TypeOK
<1>7. CASE TaskFailFile(r)
  BY <1>2, <1>7, FileShape DEF TaskFailFile, TaskAt
<1>. QED
  BY <1>1, <1>3, <1>4, <1>5, <1>6, <1>7, TaskInsertLife, TaskReportLife, TaskFailLife DEF TaskStep

-----------------------------------------------------------------------------
\* A member's request that only moves on.
LEMMA ClientReadsLife ==
  ASSUME LifeInv, NEW r \in Requests, NEW c \in Calls,
         SaveRead(r, c) \/ DeleteRead(r, c)
  PROVE  (\A v \in Requests : LifeTrue(v)') /\ UNCHANGED Life!life
<1>. USE DEF dbVars
<1>1. /\ UNCHANGED <<jobs, tryOns, files, blobs, task, wish, passed>>
      /\ \A v \in Requests \ {r} : client'[v] = client[v]
      /\ (jobs[r] = "succeeded" /\ task[r] = "done") \/ tryOns[r] = "saved"
  BY DEF SaveRead, DeleteRead, ClientGoes, LifeInv, TryOnInv, TypeOK, TryOnTrue, JobTrue
<1>2. ASSUME NEW v \in Requests PROVE Outcome(v)' = Outcome(v)
  BY <1>1, AlikeOutcome DEF Alike
<1>3. ASSUME NEW v \in Requests \ {r} PROVE LifeTrue(v)'
  BY <1>1, LifeKept DEF LifeInv
<1>4. LifeTrue(r)'
  BY <1>1 DEF LifeInv, LifeTrue
<1>. QED  BY <1>1, <1>2, <1>3, <1>4, SameOutcomes DEF Life!life, expired, deleted

\* Saving in time keeps what is offered; saving too late keeps nothing.
LEMMA SaveCommitLife ==
  ASSUME LifeInv, NEW r \in Requests, NEW c \in Calls, SaveCommit(r, c)
  PROVE  (\A v \in Requests : LifeTrue(v)') /\ [Life!Next]_(Life!life)
<1>. USE DEF SaveCommit, dbVars
<1>1. /\ client[r][c] = "save"
      /\ \A d \in Calls : client'[r][d] \in {client[r][d], "idle"}
      /\ UNCHANGED <<jobs, blobs, task, passed>>
      /\ task[r] = "done" /\ jobs[r] \in {"none", "succeeded"}
  BY DEF ClientGoes, LifeInv, LifeTrue, TryOnInv, TypeOK
<1>2. \A v \in Requests \ {r} : /\ client'[v] = client[v] /\ tryOns'[v] = tryOns[v]
                                /\ wish'[v] = wish[v] /\ files'[Result(v)] = files[Result(v)]
  BY FileShape DEF ClientGoes, WishKept, LifeInv, TryOnInv, TypeOK
<1>3. ASSUME NEW v \in Requests \ {r} PROVE LifeTrue(v)' /\ Outcome(v)' = Outcome(v)
  BY <1>1, <1>2, LifeKept, AlikeOutcome DEF LifeInv, Alike
<1>4. expired' = expired
  BY <1>1 DEF expired
<1>5. CASE UNCHANGED <<tryOns, files, wish>>
  <2>1. LifeTrue(r)' /\ Outcome(r)' = Outcome(r)
    BY <1>1, <1>5, LifeKept, AlikeOutcome DEF LifeInv, Alike
  <2>. QED  BY <1>3, <1>4, <1>5, <2>1, SameOutcomes DEF Life!life, deleted
<1>6. CASE tryOns[r] = "saved" /\ files[Result(r)] # "none"
  <2>1. tryOns'[r] = "saved" /\ files'[Result(r)] = "kept" /\ wish' = wish
    BY <1>6, FileShape DEF WishKept, LifeInv, TryOnInv, TypeOK, TryOnTrue, ClientTrue
  <2>2. LifeTrue(r)' /\ deleted' = deleted
    BY <1>1, <1>6, <2>1, LifeKept DEF LifeInv, deleted
  <2>3. Kept(r)' <=> Kept(r)
    BY <1>1, <1>6, <2>1 DEF Kept, Downloadable
  <2>4. ~Offered(r) /\ ~Offered(r)'
    BY <1>6, <2>1 DEF Offered
  <2>5. Outcome(r)' = Outcome(r)
    BY <1>1, <2>3, <2>4 DEF Outcome, Unsettled
  <2>. QED  BY <1>3, <1>4, <2>2, <2>5, SameOutcomes DEF Life!life
<1>7. CASE tryOns[r] = "unsaved" /\ files[Result(r)] # "none"
  <2>1. /\ tryOns[r] = "unsaved" /\ wish[r] = "none" /\ jobs[r] = "succeeded"
        /\ r \in expired <=> Result(r) \in passed
    BY <1>1, <1>7, TryOnAssumption
    DEF LifeInv, LifeTrue, TryOnInv, TypeOK, TryOnTrue, ClientTrue, CallTrue, ByMember, expired
  <2>2. /\ tryOns'[r] = "saved" /\ files'[Result(r)] = "kept"
        /\ wish'[r] = IF Result(r) \in passed THEN "none" ELSE "keep"
    BY <1>7, <2>1, FileShape DEF WishKept, LifeInv, TryOnInv, TypeOK
  <2>3. LifeTrue(r)'
    BY <1>1, <2>1, <2>2 DEF LifeTrue
  <2>4. deleted' = deleted
    BY <1>2, <2>1, <2>2 DEF deleted
  <2>5. CASE r \in expired
    <3>1. Outcome(r) = "gone" /\ Outcome(r)' = "gone"
      BY <1>1, <1>4, <2>1, <2>2, <2>5 DEF Outcome, Kept, Offered, Unsettled
    <3>. QED  BY <1>3, <1>4, <2>3, <2>4, <3>1, SameOutcomes DEF Life!life
  <2>6. CASE r \notin expired
    <3>1. Downloadable(Result(r))
      BY <2>1, <2>6 DEF LifeInv, TryOnInv, TryOnTrue, TaskTrue
    <3>2. Offered(r) /\ ~Kept(r) /\ Kept(r)'
      BY <1>1, <2>1, <2>2, <2>6, <3>1 DEF Offered, Kept, Downloadable
    <3>3. Outcome(r) = "offered" /\ Outcome(r)' = "kept"
      BY <1>1, <2>1, <3>2 DEF Outcome, Unsettled
    <3>4. Life!Keep(r)
      BY <1>3, <1>4, <2>4, <3>3, OneOutcome DEF Life!Keep, Life!Becomes
    <3>. QED  BY <1>3, <2>3, <3>4 DEF Life!Next
  <2>. QED  BY <2>5, <2>6
<1>. QED  BY <1>5, <1>6, <1>7 DEF LifeInv, TryOnInv, TypeOK

LEMMA DeleteBlobLife ==
  ASSUME LifeInv, NEW r \in Requests, NEW c \in Calls, DeleteBlob(r, c)
  PROVE  (\A v \in Requests : LifeTrue(v)') /\ [Life!Next]_(Life!life)
<1>. USE DEF DeleteBlob, dbVars
<1>1. /\ client[r][c] = "delete" /\ wish'[r] = "delete"
      /\ UNCHANGED <<jobs, tryOns, files, task, passed>>
      /\ task[r] = "done" /\ jobs[r] \in {"none", "succeeded"} /\ tryOns[r] # "unsaved"
  BY DEF ClientGoes, LifeInv, LifeTrue, TryOnInv, TypeOK, TryOnTrue, ClientTrue, CallTrue
<1>2. \A v \in Requests \ {r} : /\ client'[v] = client[v] /\ wish'[v] = wish[v]
                                /\ Result(v) \in blobs' <=> Result(v) \in blobs
  BY FileShape DEF ClientGoes, LifeInv, TryOnInv, TypeOK
<1>3. ASSUME NEW v \in Requests \ {r} PROVE LifeTrue(v)' /\ Outcome(v)' = Outcome(v)
  BY <1>1, <1>2, LifeKept, AlikeOutcome DEF LifeInv, Alike
<1>4. LifeTrue(r)'
  BY <1>1 DEF LifeInv, LifeTrue
<1>5. expired' = expired /\ deleted' = deleted \cup {r}
  BY <1>1, <1>2 DEF expired, deleted
<1>6. /\ Outcome(r) \in {"kept", "gone", "forgotten"}
      /\ Outcome(r)' = IF Outcome(r) = "kept" THEN "gone" ELSE Outcome(r)
  BY <1>1 DEF Outcome, Kept, Offered, Unsettled
<1>7. Life!Delete(r)
  BY <1>3, <1>5, <1>6, OneOutcome DEF Life!Delete
<1>. QED  BY <1>3, <1>4, <1>7 DEF Life!Next

LEMMA DeleteRowsLife ==
  ASSUME LifeInv, NEW r \in Requests, NEW c \in Calls, DeleteRows(r, c)
  PROVE  (\A v \in Requests : LifeTrue(v)') /\ UNCHANGED Life!life
<1>. USE DEF DeleteRows, dbVars
<1>1. /\ client[r][c] = "delete_rows"
      /\ wish[r] = "delete" /\ tryOns[r] # "unsaved" /\ tryOns'[r] = "none"
      /\ UNCHANGED <<jobs, blobs, task, wish, passed>>
      /\ task[r] = "done" /\ jobs[r] \in {"none", "succeeded"}
  BY DEF ClientGoes, LifeInv, LifeTrue, TryOnInv, TypeOK, TryOnTrue, ClientTrue, CallTrue
<1>2. \A v \in Requests \ {r} : /\ client'[v] = client[v] /\ tryOns'[v] = tryOns[v]
                                /\ files'[Result(v)] = files[Result(v)]
  BY FileShape DEF ClientGoes, LifeInv, TryOnInv, TypeOK
<1>3. ASSUME NEW v \in Requests \ {r} PROVE LifeTrue(v)' /\ Outcome(v)' = Outcome(v)
  BY <1>1, <1>2, LifeKept, AlikeOutcome DEF LifeInv, Alike
<1>4. LifeTrue(r)'
  BY <1>1 DEF LifeTrue
<1>5. Outcome(r)' = Outcome(r)
  BY <1>1 DEF Outcome, Kept, Offered, Unsettled
<1>. QED  BY <1>1, <1>3, <1>4, <1>5, SameOutcomes DEF Life!life, expired, deleted

LEMMA ClientStepLife ==
  ASSUME LifeInv, NEW r \in Requests, ClientStep(r)
  PROVE  (\A v \in Requests : LifeTrue(v)') /\ [Life!Next]_(Life!life)
  BY ClientReadsLife, SaveCommitLife, DeleteBlobLife, DeleteRowsLife DEF ClientStep

-----------------------------------------------------------------------------
\* The clean-up takes only what has expired and is not to be kept.
LEMMA CleanRowsLife ==
  ASSUME LifeInv, UNCHANGED <<jobs, task, client, wish, passed>>,
         \A v \in Requests :
            \/ /\ tryOns'[v] = tryOns[v] /\ files'[Result(v)] = files[Result(v)]
               /\ Result(v) \in blobs' <=> Result(v) \in blobs
            \/ /\ v \in expired /\ wish[v] # "keep"
               /\ tryOns'[v] \in {tryOns[v], "none"}
               /\ files'[Result(v)] \in {files[Result(v)], "none"}
  PROVE  (\A v \in Requests : LifeTrue(v)') /\ UNCHANGED Life!life
<1>1. ASSUME NEW v \in Requests PROVE Outcome(v)' = Outcome(v)
  BY AlikeOutcome, SpoiltOutcome DEF LifeInv, Alike
<1>2. ASSUME NEW v \in Requests PROVE LifeTrue(v)'
  BY DEF LifeInv, LifeTrue
<1>. QED  BY <1>1, <1>2, SameOutcomes DEF Life!life, expired, deleted

LEMMA CleanJobsLife ==
  ASSUME LifeInv, CleanJobs
  PROVE  (\A v \in Requests : LifeTrue(v)') /\ [Life!Next]_(Life!life)
<1>. USE DEF CleanJobs, dbVars
<1> DEFINE out == {r \in Requests : jobs[r] # "none" /\ r \in passed /\ tryOns[r] = "none"}
<1>1. /\ \A r \in out : jobs'[r] = "none"
      /\ \A r \in Requests \ out : jobs'[r] = jobs[r]
      /\ UNCHANGED <<tryOns, files, blobs, task, client, wish, passed>>
  OBVIOUS
<1>2. ASSUME NEW v \in Requests PROVE LifeTrue(v)'
  BY <1>1 DEF LifeInv, LifeTrue
<1>3. ASSUME NEW v \in Requests \ out PROVE Outcome(v)' = Outcome(v)
  BY <1>1, <1>3, AlikeOutcome DEF Alike
<1>4. ASSUME NEW v \in out
      PROVE  Outcome(v) \in {"open", "failed", "gone"} /\ Outcome(v)' = "forgotten"
  <2>1. ~Kept(v) /\ ~Offered(v)
    BY DEF Kept, Offered
  <2>2. jobs[v] = "failed" => NothingLeft(v)
    BY DEF LifeInv, TryOnInv, TryOnTrue, JobTrue, NothingLeft
  <2>3. Outcome(v) \in {"open", "failed", "gone"}
    BY <2>1, <2>2 DEF Outcome, Unsettled, LifeInv, TryOnInv, TypeOK
  <2>4. task'[v] # "none" /\ jobs'[v] = "none"
    BY <1>1 DEF LifeInv, LifeTrue
  <2>5. Outcome(v)' = "forgotten"
    BY <2>4 DEF Outcome, Unsettled
  <2>. QED  BY <2>3, <2>5
<1>5. UNCHANGED <<expired, deleted>>
  BY <1>1 DEF expired, deleted
<1>6. Life!Forget(out)
  <2>. HIDE DEF CleanJobs
  <2>. QED  BY <1>3, <1>4, <1>5 DEF Life!Forget, outcome
<1>. QED  BY <1>2, <1>6 DEF Life!Next

LEMMA CleanerStepLife ==
  ASSUME LifeInv, CleanerStep
  PROVE  (\A v \in Requests : LifeTrue(v)') /\ [Life!Next]_(Life!life)
<1>. USE DEF dbVars
<1>0. /\ \A v \in Requests : Result(v) \in cleaner.gone
            => v \in expired /\ wish[v] # "keep"
      /\ cleaner.at = "try_ons" => \A v \in cleaner.rows : v \in expired /\ wish[v] # "keep"
  BY DEF LifeInv, TryOnInv, TypeOK, CleanerState, CleanerTrue, TryOnTrue, ClientTrue, CallTrue, expired
<1>1. CASE CleanListTryOns \/ CleanListFiles
  BY <1>1, CleanRowsLife DEF CleanListTryOns, CleanListFiles
<1>2. ASSUME NEW r \in Requests, CleanTryOn(r)
      PROVE  (\A v \in Requests : LifeTrue(v)') /\ [Life!Next]_(Life!life)
  <2>1. r \in expired /\ wish[r] # "keep"
    BY <1>0, <1>2 DEF CleanTryOn, LifeInv, TryOnInv, CleanerTrue
  <2>2. UNCHANGED <<jobs, tryOns, files, task, client, wish, passed>>
    BY <1>2 DEF CleanTryOn
  <2>3. \A v \in Requests \ {r} : Result(v) \in blobs' <=> Result(v) \in blobs
    BY <1>2, FileShape DEF CleanTryOn
  <2>. QED  BY <2>1, <2>2, <2>3, CleanRowsLife
<1>3. CASE CleanCommitTryOns
  BY <1>0, <1>3, FileShape, CleanRowsLife DEF CleanCommitTryOns
<1>4. ASSUME NEW f \in FileIds, CleanFile(f)
      PROVE  (\A v \in Requests : LifeTrue(v)') /\ [Life!Next]_(Life!life)
  <2>1. f \in cleaner.gone
    BY <1>4 DEF CleanFile, LifeInv, TryOnInv, CleanerTrue
  <2>. QED  BY <1>0, <1>4, <2>1, CleanRowsLife DEF CleanFile
<1>5. CASE CleanCommitFiles
  BY <1>0, <1>5, FileShape, CleanRowsLife DEF CleanCommitFiles
<1>6. CASE CleanGuests
  <2>1. \A v \in Requests : ByGuest(v) /\ Owner[v] \in guests \cap passed
           => v \in expired /\ wish[v] # "keep"
    BY TryOnAssumption
    DEF ByGuest, ByMember, LifeInv, TryOnInv, TryOnTrue, ClientTrue, CallTrue, expired
  <2>. QED  BY <1>6, <2>1, CleanRowsLife DEF CleanGuests
<1>. QED
  BY <1>1, <1>2, <1>3, <1>4, <1>5, <1>6, CleanJobsLife DEF CleanerStep

-----------------------------------------------------------------------------
LEMMA TimePassesLife ==
  ASSUME LifeInv, TimePasses
  PROVE  (\A v \in Requests : LifeTrue(v)') /\ [Life!Next]_(Life!life)
<1>. USE DEF dbVars
<1>1. /\ passed \subseteq passed'
      /\ UNCHANGED <<jobs, tryOns, files, blobs, task, client, wish>>
  BY DEF TimePasses, Pass
<1>2. ASSUME NEW v \in Requests PROVE LifeTrue(v)'
  BY <1>1, LifeKept DEF LifeInv
<1>3. expired \subseteq expired' /\ expired' \subseteq Requests /\ deleted' = deleted
  BY <1>1 DEF expired, deleted
<1>4. ASSUME NEW v \in Requests
      PROVE  Outcome(v)' = IF v \in expired' /\ Outcome(v) = "offered" THEN "gone" ELSE Outcome(v)
  <2>1. /\ Kept(v)' <=> Kept(v)
        /\ NothingLeft(v)' <=> NothingLeft(v)
        /\ Offered(v)' <=> Offered(v) /\ v \notin expired'
    BY <1>1, <1>3 DEF Kept, NothingLeft, Offered, Downloadable
  <2>2. ~(Kept(v) /\ Offered(v))
    BY DEF Kept, Offered
  <2>3. CASE jobs[v] = "succeeded"
    <3>1. Outcome(v) = IF Kept(v) THEN "kept" ELSE IF Offered(v) THEN "offered" ELSE "gone"
      BY <2>3 DEF Outcome, Unsettled
    <3>2. Outcome(v)' = IF Kept(v) THEN "kept" ELSE
                        IF Offered(v) /\ v \notin expired' THEN "offered" ELSE "gone"
      BY <1>1, <2>1, <2>3 DEF Outcome, Unsettled
    <3>. QED  BY <2>2, <3>1, <3>2
  <2>4. CASE jobs[v] # "succeeded"
    <3>1. jobs[v] \in {"none", "pending", "processing", "failed"}
      BY <2>4 DEF LifeInv, TryOnInv, TypeOK
    <3>2. Outcome(v) \in {"open", "forgotten", "failed", "left_over"}
      BY <3>1 DEF Outcome, Unsettled
    <3>3. Outcome(v)' = Outcome(v)
      BY <1>1, <2>1, <3>1 DEF Outcome, Unsettled
    <3>. QED  BY <3>2, <3>3
  <2>. QED  BY <2>3, <2>4
<1>5. Life!Expire(expired')
  BY <1>3, <1>4 DEF Life!Expire, outcome
<1>. QED  BY <1>2, <1>3, <1>5 DEF Life!Next

LEMMA CrashLife ==
  ASSUME LifeInv, ServerCrash \/ CleanerCrash
  PROVE  (\A v \in Requests : LifeTrue(v)') /\ UNCHANGED Life!life
<1>1. /\ UNCHANGED <<jobs, tryOns, files, blobs, wish, passed>>
      /\ \A v \in Requests : /\ task'[v] = "none" <=> task[v] = "none"
                             /\ task'[v] = "done" <=> task[v] = "done"
                             /\ \A c \in Calls : client'[v][c] \in {client[v][c], "idle"}
  BY DEF ServerCrash, CleanerCrash, TaskOver, dbVars
<1>2. ASSUME NEW v \in Requests PROVE LifeTrue(v)' /\ Outcome(v)' = Outcome(v)
  BY <1>1, LifeKept, AlikeOutcome DEF LifeInv, Alike
<1>. QED  BY <1>1, <1>2, SameOutcomes DEF Life!life, expired, deleted

LEMMA LifeStep ==
  ASSUME LifeInv, [Next]_vars
  PROVE  LifeInv' /\ [Life!Next]_(Life!life)
<1>1. CASE UNCHANGED vars
  <2>1. ASSUME NEW v \in Requests PROVE LifeTrue(v)' /\ Outcome(v)' = Outcome(v)
    BY <1>1, LifeKept, AlikeOutcome DEF LifeInv, Alike, vars, dbVars
  <2>. QED  BY <1>1, <2>1, TryOnNextInv, SameOutcomes
            DEF LifeInv, Life!life, expired, deleted, vars
<1>2. CASE Next
  <2>1. (\A v \in Requests : LifeTrue(v)') /\ [Life!Next]_(Life!life)
    BY <1>2, RequestStepLife, TaskStepLife, ClientStepLife, CleanerStepLife, TimePassesLife,
       CrashLife DEF Next
  <2>. QED  BY <1>2, <2>1, TryOnNextInv DEF LifeInv
<1>. QED  BY <1>1, <1>2

LEMMA LifeInit == Init => LifeInv /\ Life!Init
<1>. SUFFICES ASSUME Init PROVE LifeInv /\ Life!Init
  OBVIOUS
<1>1. \A v \in Requests : LifeTrue(v) /\ Outcome(v) = "open"
  BY DEF Init, LifeTrue, Outcome
<1>2. expired = {} /\ deleted = {}
  BY DEF Init, expired, deleted
<1>. QED  BY <1>1, <1>2, InitTryOnInv DEF LifeInv, Life!Init, outcome

\* GET /jobs/{id} answers once and as it happened, a failure leaves nothing behind, a
\* result is there from the moment it is reported until it expires, or until the
\* member who saved it in time deletes it, and no answer goes before its result.
THEOREM TryOnImplementsLife == Spec => LifeSpec
<1>1. LifeInv /\ [Next]_vars => LifeInv' /\ [Life!Next]_(Life!life)
  BY LifeStep
<1>. QED  BY <1>1, LifeInit, PTL DEF Spec, LifeSpec, Life!Spec

-----------------------------------------------------------------------------
(***************************************************************************)
(* Saved results, when no save is late and no delete dies half-way.        *)
(***************************************************************************)
\* No result expires between what its save reads and what it writes, nor is one
\* saved that had expired.
SavesInTime ==
    \A r \in Requests, c \in Calls : client[r][c] = "save" => Result(r) \notin passed

\* Then what is saved is to be kept, or its delete is about to remove the row.
SavedInv ==
    \A r \in Requests :
        /\ tryOns[r] = "saved" => wish[r] # "none"
        /\ wish[r] = "delete" /\ tryOns[r] # "none"
             => \E c \in Calls : client[r][c] = "delete_rows"

LEMMA SavedKept ==
  ASSUME SavedInv,
         \A r \in Requests : /\ wish'[r] = wish[r]
                             /\ \A c \in Calls : client[r][c] = "delete_rows"
                                                    => client'[r][c] = client[r][c]
                             /\ tryOns'[r] \in {tryOns[r], "none"}
  PROVE  SavedInv'
  BY DEF SavedInv

LEMMA ClientStepSaved ==
  ASSUME LifeInv, SavesInTime, SavedInv, NEW r \in Requests, ClientStep(r)
  PROVE  SavedInv'
<1>. USE DEF dbVars
<1>0. PICK c \in Calls : \/ SaveRead(r, c) \/ SaveCommit(r, c) \/ DeleteRead(r, c)
                         \/ DeleteBlob(r, c) \/ DeleteRows(r, c)
  BY DEF ClientStep
<1>a. \A d \in Calls \ {c} : client'[r][d] = client[r][d]
  BY <1>0, ClientMoves DEF SaveRead, SaveCommit, DeleteRead, DeleteBlob, DeleteRows,
                           ClientAt, LifeInv, TryOnInv
<1>1. CASE SaveRead(r, c) \/ DeleteRead(r, c)
  <2>1. /\ UNCHANGED <<wish, tryOns>> /\ client[r][c] = "idle"
        /\ \A v \in Requests \ {r} : client'[v] = client[v]
    BY <1>1 DEF SaveRead, DeleteRead, ClientGoes, LifeInv, TryOnInv, TypeOK
  <2>. QED  BY <1>a, <2>1, SavedKept
<1>2. CASE SaveCommit(r, c)
  <2>1. /\ client[r][c] = "save" /\ Result(r) \notin passed
        /\ \A v \in Requests \ {r} : client'[v] = client[v] /\ tryOns'[v] = tryOns[v]
                                     /\ wish'[v] = wish[v]
    BY <1>2 DEF SaveCommit, WishKept, ClientGoes, SavesInTime, LifeInv, TryOnInv, TypeOK
  <2>2. \/ tryOns'[r] = tryOns[r] /\ wish'[r] = wish[r]
        \/ tryOns[r] # "none" /\ wish[r] = "delete" /\ wish'[r] = "delete"
        \/ wish'[r] = "keep"
    BY <1>2, <2>1 DEF SaveCommit, WishKept, LifeInv, TryOnInv, TypeOK
  <2>. QED  BY <1>a, <2>1, <2>2 DEF SavedInv
<1>3. CASE DeleteBlob(r, c)
  <2>1. /\ client'[r][c] = "delete_rows" /\ wish'[r] = "delete" /\ tryOns' = tryOns
        /\ \A v \in Requests \ {r} : client'[v] = client[v] /\ wish'[v] = wish[v]
    BY <1>3 DEF DeleteBlob, ClientGoes, LifeInv, TryOnInv, TypeOK
  <2>. QED  BY <2>1 DEF SavedInv
<1>4. CASE DeleteRows(r, c)
  <2>1. /\ tryOns'[r] = "none" /\ wish' = wish
        /\ \A v \in Requests \ {r} : client'[v] = client[v] /\ tryOns'[v] = tryOns[v]
    BY <1>4 DEF DeleteRows, ClientGoes, LifeInv, TryOnInv, TypeOK
  <2>. QED  BY <2>1 DEF SavedInv
<1>. QED  BY <1>0, <1>1, <1>2, <1>3, <1>4

LEMMA SavedStep ==
  ASSUME LifeInv, SavesInTime, SavedInv, [Next /\ ~ServerCrash]_vars
  PROVE  SavedInv'
<1>. USE DEF dbVars
<1>1. ASSUME NEW r \in Requests, TaskInsert(r) PROVE SavedInv'
  <2>1. /\ UNCHANGED <<client, wish>>
        /\ \A v \in Requests \ {r} : tryOns'[v] = tryOns[v]
        /\ tryOns'[r] \in {tryOns[r], "unsaved"}
        /\ wish[r] = "none"
    BY <1>1 DEF TaskInsert, LifeInv, LifeTrue, TryOnInv, TypeOK
  <2>. QED  BY <2>1 DEF SavedInv
<1>2. ASSUME NEW r \in Requests, RequestStep(r) \/ (TaskStep(r) /\ ~TaskInsert(r))
      PROVE  SavedInv'
  <2>1. UNCHANGED <<client, wish, tryOns>>
    BY <1>2
    DEF RequestStep, AcceptAvatar, AcceptPhoto, StoreSource, CommitSource, FailSource,
        CountPhoto, CreateJob, TaskStep, TaskStart, TaskReadSource, TaskGenerate,
        TaskStoreResult, TaskCommitFile, TaskFailFile, TaskReport, TaskFail
  <2>. QED  BY <2>1, SavedKept
<1>3. CASE CleanerStep
  <2>1. /\ UNCHANGED <<client, wish>>
        /\ \A v \in Requests : tryOns'[v] \in {tryOns[v], "none"}
    <3>1. CASE CleanCommitTryOns
      BY <3>1 DEF CleanCommitTryOns
    <3>2. CASE CleanGuests
      BY <3>2 DEF CleanGuests
    <3>3. CASE UNCHANGED <<client, wish, tryOns>>
      BY <3>3
    <3>. QED
      BY <1>3, <3>1, <3>2, <3>3
      DEF CleanerStep, CleanListTryOns, CleanTryOn, CleanListFiles, CleanFile,
          CleanCommitFiles, CleanJobs
  <2>. QED  BY <2>1, SavedKept
<1>4. CASE TimePasses \/ CleanerCrash \/ UNCHANGED vars
  <2>1. UNCHANGED <<client, wish, tryOns>>
    BY <1>4 DEF TimePasses, Pass, CleanerCrash, vars
  <2>. QED  BY <2>1, SavedKept
<1>. QED  BY <1>1, <1>2, <1>3, <1>4, ClientStepSaved DEF Next

\* "saved try-on result: no TTL": while every save is in time and no delete is cut
\* short by the death of the server between the file and its row, a saved result can
\* be downloaded until its member deletes it (save_try_on, delete_saved_try_on).
THEOREM TryOnSavedReadable ==
  Spec /\ []SavesInTime /\ [][~ServerCrash]_vars => []SavedReadable
<1>1. Init => SavedInv
  BY DEF Init, SavedInv
<1>2. LifeInv /\ SavesInTime /\ SavedInv /\ [Next]_vars /\ [~ServerCrash]_vars => SavedInv'
  BY SavedStep
<1>3. LifeInv /\ [Next]_vars => LifeInv'
  BY LifeStep
<1>4. LifeInv /\ SavedInv => SavedReadable
  BY DEF LifeInv, TryOnInv, TypeOK, TryOnTrue, ClientTrue, CallTrue, SavedInv, SavedReadable, Downloadable
<1>. QED  BY <1>1, <1>2, <1>3, <1>4, LifeInit, PTL DEF Spec
=============================================================================

------------------------------ MODULE TryOnJobs ------------------------------
(***************************************************************************)
(* Try-on requests from the upload to the clean-up: app/modules/try_on,    *)
(* app/modules/jobs, app/modules/files, app/tasks and app/storage.         *)
(*                                                                         *)
(* A request stores the photo, counts it, commits a job and returns 202;   *)
(* the job then runs in the same process as a background task with a       *)
(* session of its own.  Files are written outside the database, before the *)
(* row that names them, and deleted before it too.  scripts/cleanup_once   *)
(* runs beside the server and deletes what has expired.                    *)
(*                                                                         *)
(* Each request r has one job, one result and, with a photo, one source    *)
(* file, so r names them all.  The database and the connections to it stay *)
(* up; a statement fails on a constraint or a missing row.  The server and *)
(* the clean-up may die between any two steps.                             *)
(***************************************************************************)
EXTENDS Naturals, FiniteSets

CONSTANTS
    Requests,    \* POST /try-ons and POST /avatar-try-ons requests
    Photo,       \* the requests that upload a photo
    Guests,      \* guest sessions
    Members,     \* members
    Owner,       \* who sends each request
    PhotoLimit,  \* settings.guest_photo_limit
    Calls,       \* save and delete requests in progress about one result
    MaxCrashes   \* bound on the deaths of the server and of the clean-up

ASSUME TryOnAssumption ==
    /\ Photo \subseteq Requests
    /\ Owner \in [Requests -> Guests \cup Members]
    /\ Guests \cap Members = {}
    /\ PhotoLimit \in Nat
    /\ MaxCrashes \in Nat

Source(r) == <<r, "source">>
Result(r) == <<r, "result">>
FileIds == Requests \X {"source", "result"}
ByGuest(r) == Owner[r] \in Guests
ByMember(r) == Owner[r] \in Members

VARIABLES
    guests,     \* guestSession rows
    photoCount, \* guestSession.photoTryOnCount
    files,      \* fileMetadata rows: absent, with a TTL, or kept for ever
    blobs,      \* files on the disk
    jobs,       \* job rows by status
    tryOns,     \* tryOn rows
    request,    \* where each request is, and the photo count it has read
    task,       \* where the background task of each job is
    client,     \* the save and delete requests of a member about each result
    cleaner,    \* where the clean-up is and what it has listed
    passed,     \* the expiry times that have passed: of files, jobs, guests
    wish,       \* history: whether its member asked to keep a result, or to delete it
    crashes

dbVars == <<guests, photoCount, files, jobs, tryOns>>
vars == <<guests, photoCount, files, blobs, jobs, tryOns, request, task,
          client, cleaner, passed, wish, crashes>>

\* A row by what the clean-up reads of it: expiresAt of a file, status of a
\* job, savedAt of a result.
FileRow == {"none", "ttl", "kept"}
JobRow == {"none", "pending", "processing", "succeeded", "failed"}
TryOnRow == {"none", "unsaved", "saved"}

RequestAt == {"new", "upload", "stored", "count", "create_job", "accepted", "dead"}
TaskAt == {"none", "scheduled", "source", "generate", "render", "stored", "insert",
           "report", "fail", "done", "dead"}
ClientAt == {"idle", "save", "delete", "delete_rows"}
CleanerAt == {"idle", "try_ons", "list_files", "files", "jobs", "guests"}

CleanerState == [at : CleanerAt, todo : SUBSET (Requests \cup FileIds),
                 rows : SUBSET Requests, gone : SUBSET FileIds]

NotCleaning == [at |-> "idle", todo |-> {}, rows |-> {}, gone |-> {}]

TypeOK ==
    /\ guests \subseteq Guests
    /\ photoCount \in [Guests -> Nat]
    /\ files \in [FileIds -> FileRow]
    /\ blobs \subseteq FileIds
    /\ jobs \in [Requests -> JobRow]
    /\ tryOns \in [Requests -> TryOnRow]
    /\ request \in [Requests -> [at : RequestAt, count : Nat]]
    /\ task \in [Requests -> TaskAt]
    /\ client \in [Requests -> [Calls -> ClientAt]]
    /\ cleaner \in CleanerState
    /\ passed \subseteq FileIds \cup Requests \cup Guests
    /\ wish \in [Requests -> {"none", "keep", "delete"}]
    /\ crashes \in 0 .. MaxCrashes

Init ==
    /\ guests = Guests
    /\ photoCount = [g \in Guests |-> 0]
    /\ files = [f \in FileIds |-> "none"]
    /\ blobs = {}
    /\ jobs = [r \in Requests |-> "none"]
    /\ tryOns = [r \in Requests |-> "none"]
    /\ request = [r \in Requests |-> [at |-> "new", count |-> 0]]
    /\ task = [r \in Requests |-> "none"]
    /\ client = [r \in Requests |-> [c \in Calls |-> "idle"]]
    /\ cleaner = NotCleaning
    /\ passed = {}
    /\ wish = [r \in Requests |-> "none"]
    /\ crashes = 0

-----------------------------------------------------------------------------
(***************************************************************************)
(* POST /try-ons and POST /avatar-try-ons                                  *)
(***************************************************************************)
RequestGoes(r, at) == request' = [request EXCEPT ![r].at = at]

\* get_principal: a guest needs a session that is there and has not expired.
Admitted(r) == ByGuest(r) => Owner[r] \in guests /\ Owner[r] \notin passed

AcceptAvatar(r) ==
    /\ r \notin Photo
    /\ request[r].at = "new"
    /\ Admitted(r)
    /\ RequestGoes(r, "create_job")
    /\ UNCHANGED <<dbVars, blobs, task, client, cleaner, passed, wish, crashes>>

WithinLimit(r) == ByGuest(r) => photoCount[Owner[r]] < PhotoLimit

\* Reads the guest's count; the handler writes the count from what it read.
AcceptPhoto(r) ==
    /\ r \in Photo
    /\ request[r].at = "new"
    /\ Admitted(r)
    /\ WithinLimit(r)
    /\ request' = [request EXCEPT ![r] =
                      [at |-> "upload",
                       count |-> IF ByGuest(r) THEN photoCount[Owner[r]] ELSE 0]]
    /\ UNCHANGED <<dbVars, blobs, task, client, cleaner, passed, wish, crashes>>

StoreSource(r) ==
    /\ request[r].at = "upload"
    /\ blobs' = blobs \cup {Source(r)}
    /\ RequestGoes(r, "stored")
    /\ UNCHANGED <<dbVars, task, client, cleaner, passed, wish, crashes>>

\* Mutant: the photo is stored with no TTL.
CommitSourceForGood(r) ==
    /\ request[r].at = "stored"
    /\ files' = [files EXCEPT ![Source(r)] = "kept"]
    /\ RequestGoes(r, IF ByGuest(r) THEN "count" ELSE "create_job")
    /\ UNCHANGED <<guests, photoCount, jobs, tryOns, blobs, task, client, cleaner,
                   passed, wish, crashes>>

CommitSource(r) ==
    /\ request[r].at = "stored"
    /\ files' = [files EXCEPT ![Source(r)] = "ttl"]
    /\ RequestGoes(r, IF ByGuest(r) THEN "count" ELSE "create_job")
    /\ UNCHANGED <<guests, photoCount, jobs, tryOns, blobs, task, client, cleaner,
                   passed, wish, crashes>>

\* The row cannot be written: the file is removed again.
FailSource(r) ==
    /\ request[r].at = "stored"
    /\ blobs' = blobs \ {Source(r)}
    /\ RequestGoes(r, "dead")
    /\ UNCHANGED <<dbVars, task, client, cleaner, passed, wish, crashes>>

\* A guest row that is gone by now fails the UPDATE, and with it the request.
CountPhoto(r) ==
    /\ request[r].at = "count"
    /\ IF Owner[r] \in guests
       THEN /\ photoCount' = [photoCount EXCEPT ![Owner[r]] = request[r].count + 1]
            /\ RequestGoes(r, "create_job")
       ELSE /\ RequestGoes(r, "dead")
            /\ UNCHANGED photoCount
    /\ UNCHANGED <<guests, files, jobs, tryOns, blobs, task, client, cleaner,
                   passed, wish, crashes>>

\* Commits the job and hands the task to the server, which runs it after the
\* response.
CreateJob(r) ==
    /\ request[r].at = "create_job"
    /\ jobs' = [jobs EXCEPT ![r] = "pending"]
    /\ RequestGoes(r, "accepted")
    /\ task' = [task EXCEPT ![r] = "scheduled"]
    /\ UNCHANGED <<guests, photoCount, files, tryOns, blobs, client, cleaner, passed,
                   wish, crashes>>

RequestStep(r) ==
    \/ AcceptAvatar(r)
    \/ AcceptPhoto(r)
    \/ StoreSource(r)
    \/ CommitSource(r)
    \/ FailSource(r)
    \/ CountPhoto(r)
    \/ CreateJob(r)

-----------------------------------------------------------------------------
(***************************************************************************)
(* The background task: run_job_with_new_session around the try-on runner. *)
(***************************************************************************)
TaskGoes(r, at) == task' = [task EXCEPT ![r] = at]

\* JobService.update_status; without the row it raises, and so does its caller.
UpdateStatus(r, status) ==
    IF jobs[r] = "none"
    THEN UNCHANGED jobs
    ELSE jobs' = [jobs EXCEPT ![r] = status]

TaskStart(r) ==
    /\ task[r] = "scheduled"
    /\ UpdateStatus(r, "processing")
    /\ TaskGoes(r, CASE jobs[r] = "none" -> "dead"
                     [] r \in Photo -> "source"
                     [] OTHER -> "generate")
    /\ UNCHANGED <<guests, photoCount, files, tryOns, blobs, request, client, cleaner,
                   passed, wish, crashes>>

TaskReadSource(r) ==
    /\ task[r] = "source"
    /\ TaskGoes(r, IF files[Source(r)] = "none" THEN "fail" ELSE "generate")
    /\ UNCHANGED <<dbVars, blobs, request, client, cleaner, passed, wish, crashes>>

\* Mutant: the job goes on when the provider raises.
TaskGenerateGoesOn(r) ==
    /\ task[r] = "generate"
    /\ \E at \in {"render", "report"} : TaskGoes(r, at)
    /\ UNCHANGED <<dbVars, blobs, request, client, cleaner, passed, wish, crashes>>

\* The provider answers, or raises (as a product or coordi that is gone does).
TaskGenerate(r) ==
    /\ task[r] = "generate"
    /\ \E at \in {"render", "fail"} : TaskGoes(r, at)
    /\ UNCHANGED <<dbVars, blobs, request, client, cleaner, passed, wish, crashes>>

TaskStoreResult(r) ==
    /\ task[r] = "render"
    /\ blobs' = blobs \cup {Result(r)}
    /\ TaskGoes(r, "stored")
    /\ UNCHANGED <<dbVars, request, client, cleaner, passed, wish, crashes>>

TaskCommitFile(r) ==
    /\ task[r] = "stored"
    /\ files' = [files EXCEPT ![Result(r)] = "ttl"]
    /\ TaskGoes(r, "insert")
    /\ UNCHANGED <<guests, photoCount, jobs, tryOns, blobs, request, client, cleaner,
                   passed, wish, crashes>>

\* The row cannot be written: the file is removed again, and the session may
\* or may not be fit to report it.
TaskFailFile(r) ==
    /\ task[r] = "stored"
    /\ blobs' = blobs \ {Result(r)}
    /\ \E at \in {"fail", "dead"} : TaskGoes(r, at)
    /\ UNCHANGED <<dbVars, request, client, cleaner, passed, wish, crashes>>

\* The foreign keys of the tryOn row: its job, and the session of a guest (a coordi
\* is deleted by its deletedAt alone, so that its row stays).  A flush that fails
\* leaves a session that cannot report anything.
TaskInsert(r) ==
    /\ task[r] = "insert"
    /\ IF jobs[r] # "none" /\ (ByGuest(r) => Owner[r] \in guests)
       THEN /\ tryOns' = [tryOns EXCEPT ![r] = "unsaved"]
            /\ TaskGoes(r, "report")
       ELSE /\ TaskGoes(r, "dead")
            /\ UNCHANGED tryOns
    /\ UNCHANGED <<guests, photoCount, files, jobs, blobs, request, client, cleaner,
                   passed, wish, crashes>>

TaskReport(r) ==
    /\ task[r] = "report"
    /\ UpdateStatus(r, "succeeded")
    /\ TaskGoes(r, "done")
    /\ UNCHANGED <<guests, photoCount, files, tryOns, blobs, request, client, cleaner,
                   passed, wish, crashes>>

TaskFail(r) ==
    /\ task[r] = "fail"
    /\ UpdateStatus(r, "failed")
    /\ TaskGoes(r, "done")
    /\ UNCHANGED <<guests, photoCount, files, tryOns, blobs, request, client, cleaner,
                   passed, wish, crashes>>

TaskStep(r) ==
    \/ TaskStart(r)
    \/ TaskReadSource(r)
    \/ TaskGenerate(r)
    \/ TaskStoreResult(r)
    \/ TaskCommitFile(r)
    \/ TaskFailFile(r)
    \/ TaskInsert(r)
    \/ TaskReport(r)
    \/ TaskFail(r)

-----------------------------------------------------------------------------
(***************************************************************************)
(* POST /try-ons/{id}/save and DELETE /me/try-ons/{id}, by a member, who   *)
(* may repeat them and send both at once.                                  *)
(***************************************************************************)
ClientGoes(r, c, at) == client' = [client EXCEPT ![r][c] = at]

\* A result asked to be kept before it expires, and not yet asked to be deleted.
WishKept(r) ==
    wish' = IF Result(r) \in passed \/ wish[r] = "delete" THEN wish
            ELSE [wish EXCEPT ![r] = "keep"]

\* Reads the rows of the result, whose id the member has from the finished job;
\* nothing looks at their expiry.  Saving a saved result changes nothing but the
\* time it was saved.
SaveRead(r, c) ==
    /\ ByMember(r)
    /\ jobs[r] = "succeeded"
    /\ client[r][c] = "idle"
    /\ tryOns[r] = "unsaved"
    /\ files[Result(r)] # "none"
    /\ ClientGoes(r, c, "save")
    /\ UNCHANGED <<dbVars, blobs, request, task, cleaner, passed, wish, crashes>>

\* Mutant: saving leaves the TTL of the file.
SaveCommitRowOnly(r, c) ==
    /\ client[r][c] = "save"
    /\ IF tryOns[r] # "none" /\ files[Result(r)] # "none"
       THEN /\ tryOns' = [tryOns EXCEPT ![r] = "saved"]
            /\ WishKept(r)
       ELSE UNCHANGED <<tryOns, wish>>
    /\ ClientGoes(r, c, "idle")
    /\ UNCHANGED <<guests, photoCount, files, jobs, blobs, request, task, cleaner, passed,
                   crashes>>

\* Both UPDATEs, or neither when a row is gone.
SaveCommit(r, c) ==
    /\ client[r][c] = "save"
    /\ IF tryOns[r] # "none" /\ files[Result(r)] # "none"
       THEN /\ tryOns' = [tryOns EXCEPT ![r] = "saved"]
            /\ files' = [files EXCEPT ![Result(r)] = "kept"]
            /\ WishKept(r)
       ELSE UNCHANGED <<tryOns, files, wish>>
    /\ ClientGoes(r, c, "idle")
    /\ UNCHANGED <<guests, photoCount, jobs, blobs, request, task, cleaner, passed, crashes>>

DeleteRead(r, c) ==
    /\ client[r][c] = "idle"
    /\ tryOns[r] = "saved"
    /\ ClientGoes(r, c, "delete")
    /\ UNCHANGED <<dbVars, blobs, request, task, cleaner, passed, wish, crashes>>

DeleteBlob(r, c) ==
    /\ client[r][c] = "delete"
    /\ blobs' = IF files[Result(r)] = "none" THEN blobs ELSE blobs \ {Result(r)}
    /\ wish' = [wish EXCEPT ![r] = "delete"]
    /\ ClientGoes(r, c, "delete_rows")
    /\ UNCHANGED <<dbVars, request, task, cleaner, passed, crashes>>

DeleteRows(r, c) ==
    /\ client[r][c] = "delete_rows"
    /\ tryOns' = [tryOns EXCEPT ![r] = "none"]
    /\ files' = [files EXCEPT ![Result(r)] = "none"]
    /\ ClientGoes(r, c, "idle")
    /\ UNCHANGED <<guests, photoCount, jobs, blobs, request, task, cleaner, passed, wish,
                   crashes>>

ClientStep(r) ==
    \E c \in Calls :
        \/ SaveRead(r, c)
        \/ SaveCommit(r, c)
        \/ DeleteRead(r, c)
        \/ DeleteBlob(r, c)
        \/ DeleteRows(r, c)

-----------------------------------------------------------------------------
(***************************************************************************)
(* CleanupService.run_once: four transactions one after the other.  Each   *)
(* SELECTs what has expired, deletes the files of each row at once, and    *)
(* the rows when it commits.                                               *)
(***************************************************************************)
ExpiredUnsaved == {r \in Requests : tryOns[r] = "unsaved" /\ Result(r) \in passed}

ExpiredFiles == {f \in FileIds : files[f] = "ttl" /\ f \in passed}

CleanListTryOns ==
    /\ cleaner.at = "idle"
    /\ cleaner' = [at |-> "try_ons", todo |-> ExpiredUnsaved, rows |-> ExpiredUnsaved,
                   gone |-> {}]
    /\ UNCHANGED <<dbVars, blobs, request, task, client, passed, wish, crashes>>

\* Mutant: the row of an expired result goes, its file stays.
CleanTryOnRowOnly(r) ==
    /\ cleaner.at = "try_ons"
    /\ r \in cleaner.todo
    /\ cleaner' = [cleaner EXCEPT !.todo = @ \ {r}, !.gone = @ \cup {Result(r)}]
    /\ UNCHANGED <<dbVars, blobs, request, task, client, passed, wish, crashes>>

\* Mutant: the id of the result is taken for that of its file.
CleanTryOnMixedUp(r) ==
    /\ cleaner.at = "try_ons"
    /\ r \in cleaner.todo
    /\ LET found == {f \in {Result(r)} : files[f] # "none"}
       IN  /\ blobs' = blobs \ found
           /\ cleaner' = [cleaner EXCEPT !.todo = @ \ {r}, !.gone = @ \cup {r}]
    /\ UNCHANGED <<dbVars, request, task, client, passed, wish, crashes>>

CleanTryOn(r) ==
    /\ cleaner.at = "try_ons"
    /\ r \in cleaner.todo
    /\ LET found == {f \in {Result(r)} : files[f] # "none"}
       IN  /\ blobs' = blobs \ found
           /\ cleaner' = [cleaner EXCEPT !.todo = @ \ {r}, !.gone = @ \cup found]
    /\ UNCHANGED <<dbVars, request, task, client, passed, wish, crashes>>

\* The DELETEs go by id: they do not look at what the rows say by now.
CleanCommitTryOns ==
    /\ cleaner.at = "try_ons"
    /\ cleaner.todo = {}
    /\ tryOns' = [r \in Requests |-> IF r \in cleaner.rows THEN "none" ELSE tryOns[r]]
    /\ files' = [f \in FileIds |-> IF f \in cleaner.gone THEN "none" ELSE files[f]]
    /\ cleaner' = [NotCleaning EXCEPT !.at = "list_files"]
    /\ UNCHANGED <<guests, photoCount, jobs, blobs, request, task, client, passed, wish,
                   crashes>>

CleanListFiles ==
    /\ cleaner.at = "list_files"
    /\ cleaner' = [NotCleaning EXCEPT !.at = "files", !.todo = ExpiredFiles,
                                      !.gone = ExpiredFiles]
    /\ UNCHANGED <<dbVars, blobs, request, task, client, passed, wish, crashes>>

CleanFile(f) ==
    /\ cleaner.at = "files"
    /\ f \in cleaner.todo
    /\ blobs' = blobs \ {f}
    /\ cleaner' = [cleaner EXCEPT !.todo = @ \ {f}]
    /\ UNCHANGED <<dbVars, request, task, client, passed, wish, crashes>>

CleanCommitFiles ==
    /\ cleaner.at = "files"
    /\ cleaner.todo = {}
    /\ files' = [f \in FileIds |-> IF f \in cleaner.gone THEN "none" ELSE files[f]]
    /\ cleaner' = [NotCleaning EXCEPT !.at = "jobs"]
    /\ UNCHANGED <<guests, photoCount, jobs, tryOns, blobs, request, task, client, passed,
                   wish, crashes>>

\* Mutant: only the jobs that have finished are removed.
CleanFinishedJobs ==
    /\ cleaner.at = "jobs"
    /\ jobs' = [r \in Requests |->
                   IF r \in passed /\ tryOns[r] = "none" /\ jobs[r] \in {"succeeded", "failed"}
                   THEN "none" ELSE jobs[r]]
    /\ cleaner' = [NotCleaning EXCEPT !.at = "guests"]
    /\ UNCHANGED <<guests, photoCount, files, tryOns, blobs, request, task, client, passed,
                   wish, crashes>>

\* Jobs that a tryOn row still names are left alone.
CleanJobs ==
    /\ cleaner.at = "jobs"
    /\ jobs' = [r \in Requests |->
                   IF r \in passed /\ tryOns[r] = "none" THEN "none" ELSE jobs[r]]
    /\ cleaner' = [NotCleaning EXCEPT !.at = "guests"]
    /\ UNCHANGED <<guests, photoCount, files, tryOns, blobs, request, task, client, passed,
                   wish, crashes>>

\* The foreign key takes the tryOn rows of a guest with the session.
CleanGuests ==
    /\ cleaner.at = "guests"
    /\ guests' = guests \ passed
    /\ tryOns' = [r \in Requests |->
                     IF ByGuest(r) /\ Owner[r] \in guests \cap passed
                     THEN "none" ELSE tryOns[r]]
    /\ cleaner' = NotCleaning
    /\ UNCHANGED <<photoCount, files, jobs, blobs, request, task, client, passed, wish,
                   crashes>>

CleanerStep ==
    \/ CleanListTryOns
    \/ \E r \in Requests : CleanTryOn(r)
    \/ CleanCommitTryOns
    \/ CleanListFiles
    \/ \E f \in FileIds : CleanFile(f)
    \/ CleanCommitFiles
    \/ CleanJobs
    \/ CleanGuests

-----------------------------------------------------------------------------
(***************************************************************************)
(* Time and crashes.                                                       *)
(***************************************************************************)
Pass(x) ==
    /\ x \notin passed
    /\ passed' = passed \cup {x}
    /\ UNCHANGED <<dbVars, blobs, request, task, client, cleaner, wish, crashes>>

TaskOver(r) == task[r] \in {"none", "done", "dead"}

\* A task does not run for 24 hours (job_ttl_hours).
TimePasses ==
    \/ \E f \in FileIds : files[f] = "ttl" /\ Pass(f)
    \/ \E r \in Requests : jobs[r] # "none" /\ TaskOver(r) /\ Pass(r)
    \/ \E g \in Guests : Pass(g)

InFlight(at) == at \notin {"new", "accepted", "dead"}

\* The server dies: its requests, tasks and their open transactions go.
ServerCrash ==
    /\ crashes < MaxCrashes
    /\ crashes' = crashes + 1
    /\ request' = [r \in Requests |->
                      IF InFlight(request[r].at) THEN [request[r] EXCEPT !.at = "dead"]
                      ELSE request[r]]
    /\ task' = [r \in Requests |-> IF TaskOver(r) THEN task[r] ELSE "dead"]
    /\ client' = [r \in Requests |-> [c \in Calls |-> "idle"]]
    /\ UNCHANGED <<dbVars, blobs, cleaner, passed, wish>>

CleanerCrash ==
    /\ crashes < MaxCrashes
    /\ cleaner.at # "idle"
    /\ crashes' = crashes + 1
    /\ cleaner' = NotCleaning
    /\ UNCHANGED <<dbVars, blobs, request, task, client, passed, wish>>

Next ==
    \/ \E r \in Requests : RequestStep(r) \/ TaskStep(r) \/ ClientStep(r)
    \/ CleanerStep
    \/ TimePasses
    \/ ServerCrash
    \/ CleanerCrash

Spec == Init /\ [][Next]_vars

\* The event loop runs the tasks on, time passes, and the clean-up is run again and
\* again; no client need come back.
Fairness ==
    /\ \A r \in Requests : WF_vars(TaskStep(r))
    /\ WF_vars(CleanerStep)
    /\ \A f \in FileIds : WF_vars(files[f] = "ttl" /\ Pass(f))
    /\ \A r \in Requests : WF_vars(jobs[r] # "none" /\ TaskOver(r) /\ Pass(r))

FairSpec == Spec /\ Fairness

-----------------------------------------------------------------------------
\* GET /files/{fileId} by the owner finds the row and then the file.
Downloadable(f) == files[f] # "none" /\ f \in blobs

\* A result that has not expired can be downloaded, and so can one saved in
\* time until its member deletes it, whatever the clean-up, a crash of either
\* process or another request does.
ResultReadable ==
    \A r \in Requests :
        /\ tryOns[r] = "unsaved" /\ Result(r) \notin passed
              => Downloadable(Result(r))
        /\ wish[r] = "keep"
              => tryOns[r] = "saved" /\ Downloadable(Result(r))

\* A file on the disk has its row, unless the request or task that wrote it is
\* between the two or died there.
BlobsAccounted ==
    \A r \in Requests :
        /\ Source(r) \in blobs /\ files[Source(r)] = "none"
              => request[r].at \in {"stored", "dead"}
        /\ Result(r) \in blobs /\ files[Result(r)] = "none"
              => task[r] \in {"stored", "dead"}

\* What a job reports is what happened: after a success the result is there until
\* it or the session of its guest expires or its member deletes it; after a
\* failure there is none, and no file of one that nobody could ask for.
StatusIsTrue ==
    \A r \in Requests :
        /\ jobs[r] = "succeeded"
              => \/ tryOns[r] # "none"
                 \/ Result(r) \in passed
                 \/ wish[r] = "delete"
                 \/ Owner[r] \in Guests \cap passed
        /\ jobs[r] = "failed" => tryOns[r] = "none" /\ files[Result(r)] = "none"

\* No client polls a job for ever, though the server may die under it: the job
\* finishes, or its row is removed once it has expired.
Unsettled(r) == jobs[r] \in {"pending", "processing"}

JobSettles == \A r \in Requests : Unsettled(r) ~> ~Unsettled(r)

\* "source photo does not become permanent when result is saved": every photo
\* that has a row is gone from the disk in the end.
SourceGoes ==
    \A r \in Photo : files[Source(r)] # "none" ~> Source(r) \notin blobs

\* "photo try-on attempts (max 3)": photos of a guest that were turned into jobs.
GuestPhotoLimit ==
    \A g \in Guests :
        Cardinality({r \in Photo : Owner[r] = g /\ request[r].at = "accepted"}) <= PhotoLimit

\* "saved try-on result: no TTL": a saved result can be downloaded until its
\* member deletes it.
SavedReadable ==
    \A r \in Requests :
        tryOns[r] = "saved" /\ (\A c \in Calls : client[r][c] \notin {"delete", "delete_rows"})
            => Downloadable(Result(r))

\* No two uploads of one guest are between reading the count and writing it.
Uploading == {"upload", "stored", "count"}

UploadsApart ==
    \A r, v \in Requests :
        ByGuest(r) /\ Owner[r] = Owner[v]
            /\ request[r].at \in Uploading /\ request[v].at \in Uploading
                => r = v

\* Then the count covers every photo on its way to a job or there, and an upload
\* holds the count of the table.
Counted(g) ==
    {r \in Photo : Owner[r] = g /\ request[r].at \in {"create_job", "accepted"}}

PhotoInv ==
    /\ \A g \in Guests :
         /\ IsFiniteSet(Counted(g))
         /\ Cardinality(Counted(g)) <= photoCount[g] /\ photoCount[g] <= PhotoLimit
    /\ \A r \in Requests :
         ByGuest(r) /\ request[r].at \in Uploading
            => request[r].count = photoCount[Owner[r]] /\ request[r].count < PhotoLimit
-----------------------------------------------------------------------------
(***************************************************************************)
(* What the rows and files make of a request for who asked for it.         *)
(***************************************************************************)
expired == {r \in Requests : Result(r) \in passed \/ Owner[r] \in Guests \cap passed}

deleted == {r \in Requests : wish[r] = "delete"}

Kept(r) == wish[r] = "keep" /\ tryOns[r] = "saved" /\ Downloadable(Result(r))

Offered(r) == r \notin expired /\ tryOns[r] = "unsaved" /\ Downloadable(Result(r))

NothingLeft(r) == tryOns[r] = "none" /\ files[Result(r)] = "none"

Outcome(r) ==
    CASE jobs[r] = "none" -> IF task[r] = "none" THEN "open" ELSE "forgotten"
      [] Unsettled(r) -> "open"
      [] jobs[r] = "failed" -> IF NothingLeft(r) THEN "failed" ELSE "left_over"
      [] jobs[r] = "succeeded" ->
           IF Kept(r) THEN "kept" ELSE IF Offered(r) THEN "offered" ELSE "gone"

outcome == [r \in Requests |-> Outcome(r)]

Life == INSTANCE ResultLife

\* Polling a job and downloading its result go as ResultLife promises, whatever the
\* clean-up, a crash of either process or another request does in between.
LifeSpec == Life!Spec
=============================================================================

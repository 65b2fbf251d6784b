----------------------------- MODULE AlbumStore -----------------------------
(***************************************************************************)
(* The album store (album-store/handlers, worker, store): several servers  *)
(* behind a load balancer share one DynamoDB and one S3 bucket; each keeps *)
(* a bounded channel of upload jobs and a fixed pool of worker goroutines  *)
(* in its own memory.  The module follows one album; albums share nothing  *)
(* but the channels.                                                       *)
(*                                                                         *)
(* Each DynamoDB or S3 call is one step (the service applies it at once    *)
(* and reads are ConsistentRead); between two calls of a handler anything  *)
(* may happen.  An upload stands for the photo it creates: photo_id is a   *)
(* fresh UUID.                                                             *)
(***************************************************************************)
EXTENDS Naturals, Sequences, FiniteSets

CONSTANTS
    Uploads,      \* POST /albums/:id/photos requests
    Deletes,      \* DELETE /albums/:id/photos/:photo_id requests
    Servers,      \* instances of the program
    NumWorkers,   \* goroutines of the worker pool, per server
    QueueDepth,   \* buffer of the jobs channel, per server
    MaxPuts,      \* PUT /albums/:id requests
    MaxFaults,    \* failing AWS calls and crashes
    NoUpload      \* no photo

ASSUME AlbumAssumption ==
    /\ NumWorkers \in Nat \ {0}
    /\ QueueDepth \in Nat \ {0}
    /\ MaxPuts \in Nat
    /\ MaxFaults \in Nat
    /\ NoUpload \notin Uploads

Worker == 1..NumWorkers

VARIABLES
    album,     \* the album's item: "none", "bare" (only a counter) or "put"
    count,     \* its photo_count (0: no such attribute)
    photo,     \* status of each photo's item, "none" when there is no item
    object,    \* whether S3 holds each photo's file
    queue,     \* the jobs channel of each server
    job,       \* the job each worker holds and how far it is
    upload,    \* where each UploadPhoto handler stands
    seq,       \* the seq it was given (0 before)
    remove,    \* where each DeletePhoto handler stands
    target,    \* the photo it deletes
    at,        \* the server that runs each handler
    faults,    \* failing calls and crashes so far
    puts,      \* PutAlbum calls so far
    born,      \* puts when an upload got its seq
    cleared,   \* photos whose S3 delete has been tried
    gone       \* photos whose DELETE found them and answered 204

db      == <<album, count, photo, object>>
memory  == <<queue, job>>
history == <<faults, puts, born, cleared, gone>>
vars    == <<db, memory, upload, seq, remove, target, at, history>>

UploadState == {"idle", "numbered", "recorded", "accepted", "error", "died"}
RemoveState == {"idle", "found", "cleared", "done", "error", "died"}
Status      == {"none", "processing", "completed", "failed"}
Stage       == {"idle", "taken", "stored", "unstored"}

Idle == [photo |-> NoUpload, stage |-> "idle"]

\* One more AWS call fails.
Fault == faults < MaxFaults /\ faults' = faults + 1

Init ==
    /\ album   = "none"
    /\ count   = 0
    /\ photo   = [u \in Uploads |-> "none"]
    /\ object  = [u \in Uploads |-> FALSE]
    /\ queue   = [s \in Servers |-> <<>>]
    /\ job     = [s \in Servers |-> [i \in Worker |-> Idle]]
    /\ upload  = [u \in Uploads |-> "idle"]
    /\ seq     = [u \in Uploads |-> 0]
    /\ remove  = [d \in Deletes |-> "idle"]
    /\ target  = [d \in Deletes |-> NoUpload]
    /\ at      \in [Uploads \union Deletes -> Servers]
    /\ faults  = 0
    /\ puts    = 0
    /\ born    = [u \in Uploads |-> 0]
    /\ cleared = {}
    /\ gone    = {}

-----------------------------------------------------------------------------
(* PUT /albums/:id.                                                        *)

\* PutItem replaces the whole item, and the item it puts has no photo_count.
\* (A call that fails after it was applied is the same step.)
PutAlbum ==
    /\ puts < MaxPuts
    /\ album' = "put"
    /\ count' = 0
    /\ puts' = puts + 1
    /\ UNCHANGED <<photo, object, memory, upload, seq, remove, target, at>>
    /\ UNCHANGED <<faults, born, cleared, gone>>

-----------------------------------------------------------------------------
(* POST /albums/:id/photos.                                                *)

\* A bug to tell apart: the counter is read and written in two calls, so a
\* call in between is not counted.
IncrementLost(u) ==
    /\ upload[u] = "idle"
    /\ \E c \in {count, count + 1} :
          /\ count' = count + 1
          /\ seq' = [seq EXCEPT ![u] = c]
    /\ album' = IF album = "none" THEN "bare" ELSE album
    /\ born' = [born EXCEPT ![u] = puts]
    /\ upload' = [upload EXCEPT ![u] = "numbered"]
    /\ UNCHANGED <<photo, object, memory, remove, target, at>>
    /\ UNCHANGED <<faults, puts, cleared, gone>>

\* IncrementAndGetSeq: ADD creates the item, or the attribute, it misses.
IncrementAndGetSeq(u) ==
    /\ upload[u] = "idle"
    /\ count' = count + 1
    /\ seq' = [seq EXCEPT ![u] = count + 1]
    /\ album' = IF album = "none" THEN "bare" ELSE album
    /\ born' = [born EXCEPT ![u] = puts]
    /\ upload' = [upload EXCEPT ![u] = "numbered"]
    /\ UNCHANGED <<photo, object, memory, remove, target, at>>
    /\ UNCHANGED <<faults, puts, cleared, gone>>

\* It fails, applied or not: 500.
IncrementFails(u) ==
    /\ Fault
    /\ upload[u] = "idle"
    /\ \/ UNCHANGED <<album, count>>
       \/ /\ count' = count + 1
          /\ album' = IF album = "none" THEN "bare" ELSE album
    /\ upload' = [upload EXCEPT ![u] = "error"]
    /\ UNCHANGED <<photo, object, memory, seq, remove, target, at>>
    /\ UNCHANGED <<puts, born, cleared, gone>>

\* A bug to tell apart: the handler submits the job, and answers, first.
RecordNothing(u) ==
    /\ upload[u] = "numbered"
    /\ upload' = [upload EXCEPT ![u] = "recorded"]
    /\ UNCHANGED <<db, memory, seq, remove, target, at, history>>

\* PutPhoto with status "processing".
PutPhoto(u) ==
    /\ upload[u] = "numbered"
    /\ photo' = [photo EXCEPT ![u] = "processing"]
    /\ upload' = [upload EXCEPT ![u] = "recorded"]
    /\ UNCHANGED <<album, count, object, memory, seq, remove, target, at, history>>

\* It fails, applied or not: 500, and nobody will ever process the photo.
PutPhotoFails(u) ==
    /\ Fault
    /\ upload[u] = "numbered"
    /\ photo' \in {photo, [photo EXCEPT ![u] = "processing"]}
    /\ upload' = [upload EXCEPT ![u] = "error"]
    /\ UNCHANGED <<album, count, object, memory, seq, remove, target, at>>
    /\ UNCHANGED <<puts, born, cleared, gone>>

\* A bug to tell apart: a full channel drops the job instead of blocking.
SubmitOrDrop(u) ==
    /\ upload[u] = "recorded"
    /\ queue' = IF Len(queue[at[u]]) < QueueDepth
                THEN [queue EXCEPT ![at[u]] = Append(@, u)] ELSE queue
    /\ upload' = [upload EXCEPT ![u] = "accepted"]
    /\ UNCHANGED <<db, job, seq, remove, target, at, history>>

\* A bug to tell apart: nothing holds a job back when the channel is full.
SubmitUnbounded(u) ==
    /\ upload[u] = "recorded"
    /\ queue' = [queue EXCEPT ![at[u]] = Append(@, u)]
    /\ upload' = [upload EXCEPT ![u] = "accepted"]
    /\ UNCHANGED <<db, job, seq, remove, target, at, history>>

\* pool.Submit sends on the channel, blocking while it is full; then 202.
Submit(u) ==
    /\ upload[u] = "recorded"
    /\ Len(queue[at[u]]) < QueueDepth
    /\ queue' = [queue EXCEPT ![at[u]] = Append(@, u)]
    /\ upload' = [upload EXCEPT ![u] = "accepted"]
    /\ UNCHANGED <<db, job, seq, remove, target, at, history>>

-----------------------------------------------------------------------------
(* The worker goroutines.                                                  *)

\* A bug to tell apart: the job is looked at and stays in the channel.
PeekJob(s, i) ==
    /\ job[s][i] = Idle
    /\ queue[s] # <<>>
    /\ job' = [job EXCEPT ![s][i] = [photo |-> Head(queue[s]), stage |-> "taken"]]
    /\ UNCHANGED <<db, queue, upload, seq, remove, target, at, history>>

\* for job := range p.jobs.
TakeJob(s, i) ==
    /\ job[s][i] = Idle
    /\ queue[s] # <<>>
    /\ job' = [job EXCEPT ![s][i] = [photo |-> Head(queue[s]), stage |-> "taken"]]
    /\ queue' = [queue EXCEPT ![s] = Tail(@)]
    /\ UNCHANGED <<db, upload, seq, remove, target, at, history>>

\* s3.Upload.
StoreObject(s, i) ==
    /\ job[s][i].stage = "taken"
    /\ object' = [object EXCEPT ![job[s][i].photo] = TRUE]
    /\ job' = [job EXCEPT ![s][i].stage = "stored"]
    /\ UNCHANGED <<album, count, photo, queue, upload, seq, remove, target, at>>
    /\ UNCHANGED history

\* It fails, applied or not.
StoreObjectFails(s, i) ==
    /\ Fault
    /\ job[s][i].stage = "taken"
    /\ object' \in {object, [object EXCEPT ![job[s][i].photo] = TRUE]}
    /\ job' = [job EXCEPT ![s][i].stage = "unstored"]
    /\ UNCHANGED <<album, count, photo, queue, upload, seq, remove, target, at>>
    /\ UNCHANGED <<puts, born, cleared, gone>>

\* A bug to tell apart: no ConditionExpression, so the item is made again.
StatusUnconditional(u, status) == [photo EXCEPT ![u] = status]

\* UpdatePhotoStatus, with attribute_exists(photo_id) AND status = processing.
StatusUpdated(u, status) ==
    IF photo[u] = "processing" THEN [photo EXCEPT ![u] = status] ELSE photo

\* A bug to tell apart: a failed upload is marked completed too.
OutcomeAlwaysCompleted(stage) == "completed"

Outcome(stage) == IF stage = "stored" THEN "completed" ELSE "failed"

\* The worker records the outcome; a conditional check failure is ignored.
RecordOutcome(s, i) ==
    /\ job[s][i].stage \in {"stored", "unstored"}
    /\ photo' = StatusUpdated(job[s][i].photo, Outcome(job[s][i].stage))
    /\ job' = [job EXCEPT ![s][i] = Idle]
    /\ UNCHANGED <<album, count, object, queue, upload, seq, remove, target, at>>
    /\ UNCHANGED history

\* Any other error is logged, and the worker goes on to its next job.  (A call
\* that fails after it was applied is the same step as RecordOutcome.)
RecordOutcomeFails(s, i) ==
    /\ Fault
    /\ job[s][i].stage \in {"stored", "unstored"}
    /\ job' = [job EXCEPT ![s][i] = Idle]
    /\ UNCHANGED <<db, queue, upload, seq, remove, target, at>>
    /\ UNCHANGED <<puts, born, cleared, gone>>

-----------------------------------------------------------------------------
(* DELETE /albums/:id/photos/:photo_id.                                    *)

\* GetPhoto: 204 at once when there is no such item.  A client knows the id
\* of a photo from the 202 of its upload.
FindPhoto(d, u) ==
    /\ remove[d] = "idle"
    /\ upload[u] = "accepted"
    /\ target' = [target EXCEPT ![d] = u]
    /\ remove' = [remove EXCEPT ![d] = IF photo[u] = "none" THEN "done"
                                                            ELSE "found"]
    /\ UNCHANGED <<db, memory, upload, seq, at, history>>

\* s3.Delete; a missing object is no error.
DeleteObject(d) ==
    /\ remove[d] = "found"
    /\ object' = [object EXCEPT ![target[d]] = FALSE]
    /\ remove' = [remove EXCEPT ![d] = "cleared"]
    /\ cleared' = cleared \union {target[d]}
    /\ UNCHANGED <<album, count, photo, memory, upload, seq, target, at>>
    /\ UNCHANGED <<faults, puts, born, gone>>

\* A failing s3.Delete is logged and the handler goes on.
DeleteObjectFails(d) ==
    /\ Fault
    /\ remove[d] = "found"
    /\ object' \in {object, [object EXCEPT ![target[d]] = FALSE]}
    /\ remove' = [remove EXCEPT ![d] = "cleared"]
    /\ cleared' = cleared \union {target[d]}
    /\ UNCHANGED <<album, count, photo, memory, upload, seq, target, at>>
    /\ UNCHANGED <<puts, born, gone>>

\* db.DeletePhoto, then 204.
DeleteRecord(d) ==
    /\ remove[d] = "cleared"
    /\ photo' = [photo EXCEPT ![target[d]] = "none"]
    /\ remove' = [remove EXCEPT ![d] = "done"]
    /\ gone' = gone \union {target[d]}
    /\ UNCHANGED <<album, count, object, memory, upload, seq, target, at>>
    /\ UNCHANGED <<faults, puts, born, cleared>>

\* It fails, applied or not: 500.
DeleteRecordFails(d) ==
    /\ Fault
    /\ remove[d] = "cleared"
    /\ photo' \in {photo, [photo EXCEPT ![target[d]] = "none"]}
    /\ remove' = [remove EXCEPT ![d] = "error"]
    /\ UNCHANGED <<album, count, object, memory, upload, seq, target, at>>
    /\ UNCHANGED <<puts, born, cleared, gone>>

-----------------------------------------------------------------------------
(* GET: one ConsistentRead each, which any server answers from the tables. *)

\* GET /albums/:id/photos/:photo_id: the item, or 404.
GetPhoto(u) == IF photo[u] = "none" THEN "404" ELSE photo[u]

\* GET /albums/:id: the item, made by a PUT or by the first upload, or 404.
GetAlbum == IF album = "none" THEN "404" ELSE album

-----------------------------------------------------------------------------

\* The process of a server ends and is started again: its handlers, its
\* channel and its workers are gone, the tables and the bucket are not.
Crash(s) ==
    /\ Fault
    /\ queue' = [queue EXCEPT ![s] = <<>>]
    /\ job' = [job EXCEPT ![s] = [i \in Worker |-> Idle]]
    /\ upload' = [u \in Uploads |->
                    IF at[u] = s /\ upload[u] \in {"numbered", "recorded"}
                    THEN "died" ELSE upload[u]]
    /\ remove' = [d \in Deletes |->
                    IF at[d] = s /\ remove[d] \in {"found", "cleared"}
                    THEN "died" ELSE remove[d]]
    /\ UNCHANGED <<db, seq, target, at, puts, born, cleared, gone>>

\* The steps of the program when every call succeeds, by goroutine.
UploadStep(u) == IncrementAndGetSeq(u) \/ PutPhoto(u) \/ Submit(u)
WorkStep(s, i) == TakeJob(s, i) \/ StoreObject(s, i) \/ RecordOutcome(s, i)
DeleteStep(d) == DeleteObject(d) \/ DeleteRecord(d)

Next ==
    \/ PutAlbum
    \/ \E u \in Uploads : UploadStep(u)
    \/ \E u \in Uploads : IncrementFails(u)
    \/ \E u \in Uploads : PutPhotoFails(u)
    \/ \E s \in Servers, i \in Worker : WorkStep(s, i)
    \/ \E s \in Servers, i \in Worker : StoreObjectFails(s, i)
    \/ \E s \in Servers, i \in Worker : RecordOutcomeFails(s, i)
    \/ \E d \in Deletes, u \in Uploads : FindPhoto(d, u)
    \/ \E d \in Deletes : DeleteStep(d)
    \/ \E d \in Deletes : DeleteObjectFails(d)
    \/ \E d \in Deletes : DeleteRecordFails(d)
    \/ \E s \in Servers : Crash(s)

Spec == Init /\ [][Next]_vars

\* A handler that has begun and a worker with something to do go on: the Go
\* scheduler is fair and AWS calls return.
Fairness ==
    /\ \A u \in Uploads :
          WF_vars(PutPhoto(u)) /\ SF_vars(Submit(u))
    /\ \A s \in Servers, i \in Worker : WF_vars(WorkStep(s, i))
    /\ \A d \in Deletes : WF_vars(DeleteStep(d))

FairSpec == Spec /\ Fairness

-----------------------------------------------------------------------------
(* Properties.                                                             *)

QueuePlaces(u) ==
    {p \in Servers \X (1..QueueDepth) :
        p[2] <= Len(queue[p[1]]) /\ queue[p[1]][p[2]] = u}

WorkerPlaces(u) == {p \in Servers \X Worker : job[p[1]][p[2]].photo = u}

JobCopies(u) == Cardinality(QueuePlaces(u)) + Cardinality(WorkerPlaces(u))

\* Every variable has its type, and no channel holds more than its buffer.
TypeOK ==
    /\ album \in {"none", "bare", "put"}
    /\ count \in Nat
    /\ photo \in [Uploads -> Status]
    /\ object \in [Uploads -> BOOLEAN]
    /\ queue \in [Servers -> Seq(Uploads)]
    /\ \A s \in Servers : Len(queue[s]) <= QueueDepth
    /\ job \in [Servers -> [Worker -> [photo : Uploads \union {NoUpload},
                                       stage : Stage]]]
    /\ upload \in [Uploads -> UploadState]
    /\ seq \in [Uploads -> Nat]
    /\ remove \in [Deletes -> RemoveState]
    /\ target \in [Deletes -> Uploads \union {NoUpload}]
    /\ at \in [Uploads \union Deletes -> Servers]
    /\ faults \in 0..MaxFaults
    /\ puts \in 0..MaxPuts
    /\ born \in [Uploads -> 0..MaxPuts]
    /\ cleared \in SUBSET Uploads
    /\ gone \in SUBSET Uploads

\* A photo whose DELETE found it and answered 204 never has an item again,
\* although the job of its upload may still be queued or in a worker's hands.
DeletedStaysDeleted == \A u \in gone : GetPhoto(u) = "404"

\* A photo whose upload was answered 202 is found, and so is its album, on
\* whichever server a GET lands, until a DELETE of it has gone through.
AcceptedIsVisible ==
    \A u \in Uploads : upload[u] = "accepted" =>
        /\ GetAlbum # "404"
        /\ GetPhoto(u) = "404" =>
              \E d \in Deletes :
                  target[d] = u /\ remove[d] \in {"done", "error"}

\* A photo shown as completed has its file in S3, unless a DELETE already
\* tried to remove the file.
CompletedHasObject ==
    \A u \in Uploads : GetPhoto(u) = "completed" /\ u \notin cleared => object[u]

\* No photo is processed twice: its job is in one channel or in the hands of
\* one worker at most.  Without faults, an accepted photo that is still
\* processing has such a job: none is dropped by a full channel or between the
\* channel and a worker.
JobsAreKept ==
    \A u \in Uploads :
        /\ JobCopies(u) <= 1
        /\ faults = 0 /\ upload[u] = "accepted" /\ GetPhoto(u) = "processing" =>
              JobCopies(u) = 1

\* Between two PUTs of the album, concurrent uploads to any servers never get
\* the same seq, whatever calls fail.
SeqUniqueBetweenPuts ==
    \A u, v \in Uploads :
        (/\ u # v
         /\ seq[u] > 0
         /\ seq[v] > 0
         /\ born[u] = born[v]) => seq[u] # seq[v]

\* An upload that got its seq is answered in the end, even when it has to wait
\* for room in the channel, unless its server ends; and as long as nothing
\* fails, polling an accepted photo sees it leave "processing".
EveryUploadEnds ==
    \A u \in Uploads :
        /\ upload[u] \in {"numbered", "recorded"}
              ~> upload[u] \in {"accepted", "error", "died"}
        /\ upload[u] = "accepted" ~> GetPhoto(u) # "processing" \/ faults > 0

\* album-store/README.md: DELETE is "Delete photo + file": when nothing is left
\* to do for a deleted photo, its file is not in S3.
DeletedHasNoFile ==
    faults = 0 =>
        \A u \in gone : JobCopies(u) = 0 => ~object[u]
=============================================================================

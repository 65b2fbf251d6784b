--------------------------- MODULE AlbumStoreProofs ---------------------------
(***************************************************************************)
(* Proofs about the album store, for any number of servers, workers,       *)
(* uploads, deletes, PUTs, failing calls and crashes.                      *)
(***************************************************************************)
EXTENDS AlbumStore, SequenceTheorems, FiniteSetTheorems, TLAPS

USE DEF db, memory, history

\* What a worker goroutine holds.
Job == [photo : Uploads \union {NoUpload}, stage : Stage]

LEMMA JobFacts ==
    ASSUME TypeOK, NEW s \in Servers, NEW i \in Worker
    PROVE  /\ Idle \in Job
           /\ job[s][i] \in Job
           /\ \A k \in Job : [job EXCEPT ![s][i] = k] \in [Servers -> [Worker -> Job]]
           /\ \A g \in Stage : [job EXCEPT ![s][i].stage = g]
                                   \in [Servers -> [Worker -> Job]]
<1>1. Idle \in Job
  BY DEF Idle, Job, Stage
<1>2. job \in [Servers -> [Worker -> Job]]
  BY DEF TypeOK, Job
<1>3. ASSUME NEW g \in Stage
      PROVE [job[s][i] EXCEPT !.stage = g] \in Job
  BY <1>2, <1>3, SMT DEF Job
<1> QED BY <1>1, <1>2, <1>3

LEMMA FaultFacts == TypeOK /\ Fault => faults' \in 0..MaxFaults
BY AlbumAssumption, SMT DEF TypeOK, Fault

-----------------------------------------------------------------------------

\* The types, and what a DELETE works on: a photo its client was told of.
TypeInv ==
    /\ TypeOK
    /\ \A d \in Deletes : remove[d] # "idle" =>
          target[d] \in Uploads /\ upload[target[d]] = "accepted"

LEMMA TypeStep ==
    ASSUME TypeInv, [Next]_vars PROVE TypeOK'
<1> USE AlbumAssumption, JobFacts, FaultFacts DEF Job
<1>0. TypeOK
  BY DEF TypeInv
<1>1. PutAlbum => TypeOK'
  BY <1>0, SMT DEF PutAlbum, TypeOK
<1>2. ASSUME NEW u \in Uploads, IncrementAndGetSeq(u) PROVE TypeOK'
  BY <1>0, <1>2, SMT DEF IncrementAndGetSeq, TypeOK, UploadState
<1>3. ASSUME NEW u \in Uploads, PutPhoto(u) PROVE TypeOK'
  BY <1>0, <1>3 DEF PutPhoto, TypeOK, UploadState, Status
<1>4. ASSUME NEW u \in Uploads, Submit(u) PROVE TypeOK'
  <2>1. at[u] \in Servers /\ queue[at[u]] \in Seq(Uploads)
    BY <1>0 DEF TypeOK
  <2>2. /\ Append(queue[at[u]], u) \in Seq(Uploads)
        /\ Len(Append(queue[at[u]], u)) = Len(queue[at[u]]) + 1
        /\ Len(queue[at[u]]) \in Nat
    BY <2>1, AppendProperties, LenProperties
  <2>3. Len(Append(queue[at[u]], u)) <= QueueDepth
    BY <1>4, <2>2, SMT DEF Submit
  <2>4. queue' = [queue EXCEPT ![at[u]] = Append(queue[at[u]], u)]
    BY <1>4 DEF Submit
  <2>5. /\ queue' \in [Servers -> Seq(Uploads)]
        /\ \A s \in Servers : Len(queue'[s]) <= QueueDepth
    BY <1>0, <2>1, <2>2, <2>3, <2>4 DEF TypeOK
  <2>6. upload' \in [Uploads -> UploadState]
    BY <1>0, <1>4 DEF Submit, TypeOK, UploadState
  <2> QED BY <1>0, <1>4, <2>5, <2>6 DEF Submit, TypeOK
<1>5. ASSUME NEW u \in Uploads, IncrementFails(u) PROVE TypeOK'
  <2>1. album' \in {"none", "bare", "put"} /\ count' \in Nat
    BY <1>0, <1>5, SMT DEF IncrementFails, TypeOK
  <2> QED BY <1>0, <1>5, <2>1 DEF IncrementFails, TypeOK, UploadState
<1>6. ASSUME NEW u \in Uploads, PutPhotoFails(u) PROVE TypeOK'
  <2>1. photo' \in [Uploads -> Status]
    BY <1>0, <1>6 DEF PutPhotoFails, TypeOK, Status
  <2> QED BY <1>0, <1>6, <2>1 DEF PutPhotoFails, TypeOK, UploadState
<1>7. ASSUME NEW s \in Servers, NEW i \in Worker, TakeJob(s, i) PROVE TypeOK'
  <2>1. queue[s] \in Seq(Uploads) /\ queue[s] # <<>>
    BY <1>0, <1>7 DEF TakeJob, TypeOK
  <2>2. /\ Head(queue[s]) \in Uploads
        /\ Tail(queue[s]) \in Seq(Uploads)
        /\ Len(Tail(queue[s])) = Len(queue[s]) - 1
        /\ Len(queue[s]) \in Nat
    BY <2>1, HeadTailProperties, LenProperties
  <2>3. Len(Tail(queue[s])) <= QueueDepth
    BY <1>0, <2>2, SMT DEF TypeOK
  <2>4. queue' = [queue EXCEPT ![s] = Tail(queue[s])]
    BY <1>7 DEF TakeJob
  <2>5. /\ queue' \in [Servers -> Seq(Uploads)]
        /\ \A r \in Servers : Len(queue'[r]) <= QueueDepth
    BY <1>0, <2>2, <2>3, <2>4 DEF TypeOK
  <2>6. [photo |-> Head(queue[s]), stage |-> "taken"] \in Job
    BY <2>2 DEF Stage
  <2>7. job' \in [Servers -> [Worker -> Job]]
    BY <1>0, <1>7, <2>6 DEF TakeJob
  <2> QED BY <1>0, <1>7, <2>5, <2>7 DEF TakeJob, TypeOK
<1>8. ASSUME NEW s \in Servers, NEW i \in Worker, StoreObject(s, i)
      PROVE TypeOK'
  <2>1. job' \in [Servers -> [Worker -> Job]]
    BY <1>0, <1>8 DEF StoreObject, Stage
  <2>2. object' \in [Uploads -> BOOLEAN]
    BY <1>0, <1>8 DEF StoreObject, TypeOK
  <2> QED BY <1>0, <1>8, <2>1, <2>2 DEF StoreObject, TypeOK
<1>9. ASSUME NEW s \in Servers, NEW i \in Worker, RecordOutcome(s, i)
      PROVE TypeOK'
  <2>1. job' \in [Servers -> [Worker -> Job]]
    BY <1>0, <1>9 DEF RecordOutcome
  <2>2. photo' \in [Uploads -> Status]
    BY <1>0, <1>9 DEF RecordOutcome, StatusUpdated, Outcome, TypeOK, Status
  <2> QED BY <1>0, <1>9, <2>1, <2>2 DEF RecordOutcome, TypeOK
<1>10. ASSUME NEW s \in Servers, NEW i \in Worker, StoreObjectFails(s, i)
       PROVE TypeOK'
  <2>1. job' \in [Servers -> [Worker -> Job]]
    BY <1>0, <1>10 DEF StoreObjectFails, Stage
  <2>2. object' \in [Uploads -> BOOLEAN]
    BY <1>0, <1>10 DEF StoreObjectFails, TypeOK
  <2> QED BY <1>0, <1>10, <2>1, <2>2 DEF StoreObjectFails, TypeOK
<1>11. ASSUME NEW s \in Servers, NEW i \in Worker, RecordOutcomeFails(s, i)
       PROVE TypeOK'
  <2>1. job' \in [Servers -> [Worker -> Job]]
    BY <1>0, <1>11 DEF RecordOutcomeFails
  <2> QED BY <1>0, <1>11, <2>1 DEF RecordOutcomeFails, TypeOK
<1>12. ASSUME NEW d \in Deletes, NEW u \in Uploads, FindPhoto(d, u) PROVE TypeOK'
  BY <1>0, <1>12 DEF FindPhoto, TypeOK, RemoveState
<1>13. ASSUME NEW d \in Deletes, DeleteObject(d) PROVE TypeOK'
  <2>1. cleared' \in SUBSET Uploads
    BY <1>13 DEF DeleteObject, TypeInv, TypeOK
  <2> QED BY <1>0, <1>13, <2>1 DEF DeleteObject, TypeOK, RemoveState
<1>14. ASSUME NEW d \in Deletes, DeleteRecord(d) PROVE TypeOK'
  <2>1. gone' \in SUBSET Uploads
    BY <1>14 DEF DeleteRecord, TypeInv, TypeOK
  <2> QED BY <1>0, <1>14, <2>1 DEF DeleteRecord, TypeOK, RemoveState, Status
<1>15. ASSUME NEW d \in Deletes, DeleteObjectFails(d) PROVE TypeOK'
  <2>1. cleared' \in SUBSET Uploads
    BY <1>15 DEF DeleteObjectFails, TypeInv, TypeOK
  <2>2. object' \in [Uploads -> BOOLEAN]
    BY <1>0, <1>15 DEF DeleteObjectFails, TypeOK
  <2> QED BY <1>0, <1>15, <2>1, <2>2 DEF DeleteObjectFails, TypeOK, RemoveState
<1>16. ASSUME NEW d \in Deletes, DeleteRecordFails(d) PROVE TypeOK'
  <2>1. photo' \in [Uploads -> Status]
    BY <1>0, <1>16 DEF DeleteRecordFails, TypeOK, Status
  <2> QED BY <1>0, <1>16, <2>1 DEF DeleteRecordFails, TypeOK, RemoveState
<1>17. ASSUME NEW s \in Servers, Crash(s) PROVE TypeOK'
  <2>1. /\ queue' \in [Servers -> Seq(Uploads)]
        /\ \A r \in Servers : Len(queue'[r]) <= QueueDepth
    <3>1. <<>> \in Seq(Uploads) /\ Len(<<>>) = 0
      BY EmptySeq
    <3> QED BY <1>0, <1>17, <3>1, SMT DEF Crash, TypeOK
  <2>2. job' \in [Servers -> [Worker -> Job]]
    <3>1. Idle \in Job
      BY DEF Idle, Stage
    <3> QED BY <1>0, <1>17, <3>1 DEF Crash, TypeOK
  <2>3. upload' \in [Uploads -> UploadState]
    BY <1>0, <1>17 DEF Crash, TypeOK, UploadState
  <2>4. remove' \in [Deletes -> RemoveState]
    BY <1>0, <1>17 DEF Crash, TypeOK, RemoveState
  <2> QED BY <1>0, <1>17, <2>1, <2>2, <2>3, <2>4 DEF Crash, TypeOK
<1>18. UNCHANGED vars => TypeOK'
  BY <1>0 DEF vars, TypeOK
<1> QED
  BY <1>1, <1>2, <1>3, <1>4, <1>5, <1>6, <1>7, <1>8, <1>9, <1>10, <1>11,
     <1>12, <1>13, <1>14, <1>15, <1>16, <1>17, <1>18
     DEF Next, UploadStep, WorkStep, DeleteStep

LEMMA TypeInvariant == Spec => []TypeInv
<1>1. Init => TypeInv
  <2> SUFFICES ASSUME Init PROVE TypeOK
    BY DEF Init, TypeInv
  <2>1. Idle \in Job
    BY DEF Idle, Stage, Job
  <2>2. /\ queue \in [Servers -> Seq(Uploads)]
        /\ \A s \in Servers : Len(queue[s]) <= QueueDepth
    <3>1. <<>> \in Seq(Uploads) /\ Len(<<>>) = 0
      BY EmptySeq
    <3> QED BY <3>1, AlbumAssumption, SMT DEF Init
  <2>3. job \in [Servers -> [Worker -> Job]]
    BY <2>1 DEF Init
  <2> QED
    BY <2>2, <2>3, AlbumAssumption, SMT
       DEF Init, TypeOK, UploadState, RemoveState, Status, Job
<1>2. ASSUME TypeInv, [Next]_vars PROVE TypeInv'
  <2> SUFFICES ASSUME NEW d \in Deletes, remove'[d] # "idle"
               PROVE target'[d] \in Uploads /\ upload'[target'[d]] = "accepted"
    BY <1>2, TypeStep DEF TypeInv
  <2> USE <1>2 DEF TypeInv
  <2>1. ASSUME NEW u \in Uploads, upload[u] = "accepted"
        PROVE upload'[u] = "accepted"
    <3>1. ASSUME NEW v \in Uploads, NEW k \in UploadState, upload[v] # "accepted",
                 upload' = [upload EXCEPT ![v] = k]
          PROVE upload'[u] = "accepted"
      BY <2>1, <3>1 DEF TypeOK
    <3>2. ASSUME NEW s \in Servers, Crash(s) PROVE upload'[u] = "accepted"
      BY <2>1, <3>2, SMT DEF Crash
    <3>3. CASE UNCHANGED upload
      BY <2>1, <3>3
    <3> QED
      BY <3>1, <3>2, <3>3
         DEF Next, UploadStep, WorkStep, DeleteStep, PutAlbum, UploadState,
             IncrementAndGetSeq, PutPhoto, Submit, IncrementFails,
             PutPhotoFails, TakeJob, StoreObject, RecordOutcome,
             StoreObjectFails, RecordOutcomeFails, FindPhoto, DeleteObject,
             DeleteRecord, DeleteObjectFails, DeleteRecordFails, vars
  <2>2. CASE remove[d] # "idle" /\ target'[d] = target[d]
    BY <2>1, <2>2
  <2>3. ASSUME NEW e \in Deletes, NEW u \in Uploads, FindPhoto(e, u)
        PROVE \/ remove[d] # "idle" /\ target'[d] = target[d]
              \/ target'[d] = u /\ upload[u] = "accepted"
    BY <2>3 DEF FindPhoto, TypeOK
  <2>4. ASSUME NEW e \in Deletes, NEW k \in RemoveState, remove[e] # "idle",
               remove' = [remove EXCEPT ![e] = k]
        PROVE remove[d] # "idle"
    BY <2>4 DEF TypeOK
  <2>5. ASSUME NEW s \in Servers, Crash(s) PROVE remove[d] # "idle"
    BY <2>5, SMT DEF Crash
  <2> QED
    BY <2>1, <2>2, <2>3, <2>4, <2>5
       DEF Next, UploadStep, WorkStep, DeleteStep, PutAlbum, RemoveState,
           IncrementAndGetSeq, PutPhoto, Submit, IncrementFails,
           PutPhotoFails, TakeJob, StoreObject, RecordOutcome,
           StoreObjectFails, RecordOutcomeFails, DeleteObject, DeleteRecord,
           DeleteObjectFails, DeleteRecordFails, Crash, vars
<1> QED BY <1>1, <1>2, PTL DEF Spec

\* Every variable keeps its type, and no channel ever holds more than its
\* buffer.
THEOREM TypeCorrect == Spec => []TypeOK
<1>1. TypeInv => TypeOK
  BY DEF TypeInv
<1> QED BY TypeInvariant, <1>1, PTL

-----------------------------------------------------------------------------

\* A DELETE of the photo went through, as far as its client can tell.
Removed(u) == \E d \in Deletes : target[d] = u /\ remove[d] \in {"done", "error"}

\* What a GET may say of a photo.  A photo that is gone stays so because its
\* upload is over and a worker's update is conditional; an accepted one is
\* missing only behind a DELETE that went through.
ShownInv ==
    /\ \A u \in Uploads :
          upload[u] \in {"numbered", "recorded", "accepted"} => album # "none"
    /\ \A u \in Uploads :
          upload[u] \in {"recorded", "accepted"} /\ photo[u] = "none" => Removed(u)
    /\ \A u \in gone : upload[u] = "accepted" /\ photo[u] = "none"

\* A DELETE that is over stays so, with its photo.
LEMMA RemovedStays ==
    ASSUME TypeInv, [Next]_vars, NEW u \in Uploads, Removed(u) PROVE Removed(u)'
<1> PICK d \in Deletes : target[d] = u /\ remove[d] \in {"done", "error"}
  BY DEF Removed
<1> SUFFICES target'[d] = target[d] /\ remove'[d] = remove[d]
  BY DEF Removed
<1> USE DEF TypeInv, TypeOK
<1>1. CASE UNCHANGED <<remove, target>>
  BY <1>1
<1>2. ASSUME NEW e \in Deletes, NEW v \in Uploads, FindPhoto(e, v)
      PROVE target'[d] = target[d] /\ remove'[d] = remove[d]
  BY <1>2, SMT DEF FindPhoto
<1>3. ASSUME NEW e \in Deletes, NEW k \in RemoveState, remove[e] \in {"found", "cleared"},
             remove' = [remove EXCEPT ![e] = k], UNCHANGED target
      PROVE target'[d] = target[d] /\ remove'[d] = remove[d]
  BY <1>3, SMT
<1>4. ASSUME NEW s \in Servers, Crash(s)
      PROVE target'[d] = target[d] /\ remove'[d] = remove[d]
  BY <1>4, SMT DEF Crash
<1> QED
  BY <1>1, <1>2, <1>3, <1>4
     DEF Next, UploadStep, WorkStep, DeleteStep, PutAlbum, IncrementAndGetSeq,
         PutPhoto, Submit, IncrementFails, PutPhotoFails, TakeJob, StoreObject,
         RecordOutcome, StoreObjectFails, RecordOutcomeFails, DeleteObject,
         DeleteRecord, DeleteObjectFails, DeleteRecordFails, RemoveState, vars

\* What a step may do to the album and to one photo.
PhotoStep(u) ==
    /\ album # "none" => album' # "none"
    /\ upload'[u] \in {"numbered", "recorded", "accepted"} =>
          upload[u] \in {"numbered", "recorded", "accepted"} \/ album' # "none"
    /\ upload'[u] \in {"recorded", "accepted"} /\ photo'[u] = "none" =>
          \/ upload[u] \in {"recorded", "accepted"} /\ photo[u] = "none"
          \/ Removed(u)'
    /\ upload[u] = "accepted" => upload'[u] = "accepted"
    /\ upload[u] = "accepted" /\ photo[u] = "none" => photo'[u] = "none"
    /\ u \in gone' => u \in gone \/ (upload[u] = "accepted" /\ photo'[u] = "none")

LEMMA PhotoSteps ==
    ASSUME TypeInv, [Next]_vars, NEW u \in Uploads PROVE PhotoStep(u)
<1> USE DEF TypeInv, TypeOK, PhotoStep
<1>1. CASE UNCHANGED <<album, photo, upload, gone>>
  BY <1>1
<1>2. CASE PutAlbum
  BY <1>2 DEF PutAlbum
<1>3. ASSUME NEW v \in Uploads, IncrementAndGetSeq(v) PROVE PhotoStep(u)
  BY <1>3, SMT DEF IncrementAndGetSeq
<1>4. ASSUME NEW v \in Uploads, IncrementFails(v) PROVE PhotoStep(u)
  BY <1>4, SMT DEF IncrementFails
<1>5. ASSUME NEW v \in Uploads, PutPhoto(v) PROVE PhotoStep(u)
  BY <1>5, SMT DEF PutPhoto
<1>6. ASSUME NEW v \in Uploads, PutPhotoFails(v) PROVE PhotoStep(u)
  BY <1>6, SMT DEF PutPhotoFails
<1>7. ASSUME NEW v \in Uploads, Submit(v) PROVE PhotoStep(u)
  BY <1>7, SMT DEF Submit
<1>8. ASSUME NEW s \in Servers, NEW i \in Worker, RecordOutcome(s, i)
      PROVE PhotoStep(u)
  <2>1. photo'[u] = "none" <=> photo[u] = "none"
    BY <1>8, SMT DEF RecordOutcome, StatusUpdated, Outcome
  <2> QED BY <1>8, <2>1 DEF RecordOutcome
<1>9. ASSUME NEW d \in Deletes, DeleteRecord(d) \/ DeleteRecordFails(d)
      PROVE PhotoStep(u)
  <2>1. target[d] \in Uploads /\ upload[target[d]] = "accepted"
    BY <1>9 DEF DeleteRecord, DeleteRecordFails
  <2>2. remove'[d] \in {"done", "error"} /\ target'[d] = target[d]
    BY <1>9, SMT DEF DeleteRecord, DeleteRecordFails
  <2>3. /\ UNCHANGED <<album, upload>>
        /\ u # target[d] => photo'[u] = photo[u] /\ (u \in gone' => u \in gone)
        /\ photo[u] = "none" => photo'[u] = "none"
        /\ u \in gone' => u \in gone \/ photo'[u] = "none"
    BY <1>9, SMT DEF DeleteRecord, DeleteRecordFails
  <2>4. u = target[d] => Removed(u)'
    BY <2>2 DEF Removed
  <2> QED BY <2>1, <2>3, <2>4
<1>10. ASSUME NEW s \in Servers, Crash(s) PROVE PhotoStep(u)
  BY <1>10, SMT DEF Crash
<1> QED
  BY <1>1, <1>2, <1>3, <1>4, <1>5, <1>6, <1>7, <1>8, <1>9, <1>10
     DEF Next, UploadStep, WorkStep, DeleteStep, TakeJob, StoreObject,
         StoreObjectFails, RecordOutcomeFails, FindPhoto, DeleteObject,
         DeleteObjectFails, vars

LEMMA ShownStep ==
    ASSUME TypeInv, ShownInv, [Next]_vars PROVE ShownInv'
<1>1. ASSUME NEW u \in Uploads PROVE PhotoStep(u) /\ (Removed(u) => Removed(u)')
  BY PhotoSteps, RemovedStays
<1>2. ASSUME NEW u \in Uploads,
             upload'[u] \in {"numbered", "recorded", "accepted"}
      PROVE album' # "none"
  BY <1>1, <1>2 DEF PhotoStep, ShownInv
<1>3. ASSUME NEW u \in Uploads,
             upload'[u] \in {"recorded", "accepted"}, photo'[u] = "none"
      PROVE Removed(u)'
  BY <1>1, <1>3 DEF PhotoStep, ShownInv
<1>4. ASSUME NEW u \in gone' PROVE upload'[u] = "accepted" /\ photo'[u] = "none"
  <2>1. u \in Uploads
    BY TypeStep DEF TypeOK
  <2> QED BY <1>1, <1>4, <2>1 DEF PhotoStep, ShownInv
<1> QED BY <1>2, <1>3, <1>4 DEF ShownInv

LEMMA ShownInvariant == Spec => []ShownInv
<1>1. Init => ShownInv
  BY SMT DEF Init, ShownInv
<1> QED BY TypeInvariant, <1>1, ShownStep, PTL DEF Spec

\* A photo whose DELETE found it and answered 204 never has an item again,
\* whatever its job still does.
THEOREM DeletedForGood == Spec => []DeletedStaysDeleted
<1>1. ShownInv => DeletedStaysDeleted
  BY DEF ShownInv, DeletedStaysDeleted, GetPhoto
<1> QED BY ShownInvariant, <1>1, PTL

\* A photo answered 202 and its album are found on every server until a DELETE
\* has gone through, whatever fails or ends.
THEOREM AcceptedVisible == Spec => []AcceptedIsVisible
<1>1. TypeInv /\ ShownInv => AcceptedIsVisible
  BY DEF TypeInv, TypeOK, Status, ShownInv, Removed, AcceptedIsVisible, GetPhoto, GetAlbum
<1> QED BY TypeInvariant, ShownInvariant, <1>1, PTL

-----------------------------------------------------------------------------

\* The file of a photo is in the bucket, or a DELETE tried to remove it.
FileKept(u) == object[u] \/ u \in cleared

\* A worker that stored the file can say so whenever it gets to it.
FileInv ==
    /\ \A s \in Servers, i \in Worker :
          /\ job[s][i].stage # "idle" => job[s][i].photo \in Uploads
          /\ job[s][i].stage = "stored" => FileKept(job[s][i].photo)
    /\ \A u \in Uploads : photo[u] = "completed" => FileKept(u)

LEMMA FileStays ==
    ASSUME TypeInv, [Next]_vars, NEW u \in Uploads, FileKept(u)
    PROVE  FileKept(u)'
<1> USE DEF TypeInv, TypeOK, FileKept
<1>1. CASE UNCHANGED <<object, cleared>>
  BY <1>1
<1>2. ASSUME NEW s \in Servers, NEW i \in Worker,
             StoreObject(s, i) \/ StoreObjectFails(s, i)
      PROVE FileKept(u)'
  <2>1. /\ cleared' = cleared
        /\ object' \in {object, [object EXCEPT ![job[s][i].photo] = TRUE]}
    BY <1>2 DEF StoreObject, StoreObjectFails
  <2> QED BY <2>1
<1>3. ASSUME NEW d \in Deletes, DeleteObject(d) \/ DeleteObjectFails(d)
      PROVE FileKept(u)'
  BY <1>3, SMT DEF DeleteObject, DeleteObjectFails
<1> QED
  BY <1>1, <1>2, <1>3
     DEF Next, UploadStep, WorkStep, DeleteStep, PutAlbum, IncrementAndGetSeq,
         PutPhoto, Submit, IncrementFails, PutPhotoFails, TakeJob,
         RecordOutcome, RecordOutcomeFails, FindPhoto, DeleteRecord,
         DeleteRecordFails, Crash, vars

LEMMA JobStep ==
    ASSUME TypeInv, FileInv, [Next]_vars, NEW s \in Servers, NEW i \in Worker
    PROVE  /\ job'[s][i].stage # "idle" => job'[s][i].photo \in Uploads
           /\ job'[s][i].stage = "stored" => FileKept(job[s][i].photo)'
<1> DEFINE Goal == /\ job'[s][i].stage # "idle" => job'[s][i].photo \in Uploads
                   /\ job'[s][i].stage = "stored" => FileKept(job[s][i].photo)'
<1>0. \/ UNCHANGED job
      \/ \E r \in Servers, j \in Worker :
            \/ TakeJob(r, j) \/ StoreObject(r, j) \/ StoreObjectFails(r, j)
            \/ RecordOutcome(r, j) \/ RecordOutcomeFails(r, j)
      \/ \E r \in Servers : Crash(r)
  BY DEF Next, UploadStep, WorkStep, DeleteStep, PutAlbum, IncrementAndGetSeq,
         PutPhoto, Submit, IncrementFails, PutPhotoFails, FindPhoto,
         DeleteObject, DeleteRecord, DeleteObjectFails, DeleteRecordFails, vars
<1> USE DEF TypeInv, TypeOK
<1>1. ASSUME job'[s][i] = job[s][i] PROVE Goal
  BY <1>1, FileStays DEF FileInv
<1>2. ASSUME job'[s][i].stage = "idle" PROVE Goal
  BY <1>2
<1>3. ASSUME NEW r \in Servers, NEW j \in Worker, TakeJob(r, j) PROVE Goal
  <2>1. Head(queue[r]) \in Uploads
    BY <1>3, HeadTailProperties DEF TakeJob
  <2>2. CASE r = s /\ j = i
    <3>1. job'[s][i] = [photo |-> Head(queue[r]), stage |-> "taken"]
      BY <1>3, <2>2 DEF TakeJob
    <3> QED BY <2>1, <3>1
  <2>3. CASE ~(r = s /\ j = i)
    BY <1>1, <1>3, <2>3, SMT DEF TakeJob
  <2> QED BY <2>2, <2>3
<1>4. ASSUME NEW r \in Servers, NEW j \in Worker,
             StoreObject(r, j) \/ StoreObjectFails(r, j)
      PROVE Goal
  <2>1. job[r][j].stage = "taken"
    BY <1>4 DEF StoreObject, StoreObjectFails
  <2>2. CASE r = s /\ j = i
    <3>1. job[s][i].photo \in Uploads
      BY <2>1, <2>2 DEF FileInv
    <3>2. /\ job'[s][i].photo = job[s][i].photo
          /\ job'[s][i].stage \in {"stored", "unstored"}
      <4>1. PICK g \in {"stored", "unstored"} :
                job' = [job EXCEPT ![s][i].stage = g]
        BY <1>4, <2>2 DEF StoreObject, StoreObjectFails
      <4>2. job'[s][i] = [job[s][i] EXCEPT !.stage = g]
        BY <4>1
      <4>3. job[s][i] \in Job
        BY JobFacts DEF TypeInv
      <4> QED BY <4>2, <4>3 DEF Job
    <3>3. job'[s][i].stage = "stored" => object'[job[s][i].photo]
      <4>1. CASE StoreObject(r, j)
        BY <2>2, <3>1, <4>1 DEF StoreObject
      <4>2. CASE StoreObjectFails(r, j)
        <5>1. job'[s][i].stage = "unstored"
          BY <2>2, <4>2, SMT DEF StoreObjectFails
        <5> QED BY <5>1
      <4> QED BY <1>4, <4>1, <4>2
    <3> QED BY <3>1, <3>2, <3>3 DEF FileKept
  <2>3. CASE ~(r = s /\ j = i)
    BY <1>1, <1>4, <2>3, SMT DEF StoreObject, StoreObjectFails
  <2> QED BY <2>2, <2>3
<1>5. ASSUME NEW r \in Servers, NEW j \in Worker,
             RecordOutcome(r, j) \/ RecordOutcomeFails(r, j)
      PROVE Goal
  <2>1. CASE r = s /\ j = i
    <3>1. job'[s][i] = Idle
      BY <1>5, <2>1 DEF RecordOutcome, RecordOutcomeFails
    <3> QED BY <1>2, <3>1 DEF Idle
  <2>2. CASE ~(r = s /\ j = i)
    BY <1>1, <1>5, <2>2, SMT DEF RecordOutcome, RecordOutcomeFails
  <2> QED BY <2>1, <2>2
<1>6. ASSUME NEW r \in Servers, Crash(r) PROVE Goal
  <2>1. CASE r = s
    <3>1. job'[s][i] = Idle
      BY <1>6, <2>1 DEF Crash
    <3> QED BY <1>2, <3>1 DEF Idle
  <2>2. CASE r # s
    BY <1>1, <1>6, <2>2 DEF Crash
  <2> QED BY <2>1, <2>2
<1>7. CASE UNCHANGED job
  BY <1>1, <1>7
<1> QED BY <1>0, <1>3, <1>4, <1>5, <1>6, <1>7

LEMMA FileStep ==
    ASSUME TypeInv, FileInv, [Next]_vars PROVE FileInv'
<1> SUFFICES ASSUME NEW u \in Uploads, photo'[u] = "completed"
             PROVE  FileKept(u)'
  BY JobStep DEF FileInv
<1> USE DEF TypeInv, TypeOK
<1>1. ASSUME photo[u] = "completed" PROVE FileKept(u)'
  BY <1>1, FileStays DEF FileInv
<1>2. ASSUME NEW v \in Uploads, PutPhoto(v) \/ PutPhotoFails(v)
      PROVE photo[u] = "completed"
  BY <1>2, SMT DEF PutPhoto, PutPhotoFails
<1>3. ASSUME NEW d \in Deletes, DeleteRecord(d) \/ DeleteRecordFails(d)
      PROVE photo[u] = "completed"
  BY <1>3, SMT DEF DeleteRecord, DeleteRecordFails
<1>4. ASSUME NEW s \in Servers, NEW i \in Worker, RecordOutcome(s, i),
             photo[u] # "completed"
      PROVE FileKept(u)'
  <2>1. job[s][i].stage = "stored" /\ job[s][i].photo = u
    BY <1>4, SMT DEF RecordOutcome, StatusUpdated, Outcome
  <2> QED BY <2>1, FileStays DEF FileInv
<1>5. CASE UNCHANGED photo
  BY <1>1, <1>5
<1> QED
  BY <1>1, <1>2, <1>3, <1>4, <1>5
     DEF Next, UploadStep, WorkStep, DeleteStep, PutAlbum, IncrementAndGetSeq,
         Submit, IncrementFails, TakeJob, StoreObject, StoreObjectFails,
         RecordOutcomeFails, FindPhoto, DeleteObject, DeleteObjectFails, Crash,
         vars

\* A photo shown as completed has its file in S3 unless a DELETE tried to
\* remove the file, whichever worker stored it and when.
THEOREM CompletedStored == Spec => []CompletedHasObject
<1>1. Init => FileInv
  BY SMT DEF Init, FileInv, Idle
<1>2. FileInv => CompletedHasObject
  BY DEF FileInv, FileKept, CompletedHasObject, GetPhoto
<1> QED BY TypeInvariant, <1>1, <1>2, FileStep, PTL DEF Spec

-----------------------------------------------------------------------------

\* A seq given since the last PUT is not above the counter, which a PUT resets.
CountInv ==
    /\ \A u \in Uploads : /\ born[u] <= puts
                          /\ born[u] = puts => seq[u] <= count
    /\ SeqUniqueBetweenPuts

LEMMA CountStep ==
    ASSUME TypeOK, CountInv, [Next]_vars PROVE CountInv'
<1> USE DEF TypeOK, CountInv, SeqUniqueBetweenPuts
<1>1. CASE PutAlbum
  BY <1>1, AlbumAssumption, SMT DEF PutAlbum
<1>2. ASSUME NEW u \in Uploads, IncrementAndGetSeq(u) PROVE CountInv'
  <2>1. /\ count' = count + 1 /\ seq'[u] = count + 1 /\ born'[u] = puts
        /\ \A v \in Uploads : v # u => seq'[v] = seq[v] /\ born'[v] = born[v]
        /\ puts' = puts
    BY <1>2, SMT DEF IncrementAndGetSeq
  <2>2. ASSUME NEW v \in Uploads
        PROVE born'[v] <= puts' /\ (born'[v] = puts' => seq'[v] <= count')
    <3>1. CASE v = u
      BY <2>1, <3>1, AlbumAssumption, SMT
    <3>2. CASE v # u
      <4>1. /\ born[v] <= puts /\ (born[v] = puts => seq[v] <= count)
            /\ count \in Nat /\ seq[v] \in Nat
        OBVIOUS
      <4> QED BY <2>1, <3>2, <4>1, SMT
    <3> QED BY <3>1, <3>2
  <2>3. ASSUME NEW v \in Uploads, NEW w \in Uploads, v # w, seq'[v] > 0,
               seq'[w] > 0, born'[v] = born'[w]
        PROVE seq'[v] # seq'[w]
    <3>1. CASE v # u /\ w # u
      BY <2>1, <2>3, <3>1
    <3>2. CASE v = u
      BY <2>1, <2>3, <3>2, SMT
    <3>3. CASE w = u
      BY <2>1, <2>3, <3>3, SMT
    <3> QED BY <3>1, <3>2, <3>3
  <2> QED BY <2>2, <2>3
<1>3. ASSUME NEW u \in Uploads, IncrementFails(u) PROVE CountInv'
  <2>1. count' \in {count, count + 1} /\ UNCHANGED <<seq, born, puts>>
    BY <1>3 DEF IncrementFails
  <2> QED BY <2>1, SMT
<1>4. CASE UNCHANGED <<count, seq, born, puts>>
  BY <1>4
<1> QED
  BY <1>1, <1>2, <1>3, <1>4
     DEF Next, UploadStep, WorkStep, DeleteStep, PutPhoto, Submit,
         PutPhotoFails, TakeJob, StoreObject, RecordOutcome, StoreObjectFails,
         RecordOutcomeFails, FindPhoto, DeleteObject, DeleteRecord,
         DeleteObjectFails, DeleteRecordFails, Crash, vars

\* Between two PUTs of the album no two uploads get the same seq, whatever
\* calls fail and wherever they run.
THEOREM SeqsUnique == Spec => []SeqUniqueBetweenPuts
<1>1. Init => CountInv
  BY SMT DEF Init, CountInv, SeqUniqueBetweenPuts
<1>2. CountInv => SeqUniqueBetweenPuts
  BY DEF CountInv
<1> QED BY TypeCorrect, <1>1, <1>2, CountStep, PTL DEF Spec
-----------------------------------------------------------------------------

Submitted(u) == upload[u] = "accepted"

\* A job is in one place, from the 202 of its upload to its outcome: an entry of
\* a channel is no other entry and in no worker's hands, and no two workers
\* have the same job.  Without faults a photo that is processing has its place.
PlaceInv ==
    /\ \A s, r \in Servers :
          \A k \in 1..Len(queue[s]), m \in 1..Len(queue[r]) :
              queue[s][k] = queue[r][m] => s = r /\ k = m
    /\ \A s, r \in Servers, i, j \in Worker :
          job[s][i].photo \in Uploads /\ job[s][i].photo = job[r][j].photo
              => s = r /\ i = j
    /\ \A s, r \in Servers, i \in Worker :
          \A k \in 1..Len(queue[s]) : queue[s][k] # job[r][i].photo
    /\ \A s \in Servers : \A k \in 1..Len(queue[s]) : Submitted(queue[s][k])
    /\ \A s \in Servers, i \in Worker :
          job[s][i].photo \in Uploads => Submitted(job[s][i].photo)
    /\ faults = 0 =>
          \A u \in Uploads : Submitted(u) /\ photo[u] = "processing" =>
              \E s \in Servers :
                  \/ \E k \in 1..Len(queue[s]) : queue[s][k] = u
                  \/ \E i \in Worker : job[s][i].photo = u

\* Steps that move no job: the rest of them keep the places too.
LEMMA PlacesStay ==
    ASSUME PlaceInv, queue' = queue,
           \A s \in Servers, i \in Worker : job'[s][i].photo = job[s][i].photo,
           \A u \in Uploads : Submitted(u)' <=> Submitted(u),
           faults' = 0 => /\ faults = 0
                          /\ \A u \in Uploads :
                                Submitted(u) /\ photo'[u] = "processing"
                                    => photo[u] = "processing",
           TypeInv
    PROVE  PlaceInv'
<1>1. \A s \in Servers : \A k \in 1..Len(queue[s]) : queue[s][k] \in Uploads
  BY DEF TypeInv, TypeOK
<1> QED BY <1>1, SMT DEF PlaceInv

\* A job enters the channel once, when its upload is answered.
LEMMA SubmitKeepsPlaces ==
    ASSUME TypeInv, PlaceInv, NEW u \in Uploads, Submit(u) PROVE PlaceInv'
<1> DEFINE s0 == at[u]
<1>1. /\ s0 \in Servers
      /\ queue[s0] \in Seq(Uploads)
      /\ upload[u] = "recorded"
      /\ \A s \in Servers : queue'[s] = IF s = s0 THEN Append(queue[s0], u)
                                         ELSE queue[s]
      /\ \A v \in Uploads : upload'[v] = IF v = u THEN "accepted" ELSE upload[v]
      /\ UNCHANGED <<job, photo, faults>>
  BY DEF Submit, TypeInv, TypeOK
<1>g. /\ Len(queue[s0]) \in Nat
      /\ Len(Append(queue[s0], u)) = Len(queue[s0]) + 1
      /\ \A k \in 1..Len(queue[s0]) : Append(queue[s0], u)[k] = queue[s0][k]
      /\ Append(queue[s0], u)[Len(queue[s0]) + 1] = u
  BY <1>1, AppendProperties, LenProperties
<1>h. \A l \in Nat : \A k \in 1..(l + 1) : k \in 1..l \/ k = l + 1
  BY SMT
<1>i. \A l \in Nat : \A k \in 1..l : k \in 1..(l + 1)
  BY SMT
<1>j. \A l \in Nat : l + 1 \in 1..(l + 1)
  BY SMT
<1>2. \A s \in Servers : \A k \in 1..Len(queue'[s]) :
          \/ k \in 1..Len(queue[s]) /\ queue'[s][k] = queue[s][k]
          \/ s = s0 /\ k = Len(queue[s0]) + 1 /\ queue'[s][k] = u
  BY <1>1, <1>g, <1>h, Zenon
<1>3. \A s \in Servers : \A k \in 1..Len(queue[s]) :
          k \in 1..Len(queue'[s]) /\ queue'[s][k] = queue[s][k]
  BY <1>1, <1>g, <1>i, Zenon
<1>4. ~Submitted(u)
  BY <1>1 DEF Submitted
<1>5. \A v \in Uploads : Submitted(v)' <=> Submitted(v) \/ v = u
  BY <1>1 DEF Submitted
<1>6. \A s \in Servers : \A k \in 1..Len(queue[s]) : queue[s][k] \in Uploads
  BY DEF TypeInv, TypeOK
<1>7. Len(queue[s0]) + 1 \in 1..Len(queue'[s0]) /\ queue'[s0][Len(queue[s0]) + 1] = u
  BY <1>1, <1>g, <1>j, Zenon
<1>a. \A s, r \in Servers :
          \A k \in 1..Len(queue'[s]), m \in 1..Len(queue'[r]) :
              queue'[s][k] = queue'[r][m] => s = r /\ k = m
  BY <1>2, <1>4 DEF PlaceInv
<1>b. \A s, r \in Servers, i \in Worker :
          \A k \in 1..Len(queue'[s]) : queue'[s][k] # job[r][i].photo
  BY <1>2, <1>4 DEF PlaceInv
<1>c. \A s \in Servers : \A k \in 1..Len(queue'[s]) : Submitted(queue[s][k])'
  <2>1. \A s \in Servers : \A k \in 1..Len(queue'[s]) :
            \/ queue'[s][k] = u
            \/ Submitted(queue'[s][k]) /\ queue'[s][k] \in Uploads
    BY <1>2, <1>6 DEF PlaceInv
  <2> QED BY <1>1, <2>1 DEF Submitted
<1>d. \A s \in Servers, i \in Worker :
          job[s][i].photo \in Uploads => Submitted(job[s][i].photo)'
  BY <1>1, <1>5 DEF PlaceInv, Submitted
<1>e. ASSUME faults = 0, NEW v \in Uploads, Submitted(v)', photo[v] = "processing"
      PROVE  \E s \in Servers :
                  \/ \E k \in 1..Len(queue'[s]) : queue'[s][k] = v
                  \/ \E i \in Worker : job[s][i].photo = v
  <2>1. CASE v = u
    BY <1>1, <1>7, <2>1
  <2>2. CASE v # u
    BY <1>3, <1>5, <1>e, <2>2 DEF PlaceInv
  <2> QED BY <2>1, <2>2
<1> QED BY <1>1, <1>a, <1>b, <1>c, <1>d, <1>e DEF PlaceInv

\* A worker takes the job off the channel in one step.
LEMMA TakeKeepsPlaces ==
    ASSUME TypeInv, PlaceInv, NEW s0 \in Servers, NEW i0 \in Worker,
           TakeJob(s0, i0)
    PROVE  PlaceInv'
<1> DEFINE taken == Head(queue[s0])
<1>1. /\ queue[s0] \in Seq(Uploads) /\ queue[s0] # <<>>
      /\ job[s0][i0].photo = NoUpload
      /\ \A s \in Servers : queue'[s] = IF s = s0 THEN Tail(queue[s0]) ELSE queue[s]
      /\ \A s \in Servers, i \in Worker : job'[s][i].photo =
            IF s = s0 /\ i = i0 THEN taken ELSE job[s][i].photo
      /\ UNCHANGED <<upload, photo, faults>>
  BY DEF TakeJob, TypeInv, TypeOK, Idle
<1>2. /\ Len(queue[s0]) \in Nat \ {0}
      /\ taken = queue[s0][1] /\ taken \in Uploads
      /\ Len(Tail(queue[s0])) = Len(queue[s0]) - 1
      /\ \A k \in 1..Len(Tail(queue[s0])) : Tail(queue[s0])[k] = queue[s0][k + 1]
  BY <1>1, HeadTailProperties, LenProperties, EmptySeq, SMT
<1>3. \A s \in Servers : Len(queue[s]) \in Nat
  BY DEF TypeInv, TypeOK
<1> DEFINE Old(s, k) == IF s = s0 THEN k + 1 ELSE k
<1>4. \A s \in Servers : \A k \in 1..Len(queue'[s]) :
          /\ Old(s, k) \in 1..Len(queue[s])
          /\ s = s0 => Old(s, k) # 1
          /\ queue'[s][k] = queue[s][Old(s, k)]
  <2>1. \A l \in Nat \ {0} : \A k \in 1..(l - 1) : k + 1 \in 1..l /\ k + 1 # 1
    BY SMT
  <2> QED BY <1>1, <1>2, <2>1, Zenon
<1>5. 1 \in 1..Len(queue[s0])
  BY <1>2, SMT
<1>6. \A s \in Servers : \A k \in 1..Len(queue[s]) :
          \/ s = s0 /\ k = 1
          \/ \E m \in 1..Len(queue'[s]) : queue'[s][m] = queue[s][k]
  <2> TAKE s \in Servers
  <2> TAKE k \in 1..Len(queue[s])
  <2>1. CASE s # s0
    BY <1>1, <2>1
  <2>2. CASE s = s0 /\ k # 1
    <3>1. k - 1 \in 1..Len(Tail(queue[s0])) /\ (k - 1) + 1 = k
      BY <1>2, <2>2, SMT
    <3>2. Tail(queue[s0])[k - 1] = queue[s0][k]
      BY <1>2, <3>1
    <3>3. queue'[s] = Tail(queue[s0])
      BY <1>1, <2>2
    <3> QED BY <2>2, <3>1, <3>2, <3>3
  <2> QED BY <2>1, <2>2
<1>7. \A s, k, m : Old(s, k) = Old(s, m) /\ k \in Nat /\ m \in Nat => k = m
  BY SMT
<1>a. \A s, r \in Servers :
          \A k \in 1..Len(queue'[s]), m \in 1..Len(queue'[r]) :
              queue'[s][k] = queue'[r][m] => s = r /\ k = m
  <2> SUFFICES ASSUME NEW s \in Servers, NEW r \in Servers,
                      NEW k \in 1..Len(queue'[s]), NEW m \in 1..Len(queue'[r]),
                      queue'[s][k] = queue'[r][m]
               PROVE  s = r /\ k = m
    OBVIOUS
  <2>1. s = r /\ Old(s, k) = Old(r, m)
    <3>1. /\ Old(s, k) \in 1..Len(queue[s])
          /\ Old(r, m) \in 1..Len(queue[r])
          /\ queue[s][Old(s, k)] = queue[r][Old(r, m)]
      BY <1>4
    <3> HIDE DEF Old
    <3> QED BY <3>1 DEF PlaceInv
  <2> QED BY <1>7, <2>1
<1>b. \A s, r \in Servers, i, j \in Worker :
          job'[s][i].photo \in Uploads /\ job'[s][i].photo = job'[r][j].photo
              => s = r /\ i = j
  BY <1>1, <1>2, <1>5 DEF PlaceInv
<1>c. \A s, r \in Servers, i \in Worker :
          \A k \in 1..Len(queue'[s]) : queue'[s][k] # job'[r][i].photo
  BY <1>1, <1>2, <1>4, <1>5 DEF PlaceInv
<1>d. \A s \in Servers : \A k \in 1..Len(queue'[s]) : Submitted(queue'[s][k])
  BY <1>4 DEF PlaceInv
<1>e. \A s \in Servers, i \in Worker :
          job'[s][i].photo \in Uploads => Submitted(job'[s][i].photo)
  BY <1>1, <1>2, <1>5 DEF PlaceInv
<1>f. ASSUME faults = 0, NEW v \in Uploads, Submitted(v), photo[v] = "processing"
      PROVE  \E s \in Servers :
                  \/ \E k \in 1..Len(queue'[s]) : queue'[s][k] = v
                  \/ \E i \in Worker : job'[s][i].photo = v
  <2>1. PICK s \in Servers :
            \/ \E k \in 1..Len(queue[s]) : queue[s][k] = v
            \/ \E i \in Worker : job[s][i].photo = v
    BY <1>f DEF PlaceInv
  <2>2. CASE \E k \in 1..Len(queue[s]) : queue[s][k] = v
    <3>1. v = taken \/ \E m \in 1..Len(queue'[s]) : queue'[s][m] = v
      BY <1>2, <1>6, <2>2
    <3>2. job'[s0][i0].photo = taken
      BY <1>1
    <3> QED BY <3>1, <3>2
  <2>3. CASE \E i \in Worker : job[s][i].photo = v
    <3>1. v # NoUpload
      BY AlbumAssumption
    <3> QED BY <1>1, <2>3, <3>1
  <2> QED BY <2>1, <2>2, <2>3
<1> QED BY <1>1, <1>a, <1>b, <1>c, <1>d, <1>e, <1>f DEF PlaceInv, Submitted

\* A worker is done with its job: its place is given up with the outcome.
LEMMA OutcomeKeepsPlaces ==
    ASSUME TypeInv, PlaceInv, NEW s0 \in Servers, NEW i0 \in Worker,
           RecordOutcome(s0, i0) \/ RecordOutcomeFails(s0, i0)
    PROVE  PlaceInv'
<1> DEFINE v == job[s0][i0].photo
<1>1. /\ \A s \in Servers, i \in Worker : job'[s][i].photo =
            IF s = s0 /\ i = i0 THEN NoUpload ELSE job[s][i].photo
      /\ UNCHANGED <<queue, upload>>
  BY DEF RecordOutcome, RecordOutcomeFails, TypeInv, TypeOK, Idle
<1>2. \A s \in Servers : \A k \in 1..Len(queue[s]) : queue[s][k] \in Uploads
  BY DEF TypeInv, TypeOK
<1>3. faults' = 0 =>
          faults = 0 /\ \A u \in Uploads : photo'[u] = "processing" =>
                            photo[u] = "processing" /\ u # v
  <2>1. CASE RecordOutcome(s0, i0)
    BY <2>1, SMT DEF RecordOutcome, StatusUpdated, Outcome, TypeInv, TypeOK
  <2>2. CASE RecordOutcomeFails(s0, i0)
    BY <2>2, SMT DEF RecordOutcomeFails, Fault, TypeInv, TypeOK
  <2> QED BY <2>1, <2>2
<1>4. NoUpload \notin Uploads
  BY AlbumAssumption
<1>a. \A s, r \in Servers, i, j \in Worker :
          job'[s][i].photo \in Uploads /\ job'[s][i].photo = job'[r][j].photo
              => s = r /\ i = j
  BY <1>1, <1>4 DEF PlaceInv
<1>b. \A s, r \in Servers, i \in Worker :
          \A k \in 1..Len(queue[s]) : queue[s][k] # job'[r][i].photo
  BY <1>1, <1>2, <1>4 DEF PlaceInv
<1>c. \A s \in Servers, i \in Worker :
          job'[s][i].photo \in Uploads => Submitted(job'[s][i].photo)
  BY <1>1, <1>4 DEF PlaceInv
<1>d. ASSUME faults' = 0, NEW u \in Uploads, Submitted(u), photo'[u] = "processing"
      PROVE  \E s \in Servers :
                  \/ \E k \in 1..Len(queue[s]) : queue[s][k] = u
                  \/ \E i \in Worker : job'[s][i].photo = u
  <2>1. PICK s \in Servers :
            \/ \E k \in 1..Len(queue[s]) : queue[s][k] = u
            \/ \E i \in Worker : job[s][i].photo = u
    BY <1>3, <1>d DEF PlaceInv
  <2> QED BY <1>1, <1>3, <1>d, <2>1
<1> QED BY <1>1, <1>a, <1>b, <1>c, <1>d DEF PlaceInv, Submitted

\* What a server loses in a crash was in one place too.
LEMMA CrashKeepsPlaces ==
    ASSUME TypeInv, PlaceInv, NEW s0 \in Servers, Crash(s0) PROVE PlaceInv'
<1>1. /\ \A s \in Servers : queue'[s] = IF s = s0 THEN <<>> ELSE queue[s]
      /\ \A s \in Servers, i \in Worker :
            job'[s][i].photo = IF s = s0 THEN NoUpload ELSE job[s][i].photo
      /\ \A u \in Uploads : upload[u] = "accepted" => upload'[u] = "accepted"
  BY DEF Crash, TypeInv, TypeOK, Idle
<1>2. \A s \in Servers : \A k \in 1..Len(queue'[s]) :
          s # s0 /\ k \in 1..Len(queue[s]) /\ queue'[s][k] = queue[s][k]
                /\ queue[s][k] \in Uploads
  <2>1. Len(<<>>) = 0 /\ 1..0 = {}
    BY EmptySeq, SMT
  <2>2. \A s \in Servers : \A k \in 1..Len(queue[s]) : queue[s][k] \in Uploads
    BY DEF TypeInv, TypeOK
  <2> QED BY <1>1, <2>1, <2>2, Zenon
<1>3. faults' # 0
  BY SMT DEF Crash, Fault, TypeInv, TypeOK
<1>4. NoUpload \notin Uploads
  BY AlbumAssumption
<1>a. \A s, r \in Servers :
          \A k \in 1..Len(queue'[s]), m \in 1..Len(queue'[r]) :
              queue'[s][k] = queue'[r][m] => s = r /\ k = m
  BY <1>2 DEF PlaceInv
<1>b. \A s, r \in Servers, i, j \in Worker :
          job'[s][i].photo \in Uploads /\ job'[s][i].photo = job'[r][j].photo
              => s = r /\ i = j
  BY <1>1, <1>4 DEF PlaceInv
<1>c. \A s, r \in Servers, i \in Worker :
          \A k \in 1..Len(queue'[s]) : queue'[s][k] # job'[r][i].photo
  BY <1>1, <1>2, <1>4 DEF PlaceInv
<1>d. \A s \in Servers : \A k \in 1..Len(queue'[s]) :
          upload'[queue'[s][k]] = "accepted"
  BY <1>1, <1>2 DEF PlaceInv, Submitted
<1>e. \A s \in Servers, i \in Worker :
          job'[s][i].photo \in Uploads => upload'[job'[s][i].photo] = "accepted"
  BY <1>1, <1>4 DEF PlaceInv, Submitted
<1> QED BY <1>3, <1>a, <1>b, <1>c, <1>d, <1>e DEF PlaceInv, Submitted

LEMMA PlaceStep ==
    ASSUME TypeInv, PlaceInv, [Next]_vars PROVE PlaceInv'
<1> USE DEF TypeInv, TypeOK
<1> DEFINE Stay ==
        /\ queue' = queue
        /\ \A s \in Servers, i \in Worker : job'[s][i].photo = job[s][i].photo
        /\ \A u \in Uploads : Submitted(u)' <=> Submitted(u)
        /\ faults' = 0 => /\ faults = 0
                          /\ \A u \in Uploads :
                                Submitted(u) /\ photo'[u] = "processing"
                                    => photo[u] = "processing"
<1>1. Stay => PlaceInv'
  BY PlacesStay
<1>2. CASE UNCHANGED <<queue, job, upload, photo, faults>>
  BY <1>1, <1>2 DEF Submitted
<1>3. ASSUME NEW u \in Uploads, IncrementAndGetSeq(u) PROVE PlaceInv'
  BY <1>1, <1>3, SMT DEF IncrementAndGetSeq, Submitted
<1>4. ASSUME NEW u \in Uploads, PutPhoto(u) PROVE PlaceInv'
  BY <1>1, <1>4, SMT DEF PutPhoto, Submitted
<1>5. ASSUME NEW u \in Uploads, IncrementFails(u) \/ PutPhotoFails(u)
      PROVE PlaceInv'
  <2>1. /\ faults' # 0
        /\ UNCHANGED <<queue, job>>
        /\ upload[u] # "accepted"
        /\ upload' = [upload EXCEPT ![u] = "error"]
    BY <1>5, SMT DEF IncrementFails, PutPhotoFails, Fault
  <2> QED BY <1>1, <2>1 DEF Submitted
<1>6. ASSUME NEW s \in Servers, NEW i \in Worker, StoreObject(s, i)
      PROVE PlaceInv'
  <2>1. \A r \in Servers, j \in Worker : job'[r][j].photo = job[r][j].photo
    BY <1>6, SMT DEF StoreObject
  <2> QED BY <1>1, <1>6, <2>1 DEF StoreObject, Submitted
<1>7. ASSUME NEW s \in Servers, NEW i \in Worker, StoreObjectFails(s, i)
      PROVE PlaceInv'
  <2>1. \A r \in Servers, j \in Worker : job'[r][j].photo = job[r][j].photo
    BY <1>7, SMT DEF StoreObjectFails
  <2>2. faults' # 0
    BY <1>7, SMT DEF StoreObjectFails, Fault
  <2> QED BY <1>1, <1>7, <2>1, <2>2 DEF StoreObjectFails, Submitted
<1>8. ASSUME NEW d \in Deletes, DeleteRecord(d) PROVE PlaceInv'
  BY <1>1, <1>8, SMT DEF DeleteRecord, Submitted
<1>9. ASSUME NEW d \in Deletes, DeleteObjectFails(d) \/ DeleteRecordFails(d)
      PROVE PlaceInv'
  <2>1. faults' # 0 /\ UNCHANGED <<queue, job, upload>>
    BY <1>9, SMT DEF DeleteObjectFails, DeleteRecordFails, Fault
  <2> QED BY <1>1, <2>1 DEF Submitted
<1> QED
  BY <1>2, <1>3, <1>4, <1>5, <1>6, <1>7, <1>8, <1>9, SubmitKeepsPlaces,
     TakeKeepsPlaces, OutcomeKeepsPlaces, CrashKeepsPlaces
     DEF Next, UploadStep, WorkStep, DeleteStep, PutAlbum, FindPhoto,
         DeleteObject, vars

\* No photo is processed twice, and without faults none that was accepted is
\* dropped by a full channel or between a channel and a worker, for any number
\* of servers, workers and places.
THEOREM JobsKept == Spec => []JobsAreKept
<1>1. Init => PlaceInv
  BY EmptySeq, AlbumAssumption, SMT DEF Init, PlaceInv, Idle, Submitted
<1>2. TypeInv /\ PlaceInv => JobsAreKept
  <2> SUFFICES ASSUME TypeInv, PlaceInv, NEW u \in Uploads
               PROVE  /\ JobCopies(u) <= 1
                      /\ (/\ faults = 0
                          /\ upload[u] = "accepted"
                          /\ GetPhoto(u) = "processing") => JobCopies(u) = 1
    BY DEF JobsAreKept
  <2> USE DEF TypeInv, TypeOK
  <2>1. \A s \in Servers : Len(queue[s]) \in Nat /\ Len(queue[s]) <= QueueDepth
    BY LenProperties
  <2>2. \A p \in QueuePlaces(u) : \E s \in Servers : \E k \in 1..Len(queue[s]) :
            p = <<s, k>> /\ queue[s][k] = u
    <3> SUFFICES ASSUME NEW s \in Servers, NEW k \in 1..QueueDepth,
                        k <= Len(queue[s]), queue[s][k] = u
                 PROVE  k \in 1..Len(queue[s])
      BY DEF QueuePlaces
    <3> QED BY <2>1, AlbumAssumption, SMT
  <2>3. \A p \in WorkerPlaces(u) : \E s \in Servers, i \in Worker :
            p = <<s, i>> /\ job[s][i].photo = u
    BY DEF WorkerPlaces
  <2>4. QueuePlaces(u) = {} \/ WorkerPlaces(u) = {}
    <3> SUFFICES ASSUME NEW p \in QueuePlaces(u), NEW q \in WorkerPlaces(u)
                 PROVE  FALSE
      OBVIOUS
    <3>1. PICK s \in Servers : \E k \in 1..Len(queue[s]) : queue[s][k] = u
      BY <2>2
    <3>2. PICK r \in Servers, i \in Worker : job[r][i].photo = u
      BY <2>3
    <3> QED BY <3>1, <3>2 DEF PlaceInv
  <2>5. ASSUME NEW P, \A x, y \in P : x = y
        PROVE  Cardinality(P) = IF P = {} THEN 0 ELSE 1
    <3>1. CASE P # {}
      <4>1. PICK x \in P : TRUE
        BY <3>1
      <4>2. P = {x}
        BY <2>5, <4>1
      <4> QED BY <3>1, <4>2, FS_Singleton
    <3>2. CASE P = {}
      BY <3>2, FS_EmptySet
    <3> QED BY <3>1, <3>2
  <2>8. \A x, y \in QueuePlaces(u) : x = y
    <3> SUFFICES ASSUME NEW x \in QueuePlaces(u), NEW y \in QueuePlaces(u)
                 PROVE  x = y
      OBVIOUS
    <3>1. PICK s \in Servers :
              \E k \in 1..Len(queue[s]) : x = <<s, k>> /\ queue[s][k] = u
      BY <2>2
    <3>2. PICK r \in Servers :
              \E m \in 1..Len(queue[r]) : y = <<r, m>> /\ queue[r][m] = u
      BY <2>2
    <3>3. PICK k \in 1..Len(queue[s]) : x = <<s, k>> /\ queue[s][k] = u
      BY <3>1
    <3>4. PICK m \in 1..Len(queue[r]) : y = <<r, m>> /\ queue[r][m] = u
      BY <3>2
    <3>5. s = r /\ k = m
      <4>1. \A a, b \in Servers :
                \A e \in 1..Len(queue[a]), f \in 1..Len(queue[b]) :
                    queue[a][e] = queue[b][f] => a = b /\ e = f
        BY DEF PlaceInv
      <4>2. queue[s][k] = queue[r][m]
        BY <3>3, <3>4
      <4> QED BY <4>1, <4>2, Zenon
    <3> QED BY <3>3, <3>4, <3>5
  <2>9. \A x, y \in WorkerPlaces(u) : x = y
    <3> SUFFICES ASSUME NEW x \in WorkerPlaces(u), NEW y \in WorkerPlaces(u)
                 PROVE  x = y
      OBVIOUS
    <3>1. PICK s \in Servers, i \in Worker : x = <<s, i>> /\ job[s][i].photo = u
      BY <2>3
    <3>2. PICK r \in Servers, j \in Worker : y = <<r, j>> /\ job[r][j].photo = u
      BY <2>3
    <3>3. s = r /\ i = j
      BY <3>1, <3>2 DEF PlaceInv
    <3> QED BY <3>1, <3>2, <3>3
  <2>6. JobCopies(u) = (IF QueuePlaces(u) = {} THEN 0 ELSE 1)
                        + (IF WorkerPlaces(u) = {} THEN 0 ELSE 1)
    BY <2>5, <2>8, <2>9 DEF JobCopies
  <2>7. ASSUME faults = 0, upload[u] = "accepted", GetPhoto(u) = "processing"
        PROVE  QueuePlaces(u) # {} \/ WorkerPlaces(u) # {}
    <3>1. PICK s \in Servers :
              \/ \E k \in 1..Len(queue[s]) : queue[s][k] = u
              \/ \E i \in Worker : job[s][i].photo = u
      BY <2>7 DEF PlaceInv, Submitted, GetPhoto
    <3>2. ASSUME NEW k \in 1..Len(queue[s]), queue[s][k] = u
          PROVE  <<s, k>> \in QueuePlaces(u)
      <4>1. k \in 1..QueueDepth /\ k <= Len(queue[s])
        BY <2>1, AlbumAssumption, SMT
      <4> QED BY <3>2, <4>1 DEF QueuePlaces
    <3>3. ASSUME NEW i \in Worker, job[s][i].photo = u
          PROVE  <<s, i>> \in WorkerPlaces(u)
      BY <3>3 DEF WorkerPlaces
    <3> QED BY <3>1, <3>2, <3>3
  <2> QED BY <2>4, <2>6, <2>7
<1> QED BY TypeInvariant, <1>1, <1>2, PlaceStep, PTL DEF Spec
=============================================================================

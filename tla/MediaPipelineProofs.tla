------------------------ MODULE MediaPipelineProofs ------------------------
(***************************************************************************)
(* Theorems about MediaPipeline, for any media, staging objects, workers,  *)
(* attempts and stalls: the pipeline implements the scan gate, and what a  *)
(* completed job has done.                                                 *)
(***************************************************************************)
EXTENDS MediaPipeline, TLAPS

(* A job keeps its upload from the moment it is added, is owned only while *)
(* it is active, and has attempts left as long as it may run.              *)
JobInv ==
    \A j \in JobIds :
        /\ j < nextJob <=> jobs[j].state # "none"
        /\ j < nextJob => jobs[j].upload \in Upload
        /\ jobs[j].owner # NoWorker => jobs[j].state = "active"
        /\ jobs[j].state \in {"waiting", "active"} => jobs[j].attempts < MaxAttempts

(* What a worker has behind it at each statement, also a worker whose job  *)
(* was given to another one: it holds a verdict on the very object its job *)
(* names, and at the end the verdict has been carried out.                 *)
WorkInv(w) ==
    ~At(w, "idle") =>
        /\ work[w].job \in JobIds
        /\ work[w].job < nextJob
        /\ ~At(w, "scan") /\ work[w].verdict = "clean" =>
              <<Current(w).media, Current(w).key>> \in cleared
        /\ ~At(w, "scan") => work[w].verdict # NoResult
        /\ At(w, "promote") => work[w].verdict = "clean"
        /\ At(w, "moderate") => work[w].verdict # "clean"
        /\ At(w, "finish") =>
              IF work[w].verdict = "clean"
              THEN public[Current(w).media] # NoKey
              ELSE Current(w).media \in moderation

PipelineInv ==
    /\ JobInv
    /\ \A w \in Workers : WorkInv(w)
    /\ CompletedJobsAreCarriedOut
    /\ OkWasCleared

JobType == jobs \in [JobIds -> Job]

WorkType ==
    work \in [Workers -> [pc : {"idle", "scan", "record", "promote", "moderate", "finish"},
                          job : {0} \cup JobIds,
                          verdict : Verdicts \cup {NoResult}]]

-----------------------------------------------------------------------------

LEMMA CurrentIsUpload ==
    ASSUME TypeOK, PipelineInv, NEW w \in Workers, ~At(w, "idle")
    PROVE  /\ work[w].job \in JobIds
           /\ work[w].job < nextJob
           /\ jobs[work[w].job] \in Job
           /\ Current(w) \in Upload
           /\ Current(w).media \in Media
           /\ Current(w).key \in Keys
BY DEF TypeOK, PipelineInv, WorkInv, JobInv, Current, Upload

(* What BullMQ makes of a job that threw, stalled or completed. *)
LEMMA AfterThrowType ==
    ASSUME NEW job \in Job, job.attempts < MaxAttempts
    PROVE  /\ AfterThrow(job) \in Job
           /\ AfterThrow(job).upload = job.upload
           /\ AfterThrow(job).owner = NoWorker
           /\ AfterThrow(job).state \in {"waiting", "failed"}
           /\ AfterThrow(job).state = "waiting" => AfterThrow(job).attempts < MaxAttempts
<1>1. job.attempts + 1 \in 0 .. MaxAttempts
  BY MediaAssumption DEF Job
<1>2. QED
  BY <1>1 DEF AfterThrow, Job

LEMMA AfterStallType ==
    ASSUME NEW job \in Job
    PROVE  /\ AfterStall(job) \in Job
           /\ AfterStall(job).upload = job.upload
           /\ AfterStall(job).owner = NoWorker
           /\ AfterStall(job).state \in {"waiting", "failed"}
           /\ AfterStall(job).attempts = job.attempts
<1>1. job.stalls < MaxStalls => job.stalls + 1 \in 0 .. MaxStalls
  BY MediaAssumption DEF Job
<1>2. QED
  BY <1>1 DEF AfterStall, Job

(* A job whose record changes without becoming new, losing its upload, or  *)
(* getting an owner or attempts it may not have.                           *)
LegalChange(j, new) ==
    /\ new \in Job
    /\ new.upload = jobs[j].upload
    /\ new.state # "none"
    /\ new.owner # NoWorker => new.state = "active"
    /\ new.state \in {"waiting", "active"} => new.attempts < MaxAttempts
    /\ jobs' = [jobs EXCEPT ![j] = new]
    /\ UNCHANGED nextJob

LEMMA LegalChangeKeepsJobs ==
    ASSUME TypeOK, JobInv, NEW j \in JobIds, j < nextJob, NEW new, LegalChange(j, new)
    PROVE  /\ JobType'
           /\ JobInv'
           /\ \A i \in JobIds : jobs'[i].upload = jobs[i].upload
<1>1. jobs'[j] = new /\ \A i \in JobIds \ {j} : jobs'[i] = jobs[i]
  BY DEF LegalChange, TypeOK
<1>2. JobType'
  BY DEF LegalChange, TypeOK, JobType
<1>3. JobInv'
  <2> SUFFICES ASSUME NEW i \in JobIds
               PROVE  /\ i < nextJob' <=> jobs'[i].state # "none"
                      /\ i < nextJob' => jobs'[i].upload \in Upload
                      /\ jobs'[i].owner # NoWorker => jobs'[i].state = "active"
                      /\ jobs'[i].state \in {"waiting", "active"} =>
                            jobs'[i].attempts < MaxAttempts
    BY DEF JobInv
  <2>1. CASE i = j
    BY <1>1, <2>1 DEF LegalChange, JobInv
  <2>2. CASE i # j
    BY <1>1, <2>2 DEF LegalChange, JobInv
  <2>3. QED
    BY <2>1, <2>2
<1>4. QED
  BY <1>1, <1>2, <1>3 DEF LegalChange

(* The jobs steps of the pipeline are legal changes. *)
LEMMA TakeJob ==
    ASSUME TypeOK, JobInv, NEW w \in Workers, NEW j \in JobIds, Take(w, j)
    PROVE  j < nextJob /\ \E new : LegalChange(j, new) /\ new.state = "active"
<1> DEFINE new == [jobs[j] EXCEPT !.state = "active", !.owner = w]
<1>1. jobs[j] \in Job /\ jobs[j].state = "waiting"
  BY DEF TypeOK, Take
<1>2. new \in Job /\ new.state = "active" /\ new.upload = jobs[j].upload
        /\ new.attempts = jobs[j].attempts
  BY <1>1 DEF Job
<1>3. jobs' = [jobs EXCEPT ![j] = new] /\ nextJob' = nextJob
  BY DEF Take, TypeOK
<1>4. j < nextJob /\ jobs[j].attempts < MaxAttempts
  BY <1>1 DEF JobInv
<1>5. LegalChange(j, new)
  BY <1>2, <1>3, <1>4 DEF LegalChange
<1>6. QED
  BY <1>2, <1>4, <1>5

LEMMA FinishJob ==
    ASSUME TypeOK, PipelineInv, NEW w \in Workers, Finish(w), Owns(w)
    PROVE  \E new : /\ LegalChange(work[w].job, new)
                    /\ new.state = "completed"
                    /\ new.result = work[w].verdict
<1> DEFINE j == work[w].job
           new == [jobs[j] EXCEPT !.state = "completed", !.owner = NoWorker,
                                  !.result = work[w].verdict]
<1>1. j \in JobIds /\ jobs[j] \in Job /\ work[w].verdict \in Verdicts \cup {NoResult}
  BY CurrentIsUpload DEF Finish, At, TypeOK
<1>2. new \in Job /\ new.state = "completed" /\ new.upload = jobs[j].upload
        /\ new.owner = NoWorker /\ new.result = work[w].verdict
  BY <1>1 DEF Job
<1>3. jobs' = [jobs EXCEPT ![j] = new] /\ nextJob' = nextJob
  BY <1>1 DEF Finish, TypeOK
<1>4. LegalChange(j, new)
  BY <1>2, <1>3 DEF LegalChange
<1>5. QED
  BY <1>2, <1>4

LEMMA ThrowJob ==
    ASSUME TypeOK, PipelineInv, NEW w \in Workers, Throw(w), Owns(w)
    PROVE  \E new : /\ LegalChange(work[w].job, new)
                    /\ new.state \in {"waiting", "failed"}
<1> DEFINE j == work[w].job
<1>1. j \in JobIds /\ jobs[j] \in Job
  BY CurrentIsUpload DEF Throw
<1>2. jobs[j].attempts < MaxAttempts
  BY <1>1, MediaAssumption DEF PipelineInv, JobInv, Owns
<1>3. jobs' = [jobs EXCEPT ![j] = AfterThrow(jobs[j])] /\ nextJob' = nextJob
  BY DEF Throw
<1>4. LegalChange(j, AfterThrow(jobs[j]))
  BY <1>1, <1>2, <1>3, AfterThrowType DEF LegalChange
<1>5. QED
  BY <1>1, <1>2, <1>4, AfterThrowType

LEMMA StallJob ==
    ASSUME TypeOK, PipelineInv, NEW j \in JobIds, Stall(j)
    PROVE  j < nextJob /\ \E new : /\ LegalChange(j, new)
                                   /\ new.state \in {"waiting", "failed"}
<1>1. jobs[j] \in Job /\ jobs[j].state = "active"
  BY DEF TypeOK, Stall
<1>2. j < nextJob /\ jobs[j].attempts < MaxAttempts
  BY <1>1 DEF PipelineInv, JobInv
<1>3. jobs' = [jobs EXCEPT ![j] = AfterStall(jobs[j])] /\ nextJob' = nextJob
  BY DEF Stall
<1>4. LegalChange(j, AfterStall(jobs[j]))
  BY <1>1, <1>2, <1>3, AfterStallType DEF LegalChange
<1>5. QED
  BY <1>1, <1>2, <1>4, AfterStallType

-----------------------------------------------------------------------------
(* What no step takes back: jobs keep their upload, verdicts stay, what is *)
(* public stays public, what is before a moderator stays there.            *)
Monotone ==
    /\ \A j \in JobIds : j < nextJob => j < nextJob' /\ jobs'[j].upload = jobs[j].upload
    /\ cleared \subseteq cleared'
    /\ moderation \subseteq moderation'
    /\ \A m \in Media : public[m] # NoKey => public'[m] # NoKey

LEMMA OtherWorkers ==
    ASSUME TypeOK, PipelineInv, Monotone, NEW w \in Workers, work'[w] = work[w]
    PROVE  WorkInv(w)'
<1>1. CASE At(w, "idle")
  BY <1>1 DEF WorkInv, At
<1>2. CASE ~At(w, "idle")
  <2>1. PICK j \in JobIds : j = work[w].job
    BY <1>2, CurrentIsUpload
  <2>2. /\ j < nextJob'
        /\ Current(w) = jobs[j].upload
        /\ Current(w)' = jobs[j].upload
        /\ jobs[j].upload.media \in Media
    BY <1>2, <2>1, CurrentIsUpload DEF Monotone, Current
  <2>3. WorkInv(w)
    BY DEF PipelineInv
  <2>4. QED
    BY <1>2, <2>1, <2>2, <2>3 DEF WorkInv, At, Monotone
<1>3. QED
  BY <1>1, <1>2

(* Completed jobs stay carried out; a job that becomes completed must be.  *)
LEMMA CompletedStays ==
    ASSUME TypeOK, PipelineInv, Monotone,
           \A j \in JobIds : jobs'[j].state = "completed" =>
              /\ jobs[j].state = "completed"
              /\ jobs'[j].upload = jobs[j].upload
              /\ jobs'[j].result = jobs[j].result
    PROVE  CompletedJobsAreCarriedOut'
<1> SUFFICES ASSUME NEW j \in JobIds, jobs'[j].state = "completed"
             PROVE  IF jobs'[j].result = "clean"
                    THEN public'[jobs'[j].upload.media] # NoKey
                    ELSE jobs'[j].upload.media \in moderation'
  BY DEF CompletedJobsAreCarriedOut
<1>1. IF jobs[j].result = "clean"
      THEN public[jobs[j].upload.media] # NoKey
      ELSE jobs[j].upload.media \in moderation
  BY DEF PipelineInv, CompletedJobsAreCarriedOut
<1>2. jobs[j].upload.media \in Media
  BY DEF PipelineInv, JobInv, Upload
<1>3. QED
  BY <1>1, <1>2 DEF Monotone

(* Steps of the API. *)
LEMMA ApiStep ==
    ASSUME TypeOK, PipelineInv,
           \/ \E m \in Media, k \in Keys :
                 InitUpload(m, k) \/ \E h \in Handlers : CompleteUpload(h, m, k)
           \/ \E h \in Handlers : Enqueue(h) \/ UploadAborted(h)
    PROVE  TypeOK' /\ PipelineInv'
<1> USE MediaAssumption
<1>1. ASSUME NEW m \in Media, NEW k \in Keys,
             InitUpload(m, k) \/ \E h \in Handlers : CompleteUpload(h, m, k)
      PROVE  TypeOK' /\ PipelineInv'
  <2>1. /\ rows' = [rows EXCEPT ![m] = [status |-> "PENDING", key |-> k]]
        /\ UNCHANGED <<public, moderation, jobs, nextJob, work, cleared>>
    BY <1>1 DEF InitUpload, CompleteUpload
  <2>2. uploads' \in [Handlers -> Upload \cup {NoUpload}] /\ unqueued' \subseteq Media
    <3>1. [media |-> m, key |-> k] \in Upload
      BY DEF Upload
    <3>2. QED
      BY <1>1, <3>1 DEF InitUpload, CompleteUpload, TypeOK
  <2>3. TypeOK'
    BY <2>1, <2>2 DEF TypeOK
  <2>4. JobInv' /\ \A w \in Workers : WorkInv(w)'
    BY <2>1 DEF PipelineInv, JobInv, WorkInv, At, Current
  <2>5. CompletedJobsAreCarriedOut' /\ OkWasCleared'
    BY <2>1 DEF PipelineInv, CompletedJobsAreCarriedOut, OkWasCleared, TypeOK
  <2>6. QED
    BY <2>3, <2>4, <2>5 DEF PipelineInv
<1>2. ASSUME NEW h \in Handlers, Enqueue(h)
      PROVE  TypeOK' /\ PipelineInv'
  <2>1. PICK n \in JobIds : n = nextJob /\ nextJob' = n + 1
    BY <1>2 DEF Enqueue
  <2>2. PICK new : new = NewJob(uploads[h])
    OBVIOUS
  <2>3. /\ uploads[h] \in Upload
        /\ new.upload = uploads[h] /\ new.state = "waiting" /\ new.owner = NoWorker
        /\ new.attempts = 0 /\ new \in Job
    <3>1. uploads[h] \in Upload
      BY <1>2 DEF Enqueue, TypeOK
    <3>2. QED
      BY <2>2, <3>1 DEF NewJob, Job
  <2>4. jobs' = [jobs EXCEPT ![n] = new]
    BY <1>2, <2>1, <2>2 DEF Enqueue
  <2>5. jobs'[n] = new /\ \A j \in JobIds \ {n} : jobs'[j] = jobs[j]
    BY <2>4 DEF TypeOK
  <2>6. TypeOK'
    <3>1. jobs' \in [JobIds -> Job]
      BY <2>3, <2>4 DEF TypeOK
    <3>2. nextJob' \in 1 .. MaxJobs + 1
      BY <2>1 DEF JobIds
    <3>3. uploads' \in [Handlers -> Upload \cup {NoUpload}]
      BY <1>2 DEF Enqueue, TypeOK
    <3>4. QED
      BY <1>2, <3>1, <3>2, <3>3 DEF Enqueue, TypeOK
  <2>7. JobInv'
    BY <2>1, <2>3, <2>5 DEF PipelineInv, JobInv, JobIds
  <2>8. Monotone
    <3>1. UNCHANGED <<public, moderation, cleared>>
      BY <1>2 DEF Enqueue
    <3>2. \A j \in JobIds : j < n => j < n + 1 /\ j # n
      BY DEF JobIds
    <3>3. QED
      BY <2>1, <2>5, <3>1, <3>2 DEF Monotone
  <2>9. CompletedJobsAreCarriedOut'
    BY <2>3, <2>5, <2>8, CompletedStays
  <2>10. \A w \in Workers : WorkInv(w)'
    BY <1>2, <2>8, OtherWorkers DEF Enqueue
  <2>11. OkWasCleared'
    BY <1>2 DEF Enqueue, PipelineInv, OkWasCleared
  <2>12. QED
    BY <2>6, <2>7, <2>9, <2>10, <2>11 DEF PipelineInv
<1>3. ASSUME NEW h \in Handlers, UploadAborted(h)
      PROVE  TypeOK' /\ PipelineInv'
  <2>1. uploads[h] \in Upload /\ uploads[h].media \in Media
    BY <1>3 DEF UploadAborted, TypeOK, Upload
  <2>2. QED
    BY <1>3, <2>1 DEF UploadAborted, TypeOK, PipelineInv, JobInv, WorkInv, At, Current,
       CompletedJobsAreCarriedOut, OkWasCleared
<1>4. QED
  BY <1>1, <1>2, <1>3

(* Steps by which a job changes hands or comes to an end. *)
LEMMA QueueStep ==
    ASSUME TypeOK, PipelineInv,
           \/ \E w \in Workers, j \in JobIds : Take(w, j)
           \/ \E j \in JobIds : Stall(j)
           \/ \E w \in Workers : Finish(w) \/ Throw(w) \/ Die(w)
    PROVE  TypeOK' /\ PipelineInv'
<1> USE MediaAssumption
<1>1. UNCHANGED <<rows, public, moderation, uploads, unqueued, nextJob, cleared>>
  BY DEF Take, Stall, Finish, Throw, Die
<1>2. ASSUME JobType', JobInv', WorkType',
             \A j \in JobIds : jobs'[j].upload = jobs[j].upload,
             CompletedJobsAreCarriedOut',
             \A w \in Workers : work'[w] # work[w] => WorkInv(w)'
      PROVE  TypeOK' /\ PipelineInv'
  <2>1. Monotone
    BY <1>1, <1>2 DEF Monotone
  <2>2. \A w \in Workers : WorkInv(w)'
    BY <1>2, <2>1, OtherWorkers
  <2>3. OkWasCleared'
    BY <1>1 DEF PipelineInv, OkWasCleared
  <2>4. TypeOK'
    BY <1>1, <1>2 DEF TypeOK, JobType, WorkType
  <2>5. QED
    BY <1>2, <2>2, <2>3, <2>4 DEF PipelineInv
<1>3. ASSUME \A j \in JobIds : jobs'[j].upload = jobs[j].upload,
             \A j \in JobIds : jobs'[j].state = "completed" => jobs'[j] = jobs[j]
      PROVE  CompletedJobsAreCarriedOut'
  <2>1. Monotone
    BY <1>1, <1>3 DEF Monotone
  <2>2. QED
    BY <1>3, <2>1, CompletedStays
<1>4. ASSUME jobs' = jobs
      PROVE  JobType' /\ JobInv' /\ CompletedJobsAreCarriedOut'
  BY <1>1, <1>3, <1>4 DEF TypeOK, PipelineInv, JobInv, JobType
<1>5. ASSUME NEW w \in Workers, work' = [work EXCEPT ![w] = Idle]
      PROVE  WorkType' /\ \A v \in Workers : work'[v] # work[v] => WorkInv(v)'
  BY <1>5 DEF TypeOK, WorkType, Idle, WorkInv, At
<1>6. ASSUME NEW w \in Workers, NEW j \in JobIds, Take(w, j)
      PROVE  TypeOK' /\ PipelineInv'
  <2>1. JobInv
    BY DEF PipelineInv
  <2>2. j < nextJob
    BY <1>6, <2>1, TakeJob
  <2>3. PICK new : LegalChange(j, new) /\ new.state = "active"
    BY <1>6, <2>1, TakeJob
  <2>4. JobType' /\ JobInv' /\ \A i \in JobIds : jobs'[i].upload = jobs[i].upload
    BY <2>1, <2>2, <2>3, LegalChangeKeepsJobs
  <2>5. \A i \in JobIds : jobs'[i].state = "completed" => jobs'[i] = jobs[i]
    BY <2>3 DEF LegalChange, TypeOK
  <2>6. /\ work'[w] = [pc |-> "scan", job |-> j, verdict |-> NoResult]
        /\ \A v \in Workers \ {w} : work'[v] = work[v]
        /\ WorkType'
    BY <1>6 DEF Take, TypeOK, WorkType
  <2>7. WorkInv(w)'
    BY <1>1, <2>2, <2>6 DEF WorkInv, At
  <2>8. QED
    BY <1>2, <1>3, <2>4, <2>5, <2>6, <2>7
<1>7. ASSUME NEW j \in JobIds, Stall(j)
      PROVE  TypeOK' /\ PipelineInv'
  <2>1. JobInv /\ j < nextJob
    BY <1>7, StallJob DEF PipelineInv
  <2>2. PICK new : LegalChange(j, new) /\ new.state \in {"waiting", "failed"}
    BY <1>7, StallJob
  <2>3. JobType' /\ JobInv' /\ \A i \in JobIds : jobs'[i].upload = jobs[i].upload
    BY <2>1, <2>2, LegalChangeKeepsJobs
  <2>4. \A i \in JobIds : jobs'[i].state = "completed" => jobs'[i] = jobs[i]
    BY <2>2 DEF LegalChange, TypeOK
  <2>5. work' = work /\ WorkType'
    BY <1>7 DEF Stall, TypeOK, WorkType
  <2>6. QED
    BY <1>2, <1>3, <2>3, <2>4, <2>5
<1>8. ASSUME NEW w \in Workers, Die(w)
      PROVE  TypeOK' /\ PipelineInv'
  BY <1>8, <1>2, <1>4, <1>5 DEF Die
<1>9. ASSUME NEW w \in Workers, Throw(w)
      PROVE  TypeOK' /\ PipelineInv'
  <2>1. work' = [work EXCEPT ![w] = Idle]
    BY <1>9 DEF Throw
  <2>2. CASE ~Owns(w)
    BY <1>9, <2>1, <2>2, <1>2, <1>4, <1>5 DEF Throw
  <2>3. CASE Owns(w)
    <3>1. JobInv /\ work[w].job \in JobIds /\ work[w].job < nextJob
      BY <1>9, CurrentIsUpload DEF Throw, PipelineInv
    <3>2. PICK new : LegalChange(work[w].job, new) /\ new.state \in {"waiting", "failed"}
      BY <1>9, <2>3, ThrowJob
    <3>3. JobType' /\ JobInv' /\ \A i \in JobIds : jobs'[i].upload = jobs[i].upload
      BY <3>1, <3>2, LegalChangeKeepsJobs
    <3>4. \A i \in JobIds : jobs'[i].state = "completed" => jobs'[i] = jobs[i]
      BY <3>1, <3>2 DEF LegalChange, TypeOK
    <3>5. QED
      BY <2>1, <1>2, <1>3, <1>5, <3>3, <3>4
  <2>4. QED
    BY <2>2, <2>3
<1>10. ASSUME NEW w \in Workers, Finish(w)
       PROVE  TypeOK' /\ PipelineInv'
  <2>1. work' = [work EXCEPT ![w] = Idle]
    BY <1>10 DEF Finish
  <2>2. CASE ~Owns(w)
    BY <1>10, <2>1, <2>2, <1>2, <1>4, <1>5 DEF Finish
  <2>3. CASE Owns(w)
    <3>1. PICK j \in JobIds : j = work[w].job
      BY <1>10, CurrentIsUpload DEF Finish, At
    <3>2. JobInv /\ j < nextJob
      BY <1>10, <3>1, CurrentIsUpload DEF Finish, At, PipelineInv
    <3>3. PICK new : /\ LegalChange(j, new)
                     /\ new.state = "completed"
                     /\ new.result = work[w].verdict
      BY <1>10, <2>3, <3>1, FinishJob
    <3>4. JobType' /\ JobInv' /\ \A i \in JobIds : jobs'[i].upload = jobs[i].upload
      BY <3>2, <3>3, LegalChangeKeepsJobs
    <3>5. jobs'[j] = new /\ \A i \in JobIds \ {j} : jobs'[i] = jobs[i]
      BY <3>3 DEF LegalChange, TypeOK
    <3>6. IF new.result = "clean"
          THEN public[new.upload.media] # NoKey
          ELSE new.upload.media \in moderation
      <4>1. WorkInv(w) /\ At(w, "finish") /\ ~At(w, "idle")
        BY <1>10 DEF Finish, PipelineInv, At
      <4>2. new.upload = Current(w)
        BY <3>1, <3>3 DEF LegalChange, Current
      <4>3. QED
        BY <3>3, <4>1, <4>2 DEF WorkInv
    <3>7. CompletedJobsAreCarriedOut'
      BY <1>1, <3>5, <3>6 DEF PipelineInv, CompletedJobsAreCarriedOut
    <3>8. QED
      BY <2>1, <1>2, <1>5, <3>4, <3>7
  <2>4. QED
    BY <2>2, <2>3
<1>11. QED
  BY <1>6, <1>7, <1>8, <1>9, <1>10

(* Statements of the job handler: they write the tables, never the queue. *)
LEMMA WorkStep ==
    ASSUME TypeOK, PipelineInv, NEW w \in Workers,
           \/ \E verdict \in Verdicts : Scan(w, verdict)
           \/ Record(w)
           \/ Promote(w)
           \/ Moderate(w)
    PROVE  TypeOK' /\ PipelineInv'
<1>1. PICK j \in JobIds : j = work[w].job
  BY CurrentIsUpload DEF Scan, Record, Promote, Moderate, At
<1>2. PICK m \in Media, k \in Keys :
         m = Current(w).media /\ k = Current(w).key /\ Current(w) = jobs[j].upload
  BY <1>1, CurrentIsUpload DEF Scan, Record, Promote, Moderate, At, Current
<1>3. j < nextJob
  BY <1>1, CurrentIsUpload DEF Scan, Record, Promote, Moderate, At
<1>4. UNCHANGED <<uploads, unqueued, jobs, nextJob>>
  BY DEF Scan, Record, Promote, Moderate
<1>5. WorkInv(w) /\ JobInv /\ CompletedJobsAreCarriedOut /\ OkWasCleared
  BY DEF PipelineInv
<1>6. JobInv'
  BY <1>4, <1>5 DEF JobInv
<1>7. ASSUME Monotone, work'[w].job = j, WorkInv(w)',
             \A v \in Workers \ {w} : work'[v] = work[v]
      PROVE  CompletedJobsAreCarriedOut' /\ \A v \in Workers : WorkInv(v)'
  <2>1. CompletedJobsAreCarriedOut'
    BY <1>4, <1>7, CompletedStays
  <2>2. \A v \in Workers \ {w} : WorkInv(v)'
    BY <1>7, OtherWorkers
  <2>3. QED
    BY <1>7, <2>1, <2>2
<1>8. ASSUME NEW verdict \in Verdicts, Scan(w, verdict)
      PROVE  TypeOK' /\ PipelineInv'
  <2>1. /\ work'[w] = [pc |-> "record", job |-> j, verdict |-> verdict]
        /\ \A v \in Workers \ {w} : work'[v] = work[v]
        /\ WorkType'
    BY <1>1, <1>8 DEF Scan, TypeOK, WorkType
  <2>2. cleared' = IF verdict = "clean" THEN cleared \cup {<<m, k>>} ELSE cleared
    BY <1>2, <1>8 DEF Scan
  <2>3. Monotone
    BY <1>4, <1>8, <2>2 DEF Monotone, Scan
  <2>4. WorkInv(w)'
    BY <1>2, <1>3, <1>4, <2>1, <2>2 DEF WorkInv, At, Current, Verdicts, NoResult
  <2>5. TypeOK'
    <3>1. cleared' \subseteq Media \X Keys
      BY <2>2 DEF TypeOK
    <3>2. QED
      BY <1>4, <1>8, <2>1, <3>1 DEF Scan, TypeOK, WorkType
  <2>6. OkWasCleared'
    BY <1>5, <1>8, <2>2 DEF Scan, OkWasCleared
  <2>7. QED
    BY <1>6, <1>7, <2>1, <2>3, <2>4, <2>5, <2>6 DEF PipelineInv
<1>9. ASSUME NEW pc \in {"promote", "moderate", "finish"}, Goto(w, pc)
      PROVE  /\ work'[w] = [pc |-> pc, job |-> j, verdict |-> work[w].verdict]
             /\ \A v \in Workers \ {w} : work'[v] = work[v]
             /\ WorkType'
  BY <1>1, <1>9 DEF Goto, TypeOK, WorkType
<1>10. ASSUME Record(w)
       PROVE  TypeOK' /\ PipelineInv'
  <2>1. PICK s \in {"OK", "BLOCKED", "QUARANTINED"} :
           /\ s = StatusFor(work[w].verdict)
           /\ s = "OK" => work[w].verdict = "clean"
    BY DEF StatusFor
  <2>2. rows' = [rows EXCEPT ![m].status = s]
    BY <1>2, <1>10, <2>1 DEF Record
  <2>3. PICK pc \in {"promote", "moderate"} :
           /\ Goto(w, pc)
           /\ pc = "promote" <=> work[w].verdict = "clean"
    BY <1>10 DEF Record, NextStep
  <2>4. UNCHANGED <<public, moderation, cleared>>
    BY <1>10 DEF Record
  <2>5. Monotone
    BY <1>4, <2>4 DEF Monotone
  <2>6. WorkInv(w)'
    <3>1. /\ work[w].verdict # NoResult
          /\ work[w].verdict = "clean" => <<m, k>> \in cleared
      BY <1>2, <1>5, <1>10 DEF WorkInv, Record, At
    <3>2. work'[w] = [pc |-> pc, job |-> j, verdict |-> work[w].verdict]
      BY <1>9, <2>3
    <3>3. Current(w)' = jobs[j].upload
      BY <1>4, <3>2 DEF Current
    <3>4. QED
      BY <1>2, <1>3, <1>4, <2>3, <2>4, <3>1, <3>2, <3>3 DEF WorkInv, At
  <2>7. TypeOK'
    BY <1>4, <1>9, <2>2, <2>3, <2>4 DEF TypeOK, WorkType
  <2>8. OkWasCleared'
    <3>1. s = "OK" => <<m, k>> \in cleared
      BY <1>2, <1>5, <1>10, <2>1 DEF WorkInv, Record, At
    <3>2. QED
      BY <1>5, <2>2, <2>4, <3>1 DEF OkWasCleared, TypeOK
  <2>9. QED
    BY <1>6, <1>7, <1>9, <2>3, <2>5, <2>6, <2>7, <2>8 DEF PipelineInv
<1>11. ASSUME Promote(w)
       PROVE  TypeOK' /\ PipelineInv'
  <2>1. public' = [public EXCEPT ![m] = k]
    BY <1>2, <1>11 DEF Promote, PromotedKey
  <2>2. UNCHANGED <<rows, moderation, cleared>> /\ Goto(w, "finish")
    BY <1>11 DEF Promote
  <2>3. Monotone
    BY <1>4, <2>1, <2>2, MediaAssumption DEF Monotone, TypeOK
  <2>4. work[w].verdict = "clean" /\ <<m, k>> \in cleared
    BY <1>2, <1>5, <1>11 DEF Promote, WorkInv, At
  <2>5. public'[m] # NoKey
    BY <2>1, MediaAssumption DEF TypeOK
  <2>6. WorkInv(w)'
    BY <1>2, <1>3, <1>4, <1>9, <2>2, <2>4, <2>5 DEF WorkInv, At, Current, NoResult
  <2>7. TypeOK'
    BY <1>4, <1>9, <2>1, <2>2 DEF TypeOK, WorkType
  <2>8. OkWasCleared'
    BY <1>5, <2>2 DEF OkWasCleared
  <2>9. QED
    BY <1>6, <1>7, <1>9, <2>2, <2>3, <2>6, <2>7, <2>8 DEF PipelineInv
<1>12. ASSUME Moderate(w)
       PROVE  TypeOK' /\ PipelineInv'
  <2>1. moderation' = moderation \cup {m}
    BY <1>2, <1>12 DEF Moderate
  <2>2. UNCHANGED <<rows, public, cleared>> /\ Goto(w, "finish")
    BY <1>12 DEF Moderate
  <2>3. Monotone
    BY <1>4, <2>1, <2>2 DEF Monotone
  <2>4. work[w].verdict # "clean" /\ work[w].verdict # NoResult
    BY <1>5, <1>12 DEF Moderate, WorkInv, At
  <2>5. WorkInv(w)'
    BY <1>2, <1>3, <1>4, <1>9, <2>1, <2>2, <2>4 DEF WorkInv, At, Current
  <2>6. TypeOK'
    BY <1>4, <1>9, <2>1, <2>2 DEF TypeOK, WorkType
  <2>7. OkWasCleared'
    BY <1>5, <2>2 DEF OkWasCleared
  <2>8. QED
    BY <1>6, <1>7, <1>9, <2>2, <2>3, <2>5, <2>6, <2>7 DEF PipelineInv
<1>13. QED
  BY <1>8, <1>10, <1>11, <1>12

-----------------------------------------------------------------------------

LEMMA InitInv == Init => TypeOK /\ PipelineInv
<1> SUFFICES ASSUME Init PROVE TypeOK /\ PipelineInv
  OBVIOUS
<1> USE MediaAssumption
<1>1. NoJob \in Job
  BY DEF NoJob, Job
<1>2. Idle \in [pc : {"idle", "scan", "record", "promote", "moderate", "finish"},
                job : {0} \cup JobIds,
                verdict : Verdicts \cup {NoResult}]
  BY DEF Idle
<1>3. nextJob \in 1 .. MaxJobs + 1
  BY DEF Init
<1>4. TypeOK
  BY <1>1, <1>2, <1>3 DEF Init, TypeOK
<1>5. JobInv
  BY DEF Init, JobInv, NoJob, JobIds
<1>6. \A w \in Workers : WorkInv(w)
  BY DEF Init, WorkInv, At, Idle
<1>7. CompletedJobsAreCarriedOut /\ OkWasCleared
  BY DEF Init, CompletedJobsAreCarriedOut, OkWasCleared, NoJob
<1>8. QED
  BY <1>4, <1>5, <1>6, <1>7 DEF PipelineInv

LEMMA StepInv == TypeOK /\ PipelineInv /\ [Next]_vars => TypeOK' /\ PipelineInv'
<1> SUFFICES ASSUME TypeOK, PipelineInv, [Next]_vars PROVE TypeOK' /\ PipelineInv'
  OBVIOUS
<1>1. CASE \/ \E m \in Media, k \in Keys :
                 InitUpload(m, k) \/ \E h \in Handlers : CompleteUpload(h, m, k)
           \/ \E h \in Handlers : Enqueue(h) \/ UploadAborted(h)
  BY <1>1, ApiStep
<1>2. CASE \/ \E w \in Workers, j \in JobIds : Take(w, j)
           \/ \E j \in JobIds : Stall(j)
           \/ \E w \in Workers : Finish(w) \/ Throw(w) \/ Die(w)
  BY <1>2, QueueStep
<1>3. CASE \E w \in Workers : \/ \E verdict \in Verdicts : Scan(w, verdict)
                              \/ Record(w)
                              \/ Promote(w)
                              \/ Moderate(w)
  BY <1>3, WorkStep
<1>4. CASE UNCHANGED vars
  BY <1>4 DEF vars, TypeOK, PipelineInv, JobInv, WorkInv, At, Current,
     CompletedJobsAreCarriedOut, OkWasCleared
<1>5. QED
  BY <1>1, <1>2, <1>3, <1>4 DEF Next, Step

LEMMA Inductive == Spec => [](TypeOK /\ PipelineInv)
BY InitInv, StepInv, PTL DEF Spec

(* Every variable of the pipeline keeps its type. *)
THEOREM TypeCorrect == Spec => []TypeOK
BY Inductive, PTL

(* A job BullMQ reports as completed has been carried out: its media is    *)
(* public after a clean verdict and before a moderator after another one.  *)
THEOREM CompletedCarriedOut == Spec => []CompletedJobsAreCarriedOut
<1>1. TypeOK /\ PipelineInv => CompletedJobsAreCarriedOut
  BY DEF PipelineInv
<1>2. QED
  BY <1>1, Inductive, PTL

(* scanStatus OK always goes back to a clean verdict on an object that the *)
(* media was completed with.                                               *)
THEOREM OkCleared == Spec => []OkWasCleared
<1>1. TypeOK /\ PipelineInv => OkWasCleared
  BY DEF PipelineInv
<1>2. QED
  BY <1>1, Inductive, PTL

(* Every step of the pipeline is a step of the scan gate or leaves its     *)
(* variables alone: only Scan clears and only Promote publishes.           *)
LEMMA GateStep ==
    ASSUME TypeOK, PipelineInv, [Next]_vars
    PROVE  [Gate!GateNext]_(Gate!gateVars)
<1>1. ASSUME NEW w \in Workers, NEW verdict \in Verdicts, Scan(w, verdict)
      PROVE  [Gate!GateNext]_(Gate!gateVars)
  <2>1. PICK m \in Media, k \in Keys : m = Current(w).media /\ k = Current(w).key
    BY <1>1, CurrentIsUpload DEF Scan, At
  <2>2. CASE verdict = "clean"
    <3>1. Gate!Clear(m, k)
      BY <1>1, <2>1, <2>2 DEF Scan, Gate!Clear
    <3>2. QED
      BY <3>1 DEF Gate!GateNext
  <2>3. CASE verdict # "clean"
    BY <1>1, <2>3 DEF Scan, Gate!gateVars
  <2>4. QED
    BY <2>2, <2>3
<1>2. ASSUME NEW w \in Workers, Promote(w)
      PROVE  [Gate!GateNext]_(Gate!gateVars)
  <2>1. PICK m \in Media, k \in Keys : m = Current(w).media /\ k = Current(w).key
    BY <1>2, CurrentIsUpload DEF Promote, At
  <2>2. <<m, k>> \in cleared
    BY <1>2, <2>1 DEF Promote, PipelineInv, WorkInv, At
  <2>3. Gate!Publish(m, k)
    BY <1>2, <2>1, <2>2 DEF Promote, PromotedKey, Gate!Publish
  <2>4. QED
    BY <2>3 DEF Gate!GateNext
<1>3. CASE UNCHANGED <<cleared, public>>
  BY <1>3 DEF Gate!gateVars
<1>4. QED
  BY <1>1, <1>2, <1>3 DEF Next, Step, vars, InitUpload, CompleteUpload, Enqueue,
     UploadAborted, Record, Moderate, Finish, Throw, Die, Take, Stall

(* Whatever jobs, retries and stalled workers ran, an object is public     *)
(* only after the scanner called that very staging object clean.           *)
THEOREM PipelineImplementsGate == Spec => ImplementsScanGate
<1>1. Init => Gate!GateInit
  BY DEF Init, Gate!GateInit
<1>2. TypeOK /\ PipelineInv /\ [Next]_vars => [Gate!GateNext]_(Gate!gateVars)
  BY GateStep
<1>3. QED
  BY <1>1, <1>2, Inductive, PTL DEF Spec, ImplementsScanGate, Gate!GateSpec

-----------------------------------------------------------------------------
(* Why a PENDING row is not forgotten.  A job still has to write the status *)
(* unless the worker that holds it has written it already, since the row   *)
(* was last set to PENDING or before.                                      *)
Unrecorded(j) ==
    \/ jobs[j].state \in {"waiting", "failed"}
    \/ /\ jobs[j].state = "active"
       /\ \A w \in Workers :
             work[w].job = j /\ jobs[j].owner = w => work[w].pc \in {"idle", "scan", "record"}

OnItsWay(m) ==
    \/ m \in unqueued
    \/ \E h \in Handlers : uploads[h] # NoUpload /\ uploads[h].media = m
    \/ \E j \in JobIds : j < nextJob /\ jobs[j].upload.media = m /\ Unrecorded(j)

PendingInv == \A m \in Media : rows[m].status = "PENDING" => OnItsWay(m)

LEMMA JobOnItsWay ==
    ASSUME NEW m \in Media, OnItsWay(m), UNCHANGED <<uploads, unqueued, nextJob>>,
           \A j \in JobIds : j < nextJob /\ jobs[j].upload.media = m /\ Unrecorded(j) =>
                              jobs'[j].upload = jobs[j].upload /\ Unrecorded(j)'
    PROVE  OnItsWay(m)'
<1>1. CASE m \in unqueued \/ \E h \in Handlers : uploads[h] # NoUpload /\ uploads[h].media = m
  BY <1>1 DEF OnItsWay
<1>2. CASE \E j \in JobIds : j < nextJob /\ jobs[j].upload.media = m /\ Unrecorded(j)
  <2>1. PICK j \in JobIds : j < nextJob /\ jobs[j].upload.media = m /\ Unrecorded(j)
    BY <1>2
  <2>2. j < nextJob' /\ jobs'[j].upload.media = m /\ Unrecorded(j)'
    BY <2>1
  <2>3. QED
    BY <2>2 DEF OnItsWay
<1>3. QED
  BY <1>1, <1>2 DEF OnItsWay

(* Statements of the API. *)
LEMMA ApiPending ==
    ASSUME TypeOK, PipelineInv, PendingInv,
           \/ \E m \in Media, k \in Keys :
                 InitUpload(m, k) \/ \E h \in Handlers : CompleteUpload(h, m, k)
           \/ \E h \in Handlers : Enqueue(h) \/ UploadAborted(h)
    PROVE  PendingInv'
<1> SUFFICES ASSUME NEW m \in Media, rows'[m].status = "PENDING" PROVE OnItsWay(m)'
  BY DEF PendingInv
<1> USE MediaAssumption
<1>1. ASSUME jobs' = jobs, work' = work, nextJob' = nextJob, OnItsWay(m),
             m \in unqueued => m \in unqueued',
             \A h \in Handlers : uploads[h] # NoUpload /\ uploads[h].media = m =>
                                 uploads'[h] = uploads[h] \/ m \in unqueued'
      PROVE  OnItsWay(m)'
  <2>1. \A j \in JobIds : Unrecorded(j) => Unrecorded(j)'
    BY <1>1 DEF Unrecorded
  <2>2. QED
    BY <1>1, <2>1 DEF OnItsWay
<1>2. ASSUME NEW n \in Media, NEW k \in Keys, InitUpload(n, k)
      PROVE  OnItsWay(m)'
  <2>1. CASE m = n
    BY <1>2, <2>1 DEF InitUpload, OnItsWay
  <2>2. CASE m # n
    BY <1>1, <1>2, <2>2 DEF InitUpload, TypeOK, PendingInv
  <2>3. QED
    BY <2>1, <2>2
<1>3. ASSUME NEW n \in Media, NEW k \in Keys, NEW h \in Handlers, CompleteUpload(h, n, k)
      PROVE  OnItsWay(m)'
  <2>1. CASE m = n
    <3>1. uploads'[h] = [media |-> n, key |-> k]
      BY <1>3 DEF CompleteUpload, TypeOK
    <3>2. uploads'[h] # NoUpload /\ uploads'[h].media = m
      BY <2>1, <3>1 DEF Upload
    <3>3. QED
      BY <3>2 DEF OnItsWay
  <2>2. CASE m # n
    <3>1. rows[m].status = "PENDING" /\ OnItsWay(m)
      BY <1>3, <2>2 DEF CompleteUpload, TypeOK, PendingInv
    <3>2. \A g \in Handlers : uploads[g] # NoUpload => uploads'[g] = uploads[g]
      BY <1>3 DEF CompleteUpload, TypeOK
    <3>3. QED
      BY <1>1, <1>3, <2>2, <3>1, <3>2 DEF CompleteUpload
  <2>3. QED
    BY <2>1, <2>2
<1>4. ASSUME NEW h \in Handlers, Enqueue(h)
      PROVE  OnItsWay(m)'
  <2>1. PICK n \in JobIds : n = nextJob /\ nextJob' = n + 1
    BY <1>4 DEF Enqueue
  <2>2. OnItsWay(m)
    BY <1>4 DEF Enqueue, PendingInv
  <2>3. jobs'[n] = NewJob(uploads[h]) /\ \A j \in JobIds \ {n} : jobs'[j] = jobs[j]
    BY <1>4, <2>1 DEF Enqueue, TypeOK
  <2>4. \A j \in JobIds : j < n => j < n + 1 /\ j # n
    BY DEF JobIds
  <2>5. CASE uploads[h].media = m
    <3>1. n < nextJob' /\ jobs'[n].upload.media = m /\ jobs'[n].state = "waiting"
      BY <2>1, <2>3, <2>5 DEF NewJob, JobIds
    <3>2. QED
      BY <3>1 DEF OnItsWay, Unrecorded
  <2>6. CASE m \in unqueued
    BY <1>4, <2>6 DEF Enqueue, OnItsWay
  <2>7. CASE \E g \in Handlers : g # h /\ uploads[g] # NoUpload /\ uploads[g].media = m
    BY <1>4, <2>7 DEF Enqueue, OnItsWay, TypeOK
  <2>8. CASE \E j \in JobIds : j < nextJob /\ jobs[j].upload.media = m /\ Unrecorded(j)
    <3>1. PICK j \in JobIds : j < nextJob /\ jobs[j].upload.media = m /\ Unrecorded(j)
      BY <2>8
    <3>2. j < nextJob' /\ jobs'[j] = jobs[j] /\ work' = work
      BY <1>4, <2>1, <2>3, <2>4, <3>1 DEF Enqueue
    <3>3. Unrecorded(j)'
      BY <3>1, <3>2 DEF Unrecorded
    <3>4. QED
      BY <3>1, <3>2, <3>3 DEF OnItsWay
  <2>9. QED
    BY <2>2, <2>5, <2>6, <2>7, <2>8 DEF OnItsWay
<1>5. ASSUME NEW h \in Handlers, UploadAborted(h)
      PROVE  OnItsWay(m)'
  <2>1. \A g \in Handlers : g # h => uploads'[g] = uploads[g]
    BY <1>5 DEF UploadAborted, TypeOK
  <2>2. QED
    BY <1>1, <1>5, <2>1 DEF UploadAborted, PendingInv
<1>6. QED
  BY <1>2, <1>3, <1>4, <1>5

(* Statements of the worker's handler. *)
LEMMA WorkPending ==
    ASSUME TypeOK, PipelineInv, PendingInv, NEW w \in Workers,
           \/ \E verdict \in Verdicts : Scan(w, verdict)
           \/ Record(w)
           \/ Promote(w)
           \/ Moderate(w)
    PROVE  PendingInv'
<1> SUFFICES ASSUME NEW m \in Media, rows'[m].status = "PENDING" PROVE OnItsWay(m)'
  BY DEF PendingInv
<1>1. UNCHANGED <<uploads, unqueued, nextJob, jobs>>
  BY DEF Scan, Record, Promote, Moderate
<1>2. PICK n \in Media : n = Current(w).media /\ Current(w) = jobs[work[w].job].upload
  BY CurrentIsUpload DEF Scan, Record, Promote, Moderate, At, Current
<1>3. /\ work'[w].job = work[w].job
      /\ \A v \in Workers \ {w} : work'[v] = work[v]
  BY DEF Scan, Record, Promote, Moderate, Goto, TypeOK
<1>4. CASE Record(w)
  <2>1. m # n
    <3>1. StatusFor(work[w].verdict) # "PENDING"
      BY DEF StatusFor
    <3>2. QED
      BY <1>2, <1>4, <3>1 DEF Record, TypeOK
  <2>2. OnItsWay(m)
    BY <1>2, <1>4, <2>1 DEF Record, TypeOK, PendingInv
  <2>3. \A j \in JobIds : j < nextJob /\ jobs[j].upload.media = m => j # work[w].job
    BY <1>2, <2>1
  <2>4. \A j \in JobIds : j # work[w].job /\ Unrecorded(j) => Unrecorded(j)'
    BY <1>1, <1>3 DEF Unrecorded
  <2>5. QED
    BY <1>1, <2>2, <2>3, <2>4, JobOnItsWay
<1>5. CASE ~Record(w)
  <2>1. OnItsWay(m)
    BY <1>5 DEF Scan, Promote, Moderate, PendingInv
  <2>2. work'[w].pc \in {"idle", "scan", "record"} \/ work[w].pc \notin {"idle", "scan", "record"}
    BY <1>5 DEF Scan, Promote, Moderate, At, TypeOK
  <2>3. \A j \in JobIds : Unrecorded(j) => Unrecorded(j)'
    BY <1>1, <1>3, <2>2 DEF Unrecorded
  <2>4. QED
    BY <1>1, <2>1, <2>3, JobOnItsWay
<1>6. QED
  BY <1>4, <1>5

(* Steps by which a job changes hands or comes to an end. *)
LEMMA QueuePending ==
    ASSUME TypeOK, PipelineInv, PendingInv,
           \/ \E w \in Workers, j \in JobIds : Take(w, j)
           \/ \E j \in JobIds : Stall(j)
           \/ \E w \in Workers : Finish(w) \/ Throw(w) \/ Die(w)
    PROVE  PendingInv'
<1> SUFFICES ASSUME NEW m \in Media, rows'[m].status = "PENDING" PROVE OnItsWay(m)'
  BY DEF PendingInv
<1>1. UNCHANGED <<rows, uploads, unqueued, nextJob>>
  BY DEF Take, Stall, Finish, Throw, Die
<1>2. OnItsWay(m)
  BY <1>1 DEF PendingInv
<1> SUFFICES ASSUME NEW j \in JobIds, j < nextJob, Unrecorded(j)
             PROVE  jobs'[j].upload = jobs[j].upload /\ Unrecorded(j)'
  BY <1>1, <1>2, JobOnItsWay
<1>3. jobs[j] \in Job /\ (jobs[j].owner # NoWorker => jobs[j].state = "active")
  BY DEF TypeOK, PipelineInv, JobInv
<1>4. ASSUME jobs'[j] = jobs[j],
             \A v \in Workers : work'[v] = work[v] \/ work'[v].job # j
                                 \/ work'[v].pc \in {"idle", "scan", "record"}
      PROVE  jobs'[j].upload = jobs[j].upload /\ Unrecorded(j)'
  BY <1>4 DEF Unrecorded
<1>5. ASSUME NEW w \in Workers, NEW i \in JobIds, Take(w, i)
      PROVE  jobs'[j].upload = jobs[j].upload /\ Unrecorded(j)'
  <2>1. /\ work'[w] = [pc |-> "scan", job |-> i, verdict |-> NoResult]
        /\ \A v \in Workers \ {w} : work'[v] = work[v]
    BY <1>5 DEF Take, TypeOK
  <2>2. CASE j # i
    BY <1>4, <1>5, <2>1, <2>2 DEF Take, TypeOK
  <2>3. CASE j = i
    <3>1. jobs'[j].owner = w /\ jobs'[j].state = "active" /\ jobs'[j].upload = jobs[j].upload
      BY <1>3, <1>5, <2>3 DEF Take, TypeOK, Job
    <3>2. QED
      BY <2>1, <3>1 DEF Unrecorded
  <2>4. QED
    BY <2>2, <2>3
<1>6. ASSUME NEW i \in JobIds, Stall(i)
      PROVE  jobs'[j].upload = jobs[j].upload /\ Unrecorded(j)'
  <2>1. CASE j # i
    BY <1>4, <1>6, <2>1 DEF Stall, TypeOK
  <2>2. CASE j = i
    <3>1. jobs'[j] = AfterStall(jobs[j])
      BY <1>6, <2>2 DEF Stall, TypeOK
    <3>2. jobs'[j].upload = jobs[j].upload /\ jobs'[j].state \in {"waiting", "failed"}
      BY <1>3, <3>1, AfterStallType
    <3>3. QED
      BY <3>2 DEF Unrecorded
  <2>3. QED
    BY <2>1, <2>2
<1>7. ASSUME NEW w \in Workers, work' = [work EXCEPT ![w] = Idle], jobs'[j] = jobs[j]
      PROVE  jobs'[j].upload = jobs[j].upload /\ Unrecorded(j)'
  BY <1>4, <1>7 DEF TypeOK, Idle
<1>8. ASSUME NEW w \in Workers, Finish(w)
      PROVE  jobs'[j].upload = jobs[j].upload /\ Unrecorded(j)'
  <2>1. Owns(w) => j # work[w].job
    <3> SUFFICES ASSUME j = work[w].job, jobs[j].owner = w PROVE FALSE
      BY DEF Owns
    <3>1. jobs[j].state = "active"
      BY <1>3, MediaAssumption
    <3>2. work[w].pc = "finish"
      BY <1>8 DEF Finish, At
    <3>3. QED
      BY <3>1, <3>2 DEF Unrecorded
  <2>2. jobs'[j] = jobs[j]
    BY <1>8, <2>1 DEF Finish, TypeOK
  <2>3. QED
    BY <1>7, <1>8, <2>2 DEF Finish
<1>9. ASSUME NEW w \in Workers, Throw(w)
      PROVE  jobs'[j].upload = jobs[j].upload /\ Unrecorded(j)'
  <2>1. CASE Owns(w) /\ j = work[w].job
    <3>1. jobs'[j] = AfterThrow(jobs[j])
      BY <1>9, <2>1 DEF Throw, TypeOK
    <3>2. jobs[j].attempts < MaxAttempts
      BY <1>3, <2>1, MediaAssumption DEF Owns, PipelineInv, JobInv
    <3>3. jobs'[j].upload = jobs[j].upload /\ jobs'[j].state \in {"waiting", "failed"}
      BY <1>3, <3>1, <3>2, AfterThrowType
    <3>4. QED
      BY <3>3 DEF Unrecorded
  <2>2. CASE ~(Owns(w) /\ j = work[w].job)
    <3>1. jobs'[j] = jobs[j]
      BY <1>9, <2>2 DEF Throw, TypeOK
    <3>2. QED
      BY <1>7, <1>9, <3>1 DEF Throw
  <2>3. QED
    BY <2>1, <2>2
<1>10. ASSUME NEW w \in Workers, Die(w)
       PROVE  jobs'[j].upload = jobs[j].upload /\ Unrecorded(j)'
  BY <1>7, <1>10 DEF Die
<1>11. QED
  BY <1>5, <1>6, <1>8, <1>9, <1>10

LEMMA PendingInductive == Spec => []PendingInv
<1>1. Init => PendingInv
  BY DEF Init, PendingInv
<1>2. TypeOK /\ PipelineInv /\ PendingInv /\ [Next]_vars => PendingInv'
  <2> SUFFICES ASSUME TypeOK, PipelineInv, PendingInv, [Next]_vars PROVE PendingInv'
    OBVIOUS
  <2>1. CASE UNCHANGED vars
    BY <2>1 DEF vars, PendingInv, OnItsWay, Unrecorded
  <2>2. CASE Next
    BY <2>2, ApiPending, WorkPending, QueuePending DEF Next, Step
  <2>3. QED
    BY <2>1, <2>2
<1>3. QED
  BY <1>1, <1>2, Inductive, PTL DEF Spec

(* A row stays PENDING only while its request or a job is still to write   *)
(* its status, after a job failed for good, or when a request died between *)
(* its two statements.                                                     *)
THEOREM PendingNotForgotten == Spec => []PendingIsOnItsWay
<1>1. TypeOK /\ PipelineInv /\ PendingInv => PendingIsOnItsWay
  <2> SUFFICES ASSUME TypeOK, PipelineInv, PendingInv, NEW m \in Media,
                      rows[m].status = "PENDING", m \notin unqueued,
                      NEW j \in JobIds, j < nextJob, jobs[j].upload.media = m, Unrecorded(j)
               PROVE  /\ jobs[j].upload # NoUpload
                      /\ jobs[j].state \in {"waiting", "active", "failed"}
    BY DEF PendingIsOnItsWay, PendingInv, OnItsWay
  <2>1. QED
    BY MediaAssumption DEF PipelineInv, JobInv, Upload, Unrecorded
<1>2. QED
  BY <1>1, Inductive, PendingInductive, PTL

-----------------------------------------------------------------------------
(* What the gate is for: what is public at this moment was called clean,   *)
(* the very staging object it was promoted from.  Shown of the abstract    *)
(* gate, and carried over to the pipeline.                                 *)
PublicWasCleared == \A m \in Media : public[m] # NoKey => <<m, public[m]>> \in cleared

LEMMA GateKeepsCleared == Gate!GateSpec => []PublicWasCleared
<1> DEFINE GateInv ==
      /\ public \in [Media -> Keys \cup {NoKey}]
      /\ PublicWasCleared
<1>1. Gate!GateInit => GateInv
  BY DEF Gate!GateInit, PublicWasCleared
<1>2. GateInv /\ [Gate!GateNext]_(Gate!gateVars) => GateInv'
  <2> SUFFICES ASSUME GateInv, [Gate!GateNext]_(Gate!gateVars) PROVE GateInv'
    OBVIOUS
  <2>1. ASSUME NEW m \in Media, NEW k \in Keys, Gate!Clear(m, k)
        PROVE  GateInv'
    BY <2>1 DEF Gate!Clear, PublicWasCleared
  <2>2. ASSUME NEW m \in Media, NEW k \in Keys, Gate!Publish(m, k)
        PROVE  GateInv'
    BY <2>2 DEF Gate!Publish, PublicWasCleared
  <2>3. CASE UNCHANGED Gate!gateVars
    BY <2>3 DEF Gate!gateVars, PublicWasCleared
  <2>4. QED
    BY <2>1, <2>2, <2>3 DEF Gate!GateNext
<1>3. GateInv => PublicWasCleared
  OBVIOUS
<1> HIDE DEF GateInv
<1>4. QED
  BY <1>1, <1>2, <1>3, PTL DEF Gate!GateSpec

(* No object is public that the scanner has not called clean, whichever    *)
(* jobs, retries and stalled workers ran (promoteIfClean).                 *)
THEOREM PublicIsCleared == Spec => []PublicWasCleared
BY PipelineImplementsGate, GateKeepsCleared, PTL DEF ImplementsScanGate

-----------------------------------------------------------------------------
(* What is left of a job: its attempts and stalls, and whether it has been *)
(* taken.                                                                  *)
Rank(job) ==
    LET left == (MaxAttempts - job.attempts) + (MaxStalls - job.stalls) IN
    CASE job.state = "waiting" -> 2 * left + 2
      [] job.state = "active"  -> 2 * left + 1
      [] OTHER                 -> 0

(* Whatever happens to a job brings it nearer to its end: it is taken,     *)
(* thrown back, found stalled and given to another worker only so often,   *)
(* and once it is completed or failed nothing happens to it any more.      *)
JobsAreBounded ==
    [][\A j \in JobIds :
          j < nextJob =>
              \/ jobs'[j] = jobs[j]
              \/ /\ jobs'[j].upload = jobs[j].upload
                 /\ Rank(jobs'[j]) < Rank(jobs[j])]_vars

(* The rank is a natural number, so it cannot fall for ever. *)
LEMMA RankIsNat ==
    ASSUME NEW job \in Job
    PROVE  Rank(job) \in 0 .. 2 * (MaxAttempts + MaxStalls) + 2
<1>1. PICK a \in 0 .. MaxAttempts, s \in 0 .. MaxStalls : a = job.attempts /\ s = job.stalls
  BY DEF Job
<1>2. MaxAttempts \in Nat /\ MaxStalls \in Nat
  BY MediaAssumption
<1>3. Rank(job) \in {2 * ((MaxAttempts - a) + (MaxStalls - s)) + 2,
                     2 * ((MaxAttempts - a) + (MaxStalls - s)) + 1, 0}
  BY <1>1 DEF Rank
<1>4. QED
  BY <1>1, <1>2, <1>3

LEMMA ThrowFalls ==
    ASSUME NEW job \in Job, job.state = "active", job.attempts < MaxAttempts
    PROVE  Rank(AfterThrow(job)) < Rank(job)
<1>1. PICK a \in Nat, s \in Nat : /\ a = job.attempts /\ s = job.stalls
                                  /\ a < MaxAttempts /\ s <= MaxStalls
  BY MediaAssumption DEF Job
<1>2. /\ AfterThrow(job).state \in {"waiting", "failed"}
      /\ AfterThrow(job).attempts = a + 1
      /\ AfterThrow(job).stalls = s
  BY <1>1 DEF AfterThrow, Job
<1>3. Rank(job) = 2 * ((MaxAttempts - a) + (MaxStalls - s)) + 1
  BY <1>1 DEF Rank
<1>4. Rank(AfterThrow(job)) \in {2 * ((MaxAttempts - (a + 1)) + (MaxStalls - s)) + 2, 0}
  BY <1>2 DEF Rank
<1>5. QED
  BY <1>1, <1>3, <1>4, MediaAssumption

LEMMA StallFalls ==
    ASSUME NEW job \in Job, job.state = "active"
    PROVE  Rank(AfterStall(job)) < Rank(job)
<1>1. PICK a \in Nat, s \in Nat : /\ a = job.attempts /\ s = job.stalls
                                  /\ a <= MaxAttempts /\ s <= MaxStalls
  BY MediaAssumption DEF Job
<1>2. Rank(job) = 2 * ((MaxAttempts - a) + (MaxStalls - s)) + 1
  BY <1>1 DEF Rank
<1>3. CASE s < MaxStalls
  <2>1. /\ AfterStall(job).state = "waiting"
        /\ AfterStall(job).attempts = a
        /\ AfterStall(job).stalls = s + 1
    BY <1>1, <1>3 DEF AfterStall, Job
  <2>2. Rank(AfterStall(job)) = 2 * ((MaxAttempts - a) + (MaxStalls - (s + 1))) + 2
    BY <2>1 DEF Rank
  <2>3. QED
    BY <1>1, <1>2, <2>2, MediaAssumption
<1>4. CASE ~(s < MaxStalls)
  <2>1. AfterStall(job).state = "failed"
    BY <1>1, <1>4 DEF AfterStall, Job
  <2>2. Rank(AfterStall(job)) = 0
    BY <2>1 DEF Rank
  <2>3. QED
    BY <1>1, <1>2, <2>2, MediaAssumption
<1>5. QED
  BY <1>3, <1>4

(* What a step does to a job that is in the queue. *)
LEMMA JobFalls ==
    ASSUME TypeOK, PipelineInv, [Next]_vars, NEW j \in JobIds, j < nextJob
    PROVE  \/ jobs'[j] = jobs[j]
           \/ /\ jobs'[j].upload = jobs[j].upload
              /\ Rank(jobs'[j]) < Rank(jobs[j])
<1>1. /\ jobs[j] \in Job /\ jobs \in [JobIds -> Job]
      /\ jobs[j].owner # NoWorker => jobs[j].state = "active"
      /\ jobs[j].state \in {"waiting", "active"} => jobs[j].attempts < MaxAttempts
  BY DEF TypeOK, PipelineInv, JobInv
<1>2. ASSUME NEW w \in Workers, NEW i \in JobIds, Take(w, i)
      PROVE  \/ jobs'[j] = jobs[j]
             \/ /\ jobs'[j].upload = jobs[j].upload
                /\ Rank(jobs'[j]) < Rank(jobs[j])
  <2>1. CASE i # j
    BY <1>1, <1>2, <2>1 DEF Take
  <2>2. CASE i = j
    <3>1. /\ jobs[j].state = "waiting"
          /\ jobs'[j].state = "active" /\ jobs'[j].upload = jobs[j].upload
          /\ jobs'[j].attempts = jobs[j].attempts /\ jobs'[j].stalls = jobs[j].stalls
      BY <1>1, <1>2, <2>2 DEF Take, Job
    <3>2. PICK n \in Nat : n = 2 * ((MaxAttempts - jobs[j].attempts)
                                    + (MaxStalls - jobs[j].stalls)) + 2
      BY <1>1, MediaAssumption DEF Job
    <3>3. Rank(jobs[j]) = n /\ Rank(jobs'[j]) = n - 1
      BY <1>1, <3>1, <3>2, MediaAssumption DEF Rank, Job
    <3>4. QED
      BY <3>1, <3>3
  <2>3. QED
    BY <2>1, <2>2
<1>3. ASSUME NEW i \in JobIds, Stall(i)
      PROVE  \/ jobs'[j] = jobs[j]
             \/ /\ jobs'[j].upload = jobs[j].upload
                /\ Rank(jobs'[j]) < Rank(jobs[j])
  <2>1. CASE i # j
    BY <1>1, <1>3, <2>1 DEF Stall
  <2>2. CASE i = j
    BY <1>1, <1>3, <2>2, AfterStallType, StallFalls DEF Stall
  <2>3. QED
    BY <2>1, <2>2
<1>4. ASSUME NEW w \in Workers, Throw(w)
      PROVE  \/ jobs'[j] = jobs[j]
             \/ /\ jobs'[j].upload = jobs[j].upload
                /\ Rank(jobs'[j]) < Rank(jobs[j])
  <2>1. CASE Owns(w) /\ work[w].job = j
    <3>1. jobs[j].state = "active" /\ jobs[j].attempts < MaxAttempts
      BY <1>1, <2>1, MediaAssumption DEF Owns
    <3>2. jobs'[j] = AfterThrow(jobs[j])
      BY <1>1, <1>4, <2>1 DEF Throw
    <3>3. QED
      BY <1>1, <3>1, <3>2, AfterThrowType, ThrowFalls
  <2>2. CASE ~(Owns(w) /\ work[w].job = j)
    BY <1>1, <1>4, <2>2 DEF Throw
  <2>3. QED
    BY <2>1, <2>2
<1>5. ASSUME NEW w \in Workers, Finish(w)
      PROVE  \/ jobs'[j] = jobs[j]
             \/ /\ jobs'[j].upload = jobs[j].upload
                /\ Rank(jobs'[j]) < Rank(jobs[j])
  <2>1. CASE Owns(w) /\ work[w].job = j
    <3>1. jobs[j].state = "active"
      BY <1>1, <2>1, MediaAssumption DEF Owns
    <3>2. jobs'[j].state = "completed" /\ jobs'[j].upload = jobs[j].upload
      BY <1>1, <1>5, <2>1 DEF Finish, Job
    <3>3. PICK n \in Nat : n = (MaxAttempts - jobs[j].attempts)
                               + (MaxStalls - jobs[j].stalls)
      BY <1>1, MediaAssumption DEF Job
    <3>4. Rank(jobs[j]) = 2 * n + 1 /\ Rank(jobs'[j]) = 0
      BY <3>1, <3>2, <3>3 DEF Rank
    <3>5. QED
      BY <3>2, <3>4
  <2>2. CASE ~(Owns(w) /\ work[w].job = j)
    BY <1>1, <1>5, <2>2 DEF Finish
  <2>3. QED
    BY <2>1, <2>2
<1>6. ASSUME NEW h \in Handlers, Enqueue(h)
      PROVE  jobs'[j] = jobs[j]
  BY <1>1, <1>6 DEF Enqueue, JobIds
<1>7. QED
  BY <1>2, <1>3, <1>4, <1>5, <1>6 DEF Next, Step, InitUpload, CompleteUpload,
     UploadAborted, Scan, Record, Promote, Moderate, Die, vars

(* The half of JobsSettle that needs no fairness: however often handlers   *)
(* throw, workers die and jobs are found stalled, a job changes hands at   *)
(* most 2 * (MaxAttempts + MaxStalls) + 2 times.                           *)
THEOREM JobsEnd == Spec => JobsAreBounded
<1> DEFINE Falls ==
      \A j \in JobIds :
          j < nextJob =>
              \/ jobs'[j] = jobs[j]
              \/ /\ jobs'[j].upload = jobs[j].upload
                 /\ Rank(jobs'[j]) < Rank(jobs[j])
<1>1. TypeOK /\ PipelineInv /\ [Next]_vars => [Falls]_vars
  BY JobFalls
<1>2. QED
  BY <1>1, Inductive, PTL DEF Spec, JobsAreBounded

-----------------------------------------------------------------------------
(* A rejected upload is not out of sight: it is before a moderator, or a   *)
(* job of its media is unfinished or was given up, or one was completed    *)
(* with a clean verdict, so that the scanner contradicts itself.           *)
RejectedIsSeen ==
    \A m \in Media :
        rows[m].status \in {"BLOCKED", "QUARANTINED"} =>
            \/ m \in moderation
            \/ \E j \in JobIds :
                  /\ jobs[j].upload # NoUpload /\ jobs[j].upload.media = m
                  /\ \/ jobs[j].state \in {"waiting", "active", "failed"}
                     \/ jobs[j].state = "completed" /\ jobs[j].result = "clean"

(* Whoever decided on a row got the verdict through a job of its media. *)
DecidedByJob ==
    \A m \in Media :
        rows[m].status \in {"OK", "BLOCKED", "QUARANTINED"} =>
            \E j \in JobIds : j < nextJob /\ jobs[j].upload.media = m

(* Whatever is retried, stalled or handed over: what the scanner rejected  *)
(* does not disappear between main.ts and the moderators.                  *)
THEOREM RejectedSeen == Spec => []RejectedIsSeen
<1>1. Init => DecidedByJob
  BY DEF Init, DecidedByJob
<1>2. TypeOK /\ PipelineInv /\ DecidedByJob /\ [Next]_vars => DecidedByJob'
  <2> SUFFICES ASSUME TypeOK, PipelineInv, DecidedByJob, [Next]_vars, NEW m \in Media,
                      rows'[m].status \in {"OK", "BLOCKED", "QUARANTINED"}
               PROVE  \E j \in JobIds : j < nextJob' /\ jobs'[j].upload.media = m
    BY DEF DecidedByJob
  <2>1. \E j \in JobIds : j < nextJob /\ jobs[j].upload.media = m
    <3>1. CASE rows'[m].status = rows[m].status
      BY <3>1 DEF DecidedByJob
    <3>2. ASSUME NEW w \in Workers, Record(w), Current(w).media = m
          PROVE  \E j \in JobIds : j < nextJob /\ jobs[j].upload.media = m
      BY <3>2, CurrentIsUpload DEF Record, At, Current
    <3>3. ASSUME NEW w \in Workers, Record(w), Current(w).media # m
          PROVE  rows'[m].status = rows[m].status
      BY <3>3 DEF Record, TypeOK
    <3>4. ASSUME NEW n \in Media, NEW k \in Keys, NEW h \in Handlers,
                 InitUpload(n, k) \/ CompleteUpload(h, n, k)
          PROVE  rows'[m].status = rows[m].status
      BY <3>4 DEF InitUpload, CompleteUpload, TypeOK
    <3>5. ASSUME NEW n \in Media, NEW k \in Keys, InitUpload(n, k)
          PROVE  rows'[m].status = rows[m].status
      BY <3>5 DEF InitUpload, TypeOK
    <3>6. QED
      BY <3>1, <3>2, <3>3, <3>4, <3>5 DEF Next, Step, Enqueue, UploadAborted, Scan,
         Promote, Moderate, Finish, Throw, Die, Take, Stall, vars
  <2>2. PICK j \in JobIds : j < nextJob /\ jobs[j].upload.media = m
    BY <2>1
  <2>3. jobs'[j].upload = jobs[j].upload
    BY <2>2, JobFalls
  <2>4. nextJob' = nextJob \/ nextJob' = nextJob + 1
    BY DEF Next, Step, InitUpload, CompleteUpload, Enqueue, UploadAborted, Scan, Record,
       Promote, Moderate, Finish, Throw, Die, Take, Stall, vars
  <2>5. j < nextJob'
    BY <2>2, <2>4 DEF TypeOK, JobIds
  <2>6. QED
    BY <2>2, <2>3, <2>5
<1>3. TypeOK /\ PipelineInv /\ DecidedByJob => RejectedIsSeen
  <2> SUFFICES ASSUME TypeOK, PipelineInv, NEW m \in Media, m \notin moderation,
                      NEW j \in JobIds, j < nextJob, jobs[j].upload.media = m
               PROVE  /\ jobs[j].upload # NoUpload
                      /\ \/ jobs[j].state \in {"waiting", "active", "failed"}
                         \/ jobs[j].state = "completed" /\ jobs[j].result = "clean"
    BY DEF DecidedByJob, RejectedIsSeen
  <2>1. jobs[j] \in Job /\ jobs[j].state # "none" /\ jobs[j].upload \in Upload
    BY DEF TypeOK, PipelineInv, JobInv
  <2>2. jobs[j].state = "completed" => jobs[j].result = "clean"
    BY DEF PipelineInv, CompletedJobsAreCarriedOut
  <2>3. jobs[j].upload # NoUpload
    BY <2>1, MediaAssumption DEF Upload
  <2>4. jobs[j].state \in {"none", "waiting", "active", "completed", "failed"}
    BY <2>1 DEF Job
  <2>5. QED
    BY <2>1, <2>2, <2>3, <2>4
<1>4. QED
  BY <1>1, <1>2, <1>3, Inductive, PTL DEF Spec
-----------------------------------------------------------------------------
(* A public media is BLOCKED only after it was scanned again: because a    *)
(* second upload was queued for it, because its job was found stalled and  *)
(* given to another worker, or because an attempt threw and was retried,   *)
(* which it may do after the promotion took effect.  One upload whose job  *)
(* ran once never leaves a public object behind a BLOCKED row.             *)
BlockedPublicNeedsRescan ==
    \A m \in Media :
        rows[m].status = "BLOCKED" /\ public[m] # NoKey =>
            \E j \in JobIds :
                /\ j < nextJob /\ jobs[j].upload.media = m
                /\ \/ jobs[j].stalls > 0
                   \/ jobs[j].attempts > 0
                   \/ \E i \in JobIds : i < j /\ jobs[i].upload.media = m

On(w, j) == ~At(w, "idle") /\ work[w].job = j

(* The only job of its media, never found stalled and never retried. *)
Alone(j) ==
    /\ j < nextJob
    /\ jobs[j].stalls = 0 /\ jobs[j].attempts = 0
    /\ \A i \in JobIds :
          i < nextJob /\ jobs[i].upload.media = jobs[j].upload.media => i = j

(* A job that was never found stalled has at most one worker: its owner,   *)
(* or one that goes on with a job already given up.                        *)
OneRunner ==
    \A j \in JobIds, w \in Workers :
        jobs[j].stalls = 0 /\ On(w, j) =>
            /\ \/ jobs[j].state = "active" /\ jobs[j].owner = w
               \/ jobs[j].state = "failed"
            /\ \A v \in Workers : On(v, j) => v = w

PublicHasJob ==
    \A m \in Media :
        public[m] # NoKey => \E j \in JobIds : j < nextJob /\ jobs[j].upload.media = m

(* The only job of a media promotes it as its last act, and then nothing   *)
(* is left that could scan or block it.                                    *)
LastAct(j) ==
    /\ \A w \in Workers :
          On(w, j) /\ At(w, "promote") => rows[jobs[j].upload.media].status # "BLOCKED"
    /\ public[jobs[j].upload.media] # NoKey =>
          /\ jobs[j].state # "waiting"
          /\ \A w \in Workers : On(w, j) => At(w, "finish")
          /\ rows[jobs[j].upload.media].status # "BLOCKED"

RescanInv ==
    /\ OneRunner
    /\ PublicHasJob
    /\ \A j \in JobIds : Alone(j) => LastAct(j)

(* Stalls and attempts are never taken back, and uploads stay.             *)
LEMMA JobsGoOn ==
    ASSUME TypeOK, PipelineInv, [Next]_vars, NEW j \in JobIds, j < nextJob
    PROVE  /\ j < nextJob'
           /\ jobs'[j].upload = jobs[j].upload
           /\ jobs[j].upload \in Upload
           /\ jobs'[j].stalls = 0 => jobs[j].stalls = 0
           /\ jobs'[j].attempts = 0 => jobs[j].attempts = 0
<1>1. jobs[j] \in Job /\ jobs[j].upload \in Upload /\ jobs \in [JobIds -> Job]
  BY DEF TypeOK, PipelineInv, JobInv
<1>2. jobs'[j].upload = jobs[j].upload
  BY JobFalls
<1>3. j < nextJob'
  <2>1. nextJob' = nextJob \/ nextJob' = nextJob + 1
    BY DEF Next, Step, InitUpload, CompleteUpload, Enqueue, UploadAborted, Take, Scan, Record,
       Promote, Moderate, Finish, Throw, Die, Stall, vars
  <2>2. QED
    BY <2>1 DEF TypeOK, JobIds
<1>4. jobs'[j].stalls = 0 => jobs[j].stalls = 0
  <2>1. ASSUME NEW i \in JobIds, Stall(i)
        PROVE  jobs'[j].stalls = 0 => jobs[j].stalls = 0
    <3>1. PICK s \in Nat : s = jobs[j].stalls
      BY <1>1, MediaAssumption DEF Job
    <3>2. AfterStall(jobs[j]).stalls \in {s, s + 1}
      BY <1>1, <3>1 DEF AfterStall, Job
    <3>3. jobs'[j] \in {jobs[j], AfterStall(jobs[j])}
      BY <1>1, <2>1 DEF Stall
    <3>4. QED
      BY <3>1, <3>2, <3>3
  <2>2. ASSUME NEW w \in Workers, Throw(w)
        PROVE  jobs'[j].stalls = jobs[j].stalls
    <3>1. AfterThrow(jobs[j]).stalls = jobs[j].stalls
      BY <1>1 DEF AfterThrow, Job
    <3>2. jobs'[j] \in {jobs[j], AfterThrow(jobs[j])}
      BY <1>1, <2>2 DEF Throw
    <3>3. QED
      BY <3>1, <3>2
  <2>3. ASSUME NEW w \in Workers, Finish(w) \/ \E i \in JobIds : Take(w, i)
        PROVE  jobs'[j].stalls = jobs[j].stalls
    <3>1. CASE Finish(w)
      BY <1>1, <3>1 DEF Finish, Job
    <3>2. ASSUME NEW i \in JobIds, Take(w, i)
          PROVE  jobs'[j].stalls = jobs[j].stalls
      BY <1>1, <3>2 DEF Take, Job
    <3>3. QED
      BY <2>3, <3>1, <3>2
  <2>4. ASSUME NEW h \in Handlers, Enqueue(h)
        PROVE  jobs'[j].stalls = jobs[j].stalls
    BY <1>1, <2>4 DEF Enqueue, JobIds
  <2>5. QED
    BY <2>1, <2>2, <2>3, <2>4 DEF Next, Step, InitUpload, CompleteUpload, UploadAborted, Scan,
       Record, Promote, Moderate, Die, vars
<1>5. jobs'[j].attempts = 0 => jobs[j].attempts = 0
  <2>1. ASSUME NEW i \in JobIds, Stall(i)
        PROVE  jobs'[j].attempts = jobs[j].attempts
    <3>1. AfterStall(jobs[j]).attempts = jobs[j].attempts
      BY <1>1 DEF AfterStall, Job
    <3>2. jobs'[j] \in {jobs[j], AfterStall(jobs[j])}
      BY <1>1, <2>1 DEF Stall
    <3>3. QED
      BY <3>1, <3>2
  <2>2. ASSUME NEW w \in Workers, Throw(w)
        PROVE  jobs'[j].attempts = 0 => jobs[j].attempts = 0
    <3>1. PICK a \in Nat : a = jobs[j].attempts
      BY <1>1, MediaAssumption DEF Job
    <3>2. AfterThrow(jobs[j]).attempts = a + 1
      BY <1>1, <3>1 DEF AfterThrow, Job
    <3>3. jobs'[j] \in {jobs[j], AfterThrow(jobs[j])}
      BY <1>1, <2>2 DEF Throw
    <3>4. QED
      BY <3>1, <3>2, <3>3
  <2>3. ASSUME NEW w \in Workers, Finish(w) \/ \E i \in JobIds : Take(w, i)
        PROVE  jobs'[j].attempts = jobs[j].attempts
    <3>1. CASE Finish(w)
      BY <1>1, <3>1 DEF Finish, Job
    <3>2. ASSUME NEW i \in JobIds, Take(w, i)
          PROVE  jobs'[j].attempts = jobs[j].attempts
      BY <1>1, <3>2 DEF Take, Job
    <3>3. QED
      BY <2>3, <3>1, <3>2
  <2>4. ASSUME NEW h \in Handlers, Enqueue(h)
        PROVE  jobs'[j].attempts = jobs[j].attempts
    BY <1>1, <2>4 DEF Enqueue, JobIds
  <2>5. QED
    BY <2>1, <2>2, <2>3, <2>4 DEF Next, Step, InitUpload, CompleteUpload, UploadAborted, Scan,
       Record, Promote, Moderate, Die, vars
<1>6. QED
  BY <1>1, <1>2, <1>3, <1>4, <1>5
(* Where the workers are after a worker's step on its job, and after one   *)
(* with which it leaves the job.                                           *)
LEMMA WorkerMoves ==
    ASSUME TypeOK, NEW x \in Workers
    PROVE  /\ (\E verdict \in Verdicts : Scan(x, verdict)) \/ Record(x) \/ Promote(x) \/ Moderate(x)
                => \A w \in Workers, j \in JobIds : On(w, j)' <=> On(w, j)
           /\ Finish(x) \/ Throw(x) \/ Die(x)
                => \A w \in Workers, j \in JobIds :
                      On(w, j)' <=> On(w, j) /\ w # x
           /\ \A w \in Workers \ {x} :
                 (\E verdict \in Verdicts : Scan(x, verdict)) \/ Record(x) \/ Promote(x)
                    \/ Moderate(x) \/ Finish(x) \/ Throw(x) \/ Die(x) => work'[w] = work[w]
<1>1. ASSUME NEW verdict \in Verdicts, Scan(x, verdict)
      PROVE  /\ \A w \in Workers, j \in JobIds : On(w, j)' <=> On(w, j)
             /\ \A w \in Workers \ {x} : work'[w] = work[w]
  BY <1>1 DEF Scan, On, At, TypeOK
<1>2. ASSUME Record(x)
      PROVE  /\ \A w \in Workers, j \in JobIds : On(w, j)' <=> On(w, j)
             /\ \A w \in Workers \ {x} : work'[w] = work[w]
  BY <1>2 DEF Record, Goto, NextStep, On, At, TypeOK
<1>3. ASSUME Promote(x) \/ Moderate(x)
      PROVE  /\ \A w \in Workers, j \in JobIds : On(w, j)' <=> On(w, j)
             /\ \A w \in Workers \ {x} : work'[w] = work[w]
  BY <1>3 DEF Promote, Moderate, Goto, On, At, TypeOK
<1>4. ASSUME Finish(x) \/ Throw(x) \/ Die(x)
      PROVE  /\ \A w \in Workers, j \in JobIds : On(w, j)' <=> On(w, j) /\ w # x
             /\ \A w \in Workers \ {x} : work'[w] = work[w]
  BY <1>4 DEF Finish, Throw, Die, Idle, On, At, TypeOK
<1>5. QED
  BY <1>1, <1>2, <1>3, <1>4

(* A job that was never found stalled is not touched by other workers.     *)
LEMMA LeavesJob ==
    ASSUME TypeOK, PipelineInv, OneRunner, NEW x \in Workers, Finish(x) \/ Throw(x) \/ Die(x),
           NEW j \in JobIds, jobs[j].stalls = 0, NEW w \in Workers \ {x}, On(w, j)
    PROVE  jobs'[j] = jobs[j]
<1>1. ~On(x, j)
  BY DEF OneRunner
<1>2. work[x].job # j
  BY <1>1 DEF On, Finish, Throw, Die, At
<1>3. QED
  BY <1>2 DEF Finish, Throw, Die, TypeOK

LEMMA OneRunnerStep ==
    ASSUME TypeOK, PipelineInv, OneRunner, [Next]_vars
    PROVE  OneRunner'
<1> SUFFICES ASSUME NEW j \in JobIds, NEW w \in Workers, jobs'[j].stalls = 0, On(w, j)'
             PROVE  /\ \/ jobs'[j].state = "active" /\ jobs'[j].owner = w
                       \/ jobs'[j].state = "failed"
                    /\ \A v \in Workers : On(v, j)' => v = w
  BY DEF OneRunner
<1> DEFINE Stays == /\ jobs'[j] = jobs[j] /\ On(w, j)
                    /\ \A v \in Workers : On(v, j)' => On(v, j)
<1>1. Stays => /\ \/ jobs'[j].state = "active" /\ jobs'[j].owner = w
                  \/ jobs'[j].state = "failed"
               /\ \A v \in Workers : On(v, j)' => v = w
  BY DEF OneRunner
<1>2. \A v \in Workers : On(v, j) => j < nextJob
  BY DEF On, PipelineInv, WorkInv
<1>3. CASE UNCHANGED <<jobs, work>>
  BY <1>1, <1>3 DEF On, At
<1>4. ASSUME NEW h \in Handlers, Enqueue(h)
      PROVE  Stays
  <2>1. \A v \in Workers : On(v, j)' <=> On(v, j)
    BY <1>4 DEF Enqueue, On, At
  <2>2. QED
    BY <1>2, <1>4, <2>1 DEF Enqueue, TypeOK, JobIds
<1>5. ASSUME NEW x \in Workers,
             (\E verdict \in Verdicts : Scan(x, verdict)) \/ Record(x) \/ Promote(x) \/ Moderate(x)
      PROVE  Stays
  BY <1>5, WorkerMoves DEF Scan, Record, Promote, Moderate
<1>6. ASSUME NEW x \in Workers, Finish(x) \/ Throw(x) \/ Die(x)
      PROVE  Stays
  <2>1. On(w, j) /\ w # x /\ \A v \in Workers : On(v, j)' => On(v, j)
    BY <1>6, WorkerMoves
  <2>2. jobs[j].stalls = 0
    BY <1>2, <2>1, JobsGoOn
  <2>3. QED
    BY <1>6, <2>1, <2>2, LeavesJob
<1>7. ASSUME NEW x \in Workers, NEW i \in JobIds, Take(x, i)
      PROVE  /\ \/ jobs'[j].state = "active" /\ jobs'[j].owner = w
                \/ jobs'[j].state = "failed"
             /\ \A v \in Workers : On(v, j)' => v = w
  <2>1. \A v \in Workers : On(v, j)' <=> (v = x /\ i = j) \/ (v # x /\ On(v, j))
    BY <1>7 DEF Take, On, At, TypeOK
  <2>2. CASE i # j
    BY <1>1, <1>7, <2>1, <2>2 DEF Take, TypeOK
  <2>3. CASE i = j
    <3>1. jobs[j].state = "waiting" /\ jobs[j] \in Job
      BY <1>7, <2>3 DEF Take, TypeOK
    <3>2. jobs'[j].state = "active" /\ jobs'[j].owner = x /\ jobs'[j].stalls = jobs[j].stalls
      BY <1>7, <2>3, <3>1 DEF Take, TypeOK, Job
    <3>3. \A v \in Workers : ~On(v, j)
      BY <3>1, <3>2 DEF OneRunner
    <3>4. QED
      BY <2>1, <3>2, <3>3
  <2>4. QED
    BY <2>2, <2>3
<1>8. ASSUME NEW i \in JobIds, Stall(i)
      PROVE  /\ \/ jobs'[j].state = "active" /\ jobs'[j].owner = w
                \/ jobs'[j].state = "failed"
             /\ \A v \in Workers : On(v, j)' => v = w
  <2>1. \A v \in Workers : On(v, j)' <=> On(v, j)
    BY <1>8 DEF Stall, On, At
  <2>2. CASE i # j
    BY <1>1, <1>8, <2>1, <2>2 DEF Stall, TypeOK
  <2>3. CASE i = j
    <3>1. jobs[j] \in Job /\ jobs'[j] = AfterStall(jobs[j])
      BY <1>8, <2>3 DEF Stall, TypeOK
    <3>2. jobs[j].stalls = 0
      BY <1>2, <2>1, JobsGoOn
    <3>3. jobs'[j].state = "failed"
      BY <3>1, <3>2 DEF AfterStall, Job
    <3>4. QED
      BY <2>1, <3>2, <3>3 DEF OneRunner
  <2>4. QED
    BY <2>2, <2>3
<1>9. QED
  BY <1>1, <1>3, <1>4, <1>5, <1>6, <1>7, <1>8 DEF Next, Step, InitUpload, CompleteUpload,
     UploadAborted, vars
LEMMA PublicHasJobStep ==
    ASSUME TypeOK, PipelineInv, PublicHasJob, [Next]_vars
    PROVE  PublicHasJob'
<1> SUFFICES ASSUME NEW m \in Media, public'[m] # NoKey
             PROVE  \E j \in JobIds : j < nextJob' /\ jobs'[j].upload.media = m
  BY DEF PublicHasJob
<1>1. \E j \in JobIds : j < nextJob /\ jobs[j].upload.media = m
  <2>1. CASE public'[m] = public[m]
    BY <2>1 DEF PublicHasJob
  <2>2. ASSUME NEW w \in Workers, Promote(w), Current(w).media = m
        PROVE  \E j \in JobIds : j < nextJob /\ jobs[j].upload.media = m
    BY <2>2, CurrentIsUpload DEF Promote, At, Current
  <2>3. ASSUME NEW w \in Workers, Promote(w), Current(w).media # m
        PROVE  public'[m] = public[m]
    BY <2>3 DEF Promote, TypeOK
  <2>4. QED
    BY <2>1, <2>2, <2>3 DEF Next, Step, InitUpload, CompleteUpload, Enqueue, UploadAborted,
       Take, Scan, Record, Moderate, Finish, Throw, Die, Stall, vars
<1>2. QED
  BY <1>1, JobsGoOn

(* A job that is alone was alone before, or is new.                        *)
LEMMA AloneBefore ==
    ASSUME TypeOK, PipelineInv, [Next]_vars, NEW j \in JobIds, j < nextJob, Alone(j)'
    PROVE  Alone(j)
BY JobsGoOn DEF Alone

(* A step of a worker on another job leaves the media of this one alone.   *)
LEMMA OtherMedia ==
    ASSUME TypeOK, PipelineInv, NEW j \in JobIds, Alone(j),
           NEW w \in Workers, ~At(w, "idle"), ~On(w, j)
    PROVE  Current(w).media # jobs[j].upload.media
BY CurrentIsUpload DEF Alone, On, Current

LEMMA LastActStep ==
    ASSUME TypeOK, PipelineInv, RescanInv, [Next]_vars,
           NEW j \in JobIds, j < nextJob, Alone(j)'
    PROVE  LastAct(j)'
<1>1. Alone(j) /\ LastAct(j) /\ OneRunner
  BY AloneBefore DEF RescanInv
<1>2. PICK m \in Media : m = jobs[j].upload.media /\ m = jobs'[j].upload.media
  BY JobsGoOn DEF Upload
<1> DEFINE Good == /\ \A w \in Workers :
                         On(w, j)' /\ At(w, "promote")' => rows'[m].status # "BLOCKED"
                   /\ public'[m] # NoKey =>
                         /\ jobs'[j].state # "waiting"
                         /\ \A w \in Workers : On(w, j)' => At(w, "finish")'
                         /\ rows'[m].status # "BLOCKED"
<1>3. SUFFICES Good
  BY <1>2 DEF LastAct
<1>4. /\ \A w \in Workers : On(w, j) /\ At(w, "promote") => rows[m].status # "BLOCKED"
      /\ public[m] # NoKey =>
            /\ jobs[j].state # "waiting"
            /\ \A w \in Workers : On(w, j) => At(w, "finish")
            /\ rows[m].status # "BLOCKED"
  BY <1>1, <1>2 DEF LastAct
<1>5. \A w \in Workers : On(w, j) =>
         /\ jobs[j].state \in {"active", "failed"}
         /\ \A v \in Workers : On(v, j) => v = w
  BY <1>1 DEF OneRunner, Alone
<1>6. CASE UNCHANGED vars
  BY <1>4, <1>6 DEF vars, On, At
<1>7. ASSUME NEW n \in Media, NEW k \in Keys,
             InitUpload(n, k) \/ \E h \in Handlers : CompleteUpload(h, n, k)
      PROVE  Good
  <2>1. /\ rows' = [rows EXCEPT ![n] = [status |-> "PENDING", key |-> k]]
        /\ UNCHANGED <<public, jobs, work>>
    BY <1>7 DEF InitUpload, CompleteUpload
  <2>2. rows'[m].status = rows[m].status \/ rows'[m].status = "PENDING"
    BY <2>1 DEF TypeOK
  <2>3. QED
    BY <1>4, <2>1, <2>2 DEF On, At
<1>8. ASSUME NEW h \in Handlers, Enqueue(h) \/ UploadAborted(h)
      PROVE  Good
  <2>1. CASE Enqueue(h)
    <3>1. j # nextJob
      BY DEF JobIds, TypeOK
    <3>2. QED
      BY <1>4, <2>1, <3>1 DEF Enqueue, TypeOK, On, At
  <2>2. CASE UploadAborted(h)
    BY <1>4, <2>2 DEF UploadAborted, On, At
  <2>3. QED
    BY <1>8, <2>1, <2>2
<1>9. ASSUME NEW x \in Workers, NEW verdict \in Verdicts, Scan(x, verdict)
      PROVE  Good
  <2>1. /\ \A w \in Workers : On(w, j)' <=> On(w, j)
        /\ \A w \in Workers \ {x} : work'[w] = work[w]
        /\ At(x, "scan") /\ At(x, "record")'
        /\ UNCHANGED <<rows, public, jobs>>
    BY <1>9, WorkerMoves DEF Scan, At, TypeOK
  <2>2. QED
    BY <1>4, <2>1 DEF At
<1>10. ASSUME NEW x \in Workers, Record(x)
       PROVE  Good
  <2>1. /\ \A w \in Workers : On(w, j)' <=> On(w, j)
        /\ \A w \in Workers \ {x} : work'[w] = work[w]
        /\ At(x, "record") /\ work'[x].pc = NextStep(work[x].verdict)
        /\ UNCHANGED <<public, jobs>>
    BY <1>10, WorkerMoves DEF Record, Goto, At, TypeOK
  <2>2. CASE On(x, j)
    <3>1. public[m] = NoKey /\ \A w \in Workers : On(w, j) => w = x
      BY <1>4, <1>5, <2>1, <2>2 DEF At
    <3>2. At(x, "promote")' => rows'[m].status = "OK"
      <4>1. Current(x).media = m
        BY <1>2, <2>2 DEF On, Current
      <4>2. rows'[m].status = StatusFor(work[x].verdict)
        BY <1>10, <4>1, CurrentIsUpload DEF Record, At, TypeOK
      <4>3. At(x, "promote")' => work[x].verdict = "clean"
        BY <2>1 DEF NextStep, At
      <4>4. QED
        BY <4>2, <4>3 DEF StatusFor
    <3>3. QED
      BY <2>1, <3>1, <3>2
  <2>3. CASE ~On(x, j)
    <3>1. Current(x).media # m
      BY <1>1, <1>2, <2>1, <2>3, OtherMedia DEF At
    <3>2. rows'[m] = rows[m]
      BY <1>10, <3>1 DEF Record, TypeOK
    <3>3. QED
      BY <1>4, <2>1, <2>3, <3>2 DEF At
  <2>4. QED
    BY <2>2, <2>3
<1>11. ASSUME NEW x \in Workers, Promote(x)
       PROVE  Good
  <2>1. /\ \A w \in Workers : On(w, j)' <=> On(w, j)
        /\ \A w \in Workers \ {x} : work'[w] = work[w]
        /\ At(x, "promote") /\ At(x, "finish")'
        /\ UNCHANGED <<rows, jobs>>
    BY <1>11, WorkerMoves DEF Promote, Goto, At, TypeOK
  <2>2. CASE On(x, j)
    <3>1. /\ rows[m].status # "BLOCKED" /\ jobs[j].state # "waiting"
          /\ \A w \in Workers : On(w, j) => w = x
      BY <1>4, <1>5, <2>1, <2>2
    <3>2. QED
      BY <2>1, <3>1 DEF At
  <2>3. CASE ~On(x, j)
    <3>1. Current(x).media # m
      BY <1>1, <1>2, <2>1, <2>3, OtherMedia DEF At
    <3>2. public'[m] = public[m]
      BY <1>11, <3>1 DEF Promote, TypeOK
    <3>3. QED
      BY <1>4, <2>1, <2>3, <3>2 DEF At
  <2>4. QED
    BY <2>2, <2>3
<1>12. ASSUME NEW x \in Workers, Moderate(x)
       PROVE  Good
  <2>1. /\ \A w \in Workers : On(w, j)' <=> On(w, j)
        /\ \A w \in Workers \ {x} : work'[w] = work[w]
        /\ At(x, "finish")'
        /\ UNCHANGED <<rows, public, jobs>>
    BY <1>12, WorkerMoves DEF Moderate, Goto, At, TypeOK
  <2>2. QED
    BY <1>4, <2>1 DEF At
<1>13. ASSUME NEW x \in Workers, Finish(x) \/ Throw(x) \/ Die(x)
       PROVE  Good
  <2>1. /\ \A w \in Workers : On(w, j)' <=> On(w, j) /\ w # x
        /\ \A w \in Workers \ {x} : work'[w] = work[w]
        /\ UNCHANGED <<rows, public>>
    BY <1>13, WorkerMoves DEF Finish, Throw, Die
  <2>2. public[m] # NoKey => jobs'[j].state # "waiting"
    <3>1. CASE Finish(x)
      <4>1. jobs[j] \in Job
        BY DEF TypeOK
      <4>2. jobs'[j].state \in {jobs[j].state, "completed"}
        BY <3>1, <4>1 DEF Finish, TypeOK, Job
      <4>3. QED
        BY <1>4, <4>2
    <3>2. CASE Throw(x)
      <4>1. jobs[j] \in Job /\ jobs'[j].attempts = 0
        BY DEF TypeOK, Alone
      <4>2. PICK a \in Nat : a = jobs[j].attempts
        BY <4>1, MediaAssumption DEF Job
      <4>3. AfterThrow(jobs[j]).attempts = a + 1
        BY <4>1, <4>2 DEF AfterThrow, Job
      <4>4. jobs'[j] \in {jobs[j], AfterThrow(jobs[j])}
        BY <3>2 DEF Throw, TypeOK
      <4>5. jobs'[j] = jobs[j]
        BY <4>1, <4>2, <4>3, <4>4
      <4>6. QED
        BY <1>4, <4>5
    <3>3. CASE Die(x)
      BY <1>4, <3>3 DEF Die
    <3>4. QED
      BY <1>13, <3>1, <3>2, <3>3
  <2>3. QED
    BY <1>4, <2>1, <2>2 DEF At
<1>14. ASSUME NEW x \in Workers, NEW i \in JobIds, Take(x, i)
       PROVE  Good
  <2>1. /\ \A w \in Workers : On(w, j)' <=> (w = x /\ i = j) \/ (w # x /\ On(w, j))
        /\ \A w \in Workers \ {x} : work'[w] = work[w]
        /\ At(x, "scan")'
        /\ UNCHANGED <<rows, public>>
    BY <1>14 DEF Take, On, At, TypeOK
  <2>2. i # j => jobs'[j] = jobs[j]
    BY <1>14 DEF Take, TypeOK
  <2>3. i = j => jobs[j].state = "waiting"
    BY <1>14 DEF Take
  <2>4. QED
    BY <1>4, <2>1, <2>2, <2>3 DEF At
<1>15. ASSUME NEW i \in JobIds, Stall(i)
       PROVE  Good
  <2>1. UNCHANGED <<rows, public, work>>
    BY <1>15 DEF Stall
  <2>2. i # j => jobs'[j] = jobs[j]
    BY <1>15 DEF Stall, TypeOK
  <2>3. i = j => jobs'[j].state = "failed"
    <3>1. CASE i = j
      <4>1. jobs[j] \in Job /\ jobs'[j] = AfterStall(jobs[j])
        BY <1>15, <3>1 DEF Stall, TypeOK
      <4>2. jobs[j].stalls = 0 /\ jobs'[j].stalls = 0
        BY <1>1 DEF Alone
      <4>3. QED
        BY <4>1, <4>2 DEF AfterStall, Job
    <3>2. QED
      BY <3>1
  <2>4. QED
    BY <1>4, <2>1, <2>2, <2>3 DEF On, At
<1>16. QED
  BY <1>6, <1>7, <1>8, <1>9, <1>10, <1>11, <1>12, <1>13, <1>14, <1>15 DEF Next, Step

(* The first job of a media finds it without a public object.              *)
LEMMA NewIsLastAct ==
    ASSUME TypeOK, PipelineInv, PublicHasJob, [Next]_vars,
           NEW j \in JobIds, ~(j < nextJob), Alone(j)'
    PROVE  LastAct(j)'
<1>1. PICK h \in Handlers : Enqueue(h) /\ j = nextJob
  <2>1. j < nextJob' /\ nextJob' # nextJob
    BY DEF Alone
  <2>2. PICK h \in Handlers : Enqueue(h)
    BY <2>1 DEF Next, Step, InitUpload, CompleteUpload, UploadAborted, Take, Scan, Record,
       Promote, Moderate, Finish, Throw, Die, Stall, vars
  <2>3. nextJob' = nextJob + 1
    BY <2>2 DEF Enqueue
  <2>4. j = nextJob
    BY <2>1, <2>3 DEF TypeOK, JobIds
  <2>5. QED
    BY <2>2, <2>4
<1>2. \A w \in Workers : ~On(w, j)'
  <2>1. \A w \in Workers : On(w, j)' <=> On(w, j)
    BY <1>1 DEF Enqueue, On, At
  <2>2. QED
    BY <2>1 DEF On, PipelineInv, WorkInv
<1>3. public'[jobs'[j].upload.media] = NoKey
  <2>1. jobs'[j].upload.media \in Media /\ public' = public
    BY <1>1 DEF Enqueue, NewJob, TypeOK, Upload
  <2>2. \A i \in JobIds : i < nextJob => i # j /\ jobs'[i].upload.media # jobs'[j].upload.media
    BY JobsGoOn DEF Alone
  <2>3. QED
    BY <2>1, <2>2, JobsGoOn DEF PublicHasJob
<1>4. QED
  BY <1>2, <1>3 DEF LastAct

(* What main.ts leaves public behind a BLOCKED row was scanned twice, by a *)
(* second upload, a stall or a retry.                                      *)
THEOREM BlockedPublicRescanned == Spec => []BlockedPublicNeedsRescan
<1>1. Init => RescanInv
  BY DEF Init, RescanInv, OneRunner, PublicHasJob, Alone, On, At, Idle, JobIds
<1>2. TypeOK /\ PipelineInv /\ RescanInv /\ [Next]_vars => RescanInv'
  BY OneRunnerStep, PublicHasJobStep, LastActStep, NewIsLastAct DEF RescanInv
<1>3. TypeOK /\ PipelineInv /\ RescanInv => BlockedPublicNeedsRescan
  <2> SUFFICES ASSUME TypeOK, PipelineInv, RescanInv,
                      NEW m \in Media, rows[m].status = "BLOCKED", public[m] # NoKey
               PROVE  \E j \in JobIds :
                         /\ j < nextJob /\ jobs[j].upload.media = m
                         /\ \/ jobs[j].stalls > 0
                            \/ jobs[j].attempts > 0
                            \/ \E i \in JobIds : i < j /\ jobs[i].upload.media = m
    BY DEF BlockedPublicNeedsRescan
  <2>1. PICK j \in JobIds : j < nextJob /\ jobs[j].upload.media = m
    BY DEF RescanInv, PublicHasJob
  <2>2. ~Alone(j)
    BY <2>1 DEF RescanInv, LastAct
  <2>3. CASE jobs[j].stalls = 0 /\ jobs[j].attempts = 0
    <3>1. PICK i \in JobIds : i < nextJob /\ jobs[i].upload.media = m /\ i # j
      BY <2>1, <2>2, <2>3 DEF Alone
    <3>2. i < j \/ j < i
      BY <3>1 DEF JobIds
    <3>3. QED
      BY <2>1, <3>1, <3>2
  <2>4. CASE jobs[j].stalls # 0 \/ jobs[j].attempts # 0
    <3>1. PICK s \in Nat, a \in Nat : s = jobs[j].stalls /\ a = jobs[j].attempts
      BY MediaAssumption DEF TypeOK, Job
    <3>2. QED
      BY <2>1, <2>4, <3>1
  <2>5. QED
    BY <2>3, <2>4
<1>4. QED
  BY <1>1, <1>2, <1>3, Inductive, PTL DEF Spec
=============================================================================

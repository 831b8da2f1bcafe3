--------------------------- MODULE MediaPipeline ---------------------------
(***************************************************************************)
(* Uploads from apps/api/src/media to publication by apps/worker: the      *)
(* media table, the BullMQ queue between the two, and the worker's job     *)
(* handler (main.ts) with promoteIfClean (promote.ts).                     *)
(*                                                                         *)
(* The API updates the row and then adds the job, as two steps.  Workers   *)
(* run one job at a time each, statement by statement; a statement may     *)
(* throw and a worker may die between any two.  BullMQ (external) retries  *)
(* a job that threw until its attempts are used up, and puts a job back    *)
(* whose lock was not renewed in time, MaxStalls times: its worker died,   *)
(* or is only slow and goes on working beside the next one.  The back-off  *)
(* delay is left out: a waiting job may be taken at any later time.        *)
(*                                                                         *)
(* The scanner is external: any verdict, a different one the next time.    *)
(* The worker quarantines on "suspect" and on "error" (retryable or not);  *)
(* "suspect" stands for both here.                                         *)
(***************************************************************************)
EXTENDS Naturals, FiniteSets

CONSTANTS Media,        \* media ids
          Keys,         \* staging objects an upload can be completed with
          NoKey,
          NoUpload,
          Handlers,     \* API request handlers
          Workers,
          NoWorker,
          MaxAttempts,  \* attempts of defaultJobOptions (5)
          MaxStalls,    \* maxStalledCount of BullMQ (1)
          MaxJobs       \* bound: jobs added in a behaviour

ASSUME MediaAssumption ==
    /\ NoKey \notin Keys
    /\ NoUpload \notin [media : Media, key : Keys]
    /\ NoWorker \notin Workers
    /\ MaxAttempts \in Nat \ {0}
    /\ MaxStalls \in Nat
    /\ MaxJobs \in Nat

VARIABLES
    rows,        \* media: scanStatus and r2StagingKey, "NONE" if there is no row
    public,      \* media.r2PublicKey: the staging key it was promoted from
    moderation,  \* media with an item in moderation_queue_items
    uploads,     \* per API handler, the completed upload it has yet to enqueue
    unqueued,    \* history: media initialised and not completed, or completed by a
                 \* request that died before it added the job
    jobs,        \* the queue, by job id
    nextJob,     \* the next job id
    work,        \* per worker, where it is, its job, and the verdict it got
    cleared      \* history: <<media, staging key>> the scanner called clean

vars == <<rows, public, moderation, uploads, unqueued, jobs, nextJob, work, cleared>>

Verdicts == {"clean", "match", "suspect"}
JobIds == 1 .. MaxJobs

Upload == [media : Media, key : Keys]
NoResult == "none"

Job == [upload : Upload \cup {NoUpload},
        state : {"none", "waiting", "active", "completed", "failed"},
        owner : Workers \cup {NoWorker},
        attempts : 0 .. MaxAttempts,
        stalls : 0 .. MaxStalls,
        result : Verdicts \cup {NoResult}]

NoJob == [upload |-> NoUpload, state |-> "none", owner |-> NoWorker,
          attempts |-> 0, stalls |-> 0, result |-> NoResult]

NewJob(upload) == [upload |-> upload, state |-> "waiting", owner |-> NoWorker,
                   attempts |-> 0, stalls |-> 0, result |-> NoResult]

Idle == [pc |-> "idle", job |-> 0, verdict |-> NoResult]

Init ==
    /\ rows = [m \in Media |-> [status |-> "NONE", key |-> NoKey]]
    /\ public = [m \in Media |-> NoKey]
    /\ moderation = {}
    /\ uploads = [h \in Handlers |-> NoUpload]
    /\ unqueued = {}
    /\ jobs = [j \in JobIds |-> NoJob]
    /\ nextJob = 1
    /\ work = [w \in Workers |-> Idle]
    /\ cleared = {}

-----------------------------------------------------------------------------
(* The API *)

(* initUpload: a new row (the media id is a fresh uuid), nothing queued. *)
InitUpload(m, k) ==
    /\ rows[m].status = "NONE"
    /\ rows' = [rows EXCEPT ![m] = [status |-> "PENDING", key |-> k]]
    /\ unqueued' = unqueued \cup {m}
    /\ UNCHANGED <<public, moderation, uploads, jobs, nextJob, work, cleared>>

(* completeUpload, first statement: the row takes the caller's staging key *)
(* and is PENDING again, whatever it was; its public key stays.            *)
CompleteUpload(h, m, k) ==
    /\ uploads[h] = NoUpload
    /\ rows[m].status # "NONE"
    /\ rows' = [rows EXCEPT ![m] = [status |-> "PENDING", key |-> k]]
    /\ uploads' = [uploads EXCEPT ![h] = [media |-> m, key |-> k]]
    /\ unqueued' = unqueued \ {m}
    /\ UNCHANGED <<public, moderation, jobs, nextJob, work, cleared>>

(* mutant: a job with the media's id, which the queue adds only once *)
EnqueueOncePerMedia(h) ==
    /\ uploads[h] # NoUpload
    /\ nextJob \in JobIds
    /\ IF \E j \in JobIds : j < nextJob /\ jobs[j].upload.media = uploads[h].media
       THEN UNCHANGED <<jobs, nextJob>>
       ELSE /\ jobs' = [jobs EXCEPT ![nextJob] = NewJob(uploads[h])]
            /\ nextJob' = nextJob + 1
    /\ uploads' = [uploads EXCEPT ![h] = NoUpload]
    /\ UNCHANGED <<rows, public, moderation, unqueued, work, cleared>>

(* completeUpload, second statement: mediaQueue.add. *)
Enqueue(h) ==
    /\ uploads[h] # NoUpload
    /\ nextJob \in JobIds
    /\ jobs' = [jobs EXCEPT ![nextJob] = NewJob(uploads[h])]
    /\ nextJob' = nextJob + 1
    /\ uploads' = [uploads EXCEPT ![h] = NoUpload]
    /\ UNCHANGED <<rows, public, moderation, unqueued, work, cleared>>

(* The process dies between the two, or Redis refuses the job. *)
UploadAborted(h) ==
    /\ uploads[h] # NoUpload
    /\ uploads' = [uploads EXCEPT ![h] = NoUpload]
    /\ unqueued' = unqueued \cup {uploads[h].media}
    /\ UNCHANGED <<rows, public, moderation, jobs, nextJob, work, cleared>>

-----------------------------------------------------------------------------
(* The worker *)

At(w, pc) == work[w].pc = pc
Goto(w, pc) == work' = [work EXCEPT ![w].pc = pc]
Current(w) == jobs[work[w].job].upload
Owns(w) == jobs[work[w].job].owner = w

Take(w, j) ==
    /\ At(w, "idle")
    /\ jobs[j].state = "waiting"
    /\ jobs' = [jobs EXCEPT ![j].state = "active", ![j].owner = w]
    /\ work' = [work EXCEPT ![w] = [pc |-> "scan", job |-> j, verdict |-> NoResult]]
    /\ UNCHANGED <<rows, public, moderation, uploads, unqueued, nextJob, cleared>>

(* csam.scanObject answers. *)
Scan(w, verdict) ==
    /\ At(w, "scan")
    /\ work' = [work EXCEPT ![w] =
                  [pc |-> "record", job |-> work[w].job, verdict |-> verdict]]
    /\ cleared' = IF verdict = "clean"
                  THEN cleared \cup {<<Current(w).media, Current(w).key>>}
                  ELSE cleared
    /\ UNCHANGED <<rows, public, moderation, uploads, unqueued, jobs, nextJob>>

(* mutant: a suspect upload passes *)
StatusForLenient(verdict) == IF verdict = "match" THEN "BLOCKED" ELSE "OK"

StatusFor(verdict) ==
    CASE verdict = "clean" -> "OK"
      [] verdict = "match" -> "BLOCKED"
      [] OTHER             -> "QUARANTINED"

(* mutant: everything but a match is promoted *)
NextStepLenient(verdict) == IF verdict = "match" THEN "moderate" ELSE "promote"

(* mutant: a rejected upload is recorded and forgotten *)
NextStepSilent(verdict) == IF verdict = "clean" THEN "promote" ELSE "finish"

NextStep(verdict) == IF verdict = "clean" THEN "promote" ELSE "moderate"

(* media.update with the scan status. *)
Record(w) ==
    /\ At(w, "record")
    /\ rows' = [rows EXCEPT ![Current(w).media].status = StatusFor(work[w].verdict)]
    /\ Goto(w, NextStep(work[w].verdict))
    /\ UNCHANGED <<public, moderation, uploads, unqueued, jobs, nextJob, cleared>>

(* mutant: the row's current staging key is promoted, not the job's *)
PromotedKeyOfRow(w) == rows[Current(w).media].key

PromotedKey(w) == Current(w).key

(* promoteIfClean: the public key of the media is set. *)
Promote(w) ==
    /\ At(w, "promote")
    /\ public' = [public EXCEPT ![Current(w).media] = PromotedKey(w)]
    /\ Goto(w, "finish")
    /\ UNCHANGED <<rows, moderation, uploads, unqueued, jobs, nextJob, cleared>>

(* moderationQueueItem.create *)
Moderate(w) ==
    /\ At(w, "moderate")
    /\ moderation' = moderation \cup {Current(w).media}
    /\ Goto(w, "finish")
    /\ UNCHANGED <<rows, public, uploads, unqueued, jobs, nextJob, cleared>>

(* The handler returns.  A worker that lost the job's lock changes nothing. *)
Finish(w) ==
    /\ At(w, "finish")
    /\ jobs' = IF Owns(w)
               THEN [jobs EXCEPT ![work[w].job].state = "completed",
                                 ![work[w].job].owner = NoWorker,
                                 ![work[w].job].result = work[w].verdict]
               ELSE jobs
    /\ work' = [work EXCEPT ![w] = Idle]
    /\ UNCHANGED <<rows, public, moderation, uploads, unqueued, nextJob, cleared>>

(* mutant: attempts are not counted *)
AfterThrowForever(job) == [job EXCEPT !.state = "waiting", !.owner = NoWorker]

(* mutant: a job is retried however many attempts it had *)
AfterThrowUnlimited(job) ==
    [job EXCEPT !.state = "waiting", !.owner = NoWorker, !.attempts = job.attempts + 1]

(* BullMQ: one attempt more; back to the queue while there are any left. *)
AfterThrow(job) ==
    [job EXCEPT !.state = IF job.attempts + 1 < MaxAttempts THEN "waiting" ELSE "failed",
                !.owner = NoWorker,
                !.attempts = job.attempts + 1]

(* A statement of the handler throws; at "finish" the last one, of which   *)
(* the database made the change and the answer is lost.                    *)
Throw(w) ==
    /\ ~At(w, "idle")
    /\ jobs' = IF Owns(w)
               THEN [jobs EXCEPT ![work[w].job] = AfterThrow(jobs[work[w].job])]
               ELSE jobs
    /\ work' = [work EXCEPT ![w] = Idle]
    /\ UNCHANGED <<rows, public, moderation, uploads, unqueued, nextJob, cleared>>

(* The worker process dies; the job stays active until it is found stalled. *)
Die(w) ==
    /\ ~At(w, "idle")
    /\ work' = [work EXCEPT ![w] = Idle]
    /\ UNCHANGED <<rows, public, moderation, uploads, unqueued, jobs, nextJob, cleared>>

AfterStall(job) ==
    IF job.stalls < MaxStalls
    THEN [job EXCEPT !.state = "waiting", !.owner = NoWorker, !.stalls = job.stalls + 1]
    ELSE [job EXCEPT !.state = "failed", !.owner = NoWorker]

(* BullMQ's stalled check: the lock of an active job has expired. *)
Stall(j) ==
    /\ jobs[j].state = "active"
    /\ jobs' = [jobs EXCEPT ![j] = AfterStall(jobs[j])]
    /\ UNCHANGED <<rows, public, moderation, uploads, unqueued, nextJob, work, cleared>>

Abandoned(j) == \A w \in Workers : At(w, "idle") \/ work[w].job # j

Step(w) ==
    \/ \E verdict \in Verdicts : Scan(w, verdict)
    \/ Record(w)
    \/ Promote(w)
    \/ Moderate(w)
    \/ Finish(w)

Next ==
    \/ \E m \in Media, k \in Keys :
          InitUpload(m, k) \/ \E h \in Handlers : CompleteUpload(h, m, k)
    \/ \E h \in Handlers : Enqueue(h) \/ UploadAborted(h)
    \/ \E w \in Workers : Step(w) \/ Throw(w) \/ Die(w)
    \/ \E w \in Workers, j \in JobIds : Take(w, j)
    \/ \E j \in JobIds : Stall(j)

Spec == Init /\ [][Next]_vars

(* Running workers go on, a waiting job is taken when a worker is free for *)
(* it, and the stalled check finds a job no worker runs any more.          *)
Fairness ==
    /\ \A w \in Workers : WF_vars(Step(w))
    /\ \A j \in JobIds : WF_vars(\E w \in Workers : Take(w, j))
    /\ \A j \in JobIds : WF_vars(Abandoned(j) /\ Stall(j))

FairSpec == Spec /\ Fairness

-----------------------------------------------------------------------------
(* Properties *)

(* Every variable holds what its table, queue or worker can hold. *)
TypeOK ==
    /\ rows \in [Media -> [status : {"NONE", "PENDING", "OK", "BLOCKED", "QUARANTINED"},
                           key : Keys \cup {NoKey}]]
    /\ public \in [Media -> Keys \cup {NoKey}]
    /\ moderation \subseteq Media
    /\ uploads \in [Handlers -> Upload \cup {NoUpload}]
    /\ unqueued \subseteq Media
    /\ jobs \in [JobIds -> Job]
    /\ nextJob \in 1 .. MaxJobs + 1
    /\ work \in [Workers -> [pc : {"idle", "scan", "record", "promote", "moderate", "finish"},
                             job : {0} \cup JobIds,
                             verdict : Verdicts \cup {NoResult}]]
    /\ cleared \subseteq Media \X Keys

(* What is public was promoted from a staging object the scanner called    *)
(* clean, whichever jobs, retries and stalled workers ran for its media in *)
(* the meantime (csam-scan.ts: scanning runs before promotion).            *)
Gate == INSTANCE ScanGate

ImplementsScanGate == Gate!GateSpec

(* A job BullMQ reports as completed did all of its work: a clean upload   *)
(* is public, and a rejected one is before a moderator, also when another  *)
(* worker ran the same job, or half of it.                                 *)
CompletedJobsAreCarriedOut ==
    \A j \in JobIds :
        jobs[j].state = "completed" =>
            IF jobs[j].result = "clean"
            THEN public[jobs[j].upload.media] # NoKey
            ELSE jobs[j].upload.media \in moderation

(* A status other than PENDING was earned: OK by a clean verdict on an     *)
(* upload of this media.                                                   *)
OkWasCleared ==
    \A m \in Media : rows[m].status = "OK" => \E k \in Keys : <<m, k>> \in cleared

(* A completed upload is not forgotten while its row says PENDING: its     *)
(* request is about to add a job, or a job of this media is still to scan  *)
(* it or has used up its attempts, whatever other uploads of the media     *)
(* were completed, scanned or stalled in between.  The only exception is a *)
(* request that died before it added the job.                              *)
PendingIsOnItsWay ==
    \A m \in Media :
        rows[m].status = "PENDING" =>
            \/ m \in unqueued
            \/ \E h \in Handlers : uploads[h] # NoUpload /\ uploads[h].media = m
            \/ \E j \in JobIds :
                  jobs[j].upload # NoUpload /\ jobs[j].upload.media = m
                  /\ jobs[j].state \in {"waiting", "active", "failed"}

(* Every job is completed or failed in the end, however often its handler  *)
(* throws and its workers die.                                             *)
JobsSettle ==
    \A j \in JobIds :
        jobs[j].state = "waiting" ~> jobs[j].state \in {"completed", "failed"}

(* docs/architecture.md:61: an object that fails the scan is deleted or    *)
(* quarantined.  A media row that is BLOCKED must not be public.           *)
BlockedIsNotPublic ==
    \A m \in Media : rows[m].status = "BLOCKED" => public[m] = NoKey
=============================================================================

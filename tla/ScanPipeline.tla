----------------------------- MODULE ScanPipeline -----------------------------
(***************************************************************************)
(* From the upload of a picture to a reviewed scan: app/routes/scan.py,    *)
(* app/routes/admin/jobs.py, re_ocr_piece, and the arq worker of           *)
(* app/tasks/ocr_jobs.py.                                                  *)
(*                                                                         *)
(* The web process and the worker share the table scan_sessions and the    *)
(* arq queue in Redis.  A handler may be overtaken where it awaits Redis:  *)
(* between its commit and the enqueue, and in retry_failed before its      *)
(* commit.  The job may be overtaken between its three transactions.       *)
(***************************************************************************)
EXTENDS Integers, FiniteSets, Tables

CONSTANTS
    ScanIds,     \* primary keys of scan_sessions
    JobIds,      \* arq jobs at a time
    Images,      \* pictures
    NoImage,     \* raw_response = NULL
    MaxTries,    \* arq gives a job up when it was started so often
    MaxStops     \* bound: how often the worker process is stopped

ASSUME ImagesAssumption == NoImage \notin Images
ASSUME TriesAssumption == MaxTries \in Nat /\ MaxStops \in Nat

VARIABLES
    scan,   \* table scan_sessions
    job,    \* the arq jobs, from the commit that asks for one to its end
    retry,  \* retry_failed in progress: scans left to enqueue, scans enqueued
    stops   \* how often the worker was stopped

vars == <<scan, job, retry, stops>>

Unfinished == {"pending", "extracting", "enriching"}
Finished == {"done", "failed"}
ScanStatus == Unfinished \cup Finished
Running == {"extracting", "enriching"}

ScanRow == [image     : Images,
            status    : ScanStatus,
            read      : Images \cup {NoImage},  \* the picture raw_response is of
            saved     : BOOLEAN,                \* resulting_piece_id is set
            discarded : BOOLEAN]
JobRow == [scan  : ScanIds,
           phase : {"sending", "queued"} \cup Running,
           image : Images \cup {NoImage},       \* what the job has in hand
           tries : Nat]

NoRetry == [left |-> {}, sent |-> {}]

Init ==
    /\ scan = Empty
    /\ job = Empty
    /\ retry = NoRetry
    /\ stops = 0

-----------------------------------------------------------------------------
JobsOf(s) == {j \in DOMAIN job : job[j].scan = s}
FreeJobs == JobIds \ DOMAIN job
Failed == {s \in DOMAIN scan : scan[s].status = "failed" /\ ~scan[s].discarded}

JobFor(s, phase) == [scan |-> s, phase |-> phase, image |-> NoImage, tries |-> 0]

(* A handler that has committed awaits Redis to enqueue the job. *)
Asks(s) == \E j \in FreeJobs : job' = WithRow(job, j, JobFor(s, "sending"))

Ends(j) == job' = Without(job, {j})

(* The status the job j writes; nothing if the row is gone. *)
Writes(j, status) ==
    scan' = IF job[j].scan \in DOMAIN scan
            THEN [scan EXCEPT ![job[j].scan].status = status]
            ELSE scan

-----------------------------------------------------------------------------
(* The web process *)

(* upload_scan, quick_scan_upload and re_ocr_piece. *)
Upload(s, img) ==
    /\ s \notin DOMAIN scan
    /\ scan' = WithRow(scan, s, [image |-> img, status |-> "pending", read |-> NoImage,
                                 saved |-> FALSE, discarded |-> FALSE])
    /\ Asks(s)
    /\ UNCHANGED <<retry, stops>>

Enqueue(j) ==
    /\ j \in DOMAIN job /\ job[j].phase = "sending"
    /\ job' = [job EXCEPT ![j].phase = "queued"]
    /\ UNCHANGED <<scan, retry, stops>>

(* Redis does not answer, or the web process dies after its commit. *)
EnqueueFails(j) ==
    /\ j \in DOMAIN job /\ job[j].phase = "sending"
    /\ Ends(j)
    /\ UNCHANGED <<scan, retry, stops>>

(* Fault: the result at hand is cleared although a job may be past it. *)
RetryClearsResult(s) ==
    /\ s \in DOMAIN scan /\ ~scan[s].saved
    /\ scan' = [scan EXCEPT ![s].status = "pending", ![s].read = NoImage]
    /\ Asks(s)
    /\ UNCHANGED <<retry, stops>>

(* Fault: the status is reset and no job asked for. *)
RetryForgetsJob(s) ==
    /\ s \in DOMAIN scan /\ ~scan[s].saved
    /\ scan' = [scan EXCEPT ![s].status = "pending"]
    /\ UNCHANGED <<job, retry, stops>>

(* retry_scan takes a scan of any status. *)
Retry(s) ==
    /\ s \in DOMAIN scan /\ ~scan[s].saved
    /\ scan' = [scan EXCEPT ![s].status = "pending"]
    /\ Asks(s)
    /\ UNCHANGED <<retry, stops>>

(* requeue_stuck: one of the pending scans older than five minutes; their    *)
(* age is not modelled.                                                      *)
RequeueStuck(s) ==
    /\ s \in DOMAIN scan
    /\ scan[s].status = "pending" /\ ~scan[s].discarded
    /\ Asks(s)
    /\ UNCHANGED <<scan, retry, stops>>

(* retry_failed reads the failed scans, enqueues one after the other and     *)
(* commits their new status at the end.                                      *)
RetryFailed ==
    /\ retry = NoRetry
    /\ Failed # {}
    /\ retry' = [left |-> Failed, sent |-> {}]
    /\ UNCHANGED <<scan, job, stops>>

RetryFailedEnqueue(s) ==
    /\ s \in retry.left
    /\ \E j \in FreeJobs : job' = WithRow(job, j, JobFor(s, "queued"))
    /\ retry' = [left |-> retry.left \ {s}, sent |-> retry.sent \cup {s}]
    /\ UNCHANGED <<scan, stops>>

(* The UPDATE of a row that is gone rolls the whole transaction back. *)
RetryFailedCommit ==
    /\ retry.left = {} /\ retry.sent # {}
    /\ scan' = IF retry.sent \subseteq DOMAIN scan
               THEN [s \in DOMAIN scan |->
                       IF s \in retry.sent THEN [scan[s] EXCEPT !.status = "pending"]
                       ELSE scan[s]]
               ELSE scan
    /\ retry' = NoRetry
    /\ UNCHANGED <<job, stops>>

(* Redis fails halfway: what is enqueued stays enqueued, nothing is written. *)
RetryFailedFails ==
    /\ retry # NoRetry
    /\ retry' = NoRetry
    /\ UNCHANGED <<scan, job, stops>>

Discard(s) ==
    /\ s \in DOMAIN scan /\ ~scan[s].saved
    /\ scan' = [scan EXCEPT ![s].discarded = TRUE]
    /\ UNCHANGED <<job, retry, stops>>

Restore(s) ==
    /\ s \in DOMAIN scan
    /\ scan' = [scan EXCEPT ![s].discarded = FALSE]
    /\ UNCHANGED <<job, retry, stops>>

(* save_piece and add_placement_to_existing, from a review form that was     *)
(* served when the scan was done; neither looks at the status again.         *)
Save(s) ==
    /\ s \in DOMAIN scan /\ scan[s].read # NoImage
    /\ scan' = [scan EXCEPT ![s].saved = TRUE]
    /\ UNCHANGED <<job, retry, stops>>

(* delete_piece lets its scans go. *)
DeletePiece(s) ==
    /\ s \in DOMAIN scan /\ scan[s].saved
    /\ scan' = [scan EXCEPT ![s].saved = FALSE]
    /\ UNCHANGED <<job, retry, stops>>

(* delete_scan does not ask whether a job is under way. *)
DeleteScan(s) ==
    /\ s \in DOMAIN scan /\ ~scan[s].saved
    /\ scan' = Without(scan, {s})
    /\ UNCHANGED <<job, retry, stops>>

-----------------------------------------------------------------------------
(* The worker *)

(* The first transaction; a job whose scan is gone ends with a ValueError.   *)
Start(j) ==
    /\ j \in DOMAIN job /\ job[j].phase = "queued"
    /\ job[j].tries < MaxTries
    /\ \/ /\ job[j].scan \in DOMAIN scan
          /\ Writes(j, "extracting")
          /\ job' = [job EXCEPT ![j] = [scan  |-> @.scan,
                                        phase |-> "extracting",
                                        image |-> scan[@.scan].image,
                                        tries |-> @.tries + 1]]
       \/ /\ job[j].scan \notin DOMAIN scan
          /\ Ends(j)
          /\ UNCHANGED scan
    /\ UNCHANGED <<retry, stops>>

(* arq drops a job it has started too often, without calling it. *)
GiveUp(j) ==
    /\ j \in DOMAIN job /\ job[j].phase = "queued"
    /\ job[j].tries >= MaxTries
    /\ Ends(j)
    /\ UNCHANGED <<scan, retry, stops>>

(* The picture is read: the second transaction, on whatever row has the key. *)
Extracted(j) ==
    /\ j \in DOMAIN job /\ job[j].phase = "extracting"
    /\ \/ /\ job[j].scan \in DOMAIN scan
          /\ scan' = [scan EXCEPT ![job[j].scan].read = job[j].image,
                                  ![job[j].scan].status = "enriching"]
          /\ job' = [job EXCEPT ![j].phase = "enriching"]
       \/ /\ job[j].scan \notin DOMAIN scan
          /\ Ends(j)
          /\ UNCHANGED scan
    /\ UNCHANGED <<retry, stops>>

(* MusicBrainz has answered or failed: the third transaction. *)
Enriched(j) ==
    /\ j \in DOMAIN job /\ job[j].phase = "enriching"
    /\ Writes(j, "done")
    /\ Ends(j)
    /\ UNCHANGED <<retry, stops>>

(* Fault: except Exception does not catch the CancelledError of a timeout. *)
FailsSilently(j) ==
    /\ j \in DOMAIN job /\ job[j].phase \in Running
    /\ Ends(j)
    /\ UNCHANGED <<scan, retry, stops>>

(* The provider raises an error, or job_timeout cancels the job. *)
Fails(j) ==
    /\ j \in DOMAIN job /\ job[j].phase \in Running
    /\ Writes(j, "failed")
    /\ Ends(j)
    /\ UNCHANGED <<retry, stops>>

(* A job without its worker is in the queue again. *)
Requeued(j) == [job[j] EXCEPT !.phase = "queued", !.image = NoImage]

(* The worker is shut down: the cancelled job marks its scan failed, and     *)
(* arq runs it again when the worker is back.                                *)
Shutdown(j) ==
    /\ stops < MaxStops
    /\ j \in DOMAIN job /\ job[j].phase \in Running
    /\ Writes(j, "failed")
    /\ job' = [job EXCEPT ![j] = Requeued(j)]
    /\ stops' = stops + 1
    /\ UNCHANGED retry

(* The worker dies; its jobs are found in the queue when their locks expire. *)
Crash ==
    /\ stops < MaxStops
    /\ \E j \in DOMAIN job : job[j].phase \in Running
    /\ job' = [j \in DOMAIN job |-> IF job[j].phase \in Running THEN Requeued(j) ELSE job[j]]
    /\ stops' = stops + 1
    /\ UNCHANGED <<scan, retry>>

-----------------------------------------------------------------------------
Works(j) == Extracted(j) \/ Enriched(j) \/ Fails(j)

EditorStep ==
    \/ \E s \in ScanIds, img \in Images : Upload(s, img)
    \/ \E s \in ScanIds :
          Retry(s) \/ Discard(s) \/ Restore(s) \/ Save(s) \/ DeletePiece(s) \/ RequeueStuck(s)
    \/ \E j \in JobIds : Enqueue(j)
DeleteStep == \E s \in ScanIds : DeleteScan(s)
RedisFault == RetryFailedFails \/ \E j \in JobIds : EnqueueFails(j)
RetryStep ==
    \/ RetryFailed
    \/ \E s \in ScanIds : RetryFailedEnqueue(s)
    \/ RetryFailedCommit
WorkerStep ==
    \/ \E j \in JobIds : Start(j) \/ GiveUp(j) \/ Works(j) \/ Shutdown(j)
    \/ Crash

Next == EditorStep \/ DeleteStep \/ RedisFault \/ RetryStep \/ WorkerStep

Spec == Init /\ [][Next]_vars

(* No administrator deletes a scan, so no key is used twice: a job that     *)
(* outlives its scan writes into the scan that gets its key (ocr_jobs.py:46 *)
(* reads the row again by key).                                             *)
KeptSpec == Init /\ [][EditorStep \/ RedisFault \/ RetryStep \/ WorkerStep]_vars

(* The event loop resumes a handler whose call is answered, arq picks up     *)
(* what is in the queue, and job_timeout ends every job that hangs.          *)
Fairness ==
    /\ \A j \in JobIds :
          /\ WF_vars(Enqueue(j))
          /\ WF_vars(Start(j) \/ GiveUp(j))
          /\ WF_vars(Works(j))
    /\ WF_vars(RetryFailedCommit)
    /\ \A s \in ScanIds : WF_vars(RetryFailedEnqueue(s))

-----------------------------------------------------------------------------
(* Properties *)

(* A scan keeps one of the five states and a job one of its phases; only a   *)
(* job that runs has a picture in hand.                                      *)
TypeOK ==
    /\ IsTable(scan, ScanIds, ScanRow)
    /\ IsTable(job, JobIds, JobRow)
    /\ \A j \in DOMAIN job : (job[j].image # NoImage) <=> (job[j].phase \in Running)
    /\ retry \in [left : SUBSET ScanIds, sent : SUBSET ScanIds]
    /\ stops \in 0..MaxStops

(* requeue_stuck looks for pending scans only.  That is enough: whatever     *)
(* retries, lost enqueues, timeouts and restarts do, a scan that is being    *)
(* extracted or enriched has a job that will finish it, as long as workers   *)
(* were not stopped as often as arq starts a job.                            *)
BusyHasJob ==
    stops < MaxTries =>
        \A s \in DOMAIN scan :
            scan[s].status \in Running => \E j \in JobsOf(s) : job[j].phase # "sending"

(* ocr_jobs.py:20: the job reads the picture and updates the scan with what  *)
(* it found.  What the reviewer of a finished scan sees was read from the    *)
(* scan's own picture, whatever other jobs are still under way.              *)
DoneHasOwnResult ==
    \A s \in DOMAIN scan :
        scan[s].status \in {"enriching", "done"} => scan[s].read = scan[s].image

(* docs/ocr-strategi.md:16-19: the page of a scan polls until the job is     *)
(* ready and then shows the result.  Every scan that waits or is worked on   *)
(* is done or failed some day, or gone.                                      *)
EveryScanSettles ==
    \A s \in ScanIds :
        (s \in DOMAIN scan /\ scan[s].status \in Unfinished)
        ~> (s \notin DOMAIN scan \/ scan[s].status \in Finished)
=============================================================================

-------------------------- MODULE ScanPipelineProofs --------------------------
(***************************************************************************)
(* A scan that is being worked on has a job, for every number of scans,    *)
(* jobs and pictures, as long as the worker is not stopped so often that   *)
(* arq gives a job up.  What carries the argument is a bound on the tries: *)
(* a job was started at most once more than the worker was stopped.        *)
(* And as long as no scan is deleted, a finished scan shows what was read  *)
(* from its own picture.                                                   *)
(***************************************************************************)
EXTENDS ScanPipeline, TLAPS

TriesBounded ==
    \A j \in DOMAIN job :
        job[j].tries <= stops + (IF job[j].phase \in Running THEN 1 ELSE 0)

BusyInv == TypeOK /\ TriesBounded /\ BusyHasJob

-----------------------------------------------------------------------------
(* The parts of the invariant that steps of the web process keep: the jobs   *)
(* that are there stay as they are, and no scan begins to be busy.           *)
LEMMA WebInv ==
  ASSUME BusyInv,
         IsTable(scan', ScanIds, ScanRow),
         \A s \in DOMAIN scan' :
            scan'[s].status \in Running =>
               s \in DOMAIN scan /\ scan[s].status \in Running,
         IsTable(job', JobIds, JobRow),
         \A j \in DOMAIN job' :
            \/ j \in DOMAIN job /\ job'[j] = job[j]
            \/ job'[j].phase \in {"sending", "queued"} /\ job'[j].image = NoImage
                 /\ job'[j].tries <= stops,
         \A j \in DOMAIN job :
            job[j].phase # "sending" => j \in DOMAIN job' /\ job'[j] = job[j],
         retry' \in [left : SUBSET ScanIds, sent : SUBSET ScanIds],
         stops' = stops
  PROVE  BusyInv'
<1>1. TypeOK'
  <2>1. ASSUME NEW j \in DOMAIN job'
        PROVE  (job'[j].image # NoImage) <=> (job'[j].phase \in Running)
    BY DEF BusyInv, TypeOK, Running
  <2>2. stops' \in 0..MaxStops
    BY DEF BusyInv, TypeOK
  <2>. QED BY <2>1, <2>2 DEF TypeOK
<1>2. TriesBounded'
  <2>1. stops \in Nat
    BY TriesAssumption DEF BusyInv, TypeOK
  <2>2. ASSUME NEW j \in DOMAIN job'
        PROVE  job'[j].tries <= stops' + (IF job'[j].phase \in Running THEN 1 ELSE 0)
    <3>1. CASE j \in DOMAIN job /\ job'[j] = job[j]
      BY <3>1 DEF BusyInv, TriesBounded
    <3>2. CASE job'[j].phase \in {"sending", "queued"} /\ job'[j].tries <= stops
      <4>1. job'[j].tries \in Nat
        BY DEF IsTable, JobRow
      <4>. QED BY <2>1, <3>2, <4>1 DEF Running
    <3>. QED BY <3>1, <3>2
  <2>. QED BY <2>2 DEF TriesBounded
<1>3. BusyHasJob'
  BY DEF BusyInv, BusyHasJob, JobsOf
<1>. QED BY <1>1, <1>2, <1>3 DEF BusyInv

(* A handler that asks for a job adds one that is not yet in the queue. *)
LEMMA NewJobFacts ==
  ASSUME BusyInv, NEW s \in ScanIds, NEW phase \in {"sending", "queued"},
         NEW k \in FreeJobs, job' = WithRow(job, k, JobFor(s, phase))
  PROVE  /\ IsTable(job', JobIds, JobRow)
         /\ \A j \in DOMAIN job' :
               \/ j \in DOMAIN job /\ job'[j] = job[j]
               \/ job'[j].phase \in {"sending", "queued"} /\ job'[j].image = NoImage
                    /\ job'[j].tries <= stops
         /\ \A j \in DOMAIN job : j \in DOMAIN job' /\ job'[j] = job[j]
<1>. DEFINE row == JobFor(s, phase)
<1>1. row \in JobRow /\ row.phase = phase /\ row.image = NoImage /\ row.tries = 0
  BY DEF JobFor, JobRow
<1>2. job' = WithRow(job, k, row)
  OBVIOUS
<1>3. stops \in Nat
  BY TriesAssumption DEF BusyInv, TypeOK
<1>. HIDE DEF row
<1>. QED
  BY <1>1, <1>2, <1>3 DEF BusyInv, TypeOK, IsTable, WithRow, With, FreeJobs

(* The row of one scan is replaced. *)
LEMMA ScanRowFacts ==
  ASSUME BusyInv, NEW s \in DOMAIN scan, NEW row \in ScanRow,
         scan' = [scan EXCEPT ![s] = row],
         row.status \in Running => scan[s].status \in Running
  PROVE  /\ IsTable(scan', ScanIds, ScanRow)
         /\ \A t \in DOMAIN scan' :
               scan'[t].status \in Running =>
                  t \in DOMAIN scan /\ scan[t].status \in Running
BY DEF BusyInv, TypeOK, IsTable

LEMMA EditorStepInv == BusyInv /\ EditorStep => BusyInv'
<1>. SUFFICES ASSUME BusyInv, EditorStep PROVE BusyInv'
  OBVIOUS
<1>0. /\ IsTable(scan, ScanIds, ScanRow) /\ IsTable(job, JobIds, JobRow)
      /\ retry \in [left : SUBSET ScanIds, sent : SUBSET ScanIds]
      /\ \A s \in DOMAIN scan : s \in ScanIds /\ scan[s] \in ScanRow
      /\ \A j \in DOMAIN job : j \in JobIds /\ job[j] \in JobRow
  BY DEF BusyInv, TypeOK, IsTable
<1>1. ASSUME NEW s \in ScanIds, NEW img \in Images, Upload(s, img)
      PROVE  BusyInv'
  <2>1. PICK k \in FreeJobs : job' = WithRow(job, k, JobFor(s, "sending"))
    BY <1>1 DEF Upload, Asks
  <2>. DEFINE row == [image |-> img, status |-> "pending", read |-> NoImage,
                      saved |-> FALSE, discarded |-> FALSE]
  <2>2. row \in ScanRow /\ row.status = "pending" /\ scan' = WithRow(scan, s, row)
    BY <1>1 DEF Upload, ScanRow, ScanStatus, Unfinished
  <2>. HIDE DEF row
  <2>3. /\ IsTable(scan', ScanIds, ScanRow)
        /\ \A t \in DOMAIN scan' :
              scan'[t].status \in Running => t \in DOMAIN scan /\ scan[t].status \in Running
    BY <1>0, <2>2 DEF IsTable, WithRow, With, Running
  <2>. QED BY <1>0, <1>1, <2>1, <2>3, NewJobFacts, WebInv DEF Upload
<1>2. ASSUME NEW s \in ScanIds, Retry(s)
      PROVE  BusyInv'
  <2>1. PICK k \in FreeJobs : job' = WithRow(job, k, JobFor(s, "sending"))
    BY <1>2 DEF Retry, Asks
  <2>. DEFINE row == [scan[s] EXCEPT !.status = "pending"]
  <2>2. row \in ScanRow /\ row.status = "pending" /\ s \in DOMAIN scan
    BY <1>0, <1>2 DEF Retry, ScanRow, ScanStatus, Unfinished
  <2>3. scan' = [scan EXCEPT ![s] = row]
    BY <1>2 DEF Retry
  <2>. HIDE DEF row
  <2>4. /\ IsTable(scan', ScanIds, ScanRow)
        /\ \A t \in DOMAIN scan' :
              scan'[t].status \in Running => t \in DOMAIN scan /\ scan[t].status \in Running
    BY <2>2, <2>3, ScanRowFacts DEF Running
  <2>. QED BY <1>0, <1>2, <2>1, <2>4, NewJobFacts, WebInv DEF Retry
<1>3. ASSUME NEW s \in ScanIds, Discard(s) \/ Restore(s) \/ Save(s) \/ DeletePiece(s)
      PROVE  BusyInv'
  <2>1. PICK row \in ScanRow :
           /\ s \in DOMAIN scan /\ scan' = [scan EXCEPT ![s] = row]
           /\ row.status = scan[s].status
    <3>1. s \in DOMAIN scan
      BY <1>3 DEF Discard, Restore, Save, DeletePiece
    <3>2. /\ [scan[s] EXCEPT !.discarded = TRUE] \in ScanRow
          /\ [scan[s] EXCEPT !.discarded = FALSE] \in ScanRow
          /\ [scan[s] EXCEPT !.saved = TRUE] \in ScanRow
          /\ [scan[s] EXCEPT !.saved = FALSE] \in ScanRow
          /\ [scan[s] EXCEPT !.discarded = TRUE].status = scan[s].status
          /\ [scan[s] EXCEPT !.discarded = FALSE].status = scan[s].status
          /\ [scan[s] EXCEPT !.saved = TRUE].status = scan[s].status
          /\ [scan[s] EXCEPT !.saved = FALSE].status = scan[s].status
      BY <1>0, <3>1 DEF ScanRow
    <3>3. CASE Discard(s)
      BY <3>1, <3>2, <3>3 DEF Discard
    <3>4. CASE Restore(s)
      BY <3>1, <3>2, <3>4 DEF Restore
    <3>5. CASE Save(s)
      BY <3>1, <3>2, <3>5 DEF Save
    <3>6. CASE DeletePiece(s)
      BY <3>1, <3>2, <3>6 DEF DeletePiece
    <3>. QED BY <1>3, <3>3, <3>4, <3>5, <3>6
  <2>2. job' = job /\ retry' = retry /\ stops' = stops
    BY <1>3 DEF Discard, Restore, Save, DeletePiece
  <2>3. /\ IsTable(scan', ScanIds, ScanRow)
        /\ \A t \in DOMAIN scan' :
              scan'[t].status \in Running => t \in DOMAIN scan /\ scan[t].status \in Running
    BY <2>1, ScanRowFacts
  <2>. QED BY <1>0, <2>2, <2>3, WebInv
<1>4. ASSUME NEW s \in ScanIds, RequeueStuck(s)
      PROVE  BusyInv'
  <2>1. PICK k \in FreeJobs : job' = WithRow(job, k, JobFor(s, "sending"))
    BY <1>4 DEF RequeueStuck, Asks
  <2>. QED BY <1>0, <1>4, <2>1, NewJobFacts, WebInv DEF RequeueStuck
<1>5. ASSUME NEW j \in JobIds, Enqueue(j)
      PROVE  BusyInv'
  <2>. DEFINE row == [job[j] EXCEPT !.phase = "queued"]
  <2>1. /\ j \in DOMAIN job /\ job[j].phase = "sending" /\ job[j] \in JobRow
        /\ job' = [job EXCEPT ![j] = row]
        /\ scan' = scan /\ retry' = retry /\ stops' = stops
    BY <1>0, <1>5 DEF Enqueue
  <2>2. job[j].image = NoImage /\ job[j].tries <= stops
    BY <2>1, TriesAssumption DEF BusyInv, TypeOK, TriesBounded, Running, JobRow
  <2>3. row \in JobRow /\ row.phase = "queued" /\ row.image = NoImage /\ row.tries <= stops
    BY <2>1, <2>2 DEF JobRow
  <2>. HIDE DEF row
  <2>4. /\ IsTable(job', JobIds, JobRow) /\ DOMAIN job' = DOMAIN job
        /\ job'[j] = row
        /\ \A i \in DOMAIN job \ {j} : job'[i] = job[i]
    BY <1>0, <2>1, <2>3 DEF IsTable
  <2>. QED BY <1>0, <2>1, <2>3, <2>4, WebInv
<1>. QED BY <1>1, <1>2, <1>3, <1>4, <1>5 DEF EditorStep

LEMMA OtherWebInv == BusyInv /\ (DeleteStep \/ RedisFault \/ RetryStep) => BusyInv'
<1>. SUFFICES ASSUME BusyInv, DeleteStep \/ RedisFault \/ RetryStep PROVE BusyInv'
  OBVIOUS
<1>0. /\ IsTable(scan, ScanIds, ScanRow) /\ IsTable(job, JobIds, JobRow)
      /\ retry \in [left : SUBSET ScanIds, sent : SUBSET ScanIds]
      /\ \A s \in DOMAIN scan : s \in ScanIds /\ scan[s] \in ScanRow
  BY DEF BusyInv, TypeOK, IsTable
<1>1. ASSUME NEW s \in ScanIds, DeleteScan(s)
      PROVE  BusyInv'
  <2>1. /\ IsTable(scan', ScanIds, ScanRow)
        /\ \A t \in DOMAIN scan' : t \in DOMAIN scan /\ scan'[t] = scan[t]
    BY <1>0, <1>1 DEF DeleteScan, Without, IsTable
  <2>. QED BY <1>0, <1>1, <2>1, WebInv DEF DeleteScan
<1>2. ASSUME NEW j \in JobIds, EnqueueFails(j)
      PROVE  BusyInv'
  <2>1. /\ IsTable(job', JobIds, JobRow)
        /\ \A i \in DOMAIN job' : i \in DOMAIN job /\ job'[i] = job[i]
        /\ \A i \in DOMAIN job : job[i].phase # "sending" => i \in DOMAIN job'
    BY <1>0, <1>2 DEF EnqueueFails, Ends, Without, IsTable
  <2>. QED BY <1>0, <1>2, <2>1, WebInv DEF EnqueueFails
<1>3. CASE RetryFailed \/ RetryFailedFails
  <2>1. retry' \in [left : SUBSET ScanIds, sent : SUBSET ScanIds]
    BY <1>0, <1>3 DEF RetryFailed, RetryFailedFails, Failed, NoRetry
  <2>. QED BY <1>0, <1>3, <2>1, WebInv DEF RetryFailed, RetryFailedFails
<1>4. ASSUME NEW s \in ScanIds, RetryFailedEnqueue(s)
      PROVE  BusyInv'
  <2>1. PICK k \in FreeJobs : job' = WithRow(job, k, JobFor(s, "queued"))
    BY <1>4 DEF RetryFailedEnqueue
  <2>2. retry' \in [left : SUBSET ScanIds, sent : SUBSET ScanIds]
    BY <1>0, <1>4 DEF RetryFailedEnqueue
  <2>. QED BY <1>0, <1>4, <2>1, <2>2, NewJobFacts, WebInv DEF RetryFailedEnqueue
<1>5. CASE RetryFailedCommit
  <2>1. \A s \in DOMAIN scan : [scan[s] EXCEPT !.status = "pending"] \in ScanRow
    BY <1>0 DEF ScanRow, ScanStatus, Unfinished
  <2>2. DOMAIN scan' = DOMAIN scan /\ scan' = [s \in DOMAIN scan |-> scan'[s]]
    BY <1>0, <1>5 DEF RetryFailedCommit, IsTable
  <2>3. ASSUME NEW s \in DOMAIN scan
        PROVE  scan'[s] = scan[s] \/ scan'[s] = [scan[s] EXCEPT !.status = "pending"]
    BY <1>5 DEF RetryFailedCommit
  <2>4. \A s \in DOMAIN scan :
           scan'[s] \in ScanRow /\ (scan'[s].status \in Running => scan[s].status \in Running)
    BY <1>0, <2>1, <2>3 DEF ScanRow, Running
  <2>5. IsTable(scan', ScanIds, ScanRow)
    BY <1>0, <2>2, <2>4 DEF IsTable
  <2>6. retry' \in [left : SUBSET ScanIds, sent : SUBSET ScanIds]
    BY <1>5 DEF RetryFailedCommit, NoRetry
  <2>. QED BY <1>0, <1>5, <2>2, <2>4, <2>5, <2>6, WebInv DEF RetryFailedCommit
<1>. QED BY <1>1, <1>2, <1>3, <1>4, <1>5 DEF DeleteStep, RedisFault, RetryStep

-----------------------------------------------------------------------------
(* The parts of the invariant that a step of the job j keeps: its own scan   *)
(* is busy afterwards only if the job goes on, and no other job ends.        *)
LEMMA JobInv ==
  ASSUME BusyInv, NEW j \in DOMAIN job,
         IsTable(scan', ScanIds, ScanRow),
         DOMAIN scan' = DOMAIN scan,
         \A s \in DOMAIN scan \ {job[j].scan} : scan'[s] = scan[s],
         IsTable(job', JobIds, JobRow),
         \A i \in DOMAIN job \ {j} : i \in DOMAIN job' /\ job'[i] = job[i],
         DOMAIN job' \subseteq DOMAIN job,
         j \in DOMAIN job' =>
            /\ job'[j].scan = job[j].scan
            /\ job'[j].phase # "sending"
            /\ (job'[j].image # NoImage) <=> (job'[j].phase \in Running)
            /\ job'[j].tries <= stops' + (IF job'[j].phase \in Running THEN 1 ELSE 0),
         j \notin DOMAIN job' =>
            (job[j].scan \in DOMAIN scan => scan'[job[j].scan].status \notin Running),
         retry' = retry,
         stops' \in 0..MaxStops, stops <= stops'
  PROVE  BusyInv'
<1>1. stops \in Nat /\ stops' \in Nat
  BY TriesAssumption DEF BusyInv, TypeOK
<1>2. TypeOK'
  <2>1. ASSUME NEW i \in DOMAIN job'
        PROVE  (job'[i].image # NoImage) <=> (job'[i].phase \in Running)
    BY DEF BusyInv, TypeOK
  <2>2. retry' \in [left : SUBSET ScanIds, sent : SUBSET ScanIds]
    BY DEF BusyInv, TypeOK
  <2>. QED BY <2>1, <2>2 DEF TypeOK
<1>3. TriesBounded'
  <2>1. ASSUME NEW i \in DOMAIN job'
        PROVE  job'[i].tries <= stops' + (IF job'[i].phase \in Running THEN 1 ELSE 0)
    <3>1. CASE i = j
      BY <3>1
    <3>2. CASE i # j
      <4>1. job'[i] = job[i] /\ i \in DOMAIN job
        BY <3>2
      <4>2. job[i].tries \in Nat
        BY <4>1 DEF BusyInv, TypeOK, IsTable, JobRow
      <4>3. job[i].tries <= stops + (IF job[i].phase \in Running THEN 1 ELSE 0)
        BY <4>1 DEF BusyInv, TriesBounded
      <4>. QED BY <1>1, <4>1, <4>2, <4>3
    <3>. QED BY <3>1, <3>2
  <2>. QED BY <2>1 DEF TriesBounded
<1>4. BusyHasJob'
  <2>. SUFFICES ASSUME stops' < MaxTries,
                       NEW s \in DOMAIN scan', scan'[s].status \in Running
                PROVE  \E i \in DOMAIN job' : job'[i].scan = s /\ job'[i].phase # "sending"
    BY DEF BusyHasJob, JobsOf
  <2>0. stops < MaxTries
    BY <1>1, TriesAssumption
  <2>1. CASE s = job[j].scan
    BY <2>1
  <2>2. CASE s # job[j].scan
    <3>1. PICK i \in DOMAIN job : job[i].scan = s /\ job[i].phase # "sending"
      BY <2>0, <2>2 DEF BusyInv, BusyHasJob, JobsOf
    <3>. QED BY <2>2, <3>1
  <2>. QED BY <2>1, <2>2
<1>. QED BY <1>2, <1>3, <1>4 DEF BusyInv

(* What Writes does to the table of scans. *)
LEMMA WritesFacts ==
  ASSUME BusyInv, NEW j \in DOMAIN job, NEW status \in ScanStatus, Writes(j, status)
  PROVE  /\ IsTable(scan', ScanIds, ScanRow)
         /\ DOMAIN scan' = DOMAIN scan
         /\ \A s \in DOMAIN scan \ {job[j].scan} : scan'[s] = scan[s]
         /\ job[j].scan \in DOMAIN scan => scan'[job[j].scan].status = status
<1>1. PICK s : s = job[j].scan
  OBVIOUS
<1>2. CASE s \in DOMAIN scan
  <2>. DEFINE row == [scan[s] EXCEPT !.status = status]
  <2>1. scan[s] \in ScanRow
    BY <1>2 DEF BusyInv, TypeOK, IsTable
  <2>2. row \in ScanRow /\ row.status = status
    BY <2>1 DEF ScanRow
  <2>3. scan' = [scan EXCEPT ![s] = row]
    BY <1>1, <1>2 DEF Writes
  <2>. HIDE DEF row
  <2>. QED BY <1>1, <1>2, <2>2, <2>3 DEF BusyInv, TypeOK, IsTable
<1>3. CASE s \notin DOMAIN scan
  BY <1>1, <1>3 DEF Writes, BusyInv, TypeOK
<1>. QED BY <1>2, <1>3

(* The job j ends. *)
LEMMA EndsFacts ==
  ASSUME BusyInv, NEW j \in DOMAIN job, Ends(j)
  PROVE  /\ IsTable(job', JobIds, JobRow)
         /\ \A i \in DOMAIN job \ {j} : i \in DOMAIN job' /\ job'[i] = job[i]
         /\ DOMAIN job' \subseteq DOMAIN job
         /\ j \notin DOMAIN job'
BY DEF Ends, Without, BusyInv, TypeOK, IsTable

(* The row of the job j is replaced. *)
LEMMA JobRowFacts ==
  ASSUME BusyInv, NEW j \in DOMAIN job, NEW row \in JobRow, job' = [job EXCEPT ![j] = row]
  PROVE  /\ IsTable(job', JobIds, JobRow)
         /\ \A i \in DOMAIN job \ {j} : i \in DOMAIN job' /\ job'[i] = job[i]
         /\ DOMAIN job' = DOMAIN job
         /\ job'[j] = row
BY DEF BusyInv, TypeOK, IsTable

LEMMA StartInv ==
  ASSUME BusyInv, NEW j \in JobIds, Start(j)
  PROVE  BusyInv'
<1>1. /\ j \in DOMAIN job /\ job[j] \in JobRow /\ job[j].phase = "queued"
      /\ retry' = retry /\ stops' = stops
      /\ stops \in 0..MaxStops /\ stops \in Nat
  BY TriesAssumption DEF Start, BusyInv, TypeOK, IsTable
<1>2. CASE job[j].scan \in DOMAIN scan
  <2>1. PICK img : img = scan[job[j].scan].image
    OBVIOUS
  <2>. DEFINE row == [scan |-> job[j].scan, phase |-> "extracting",
                      image |-> img, tries |-> job[j].tries + 1]
  <2>2. Writes(j, "extracting") /\ job' = [job EXCEPT ![j] = row]
    BY <1>1, <1>2, <2>1 DEF Start
  <2>3. img \in Images
    BY <1>2, <2>1 DEF BusyInv, TypeOK, IsTable, ScanRow
  <2>4. /\ row \in JobRow /\ row.scan = job[j].scan /\ row.phase = "extracting"
        /\ row.image = img /\ row.tries = job[j].tries + 1
    BY <1>1, <2>3 DEF JobRow, Running
  <2>. HIDE DEF row
  <2>5. job[j].tries <= stops /\ job[j].tries \in Nat
    BY <1>1 DEF BusyInv, TriesBounded, Running, JobRow
  <2>6. "extracting" \in ScanStatus /\ "extracting" \in Running
    BY DEF ScanStatus, Unfinished, Running
  <2>7. img # NoImage
    BY <2>3, ImagesAssumption
  <2>8. row.tries <= stops + (IF row.phase \in Running THEN 1 ELSE 0)
    BY <1>1, <2>4, <2>5, <2>6
  <2>9. /\ IsTable(scan', ScanIds, ScanRow)
        /\ DOMAIN scan' = DOMAIN scan
        /\ \A s \in DOMAIN scan \ {job[j].scan} : scan'[s] = scan[s]
    BY <1>1, <2>2, <2>6, WritesFacts
  <2>10. /\ IsTable(job', JobIds, JobRow)
         /\ \A i \in DOMAIN job \ {j} : i \in DOMAIN job' /\ job'[i] = job[i]
         /\ DOMAIN job' = DOMAIN job
         /\ job'[j] = row
    BY <1>1, <2>2, <2>4, JobRowFacts
  <2>. QED BY <1>1, <2>4, <2>6, <2>7, <2>8, <2>9, <2>10, JobInv
<1>3. CASE job[j].scan \notin DOMAIN scan
  <2>1. Ends(j) /\ scan' = scan
    BY <1>3 DEF Start
  <2>. QED BY <1>1, <1>3, <2>1, EndsFacts, JobInv DEF BusyInv, TypeOK
<1>. QED BY <1>2, <1>3

LEMMA ExtractedInv ==
  ASSUME BusyInv, NEW j \in JobIds, Extracted(j)
  PROVE  BusyInv'
<1>1. /\ j \in DOMAIN job /\ job[j] \in JobRow /\ job[j].phase = "extracting"
      /\ retry' = retry /\ stops' = stops
      /\ stops \in 0..MaxStops /\ stops \in Nat
  BY TriesAssumption DEF Extracted, BusyInv, TypeOK, IsTable
<1>2. CASE job[j].scan \in DOMAIN scan
  <2>1. PICK s : s = job[j].scan
    OBVIOUS
  <2>. DEFINE done == [scan[s] EXCEPT !.read = job[j].image, !.status = "enriching"]
              row == [job[j] EXCEPT !.phase = "enriching"]
  <2>2. scan' = [scan EXCEPT ![s] = done] /\ job' = [job EXCEPT ![j] = row]
    BY <1>1, <1>2, <2>1 DEF Extracted
  <2>3. scan[s] \in ScanRow
    BY <1>2, <2>1 DEF BusyInv, TypeOK, IsTable
  <2>4. done \in ScanRow
    BY <1>1, <2>3 DEF ScanRow, JobRow, ScanStatus, Unfinished
  <2>5. /\ row \in JobRow /\ row.scan = job[j].scan /\ row.phase = "enriching"
        /\ row.image = job[j].image /\ row.tries = job[j].tries
    BY <1>1 DEF JobRow, Running
  <2>. HIDE DEF done, row
  <2>6. job[j].phase \in Running /\ "enriching" \in Running
    BY <1>1 DEF Running
  <2>7. job[j].image # NoImage
    BY <1>1, <2>6 DEF BusyInv, TypeOK
  <2>8. row.tries <= stops + (IF row.phase \in Running THEN 1 ELSE 0)
    BY <1>1, <2>5, <2>6 DEF BusyInv, TriesBounded
  <2>9. /\ IsTable(scan', ScanIds, ScanRow)
        /\ DOMAIN scan' = DOMAIN scan
        /\ \A t \in DOMAIN scan \ {job[j].scan} : scan'[t] = scan[t]
    BY <1>2, <2>1, <2>2, <2>4 DEF BusyInv, TypeOK, IsTable
  <2>10. /\ IsTable(job', JobIds, JobRow)
         /\ \A i \in DOMAIN job \ {j} : i \in DOMAIN job' /\ job'[i] = job[i]
         /\ DOMAIN job' = DOMAIN job
         /\ job'[j] = row
    BY <1>1, <2>2, <2>5, JobRowFacts
  <2>. QED BY <1>1, <2>5, <2>6, <2>7, <2>8, <2>9, <2>10, JobInv
<1>3. CASE job[j].scan \notin DOMAIN scan
  <2>1. Ends(j) /\ scan' = scan
    BY <1>3 DEF Extracted
  <2>. QED BY <1>1, <1>3, <2>1, EndsFacts, JobInv DEF BusyInv, TypeOK
<1>. QED BY <1>2, <1>3

LEMMA FinishInv ==
  ASSUME BusyInv, NEW j \in JobIds, Enriched(j) \/ Fails(j)
  PROVE  BusyInv'
<1>1. PICK status \in {"done", "failed"} : Writes(j, status)
  BY DEF Enriched, Fails
<1>2. /\ j \in DOMAIN job /\ Ends(j)
      /\ retry' = retry /\ stops' = stops
      /\ stops \in 0..MaxStops /\ stops \in Nat
  BY TriesAssumption DEF Enriched, Fails, BusyInv, TypeOK
<1>3. status \in ScanStatus /\ status \notin Running
  BY DEF ScanStatus, Finished, Running
<1>4. /\ IsTable(scan', ScanIds, ScanRow)
      /\ DOMAIN scan' = DOMAIN scan
      /\ \A s \in DOMAIN scan \ {job[j].scan} : scan'[s] = scan[s]
      /\ job[j].scan \in DOMAIN scan => scan'[job[j].scan].status = status
  BY <1>1, <1>2, <1>3, WritesFacts
<1>5. /\ IsTable(job', JobIds, JobRow)
      /\ \A i \in DOMAIN job \ {j} : i \in DOMAIN job' /\ job'[i] = job[i]
      /\ DOMAIN job' \subseteq DOMAIN job
      /\ j \notin DOMAIN job'
  BY <1>2, EndsFacts
<1>. QED BY <1>2, <1>3, <1>4, <1>5, JobInv

(* A job that is in the queue again. *)
LEMMA RequeuedFacts ==
  ASSUME BusyInv, NEW j \in DOMAIN job, job[j].phase \in Running
  PROVE  /\ Requeued(j) \in JobRow
         /\ Requeued(j).scan = job[j].scan
         /\ Requeued(j).phase = "queued"
         /\ Requeued(j).image = NoImage
         /\ Requeued(j).tries <= stops + 1
<1>1. job[j] \in JobRow
  BY DEF BusyInv, TypeOK, IsTable
<1>2. job[j].tries <= stops + 1
  BY DEF BusyInv, TriesBounded
<1>. QED BY <1>1, <1>2 DEF Requeued, JobRow

LEMMA ShutdownInv ==
  ASSUME BusyInv, NEW j \in JobIds, Shutdown(j)
  PROVE  BusyInv'
<1>1. /\ j \in DOMAIN job /\ job[j].phase \in Running
      /\ Writes(j, "failed") /\ job' = [job EXCEPT ![j] = Requeued(j)]
      /\ retry' = retry /\ stops' = stops + 1
      /\ stops' \in 0..MaxStops /\ stops \in Nat
  BY TriesAssumption DEF Shutdown, BusyInv, TypeOK
<1>2. PICK row : row = Requeued(j)
  OBVIOUS
<1>3. /\ row \in JobRow /\ row.scan = job[j].scan /\ row.phase = "queued"
      /\ row.image = NoImage /\ row.tries <= stops + 1
  BY <1>1, <1>2, RequeuedFacts
<1>4. /\ IsTable(job', JobIds, JobRow)
      /\ \A i \in DOMAIN job \ {j} : i \in DOMAIN job' /\ job'[i] = job[i]
      /\ DOMAIN job' = DOMAIN job
      /\ job'[j] = row
  BY <1>1, <1>2, <1>3, JobRowFacts
<1>5. "failed" \in ScanStatus
  BY DEF ScanStatus, Finished
<1>6. /\ IsTable(scan', ScanIds, ScanRow)
      /\ DOMAIN scan' = DOMAIN scan
      /\ \A s \in DOMAIN scan \ {job[j].scan} : scan'[s] = scan[s]
  BY <1>1, <1>5, WritesFacts
<1>7. "queued" \notin Running /\ "queued" # "sending"
  BY DEF Running
<1>8. row.tries <= stops' + (IF row.phase \in Running THEN 1 ELSE 0)
  <2>1. row.tries \in Nat
    BY <1>3 DEF JobRow
  <2>. QED BY <1>1, <1>3, <1>7, <2>1
<1>9. stops <= stops'
  BY <1>1
<1>. QED BY <1>1, <1>3, <1>4, <1>6, <1>7, <1>8, <1>9, JobInv

LEMMA CrashInv ==
  ASSUME BusyInv, Crash
  PROVE  BusyInv'
<1>1. /\ scan' = scan /\ retry' = retry /\ stops' = stops + 1
      /\ stops' \in 0..MaxStops /\ stops \in Nat
  BY TriesAssumption DEF Crash, BusyInv, TypeOK
<1>2. DOMAIN job' = DOMAIN job /\ job' = [j \in DOMAIN job |-> job'[j]]
  BY DEF Crash
<1>3. ASSUME NEW j \in DOMAIN job
      PROVE  /\ job'[j] \in JobRow
             /\ job'[j].scan = job[j].scan
             /\ job[j].phase # "sending" => job'[j].phase # "sending"
             /\ job'[j].phase \notin Running
             /\ job'[j].image = NoImage
             /\ job'[j].tries <= stops + 1
  <2>1. job[j] \in JobRow /\ job[j].tries \in Nat
    BY DEF BusyInv, TypeOK, IsTable, JobRow
  <2>2. CASE job[j].phase \in Running
    <3>1. PICK row : row = Requeued(j)
      OBVIOUS
    <3>2. /\ row \in JobRow /\ row.scan = job[j].scan /\ row.phase = "queued"
          /\ row.image = NoImage /\ row.tries <= stops + 1
      BY <2>2, <3>1, RequeuedFacts
    <3>3. job'[j] = row
      BY <2>2, <3>1 DEF Crash
    <3>. QED BY <3>2, <3>3 DEF Running
  <2>3. CASE job[j].phase \notin Running
    <3>1. job'[j] = job[j]
      BY <2>3 DEF Crash
    <3>2. job[j].image = NoImage
      BY <2>3 DEF BusyInv, TypeOK
    <3>3. job[j].tries <= stops
      BY <1>1, <2>1, <2>3 DEF BusyInv, TriesBounded
    <3>. QED BY <1>1, <2>1, <2>3, <3>1, <3>2, <3>3
  <2>. QED BY <2>2, <2>3
<1>4. TypeOK'
  <2>1. IsTable(job', JobIds, JobRow)
    BY <1>2, <1>3 DEF BusyInv, TypeOK, IsTable
  <2>2. \A j \in DOMAIN job' : (job'[j].image # NoImage) <=> (job'[j].phase \in Running)
    BY <1>2, <1>3
  <2>. QED BY <1>1, <2>1, <2>2 DEF BusyInv, TypeOK
<1>5. TriesBounded'
  <2>1. ASSUME NEW j \in DOMAIN job'
        PROVE  job'[j].tries <= stops' + (IF job'[j].phase \in Running THEN 1 ELSE 0)
    <3>1. job'[j].tries \in Nat /\ job'[j].tries <= stops + 1 /\ job'[j].phase \notin Running
      BY <1>2, <1>3 DEF JobRow
    <3>. QED BY <1>1, <3>1
  <2>. QED BY <2>1 DEF TriesBounded
<1>6. BusyHasJob'
  <2>1. stops' < MaxTries => stops < MaxTries
    BY <1>1, TriesAssumption
  <2>. QED BY <1>1, <1>2, <1>3, <2>1 DEF BusyInv, BusyHasJob, JobsOf
<1>. QED BY <1>4, <1>5, <1>6 DEF BusyInv

(* arq gives a job up only after it was started MaxTries times, so the       *)
(* workers were stopped as often.                                            *)
LEMMA GiveUpInv ==
  ASSUME BusyInv, NEW j \in JobIds, GiveUp(j)
  PROVE  BusyInv'
<1>1. /\ j \in DOMAIN job /\ job[j].phase = "queued" /\ job[j].tries >= MaxTries
      /\ job[j].tries \in Nat
      /\ Ends(j) /\ scan' = scan /\ retry' = retry /\ stops' = stops
  BY DEF GiveUp, BusyInv, TypeOK, IsTable, JobRow
<1>2. stops \in Nat
  BY TriesAssumption DEF BusyInv, TypeOK
<1>3. job[j].tries <= stops
  BY <1>1, <1>2 DEF BusyInv, TriesBounded, Running
<1>4. ~(stops' < MaxTries)
  BY <1>1, <1>2, <1>3, TriesAssumption
<1>5. /\ IsTable(job', JobIds, JobRow)
      /\ \A i \in DOMAIN job' : i \in DOMAIN job /\ job'[i] = job[i]
  BY <1>1 DEF Ends, Without, BusyInv, TypeOK, IsTable
<1>6. TypeOK' /\ TriesBounded'
  BY <1>1, <1>5 DEF BusyInv, TypeOK, TriesBounded
<1>. QED BY <1>4, <1>6 DEF BusyInv, BusyHasJob

(* No step of the worker breaks the invariant. *)
LEMMA WorkerStepInv == BusyInv /\ WorkerStep => BusyInv'
<1>. SUFFICES ASSUME BusyInv, WorkerStep PROVE BusyInv'
  OBVIOUS
<1>1. ASSUME NEW j \in JobIds, Start(j)
      PROVE  BusyInv'
  BY <1>1, StartInv
<1>2. ASSUME NEW j \in JobIds, GiveUp(j)
      PROVE  BusyInv'
  BY <1>2, GiveUpInv
<1>3. ASSUME NEW j \in JobIds, Works(j)
      PROVE  BusyInv'
  BY <1>3, ExtractedInv, FinishInv DEF Works
<1>4. ASSUME NEW j \in JobIds, Shutdown(j)
      PROVE  BusyInv'
  BY <1>4, ShutdownInv
<1>5. CASE Crash
  BY <1>5, CrashInv
<1>. QED BY <1>1, <1>2, <1>3, <1>4, <1>5 DEF WorkerStep

-----------------------------------------------------------------------------
(* The invariant holds in every reachable state. *)
LEMMA BusyInvHolds == Spec => []BusyInv
<1>1. Init => BusyInv
  BY TriesAssumption DEF Init, Empty, NoRetry, BusyInv, TypeOK, IsTable, TriesBounded, BusyHasJob
<1>2. BusyInv /\ [Next]_vars => BusyInv'
  <2>. SUFFICES ASSUME BusyInv, [Next]_vars PROVE BusyInv'
    OBVIOUS
  <2>1. CASE Next
    BY <2>1, EditorStepInv, OtherWebInv, WorkerStepInv DEF Next
  <2>2. CASE UNCHANGED vars
    BY <2>2 DEF vars, BusyInv, TypeOK, TriesBounded, BusyHasJob, JobsOf
  <2>. QED BY <2>1, <2>2
<1>. QED BY <1>1, <1>2, PTL DEF Spec

(* Scans and jobs keep their states; only a job that runs has a picture.     *)
THEOREM TypeCorrect == Spec => []TypeOK
<1>1. BusyInv => TypeOK
  BY DEF BusyInv
<1>. QED BY <1>1, BusyInvHolds, PTL

(* Workers may be stopped at any point: until they have been stopped as      *)
(* often as arq starts a job, a scan that is being extracted or enriched has *)
(* a job that will finish it.                                                *)
THEOREM BusyScanHasJob == Spec => []BusyHasJob
<1>1. BusyInv => BusyHasJob
  BY DEF BusyInv
<1>. QED BY <1>1, BusyInvHolds, PTL

-----------------------------------------------------------------------------

(* What the jobs have in hand when no scan is deleted: a job's scan is there, *)
(* the picture it reads is that scan's, and once it has written what it read, *)
(* the scan shows what was read from its own picture.                         *)
PicturesInHand ==
    /\ retry.left \subseteq DOMAIN scan
    /\ \A j \in DOMAIN job :
          /\ job[j].scan \in DOMAIN scan
          /\ job[j].phase \in Running => job[j].image = scan[job[j].scan].image
          /\ job[j].phase = "enriching" => scan[job[j].scan].read = scan[job[j].scan].image

KeptInv == BusyInv /\ DoneHasOwnResult /\ PicturesInHand

Shown == {"enriching", "done"}

(* What a step leaves alone: pictures stay, what is read stays or is the     *)
(* scan's own picture, and a scan is shown only with its own result.         *)
LEMMA KeptStep ==
  ASSUME KeptInv, BusyInv',
         \A s \in DOMAIN scan :
            /\ s \in DOMAIN scan'
            /\ scan'[s].image = scan[s].image
            /\ scan'[s].read \in {scan[s].read, scan[s].image},
         \A s \in DOMAIN scan' :
            scan'[s].status \in Shown =>
               \/ s \in DOMAIN scan /\ scan[s].status \in Shown
               \/ scan'[s].read = scan'[s].image,
         \A j \in DOMAIN job' :
            \/ j \in DOMAIN job /\ job'[j] = job[j]
            \/ /\ job'[j].scan \in DOMAIN scan'
               /\ job'[j].phase \in Running =>
                     job'[j].image = scan'[job'[j].scan].image
               /\ job'[j].phase = "enriching" =>
                     scan'[job'[j].scan].read = scan'[job'[j].scan].image,
         retry'.left \subseteq DOMAIN scan'
  PROVE  KeptInv'
<1>1. DoneHasOwnResult'
  BY DEF KeptInv, DoneHasOwnResult, Shown
<1>2. ASSUME NEW j \in DOMAIN job'
      PROVE  /\ job'[j].scan \in DOMAIN scan'
             /\ job'[j].phase \in Running => job'[j].image = scan'[job'[j].scan].image
             /\ job'[j].phase = "enriching" =>
                   scan'[job'[j].scan].read = scan'[job'[j].scan].image
  <2>1. CASE j \in DOMAIN job /\ job'[j] = job[j]
    <3>1. PICK s : s = job[j].scan
      OBVIOUS
    <3>2. /\ s \in DOMAIN scan
          /\ job[j].phase \in Running => job[j].image = scan[s].image
          /\ job[j].phase = "enriching" => scan[s].read = scan[s].image
      BY <2>1, <3>1 DEF KeptInv, PicturesInHand
    <3>. QED BY <2>1, <3>1, <3>2
  <2>. QED BY <1>2, <2>1
<1>3. PicturesInHand'
  BY <1>2 DEF PicturesInHand
<1>. QED BY <1>1, <1>3 DEF KeptInv

(* The steps that change nothing of a scan but its marks. *)
LEMMA KeptMarks ==
  ASSUME KeptInv, BusyInv', NEW s \in DOMAIN scan, NEW row \in ScanRow,
         scan' = [scan EXCEPT ![s] = row],
         row.image = scan[s].image, row.read = scan[s].read,
         row.status \in {scan[s].status, "pending"},
         job' = job \/ (\E k \in FreeJobs : job' = WithRow(job, k, JobFor(s, "sending"))),
         retry' = retry
  PROVE  KeptInv'
<1>1. DOMAIN scan' = DOMAIN scan /\ scan'[s] = row /\ s \in ScanIds
      /\ \A t \in DOMAIN scan \ {s} : scan'[t] = scan[t]
  BY DEF KeptInv, BusyInv, TypeOK, IsTable
<1>2. \A t \in DOMAIN scan :
        /\ t \in DOMAIN scan'
        /\ scan'[t].image = scan[t].image
        /\ scan'[t].read \in {scan[t].read, scan[t].image}
  BY <1>1
<1>3. \A t \in DOMAIN scan' :
        scan'[t].status \in Shown => t \in DOMAIN scan /\ scan[t].status \in Shown
  BY <1>1 DEF Shown
<1>4. \A j \in DOMAIN job' :
        \/ j \in DOMAIN job /\ job'[j] = job[j]
        \/ job'[j].scan = s /\ job'[j].phase = "sending"
  <2>1. ASSUME NEW k \in FreeJobs, job' = WithRow(job, k, JobFor(s, "sending")),
               NEW j \in DOMAIN job'
        PROVE  \/ j \in DOMAIN job /\ job'[j] = job[j]
               \/ job'[j].scan = s /\ job'[j].phase = "sending"
    BY <2>1 DEF WithRow, With, FreeJobs, JobFor
  <2>. QED BY <2>1
<1>5. retry'.left \subseteq DOMAIN scan'
  BY <1>1 DEF KeptInv, PicturesInHand
<1>. QED BY <1>1, <1>2, <1>3, <1>4, <1>5, KeptStep DEF Running

LEMMA EditorStepKept == KeptInv /\ EditorStep => KeptInv'
<1>. SUFFICES ASSUME KeptInv, EditorStep PROVE KeptInv'
  OBVIOUS
<1>0. /\ BusyInv'
      /\ \A s \in DOMAIN scan : s \in ScanIds /\ scan[s] \in ScanRow
      /\ \A j \in DOMAIN job : j \in JobIds /\ job[j] \in JobRow
      /\ retry.left \subseteq DOMAIN scan
  BY EditorStepInv DEF KeptInv, BusyInv, TypeOK, IsTable, PicturesInHand
<1>1. ASSUME NEW s \in ScanIds, NEW img \in Images, Upload(s, img)
      PROVE  KeptInv'
  <2>1. PICK k \in FreeJobs : job' = WithRow(job, k, JobFor(s, "sending"))
    BY <1>1 DEF Upload, Asks
  <2>2. \A j \in DOMAIN job' :
          \/ j \in DOMAIN job /\ job'[j] = job[j]
          \/ job'[j].scan = s /\ job'[j].phase = "sending"
    BY <2>1 DEF WithRow, With, FreeJobs, JobFor
  <2>3. /\ DOMAIN scan' = DOMAIN scan \cup {s} /\ s \notin DOMAIN scan
        /\ scan'[s].status = "pending"
        /\ \A t \in DOMAIN scan : scan'[t] = scan[t]
        /\ retry' = retry
    BY <1>1 DEF Upload, WithRow, With
  <2>. QED BY <1>0, <2>2, <2>3, KeptStep DEF Running, Shown
<1>2. ASSUME NEW s \in ScanIds,
             Retry(s) \/ Discard(s) \/ Restore(s) \/ Save(s) \/ DeletePiece(s)
      PROVE  KeptInv'
  <2>1. s \in DOMAIN scan /\ scan[s] \in ScanRow
    BY <1>0, <1>2 DEF Retry, Discard, Restore, Save, DeletePiece
  <2>2. PICK row \in ScanRow :
           /\ scan' = [scan EXCEPT ![s] = row]
           /\ row.image = scan[s].image /\ row.read = scan[s].read
           /\ row.status \in {scan[s].status, "pending"}
    <3>1. CASE Retry(s)
      <4>. DEFINE row == [scan[s] EXCEPT !.status = "pending"]
      <4>1. /\ row \in ScanRow /\ row.image = scan[s].image /\ row.read = scan[s].read
            /\ row.status = "pending"
        BY <2>1 DEF ScanRow, ScanStatus, Unfinished
      <4>. QED BY <3>1, <4>1 DEF Retry
    <3>2. CASE Discard(s) \/ Restore(s)
      <4>. DEFINE row(b) == [scan[s] EXCEPT !.discarded = b]
      <4>1. \A b \in BOOLEAN :
              /\ row(b) \in ScanRow /\ row(b).image = scan[s].image
              /\ row(b).read = scan[s].read /\ row(b).status = scan[s].status
        BY <2>1 DEF ScanRow
      <4>2. \E b \in BOOLEAN : scan' = [scan EXCEPT ![s] = row(b)]
        BY <3>2 DEF Discard, Restore
      <4>. HIDE DEF row
      <4>. QED BY <4>1, <4>2
    <3>3. CASE Save(s) \/ DeletePiece(s)
      <4>. DEFINE row(b) == [scan[s] EXCEPT !.saved = b]
      <4>1. \A b \in BOOLEAN :
              /\ row(b) \in ScanRow /\ row(b).image = scan[s].image
              /\ row(b).read = scan[s].read /\ row(b).status = scan[s].status
        BY <2>1 DEF ScanRow
      <4>2. \E b \in BOOLEAN : scan' = [scan EXCEPT ![s] = row(b)]
        BY <3>3 DEF Save, DeletePiece
      <4>. HIDE DEF row
      <4>. QED BY <4>1, <4>2
    <3>. QED BY <1>2, <3>1, <3>2, <3>3
  <2>3. /\ retry' = retry
        /\ job' = job \/ \E k \in FreeJobs : job' = WithRow(job, k, JobFor(s, "sending"))
    BY <1>2 DEF Retry, Discard, Restore, Save, DeletePiece, Asks
  <2>. QED BY <1>0, <2>1, <2>2, <2>3, KeptMarks
<1>3. ASSUME NEW s \in ScanIds, RequeueStuck(s)
      PROVE  KeptInv'
  <2>1. PICK k \in FreeJobs : job' = WithRow(job, k, JobFor(s, "sending"))
    BY <1>3 DEF RequeueStuck, Asks
  <2>2. \A j \in DOMAIN job' :
          \/ j \in DOMAIN job /\ job'[j] = job[j]
          \/ job'[j].scan = s /\ job'[j].phase = "sending"
    BY <2>1 DEF WithRow, With, FreeJobs, JobFor
  <2>3. s \in DOMAIN scan /\ scan' = scan /\ retry' = retry
    BY <1>3 DEF RequeueStuck
  <2>. QED BY <1>0, <2>2, <2>3, KeptStep DEF Running
<1>4. ASSUME NEW j \in JobIds, Enqueue(j)
      PROVE  KeptInv'
  <2>1. /\ j \in DOMAIN job /\ job[j] \in JobRow /\ scan' = scan /\ retry' = retry
        /\ job' = [job EXCEPT ![j] = [@ EXCEPT !.phase = "queued"]]
    BY <1>0, <1>4 DEF Enqueue
  <2>2. \A i \in DOMAIN job' :
          \/ i \in DOMAIN job /\ job'[i] = job[i]
          \/ job'[i].scan = job[j].scan /\ job'[i].phase = "queued"
    BY <2>1 DEF JobRow
  <2>3. job[j].scan \in DOMAIN scan
    BY <2>1 DEF KeptInv, PicturesInHand
  <2>. QED BY <1>0, <2>1, <2>2, <2>3, KeptStep DEF Running
<1>. QED BY <1>1, <1>2, <1>3, <1>4 DEF EditorStep

LEMMA RetryStepKept == KeptInv /\ (RedisFault \/ RetryStep) => KeptInv'
<1>. SUFFICES ASSUME KeptInv, RedisFault \/ RetryStep PROVE KeptInv'
  OBVIOUS
<1>0. /\ BusyInv'
      /\ \A s \in DOMAIN scan : s \in ScanIds /\ scan[s] \in ScanRow
      /\ retry.left \subseteq DOMAIN scan
  BY OtherWebInv DEF KeptInv, BusyInv, TypeOK, IsTable, PicturesInHand
<1>1. ASSUME NEW j \in JobIds, EnqueueFails(j)
      PROVE  KeptInv'
  <2>1. /\ \A i \in DOMAIN job' : i \in DOMAIN job /\ job'[i] = job[i]
        /\ scan' = scan /\ retry' = retry
    BY <1>1 DEF EnqueueFails, Ends, Without
  <2>. QED BY <1>0, <2>1, KeptStep
<1>2. CASE RetryFailed \/ RetryFailedFails
  <2>1. scan' = scan /\ job' = job /\ retry'.left \subseteq DOMAIN scan
    BY <1>2 DEF RetryFailed, RetryFailedFails, Failed, NoRetry
  <2>. QED BY <1>0, <2>1, KeptStep
<1>3. ASSUME NEW s \in ScanIds, RetryFailedEnqueue(s)
      PROVE  KeptInv'
  <2>1. PICK k \in FreeJobs : job' = WithRow(job, k, JobFor(s, "queued"))
    BY <1>3 DEF RetryFailedEnqueue
  <2>2. \A j \in DOMAIN job' :
          \/ j \in DOMAIN job /\ job'[j] = job[j]
          \/ job'[j].scan = s /\ job'[j].phase = "queued"
    BY <2>1 DEF WithRow, With, FreeJobs, JobFor
  <2>3. s \in DOMAIN scan /\ scan' = scan /\ retry'.left \subseteq DOMAIN scan
    BY <1>0, <1>3 DEF RetryFailedEnqueue
  <2>. QED BY <1>0, <2>2, <2>3, KeptStep DEF Running
<1>4. CASE RetryFailedCommit
  <2>1. ASSUME NEW s \in DOMAIN scan
        PROVE  /\ s \in DOMAIN scan'
               /\ scan'[s].image = scan[s].image /\ scan'[s].read = scan[s].read
               /\ scan'[s].status \in {scan[s].status, "pending"}
    <3>1. scan'[s] = scan[s] \/ scan'[s] = [scan[s] EXCEPT !.status = "pending"]
      BY <1>4 DEF RetryFailedCommit
    <3>2. s \in DOMAIN scan' /\ scan[s] \in ScanRow
      BY <1>0, <1>4 DEF RetryFailedCommit
    <3>. QED BY <3>1, <3>2 DEF ScanRow
  <2>2. DOMAIN scan' = DOMAIN scan /\ job' = job /\ retry'.left \subseteq DOMAIN scan
    BY <1>4 DEF RetryFailedCommit, NoRetry
  <2>. QED BY <1>0, <2>1, <2>2, KeptStep DEF Shown
<1>. QED BY <1>1, <1>2, <1>3, <1>4 DEF RedisFault, RetryStep

(* A status is written: the row keeps its picture and what was read. *)
LEMMA WritesKeepPictures ==
  ASSUME BusyInv, NEW j \in DOMAIN job, NEW status, Writes(j, status)
  PROVE  \A s \in DOMAIN scan :
            /\ s \in DOMAIN scan'
            /\ scan'[s].image = scan[s].image /\ scan'[s].read = scan[s].read
            /\ scan'[s].status = (IF s = job[j].scan THEN status ELSE scan[s].status)
<1>1. PICK k : k = job[j].scan
  OBVIOUS
<1>. SUFFICES ASSUME NEW s \in DOMAIN scan
              PROVE  /\ s \in DOMAIN scan'
                     /\ scan'[s].image = scan[s].image /\ scan'[s].read = scan[s].read
                     /\ scan'[s].status = (IF s = k THEN status ELSE scan[s].status)
  BY <1>1
<1>2. scan[s] \in ScanRow
  BY DEF BusyInv, TypeOK, IsTable
<1>3. CASE s = k
  <2>1. scan' = [scan EXCEPT ![s].status = status]
    BY <1>1, <1>3 DEF Writes
  <2>. QED BY <1>2, <1>3, <2>1 DEF ScanRow
<1>4. CASE s # k
  <2>1. s \in DOMAIN scan' /\ scan'[s] = scan[s]
    BY <1>1, <1>4 DEF Writes
  <2>. QED BY <1>4, <2>1
<1>. QED BY <1>3, <1>4

LEMMA WorkerStepKept == KeptInv /\ WorkerStep => KeptInv'
<1>. SUFFICES ASSUME KeptInv, WorkerStep PROVE KeptInv'
  OBVIOUS
<1>0. /\ BusyInv /\ BusyInv'
      /\ \A s \in DOMAIN scan : s \in ScanIds /\ scan[s] \in ScanRow
      /\ \A j \in DOMAIN job :
            /\ j \in JobIds /\ job[j] \in JobRow
            /\ job[j].scan \in DOMAIN scan
            /\ job[j].phase \in Running => job[j].image = scan[job[j].scan].image
            /\ job[j].phase = "enriching" => scan[job[j].scan].read = scan[job[j].scan].image
      /\ retry.left \subseteq DOMAIN scan
  BY WorkerStepInv DEF KeptInv, BusyInv, TypeOK, IsTable, PicturesInHand
<1>1. ASSUME NEW j \in JobIds, Start(j)
      PROVE  KeptInv'
  <2>1. j \in DOMAIN job /\ job[j] \in JobRow /\ retry' = retry
    BY <1>0, <1>1 DEF Start
  <2>2. PICK s \in DOMAIN scan : s = job[j].scan
    BY <1>0, <2>1
  <2>3. /\ Writes(j, "extracting")
        /\ job' = [job EXCEPT ![j] = [scan |-> s, phase |-> "extracting",
                                      image |-> scan[s].image, tries |-> job[j].tries + 1]]
    BY <1>1, <2>1, <2>2 DEF Start
  <2>4. \A t \in DOMAIN scan :
          /\ t \in DOMAIN scan'
          /\ scan'[t].image = scan[t].image /\ scan'[t].read = scan[t].read
          /\ scan'[t].status \in {scan[t].status, "extracting"}
    BY <1>0, <2>1, <2>3, WritesKeepPictures
  <2>5. DOMAIN scan' = DOMAIN scan
    BY <2>3 DEF Writes
  <2>6. \A i \in DOMAIN job' :
          \/ i \in DOMAIN job /\ job'[i] = job[i]
          \/ /\ job'[i].scan = s /\ job'[i].phase = "extracting"
             /\ job'[i].image = scan[s].image
    BY <2>1, <2>3
  <2>. QED BY <1>0, <2>1, <2>4, <2>5, <2>6, KeptStep DEF Shown, Running
<1>2. ASSUME NEW j \in JobIds, GiveUp(j)
      PROVE  KeptInv'
  <2>1. /\ \A i \in DOMAIN job' : i \in DOMAIN job /\ job'[i] = job[i]
        /\ scan' = scan /\ retry' = retry
    BY <1>2 DEF GiveUp, Ends, Without
  <2>. QED BY <1>0, <2>1, KeptStep
<1>3. ASSUME NEW j \in JobIds, Extracted(j)
      PROVE  KeptInv'
  <2>1. /\ j \in DOMAIN job /\ job[j] \in JobRow /\ retry' = retry
        /\ job[j].phase \in Running
    BY <1>0, <1>3 DEF Extracted, Running
  <2>2. PICK s \in DOMAIN scan : s = job[j].scan
    BY <1>0, <2>1
  <2>3. scan[s] \in ScanRow /\ job[j].image = scan[s].image
    BY <1>0, <2>1, <2>2
  <2>. DEFINE row == [scan[s] EXCEPT !.read = scan[s].image, !.status = "enriching"]
  <2>4. /\ scan' = [scan EXCEPT ![s] = row]
        /\ job' = [job EXCEPT ![j] = [@ EXCEPT !.phase = "enriching"]]
    BY <1>3, <2>2, <2>3 DEF Extracted
  <2>5. row.image = scan[s].image /\ row.read = scan[s].image
    BY <2>3 DEF ScanRow
  <2>. HIDE DEF row
  <2>6. /\ DOMAIN scan' = DOMAIN scan
        /\ scan'[s].image = scan[s].image /\ scan'[s].read = scan[s].image
        /\ \A t \in DOMAIN scan \ {s} : scan'[t] = scan[t]
    BY <2>4, <2>5
  <2>7. \A i \in DOMAIN job' :
          \/ i \in DOMAIN job /\ job'[i] = job[i]
          \/ /\ job'[i].scan = s /\ job'[i].image = scan[s].image
    BY <2>1, <2>2, <2>3, <2>4 DEF JobRow
  <2>. QED BY <1>0, <2>1, <2>6, <2>7, KeptStep
<1>4. ASSUME NEW j \in JobIds, Enriched(j)
      PROVE  KeptInv'
  <2>1. /\ j \in DOMAIN job /\ job[j].phase = "enriching" /\ Writes(j, "done")
        /\ Ends(j) /\ retry' = retry
    BY <1>4 DEF Enriched
  <2>2. PICK s \in DOMAIN scan : s = job[j].scan /\ scan[s].read = scan[s].image
    BY <1>0, <2>1
  <2>3. \A t \in DOMAIN scan :
          /\ t \in DOMAIN scan'
          /\ scan'[t].image = scan[t].image /\ scan'[t].read = scan[t].read
          /\ t # s => scan'[t].status = scan[t].status
    BY <1>0, <2>1, <2>2, WritesKeepPictures
  <2>4. DOMAIN scan' = DOMAIN scan
    BY <2>1 DEF Writes
  <2>5. \A i \in DOMAIN job' : i \in DOMAIN job /\ job'[i] = job[i]
    BY <2>1 DEF Ends, Without
  <2>. QED BY <1>0, <2>1, <2>2, <2>3, <2>4, <2>5, KeptStep
<1>5. ASSUME NEW j \in JobIds, Fails(j) \/ Shutdown(j)
      PROVE  KeptInv'
  <2>1. j \in DOMAIN job /\ job[j] \in JobRow /\ Writes(j, "failed") /\ retry' = retry
    BY <1>0, <1>5 DEF Fails, Shutdown
  <2>2. \A t \in DOMAIN scan :
          /\ t \in DOMAIN scan'
          /\ scan'[t].image = scan[t].image /\ scan'[t].read = scan[t].read
          /\ scan'[t].status \in {scan[t].status, "failed"}
    BY <1>0, <2>1, WritesKeepPictures
  <2>3. DOMAIN scan' = DOMAIN scan
    BY <2>1 DEF Writes
  <2>4. \A i \in DOMAIN job' :
          \/ i \in DOMAIN job /\ job'[i] = job[i]
          \/ job'[i].scan = job[j].scan /\ job'[i].phase = "queued"
    <3>1. CASE Fails(j)
      BY <3>1 DEF Fails, Ends, Without
    <3>2. CASE Shutdown(j)
      BY <2>1, <3>2 DEF Shutdown, Requeued, JobRow
    <3>. QED BY <1>5, <3>1, <3>2
  <2>. QED BY <1>0, <2>1, <2>2, <2>3, <2>4, KeptStep DEF Shown, Running
<1>6. CASE Crash
  <2>1. scan' = scan /\ retry' = retry
    BY <1>6 DEF Crash
  <2>2. \A i \in DOMAIN job' :
          \/ i \in DOMAIN job /\ job'[i] = job[i]
          \/ job'[i].scan \in DOMAIN scan /\ job'[i].phase = "queued"
    BY <1>0, <1>6 DEF Crash, Requeued, JobRow
  <2>. QED BY <1>0, <2>1, <2>2, KeptStep DEF Running
<1>. QED BY <1>1, <1>2, <1>3, <1>4, <1>5, <1>6 DEF WorkerStep, Works

(* Retries, timeouts, restarts and a lost Redis may start as many jobs for a *)
(* scan as they like, in any order: as long as no scan is deleted, what the  *)
(* reviewer of a finished scan sees was read from the scan's own picture.    *)
THEOREM ResultIsOwn == KeptSpec => []DoneHasOwnResult
<1>1. Init => KeptInv
  BY TriesAssumption
  DEF Init, Empty, NoRetry, KeptInv, BusyInv, TypeOK, IsTable, TriesBounded, BusyHasJob,
      DoneHasOwnResult, PicturesInHand
<1>2. KeptInv /\ [EditorStep \/ RedisFault \/ RetryStep \/ WorkerStep]_vars => KeptInv'
  <2>. SUFFICES ASSUME KeptInv, [EditorStep \/ RedisFault \/ RetryStep \/ WorkerStep]_vars
                PROVE  KeptInv'
    OBVIOUS
  <2>1. CASE UNCHANGED vars
    BY <2>1 DEF vars, KeptInv, BusyInv, TypeOK, TriesBounded, BusyHasJob, JobsOf,
                DoneHasOwnResult, PicturesInHand
  <2>. QED BY <2>1, EditorStepKept, RetryStepKept, WorkerStepKept
<1>3. KeptInv => DoneHasOwnResult
  BY DEF KeptInv
<1>. QED BY <1>1, <1>2, <1>3, PTL DEF KeptSpec
=============================================================================

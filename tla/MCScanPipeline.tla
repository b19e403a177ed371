---------------------------- MODULE MCScanPipeline ----------------------------
(* Instances of ScanPipeline: what may happen is chosen by the groups of    *)
(* steps a specification has.                                               *)
EXTENDS ScanPipeline, TLC

Keys == Permutations(ScanIds) \cup Permutations(JobIds) \cup Permutations(Images)

(* Redis answers, and retry_failed is not used. *)
LiveSpec == Init /\ [][EditorStep \/ DeleteStep \/ WorkerStep]_vars /\ Fairness

(* Redis answers, and retry_failed is used. *)
RetryingSpec == Init /\ [][EditorStep \/ RetryStep \/ WorkerStep]_vars /\ Fairness
=============================================================================

----------------------- MODULE BuildPipelineLifecycle -----------------------
(***************************************************************************)
(* The pipeline against the feature lifecycle.  The guards of the handlers *)
(* agree with the transition table about the row a transaction loaded; no  *)
(* version column makes sure that it is still the row it commits over.  So *)
(* a commit is a step of the lifecycle or a stale one, and a pipeline that *)
(* refuses stale commits implements the lifecycle, with everything else    *)
(* that may happen: orphaned jobs, replayed and refused callbacks,         *)
(* failures and crashes at every step.                                     *)
(***************************************************************************)
EXTENDS BuildPipeline

(* A transaction commits over a row that changed after it was loaded.      *)
StaleCommit ==
    /\ row' # row
    /\ \E s \in Sessions : pc[s] # "idle" /\ pc'[s] = "idle" /\ loaded[s] # row

(* A version column would refuse every stale commit.                       *)
FreshSpec == Init /\ [][Next /\ ~StaleCommit]_vars

Lifecycle == INSTANCE FeatureLifecycle
             WITH status <- row.status, active <- (row.job # 0), approver <- row.approver

(* Every committed change of the row is a step of the lifecycle: the      *)
(* guards of api.py, feature_service.py and jobs.py agree with the         *)
(* transition table whenever they decide on the current row.               *)
ImplementsLifecycle == Lifecycle!LifecycleSpec

(* In the statuses that no build is behind, active_build_job_id is empty. *)
JobOnlyWhileBuilding == Lifecycle!JobOnlyWhileBuilding

(* As the code is: a commit takes the row along the lifecycle, from        *)
(* whatever row the earlier commits left, unless the row changed after its *)
(* transaction loaded it.                                                  *)
LifecycleUnlessStale == [][Lifecycle!LifecycleNext \/ StaleCommit]_(Lifecycle!lifecycleVars)

(* As the code is: only a stale commit, that of a worker that picked its   *)
(* job up before the API committed included, leaves a job id behind in a   *)
(* status that no build is behind.                                         *)
JobLeftOnlyByStale == [][JobOnlyWhileBuilding => JobOnlyWhileBuilding' \/ StaleCommit]_vars
=============================================================================

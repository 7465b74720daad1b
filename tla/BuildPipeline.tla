---------------------------- MODULE BuildPipeline ----------------------------
(***************************************************************************)
(* One feature request on its way through the orchestrator: the API's      *)
(* request handlers, the execution callbacks and the build workers, each   *)
(* running a database transaction of its own on the same row.              *)
(*                                                                         *)
(* A transaction SELECTs the row (loaded), changes its own copy (local)    *)
(* and writes at COMMIT the columns that differ from what it loaded.  The  *)
(* database runs READ COMMITTED and the row has no version column, so      *)
(* nothing else relates what a transaction decided on to what it writes    *)
(* over.  Only the build handlers take a row lock (FOR UPDATE); a COMMIT   *)
(* of any other transaction waits for it.  Callbacks are coroutines of one *)
(* event loop per API process and make blocking database calls on it.      *)
(***************************************************************************)
EXTENDS Naturals, Sequences, StateMachine

CONSTANTS
    Requests,     \* requests an API process may be serving
    Workers,      \* RQ worker processes
    Procs,        \* API processes
    ProcOf,       \* the API process that serves each request
    Users,        \* people who build and approve
    Keys,         \* idempotency keys callbacks arrive with
    Events,       \* callback events the external runner may send
    Failures,     \* what may go wrong in the environment
    MaxJobs,      \* bound: builds enqueued
    MaxVersion,   \* bound: spec versions
    None          \* no lock holder, no receipt, no user

AllEvents   == {"pr_opened", "preview_ready", "build_failed", "preview_failed"}
AllFailures == {"github", "queue", "workspace", "crash"}
Sessions    == Requests \cup Workers

ASSUME SessionsAssumption == Requests \cap Workers = {} /\ None \notin Sessions
ASSUME ProcsAssumption    == ProcOf \in [Requests -> Procs]
ASSUME ConfigAssumption   == Events \subseteq AllEvents /\ Failures \subseteq AllFailures
ASSUME BoundsAssumption   == MaxJobs \in Nat /\ MaxVersion \in Nat \ {0}
ASSUME NoneAssumption     == None \notin Users /\ None \notin AllEvents

VARIABLES
    row,       \* the committed feature_requests row
    receipts,  \* integration_callback_receipts: key -> event, or None
    runs,      \* feature_runs in creation order
    lock,      \* holder of the row's FOR UPDATE lock
    queued,    \* build messages in the RQ queue (each names only the feature)
    jobs,      \* RQ job ids handed out so far
    loop,      \* process -> the callback running on its event loop
    pc,        \* session -> where its transaction is
    loaded,    \* session -> the row as it was SELECTed
    local,     \* session -> the row as the session sees it now
    call,      \* session -> the callback it serves
    held,      \* session -> the run it will write and the status it loaded
    acks       \* deliveries answered with 200: <<key, event>>

vars == <<row, receipts, runs, lock, queued, jobs, loop, pc, loaded, local, call, held, acks>>

-----------------------------------------------------------------------------
(* Records.  Job id 0 stands for the empty active_build_job_id.            *)

Job  == 0 .. MaxJobs
SpecRecord == [version : 1 .. MaxVersion, valid : BOOLEAN, builder : Users \cup {None}]
Row  == [status : Status, job : Job, spec : SpecRecord, approver : Users \cup {None}]
Run  == [job : Job, status : {"QUEUED", "SUCCEEDED", "FAILED"}]
Call == [key : Keys, event : Events]
PC   == {"idle", "writing", "build_locked", "build_enqueued", "closing",
         "cb_read", "cb_await", "cb_commit", "building"}
Held == [at : Nat, was : {"QUEUED", "SUCCEEDED", "FAILED", "none"}]

NoHeld  == [at |-> 0, was |-> "none"]

(* create_feature_request: NEW and its validation are one transaction. *)
CreatedRow(valid) ==
    [status |-> StatusAfterValidation("NEW", valid), job |-> 0,
     spec |-> [version |-> 1, valid |-> valid, builder |-> None], approver |-> None]

(* What an idle session has loaded; never read. *)
NoRow == CreatedRow(FALSE)

TypeOK ==
    /\ row \in Row
    /\ receipts \in [Keys -> Events \cup {None}]
    /\ runs \in Seq(Run)
    /\ lock \in Requests \cup {None}
    /\ queued \in Nat /\ jobs \in Job
    /\ loop \in [Procs -> Requests \cup {None}]
    /\ pc \in [Sessions -> PC]
    /\ loaded \in [Sessions -> Row] /\ local \in [Sessions -> Row]
    /\ call \in [Sessions -> Call \cup {None}]
    /\ held \in [Sessions -> Held]
    /\ acks \subseteq Keys \X Events

Init ==
    /\ \E valid \in BOOLEAN : row = CreatedRow(valid)
    /\ receipts = [k \in Keys |-> None]
    /\ runs = << >>
    /\ lock = None
    /\ queued = 0 /\ jobs = 0
    /\ loop = [p \in Procs |-> None]
    /\ pc = [s \in Sessions |-> "idle"]
    /\ loaded = [s \in Sessions |-> NoRow] /\ local = [s \in Sessions |-> NoRow]
    /\ call = [s \in Sessions |-> None]
    /\ held = [s \in Sessions |-> NoHeld]
    /\ acks = {}

-----------------------------------------------------------------------------
(* Transactions.                                                           *)

(* The unit of work emits a column only when its value changed. *)
Written(cur, was, now) == IF now # was THEN now ELSE cur

Merge(cur, was, now) ==
    [status   |-> Written(cur.status, was.status, now.status),
     job      |-> Written(cur.job, was.job, now.job),
     spec     |-> Written(cur.spec, was.spec, now.spec),
     approver |-> Written(cur.approver, was.approver, now.approver)]

(* COMMIT writes the row and inserts events that reference it. *)
CanWrite(s) == lock \in {None, s}

Goto(s, label) == pc' = [pc EXCEPT ![s] = label]

Begin(s, label, new) ==
    /\ pc[s] = "idle"
    /\ Goto(s, label)
    /\ loaded' = [loaded EXCEPT ![s] = row]
    /\ local' = [local EXCEPT ![s] = new]

End(s) ==
    /\ Goto(s, "idle")
    /\ loaded' = [loaded EXCEPT ![s] = NoRow]
    /\ local' = [local EXCEPT ![s] = NoRow]
    /\ call' = [call EXCEPT ![s] = None]
    /\ held' = [held EXCEPT ![s] = NoHeld]

Unlock(s) == lock' = IF lock = s THEN None ELSE lock
LeaveLoop(s) == loop' = [p \in Procs |-> IF loop[p] = s THEN None ELSE loop[p]]

(* The run a session holds, written with its new status. *)
RunWritten(s, new) ==
    IF held[s].at \in DOMAIN runs /\ held[s].was # new
    THEN [runs EXCEPT ![held[s].at].status = new]
    ELSE runs

-----------------------------------------------------------------------------
(* Handlers that read the row without a lock and write it back.            *)

NewVersion(r) == [r EXCEPT !.spec = [r.spec EXCEPT !.version = @ + 1]]

Validated(r, valid) ==
    [r EXCEPT !.spec = [r.spec EXCEPT !.valid = valid],
              !.status = StatusAfterValidation(r.status, valid)]

(* update_feature_spec followed by refresh_spec_validation. *)
PatchSpec(s, valid) ==
    /\ row.status \notin Terminal
    /\ row.spec.version < MaxVersion
    /\ Begin(s, "writing", Validated(NewVersion(row), valid))
    /\ UNCHANGED <<row, receipts, runs, lock, queued, jobs, loop, call, held, acks>>

(* refresh_spec_validation on request. *)
Revalidate(s, valid) ==
    /\ Begin(s, "writing", Validated(row, valid))
    /\ UNCHANGED <<row, receipts, runs, lock, queued, jobs, loop, call, held, acks>>

(* mark_product_approved. *)
Approve(s, user) ==
    /\ CanPerform(row.status, "approve")
    /\ Begin(s, "writing", [row EXCEPT !.status = ActionResult["approve"], !.approver = user])
    /\ UNCHANGED <<row, receipts, runs, lock, queued, jobs, loop, call, held, acks>>

CommitWrite(s) ==
    /\ pc[s] = "writing"
    /\ CanWrite(s)
    /\ row' = Merge(row, loaded[s], local[s])
    /\ End(s)
    /\ UNCHANGED <<receipts, runs, lock, queued, jobs, loop, acks>>

-----------------------------------------------------------------------------
(* start_build: SELECT ... FOR UPDATE, enqueue, then commit.               *)

(* Mutation: the row is selected without FOR UPDATE. *)
BuildLockMutant(s) ==
    /\ row.status = "READY_FOR_BUILD" => jobs < MaxJobs
    /\ Begin(s, "build_locked", row)
    /\ UNCHANGED <<row, receipts, runs, lock, queued, jobs, loop, call, held, acks>>

BuildLock(s) ==
    /\ lock = None
    /\ row.status = "READY_FOR_BUILD" => jobs < MaxJobs
    /\ Begin(s, "build_locked", row)
    /\ lock' = s
    /\ UNCHANGED <<row, receipts, runs, queued, jobs, loop, call, held, acks>>

(* Already BUILDING: the API handler logs the reuse and commits. *)
BuildReuse(s) ==
    /\ pc[s] = "build_locked"
    /\ loaded[s].status = "BUILDING"
    /\ End(s) /\ Unlock(s)
    /\ UNCHANGED <<row, receipts, runs, queued, jobs, loop, acks>>

(* The handler raises, or redirects, with its transaction still open. *)
BuildReject(s) ==
    /\ pc[s] = "build_locked"
    /\ loaded[s].status # "READY_FOR_BUILD" \/ "github" \in Failures
    /\ Goto(s, "closing")
    /\ UNCHANGED <<row, receipts, runs, lock, queued, jobs, loop, loaded, local, call, held, acks>>

(* get_db closes the session once the event loop schedules it. *)
CloseSession(s) ==
    /\ pc[s] = "closing"
    /\ loop[ProcOf[s]] = None
    /\ End(s) /\ Unlock(s)
    /\ UNCHANGED <<row, receipts, runs, queued, jobs, loop, acks>>

Started(r, job, user) ==
    [r EXCEPT !.status = ActionResult["start_build"], !.job = job,
              !.spec = [r.spec EXCEPT !.builder = user]]

(* The job is in the queue before the row says BUILDING. *)
BuildEnqueue(s, user) ==
    /\ pc[s] = "build_locked"
    /\ loaded[s].status = "READY_FOR_BUILD"
    /\ queued' = queued + 1
    /\ jobs' = jobs + 1
    /\ local' = [local EXCEPT ![s] = Started(loaded[s], jobs + 1, user)]
    /\ Goto(s, "build_enqueued")
    /\ UNCHANGED <<row, receipts, runs, lock, loop, loaded, call, held, acks>>

BuildEnqueueFails(s) ==
    /\ pc[s] = "build_locked"
    /\ loaded[s].status = "READY_FOR_BUILD"
    /\ "queue" \in Failures
    /\ End(s) /\ Unlock(s)
    /\ UNCHANGED <<row, receipts, runs, queued, jobs, loop, acks>>

(* Mutation: the handler waits for the job before it commits. *)
BuildCommitMutant(s) ==
    /\ pc[s] = "build_enqueued"
    /\ queued = 0 /\ \A w \in Workers : pc[w] = "idle"
    /\ row' = Merge(row, loaded[s], local[s])
    /\ runs' = Append(runs, [job |-> local[s].job, status |-> "QUEUED"])
    /\ End(s) /\ Unlock(s)
    /\ UNCHANGED <<receipts, queued, jobs, loop, acks>>

BuildCommit(s) ==
    /\ pc[s] = "build_enqueued"
    /\ row' = Merge(row, loaded[s], local[s])
    /\ runs' = Append(runs, [job |-> local[s].job, status |-> "QUEUED"])
    /\ End(s) /\ Unlock(s)
    /\ UNCHANGED <<receipts, queued, jobs, loop, acks>>

-----------------------------------------------------------------------------
(* execution_callback: a coroutine on the event loop of its process.       *)

(* Mutation: a late build_failed is applied to a feature with a preview. *)
AcceptsMutant(event, status) ==
    CASE event = "pr_opened"      -> status \in {"BUILDING", "PR_OPENED"}
      [] event = "preview_ready"  -> status \in {"BUILDING", "PR_OPENED", "PREVIEW_READY"}
      [] event = "build_failed"   -> status \in {"BUILDING", "PR_OPENED", "PREVIEW_READY", "FAILED_BUILD"}
      [] event = "preview_failed" -> status \in {"PR_OPENED", "FAILED_PREVIEW"}

(* _apply_execution_callback: the statuses an event may be applied in, and  *)
(* the one it leads to (preview_ready passes BUILDING through PR_OPENED).   *)
Accepts(event, status) ==
    CASE event = "pr_opened"      -> status \in {"BUILDING", "PR_OPENED"}
      [] event = "preview_ready"  -> status \in {"BUILDING", "PR_OPENED", "PREVIEW_READY"}
      [] event = "build_failed"   -> status \in {"BUILDING", "PR_OPENED", "FAILED_BUILD"}
      [] event = "preview_failed" -> status \in {"PR_OPENED", "FAILED_PREVIEW"}

CallbackStatus ==
    [pr_opened |-> "PR_OPENED", preview_ready |-> "PREVIEW_READY",
     build_failed |-> "FAILED_BUILD", preview_failed |-> "FAILED_PREVIEW"]

Applied(r, event) ==
    [r EXCEPT !.status = CallbackStatus[event],
              !.job = IF event = "pr_opened" THEN r.job ELSE 0]

CallbackRunStatus(event) ==
    IF event \in {"pr_opened", "preview_ready"} THEN "SUCCEEDED" ELSE "FAILED"

(* A receipt another transaction has inserted and not committed yet. *)
Inserted(s, k) == pc[s] \in {"cb_await", "cb_commit"} /\ call[s].key = k

(* _latest_run_for_feature. *)
LatestRun == IF runs = << >> THEN NoHeld ELSE [at |-> Len(runs), was |-> runs[Len(runs)].status]

(* Mutation: a known key is answered 200 whatever the payload. *)
ReplayedMutant(k, e) == acks' = acks \cup {<<k, e>>}

(* The key has a receipt: answer 200 when the payload is the same, else 409. *)
Replayed(k, e) == acks' = IF receipts[k] = e THEN acks \cup {<<k, e>>} ELSE acks

CallbackReplay(s, k, e) ==
    /\ pc[s] = "idle" /\ loop[ProcOf[s]] = None
    /\ receipts[k] # None
    /\ Replayed(k, e)
    /\ UNCHANGED <<row, receipts, runs, lock, queued, jobs, loop, pc, loaded, local, call, held>>

CallbackRead(s, k, e) ==
    /\ loop[ProcOf[s]] = None
    /\ receipts[k] = None
    /\ Begin(s, "cb_read", row)
    /\ loop' = [loop EXCEPT ![ProcOf[s]] = s]
    /\ call' = [call EXCEPT ![s] = [key |-> k, event |-> e]]
    /\ UNCHANGED <<row, receipts, runs, lock, queued, jobs, held, acks>>

(* INSERT of the receipt: waits while another transaction has the key. *)
CanInsert(s) ==
    /\ pc[s] = "cb_read"
    /\ \A t \in Requests : t # s => ~Inserted(t, call[s].key)

(* IntegrityError: the other delivery committed first. *)
CallbackConflict(s) ==
    /\ CanInsert(s)
    /\ receipts[call[s].key] # None
    /\ Replayed(call[s].key, call[s].event)
    /\ End(s) /\ LeaveLoop(s)
    /\ UNCHANGED <<row, receipts, runs, lock, queued, jobs>>

(* ValueError: the receipt is rolled back with everything else. *)
CallbackRefused(s) ==
    /\ CanInsert(s)
    /\ receipts[call[s].key] = None
    /\ ~Accepts(call[s].event, loaded[s].status)
    /\ End(s) /\ LeaveLoop(s)
    /\ UNCHANGED <<row, receipts, runs, lock, queued, jobs, acks>>

(* Mutation: no unique constraint on the receipt's key. *)
CallbackApplyMutant(s, yields) ==
    /\ CanInsert(s)
    /\ Accepts(call[s].event, loaded[s].status)
    /\ yields => call[s].event \in {"pr_opened", "preview_ready"}
    /\ local' = [local EXCEPT ![s] = Applied(loaded[s], call[s].event)]
    /\ held' = [held EXCEPT ![s] = LatestRun]
    /\ IF yields THEN Goto(s, "cb_await") /\ LeaveLoop(s)
                 ELSE Goto(s, "cb_commit") /\ UNCHANGED loop
    /\ UNCHANGED <<row, receipts, runs, lock, queued, jobs, loaded, call, acks>>

(* Applied; updating the PR body may yield the loop (the await).           *)
CallbackApply(s, yields) ==
    /\ CanInsert(s)
    /\ receipts[call[s].key] = None
    /\ Accepts(call[s].event, loaded[s].status)
    /\ yields => call[s].event \in {"pr_opened", "preview_ready"}
    /\ local' = [local EXCEPT ![s] = Applied(loaded[s], call[s].event)]
    /\ held' = [held EXCEPT ![s] = LatestRun]
    /\ IF yields THEN Goto(s, "cb_await") /\ LeaveLoop(s)
                 ELSE Goto(s, "cb_commit") /\ UNCHANGED loop
    /\ UNCHANGED <<row, receipts, runs, lock, queued, jobs, loaded, call, acks>>

CallbackResume(s) ==
    /\ pc[s] = "cb_await"
    /\ loop[ProcOf[s]] = None
    /\ loop' = [loop EXCEPT ![ProcOf[s]] = s]
    /\ Goto(s, "cb_commit")
    /\ UNCHANGED <<row, receipts, runs, lock, queued, jobs, loaded, local, call, held, acks>>

CallbackCommit(s) ==
    /\ pc[s] = "cb_commit"
    /\ CanWrite(s)
    /\ row' = Merge(row, loaded[s], local[s])
    /\ receipts' = [receipts EXCEPT ![call[s].key] = call[s].event]
    /\ runs' = RunWritten(s, CallbackRunStatus(call[s].event))
    /\ acks' = acks \cup {<<call[s].key, call[s].event>>}
    /\ End(s) /\ LeaveLoop(s)
    /\ UNCHANGED <<lock, queued, jobs>>

-----------------------------------------------------------------------------
(* kickoff_build: one transaction from the SELECT to the end of the build. *)

RunsOf(j) == {i \in DOMAIN runs : runs[i].job = j}

(* Mutation: the worker never looks for the run the API recorded. *)
RunForJobMutant(j) == NoHeld

(* The newest run recorded for the row's job; none when it has no job id. *)
RunForJob(j) ==
    IF j = 0 \/ RunsOf(j) = {} THEN NoHeld
    ELSE LET i == CHOOSE i \in RunsOf(j) : \A n \in RunsOf(j) : n <= i
         IN  [at |-> i, was |-> runs[i].status]

(* Mutation: a worker refuses a feature that is BUILDING already. *)
CanStartMutant(status) == CanPerform(status, "start_build")

(* Any status but BUILDING must be one a build may start from. *)
CanStart(status) == status = "BUILDING" \/ CanPerform(status, "start_build")

WorkerStart(w) ==
    /\ queued > 0
    /\ CanStart(row.status)
    /\ queued' = queued - 1
    /\ Begin(w, "building", [row EXCEPT !.status = "BUILDING"])
    /\ held' = [held EXCEPT ![w] = RunForJob(row.job)]
    /\ UNCHANGED <<row, receipts, runs, lock, jobs, loop, call, acks>>

(* Invalid transition: rollback, and RQ files the job as failed. *)
WorkerReject(w) ==
    /\ pc[w] = "idle"
    /\ queued > 0
    /\ ~CanStart(row.status)
    /\ queued' = queued - 1
    /\ UNCHANGED <<row, receipts, runs, lock, jobs, loop, pc, loaded, local, call, held, acks>>

(* An exception, or RQ's job timeout, before the try block: rollback,      *)
(* nothing is recorded.                                                    *)
WorkerUnprepared(w) ==
    /\ pc[w] = "building"
    /\ "workspace" \in Failures
    /\ End(w)
    /\ UNCHANGED <<row, receipts, runs, lock, queued, jobs, loop, acks>>

(* Every other end of the build clears the job id and closes the run. *)
WorkerCommit(w, status, result) ==
    /\ pc[w] = "building"
    /\ CanWrite(w)
    /\ row' = Merge(row, loaded[w], [local[w] EXCEPT !.status = status, !.job = 0])
    /\ runs' = IF held[w].at = 0
               THEN Append(runs, [job |-> loaded[w].job, status |-> result])
               ELSE RunWritten(w, result)
    /\ End(w)
    /\ UNCHANGED <<receipts, lock, queued, jobs, loop, acks>>

(* Mutation: the run's status is written to the feature. *)
WorkerMisconfiguredMutant(w) == WorkerCommit(w, "FAILED", "FAILED")

(* GitHub disabled or no target repository: fails before the runner starts. *)
WorkerMisconfigured(w) == WorkerCommit(w, ActionResult["fail_build"], "FAILED")

(* The runner opened a PR; the preview is there at once or comes later. *)
WorkerSucceeds(w) ==
    \E status \in {"PR_OPENED", "PREVIEW_READY"} : WorkerCommit(w, status, "SUCCEEDED")

(* Mutation: the exception handler leaves the status it finds. *)
WorkerFailsMutant(w) ==
    \E reached \in {"BUILDING", "PR_OPENED", "PREVIEW_READY"} : WorkerCommit(w, reached, "FAILED")

(* An exception, or the timeout, in the try block, at whatever status was  *)
(* reached by then.                                                        *)
WorkerFails(w) ==
    \E reached \in {"BUILDING", "PR_OPENED", "PREVIEW_READY"} :
        WorkerCommit(w, IF CanPerform(reached, "fail_build") THEN ActionResult["fail_build"]
                                                              ELSE reached, "FAILED")

-----------------------------------------------------------------------------
(* Crashes: the database rolls back what the process had open.             *)

Crash(S) ==
    /\ "crash" \in Failures
    /\ \E s \in S : pc[s] # "idle"
    /\ pc' = [s \in Sessions |-> IF s \in S THEN "idle" ELSE pc[s]]
    /\ loaded' = [s \in Sessions |-> IF s \in S THEN NoRow ELSE loaded[s]]
    /\ local' = [s \in Sessions |-> IF s \in S THEN NoRow ELSE local[s]]
    /\ call' = [s \in Sessions |-> IF s \in S THEN None ELSE call[s]]
    /\ held' = [s \in Sessions |-> IF s \in S THEN NoHeld ELSE held[s]]
    /\ lock' = IF lock \in S THEN None ELSE lock
    /\ loop' = [p \in Procs |-> IF loop[p] \in S THEN None ELSE loop[p]]
    /\ UNCHANGED <<row, receipts, runs, queued, jobs, acks>>

ApiCrash(p) == Crash({s \in Requests : ProcOf[s] = p})

(* The job that was running is not queued again. *)
WorkerCrash(w) == Crash({w})

-----------------------------------------------------------------------------

Request(s) ==
    \/ \E valid \in BOOLEAN : PatchSpec(s, valid) \/ Revalidate(s, valid)
    \/ \E user \in Users : Approve(s, user)
    \/ BuildLock(s)
    \/ \E k \in Keys, e \in Events : CallbackReplay(s, k, e) \/ CallbackRead(s, k, e)

Proceed(s) ==
    \/ CommitWrite(s)
    \/ BuildReuse(s) \/ BuildReject(s) \/ CloseSession(s)
    \/ \E user \in Users : BuildEnqueue(s, user)
    \/ BuildEnqueueFails(s) \/ BuildCommit(s)
    \/ CallbackConflict(s) \/ CallbackRefused(s)
    \/ \E yields \in BOOLEAN : CallbackApply(s, yields)
    \/ CallbackResume(s) \/ CallbackCommit(s)

Build(w) ==
    \/ WorkerStart(w) \/ WorkerReject(w) \/ WorkerUnprepared(w)
    \/ WorkerMisconfigured(w) \/ WorkerSucceeds(w) \/ WorkerFails(w)

Next ==
    \/ \E s \in Requests : Request(s) \/ Proceed(s)
    \/ \E w \in Workers : Build(w) \/ WorkerCrash(w)
    \/ \E p \in Procs : ApiCrash(p)

Spec == Init /\ [][Next]_vars

(* Threads, event loops and workers keep running, and the database grants  *)
(* a row lock to its waiters in turn, hence the strong form.  Nobody has   *)
(* to send a request.                                                      *)
Fairness ==
    /\ \A s \in Requests : SF_vars(Proceed(s))
    /\ \A w \in Workers : SF_vars(Build(w))

FairSpec == Spec /\ Fairness
-----------------------------------------------------------------------------
(* Properties.                                                             *)

(* While a build request holds the row lock, from its SELECT FOR UPDATE in *)
(* start_build to its commit, rollback or close, the row it decides on is  *)
(* the committed one: no handler, callback or worker commits in between.   *)
LockedRowIsCurrent ==
    \A s \in Requests :
        pc[s] \in {"build_locked", "build_enqueued", "closing"} => lock = s /\ loaded[s] = row

(* However build requests, stale writers and workers interleave, the       *)
(* committed status becomes BUILDING only from READY_FOR_BUILD and only    *)
(* together with a job id never used before and the QUEUED run of that job. *)
StartsOnce ==
    row'.status = "BUILDING" /\ row.status # "BUILDING" =>
        /\ row.status = "READY_FOR_BUILD"
        /\ row'.job = jobs /\ RunsOf(jobs) = {}
        /\ \E i \in DOMAIN runs' : runs'[i] = [job |-> jobs, status |-> "QUEUED"]
BuildStartsOnce == [][StartsOnce]_vars

(* The run ledger has one run for the job the row names, and never two for *)
(* one job, although the worker adds a run of its own when it finds none.  *)
OneRunPerJob ==
    /\ row.job # 0 => RunsOf(row.job) # {}
    /\ \A i, n \in DOMAIN runs : runs[i].job = runs[n].job /\ runs[i].job # 0 => i = n

(* A feature that says BUILDING has somebody to move it on: a message in   *)
(* the queue or a worker in its transaction.  Only a crash or an exception *)
(* before the worker's try block may leave it behind.                      *)
BuildingHasABuilder ==
    row.status = "BUILDING" /\ Failures \cap {"workspace", "crash"} = {} =>
        queued > 0 \/ \E w \in Workers : pc[w] = "building"

(* A sender that was answered 200 can rely on it: the receipt of its key   *)
(* holds its payload, also when two deliveries of a key race in two API    *)
(* processes with different payloads.                                      *)
AnsweredMeansRecorded == \A a \in acks : receipts[a[1]] = a[2]

(* A callback changes the row or a run only in the transaction that        *)
(* records its key for the first time, so a replay has no second effect.   *)
EffectIsFirst(s) ==
    pc[s] \in {"cb_read", "cb_commit"} /\ pc'[s] = "idle" /\ <<row, runs>>' # <<row, runs>> =>
        receipts[call[s].key] = None /\ receipts'[call[s].key] = call[s].event
EffectsOncePerKey == [][\A s \in Requests : EffectIsFirst(s)]_vars

(* Callback s blocks its event loop until t has committed or closed, and t  *)
(* waits for its own loop: with the row lock of a rejected build, or with  *)
(* the receipt of the same key.                                            *)
WaitsForLock(s, t) == pc[s] = "cb_commit" /\ pc[t] = "closing" /\ lock = t
WaitsForKey(s, t)  == pc[s] = "cb_read" /\ pc[t] = "cb_await" /\ call[s].key = call[t].key

(* Loops that wait for each other, or one for itself.                      *)
LoopsBlocked ==
    \E P \in (SUBSET Procs) \ {{}} : \A p \in P : \E s, t \in Requests :
        loop[p] = s /\ ProcOf[t] \in P /\ (WaitsForLock(s, t) \/ WaitsForKey(s, t))

(* A build that started is eventually no longer BUILDING: the worker that  *)
(* takes its message, or one that took an earlier message, commits another *)
(* status, whatever other handlers write meanwhile; unless a rejected      *)
(* request keeps the row lock because its session is never closed.         *)
BuildSettles ==
    row.status = "BUILDING" ~> row.status # "BUILDING" \/ (LoopsBlocked /\ lock # None)

(* Every request is eventually answered, although requests wait for the    *)
(* row lock, callbacks for each other's receipts, and sessions for the     *)
(* event loop to close them; unless event loops wait for each other in one *)
(* of the two ways above.                                                  *)
RequestsAnswered == \A s \in Requests : pc[s] # "idle" ~> pc[s] = "idle" \/ LoopsBlocked

-----------------------------------------------------------------------------
(* What the documentation says that the code does not do: a run finds the *)
(* counterexample.                                                         *)

(* CLAUDE_CODE_AGENT.md:145: every transition is guarded, so a commit      *)
(* takes the committed status along the table, in at most the three steps  *)
(* the worker makes in one transaction.                                    *)
TransitionsGuarded ==
    [][LET After(S) == UNION {Successors(a) : a \in S}
           one == Successors(row.status)
       IN  row'.status \in {row.status} \cup one \cup After(one) \cup After(After(one))]_vars
=============================================================================

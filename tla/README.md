# Feature Factory orchestrator in TLA+

The repository is an orchestrator that turns Slack and web requests into pull
requests: an intake dialogue in Slack collects a spec, a validated spec is built
by a queue job that runs a code runner, an external runner reports pull requests
and previews through signed callbacks, a reviewer approves.  This directory
models the parts of it where several processes or threads share state or where
an outside service may fail half-way, checks the models with TLC and proves,
with TLAPS, every safety property that a passing run checks and one refinement
each of the pipeline and of the code runner.

All paths below are relative to `src/orchestrator/app/` unless they start with
`docs/` or name a file of the repository's root.

## 1. Inventory

| Component | State | Operations | Talks to |
|---|---|---|---|
| status machine (`state_machine.py`) | none | `validate_transition`, `perform_action` | every handler |
| feature service and handlers (`services/feature_service.py`, `api/routes/api.py`, `api/routes/ui.py`) | row of `feature_requests`, `feature_events` | create, update spec, revalidate, approve, start build | database, Redis queue |
| execution callbacks (`api/routes/api.py:674`) | `integration_callback_receipts`, the row, the newest run | one coroutine per delivery | database, Slack, GitHub |
| build worker (`tasks/jobs.py`, `worker.py`, `queue.py`) | RQ queue, `feature_runs`, the row | `kickoff_build` | database, workspaces, code runner, GitHub, Slack |
| stale callback alerts (`cleanup_worker.py:54`, `slackbot.py:167`) | two kinds of events | scan, STOP | database, Slack |
| workspace preparation and retention (`services/workspace_service.py`, `cleanup_worker.py:33`) | directories | prepare, clean up | worker, database (retention class) |
| Slack intake (`slackbot.py`, `services/intake_*.py`) | sessions in a process cache and in a table, a queue of questions | start, answer, choose, confirm, edit, cancel, escalate, expire | Slack, model, API over HTTP |
| code runner (`services/coderunner_adapter.py`) | a clone, attempts | kickoff, verify, commit, push, open PR | subprocesses, model, GitHub |
| GitHub adapter (`services/github_adapter.py`) | none | create PR with retries, find an existing one | GitHub |
| GitHub authorisation (`services/github_user_oauth.py`, `github_auth.py`, `github_connection.py`) | connection rows, installation tokens in memory | callback, resolve, fetch, check | GitHub |
| Slack installation and posts (`services/slack_oauth.py`, `slack_retry.py`, `slack_adapter.py`) | bot tokens in a store | rotate, post with retries | Slack |
| branch catalogue (`services/branch_catalog.py`, `services/repo_indexer_adapter.py`) | four caches, a shared clone | list repositories, branches, default branch | indexer, git, GitHub |
| spec validation, model providers, costs, reviewer notification | none or counters | validate, complete, add up, post | model APIs, Slack |
| access control, configuration, health, migrations, deployment | none that changes | | |

How they interact.  Slack and the web UI only call the API (the Slack bot over
HTTP, `slackbot.py:2272`).  The API's synchronous handlers run in a thread pool,
`execution_callback` is a coroutine on the event loop.  API, workers and the
cleanup worker are separate processes whose only shared state is the database
(READ COMMITTED, one SQLAlchemy session per request or job, `autoflush=False`,
`db.py:23`), the workspace directories and the Redis queue, whose messages name
a feature and nothing else (`api/routes/api.py:597`).  The Slack bot runs in one
process (its own in socket mode, the API's in HTTP mode, `main.py:50-56`) on a
pool of threads that share module-level caches without a lock.  RQ forks for
each job, so what a job caches dies with it.

What is hard about it:

- Every handler reads the row, decides, and writes at `COMMIT` whatever columns
  changed.  Only the build handlers lock the row; no version column protects the
  others, and the worker holds its copy of the row for a whole build.
- A build is enqueued before the row that announces it commits.
- Callbacks may be repeated, reordered and late; one coroutine may be suspended
  with its transaction open while another blocks the loop.
- Workers and API processes may end at any time; RQ does not run a lost job again.
- The alert scan posts to Slack before it commits, and a post that is not answered
  is repeated.
- Slack handlers of one thread overlap: each fetches the shared session object,
  changes it and calls Slack, the model or the API, any of which may fail.
- Directories are aged by a timestamp that a running build does not refresh.
- GitHub and Slack may carry out a request whose answer is lost, and every
  client repeats such requests; tokens expire, are rotated by several processes
  and are replaced while somebody uses them.
- A cache entry may be stored by a thread that was overtaken, with another cache
  behind it.

`PROJECT.json` lists the hazards with their lines and the properties that watch
each of them.  What makes each component correct:

- *status machine and handlers*: the committed status follows the table; a build
  starts once, from `READY_FOR_BUILD`, with one job and one run; whoever holds the
  row lock decides on the current row.
- *callbacks*: an answer of 200 can be relied on, a key takes effect once, a
  redelivery is harmless.
- *worker*: the ledger has exactly one run per job; a feature that is `BUILDING`
  has somebody who moves it on, and does move on.
- *alerts*: a stale feature is reported unless the batch starves it, none has two
  events, every reminder in a thread is accounted for, and STOP lets no more than
  the reminder under way through.
- *workspaces*: no directory of a running build is removed, no two builds share a
  target, every directory goes in the end.
- *intake*: what was reviewed and confirmed is what is sent, once; a session at
  rest is stored and has a next step.
- *code runner*: a pull request is the change that was verified, one that was
  opened is not lost, its base is the branch its tree was cut from as far as the
  remote could be read, the temporary agent is deleted, every run ends.
- *GitHub authorisation*: a caller acts for its own user with the latest token,
  and an installation token lasts as long as the request it is fetched for.
- *Slack installation and posts*: the stored token is the newest; only a post
  that was not answered can appear twice.
- *catalogue*: what is offered is no staler than the caches' lifetimes allow
  together; where a stable candidate exists, the fallback for a generated default
  branch that is announced is the one the code runner picks (section 6 says when
  they differ).

## 2. Modules

| Module | Models | Depends on |
|---|---|---|
| `StateMachine` | statuses, transition table, actions, `_status_after_validation` | |
| `BuildPipeline` | one feature between API requests, callbacks and workers | `StateMachine` |
| `FeatureLifecycle` | what a feature promises an observer | `StateMachine` |
| `BuildPipelineLifecycle` | the refinement of the lifecycle by the pipeline | both |
| `StaleAlerts` | alert scan and STOP | |
| `SlackIntake` | the intake of one thread | |
| `Workspaces` | build directories and their cleanup | |
| `BranchNames` | order and choice of base branches | |
| `CodeRunner` | one call of either code runner | `BranchNames` |
| `RunnerPromise` | what a code runner promises the worker | |
| `BranchCatalog` | option caches, indexer cache, clone | `BranchNames` |
| `GitHubTokens` | connection rows, installation tokens, connection check | |
| `SlackDelivery` | token rotation and posts | |
| `MCBuildPipeline`, `MCWorkspaces`, `MCCodeRunner`, `MCBranchCatalog`, `MCGitHubTokens`, `MCSlackDelivery` | constants of the instances for TLC | the modules they are named for |
| `BuildPipelineProofs` (the refinement included), `StaleAlertsProofs`, `SlackIntakeProofs`, `WorkspacesProofs`, `CodeRunnerProofs`, `BranchCatalogProofs`, `GitHubTokensProofs`, `SlackDeliveryProofs` | proofs | the modules they are named for |

`FeatureLifecycle` and `RunnerPromise` are abstract specifications.  The other
components meet through small interfaces, and each models its neighbours by
what they may do: the worker's outcomes in `BuildPipeline` are those that
`RunnerPromise` allows (a pull request or none, and success only with one);
`Reclassify` in `Workspaces` and `Update` in `StaleAlerts` are the pipeline's
commits; `Sent` in `SlackIntake` is the create or patch request of the API.

### BuildPipeline

One feature is enough: no operation of this part reads one feature to write
another.  The state is the committed row (status, job, spec, approver), the
receipts, the runs in order of creation, the row lock, the number of messages in
the queue (they are all alike) and, for each *session* (a request being served or
a worker), where its transaction is, the row as it was loaded and the row as the
session has changed it.  `CommitWrite`, `BuildCommit`, `CallbackCommit` and
`WorkerCommit` merge column by column: a column the session did not change keeps
its committed value, as SQLAlchemy's UPDATE does.  A `COMMIT` waits for another
session's row lock (`CanWrite`): it updates the row or inserts events that
reference it.

| Actions | Code |
|---|---|
| `PatchSpec`, `Revalidate`, `Approve`, then `CommitWrite` | `api.py:458-504`, `api.py:647-671`, `ui.py:198-277`, `feature_service.py:236-332` |
| `BuildLock`, then `BuildReuse`, `BuildReject` and `CloseSession`, `BuildEnqueueFails`, or `BuildEnqueue` and `BuildCommit` | `api.py:507-644`, `ui.py:142-195`, `feature_service.py:351-359` |
| `CallbackReplay`; `CallbackRead`, then `CallbackConflict`, `CallbackRefused`, or `CallbackApply`, `CallbackResume`, `CallbackCommit` | `api.py:674-836` |
| `WorkerStart` or `WorkerReject`; then `WorkerUnprepared`, `WorkerMisconfigured`, `WorkerSucceeds` or `WorkerFails` | `tasks/jobs.py:268-736` |
| `ApiCrash`, `WorkerCrash` | end of a process |

The two build handlers share their actions.  They differ in one thing that
matters: for a feature that is `BUILDING` the API logs an event and commits
(`BuildReuse`), the UI redirects with its transaction open (`BuildReject`, then
`CloseSession`).  `CloseSession` needs the event loop, because FastAPI closes the
session of a dependency from there.  A callback holds the event loop of its
process from `CallbackRead` until it ends, except while it awaits GitHub.

Abstracted: URLs, messages and error texts; events, except for the lock they
wait for; users to a set of model values; job ids to a counter whose 0 is the
empty id; the spec to its version, its validity and `_last_build_actor_id`.  The
callback's lookup by PR URL or issue number finds the one feature there is.

### FeatureLifecycle and BuildPipelineLifecycle

`FeatureLifecycle` has the status, whether a job is attached, and the approver.
The code's commits are steps of it under
`status <- row.status, active <- (row.job # 0), approver <- row.approver`, or they
are *stale* (`StaleCommit`): the row changed after the transaction loaded it, and
the commit writes over what it never saw.  That is `LifecycleUnlessStale`, a
property of `Spec`, of the code as it is.  It implies `JobLeftOnlyByStale`: a job
id is left behind in a status that no build is behind only by such a commit, that
of a worker that picked its job up before the API committed included.
`FreshSpec` is the pipeline that refuses stale commits, which a version column
would give and the code does not; it implements `FeatureLifecycle`.  So all the
guards are right about the row they look at, and what is missing is a look at
whether it is still that row; `ViolationTransitions` shows what comes of it.

### StaleAlerts

The cleanup worker's run is one transaction that selects at most `MaxRows`
features, looks at each (`Skip` or `Remind`), stages an event, posts, and commits
at the end.  A post is `slack_retry`'s loop: Slack answers (`Answered`), asks to
wait (`RateLimited`), or gives no answer or a server error (`Unanswered`), in which
case the message may be in the thread already and is sent again, up to `MaxRetries`
times; `post_thread_message` logs what is left of the exception.  STOP and commits
of others may come between any two of these.  The
order in which the batch is gone through is left open, and `Update` stands for
every transaction of the pipeline that changes the row (`updated_at` has
`onupdate`, and inserting an event does not touch it).

### SlackIntake

One Slack thread with one user.  `heap` holds the session *objects*, `cache` the
one that `ACTIVE_INTAKES` refers to, `row` what `store_session` last wrote, and
`hs` the handlers, each with the object it fetched.  A step is the code between
two calls that leave the process; the store of a session belongs to the step
that changes it.  A handler is `got` (session fetched), then waits for the model
(`think`), falls back on taking the text as an answer (`capture`), posts a note
(`advance`), ends the session (`finalize`), posts the summary (`review`), waits
for the API (`send`) or drops the session (`drop`).

| Actions | Code |
|---|---|
| `Start`, `StartUpdate`, `Receive`, `Expire` | `/prfactory`, *Add more context*, `get_session`, the two hours of `intake_session.py` |
| `MessageCancel`, `MessageIgnored`, `ChooseField`, `EditAnswer`, `MessageStranded`, `RepoWhileWaiting`, `ReconnectChecked`, `Affirm`, `AskModel`, `CaptureAnswer` | the message handler and `capture_field_answer` |
| `ModelAsks`, `ModelFinishes`, `ModelCancels`, `ModelFails` | what follows the intake router's answer |
| `ConfirmSpec`, `EditField`, `CancelIntake`, `ToggleMode`, `ConnectGithub`, `EscalateHuman`, `EscalateFrontier`, `ShowDropdown`, `SelectRepo`, `SelectBranch` | the button and dropdown handlers |
| `Advance`, `Summarise`, `SendSpec`, `SendPatch`, `NothingToSend`, `Review`, `SlackFails`, `Sent`, `SendFails`, `Dropped` | the next question or `_finalize_*` |
| `Crash` | end of the process |

The variable `disturbed` records what a careful user alone does not cause:
handlers that overlapped, a crash, a failed write or post, a spec changed after
its summary (`late`), a click on the buttons of an old summary while a question is
open again (`early`), a change of mode, an answer of the model or an update that
leaves only questions that no longer apply (`moot`), a session that outlived its
two hours while a handler held it (`expired`).  The row gets the session as it is
when it is written: `ToggleMode` writes it before questions that no longer apply
are dropped from the queue, unless it goes on to show a dropdown, so row and
object may differ by such questions (`Pruned`).  Each property names
exactly those disturbances under which it may fail, so what it says without them,
and under the others, is checked. Abstracted: texts are members of `Texts`, those
with a slash (`Repos`) stand for repository links; the model is any answer;
Slack's retries of an event are further events, since nothing removes duplicates.
The bolt client of `slackbot.py` raises when a post fails (`SlackFails`); the
adapter of `slack_adapter.py` only logs.

### Workspaces

`info` gives each directory its feature, age, whether it was made in the current
second and whether its target is empty; `older` orders the directories by
modification time, which `candidates.sort` uses.  `Prepare` is
`prepare_workspace`: the name has the time in seconds and `mkdir` accepts an
existing directory, so two builds of one feature in a second share one, and the
second fails at `CloneTarget`, which wants an empty target.  Failing reference
snapshots change nothing that is modelled.  `ScanStart`, `Keep`, `Remove` and
`RemoveFails` are the cleanup run, which reads the class of a feature anew for each
of its directories: the session's identity map holds rows weakly and the resolver
keeps no reference (`cleanup_worker.py:40-42`).  The retentions of the code (168 h
with a pull request, 12 h failed, 24 h otherwise, at least 1 h) all exceed RQ's
job timeout of 1800 s: that is the assumption `BuildLimit < Retention[c]`.

### BranchNames, CodeRunner and RunnerPromise

`BranchNames` has `stable_branch_fallback` and `sort_branch_names_for_selection`
as operators; code runner and catalogue hold a copy of the rules each.
`CodeRunner` is one call of `OpenCodeCodeRunnerAdapter` or of the native
runner, from the clone to the pull request, one action per stage (clone,
prepare, add agent, ask, look for changes, clean up, check, verify, commit,
push, post, look up).  A tree is told by what it holds besides the base branch:
how many changes of the model, whether the install command left files, whether
the verification command did.  `commits` says who has committed, because
`_repo_has_changes` compares commits by their ids: an empty commit of the agent, or
changes of it that cancel out, count as a change.  The native runner looks only
after its loop (`Status`), at a tree in which a later patch may have taken back the
earlier ones and the verification command may have left files.  `base` is the
branch the pull request goes to, `cut` the one the tree was cut from: where the
fallback for a generated default branch cannot be checked out after the clone,
`_prepare_target_repo` returns it all the same, and they differ.  `known` records
what the code could read of the remote when it chose.  Each read of git may fail;
GitHub may carry out a request whose answer is lost (`Unanswered`); `Raise` is
any other exception, RQ's timeout included, and `Die` a killed worker.
`PromiseKept` is the refinement `accepted <- the verified change, pr <- the pull
request's change`: at most one pull request, of an accepted change, and success
only with one.

### BranchCatalog

Content is told by its age, what GitHub held that many ticks ago, so the model
needs no clock.  An entry is stamped with the time its fetch *began* and is gone
when its stamp reaches `Ttl`; `Kept` therefore stores nothing for a fetch that
took longer.  Threads run `Ask`, `Index`, `Suggest`, `Suggested`, `Token`, `Sync`,
`Synced`, `Api`, `Answered`, one for each call that leaves the process, and store
or evict entries without a lock.  A listing never holds a name twice, because the
code removes repetitions (`branch_catalog.py:288`); `CatalogAssumption` says so of
`Listings`.  Not modelled: a `.git` directory left half-made by a killed clone,
and reading the default branch without a look at its lifetime (`default_cached`),
which only affects the order of a list.

### GitHubTokens

One Slack user with a row per team and one for all teams; a token is the number
of the callback that stored it, and `later` relates a row to those that were
updated before it (`updated_at` orders them).  `Connect` is the OAuth callback,
which runs on the event loop of the one API process (`main.py:104-131`) and so
overlaps no other; several API workers would let two of them mix the columns of
one row.  `Restart` is a new encryption key: rows become unreadable.  `GetToken`,
`Read`, `Touch` resolve a user's token, `Cache`, `Lock`, `Locked`, `Fetch`,
`Fetched` an installation's, and `Check`, `Answer` are the connection check.  Time
passes for installation tokens only (`Tick`).

### SlackDelivery

Processes that share one installation store: `Post` finds the bot and, close to
its expiry, `Rotate` exchanges the refresh token, `Save` stores the result and
`Retry` repeats a post after a rate limit or a missing answer.  Slack takes only
the newest refresh token, once.  `Die` ends a process anywhere.

## 3. Runs

| Run | Bounds | Shows |
|---|---|---|
| `PipelineBuilds` | 2 build requests or writers, 2 workers, 2 jobs, GitHub and queue failures | each build starts once and under the lock; exact ledger; a builder for each `BUILDING` feature; only stale commits leave the lifecycle |
| `PipelineCallbacks` | 2 requests in 2 API processes, 1 worker, 1 key with 2 payloads, crashes and failing workspaces, 2 spec versions | answers are recorded; one effect per key |
| `PipelineLifecycle` | 2 requests, 1 worker, 4 events, 2 keys, all failures, 2 jobs, 2 spec versions; current rows only | well-formed states, refinement of the lifecycle |
| `PipelineLiveness` | 2 requests on one event loop, 1 worker, 1 job, 1 callback event, queue failures | builds settle and requests are answered, but for two ways in which the loop waits for itself |
| `StaleAlerts` | 2 features of which 1 has a thread, batch of 1, 1 retry, clock to 3, 1 rollback | one event per feature, every reminder accounted for, quiet after STOP, everything stale is reported unless starved |
| `SlackIntake` | 2 handlers at once, 4 events, 5 texts, one crash or failed write or failed post | reviewed, confirmed, one request; row and session agree; a next step |
| `Workspaces` | 1 feature, 3 directories of which 1 cannot be removed, 2 workers, batch of 2, 2 classes | running builds keep their directory and their target; removal in the end |
| `CodeRunner` | 3 attempts, 3 tries, 4 branch names, 3 remotes, 3 requested bases, every setting | verified, a change of the model, not lost, agent deleted, base and tree, termination, the promise |
| `BranchCatalog` | 2 threads, lifetime of 2 ticks, 5 names in every order of up to as many | bounded staleness; order and fallback agree |
| `GitHubTokens` | 2 threads, 2 teams, 3 callbacks, token life 3 and margin 1 | tokens are the requester's, last, and are never replaced by older ones |
| `SlackDelivery` | 3 processes, 3 rotations, token life 2, 2 retries | the store is the newest; only unanswered posts repeat |
| `ViolationTransitions` | 2 requests, 1 worker | one sentence of the documentation that the code does not keep, section 6 |

Why the bounds are enough.  Two requests let a writer be overtaken by another
and a callback be suspended while another arrives; two jobs leave a message
over; two workers let it start a second build of a feature that is being built,
which happens (`tasks/jobs.py:319` accepts `BUILDING`) and which the ledger
survives; a second payload makes races of equal and of different deliveries.
The worker accounts for a third transaction on the row.  In `PipelineLiveness`
one event loop and one callback event are enough for both deadlocks: a callback
that commits while a rejected build waits to be closed, and a redelivery that
arrives while its predecessor is suspended.  A batch of one for two features lets
an alerted or muted feature starve the other.  Two handlers are enough
for one to change a session between another's summary and its store; the fourth
event is a second click after a confirmation.  A second class makes a directory
that is kept longer fill a batch, and the third directory is the one that
waits for it.  Three rotations let a process that was overtaken twice refresh.
Three tries of a request are enough for a lost answer before a refusal and for
a last one that is lost as well.  Three rounds of patches let a later one take back
two.

`MaxJobs`, `MaxVersion`, `MaxEvents`, `MaxConnects` and `MaxGen` bound how often
something is begun (`BuildLock`, `PatchSpec`, `Receive`, `Connect` and `Rotate`
wait once they are reached), `MaxTime` and `MaxAborts` the clock and the
rollbacks of the alerts; ages in `Workspaces` and `BranchCatalog` stop counting at
the largest value that makes a difference.  Deadlock is checked in every run but
`PipelineLifecycle` (`FreshSpec` makes an overtaken session wait), `PipelineLiveness`
(the system really may stop, its event loop waiting for itself; the properties of
that run name the two ways and show that there is no other), `SlackIntake`
(the thread falls silent when its events are used up), `CodeRunner` (a call ends)
and `ViolationTransitions`.  The type invariants of `StaleAlerts`, `SlackIntake`,
`BranchCatalog`, `GitHubTokens` and `SlackDelivery` say what their variables hold
and no run lists them; all of them are proved.

### Fairness

`FairSpec` of the pipeline has strong fairness of what a session does after it
was accepted (`Proceed`) and of what a worker does (`Build`).  Threads, the loop
and RQ workers keep running and the database grants a row lock to its waiters in
turn; a waiter is enabled only while the lock is free, so weak fairness would not
say that.  Nothing makes anybody send a request, and crashes are never fair.
`BuildSettles` is checked without crashes and exceptions
before the worker's `try`: after one of those a feature does stay `BUILDING`,
which `BuildingHasABuilder` states by naming them.  Callbacks do take the event
loop in that run, and block it: `LoopsBlocked` says when loops wait for each other,
or one for itself, and both properties allow for that and for nothing else.

`StaleAlerts` has weak fairness of the scan: `cleanup_worker.main` catches every
error and goes on for ever; a post has a bounded number of attempts.  `Workspaces` has weak fairness of starting a cleanup
run and of visiting its directories for the same reason, weak fairness of the end
of each build, because RQ ends it at its timeout, and strong fairness of time,
which does not pass within a cleanup run.  `CodeRunner` has weak fairness of its
next step: every command and every request has a timeout.

## 4. Proofs

Every theorem holds for any numbers of requests, workers, processes, keys, jobs,
features, directories, handlers, texts, branches, listings, attempts, retries and
generations and any choice of events and failures, from the assumptions the
modules state about their constants: requests and workers are different sessions;
`None` is none of the values it stands beside; bounds are numbers; there is a text
to send; no listing repeats a name; every retention exceeds the job timeout.

| Theorem | Says | In |
|---|---|---|
| `TypeCorrect` | `Spec => []TypeOK` of the pipeline | `BuildPipelineProofs` |
| `LockedRowStaysCurrent` | a build request that holds the lock sees the committed row | `BuildPipelineProofs` |
| `LedgerIsExact` | `OneRunPerJob` | `BuildPipelineProofs` |
| `BuildsStartOnce` | the action property `BuildStartsOnce` | `BuildPipelineProofs` |
| `BuildersExist` | `BuildingHasABuilder` | `BuildPipelineProofs` |
| `AnswersAreRecorded` | `AnsweredMeansRecorded` | `BuildPipelineProofs` |
| `CallbacksTakeEffectOnce` | the action property `EffectsOncePerKey` | `BuildPipelineProofs` |
| `OnlyStaleCommitsLeaveTheLifecycle` | `Spec => LifecycleUnlessStale`: every commit is a lifecycle step or stale | `BuildPipelineProofs` |
| `OnlyStaleCommitsLeaveJobs` | `Spec => JobLeftOnlyByStale` | `BuildPipelineProofs` |
| `FreshPipelineImplementsLifecycle` | corollary, of a pipeline that refuses stale commits: `FreshSpec => ImplementsLifecycle`, a refinement | `BuildPipelineProofs` |
| `AlertsTyped`, `FeaturesAlertedOnce`, `RemindersAccounted`, `StopSilences` | types and the three safety properties of `StaleAlerts` | `StaleAlertsProofs` |
| `TypeCorrect`, `RestartLosesNothing`, `SummaryIsOfSession`, `OneRequestIsCreated`, `RequestsAreConfirmed`, `SessionsCanGoOn`, `RequestsAreReviewed` | types, `RowIsSession`, `AwaitsWhatWasShown`, `OneRequest`, `RequestsConfirmed`, `NextStepKnown` and the action property `ReviewedSpec` of `SlackIntake` | `SlackIntakeProofs` |
| `WorkspacesTyped`, `RunningBuildsKeepTheirDirectory`, `BuildsAreIsolated` | types and the two safety properties of `Workspaces` | `WorkspacesProofs` |
| `RunnerTyped`, `PullRequestsAreVerified`, `PullRequestsHoldAChange`, `NoPullRequestIsLost`, `AgentsAreDeleted` | types and four safety properties of `CodeRunner` | `CodeRunnerProofs` |
| `BaseMatchesTree` | what base and tree may be, generated or different from each other (`BaseFitsTree`) | `CodeRunnerProofs` |
| `RunnerKeepsPromise` | `Spec => PromiseKept`, a refinement | `CodeRunnerProofs` |
| `TypeCorrect`, `StalenessIsBounded`, `OffersInOrder` | types, `BoundedStaleness` and `OfferedInOrder` of `BranchCatalog` | `BranchCatalogProofs` |
| `TokensTyped`, `TokensActForRequester`, `TokensLast`, `ReplacedNeverBack` | types and the three safety properties of `GitHubTokens` | `GitHubTokensProofs` |
| `DeliveryTyped`, `StoreKeepsNewest`, `OnlyUnansweredRepeat` | types and the two safety properties of `SlackDelivery` | `SlackDeliveryProofs` |

The arguments.

*Pipeline.*  `LockInv` adds to the types that a lock holder's copy is the
committed row, that the holder still has room for a job and that a session in a
callback has one.  It is inductive because every commit of another session needs
the lock to be free.  `LedgerInv` adds what each session has *staged*: a build
between enqueue and commit has the newest job id, which no run has; writers and
callbacks stage no job but the one they loaded or none, and `BUILDING` only if
they loaded it; a worker that loaded a job id holds that job's run.  Without these
a stale commit could bring back anything it had read.  From `LedgerInv` and one
step follow `StartsOnce` (only `BuildCommit` can commit `BUILDING` over something
else) and, together with who holds messages, `BuilderInv`.  `ReceiptInv` says
that a receipt inserted and not yet committed is new and that no other session
has inserted its key, which is what the unique index gives.

*Lifecycle.*  `LifeInv` says of each session that the row it has staged is a
lifecycle step (or none) from the row it loaded (`Moves`), whatever that row is.
A commit either finds the loaded row still committed, so that the step that was
staged is the step that is taken, or it is stale; all other actions stutter
(`StepMoves`).  A lifecycle step keeps a job beside `BUILDING` and `PR_OPENED`
(`MovesSteady`), hence the second theorem.  The corollary adds `~StaleCommit` to
each step.

*Alerts.*  `RunInv` says that a feature is not both in the batch and staged, and
that a post is only made of a staged one; `Accounted`, that each reminder is one
that was staged and is through with its post, committed, rolled back, or an
attempt without an answer; `Quiet`, that what appeared after a STOP is the reminder
whose post was under way, and unanswered attempts.

*Slack intake.*  A step of the intake does one of a few things with the session,
whatever its button or message is called, so `NextShapes` first reduces the
thirty-odd actions: a handler begins or fetches, stumbles, drops the session,
lets it be, writes it, confirms, summarises, stores or sends, a request is
answered, the session expires, the process ends.  Each conjunct of `IInv` is then
kept shape by shape.  `BaseInv` has the types and says which objects handlers
hold, `SoloInv` that as long as no two handlers have overlapped there is one at
most, on the cached session, `ThinkInv` what a handler that waits for the model
may still find.  On these rest: `SameInv`, the row is the cached session but for
questions that no longer apply, unless a handler is about to end the session or to
show its summary; `OneInv`, after a create request the only sessions left are
updates; `ConfirmInv`, the confirmed objects, the create requests under way and the
requests sent are together no more than the confirmations; `AwaitInv`, a session
that awaits a confirmation is the one that was shown, and the one under review
the one that will be; `NextInv`, a session nobody works on awaits a confirmation
or has a question, for which `SameInv` is needed when a restart loads the row;
`ReviewInv`, what is confirmed, or about to be sent, is what was shown.  Each is
proved for exactly the disturbances its property names, so the proof also has to
show that no action adds another unseen (`DisturbedGrows`).

*Workspaces.*  A build's time is at most its limit and the age of its directory
at most that time, since only `Tick` advances either and it advances both.  A
directory that is removed is therefore older than any running build, whatever class
decided (`ExpiredIsUnused`).

*Code runner.*  From the moment a tree is accepted it no longer changes but for
the files of the verification command: `AcceptedInv` says so of the verdict and
the working tree from `status` or `commit` on, of `head` from `push` on, of the
pushed branch from `post` on and of the pull request.  `CommitsInv` says that `head` is as
cloned until somebody commits, and that the native runner's tree differs from it
where its change check passed.  `WroteInv` says what a tree without a change of the
model may still have that git can tell from the base, `AgentInv` at which steps the
agent may be up, `RetryInv` that a pull request the runner does not know of means
unanswered tries.  The refinement follows because only `Check`, `Verify`, `AskPatch`
and `VerifyPatch` accept, only `Post` opens, and what was accepted stays.
`BaseFitsTree` is inductive by itself: base and tree are chosen once, and `LookFits`
and `CloneFits` go through what could be read when they were.

*Branch catalogue.*  `IInv` follows content from one cache to the next: the
indexer's payload is no older than its stamp, an option entry no older than its
own plus a lifetime of the payload, and what a thread has found no older than the
question it asked (`FreshThread`).  Threads that were overtaken still store such
entries, which is why the bound is a sum of lifetimes and not one.  The order of
branches needs no induction over steps: `Precedes` is a strict total order on the
names of a listing (`PrecedesOrders`), so counting predecessors ranks them without
gaps (`RanksOfOrder`) and `Sorted` has each name once, in that order
(`SortedInOrder`); what precedes the rest of a set is therefore the first of it
that is offered (`FirstOffered`), and for the branches that are not generated that
is `StableFallback` (`FallbackOffered`).

*GitHub tokens.*  `RowInv` says that no row holds a token newer than the last
callback.  `ReadsServed` says of a thread on its way to a row that if its user had
a connection when it asked, the best row is still readable and its token no older
than that connection's: rows are replaced and touched, but none that cannot be
read comes before one that can (`StillServed`).  `LastsLong` says that an
installation token loses no more of its life than its thread has waited, at
most one tick; with `Life > Margin + 1` it is good when it is handed out.

*Slack posts.*  `TokenInv` says that one process at most is about to save, that it
holds the newest generation, and that the store has an older one; a process that
asks for a rotation got its generation from the store.  `LetterInv` bounds, for
each post, the unanswered attempts by the attempts and the copies in the thread by
the unanswered attempts, plus one if it was answered.

Only model-checked: liveness (`BuildSettles`, `RequestsAnswered`,
`StaleIsReported`, `EveryDirectoryGoes`, `Ends`), because the prover reasons about
neither fairness nor `ENABLED`.

## 5. Not modelled, and the plan

Left out for good: layout of messages and pages (`services/block_builders.py`,
`services/pr_description.py`), prompts and what a model says, prices, metrics,
health, migrations, start-up, access control (handlers are modelled for callers
it lets through), spec validation and reviewer notification (stateless; their
outcome is an input).  A failed commit or a lost connection in one handler only
is covered by the crash of its whole process.  `create_issue`, `comment_issue` and
`refresh_github_token` have no caller that reaches them with anything to do;
`update_pull_request_body` only fails or succeeds.

Some simplifications a reader should know of.  One feature, one thread, one user
and one workspace of Slack are modelled at a time, because no operation reads
another's.  `SlackIntake` has one fault at most in a behaviour.  `Workspaces` does
not share its workers with `BuildPipeline`: a build there is any that a worker may
run.

The plan, in order of importance:

1. A composition of `SlackIntake` and `BuildPipeline` over the API's create, patch
   and build requests, for a patch that meets a build.
2. Liveness of a session: a user who answers gets to a summary.

## 6. Known divergences

What the models show the code to do, against what its documentation, its comments
or its messages say or a reader would expect.  The first is checked by the run
`ViolationTransitions`; for the others TLC found the behaviour while the model
was written, and the properties are stated around them.

- *Transitions over a stale row.*  `CLAUDE_CODE_AGENT.md:145` asks for a guard on
  every transition.  `api/routes/api.py:758` checks a
  transition against the row as it was read, and `tasks/jobs.py:631` against the
  row as it was when the build began; a commit in between makes the
  committed status follow no arrow of the table.
- *Early pickup.*  `tasks/jobs.py:317` says that the API has made the transition
  before it enqueues.  The message is in the queue before the row commits
  (`api/routes/api.py:597` and `:635`), so a worker may find neither status nor job
  id; it starts the build by itself and adds a run of its own.
- *A failed build.*  `tasks/jobs.py:715` tells the user to add context and retry.
  No operation leads out of `FAILED_BUILD` (`services/feature_service.py:58`).
- *Approval.*  `docs/ORG_DEPLOYMENT.md:59` lets an approved feature advance to
  merge-ready states; `mark_ready_to_merge` (`services/feature_service.py:335`) has
  no caller.
- *Replayed callbacks.*  `docs/ORG_DEPLOYMENT.md:48` calls callbacks replay-safe.  A
  redelivery that arrives while its predecessor awaits GitHub
  (`api/routes/api.py:823`) blocks the event loop on the predecessor's receipt
  (`:746`), and the predecessor needs the loop.  `PipelineLiveness` reaches this
  state (`WaitsForKey`).
- *Rejected builds.*  A build request that is refused, or the UI's redirect for a
  feature that is `BUILDING` already (`api/routes/ui.py:149`), leaves its
  transaction open with the row lock until the event loop closes the session
  (`db.py:94`).  A callback of the same process that reaches its commit before that
  waits for the lock on the event loop, and the loop for it.  `PipelineLiveness`
  reaches this state too (`WaitsForLock`); from then on the process serves nothing
  and other processes wait for the row, until it is restarted.
- *Starved alerts.*  `docs/PRODUCTION_READINESS.md:10` promises an event for builds
  that remain in `PR_OPENED`.  Features that were alerted stay candidates and may
  fill the batch (`cleanup_worker.py:70`); `StaleIsReported` excepts features that
  as many older ones keep out of it as the batch has places (`Starved`), a state the
  run reaches.
- *Repeated and late reminders.*  A reminder whose post was not answered in time is
  posted again (`services/slack_retry.py:34-77`), one whose run rolled back in the
  next run, and STOP does not recall the one under way.
- *Base of a generated default branch.*  If the default branch is only found to be
  generated after the clone, the fallback is fetched and checked out
  (`services/coderunner_adapter.py:490-500`).  The clone is `--single-branch`, so the
  fetch makes no branch that `git checkout` could find; it fails, and the fallback is
  returned all the same: the pull request goes to the fallback, with the commits of
  the generated branch.  `BaseFitsTree` says when this is possible.
- *Announced base.*  Where a repository has none of the stable candidates, the
  announced branch is the first that is not generated in the order of the catalogue
  (GitHub's pages, or a worktree's branches first), the code runner's the first in the
  order of `git ls-remote`: they may differ.
- *What counts as a change.*  `services/coderunner_adapter.py:157` takes any new
  commit for a change, also an empty one, and `:1157` looks at a tree in which the
  verification command may have left files: a pull request may hold nothing of the
  model in these two cases, which `ModelWroteIt` names.
- *Lost builds.*  After a crash of the worker, or an exception before its `try`
  (`tasks/jobs.py:332`), the feature stays `BUILDING` without a job, and a build request
  reuses the job that is gone (`api/routes/api.py:561`).
- *Intake.*  Confirming an update session creates a new request.  Two quick
  confirmations may send two.  A session is dropped although its request failed
  (`slackbot.py:2858`).  `_intake_paused_reason = "human"` is never cleared.  In
  developer mode a dropdown that is used during the review changes the spec after
  its summary.  After a repository is changed by a dropdown or an edit the session
  asks for its base branch again, and the *Confirm* button of the old summary still
  sends the spec, which nobody was shown: `slackbot.py:3598` does not look at
  `_awaiting_confirmation`.  "skip" is stored as an acceptance criterion, although the question
  says that it leaves the field blank (`services/intake_helpers.py:28`).  A change
  of mode or an answer of the model may leave a session without a question that
  applies, which the next message drops.
- *Connection check.*  `services/github_connection.py:3` validates "a Slack user's
  stored GitHub token"; it takes the row that was updated last (`:273`), the
  adapters the team's row, so that a connection may be reported as working or
  expired for a token nobody will use.
- *User-wide fallback.*  `services/branch_catalog.py:447` falls back on a token
  that was stored for another team of the same user.
- *Stale default branch.*  If updating `origin/HEAD` of the shared clone fails,
  `services/branch_catalog.py:396` only logs it and caches the old one for another
  lifetime.
- *Partial removal.*  An `rmtree` that fails half-way refreshes the directory's
  age (`services/workspace_service.py:208`), which is then kept for another
  retention.
- *Pull request text.*  `tasks/jobs.py:583` calls the keyword-only
  `update_pull_request_body` with positional arguments; the `TypeError` is logged
  as a skipped enhancement.
